----------------------- MODULE MetadataPipelineProofs -----------------------
(***************************************************************************)
(* The safety of the metadata pipeline for every set of events and every   *)
(* capacity, batch size, quota and number of faults.                       *)
(***************************************************************************)
EXTENDS MetadataPipeline, FiniteSetTheorems, TLAPS

-----------------------------------------------------------------------------
(* Facts about finite sets.                                                *)

(* The sizes of two disjoint finite sets add up.                           *)
LEMMA CardinalityPlus ==
    ASSUME NEW S, IsFiniteSet(S), NEW T, IsFiniteSet(T), S \cap T = {}
    PROVE  /\ IsFiniteSet(S \cup T)
           /\ Cardinality(S) \in Nat /\ Cardinality(T) \in Nat
           /\ Cardinality(S \cup T) = Cardinality(S) + Cardinality(T)
BY FS_Union, FS_EmptySet, FS_CardinalityType

-----------------------------------------------------------------------------
(* A spool directory has finitely many bytes.                              *)
LEMMA BytesFinite ==
    ASSUME NEW f, IsSpool(f), IsFiniteSet(DOMAIN f)
    PROVE  IsFiniteSet(UNION {{s} \X f[s] : s \in DOMAIN f})
<1> DEFINE part(s) == {s} \X f[s]
           parts == {part(s) : s \in DOMAIN f}
<1>1. IsFiniteSet(parts)
  <2>1. [s \in DOMAIN f |-> part(s)] \in Surjection(DOMAIN f, parts)
    BY DEF Surjection
  <2> QED
    BY <2>1, FS_Surjection
<1>2. \A P \in parts : IsFiniteSet(P)
  <2> SUFFICES ASSUME NEW s \in DOMAIN f PROVE IsFiniteSet({s} \X f[s])
    OBVIOUS
  <2>1. IsFiniteSet({s})
    BY FS_Singleton
  <2>2. IsFiniteSet(f[s])
    BY DEF IsSpool
  <2> QED
    BY <2>1, <2>2, FS_Product
<1> QED
  BY <1>1, <1>2, FS_UNION

(* The bytes of a spool directory are a natural number (spool.rs:46-49).   *)
LEMMA BytesOfType ==
    ASSUME NEW f, IsSpool(f), IsFiniteSet(DOMAIN f)
    PROVE  BytesOf(f) \in Nat
BY BytesFinite, FS_CardinalityType DEF BytesOf

(* The least and the greatest sequence of a run of sequences.              *)
LEMMA MinMaxOfInterval ==
    ASSUME NEW lo \in Int, NEW hi \in Int, lo <= hi
    PROVE  Min(lo..hi) = lo /\ Max(lo..hi) = hi
<1>1. lo \in lo..hi /\ hi \in lo..hi
  OBVIOUS
<1>2. \A x \in lo..hi : (\A y \in lo..hi : x <= y) => x = lo
  OBVIOUS
<1>3. \A x \in lo..hi : (\A y \in lo..hi : x >= y) => x = hi
  OBVIOUS
<1>4. \A y \in lo..hi : lo <= y /\ hi >= y
  OBVIOUS
<1> QED
  BY <1>1, <1>2, <1>3, <1>4 DEF Min, Max

(* A contiguous spool directory is finite.                                 *)
LEMMA ContiguousFinite ==
    ASSUME NEW f, IsSpool(f), Contiguous(f)
    PROVE  IsFiniteSet(DOMAIN f)
<1>1. CASE DOMAIN f = {}
  BY <1>1, FS_EmptySet
<1>2. CASE DOMAIN f # {}
  <2>1. PICK lo \in DOMAIN f, hi \in DOMAIN f : DOMAIN f = lo..hi
    BY <1>2 DEF Contiguous
  <2> QED
    BY <2>1, FS_Interval DEF IsSpool
<1> QED
  BY <1>1, <1>2

(* The ends of a contiguous spool directory.                               *)
LEMMA SpoolEnds ==
    ASSUME IsSpool(files), Contiguous(files)
    PROVE  /\ max_sequence \in Nat
           /\ DOMAIN files # {} =>
                 /\ Min(DOMAIN files) \in Nat \ {0}
                 /\ DOMAIN files = Min(DOMAIN files)..max_sequence
<1>1. CASE DOMAIN files = {}
  BY <1>1 DEF max_sequence
<1>2. CASE DOMAIN files # {}
  <2>1. PICK lo \in DOMAIN files, hi \in DOMAIN files : DOMAIN files = lo..hi
    BY <1>2 DEF Contiguous
  <2>2. lo \in Nat \ {0} /\ hi \in Nat \ {0} /\ lo <= hi
    BY <2>1 DEF IsSpool
  <2>3. Min(lo..hi) = lo /\ Max(lo..hi) = hi
    BY <2>2, MinMaxOfInterval
  <2> QED
    BY <1>2, <2>1, <2>2, <2>3 DEF max_sequence
<1> QED
  BY <1>1, <1>2

(* Three steps that several actions share preserve the types.              *)
LEMMA StopWriterType ==
    ASSUME TypeOK, StopWriter, faults' \in 0..MaxFaults
    PROVE  TypeOK'
BY FS_EmptySet DEF TypeOK, StopWriter, IsSpool, projVars, ackVars

(* The answers to the barriers of a batch, and the waiters they leave for  *)
(* the projector, have their types.                                        *)
LEMMA AnswerBarrierType ==
    ASSUME TypeOK, NEW n \in Nat, AnswerBarrier(n)
    PROVE  /\ barrier' \in SUBSET BarrierCmd
           /\ reply' \in [Callers -> {"none", "durable", "projected", "ok", "err"}]
           /\ durableAcked' \in SUBSET Events
           /\ waiters' \in SUBSET Waiter
<1>1. \A b \in barrier : b.client \in Callers /\ b.covers \subseteq Events
  BY DEF TypeOK, BarrierCmd
<1>2. \A b \in barrier :
        [client |-> b.client, covers |-> b.covers, seq |-> n,
         behind |-> projected_sequence < n] \in Waiter
  BY <1>1 DEF Waiter, TypeOK
<1> QED
  BY <1>1, <1>2 DEF AnswerBarrier, TypeOK

(* What a crash of the process loses leaves the types intact.              *)
LEMMA ProcessGoneType ==
    ASSUME TypeOK, NEW img, NEW imgs, IsSpool(img),
           \A i \in imgs : IsSpool(i),
           ProcessGone(img, imgs), faults' \in 0..MaxFaults
    PROVE  TypeOK'
BY FS_EmptySet DEF TypeOK, ProcessGone, ackVars

(* No step changes the type of a variable.  Only a start needs more than   *)
(* TypeOK: that the directory is contiguous, to count it and to find its   *)
(* ends.                                                                   *)
LEMMA TypeStep ==
    TypeOK /\ SpoolShape /\ [Next]_vars => TypeOK'
<1> SUFFICES ASSUME TypeOK, SpoolShape, [Next]_vars PROVE TypeOK'
  OBVIOUS
<1> USE DEF TypeOK, procVars, writerVars, projVars, diskVars, ackVars
<1>1. CASE UNCHANGED vars
  BY <1>1 DEF vars, IsSpool
<1>2. CASE ClientStep
  <2>1. ASSUME NEW e \in Events, Send(e) PROVE TypeOK'
    <3>1. [kind |-> "event", event |-> e] \in EventCmd
      BY DEF EventCmd
    <3> QED
      BY <2>1, <3>1 DEF Send, IsSpool
  <2>2. ASSUME NEW c \in Callers, NEW projected \in BOOLEAN,
               SendBarrier(c, projected), closing' \in {"running", "barrier"}
        PROVE  TypeOK'
    <3>1. [kind |-> "barrier", client |-> c, projected |-> projected,
           covers |-> accepted] \in BarrierCmd
      BY DEF BarrierCmd
    <3>2. (IF projected THEN "projected" ELSE "durable")
            \in {"none", "durable", "projected", "ok", "err"}
      OBVIOUS
    <3>3. rx' \in Seq(EventCmd \cup BarrierCmd)
      BY <2>2, <3>1 DEF SendBarrier
    <3>4. reply' \in [Callers -> {"none", "durable", "projected", "ok", "err"}]
      BY <2>2, <3>2 DEF SendBarrier
    <3> QED
      BY <2>2, <3>3, <3>4 DEF SendBarrier, IsSpool
  <2> QED
    BY <1>2, <2>1, <2>2 DEF ClientStep, CallBarrier, BeginShutdown, Callers
<1>3. CASE WriterStep
  <2>1. ASSUME rx # <<>>, Receive PROVE TypeOK'
    <3>1. Head(rx) \in EventCmd \cup BarrierCmd /\ Tail(rx) \in Seq(EventCmd \cup BarrierCmd)
      BY <2>1
    <3>2. CASE Head(rx).kind = "event"
      <4>1. Head(rx).event \in Events
        BY <3>1, <3>2 DEF EventCmd, BarrierCmd
      <4>2. IsFiniteSet(batch \cup {Head(rx).event})
        BY FS_AddElement
      <4> QED
        BY <2>1, <3>1, <3>2, <4>1, <4>2 DEF Receive, IsSpool
    <3>3. CASE Head(rx).kind = "barrier"
      <4>1. Head(rx) \in BarrierCmd
        BY <3>1, <3>3 DEF EventCmd, BarrierCmd
      <4> QED
        BY <2>1, <3>1, <3>3, <4>1 DEF Receive, IsSpool
    <3> QED
      BY <2>1, <3>2, <3>3 DEF Receive
  <2>2. CASE CloseBatch \/ WriterDisconnected
    BY <2>2 DEF CloseBatch, WriterDisconnected, IsSpool
  <2>3. CASE AppendOverQuota
    BY <2>3, StopWriterType DEF AppendOverQuota
  <2>4. CASE AppendRename
    <3>1. IsSpool(files')
      BY <2>4 DEF AppendRename, IsSpool
    <3> QED
      BY <2>4, <3>1 DEF AppendRename
  <2>5. CASE AppendCommit
    BY <2>5, AnswerBarrierType, FS_CardinalityType, FS_EmptySet
       DEF AppendCommit
  <2>6. CASE BarrierOnly
    BY <2>6, AnswerBarrierType DEF BarrierOnly, IsSpool
  <2> QED
    BY <1>3, <2>1, <2>2, <2>3, <2>4, <2>5, <2>6 DEF WriterStep, RecvFirst, RecvMore
<1>4. CASE WaiterStep
  <2>1. PICK w \in waiters : WaiterOk(w) \/ WaiterErr(w)
    BY <1>4 DEF WaiterStep
  <2>2. w.client \in Callers /\ w.covers \subseteq Events
    BY DEF Waiter
  <2> QED
    BY <2>1, <2>2 DEF WaiterOk, WaiterErr, FinishWaiter, IsSpool
<1>5. CASE ProjectorStep \/ InsertOk \/ InsertFail
  <2>1. CASE Poll
    BY <2>1 DEF Poll, IsSpool
  <2>2. CASE SeeShutdown
    BY <2>2 DEF SeeShutdown, StopProjector, IsSpool
  <2>3. CASE RemoveFile
    <3>1. IsSpool(files')
      BY <2>3 DEF RemoveFile, IsSpool, Restrict
    <3> QED
      BY <2>3, <3>1 DEF RemoveFile
  <2>4. CASE Retire
    BY <2>4, FS_CardinalityType, FS_EmptySet DEF Retire, SaturatingSub
  <2>5. CASE InsertOk \/ InsertFail
    BY <2>5 DEF InsertOk, InsertFail, IsSpool
  <2> QED
    BY <1>5, <2>1, <2>2, <2>3, <2>4, <2>5 DEF ProjectorStep
<1>6. CASE ShutdownStep
  BY <1>6, ProcessGoneType DEF ShutdownStep, DropSink, SetShutdownFlag, Exit, IsSpool
<1>7. CASE FailureStep
  <2>1. faults' \in 0..MaxFaults
    BY <1>7, MaxFaultsAssumption
       DEF FailureStep, AppendIoError, ProjectorIoError, Kill, PowerFailure, Fault
  <2>2. CASE AppendIoError
    BY <2>1, <2>2, StopWriterType DEF AppendIoError
  <2>3. CASE ProjectorIoError
    BY <2>1, <2>3 DEF ProjectorIoError, StopProjector, IsSpool
  <2>4. CASE Kill \/ PowerFailure
    BY <2>1, <2>4, ProcessGoneType DEF Kill, PowerFailure
  <2> QED
    BY <1>7, <2>2, <2>3, <2>4 DEF FailureStep
<1>8. CASE Start
  <2>1. BytesOf(files) \in Nat
    BY BytesOfType, ContiguousFinite DEF SpoolShape
  <2>2. max_sequence \in Nat
    BY SpoolEnds DEF SpoolShape
  <2>3. DOMAIN files # {} => Min(DOMAIN files) \in Nat \ {0}
    BY SpoolEnds DEF SpoolShape
  <2> DEFINE first == IF DOMAIN files = {} THEN max_sequence + 1
                      ELSE Min(DOMAIN files)
  <2>4. first \in Nat \ {0}
    <3>1. CASE DOMAIN files = {}
      <4>1. first = max_sequence + 1
        BY <3>1, Zenon
      <4> QED
        BY <2>2, <4>1
    <3>2. CASE DOMAIN files # {}
      <4>1. first = Min(DOMAIN files)
        BY <3>2, Zenon
      <4> QED
        BY <2>3, <3>2, <4>1
    <3> QED
      BY <3>1, <3>2
  <2>5. /\ next_sequence' = max_sequence + 1 /\ sequence' = first
        /\ projected_sequence' = first - 1
    BY <1>8 DEF Start
  <2> HIDE DEF first
  <2> QED
    BY <1>8, <2>1, <2>2, <2>4, <2>5 DEF Start, IsSpool
<1> QED
  BY <1>1, <1>2, <1>3, <1>4, <1>5, <1>6, <1>7, <1>8 DEF Next

(* A directory delimited by two sequences is contiguous.                   *)
LEMMA IntervalContiguous ==
    ASSUME NEW f, NEW lo \in Int, NEW hi \in Int, DOMAIN f = lo..hi
    PROVE  Contiguous(f)
<1>1. CASE lo <= hi
  <2>1. lo \in lo..hi /\ hi \in lo..hi
    BY <1>1
  <2> QED
    BY <2>1 DEF Contiguous
<1>2. CASE lo > hi
  BY <1>2 DEF Contiguous
<1> QED
  BY <1>1, <1>2

(* A process that is gone leaves a directory of the right shape.           *)
LEMMA ProcessGoneShape ==
    ASSUME NEW imgs, NEW img \in imgs, \A i \in imgs : Contiguous(i),
           ProcessGone(img, imgs)
    PROVE  SpoolShape'
BY DEF SpoolShape, ProcessGone, Up, Contiguous

(* Every step keeps the directory between the counters of its two tasks.   *)
LEMMA ShapeStep ==
    TypeOK /\ SpoolShape /\ [Next]_vars => SpoolShape'
<1> SUFFICES ASSUME TypeOK, SpoolShape, [Next]_vars PROVE SpoolShape'
  OBVIOUS
<1> DEFINE Counters ==
             /\ next_sequence \in Nat \ {0} /\ sequence \in Nat \ {0}
             /\ durable_sequence_max \in Nat /\ projected_sequence \in Nat
             /\ wpc \in {"recv", "collect", "append", "renamed", "stopped"}
             /\ ppc \in {"poll", "loaded", "inserted", "removed", "stopped"}
             /\ closing \in {"running", "barrier", "dropped", "flagged", "down"}
<1>0. Counters
  BY DEF TypeOK
<1> USE DEF SpoolShape, Up, Heads, Tails, procVars, writerVars, projVars,
            diskVars, ackVars
<1>1. CASE UNCHANGED vars
  BY <1>1 DEF vars
<1>2. CASE ClientStep
  BY <1>2, <1>0 DEF ClientStep, CallBarrier, BeginShutdown, Send, SendBarrier
<1>3. CASE WriterStep
  <2>1. CASE RecvFirst \/ RecvMore
    BY <2>1, <1>0 DEF RecvFirst, RecvMore, Receive
  <2>2. CASE CloseBatch \/ WriterDisconnected
    BY <2>2, <1>0 DEF CloseBatch, WriterDisconnected
  <2>3. CASE AppendOverQuota
    BY <2>3, <1>0 DEF AppendOverQuota, StopWriter
  <2>4. CASE AppendRename
    <3>1. PICK lo \in Heads :
            lo <= next_sequence /\ DOMAIN files = lo..(next_sequence - 1)
      BY <2>4, <1>0 DEF AppendRename
    <3>2. lo \in Nat /\ lo <= next_sequence
      BY <2>4, <1>0, <3>1 DEF AppendRename
    <3>3. DOMAIN files' = lo..next_sequence
      BY <2>4, <1>0, <3>1, <3>2 DEF AppendRename
    <3>4. Contiguous(files')
      BY <1>0, <3>2, <3>3, IntervalContiguous
    <3>5. /\ next_sequence \notin DOMAIN files
          /\ files'[next_sequence] = batch
          /\ \A s \in DOMAIN files : files'[s] = files[s]
      BY <2>4, <1>0, <3>1, <3>2 DEF AppendRename
    <3>6. ppc \in {"loaded", "inserted"} => sequence \in DOMAIN files
      BY <2>4, <1>0, <3>1 DEF AppendRename
    <3>7. files' \in images' /\ \A img \in images' : Contiguous(img)
      BY <2>4, <3>4 DEF AppendRename
    <3>8. lo \in Heads' /\ next_sequence' \in Tails'
      BY <2>4, <1>0 DEF AppendRename
    <3>9. /\ ppc = "loaded" => pbatch' = files'[sequence']
          /\ ppc = "inserted" => files'[sequence'] \subseteq rows'
      BY <2>4, <1>0, <3>5, <3>6 DEF AppendRename
    <3> QED
      BY <2>4, <1>0, <3>1, <3>3, <3>5, <3>7, <3>8, <3>9 DEF AppendRename
  <2>5. CASE AppendCommit
    BY <2>5, <1>0 DEF AppendCommit, AnswerBarrier
  <2>6. CASE BarrierOnly
    BY <2>6, <1>0 DEF BarrierOnly, AnswerBarrier
  <2> QED
    BY <1>3, <2>1, <2>2, <2>3, <2>4, <2>5, <2>6 DEF WriterStep
<1>4. CASE WaiterStep
  BY <1>4, <1>0 DEF WaiterStep, WaiterOk, WaiterErr, FinishWaiter
<1>5. CASE ProjectorStep \/ InsertOk \/ InsertFail
  <2>1. CASE Poll
    BY <2>1, <1>0 DEF Poll
  <2>2. CASE SeeShutdown
    BY <2>2, <1>0 DEF SeeShutdown, StopProjector, ShutdownFlag
  <2>3. CASE RemoveFile
    <3>1. PICK hi \in Tails : DOMAIN files = sequence..hi
      BY <2>3, <1>0 DEF RemoveFile
    <3>2. hi \in Nat /\ sequence < next_sequence /\ hi <= next_sequence
      BY <2>3, <1>0, <3>1 DEF RemoveFile
    <3>3. DOMAIN files' = (sequence + 1)..hi
      BY <2>3, <1>0, <3>1, <3>2 DEF RemoveFile, Restrict
    <3>4. Contiguous(files')
      <4>1. sequence + 1 \in Int /\ hi \in Int
        BY <1>0, <3>2
      <4> QED
        BY <4>1, <3>3, IntervalContiguous
    <3>5. wpc = "renamed" => files'[next_sequence] = files[next_sequence]
      BY <2>3, <1>0, <3>1, <3>2, <3>3 DEF RemoveFile, Restrict
    <3>6. files' \in images' /\ \A img \in images' : Contiguous(img)
      BY <2>3, <3>4 DEF RemoveFile
    <3>7. sequence + 1 \in Heads' /\ hi \in Tails'
      BY <2>3, <1>0 DEF RemoveFile
    <3>8. \E l \in Heads', h \in Tails' :
            l <= next_sequence' /\ DOMAIN files' = l..h
      <4>1. sequence + 1 <= next_sequence'
        BY <2>3, <1>0, <3>2 DEF RemoveFile
      <4> QED
        BY <3>3, <3>7, <4>1
    <3>9. wpc' = "renamed" => files'[next_sequence'] = batch'
      BY <2>3, <3>5 DEF RemoveFile
    <3> QED
      BY <2>3, <1>0, <3>2, <3>6, <3>8, <3>9 DEF RemoveFile
  <2>4. CASE Retire
    BY <2>4, <1>0 DEF Retire
  <2>5. CASE InsertOk \/ InsertFail
    BY <2>5, <1>0 DEF InsertOk, InsertFail
  <2> QED
    BY <1>5, <2>1, <2>2, <2>3, <2>4, <2>5 DEF ProjectorStep
<1>6. CASE ShutdownStep
  <2>1. CASE DropSink \/ SetShutdownFlag
    BY <2>1, <1>0 DEF DropSink, SetShutdownFlag
  <2>2. CASE Exit
    BY <2>2, ProcessGoneShape DEF Exit
  <2> QED
    BY <1>6, <2>1, <2>2 DEF ShutdownStep
<1>7. CASE FailureStep
  <2>1. CASE AppendIoError
    BY <2>1, <1>0 DEF AppendIoError, StopWriter
  <2>2. CASE ProjectorIoError
    BY <2>2, <1>0 DEF ProjectorIoError, StopProjector
  <2>3. CASE Kill
    BY <2>3, ProcessGoneShape DEF Kill
  <2>4. CASE PowerFailure
    <3>1. PICK img \in images : ProcessGone(img, {img})
      BY <2>4 DEF PowerFailure
    <3> QED
      BY <3>1, ProcessGoneShape
  <2> QED
    BY <1>7, <2>1, <2>2, <2>3, <2>4 DEF FailureStep
<1>8. CASE Start
  <2>1. max_sequence \in Nat
    BY SpoolEnds DEF TypeOK
  <2>2. CASE DOMAIN files = {}
    <3>1. /\ sequence' = max_sequence + 1
          /\ projected_sequence' = max_sequence
      BY <1>8, <2>1, <2>2 DEF Start
    <3>2. DOMAIN files' = sequence'..(next_sequence' - 1)
      BY <1>8, <2>1, <2>2, <3>1 DEF Start
    <3> QED
      BY <1>8, <2>1, <3>1, <3>2 DEF Start
  <2>3. CASE DOMAIN files # {}
    <3>1. /\ Min(DOMAIN files) \in Nat \ {0}
          /\ DOMAIN files = Min(DOMAIN files)..max_sequence
      BY <2>3, SpoolEnds DEF TypeOK
    <3>2. /\ sequence' = Min(DOMAIN files)
          /\ projected_sequence' = Min(DOMAIN files) - 1
      BY <1>8, <2>3 DEF Start
    <3>3. Min(DOMAIN files) <= max_sequence
      BY <2>1, <2>3, <3>1
    <3> QED
      BY <1>8, <2>1, <3>1, <3>2, <3>3 DEF Start
  <2> QED
    BY <2>2, <2>3
<1> QED
  BY <1>1, <1>2, <1>3, <1>4, <1>5, <1>6, <1>7, <1>8 DEF Next

(* A step that leaves the commands, the batch and the barriers alone, and  *)
(* takes an event out of a directory only once it has its row, keeps what  *)
(* every barrier vouches for.                                              *)
LEMMA CoverMonotone ==
    ASSUME BarrierCoverage, DurableBarrierSound, ProjectedBarrierSound,
           UNCHANGED <<rx, accepted, batch, barrier, waiters,
                       durable_sequence_max, durableAcked, projectedAcked>>,
           wpc = "stopped" => wpc' = "stopped",
           rows \subseteq rows',
           \A img \in images' : \E old \in images :
               EventsOf(old) \subseteq rows' \cup EventsOf(img),
           \A s \in DOMAIN files : \/ files[s] \subseteq rows'
                                   \/ s \in DOMAIN files' /\ files'[s] = files[s]
    PROVE  BarrierCoverage' /\ DurableBarrierSound' /\ ProjectedBarrierSound'
<1>1. ASSUME NEW img \in images', NEW n
      PROVE  \E old \in images : Ahead(old, n) \subseteq Ahead(img, n)'
  <2>1. PICK old \in images : EventsOf(old) \subseteq rows' \cup EventsOf(img)
    OBVIOUS
  <2>2. Queued(n)' = Queued(n)
    BY DEF Queued
  <2>3. Ahead(old, n) \subseteq Ahead(img, n)'
    BY <2>1, <2>2 DEF Ahead, EventsOf
  <2> QED
    BY <2>3
<1>2. DurableBarrierSound'
  <2> SUFFICES ASSUME NEW img \in images'
               PROVE  durableAcked' \subseteq rows' \cup EventsOf(img)
    BY DEF DurableBarrierSound, EventsOf
  <2>1. PICK old \in images : EventsOf(old) \subseteq rows' \cup EventsOf(img)
    OBVIOUS
  <2>2. durableAcked \subseteq rows \cup EventsOf(old)
    BY DEF DurableBarrierSound
  <2> QED
    BY <2>1, <2>2
<1>3. ProjectedBarrierSound'
  BY DEF ProjectedBarrierSound
<1>4. ASSUME wpc' # "stopped", NEW img \in images'
      PROVE  /\ accepted' \subseteq Ahead(img, Len(rx))'
             /\ \A i \in 1..Len(rx') : rx'[i].kind = "barrier" =>
                   rx'[i].covers \subseteq Ahead(img, i - 1)'
             /\ \A b \in barrier' : b.covers \subseteq Ahead(img, 0)'
  <2>1. /\ Len(rx') = Len(rx) /\ rx' = rx
        /\ accepted' = accepted /\ barrier' = barrier
    OBVIOUS
  <2>2. \A n : \E old \in images : Ahead(old, n) \subseteq Ahead(img, n)'
    BY <1>1
  <2>3. \A old \in images :
            /\ accepted \subseteq Ahead(old, Len(rx))
            /\ \A i \in 1..Len(rx) :
                  rx[i].kind = "barrier" => rx[i].covers \subseteq Ahead(old, i - 1)
            /\ \A b \in barrier : b.covers \subseteq Ahead(old, 0)
    BY <1>4 DEF BarrierCoverage
  <2>4. accepted' \subseteq Ahead(img, Len(rx))'
    <3>1. PICK old \in images : Ahead(old, Len(rx)) \subseteq
                                rows' \cup EventsOf(img) \cup batch' \cup Queued(Len(rx))
      BY <2>1, <2>2 DEF Ahead, Queued
    <3> QED
      BY <2>1, <2>3, <3>1 DEF Ahead, Queued
  <2>5. \A i \in 1..Len(rx') : rx'[i].kind = "barrier" =>
            rx'[i].covers \subseteq Ahead(img, i - 1)'
    BY <2>1, <2>2, <2>3
  <2>6. \A b \in barrier' : b.covers \subseteq Ahead(img, 0)'
    BY <2>1, <2>2, <2>3
  <2> QED
    BY <2>4, <2>5, <2>6
<1>5. ASSUME NEW w \in waiters'
      PROVE  /\ w.seq <= durable_sequence_max'
             /\ w.covers \subseteq rows' \cup
                   UNION {files'[s] : s \in {t \in DOMAIN files' : t <= w.seq}}
  BY DEF BarrierCoverage
<1> QED
  BY <1>2, <1>3, <1>4, <1>5 DEF BarrierCoverage

(* Appending a command keeps the events in front of the others.            *)
LEMMA QueuedAppend ==
    ASSUME TypeOK, NEW cmd \in EventCmd \cup BarrierCmd, rx' = Append(rx, cmd)
    PROVE  /\ Len(rx') = Len(rx) + 1 /\ rx'[Len(rx) + 1] = cmd
           /\ \A i \in 1..Len(rx) : rx'[i] = rx[i]
           /\ \A n \in 0..Len(rx) : Queued(n)' = Queued(n)
           /\ Queued(Len(rx)) \subseteq Queued(Len(rx))'
           /\ cmd.kind = "event" /\ cmd.event \in Events =>
                 cmd.event \in Queued(Len(rx))'
<1>1. rx \in Seq(EventCmd \cup BarrierCmd)
  BY DEF TypeOK
<1>2. /\ Len(rx') = Len(rx) + 1 /\ rx'[Len(rx) + 1] = cmd
      /\ \A i \in 1..Len(rx) : rx'[i] = rx[i]
  BY <1>1
<1>3. \A n \in 0..Len(rx) : Queued(n)' = Queued(n)
  BY <1>1, <1>2 DEF Queued
<1>4. Queued(Len(rx)) \subseteq Queued(Len(rx))'
  BY <1>1, <1>2 DEF Queued
<1>5. cmd.kind = "event" /\ cmd.event \in Events => cmd.event \in Queued(Len(rx))'
  <2> SUFFICES ASSUME cmd.kind = "event", cmd.event \in Events
               PROVE  \E i \in 1..Len(rx') : rx'[i].kind = "event" /\ rx'[i].event = cmd.event
    BY DEF Queued
  <2>1. Len(rx) + 1 \in 1..Len(rx')
    BY <1>1, <1>2
  <2> QED
    BY <1>2, <2>1
<1> QED
  BY <1>2, <1>3, <1>4, <1>5

(* A new command finds everything accepted so far in front of it.          *)
LEMMA EnqueueCover ==
    ASSUME TypeOK, BarrierCoverage, wpc # "stopped",
           NEW cmd \in EventCmd \cup BarrierCmd, rx' = Append(rx, cmd),
           \/ cmd.kind = "event" /\ cmd.event \in Events
              /\ accepted' = accepted \cup {cmd.event}
           \/ cmd.kind = "barrier" /\ cmd.covers = accepted /\ accepted' = accepted,
           UNCHANGED <<wpc, batch, barrier, waiters, durable_sequence_max,
                       files, images, rows>>
    PROVE  BarrierCoverage'
<1>1. /\ Len(rx') = Len(rx) + 1 /\ rx'[Len(rx) + 1] = cmd
      /\ \A i \in 1..Len(rx) : rx'[i] = rx[i]
      /\ \A n \in 0..Len(rx) : Queued(n)' = Queued(n)
      /\ Queued(Len(rx)) \subseteq Queued(Len(rx))'
      /\ cmd.kind = "event" /\ cmd.event \in Events =>
            cmd.event \in Queued(Len(rx))'
  BY QueuedAppend
<1>2. Len(rx) \in Nat
  BY DEF TypeOK
<1>3. ASSUME NEW img \in images'
      PROVE  /\ accepted' \subseteq Ahead(img, Len(rx))'
             /\ \A i \in 1..Len(rx') : rx'[i].kind = "barrier" =>
                   rx'[i].covers \subseteq Ahead(img, i - 1)'
             /\ \A b \in barrier' : b.covers \subseteq Ahead(img, 0)'
  <2>1. /\ accepted \subseteq Ahead(img, Len(rx))
        /\ \A i \in 1..Len(rx) :
              rx[i].kind = "barrier" => rx[i].covers \subseteq Ahead(img, i - 1)
        /\ \A b \in barrier : b.covers \subseteq Ahead(img, 0)
    BY <1>3 DEF BarrierCoverage
  <2>2. \A n \in 0..Len(rx) : Ahead(img, n) = Ahead(img, n)'
    BY <1>1 DEF Ahead
  <2>3. Ahead(img, Len(rx)) \subseteq Ahead(img, Len(rx))'
    BY <1>1 DEF Ahead
  <2>4. accepted' \subseteq Ahead(img, Len(rx))'
    BY <1>1, <2>1, <2>3 DEF Ahead
  <2>5. ASSUME NEW i \in 1..Len(rx'), rx'[i].kind = "barrier"
        PROVE  rx'[i].covers \subseteq Ahead(img, i - 1)'
    <3>1. CASE i \in 1..Len(rx)
      BY <1>1, <1>2, <2>1, <2>2, <2>5, <3>1
    <3>2. CASE i = Len(rx) + 1
      <4>1. rx'[i] = cmd /\ cmd.covers = accepted
        BY <1>1, <2>5, <3>2
      <4>2. accepted \subseteq Ahead(img, i - 1)'
        BY <1>2, <2>1, <2>2, <3>2
      <4> QED
        BY <4>1, <4>2
    <3> QED
      BY <1>1, <1>2, <3>1, <3>2
  <2>6. \A b \in barrier' : b.covers \subseteq Ahead(img, 0)'
    BY <1>2, <2>1, <2>2
  <2> QED
    BY <2>4, <2>5, <2>6
<1>4. ASSUME NEW w \in waiters'
      PROVE  /\ w.seq <= durable_sequence_max'
             /\ w.covers \subseteq rows' \cup
                   UNION {files'[s] : s \in {t \in DOMAIN files' : t <= w.seq}}
  BY DEF BarrierCoverage
<1> QED
  BY <1>3, <1>4 DEF BarrierCoverage

(* The command the writer takes stays in front of the rest: its event is   *)
(* now in the batch, or it is the barrier that closes the batch.           *)
LEMMA ReceiveCover ==
    ASSUME TypeOK, BarrierCoverage, wpc # "stopped", rx # <<>>, Receive
    PROVE  BarrierCoverage'
<1> DEFINE head == Head(rx)
<1>1. /\ rx \in Seq(EventCmd \cup BarrierCmd) /\ Len(rx) \in Nat /\ Len(rx) >= 1
      /\ rx' = Tail(rx) /\ Len(rx') = Len(rx) - 1 /\ head = rx[1]
      /\ \A i \in 1..Len(rx') : rx'[i] = rx[i + 1]
  BY DEF TypeOK, Receive
<1>2. /\ UNCHANGED <<accepted, rows, images, files, waiters, durable_sequence_max>>
      /\ \/ head.kind = "event" /\ batch' = batch \cup {head.event} /\ barrier' = barrier
         \/ head.kind = "barrier" /\ batch' = batch /\ barrier' = {head}
  BY DEF Receive, projVars, diskVars
<1>3. \A n \in 0..Len(rx') : batch \cup Queued(n + 1) \subseteq batch' \cup Queued(n)'
  <2> SUFFICES ASSUME NEW n \in 0..Len(rx'), NEW e \in Queued(n + 1)
               PROVE  e \in batch' \cup Queued(n)'
    BY <1>2
  <2>1. PICK i \in 1..(n + 1) : rx[i].kind = "event" /\ rx[i].event = e
    BY DEF Queued
  <2>2. CASE i = 1
    BY <1>1, <1>2, <2>1, <2>2
  <2>3. CASE i # 1
    <3>1. i - 1 \in 1..n /\ i - 1 \in 1..Len(rx') /\ (i - 1) + 1 = i
      BY <1>1, <2>3
    <3>2. rx'[i - 1] = rx[i]
      BY <1>1, <3>1
    <3>3. e \in Events
      BY DEF Queued
    <3> QED
      BY <2>1, <3>1, <3>2, <3>3 DEF Queued
  <2> QED
    BY <2>2, <2>3
<1>4. ASSUME NEW img \in images'
      PROVE  /\ accepted' \subseteq Ahead(img, Len(rx))'
             /\ \A i \in 1..Len(rx') : rx'[i].kind = "barrier" =>
                   rx'[i].covers \subseteq Ahead(img, i - 1)'
             /\ \A b \in barrier' : b.covers \subseteq Ahead(img, 0)'
  <2>1. /\ accepted \subseteq Ahead(img, Len(rx))
        /\ \A i \in 1..Len(rx) :
              rx[i].kind = "barrier" => rx[i].covers \subseteq Ahead(img, i - 1)
        /\ \A b \in barrier : b.covers \subseteq Ahead(img, 0)
    BY <1>2, <1>4 DEF BarrierCoverage
  <2>2. \A n \in 0..Len(rx') : Ahead(img, n + 1) \subseteq Ahead(img, n)'
    BY <1>2, <1>3 DEF Ahead
  <2>3. accepted' \subseteq Ahead(img, Len(rx))'
    <3>1. Queued(Len(rx)) \subseteq batch' \cup Queued(Len(rx))'
      <4>1. Len(rx') \in 0..Len(rx') /\ Len(rx') + 1 = Len(rx)
        BY <1>1
      <4>2. Queued(Len(rx)) \subseteq batch' \cup
              {e \in Events : \E i \in 1..Len(rx') : rx'[i].kind = "event" /\ rx'[i].event = e}
        BY <1>3, <4>1 DEF Queued
      <4> QED
        BY <4>2 DEF Queued
    <3> QED
      BY <1>2, <2>1, <3>1 DEF Ahead
  <2>4. ASSUME NEW i \in 1..Len(rx'), rx'[i].kind = "barrier"
        PROVE  rx'[i].covers \subseteq Ahead(img, i - 1)'
    <3>1. i + 1 \in 1..Len(rx) /\ i - 1 \in 0..Len(rx') /\ (i - 1) + 1 = i
          /\ (i + 1) - 1 = i
      BY <1>1
    <3>2. rx'[i] = rx[i + 1]
      BY <1>1
    <3>3. rx[i + 1].covers \subseteq Ahead(img, i)
      BY <2>1, <2>4, <3>1, <3>2
    <3>4. Ahead(img, i) \subseteq Ahead(img, i - 1)'
      BY <2>2, <3>1
    <3> QED
      BY <3>2, <3>3, <3>4
  <2>5. Ahead(img, 0) \subseteq Ahead(img, 0)'
    BY <1>2 DEF Ahead, Queued
  <2>6. ASSUME head.kind = "barrier" PROVE head.covers \subseteq Ahead(img, 0)'
    <3>1. head.covers \subseteq Ahead(img, 0)
      BY <1>1, <2>1, <2>6
    <3> QED
      BY <2>5, <3>1
  <2>7. \A b \in barrier' : b.covers \subseteq Ahead(img, 0)'
    BY <1>2, <2>1, <2>5, <2>6
  <2> QED
    BY <2>3, <2>4, <2>7
<1>5. ASSUME NEW w \in waiters'
      PROVE  /\ w.seq <= durable_sequence_max'
             /\ w.covers \subseteq rows' \cup
                   UNION {files'[s] : s \in {t \in DOMAIN files' : t <= w.seq}}
  BY <1>2 DEF BarrierCoverage
<1> QED
  BY <1>4, <1>5 DEF BarrierCoverage

(* A barrier is answered, or handed to a waiter, only when the batch it    *)
(* closed is in every directory a power failure may leave.                 *)
LEMMA AnswerCover ==
    ASSUME TypeOK, BarrierCoverage, DurableBarrierSound, wpc # "stopped",
           NEW n \in Nat, AnswerBarrier(n),
           UNCHANGED <<rx, accepted, files, rows>>,
           files \in images, images' \subseteq images, batch' = {},
           \A img \in images' : batch \subseteq EventsOf(img),
           batch \subseteq EventsOf(files),
           \A s \in DOMAIN files : s <= n,
           durable_sequence_max \in Nat, durable_sequence_max' \in Nat,
           durable_sequence_max <= durable_sequence_max', n <= durable_sequence_max'
    PROVE  BarrierCoverage' /\ DurableBarrierSound'
<1>1. \A m : Queued(m)' = Queued(m)
  BY DEF Queued
<1>2. ASSUME NEW img \in images'
      PROVE  /\ accepted' \subseteq Ahead(img, Len(rx))'
             /\ \A i \in 1..Len(rx') : rx'[i].kind = "barrier" =>
                   rx'[i].covers \subseteq Ahead(img, i - 1)'
             /\ \A b \in barrier' : b.covers \subseteq Ahead(img, 0)'
             /\ \A b \in barrier : b.covers \subseteq rows \cup EventsOf(img)
  <2>1. /\ accepted \subseteq Ahead(img, Len(rx))
        /\ \A i \in 1..Len(rx) :
              rx[i].kind = "barrier" => rx[i].covers \subseteq Ahead(img, i - 1)
        /\ \A b \in barrier : b.covers \subseteq Ahead(img, 0)
    BY DEF BarrierCoverage
  <2>2. \A m : Ahead(img, m) \subseteq rows' \cup EventsOf(img) \cup batch' \cup Queued(m)'
    BY <1>1 DEF Ahead
  <2>3. accepted' \subseteq Ahead(img, Len(rx))'
    <3>1. accepted' \subseteq rows' \cup EventsOf(img) \cup batch' \cup Queued(Len(rx))
      BY <1>1, <2>1, <2>2
    <3> QED
      BY <3>1 DEF Ahead, Queued
  <2>4. \A i \in 1..Len(rx') : rx'[i].kind = "barrier" =>
            rx'[i].covers \subseteq Ahead(img, i - 1)'
    BY <2>1, <2>2 DEF Ahead
  <2>5. barrier' = {}
    BY DEF AnswerBarrier
  <2>6. Ahead(img, 0) \subseteq rows \cup EventsOf(img)
    BY DEF Ahead, Queued
  <2> QED
    BY <2>1, <2>3, <2>4, <2>5, <2>6
<1>3. DurableBarrierSound'
  <2> SUFFICES ASSUME NEW img \in images'
               PROVE  durableAcked' \subseteq rows' \cup EventsOf(img)
    BY DEF DurableBarrierSound, EventsOf
  <2>1. durableAcked \subseteq rows \cup EventsOf(img)
    BY DEF DurableBarrierSound
  <2>2. \A b \in barrier : b.covers \subseteq rows \cup EventsOf(img)
    BY <1>2
  <2>3. durableAcked' = durableAcked \cup
            UNION {b.covers : b \in {x \in barrier : ~x.projected}}
    BY DEF AnswerBarrier
  <2> QED
    BY <2>1, <2>2, <2>3
<1>4. \A b \in barrier : b.covers \subseteq rows \cup EventsOf(files)
  <2>1. \A b \in barrier : b.covers \subseteq Ahead(files, 0)
    BY DEF BarrierCoverage
  <2> QED
    BY <2>1 DEF Ahead, Queued
<1>5. EventsOf(files) \subseteq
        UNION {files'[s] : s \in {t \in DOMAIN files' : t <= n}}
  BY DEF EventsOf
<1>6. ASSUME NEW w \in waiters'
      PROVE  /\ w.seq <= durable_sequence_max'
             /\ w.covers \subseteq rows' \cup
                   UNION {files'[s] : s \in {t \in DOMAIN files' : t <= w.seq}}
  <2>1. CASE w \in waiters
    <3>1. w.seq \in Nat
      BY <2>1 DEF TypeOK, Waiter
    <3>2. /\ w.seq <= durable_sequence_max
          /\ w.covers \subseteq rows \cup
                UNION {files[s] : s \in {t \in DOMAIN files : t <= w.seq}}
      BY <2>1 DEF BarrierCoverage
    <3> QED
      BY <3>1, <3>2
  <2>2. CASE w \notin waiters
    <3>1. PICK b \in barrier : w.covers = b.covers /\ w.seq = n
      BY <2>2 DEF AnswerBarrier
    <3> QED
      BY <1>4, <1>5, <3>1
  <2> QED
    BY <2>1, <2>2
<1> QED
  BY <1>2, <1>3, <1>6 DEF BarrierCoverage

Sound == BarrierCoverage /\ DurableBarrierSound /\ ProjectedBarrierSound

(* Without commands, barriers and waiters only the answers given count.    *)
LEMMA IdleCover ==
    ASSUME DurableBarrierSound, ProjectedBarrierSound,
           rx' = <<>>, accepted' = {}, barrier' = {}, waiters' = {},
           images' \subseteq images, UNCHANGED <<rows, durableAcked, projectedAcked>>
    PROVE  Sound'
<1>1. DurableBarrierSound' /\ ProjectedBarrierSound'
  BY DEF DurableBarrierSound, ProjectedBarrierSound, EventsOf
<1>2. Len(rx') = 0
  OBVIOUS
<1>3. BarrierCoverage'
  BY <1>2 DEF BarrierCoverage
<1> QED
  BY <1>1, <1>3 DEF Sound

(* A writer that stops drops the commands and the barrier it holds.        *)
LEMMA StopWriterCover ==
    ASSUME Sound, StopWriter
    PROVE  Sound'
<1>1. /\ wpc' = "stopped"
      /\ UNCHANGED <<waiters, durable_sequence_max, files, images, rows,
                     durableAcked, projectedAcked>>
  BY DEF StopWriter, projVars, ackVars
<1> QED
  BY <1>1 DEF Sound, BarrierCoverage, DurableBarrierSound, ProjectedBarrierSound, EventsOf

(* Every step keeps what the barriers, pending and answered, vouch for.    *)
LEMMA CoverStep ==
    TypeOK /\ TypeOK' /\ SpoolShape /\ Sound /\ [Next]_vars => Sound'
<1> SUFFICES ASSUME TypeOK, TypeOK', SpoolShape, Sound, [Next]_vars PROVE Sound'
  OBVIOUS
<1>0. BarrierCoverage /\ DurableBarrierSound /\ ProjectedBarrierSound
  BY DEF Sound
<1> USE DEF procVars, writerVars, projVars, diskVars, ackVars
<1>1. CASE UNCHANGED vars
  BY <1>0, <1>1, CoverMonotone DEF vars, Sound
<1>2. CASE ClientStep
  <2>1. ASSUME NEW e \in Events, Send(e) PROVE Sound'
    <3>1. [kind |-> "event", event |-> e] \in EventCmd
      BY DEF EventCmd
    <3>2. BarrierCoverage'
      BY <1>0, <2>1, <3>1, EnqueueCover DEF Send
    <3> QED
      BY <1>0, <2>1, <3>2
         DEF Send, Sound, DurableBarrierSound, ProjectedBarrierSound, EventsOf
  <2>2. ASSUME NEW c \in Callers, NEW projected \in BOOLEAN,
               SendBarrier(c, projected)
        PROVE  Sound'
    <3>1. CASE wpc = "stopped"
      BY <1>0, <2>2, <3>1, CoverMonotone DEF SendBarrier, Sound
    <3>2. CASE wpc # "stopped"
      <4>1. [kind |-> "barrier", client |-> c, projected |-> projected,
             covers |-> accepted] \in BarrierCmd
        BY DEF BarrierCmd, TypeOK
      <4>2. BarrierCoverage'
        BY <1>0, <2>2, <3>2, <4>1, EnqueueCover DEF SendBarrier
      <4> QED
        BY <1>0, <2>2, <4>2
           DEF SendBarrier, Sound, DurableBarrierSound, ProjectedBarrierSound, EventsOf
    <3> QED
      BY <3>1, <3>2
  <2> QED
    BY <1>2, <2>1, <2>2 DEF ClientStep, CallBarrier, BeginShutdown, Callers
<1>3. CASE WriterStep
  <2>1. CASE RecvFirst \/ RecvMore
    <3>1. BarrierCoverage'
      BY <1>0, <2>1, ReceiveCover DEF RecvFirst, RecvMore
    <3> QED
      BY <1>0, <2>1, <3>1 DEF RecvFirst, RecvMore, Receive, Sound,
         DurableBarrierSound, ProjectedBarrierSound, EventsOf
  <2>2. CASE CloseBatch \/ WriterDisconnected
    BY <1>0, <2>2, CoverMonotone DEF CloseBatch, WriterDisconnected, Sound
  <2>3. CASE AppendOverQuota
    BY <1>0, <2>3, StopWriterCover DEF AppendOverQuota
  <2>4. CASE AppendRename
    <3>1. next_sequence \notin DOMAIN files
      BY <2>4 DEF AppendRename, SpoolShape, Tails, Heads, TypeOK, Up
    <3>2. \A s \in DOMAIN files : s \in DOMAIN files' /\ files'[s] = files[s]
      BY <2>4, <3>1 DEF AppendRename
    <3>3. EventsOf(files) \subseteq EventsOf(files')
      BY <3>2 DEF EventsOf
    <3>4. \A img \in images' : \E old \in images :
              EventsOf(old) \subseteq rows' \cup EventsOf(img)
      BY <2>4, <3>3 DEF AppendRename, SpoolShape
    <3> QED
      BY <1>0, <2>4, <3>2, <3>4, CoverMonotone DEF AppendRename, Sound
  <2>5. CASE AppendCommit
    <3>1. /\ DOMAIN files \subseteq Nat /\ next_sequence \in DOMAIN files
          /\ \A s \in DOMAIN files : s <= next_sequence
          /\ files[next_sequence] = batch
          /\ durable_sequence_max = next_sequence - 1
      <4>1. PICK lo \in Heads :
              lo <= next_sequence /\ DOMAIN files = lo..next_sequence
        BY <2>5 DEF AppendCommit, SpoolShape, Tails, Up
      <4>2. lo \in Nat /\ next_sequence \in Nat
        BY <2>5 DEF Heads, TypeOK
      <4> QED
        BY <2>5, <4>1, <4>2 DEF AppendCommit, SpoolShape, Up
    <3>2. batch \subseteq EventsOf(files)
      BY <3>1 DEF EventsOf
    <3>3. BarrierCoverage' /\ DurableBarrierSound'
      BY <1>0, <2>5, <3>1, <3>2, AnswerCover DEF AppendCommit, SpoolShape, TypeOK
    <3> QED
      BY <1>0, <2>5, <3>3 DEF AppendCommit, Sound, ProjectedBarrierSound
  <2>6. CASE BarrierOnly
    <3>1. /\ \A s \in DOMAIN files : s <= next_sequence - 1
          /\ durable_sequence_max = next_sequence - 1
          /\ next_sequence - 1 \in Nat
      BY <2>6 DEF BarrierOnly, SpoolShape, Tails, Heads, TypeOK, Up
    <3>2. BarrierCoverage' /\ DurableBarrierSound'
      BY <1>0, <2>6, <3>1, AnswerCover DEF BarrierOnly, SpoolShape, TypeOK
    <3> QED
      BY <1>0, <2>6, <3>2 DEF BarrierOnly, Sound, ProjectedBarrierSound
  <2> QED
    BY <1>3, <2>1, <2>2, <2>3, <2>4, <2>5, <2>6 DEF WriterStep
<1>4. CASE WaiterStep
  <2>1. PICK w \in waiters : WaiterOk(w) \/ WaiterErr(w)
    BY <1>4 DEF WaiterStep
  <2>2. /\ UNCHANGED <<rx, accepted, batch, barrier, wpc, durable_sequence_max,
                       files, images, rows, durableAcked>>
        /\ waiters' \subseteq waiters
        /\ \/ projectedAcked' = projectedAcked
           \/ /\ WaiterOk(w)
              /\ projectedAcked' = projectedAcked \cup w.covers
    BY <2>1 DEF WaiterOk, WaiterErr, FinishWaiter
  <2>3. BarrierCoverage' /\ DurableBarrierSound'
    BY <1>0, <2>2 DEF BarrierCoverage, DurableBarrierSound, EventsOf, Ahead, Queued
  <2>4. ASSUME WaiterOk(w) PROVE w.covers \subseteq rows
    <3>1. w.seq \in Nat /\ w.seq < sequence
      BY <2>4 DEF WaiterOk, Up, SpoolShape, TypeOK, Waiter
    <3>2. \A s \in DOMAIN files : s >= sequence
      BY <2>4 DEF WaiterOk, Up, SpoolShape, Heads, Tails, TypeOK
    <3>3. {t \in DOMAIN files : t <= w.seq} = {}
      BY <3>1, <3>2 DEF TypeOK, IsSpool
    <3>4. w.covers \subseteq
            rows \cup UNION {files[s] : s \in {t \in DOMAIN files : t <= w.seq}}
      BY <1>0 DEF BarrierCoverage
    <3> QED
      BY <3>3, <3>4
  <2> QED
    BY <1>0, <2>2, <2>3, <2>4 DEF Sound, ProjectedBarrierSound
<1>5. CASE ProjectorStep \/ InsertOk \/ InsertFail
  <2>1. CASE Poll
    BY <1>0, <2>1, CoverMonotone DEF Poll, Sound
  <2>2. CASE SeeShutdown
    BY <1>0, <2>2, CoverMonotone DEF SeeShutdown, StopProjector, Sound
  <2>3. CASE RemoveFile
    <3>1. /\ sequence \in DOMAIN files => files[sequence] \subseteq rows
          /\ \A s \in DOMAIN files \ {sequence} :
                s \in DOMAIN files' /\ files'[s] = files[s]
      BY <2>3 DEF RemoveFile, SpoolShape, Up, Restrict
    <3>2. EventsOf(files) \subseteq rows' \cup EventsOf(files')
      BY <2>3, <3>1 DEF EventsOf, RemoveFile
    <3>3. \A img \in images' : \E old \in images :
              EventsOf(old) \subseteq rows' \cup EventsOf(img)
      BY <2>3, <3>2 DEF RemoveFile, SpoolShape
    <3> QED
      BY <1>0, <2>3, <3>1, <3>3, CoverMonotone DEF RemoveFile, Sound
  <2>4. CASE Retire
    BY <1>0, <2>4, CoverMonotone DEF Retire, Sound, SpoolShape
  <2>5. CASE InsertOk \/ InsertFail
    BY <1>0, <2>5, CoverMonotone DEF InsertOk, InsertFail, Sound
  <2> QED
    BY <1>5, <2>1, <2>2, <2>3, <2>4, <2>5 DEF ProjectorStep
<1>6. CASE ShutdownStep
  <2>1. CASE DropSink \/ SetShutdownFlag
    BY <1>0, <2>1, CoverMonotone DEF DropSink, SetShutdownFlag, Sound
  <2>2. CASE Exit
    BY <1>0, <2>2, IdleCover DEF Exit, ProcessGone
  <2> QED
    BY <1>6, <2>1, <2>2 DEF ShutdownStep
<1>7. CASE FailureStep
  <2>1. CASE AppendIoError
    BY <2>1, StopWriterCover DEF AppendIoError
  <2>2. CASE ProjectorIoError
    BY <1>0, <2>2, CoverMonotone DEF ProjectorIoError, StopProjector, Sound
  <2>3. CASE Kill \/ PowerFailure
    BY <1>0, <2>3, IdleCover DEF Kill, PowerFailure, ProcessGone
  <2> QED
    BY <1>7, <2>1, <2>2, <2>3 DEF FailureStep
<1>8. CASE Start
  BY <1>0, <1>8, IdleCover DEF Start, SpoolShape, Up
<1> QED
  BY <1>1, <1>2, <1>3, <1>4, <1>5, <1>6, <1>7, <1>8 DEF Next

(* The inductive invariant holds in the initial state.                     *)
LEMMA InitInv == Init => TypeOK /\ SpoolShape /\ Sound
<1> SUFFICES ASSUME Init PROVE TypeOK /\ SpoolShape /\ Sound
  OBVIOUS
<1>1. TypeOK
  BY FS_EmptySet, MaxFaultsAssumption DEF Init, TypeOK, IsSpool
<1>2. DOMAIN files = {} /\ DOMAIN files = 1..0 /\ Len(rx) = 0
  BY DEF Init
<1>3. SpoolShape
  BY <1>2 DEF Init, SpoolShape, Contiguous, Heads, Tails, Up
<1>4. Sound
  BY <1>2 DEF Init, Sound, BarrierCoverage, DurableBarrierSound, ProjectedBarrierSound
<1> QED
  BY <1>1, <1>3, <1>4

(* Every reachable state satisfies the inductive invariant.                *)
THEOREM Invariance == Spec => [](TypeOK /\ SpoolShape /\ Sound)
<1>1. TypeOK /\ SpoolShape /\ Sound /\ [Next]_vars
        => (TypeOK /\ SpoolShape /\ Sound)'
  BY TypeStep, ShapeStep, CoverStep
<1> QED
  BY <1>1, InitInv, PTL DEF Spec

(* The variables keep their types: in particular every sequence the        *)
(* writer and the projector use is a positive number, across restarts.     *)
THEOREM TypeCorrect == Spec => []TypeOK
BY Invariance, PTL

(* A durable barrier that has answered Ok covers only events no later      *)
(* crash can lose (storage/mod.rs:89-94), for every number of faults.      *)
THEOREM DurableBarrierCorrect == Spec => []DurableBarrierSound
<1>1. Sound => DurableBarrierSound
  BY DEF Sound
<1> QED
  BY <1>1, Invariance, PTL

(* A projected barrier that has answered Ok covers only events that have   *)
(* their row in ClickHouse (storage/mod.rs:83-87).                         *)
THEOREM ProjectedBarrierCorrect == Spec => []ProjectedBarrierSound
<1>1. Sound => ProjectedBarrierSound
  BY DEF Sound
<1> QED
  BY <1>1, Invariance, PTL

(* The projector never meets a committed sequence whose file is missing    *)
(* (storage/mod.rs:194-198).                                               *)
THEOREM NoCommittedSequenceMissing == Spec => []CommittedSequencePresent
<1>1. TypeOK /\ SpoolShape => CommittedSequencePresent
  BY DEF TypeOK, SpoolShape, CommittedSequencePresent, Heads, Tails, Up
<1> QED
  BY <1>1, Invariance, PTL

-----------------------------------------------------------------------------
(* The spool never exceeds its quota.                                      *)

(* What the projector has in hand, the bytes it has yet to release, and    *)
(* the bytes the writer has published and not counted.                     *)
InHand == ppc = "inserted" => pbatch = files[sequence]
Unreleased == IF ppc = "removed" THEN Cardinality(pbatch) ELSE 0
Uncounted == IF wpc = "renamed" THEN Cardinality(batch) ELSE 0

(* While the writer lives its counter covers the directory: a batch that   *)
(* passes the check of the quota fits.                                     *)
BytesInv ==
    /\ InHand
    /\ \A img \in images : BytesOf(img) <= MaxBytes
    /\ Up /\ wpc # "stopped" =>
         BytesOf(files) + Unreleased <= spool_bytes + Uncounted

(* A directory has one more file: its bytes are added.                     *)
LEMMA AddFile ==
    ASSUME NEW f, IsSpool(f), IsFiniteSet(DOMAIN f), NEW g, IsSpool(g), IsFiniteSet(DOMAIN g),
           NEW n, n \notin DOMAIN f, DOMAIN g = DOMAIN f \cup {n},
           \A s \in DOMAIN f : g[s] = f[s]
    PROVE  /\ BytesOf(f) \in Nat /\ BytesOf(g) \in Nat /\ Cardinality(g[n]) \in Nat
           /\ BytesOf(g) = BytesOf(f) + Cardinality(g[n])
<1> DEFINE F == UNION {{s} \X f[s] : s \in DOMAIN f}
           G == UNION {{s} \X g[s] : s \in DOMAIN g}
           N == {n} \X g[n]
<1>1. BytesOf(f) = Cardinality(F) /\ BytesOf(g) = Cardinality(G)
  BY DEF BytesOf
<1>2. IsFiniteSet(F)
  BY BytesFinite
<1>3. IsFiniteSet(g[n]) /\ IsFiniteSet({n}) /\ Cardinality({n}) = 1
  BY FS_Singleton DEF IsSpool
<1>4. IsFiniteSet(N) /\ Cardinality(N) = Cardinality(g[n]) /\ Cardinality(g[n]) \in Nat
  <2>1. IsFiniteSet(N) /\ Cardinality(N) = Cardinality({n}) * Cardinality(g[n])
    BY <1>3, FS_Product
  <2>2. Cardinality(g[n]) \in Nat
    BY <1>3, FS_CardinalityType
  <2> QED
    BY <1>3, <2>1, <2>2
<1>5. G = F \cup N
  <2>1. \A s \in DOMAIN f : {s} \X g[s] = {s} \X f[s]
    OBVIOUS
  <2>2. \A x \in G : x \in F \cup N
    BY <2>1
  <2>3. \A x \in F \cup N : x \in G
    BY <2>1
  <2> QED
    BY <2>2, <2>3
<1>6. F \cap N = {}
  OBVIOUS
<1> HIDE DEF F, G, N
<1>7. Cardinality(F) \in Nat /\ Cardinality(F \cup N) = Cardinality(F) + Cardinality(N)
  BY <1>2, <1>4, <1>6, CardinalityPlus
<1> QED
  BY <1>1, <1>4, <1>5, <1>7

(* A step that leaves the spool, the batch of the writer and the progress  *)
(* of both tasks alone.                                                    *)
LEMMA BytesIdle ==
    ASSUME BytesInv, UNCHANGED <<files, images, spool_bytes, sequence, pbatch, ppc, batch>>,
           Up' => Up, wpc' # "stopped" => wpc # "stopped",
           wpc' # "stopped" => (wpc' = "renamed" <=> wpc = "renamed")
    PROVE  BytesInv'
<1>1. InHand'
  BY DEF BytesInv, InHand
<1>2. \A img \in images' : BytesOf(img) <= MaxBytes
  BY DEF BytesInv
<1>3. ASSUME Up', wpc' # "stopped"
      PROVE  BytesOf(files') + Unreleased' <= spool_bytes' + Uncounted'
  BY <1>3 DEF BytesInv, Unreleased, Uncounted
<1> QED
  BY <1>1, <1>2, <1>3 DEF BytesInv

(* A writer that has stopped adds nothing to the spool any more.           *)
LEMMA BytesStopped ==
    ASSUME BytesInv, UNCHANGED <<files, images, sequence, pbatch>>,
           ppc' = "inserted" => ppc = "inserted", wpc' = "stopped"
    PROVE  BytesInv'
BY DEF BytesInv, InHand

(* Every step keeps the spool within its quota.                            *)
LEMMA BytesStep ==
    TypeOK /\ SpoolShape /\ TypeOK' /\ SpoolShape' /\ BytesInv /\ [Next]_vars => BytesInv'
<1> SUFFICES ASSUME TypeOK, SpoolShape, TypeOK', SpoolShape', BytesInv, [Next]_vars
             PROVE  BytesInv'
  OBVIOUS
<1>0. /\ IsSpool(files) /\ IsSpool(files') /\ Contiguous(files) /\ Contiguous(files')
      /\ IsFiniteSet(DOMAIN files) /\ IsFiniteSet(DOMAIN files')
      /\ BytesOf(files) \in Nat /\ BytesOf(files') \in Nat
      /\ spool_bytes \in Nat /\ IsFiniteSet(batch) /\ IsFiniteSet(pbatch)
      /\ Cardinality(batch) \in Nat /\ Cardinality(pbatch) \in Nat
      /\ files \in images /\ BytesOf(files) <= MaxBytes
  <2>1. IsSpool(files) /\ IsSpool(files') /\ Contiguous(files) /\ Contiguous(files')
    BY DEF TypeOK, SpoolShape
  <2>2. IsFiniteSet(DOMAIN files) /\ IsFiniteSet(DOMAIN files')
    BY <2>1, ContiguousFinite
  <2>3. BytesOf(files) \in Nat /\ BytesOf(files') \in Nat
    BY <2>1, <2>2, BytesOfType
  <2>4. files \in images /\ BytesOf(files) <= MaxBytes
    BY DEF SpoolShape, BytesInv
  <2> QED
    BY <2>1, <2>2, <2>3, <2>4, FS_CardinalityType DEF TypeOK
<1> USE DEF procVars, writerVars, projVars, diskVars, ackVars
<1>1. CASE UNCHANGED vars
  BY <1>1, BytesIdle DEF vars, Up
<1>2. CASE ClientStep
  BY <1>2, BytesIdle DEF ClientStep, CallBarrier, BeginShutdown, Send, SendBarrier, Up
<1>3. CASE WriterStep
  <2>1. CASE RecvFirst \/ RecvMore
    <3>1. /\ UNCHANGED <<closing, files, images, spool_bytes, sequence, pbatch, ppc>>
          /\ wpc \in {"recv", "collect"} /\ wpc' \in {"collect", "append"}
      BY <2>1 DEF RecvFirst, RecvMore, Receive
    <3> QED
      BY <3>1 DEF BytesInv, InHand, Unreleased, Uncounted, Up
  <2>2. CASE CloseBatch \/ WriterDisconnected
    BY <2>2, BytesIdle DEF CloseBatch, WriterDisconnected, Up
  <2>3. CASE AppendOverQuota
    BY <2>3, BytesStopped DEF AppendOverQuota, StopWriter
  <2>4. CASE AppendRename
    <3>1. /\ Up /\ wpc = "append" /\ spool_bytes + Cardinality(batch) <= MaxBytes
          /\ DOMAIN files' = DOMAIN files \cup {next_sequence}
          /\ images' = images \cup {files'} /\ wpc' = "renamed"
          /\ UNCHANGED <<closing, batch, spool_bytes, ppc, sequence, pbatch>>
      BY <2>4 DEF AppendRename
    <3>2. next_sequence \notin DOMAIN files
      BY <3>1 DEF TypeOK, SpoolShape, Heads, Tails
    <3>3. files'[next_sequence] = batch /\ \A s \in DOMAIN files : files'[s] = files[s]
      BY <2>4, <3>2 DEF AppendRename
    <3>4. BytesOf(files') = BytesOf(files) + Cardinality(batch)
      BY <1>0, <3>1, <3>2, <3>3, AddFile
    <3>5. BytesOf(files) + Unreleased <= spool_bytes /\ Unreleased \in Nat /\ Unreleased' = Unreleased
      BY <1>0, <3>1 DEF BytesInv, Uncounted, Unreleased
    <3>6. InHand'
      <4>1. ppc = "inserted" => sequence \in DOMAIN files
        BY <3>1 DEF TypeOK, SpoolShape, Tails, Heads
      <4> QED
        BY <3>1, <3>3, <4>1 DEF BytesInv, InHand
    <3>7. \A img \in images' : BytesOf(img) <= MaxBytes
      <4>1. BytesOf(files') <= MaxBytes
        BY <1>0, <3>1, <3>4, <3>5, MaxBytesAssumption
      <4> QED
        BY <3>1, <4>1 DEF BytesInv
    <3>8. BytesOf(files') + Unreleased' <= spool_bytes' + Uncounted'
      BY <1>0, <3>1, <3>4, <3>5 DEF Uncounted
    <3> QED
      BY <3>6, <3>7, <3>8 DEF BytesInv
  <2>5. CASE AppendCommit
    <3>1. /\ Up /\ wpc = "renamed" /\ wpc' = "recv" /\ images' = {files} /\ files' = files
          /\ spool_bytes' = spool_bytes + Cardinality(batch)
          /\ UNCHANGED <<ppc, sequence, pbatch>>
      BY <2>5 DEF AppendCommit
    <3>2. BytesOf(files') + Unreleased' <= spool_bytes' + Uncounted'
      BY <1>0, <3>1 DEF BytesInv, Unreleased, Uncounted
    <3> QED
      BY <1>0, <3>1, <3>2 DEF BytesInv, InHand
  <2>6. CASE BarrierOnly
    BY <2>6, BytesIdle DEF BarrierOnly, AnswerBarrier, Up
  <2> QED
    BY <1>3, <2>1, <2>2, <2>3, <2>4, <2>5, <2>6 DEF WriterStep
<1>4. CASE WaiterStep
  BY <1>4, BytesIdle DEF WaiterStep, WaiterOk, WaiterErr, FinishWaiter, Up
<1>5. CASE ProjectorStep \/ InsertOk \/ InsertFail
  <2>1. CASE Poll \/ SeeShutdown
    <3>1. /\ UNCHANGED <<closing, files, images, spool_bytes, sequence, batch, wpc>>
          /\ ppc \in {"poll", "loaded"} /\ ppc' \in {"loaded", "stopped"}
      BY <2>1 DEF Poll, SeeShutdown, StopProjector
    <3> QED
      BY <3>1 DEF BytesInv, InHand, Unreleased, Uncounted, Up
  <2>2. CASE RemoveFile
    <3>1. /\ Up /\ ppc = "inserted" /\ ppc' = "removed" /\ images' = images \cup {files'}
          /\ files' = Restrict(files, DOMAIN files \ {sequence})
          /\ UNCHANGED <<closing, spool_bytes, sequence, pbatch, batch, wpc>>
      BY <2>2 DEF RemoveFile
    <3>2. sequence \in DOMAIN files /\ pbatch = files[sequence]
      BY <3>1 DEF TypeOK, SpoolShape, Tails, Heads, BytesInv, InHand
    <3>3. /\ DOMAIN files' = DOMAIN files \ {sequence}
          /\ \A s \in DOMAIN files' : files'[s] = files[s]
      BY <3>1 DEF Restrict
    <3>4. BytesOf(files) = BytesOf(files') + Cardinality(pbatch)
      <4>1. DOMAIN files = DOMAIN files' \cup {sequence} /\ sequence \notin DOMAIN files'
        BY <3>2, <3>3
      <4>2. \A s \in DOMAIN files' : files[s] = files'[s]
        BY <3>3
      <4> QED
        BY <1>0, <3>2, <4>1, <4>2, AddFile
    <3>5. BytesOf(files') <= MaxBytes
      BY <1>0, <3>4, MaxBytesAssumption
    <3>6. wpc' # "stopped" => BytesOf(files') + Unreleased' <= spool_bytes' + Uncounted'
      BY <1>0, <3>1, <3>4 DEF BytesInv, Unreleased, Uncounted
    <3> QED
      BY <3>1, <3>5, <3>6 DEF BytesInv, InHand
  <2>3. CASE Retire
    <3>1. /\ Up /\ ppc = "removed" /\ ppc' = "poll" /\ images' = {files} /\ files' = files
          /\ spool_bytes' = SaturatingSub(spool_bytes, Cardinality(pbatch))
          /\ UNCHANGED <<closing, wpc, batch>>
      BY <2>3 DEF Retire
    <3>2. wpc' # "stopped" => BytesOf(files') + Unreleased' <= spool_bytes' + Uncounted'
      BY <1>0, <3>1 DEF BytesInv, Unreleased, Uncounted, SaturatingSub
    <3> QED
      BY <1>0, <3>1, <3>2 DEF BytesInv, InHand
  <2>4. CASE InsertOk
    <3>1. /\ UNCHANGED <<closing, files, images, spool_bytes, sequence, pbatch, batch, wpc>>
          /\ Up /\ ppc = "loaded" /\ ppc' = "inserted"
      BY <2>4 DEF InsertOk
    <3>2. pbatch = files[sequence]
      BY <3>1 DEF SpoolShape
    <3> QED
      BY <3>1, <3>2 DEF BytesInv, InHand, Unreleased, Uncounted, Up
  <2>5. CASE InsertFail
    BY <2>5, BytesIdle DEF InsertFail, Up
  <2> QED
    BY <1>5, <2>1, <2>2, <2>3, <2>4, <2>5 DEF ProjectorStep
<1>6. CASE ShutdownStep
  <2>1. CASE DropSink \/ SetShutdownFlag
    BY <2>1, BytesIdle DEF DropSink, SetShutdownFlag, Up
  <2>2. CASE Exit
    BY <2>2 DEF Exit, ProcessGone, BytesInv, InHand
  <2> QED
    BY <1>6, <2>1, <2>2 DEF ShutdownStep
<1>7. CASE FailureStep
  <2>1. CASE AppendIoError
    BY <2>1, BytesStopped DEF AppendIoError, StopWriter
  <2>2. CASE ProjectorIoError
    <3>1. /\ UNCHANGED <<closing, files, images, spool_bytes, sequence, pbatch, batch, wpc>>
          /\ ppc' = "stopped"
      BY <2>2 DEF ProjectorIoError, StopProjector
    <3>2. Unreleased' = 0 /\ Unreleased \in Nat /\ Uncounted' = Uncounted /\ Uncounted \in Nat
      BY <1>0, <3>1 DEF Unreleased, Uncounted
    <3> QED
      BY <1>0, <3>1, <3>2 DEF BytesInv, InHand, Up
  <2>3. CASE Kill \/ PowerFailure
    <3>1. ppc' = "stopped" /\ wpc' = "stopped" /\ images' \subseteq images
      BY <2>3 DEF Kill, PowerFailure, ProcessGone
    <3> QED
      BY <3>1 DEF BytesInv, InHand
  <2> QED
    BY <1>7, <2>1, <2>2, <2>3 DEF FailureStep
<1>8. CASE Start
  <2>1. /\ files' = files /\ images' = images /\ spool_bytes' = BytesOf(files)
        /\ wpc' = "recv" /\ ppc' = "poll"
    BY <1>8 DEF Start
  <2> QED
    BY <1>0, <2>1 DEF BytesInv, InHand, Unreleased, Uncounted
<1> QED
  BY <1>1, <1>2, <1>3, <1>4, <1>5, <1>6, <1>7, <1>8 DEF Next

(* The first start finds an empty spool.                                   *)
LEMMA RestartInit == Init => BytesInv
<1> SUFFICES ASSUME Init PROVE BytesInv
  OBVIOUS
<1>1. BytesOf(<<>>) = 0
  <2>1. UNION {{s} \X (<<>>)[s] : s \in DOMAIN <<>>} = {}
    OBVIOUS
  <2> QED
    BY <2>1, FS_EmptySet DEF BytesOf
<1> QED
  BY <1>1, MaxBytesAssumption DEF Init, BytesInv, InHand, Unreleased, Uncounted

(* What a crash leaves never exceeds the quota: MetadataSpool::open does   *)
(* not refuse the program's own spool (spool.rs:50-54).                    *)
THEOREM RestartCorrect == Spec => []RestartNeverRefused
<1> DEFINE Inv == TypeOK /\ SpoolShape /\ BytesInv
<1>1. Init => BytesInv
  BY RestartInit
<1>2. Inv /\ [Next]_vars => Inv'
  BY TypeStep, ShapeStep, BytesStep
<1>3. BytesInv => RestartNeverRefused
  BY DEF BytesInv, RestartNeverRefused
<1> QED
  BY <1>1, <1>2, <1>3, InitInv, PTL DEF Spec

-----------------------------------------------------------------------------
(* Batches reach ClickHouse oldest first.                                  *)

InOrder(f) == \A s, t \in DOMAIN f : s < t => f[t] \cap rows = {}
Disjoint(f) == \A s, t \in DOMAIN f : s # t => f[s] \cap f[t] = {}

(* An event is new when it enters the channel, and is in one place from    *)
(* there to the spool.                                                     *)
Fresh ==
    /\ batch \cup Queued(Len(rx)) \subseteq accepted
    /\ wpc # "renamed" => batch \cap (rows \cup EventsOf(files)) = {}
    /\ Queued(Len(rx)) \cap (rows \cup EventsOf(files) \cup batch) = {}
    /\ \A i, j \in 1 .. Len(rx) :
         rx[i].kind = "event" /\ rx[j].kind = "event" /\ rx[i].event = rx[j].event => i = j

(* Until the first fault every directory a power failure may leave is the  *)
(* current one, less what was not published yet, with the file whose       *)
(* removal is not synced yet.                                              *)
ImagesKnown ==
    \A img \in images : \A s \in DOMAIN img :
        \/ s \in DOMAIN files /\ img[s] = files[s]
        \/ ppc = "removed" /\ s = sequence /\ img[s] = pbatch

(* While the process runs only the file the projector works on may have    *)
(* rows.                                                                   *)
Ordered ==
    /\ ppc = "removed" => pbatch \subseteq rows
    /\ faults <= 1 =>
         /\ Disjoint(files)
         /\ Up => \A t \in DOMAIN files : t > sequence => files[t] \cap rows = {}
         /\ ~Up => InOrder(files)
    /\ faults = 0 => ImagesKnown

(* Steps that leave the writer's queue and its batch alone.                *)
LEMMA FreshIdle ==
    ASSUME Fresh, UNCHANGED <<rx, accepted, batch>>,
           rows' \cup EventsOf(files') \subseteq rows \cup EventsOf(files),
           wpc' # "renamed" => wpc # "renamed"
    PROVE  Fresh'
<1>1. Queued(Len(rx))' = Queued(Len(rx))
  BY DEF Queued
<1> QED
  BY <1>1 DEF Fresh

(* A writer that stops, and a process that is gone, hold nothing.          *)
LEMMA FreshGone ==
    ASSUME rx' = <<>>, batch' = {}
    PROVE  Fresh'
<1>1. Queued(Len(rx))' = {}
  BY DEF Queued
<1> QED
  BY <1>1 DEF Fresh

(* A command enters the channel; an event that does is new.                *)
LEMMA FreshSend ==
    ASSUME TypeOK, Fresh, NEW cmd \in EventCmd \cup BarrierCmd, rx' = Append(rx, cmd),
           \/ /\ cmd.kind = "event" /\ accepted' = accepted \cup {cmd.event}
              /\ cmd.event \notin accepted \cup rows \cup EventsOf(files)
           \/ cmd.kind = "barrier" /\ accepted' = accepted,
           UNCHANGED <<wpc, batch, files, rows>>
    PROVE  Fresh'
<1>0. /\ Len(rx) \in Nat /\ Len(rx') = Len(rx) + 1 /\ rx'[Len(rx) + 1] = cmd
      /\ \A i \in 1..Len(rx) : rx'[i] = rx[i]
  BY QueuedAppend DEF TypeOK
<1>1. \A e \in Queued(Len(rx))' : e \in Queued(Len(rx)) \/ (cmd.kind = "event" /\ e = cmd.event)
  <2> SUFFICES ASSUME NEW e \in Queued(Len(rx))'
               PROVE  e \in Queued(Len(rx)) \/ (cmd.kind = "event" /\ e = cmd.event)
    OBVIOUS
  <2>1. PICK i \in 1..Len(rx') : rx'[i].kind = "event" /\ rx'[i].event = e
    BY DEF Queued
  <2> QED
    BY <1>0, <2>1 DEF Queued
<1>2. ASSUME NEW i \in 1..Len(rx), rx[i].kind = "event"
      PROVE  rx[i].event \in Queued(Len(rx))
  <2>1. rx[i] \in EventCmd \cup BarrierCmd
    BY DEF TypeOK
  <2>2. rx[i].event \in Events
    BY <1>2, <2>1 DEF EventCmd, BarrierCmd
  <2> QED
    BY <1>2, <2>2 DEF Queued
<1>3. ASSUME NEW i \in 1..Len(rx'), NEW j \in 1..Len(rx'), rx'[i].kind = "event",
             rx'[j].kind = "event", rx'[i].event = rx'[j].event
      PROVE  i = j
  <2>1. CASE i \in 1..Len(rx) /\ j \in 1..Len(rx)
    BY <1>0, <1>3, <2>1 DEF Fresh
  <2>2. \A k \in 1..Len(rx) : rx[k].kind = "event" /\ cmd.kind = "event" => rx[k].event # cmd.event
    BY <1>2 DEF Fresh
  <2> QED
    BY <1>0, <1>3, <2>1, <2>2
<1> QED
  BY <1>1, <1>3 DEF Fresh

(* The event the writer takes was queued once.                             *)
LEMMA FreshReceive ==
    ASSUME TypeOK, Fresh, wpc \in {"recv", "collect"}, rx # <<>>, Receive
    PROVE  Fresh'
<1> DEFINE head == Head(rx)
<1>1. /\ rx \in Seq(EventCmd \cup BarrierCmd) /\ Len(rx) \in Nat /\ Len(rx) >= 1
      /\ rx' = Tail(rx) /\ Len(rx') = Len(rx) - 1 /\ head = rx[1]
      /\ \A i \in 1..Len(rx') : rx'[i] = rx[i + 1]
  BY DEF TypeOK, Receive
<1>2. /\ UNCHANGED <<accepted, rows, files>> /\ wpc' # "renamed"
      /\ \/ head.kind = "event" /\ batch' = batch \cup {head.event}
         \/ head.kind = "barrier" /\ batch' = batch
  BY DEF Receive, projVars, diskVars
<1>3. \A i \in 1..Len(rx') : i + 1 \in 1..Len(rx)
  BY <1>1
<1>4. \A e \in Queued(Len(rx))' :
        e \in Queued(Len(rx)) /\ ~(head.kind = "event" /\ head.event = e)
  <2> SUFFICES ASSUME NEW e \in Queued(Len(rx))'
               PROVE  e \in Queued(Len(rx)) /\ ~(head.kind = "event" /\ head.event = e)
    OBVIOUS
  <2>1. PICK i \in 1..Len(rx') : rx'[i].kind = "event" /\ rx'[i].event = e
    BY DEF Queued
  <2>2. e \in Events
    BY DEF Queued
  <2>3. rx[i + 1].kind = "event" /\ rx[i + 1].event = e /\ i + 1 \in 1..Len(rx) /\ 1 \in 1..Len(rx)
    BY <1>1, <1>3, <2>1
  <2>4. i + 1 # 1
    OBVIOUS
  <2>5. ~(head.kind = "event" /\ head.event = e)
    BY <1>1, <2>3, <2>4 DEF Fresh
  <2> QED
    BY <2>2, <2>3, <2>5 DEF Queued
<1>5. head.kind = "event" => head.event \in Queued(Len(rx))
  <2> SUFFICES ASSUME head.kind = "event" PROVE head.event \in Queued(Len(rx))
    OBVIOUS
  <2>1. head \in EventCmd \cup BarrierCmd /\ 1 \in 1..Len(rx)
    BY <1>1
  <2>2. head.event \in Events
    BY <2>1 DEF EventCmd, BarrierCmd
  <2> QED
    BY <1>1, <2>1, <2>2 DEF Queued
<1>6. \A i, j \in 1..Len(rx') :
        rx'[i].kind = "event" /\ rx'[j].kind = "event" /\ rx'[i].event = rx'[j].event => i = j
  <2> SUFFICES ASSUME NEW i \in 1..Len(rx'), NEW j \in 1..Len(rx'), rx'[i].kind = "event",
                      rx'[j].kind = "event", rx'[i].event = rx'[j].event
               PROVE  i = j
    OBVIOUS
  <2>1. i + 1 = j + 1
    BY <1>1, <1>3 DEF Fresh
  <2> QED
    BY <2>1
<1> HIDE DEF head
<1> QED
  BY <1>2, <1>4, <1>5, <1>6 DEF Fresh

(* Every step keeps the events ahead of the spool new.                     *)
LEMMA FreshStep ==
    TypeOK /\ SpoolShape /\ Fresh /\ [Next]_vars => Fresh'
<1> SUFFICES ASSUME TypeOK, SpoolShape, Fresh, [Next]_vars PROVE Fresh'
  OBVIOUS
<1> USE DEF procVars, writerVars, projVars, diskVars, ackVars
<1>1. CASE UNCHANGED vars
  BY <1>1, FreshIdle DEF vars
<1>2. CASE ClientStep
  <2>1. ASSUME NEW e \in Events, Send(e) PROVE Fresh'
    <3> DEFINE cmd == [kind |-> "event", event |-> e]
    <3>1. cmd \in EventCmd /\ cmd.kind = "event" /\ cmd.event = e
      BY DEF EventCmd
    <3>2. /\ rx' = Append(rx, cmd) /\ accepted' = accepted \cup {e}
          /\ e \notin accepted \cup rows \cup EventsOf(files)
          /\ UNCHANGED <<wpc, batch, files, rows>>
      BY <2>1 DEF Send
    <3> HIDE DEF cmd
    <3> QED
      BY <3>1, <3>2, FreshSend
  <2>2. ASSUME NEW c \in Callers, NEW projected \in BOOLEAN, SendBarrier(c, projected)
        PROVE  Fresh'
    <3> DEFINE cmd == [kind |-> "barrier", client |-> c, projected |-> projected,
                       covers |-> accepted]
    <3>1. cmd \in BarrierCmd /\ cmd.kind = "barrier"
      BY DEF BarrierCmd, TypeOK
    <3>2. /\ rx' = rx \/ rx' = Append(rx, cmd)
          /\ UNCHANGED <<accepted, wpc, batch, files, rows>>
      BY <2>2 DEF SendBarrier
    <3> HIDE DEF cmd
    <3>3. CASE rx' = rx
      BY <3>2, <3>3, FreshIdle
    <3>4. CASE rx' = Append(rx, cmd)
      BY <3>1, <3>2, <3>4, FreshSend
    <3> QED
      BY <3>2, <3>3, <3>4
  <2> QED
    BY <1>2, <2>1, <2>2 DEF ClientStep, CallBarrier, BeginShutdown, Callers
<1>3. CASE WriterStep
  <2>1. CASE RecvFirst \/ RecvMore
    BY <2>1, FreshReceive DEF RecvFirst, RecvMore
  <2>2. CASE CloseBatch \/ WriterDisconnected
    BY <2>2, FreshIdle DEF CloseBatch, WriterDisconnected
  <2>3. CASE AppendOverQuota
    BY <2>3, FreshGone DEF AppendOverQuota, StopWriter
  <2>4. CASE AppendRename
    <3>1. /\ UNCHANGED <<rx, accepted, batch, rows>> /\ wpc' = "renamed" /\ wpc = "append"
      BY <2>4 DEF AppendRename
    <3>2. EventsOf(files') \subseteq EventsOf(files) \cup batch
      BY <2>4 DEF AppendRename, EventsOf
    <3>3. Queued(Len(rx))' = Queued(Len(rx))
      BY <3>1 DEF Queued
    <3> QED
      BY <3>1, <3>2, <3>3 DEF Fresh
  <2>5. CASE AppendCommit
    <3>1. UNCHANGED <<rx, accepted, rows, files>> /\ batch' = {}
      BY <2>5 DEF AppendCommit
    <3>2. Queued(Len(rx))' = Queued(Len(rx))
      BY <3>1 DEF Queued
    <3> QED
      BY <3>1, <3>2 DEF Fresh
  <2>6. CASE BarrierOnly
    BY <2>6, FreshIdle DEF BarrierOnly
  <2> QED
    BY <1>3, <2>1, <2>2, <2>3, <2>4, <2>5, <2>6 DEF WriterStep
<1>4. CASE WaiterStep
  BY <1>4, FreshIdle DEF WaiterStep, WaiterOk, WaiterErr, FinishWaiter
<1>5. CASE ProjectorStep \/ InsertOk \/ InsertFail
  <2>1. CASE Poll \/ SeeShutdown \/ Retire
    BY <2>1, FreshIdle DEF Poll, SeeShutdown, StopProjector, Retire
  <2>2. CASE RemoveFile
    <3>1. EventsOf(files') \subseteq EventsOf(files)
      BY <2>2 DEF RemoveFile, Restrict, EventsOf
    <3> QED
      BY <2>2, <3>1, FreshIdle DEF RemoveFile
  <2>3. CASE InsertOk \/ InsertFail
    <3>1. Up /\ ppc = "loaded" /\ rows' \subseteq rows \cup pbatch
      BY <2>3 DEF InsertOk, InsertFail
    <3>2. sequence \in DOMAIN files /\ pbatch = files[sequence]
      BY <3>1 DEF TypeOK, SpoolShape, Heads, Tails
    <3>3. rows' \cup EventsOf(files) \subseteq rows \cup EventsOf(files)
      BY <3>1, <3>2 DEF EventsOf
    <3> QED
      BY <2>3, <3>3, FreshIdle DEF InsertOk, InsertFail
  <2> QED
    BY <1>5, <2>1, <2>2, <2>3 DEF ProjectorStep
<1>6. CASE ShutdownStep
  BY <1>6, FreshIdle, FreshGone DEF ShutdownStep, DropSink, SetShutdownFlag, Exit, ProcessGone
<1>7. CASE FailureStep
  BY <1>7, FreshIdle, FreshGone
     DEF FailureStep, AppendIoError, StopWriter, ProjectorIoError, StopProjector, Kill,
         PowerFailure, ProcessGone
<1>8. CASE Start
  <2>1. rx' = <<>> /\ batch' = {}
    BY <1>8 DEF Start, SpoolShape, Up
  <2> QED
    BY <2>1, FreshGone
<1> QED
  BY <1>1, <1>2, <1>3, <1>4, <1>5, <1>6, <1>7, <1>8 DEF Next

(* Steps that touch neither the directory nor the rows; one more fault     *)
(* leaves less to show.                                                    *)
LEMMA OrderedIdle ==
    ASSUME Ordered, faults \in Nat, faults' \in Nat, faults <= faults',
           UNCHANGED <<rows, files, images, sequence>>, Up' <=> Up,
           ppc' = "removed" => ppc = "removed" /\ pbatch' = pbatch,
           faults' = 0 /\ ppc = "removed" => ppc' = "removed"
    PROVE  Ordered'
<1>1. ppc' = "removed" => pbatch' \subseteq rows'
  BY DEF Ordered
<1>2. ASSUME faults' <= 1
      PROVE  /\ Disjoint(files)'
             /\ Up' => \A t \in DOMAIN files' : t > sequence' => files'[t] \cap rows' = {}
             /\ ~Up' => InOrder(files)'
  <2>1. faults <= 1
    BY <1>2
  <2> QED
    BY <2>1 DEF Ordered, Disjoint, InOrder
<1>3. ASSUME faults' = 0
      PROVE  ImagesKnown'
  <2>1. faults = 0
    BY <1>3
  <2> QED
    BY <1>3, <2>1 DEF Ordered, ImagesKnown
<1> QED
  BY <1>1, <1>2, <1>3 DEF Ordered

(* What an insert adds to the rows is part of the batch at sequence.       *)
LEMMA OrderedInsert ==
    ASSUME TypeOK, SpoolShape, Ordered, Up, ppc = "loaded", rows' \subseteq rows \cup pbatch,
           ppc' \in {"loaded", "inserted"}, UNCHANGED <<closing, files, images, sequence, faults>>
    PROVE  Ordered'
<1>1. sequence \in DOMAIN files /\ pbatch = files[sequence] /\ sequence \in Nat
  BY DEF TypeOK, SpoolShape, Heads, Tails
<1>2. DOMAIN files \subseteq Nat
  BY DEF TypeOK, IsSpool
<1>3. faults <= 1 => \A t \in DOMAIN files : t > sequence => files[t] \cap rows' = {}
  BY <1>1, <1>2 DEF Ordered, Disjoint
<1>4. faults = 0 => ImagesKnown'
  BY DEF Ordered, ImagesKnown
<1> QED
  BY <1>3, <1>4 DEF Ordered, Disjoint, Up

(* The process is gone and leaves a directory that the invariant knows.    *)
LEMMA OrderedGone ==
    ASSUME TypeOK, SpoolShape, Ordered, Up, faults' \in Nat, faults <= faults', NEW img \in images,
           NEW imgs, ProcessGone(img, imgs),
           img = files \/ faults' # faults,
           faults' = 0 => imgs = images /\ ppc # "removed"
    PROVE  Ordered'
<1>1. ppc' = "stopped" /\ files' = img /\ rows' = rows /\ images' = imgs /\ ~Up'
  BY DEF ProcessGone, Up
<1>2. faults \in Nat /\ sequence \in Nat /\ DOMAIN files \subseteq Nat /\ DOMAIN img \subseteq Nat
  BY DEF TypeOK, IsSpool
<1>3. \A s \in DOMAIN files : s >= sequence
  BY DEF TypeOK, SpoolShape, Heads, Tails
<1>4. ASSUME faults' <= 1
      PROVE  Disjoint(img) /\ (\A s, t \in DOMAIN img : s < t => img[t] \cap rows = {})
  <2>1. faults <= 1 /\ (img = files \/ faults = 0)
    BY <1>2, <1>4
  <2>2. /\ Disjoint(files)
        /\ \A t \in DOMAIN files : t > sequence => files[t] \cap rows = {}
        /\ ppc = "removed" => pbatch \subseteq rows
    BY <2>1 DEF Ordered
  <2>3. \A s \in DOMAIN img :
          \/ s \in DOMAIN files /\ img[s] = files[s]
          \/ ppc = "removed" /\ s = sequence /\ img[s] = pbatch
    BY <2>1 DEF Ordered, ImagesKnown
  <2>4. ppc = "removed" => sequence \notin DOMAIN files
    BY DEF TypeOK, SpoolShape, Heads, Tails
  <2>5. \A s \in DOMAIN img : s >= sequence
    BY <1>2, <1>3, <2>3
  <2>6. \A s, t \in DOMAIN img : s < t => img[t] \cap rows = {}
    BY <1>2, <2>2, <2>3, <2>5
  <2>7. Disjoint(img)
    <3> SUFFICES ASSUME NEW s \in DOMAIN img, NEW t \in DOMAIN img, s # t
                 PROVE  img[s] \cap img[t] = {}
      BY DEF Disjoint
    <3>1. CASE s \in DOMAIN files /\ img[s] = files[s] /\ t \in DOMAIN files /\ img[t] = files[t]
      BY <2>2, <3>1 DEF Disjoint
    <3>2. CASE ppc = "removed" /\ s = sequence /\ img[s] = pbatch
      BY <1>2, <2>2, <2>5, <2>6, <3>2
    <3>3. CASE ppc = "removed" /\ t = sequence /\ img[t] = pbatch
      BY <1>2, <2>2, <2>5, <2>6, <3>3
    <3> QED
      BY <2>3, <3>1, <3>2, <3>3
  <2> QED
    BY <2>6, <2>7
<1>5. ASSUME faults' = 0
      PROVE  ImagesKnown'
  <2>1. faults = 0 /\ img = files /\ imgs = images /\ ppc # "removed"
    BY <1>2, <1>5
  <2> QED
    BY <1>1, <2>1 DEF Ordered, ImagesKnown
<1> QED
  BY <1>1, <1>4, <1>5 DEF Ordered, InOrder, Disjoint

(* Every step keeps the order of the projection.                           *)
LEMMA OrderedStep ==
    TypeOK /\ SpoolShape /\ BytesInv /\ Fresh /\ Ordered /\ TypeOK' /\ [Next]_vars => Ordered'
<1> SUFFICES ASSUME TypeOK, SpoolShape, BytesInv, Fresh, Ordered, TypeOK', [Next]_vars
             PROVE  Ordered'
  OBVIOUS
<1>0. /\ faults \in Nat /\ faults' \in Nat /\ sequence \in Nat
      /\ DOMAIN files \subseteq Nat
  BY DEF TypeOK, IsSpool
<1> USE DEF procVars, writerVars, projVars, diskVars, ackVars
<1>1. CASE UNCHANGED vars
  BY <1>0, <1>1, OrderedIdle DEF vars, Up
<1>2. CASE ClientStep
  <2>1. /\ UNCHANGED <<rows, files, images, sequence, ppc, pbatch, faults>>
        /\ closing' \in {"running", "barrier"} /\ closing = "running"
    BY <1>2 DEF ClientStep, CallBarrier, BeginShutdown, Send, SendBarrier
  <2> QED
    BY <1>0, <2>1, OrderedIdle DEF Up
<1>3. CASE WriterStep
  <2>1. CASE RecvFirst \/ RecvMore
    BY <1>0, <2>1, OrderedIdle DEF RecvFirst, RecvMore, Receive, Up
  <2>2. CASE CloseBatch \/ WriterDisconnected
    BY <1>0, <2>2, OrderedIdle DEF CloseBatch, WriterDisconnected, Up
  <2>3. CASE AppendOverQuota
    BY <1>0, <2>3, OrderedIdle DEF AppendOverQuota, StopWriter, Up
  <2>4. CASE AppendRename
    <3>1. /\ Up /\ wpc = "append" /\ images' = images \cup {files'}
          /\ DOMAIN files' = DOMAIN files \cup {next_sequence}
          /\ UNCHANGED <<closing, ppc, sequence, pbatch, rows, faults>>
      BY <2>4 DEF AppendRename
    <3>2. next_sequence \notin DOMAIN files
      <4>1. Up /\ wpc = "append"
        BY <3>1
      <4> QED
        BY <4>1 DEF TypeOK, SpoolShape, Heads, Tails
    <3>3. files'[next_sequence] = batch /\ \A s \in DOMAIN files : files'[s] = files[s]
      BY <2>4, <3>2 DEF AppendRename
    <3>4. batch \cap rows = {} /\ \A s \in DOMAIN files : batch \cap files[s] = {}
      BY <3>1 DEF Fresh, EventsOf
    <3>5. faults <= 1 => Disjoint(files')
      BY <3>1, <3>3, <3>4 DEF Ordered, Disjoint
    <3>6. faults <= 1 => \A t \in DOMAIN files' : t > sequence => files'[t] \cap rows = {}
      BY <3>1, <3>3, <3>4 DEF Ordered
    <3>7. faults = 0 => ImagesKnown'
      BY <3>1, <3>3 DEF Ordered, ImagesKnown
    <3> QED
      BY <3>1, <3>5, <3>6, <3>7 DEF Ordered, Disjoint, Up
  <2>5. CASE AppendCommit
    <3>1. /\ images' = {files} /\ UNCHANGED <<closing, ppc, sequence, pbatch, files, rows, faults>>
      BY <2>5 DEF AppendCommit
    <3>2. ImagesKnown'
      BY <3>1 DEF ImagesKnown
    <3> QED
      BY <3>1, <3>2 DEF Ordered, Disjoint, InOrder, Up
  <2>6. CASE BarrierOnly
    BY <1>0, <2>6, OrderedIdle DEF BarrierOnly, Up
  <2> QED
    BY <1>3, <2>1, <2>2, <2>3, <2>4, <2>5, <2>6 DEF WriterStep
<1>4. CASE WaiterStep
  BY <1>0, <1>4, OrderedIdle DEF WaiterStep, WaiterOk, WaiterErr, FinishWaiter, Up
<1>5. CASE ProjectorStep \/ InsertOk \/ InsertFail
  <2>1. CASE Poll \/ SeeShutdown
    BY <1>0, <2>1, OrderedIdle DEF Poll, SeeShutdown, StopProjector, Up
  <2>2. CASE RemoveFile
    <3>1. /\ Up /\ ppc = "inserted" /\ ppc' = "removed" /\ images' = images \cup {files'}
          /\ files' = Restrict(files, DOMAIN files \ {sequence})
          /\ UNCHANGED <<closing, sequence, pbatch, rows, faults>>
      BY <2>2 DEF RemoveFile
    <3>2. sequence \in DOMAIN files /\ pbatch = files[sequence] /\ files[sequence] \subseteq rows
      BY <3>1 DEF TypeOK, SpoolShape, Tails, Heads, BytesInv, InHand
    <3>3. /\ DOMAIN files' = DOMAIN files \ {sequence}
          /\ \A s \in DOMAIN files' : files'[s] = files[s]
      BY <3>1 DEF Restrict
    <3>4. faults = 0 => ImagesKnown'
      BY <3>1, <3>2, <3>3 DEF Ordered, ImagesKnown
    <3>5. faults <= 1 => Disjoint(files') /\
            \A t \in DOMAIN files' : t > sequence => files'[t] \cap rows = {}
      BY <3>1, <3>3 DEF Ordered, Disjoint
    <3> QED
      BY <3>1, <3>2, <3>4, <3>5 DEF Ordered, Disjoint, Up
  <2>3. CASE Retire
    <3>1. /\ ppc' = "poll" /\ sequence' = sequence + 1 /\ images' = {files} /\ Up
          /\ UNCHANGED <<closing, files, rows, faults>>
      BY <2>3 DEF Retire
    <3>2. ImagesKnown'
      BY <3>1 DEF ImagesKnown
    <3>3. \A t \in DOMAIN files : t > sequence + 1 => t > sequence
      BY <1>0
    <3> QED
      BY <3>1, <3>2, <3>3 DEF Ordered, Disjoint, Up
  <2>4. CASE InsertOk \/ InsertFail
    BY <2>4, OrderedInsert DEF InsertOk, InsertFail
  <2> QED
    BY <1>5, <2>1, <2>2, <2>3, <2>4 DEF ProjectorStep
<1>6. CASE ShutdownStep
  <2>1. CASE DropSink \/ SetShutdownFlag
    BY <1>0, <2>1, OrderedIdle DEF DropSink, SetShutdownFlag, Up
  <2>2. CASE Exit
    <3>1. /\ Up /\ ppc = "stopped" /\ ProcessGone(files, images) /\ faults' = faults
          /\ files \in images
      BY <2>2 DEF Exit, ShutdownFlag, Up, SpoolShape
    <3> QED
      BY <1>0, <3>1, OrderedGone
  <2> QED
    BY <1>6, <2>1, <2>2 DEF ShutdownStep
<1>7. CASE FailureStep
  <2>0. faults' = faults + 1
    BY <1>7 DEF FailureStep, AppendIoError, ProjectorIoError, Kill, PowerFailure, Fault
  <2>1. CASE AppendIoError
    BY <1>0, <2>0, <2>1, OrderedIdle DEF AppendIoError, StopWriter, Up
  <2>2. CASE ProjectorIoError
    BY <1>0, <2>0, <2>2, OrderedIdle DEF ProjectorIoError, StopProjector, Up
  <2>3. CASE Kill \/ PowerFailure
    <3>1. PICK img \in images : \E imgs : ProcessGone(img, imgs)
      BY <2>3 DEF Kill, PowerFailure, SpoolShape
    <3>2. PICK imgs : ProcessGone(img, imgs)
      BY <3>1
    <3>3. Up /\ faults <= faults' /\ faults' # faults /\ faults' # 0
      BY <1>0, <2>0, <2>3 DEF Kill, PowerFailure
    <3> QED
      BY <1>0, <3>2, <3>3, OrderedGone
  <2> QED
    BY <1>7, <2>1, <2>2, <2>3 DEF FailureStep
<1>8. CASE Start
  <2>1. /\ UNCHANGED <<files, images, rows, faults>> /\ ppc' = "poll" /\ ~Up /\ Up'
        /\ DOMAIN files # {} => sequence' = Min(DOMAIN files)
    BY <1>8 DEF Start, Up
  <2>2. DOMAIN files # {} => Min(DOMAIN files) \in DOMAIN files
    <3>1. DOMAIN files # {} => /\ Min(DOMAIN files) \in Nat \ {0} /\ max_sequence \in Nat
                               /\ DOMAIN files = Min(DOMAIN files)..max_sequence
      BY SpoolEnds DEF TypeOK, SpoolShape
    <3> QED
      BY <3>1
  <2>3. faults <= 1 => \A t \in DOMAIN files : t > sequence' => files[t] \cap rows = {}
    BY <1>0, <2>1, <2>2 DEF Ordered, InOrder
  <2>4. faults = 0 => ImagesKnown'
    <3>1. ppc = "stopped"
      BY <2>1 DEF SpoolShape
    <3> QED
      BY <2>1, <3>1 DEF Ordered, ImagesKnown
  <2> QED
    BY <2>1, <2>3, <2>4 DEF Ordered, Disjoint
<1> QED
  BY <1>1, <1>2, <1>3, <1>4, <1>5, <1>6, <1>7, <1>8 DEF Next

(* Batches reach ClickHouse oldest first, through every step and any one   *)
(* fault (storage/mod.rs:186-260): a batch is never inserted again after a *)
(* newer one.                                                              *)
THEOREM ProjectionOrderCorrect == Spec => []ProjectionInOrder
<1> DEFINE Inv == TypeOK /\ SpoolShape /\ BytesInv /\ Fresh /\ Ordered
<1>1. Init => Fresh /\ Ordered
  <2> SUFFICES ASSUME Init PROVE Fresh /\ Ordered
    OBVIOUS
  <2>1. Queued(Len(rx)) = {}
    BY DEF Init, Queued
  <2> QED
    BY <2>1 DEF Init, Fresh, Ordered, Disjoint, InOrder, ImagesKnown
<1>2. Inv /\ [Next]_vars => Inv'
  BY TypeStep, ShapeStep, BytesStep, FreshStep, OrderedStep
<1>3. Inv => ProjectionInOrder
  <2> SUFFICES ASSUME Inv, faults <= 1, NEW s \in DOMAIN files, NEW t \in DOMAIN files, s < t
               PROVE  files[t] \cap rows = {}
    BY DEF ProjectionInOrder
  <2>1. CASE Up
    <3>1. s >= sequence /\ s \in Nat /\ t \in Nat /\ sequence \in Nat
      BY <2>1 DEF TypeOK, IsSpool, SpoolShape, Heads, Tails
    <3> QED
      BY <2>1, <3>1 DEF Ordered
  <2>2. CASE ~Up
    BY <2>2 DEF Ordered, InOrder
  <2> QED
    BY <2>1, <2>2
<1> QED
  BY <1>1, <1>2, <1>3, RestartInit, InitInv, PTL DEF Spec
=============================================================================
