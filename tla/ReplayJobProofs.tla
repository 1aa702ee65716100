-------------------------- MODULE ReplayJobProofs --------------------------
(***************************************************************************)
(* Proofs about ReplayJob: a checkpoint never counts a segment whose hits  *)
(* are not durable.                                                        *)
(***************************************************************************)
EXTENDS ReplayJob, FiniteSetTheorems, FunctionTheorems, SequenceTheorems, TLAPS

-----------------------------------------------------------------------------
(* Facts about numbers, finite sets and sequences.                         *)

(* A non-empty set of natural numbers has a least element: induction is by *)
(* a least counterexample.                                                 *)
LEMMA LeastNatural ==
    ASSUME NEW S \in SUBSET Nat, S # {}
    PROVE  \E n \in S : \A m \in S : n <= m
<1> DEFINE R == OpToRel(<, Nat)
<1>1. IsWellFoundedOn(R, Nat)
  BY NatLessThanWellFounded
<1>2. \A m, n \in Nat : m < n => <<m, n>> \in R
  BY DEF OpToRel
<1> HIDE DEF R
<1>3. PICK n \in S : \A m \in S : ~(<<m, n>> \in R)
  BY <1>1, WFMin
<1>4. \A m \in S : ~(m < n)
  BY <1>2, <1>3
<1>5. \A m \in S : n <= m
  BY <1>4
<1> QED
  BY <1>5

(* The sizes of two disjoint finite sets add up.                           *)
LEMMA CardinalityPlus ==
    ASSUME NEW S, IsFiniteSet(S), NEW T, IsFiniteSet(T), S \cap T = {}
    PROVE  /\ IsFiniteSet(S \cup T)
           /\ Cardinality(S) \in Nat /\ Cardinality(T) \in Nat
           /\ Cardinality(S \cup T) = Cardinality(S) + Cardinality(T)
BY FS_Union, FS_EmptySet, FS_CardinalityType

(* A sequence, of whatever elements.                                       *)
IsSequence(q) == q \in Seq({q[i] : i \in DOMAIN q})

(* What is numbered from 1 is a sequence.                                  *)
LEMMA NumberedIsSequence ==
    ASSUME NEW n \in Nat, NEW q, q = [i \in 1 .. n |-> q[i]]
    PROVE  IsSequence(q) /\ Len(q) = n
<1> DEFINE T == {q[i] : i \in DOMAIN q}
<1>1. q \in [1 .. n -> T]
  OBVIOUS
<1> HIDE DEF T
<1>2. q \in Seq(T) /\ Len(q) = n
  BY <1>1
<1> QED
  BY <1>2 DEF IsSequence, T

(* A sequence is numbered from 1.                                          *)
LEMMA SequenceIsNumbered ==
    ASSUME NEW q, IsSequence(q)
    PROVE  Len(q) \in Nat /\ DOMAIN q = 1 .. Len(q) /\ q = [i \in 1 .. Len(q) |-> q[i]]
<1> DEFINE T == {q[i] : i \in DOMAIN q}
<1>1. q \in Seq(T)
  BY DEF IsSequence
<1> HIDE DEF T
<1> QED
  BY <1>1

(* No elements make a sequence.                                            *)
LEMMA EmptySequence == IsSequence(<<>>) /\ Len(<<>>) = 0 /\ DOMAIN <<>> = {}
BY DEF IsSequence

(* Appending to a sequence leaves what it has, and adds one element.       *)
LEMMA AppendToSequence ==
    ASSUME NEW q, IsSequence(q), NEW x
    PROVE  /\ IsSequence(Append(q, x)) /\ Len(q) \in Nat /\ Len(Append(q, x)) = Len(q) + 1
           /\ DOMAIN q = 1 .. Len(q) /\ DOMAIN Append(q, x) = 1 .. Len(q) + 1
           /\ \A i \in DOMAIN q : Append(q, x)[i] = q[i]
           /\ Append(q, x)[Len(q) + 1] = x
<1> DEFINE T == {q[i] : i \in DOMAIN q}
           U == T \cup {x}
           r == Append(q, x)
<1>1. q \in Seq(T) /\ q \in Seq(U) /\ x \in U
  BY DEF IsSequence
<1> HIDE DEF T, U
<1>2. /\ r \in Seq(U) /\ Len(q) \in Nat /\ Len(r) = Len(q) + 1
      /\ DOMAIN q = 1 .. Len(q) /\ DOMAIN r = 1 .. Len(q) + 1
      /\ \A i \in DOMAIN q : r[i] = q[i]
      /\ r[Len(q) + 1] = x
  BY <1>1
<1> HIDE DEF r
<1>3. r = [i \in 1 .. Len(q) + 1 |-> r[i]]
  BY <1>2
<1>4. IsSequence(r)
  BY <1>2, <1>3, NumberedIsSequence
<1> QED
  BY <1>2, <1>4 DEF r

(* Taking the first element of a sequence moves the others up.             *)
LEMMA TailOfSequence ==
    ASSUME NEW q, IsSequence(q), q # <<>>
    PROVE  /\ IsSequence(Tail(q)) /\ Len(q) \in Nat \ {0} /\ DOMAIN q = 1 .. Len(q)
           /\ Head(q) = q[1] /\ Len(Tail(q)) = Len(q) - 1 /\ DOMAIN Tail(q) = 1 .. Len(q) - 1
           /\ \A i \in DOMAIN Tail(q) : i + 1 \in DOMAIN q /\ Tail(q)[i] = q[i + 1]
<1> DEFINE T == {q[i] : i \in DOMAIN q}
           r == Tail(q)
<1>1. q \in Seq(T)
  BY DEF IsSequence
<1> HIDE DEF T
<1>2. /\ r \in Seq(T) /\ Len(q) \in Nat \ {0} /\ DOMAIN q = 1 .. Len(q)
      /\ Head(q) = q[1] /\ Len(r) = Len(q) - 1 /\ DOMAIN r = 1 .. Len(q) - 1
      /\ \A i \in DOMAIN r : i + 1 \in DOMAIN q /\ r[i] = q[i + 1]
  BY <1>1
<1> HIDE DEF r
<1>3. r = [i \in 1 .. Len(q) - 1 |-> r[i]]
  BY <1>2
<1>4. IsSequence(r)
  BY <1>2, <1>3, NumberedIsSequence
<1> QED
  BY <1>2, <1>4 DEF r

(* Putting a sequence behind another leaves the elements of both.          *)
LEMMA ConcatOfSequences ==
    ASSUME NEW q, IsSequence(q), NEW s, IsSequence(s)
    PROVE  /\ IsSequence(q \o s) /\ Len(q) \in Nat /\ Len(s) \in Nat /\ Len(q \o s) = Len(q) + Len(s)
           /\ DOMAIN q = 1 .. Len(q) /\ DOMAIN s = 1 .. Len(s)
           /\ DOMAIN (q \o s) = 1 .. Len(q) + Len(s)
           /\ \A i \in 1 .. Len(q) + Len(s) : (q \o s)[i] = IF i <= Len(q) THEN q[i] ELSE s[i - Len(q)]
<1> DEFINE T == {q[i] : i \in DOMAIN q} \cup {s[i] : i \in DOMAIN s}
           r == q \o s
<1>1. q \in Seq(T) /\ s \in Seq(T)
  BY DEF IsSequence
<1> HIDE DEF T
<1>2. /\ r \in Seq(T) /\ Len(q) \in Nat /\ Len(s) \in Nat /\ Len(r) = Len(q) + Len(s)
      /\ DOMAIN q = 1 .. Len(q) /\ DOMAIN s = 1 .. Len(s) /\ DOMAIN r = 1 .. Len(q) + Len(s)
      /\ \A i \in 1 .. Len(q) + Len(s) : r[i] = IF i <= Len(q) THEN q[i] ELSE s[i - Len(q)]
  BY <1>1
<1> HIDE DEF r
<1>3. r = [i \in 1 .. Len(q) + Len(s) |-> r[i]] /\ Len(q) + Len(s) \in Nat
  BY <1>2
<1>4. IsSequence(r)
  BY <1>2, <1>3, NumberedIsSequence
<1> QED
  BY <1>2, <1>4 DEF r

-----------------------------------------------------------------------------
Segments == 1 .. Sealed

(* Segments in the order they were written.                                *)
IsPaths(q) == q \in Seq(Segments) /\ \A i, k \in DOMAIN q : i < k => q[i] < q[k]

(* What a row or a report counts as done is done: its hits are durable and *)
(* counted, exactly if exact says so; no resumption is ahead of it.        *)
RowTrue(paths, cuts, hits, exact, done, found) ==
    /\ done \in 0 .. Len(paths) /\ found \in Nat
    /\ \A c \in cuts : c \in Nat /\ c <= done
    /\ HitsOf(paths, cuts, done) \subseteq hits
    /\ found >= Cardinality(HitsOf(paths, cuts, done))
    /\ exact => found = Cardinality(HitsOf(paths, cuts, done))

JobTrue(job, cuts, hits, exact) ==
    /\ job = [pats |-> job.pats, paths |-> job.paths, status |-> job.status,
              done |-> job.done, found |-> job.found]
    /\ IsPaths(job.paths)
    /\ job.status \in {"queued", "running", "completed", "failed"}
    /\ RowTrue(job.paths, cuts, hits, exact, job.done, job.found)
    /\ job.status = "completed" => job.done = Len(job.paths)

TableTrue ==
    /\ IsSequence(jobs) /\ IsSequence(durable) /\ IsSequence(resumed)
    /\ DOMAIN durable = DOMAIN jobs /\ DOMAIN resumed = DOMAIN jobs
    /\ \A j \in DOMAIN jobs : JobTrue(jobs[j], resumed[j], durable[j], ~paused)

(* The segments on disk can be listed in order.                            *)
PresentTrue ==
    /\ present \subseteq Segments
    /\ \E s \in [1 .. Cardinality(present) -> present] :
          \A i, k \in DOMAIN s : i < k => s[i] < s[k]

(* The scheduler names jobs of the table, and the thread is there while it *)
(* waits for one.                                                          *)
SchedTrue ==
    /\ sched.pc \in {"recovering", "created", "executing"} => sched.job \in DOMAIN jobs
    /\ sched.pc \in {"next", "recovering", "executing"} => sched.todo \subseteq DOMAIN jobs
    /\ sched.pc = "sealed" => IsPaths(sched.paths)
    /\ IF sched.pc = "executing" THEN run.pc # "none" /\ run.job = sched.job
       ELSE run = NoRun /\ hitq = <<>> /\ work = [w \in Workers |-> <<>>] /\ dead = {}
    /\ paused \in BOOLEAN /\ shutdown \in BOOLEAN /\ metadata \in BOOLEAN /\ refused \in BOOLEAN
    /\ shutdown => paused
    /\ sent # {} => metadata

-----------------------------------------------------------------------------
(* The forms of the thread's state.                                        *)
RunFields == {"pc", "job", "paths", "done", "found", "result"}
PlainRun(r) == /\ DOMAIN r = RunFields
               /\ r = [pc |-> r.pc, job |-> r.job, paths |-> r.paths, done |-> r.done,
                       found |-> r.found, result |-> r.result]
NextRun(r) == /\ DOMAIN r = RunFields \cup {"next"}
              /\ r = [pc |-> r.pc, job |-> r.job, paths |-> r.paths, done |-> r.done,
                      found |-> r.found, result |-> r.result, next |-> r.next]
FarRun(r) == /\ DOMAIN r = RunFields \cup {"so_far"}
             /\ r = [pc |-> r.pc, job |-> r.job, paths |-> r.paths, done |-> r.done,
                     found |-> r.found, result |-> r.result, so_far |-> r.so_far]

Paths == jobs[run.job].paths
Cuts == resumed[run.job]
ReportTrue(r) == RowTrue(Paths, Cuts, durable[run.job], ~paused, r.done, r.found)

(* The thread, at all times.                                               *)
RunTrue ==
    /\ PlainRun(run) \/ NextRun(run) \/ FarRun(run)
    /\ run.pc \in {"segment", "scan", "workers", "collector", "barrier", "join", "returned"}
    /\ run.found \in Nat /\ collected \in Nat
    /\ run.paths \in Seq(Segments) /\ Len(run.paths) = Len(Paths) - run.done
    /\ \A i \in DOMAIN run.paths : run.paths[i] = Paths[run.done + i]
    /\ RowTrue(Paths, Cuts, durable[run.job], FALSE, run.done, run.found + collected)
    /\ IsSequence(progress) /\ \A i \in DOMAIN progress : ReportTrue(progress[i])
    /\ ReportTrue(last)
    /\ run.pc \in {"scan", "workers", "collector"} => NextRun(run)
    /\ run.pc # "returned" => run.result = "none"
    /\ run.result = "ok" /\ ~shutdown => Final.done = Len(Paths)
    /\ run.pc = "join" /\ ~shutdown => run.paths = <<>>

(* The queues, at all times.                                               *)
QueuesTrue ==
    /\ IsSequence(hitq)
    /\ \A n \in DOMAIN hitq :
          \/ hitq[n].kind = "hit"
          \/ hitq[n].kind = "barrier" /\ n = Len(hitq) /\ run.pc = "collector"
    /\ run.pc = "collector" /\ ~refused => hitq # <<>> /\ hitq[Len(hitq)].kind = "barrier"
    /\ run.pc \in {"segment", "barrier"} \/ (run.pc = "join" /\ ~shutdown)
          => hitq = <<>> /\ ~refused
    /\ refused => hitq = <<>> /\ ~metadata
    /\ dead # {} => refused
    /\ dead \subseteq Workers /\ acks \subseteq Workers /\ DOMAIN work = Workers
    /\ \A w \in Workers : IsSequence(work[w])

-----------------------------------------------------------------------------
(* The segment under way, of which dealt records were handed out.          *)
Working == run.pc \in {"scan", "workers"}
Whole == run.pc \in {"collector", "barrier"}
Dealt == IF Working THEN run.next - 1 ELSE IF Whole THEN Len(Records) ELSE 0

Waiting == {i \in 1 .. Dealt : \E w \in Workers : \E m \in DOMAIN work[w] :
                                   work[w][m].kind = "record" /\ work[w][m].i = i}
Scanned == (1 .. Dealt) \ Waiting

(* A queue holds records of the segment in their order, then the barrier.  *)
IsItem(x, w, seg, dealt) ==
    /\ x.kind = "record" /\ x.seg = seg /\ x.i \in 1 .. dealt
    /\ x.r = SegmentOf[seg][x.i] /\ WorkerOf(x.r.flow) = w
WorkTrue(w) ==
    /\ \A m \in DOMAIN work[w] :
          \/ IsItem(work[w][m], w, Head(run.paths), Dealt)
          \/ work[w][m].kind = "barrier" /\ m = Len(work[w]) /\ run.pc = "workers" /\ w \notin acks
    /\ \A m, n \in DOMAIN work[w] :
          m < n /\ work[w][n].kind = "record" => work[w][m].i < work[w][n].i
    /\ \A m \in DOMAIN work[w] : work[w][m].kind = "record" =>
          \A i \in Scanned : WorkerOf(Records[i].flow) = w => i < work[w][m].i

(* The flows of the segments since the last resumption.                    *)
FlowsBefore(paths, cuts, n) ==
    {At(paths, y).flow : y \in {y \in Pos(paths, n) : \A c \in cuts : c < y[1]}}

(* The hits of n segments and of records S of the one behind.              *)
Part(paths, cuts, n, S) == UNION {HitsAt(paths, cuts, <<n, i>>) : i \in S}
Got(paths, cuts, n, S) == HitsOf(paths, cuts, n) \cup Part(paths, cuts, n + 1, S)

InQueue == {hitq[n].hit : n \in {n \in DOMAIN hitq : hitq[n].kind = "hit"}}
SentOf(j) == {s.hit : s \in {s \in sent : s.job = j}}
Total == run.found + collected + (IF run.pc = "collector" THEN Len(hitq) - 1 ELSE Len(hitq))

HitsSoFar == Got(Paths, Cuts, run.done, Scanned)

PhaseTrue ==
    /\ Working \/ Whole => run.paths # <<>>
    /\ Working => run.next \in 1 .. Len(Records) + 1
    /\ run.pc = "workers" => run.next = Len(Records) + 1
    /\ run.pc = "barrier" => FarRun(run) /\ run.so_far = collected
    /\ run.pc = "workers" => \A w \in acks : work[w] = <<>>
WorkersTrue ==
    /\ ~Working => \A w \in Workers : work[w] = <<>>
    /\ \A w \in Workers : WorkTrue(w)
TailsTrue ==
    tails = FlowsBefore(Paths, Cuts, run.done) \cup {Records[i].flow : i \in Scanned}
CountTrue ==
    /\ Total >= Cardinality(HitsSoFar)
    /\ ~paused => Total = Cardinality(HitsSoFar)
SafeTrue ==
    metadata => HitsSoFar \subseteq durable[run.job] \cup SentOf(run.job) \cup InQueue

(* Nothing was refused: every hit of a scanned record is counted or in the *)
(* queue, and is safe unless the metadata writer is gone.                  *)
ScanTrue == PhaseTrue /\ WorkersTrue /\ TailsTrue /\ CountTrue /\ SafeTrue

Active == run.pc \in {"segment", "scan", "workers", "collector", "barrier"}
          \/ (run.pc = "join" /\ ~shutdown)

IInv ==
    /\ TableTrue /\ PresentTrue /\ SchedTrue
    /\ run.pc # "none" => RunTrue /\ QueuesTrue
    /\ Active /\ ~refused => ScanTrue

-----------------------------------------------------------------------------
(* What the hits of some segments are made of.                             *)

(* What a function takes a finite set to is finite.                        *)
LEMMA FiniteImage ==
    ASSUME NEW S, IsFiniteSet(S), NEW f, f = [x \in S |-> f[x]]
    PROVE  IsFiniteSet({f[x] : x \in S})
<1> DEFINE T == {f[x] : x \in S}
<1>1. f \in Surjection(S, T)
  BY DEF Surjection
<1> QED
  BY <1>1, FS_Surjection

(* A segment of a job is one of those there are, with its records.         *)
LEMMA PathsMap ==
    ASSUME NEW paths, IsPaths(paths), NEW k \in DOMAIN paths
    PROVE  /\ paths[k] \in DOMAIN SegmentOf /\ Len(paths) \in Nat /\ k \in 1 .. Len(paths)
           /\ DOMAIN paths = 1 .. Len(paths)
           /\ SegmentOf[paths[k]] \in Seq([flow : Nat, own : BOOLEAN, cross : BOOLEAN])
           /\ Len(SegmentOf[paths[k]]) \in Nat
           /\ DOMAIN SegmentOf[paths[k]] = 1 .. Len(SegmentOf[paths[k]])
           /\ \A i \in DOMAIN SegmentOf[paths[k]] :
                 SegmentOf[paths[k]][i] \in [flow : Nat, own : BOOLEAN, cross : BOOLEAN]
<1> DEFINE R == Seq([flow : Nat, own : BOOLEAN, cross : BOOLEAN])
<1>1. SegmentOf \in Seq(R) /\ Sealed \in Nat /\ Sealed <= Len(SegmentOf)
  BY ReplayAssumption
<1>2. paths \in Seq(Segments) /\ paths[k] \in Segments
  BY DEF IsPaths
<1>3. Len(paths) \in Nat /\ DOMAIN paths = 1 .. Len(paths) /\ k \in 1 .. Len(paths)
  BY <1>2
<1>4. paths[k] \in 1 .. Sealed
  BY <1>2 DEF Segments
<1> HIDE DEF R
<1>5. paths[k] \in DOMAIN SegmentOf /\ SegmentOf[paths[k]] \in R
  BY <1>1, <1>4
<1>6. SegmentOf[paths[k]] \in Seq([flow : Nat, own : BOOLEAN, cross : BOOLEAN])
  BY <1>5 DEF R
<1> DEFINE Q == [flow : Nat, own : BOOLEAN, cross : BOOLEAN]
           q == SegmentOf[paths[k]]
<1>7. q \in Seq(Q)
  BY <1>6
<1> HIDE DEF Q, q
<1>8. Len(q) \in Nat /\ DOMAIN q = 1 .. Len(q) /\ \A i \in DOMAIN q : q[i] \in Q
  BY <1>7
<1> QED
  BY <1>3, <1>5, <1>6, <1>8 DEF Q, q

(* The hits at a place.                                                    *)
LEMMA HitsAtForm ==
    ASSUME NEW paths, NEW cuts, NEW x
    PROVE  /\ IsFiniteSet(HitsAt(paths, cuts, x))
           /\ \A h \in HitsAt(paths, cuts, x) : h.seg = paths[x[1]] /\ h.i = x[2]
<1> DEFINE a == [seg |-> paths[x[1]], i |-> x[2], kind |-> "own"]
           b == [seg |-> paths[x[1]], i |-> x[2], kind |-> "cross"]
<1>1. HitsAt(paths, cuts, x) \subseteq {a} \cup {b}
  BY DEF HitsAt
<1>2. a.seg = paths[x[1]] /\ a.i = x[2] /\ b.seg = paths[x[1]] /\ b.i = x[2]
  OBVIOUS
<1> HIDE DEF a, b
<1>3. IsFiniteSet({a} \cup {b})
  BY FS_Singleton, FS_AddElement
<1> QED
  BY <1>1, <1>2, <1>3, FS_Subset

(* The places of a record, by its segment and its number there.            *)
LEMMA PosForm ==
    ASSUME NEW paths, NEW n, NEW x
    PROVE  x \in Pos(paths, n) <=> \E k \in 1 .. n : \E i \in DOMAIN SegmentOf[paths[k]] : x = <<k, i>>
BY DEF Pos

(* There are finitely many places.                                         *)
LEMMA PosFinite ==
    ASSUME NEW paths, IsPaths(paths), NEW n \in 0 .. Len(paths)
    PROVE  IsFiniteSet(Pos(paths, n))
<1> DEFINE f == [k \in 1 .. n |-> {k} \X DOMAIN SegmentOf[paths[k]]]
<1>0. Len(paths) \in Nat /\ DOMAIN paths = 1 .. Len(paths)
  BY DEF IsPaths
<1>1. IsFiniteSet(1 .. n)
  BY <1>0, FS_Interval
<1>2. IsFiniteSet({f[k] : k \in 1 .. n})
  <2>1. f = [k \in 1 .. n |-> f[k]]
    OBVIOUS
  <2> HIDE DEF f
  <2> QED
    BY <1>1, <2>1, FiniteImage
<1>3. ASSUME NEW k \in 1 .. n PROVE IsFiniteSet(f[k])
  <2>1. k \in DOMAIN paths
    BY <1>0
  <2>2. DOMAIN SegmentOf[paths[k]] = 1 .. Len(SegmentOf[paths[k]]) /\ Len(SegmentOf[paths[k]]) \in Nat
    BY <2>1, PathsMap
  <2>3. IsFiniteSet(DOMAIN SegmentOf[paths[k]]) /\ IsFiniteSet({k})
    <3> DEFINE m == Len(SegmentOf[paths[k]])
    <3>1. m \in Int /\ DOMAIN SegmentOf[paths[k]] = 1 .. m
      BY <2>2
    <3> HIDE DEF m
    <3>2. IsFiniteSet(1 .. m)
      BY <3>1, FS_Interval
    <3> QED
      BY <3>1, <3>2, FS_Singleton
  <2>4. IsFiniteSet({k} \X DOMAIN SegmentOf[paths[k]])
    BY <2>3, FS_Product
  <2> QED
    BY <2>4
<1>4. Pos(paths, n) = UNION {f[k] : k \in 1 .. n}
  BY DEF Pos
<1> HIDE DEF f
<1> QED
  BY <1>2, <1>3, <1>4, FS_UNION

(* A finite union of hits is finite.                                       *)
LEMMA HitsFinite ==
    ASSUME NEW paths, NEW cuts, NEW S, IsFiniteSet(S)
    PROVE  IsFiniteSet(UNION {HitsAt(paths, cuts, x) : x \in S})
<1> DEFINE f == [x \in S |-> HitsAt(paths, cuts, x)]
<1>1. f = [x \in S |-> f[x]] /\ \A x \in S : f[x] = HitsAt(paths, cuts, x)
  OBVIOUS
<1>2. {HitsAt(paths, cuts, x) : x \in S} = {f[x] : x \in S}
  BY <1>1
<1>3. \A x \in S : IsFiniteSet(f[x])
  BY <1>1, HitsAtForm
<1> HIDE DEF f
<1>4. IsFiniteSet({f[x] : x \in S})
  BY <1>1, FiniteImage
<1> QED
  BY <1>2, <1>3, <1>4, FS_UNION

(* The hits of some segments and of a part of another are finitely many.   *)
LEMMA GotFinite ==
    ASSUME NEW paths, IsPaths(paths), NEW n \in 0 .. Len(paths), NEW cuts, NEW S, IsFiniteSet(S)
    PROVE  IsFiniteSet(HitsOf(paths, cuts, n)) /\ IsFiniteSet(Got(paths, cuts, n, S))
<1>1. IsFiniteSet(HitsOf(paths, cuts, n))
  BY PosFinite, HitsFinite DEF HitsOf
<1> DEFINE f == [i \in S |-> <<n + 1, i>>]
           T == {f[i] : i \in S}
<1>2. IsFiniteSet(T)
  BY FiniteImage
<1>3. Part(paths, cuts, n + 1, S) = UNION {HitsAt(paths, cuts, x) : x \in T}
  BY DEF Part
<1> HIDE DEF T
<1>4. IsFiniteSet(Part(paths, cuts, n + 1, S))
  BY <1>2, <1>3, HitsFinite
<1> QED
  BY <1>1, <1>4, FS_Union DEF Got

(* One more record adds the hits at its place, which are new.              *)
LEMMA GotAdds ==
    ASSUME NEW paths, IsPaths(paths), NEW n \in 0 .. Len(paths) - 1, NEW cuts,
           NEW S, IsFiniteSet(S), NEW i, i \notin S
    PROVE  LET new == HitsAt(paths, cuts, <<n + 1, i>>) IN
           /\ Got(paths, cuts, n, S \cup {i}) = Got(paths, cuts, n, S) \cup new
           /\ Cardinality(Got(paths, cuts, n, S)) \in Nat /\ Cardinality(new) \in Nat
           /\ Cardinality(Got(paths, cuts, n, S \cup {i}))
                 = Cardinality(Got(paths, cuts, n, S)) + Cardinality(new)
<1> DEFINE new == HitsAt(paths, cuts, <<n + 1, i>>)
           old == Got(paths, cuts, n, S)
<1>0. Len(paths) \in Nat /\ DOMAIN paths = 1 .. Len(paths) /\ n \in Nat /\ n + 1 \in DOMAIN paths
      /\ n \in 0 .. Len(paths)
  BY DEF IsPaths
<1>1. Got(paths, cuts, n, S \cup {i}) = old \cup new
  BY DEF Got, Part
<1>2. IsFiniteSet(old)
  BY <1>0, GotFinite
<1>3. IsFiniteSet(new) /\ \A h \in new : h.seg = paths[n + 1] /\ h.i = i
  <2>1. <<n + 1, i>>[1] = n + 1 /\ <<n + 1, i>>[2] = i
    OBVIOUS
  <2> QED
    BY <2>1, HitsAtForm
<1>4. ASSUME NEW h \in old, h \in new PROVE FALSE
  <2>1. h.seg = paths[n + 1] /\ h.i = i
    BY <1>3, <1>4
  <2>2. CASE h \in HitsOf(paths, cuts, n)
    <3>1. PICK x \in Pos(paths, n) : h \in HitsAt(paths, cuts, x)
      BY <2>2 DEF HitsOf
    <3>2. h.seg = paths[x[1]]
      BY <3>1, HitsAtForm
    <3>3. PICK k \in 1 .. n : x[1] = k
      BY <3>1, PosForm
    <3>4. k < n + 1 /\ k \in DOMAIN paths
      BY <1>0
    <3>5. paths[k] < paths[n + 1] /\ paths[k] \in Segments /\ paths[n + 1] \in Segments
      BY <1>0, <3>4 DEF IsPaths
    <3>6. paths[k] # paths[n + 1]
      BY <3>5, ReplayAssumption DEF Segments
    <3> QED
      BY <2>1, <3>2, <3>3, <3>6
  <2>3. CASE h \in Part(paths, cuts, n + 1, S)
    <3>1. PICK k \in S : h \in HitsAt(paths, cuts, <<n + 1, k>>)
      BY <2>3 DEF Part
    <3>2. h.i = k
      BY <3>1, HitsAtForm
    <3> QED
      BY <2>1, <3>2
  <2> QED
    BY <1>4, <2>2, <2>3 DEF Got
<1>5. old \cap new = {}
  BY <1>4
<1> HIDE DEF old, new
<1>6. Cardinality(old) \in Nat /\ Cardinality(new) \in Nat
      /\ Cardinality(old \cup new) = Cardinality(old) + Cardinality(new)
  BY <1>2, <1>3, <1>5, CardinalityPlus
<1> QED
  BY <1>1, <1>6 DEF old, new

(* With all its records, the segment is one of those done.                 *)
LEMMA GotWhole ==
    ASSUME NEW paths, IsPaths(paths), NEW n \in 0 .. Len(paths) - 1, NEW cuts
    PROVE  Got(paths, cuts, n, DOMAIN SegmentOf[paths[n + 1]]) = HitsOf(paths, cuts, n + 1)
<1>0. Len(paths) \in Nat /\ n \in Nat
  BY DEF IsPaths
<1> DEFINE R == DOMAIN SegmentOf[paths[n + 1]]
<1>1. ASSUME NEW x PROVE x \in Pos(paths, n + 1) <=> x \in Pos(paths, n) \/ \E i \in R : x = <<n + 1, i>>
  <2>1. \A k : k \in 1 .. n + 1 <=> k \in 1 .. n \/ k = n + 1
    BY <1>0
  <2> QED
    BY <2>1, PosForm
<1> HIDE DEF R
<1>2. HitsOf(paths, cuts, n + 1) = HitsOf(paths, cuts, n) \cup Part(paths, cuts, n + 1, R)
  BY <1>1 DEF HitsOf, Part
<1> QED
  BY <1>2 DEF Got, R

(* Without any, there are those done.                                      *)
LEMMA GotNone ==
    ASSUME NEW paths, NEW cuts, NEW n
    PROVE  Got(paths, cuts, n, {}) = HitsOf(paths, cuts, n)
BY DEF Got, Part

(* A resumption behind what is done changes nothing of it.                 *)
LEMMA HitsCut ==
    ASSUME NEW paths, IsPaths(paths), NEW n \in 0 .. Len(paths), NEW cuts
    PROVE  HitsOf(paths, cuts \cup {n}, n) = HitsOf(paths, cuts, n)
<1>0. Len(paths) \in Nat /\ n \in Nat
  BY DEF IsPaths
<1>1. ASSUME NEW x \in Pos(paths, n)
      PROVE  HitsAt(paths, cuts \cup {n}, x) = HitsAt(paths, cuts, x)
  <2>1. x[1] \in 1 .. n
    BY PosForm
  <2>2. ~(n < x[1])
    BY <1>0, <2>1
  <2>3. Tracked(paths, cuts \cup {n}, x) <=> Tracked(paths, cuts, x)
    BY <2>2 DEF Tracked
  <2> QED
    BY <2>3 DEF HitsAt
<1> QED
  BY <1>1 DEF HitsOf

(* An occurrence across records is found if a record of its flow came      *)
(* before, in the segment or in those since the last resumption.           *)
LEMMA TrackedForm ==
    ASSUME NEW paths, IsPaths(paths), NEW n \in 0 .. Len(paths) - 1,
           NEW cuts, \A c \in cuts : c \in Nat /\ c <= n,
           NEW i \in DOMAIN SegmentOf[paths[n + 1]]
    PROVE  LET R == SegmentOf[paths[n + 1]] IN
           Tracked(paths, cuts, <<n + 1, i>>)
              <=> \/ R[i].flow \in FlowsBefore(paths, cuts, n)
                  \/ \E k \in DOMAIN R : k < i /\ R[k].flow = R[i].flow
<1> DEFINE R == SegmentOf[paths[n + 1]]
           x == <<n + 1, i>>
<1>0. Len(paths) \in Nat /\ n \in Nat /\ DOMAIN paths = 1 .. Len(paths) /\ n + 1 \in DOMAIN paths
      /\ x[1] = n + 1 /\ x[2] = i /\ At(paths, x) = R[i]
  BY DEF IsPaths, At
<1>1. i \in Nat /\ DOMAIN R \subseteq Nat
  BY <1>0, PathsMap
<1>2. ASSUME Tracked(paths, cuts, x)
      PROVE  R[i].flow \in FlowsBefore(paths, cuts, n) \/ \E k \in DOMAIN R : k < i /\ R[k].flow = R[i].flow
  <2>1. PICK y \in Pos(paths, n + 1) :
            /\ Precedes(y, x) /\ At(paths, y).flow = R[i].flow
            /\ \A c \in cuts : ~(y[1] <= c /\ c < n + 1)
    BY <1>0, <1>2 DEF Tracked
  <2>0. PICK k \in 1 .. n + 1 : \E m \in DOMAIN SegmentOf[paths[k]] : y = <<k, m>>
    BY <2>1, PosForm
  <2>2. PICK m \in DOMAIN SegmentOf[paths[k]] : y = <<k, m>>
    BY <2>0
  <2>3. y[1] = k /\ y[2] = m
    BY <2>2
  <2>4. CASE k = n + 1
    <3>1. m \in DOMAIN R /\ m < i /\ R[m].flow = R[i].flow
      BY <1>0, <2>1, <2>2, <2>3, <2>4 DEF Precedes, At
    <3> QED
      BY <3>1
  <2>5. CASE k # n + 1
    <3>1. k \in 1 .. n /\ \A c \in cuts : c < k
      BY <1>0, <2>1, <2>3, <2>5
    <3>2. y \in Pos(paths, n)
      BY <2>2, <3>1, PosForm
    <3> QED
      BY <2>1, <2>3, <3>1, <3>2 DEF FlowsBefore
  <2> QED
    BY <2>4, <2>5
<1>3. ASSUME R[i].flow \in FlowsBefore(paths, cuts, n) PROVE Tracked(paths, cuts, x)
  <2>1. PICK y \in Pos(paths, n) : At(paths, y).flow = R[i].flow /\ \A c \in cuts : c < y[1]
    BY <1>3 DEF FlowsBefore
  <2>2. PICK k \in 1 .. n : \E m \in DOMAIN SegmentOf[paths[k]] : y = <<k, m>>
    BY <2>1, PosForm
  <2>3. k \in 1 .. n + 1 /\ k < n + 1 /\ y[1] = k
    BY <1>0, <2>2
  <2>4. y \in Pos(paths, n + 1) /\ Precedes(y, x)
    BY <1>0, <2>2, <2>3, PosForm DEF Precedes
  <2>5. \A c \in cuts : ~(y[1] <= c /\ c < n + 1)
    BY <1>0, <2>1, <2>3
  <2> QED
    BY <1>0, <2>1, <2>4, <2>5 DEF Tracked
<1>4. ASSUME NEW k \in DOMAIN R, k < i, R[k].flow = R[i].flow PROVE Tracked(paths, cuts, x)
  <2>1. <<n + 1, k>> \in Pos(paths, n + 1)
    <3>1. n + 1 \in 1 .. n + 1
      BY <1>0
    <3> QED
      BY <3>1, PosForm
  <2>2. Precedes(<<n + 1, k>>, x) /\ At(paths, <<n + 1, k>>).flow = R[i].flow
    BY <1>0, <1>4 DEF Precedes, At
  <2>3. \A c \in cuts : ~(<<n + 1, k>>[1] <= c /\ c < n + 1)
    BY <1>0
  <2> QED
    BY <1>0, <2>1, <2>2, <2>3 DEF Tracked
<1> QED
  BY <1>2, <1>3, <1>4

-----------------------------------------------------------------------------
(* Rows and reports stay true.                                             *)

(* More may become durable, and exactness may be given up.                 *)
LEMMA RowKept ==
    ASSUME NEW paths, NEW cuts, NEW hits, NEW exact, NEW done, NEW found,
           RowTrue(paths, cuts, hits, exact, done, found),
           NEW more, hits \subseteq more, NEW claim, claim => exact
    PROVE  RowTrue(paths, cuts, more, claim, done, found)
BY DEF RowTrue

(* The job may be resumed from the row.                                    *)
LEMMA RowResumed ==
    ASSUME NEW paths, IsPaths(paths), NEW cuts, NEW hits, NEW exact, NEW done, NEW found,
           RowTrue(paths, cuts, hits, exact, done, found)
    PROVE  RowTrue(paths, cuts \cup {done}, hits, exact, done, found)
<1>1. done \in 0 .. Len(paths) /\ Len(paths) \in Nat
  BY DEF RowTrue, IsPaths
<1>2. HitsOf(paths, cuts \cup {done}, done) = HitsOf(paths, cuts, done)
  BY <1>1, HitsCut
<1>3. done \in Nat /\ done <= done
  BY <1>1
<1> QED
  BY <1>2, <1>3 DEF RowTrue

(* Only more becomes durable, or a shutdown is asked for.                  *)
Grows ==
    /\ jobs' = jobs /\ resumed' = resumed
    /\ IsSequence(durable') /\ DOMAIN durable' = DOMAIN durable
    /\ \A j \in DOMAIN durable : durable[j] \subseteq durable'[j]
    /\ paused => paused'

(* That leaves the table true.                                             *)
LEMMA TableGrows ==
    ASSUME TableTrue, Grows
    PROVE  TableTrue'
<1>1. ASSUME NEW j \in DOMAIN jobs PROVE JobTrue(jobs[j], resumed[j], durable'[j], ~paused')
  <2>1. JobTrue(jobs[j], resumed[j], durable[j], ~paused)
    BY DEF TableTrue
  <2>2. durable[j] \subseteq durable'[j] /\ (~paused' => ~paused)
    BY DEF Grows, TableTrue
  <2>3. RowTrue(jobs[j].paths, resumed[j], durable[j], ~paused, jobs[j].done, jobs[j].found)
    BY <2>1 DEF JobTrue
  <2>4. RowTrue(jobs[j].paths, resumed[j], durable'[j], ~paused', jobs[j].done, jobs[j].found)
    BY <2>2, <2>3, RowKept
  <2> QED
    BY <2>1, <2>4 DEF JobTrue
<1> QED
  BY <1>1 DEF TableTrue, Grows

(* A step that touches nothing of the table.                               *)
LEMMA TableSame ==
    ASSUME TableTrue, UNCHANGED <<jobs, resumed, durable, paused>>
    PROVE  TableTrue' /\ Grows
BY DEF TableTrue, Grows

(* What is sent becomes durable.                                           *)
LEMMA FlushGrows ==
    ASSUME TableTrue, durable' = Flushed, UNCHANGED <<jobs, resumed, paused>>
    PROVE  Grows /\ \A j \in DOMAIN jobs : durable'[j] = durable[j] \cup SentOf(j)
<1>1. Len(durable) \in Nat /\ DOMAIN durable = 1 .. Len(durable)
  BY SequenceIsNumbered DEF TableTrue
<1> DEFINE n == Len(durable)
<1>2. durable' = [j \in 1 .. n |-> durable'[j]] /\ n \in Nat
  BY <1>1 DEF Flushed
<1>3. IsSequence(durable')
  BY <1>2, NumberedIsSequence
<1>4. \A j \in DOMAIN durable : durable'[j] = durable[j] \cup SentOf(j)
  BY DEF Flushed, SentOf
<1>5. DOMAIN durable' = DOMAIN durable
  BY DEF Flushed
<1> QED
  BY <1>3, <1>4, <1>5 DEF Grows, TableTrue

(* update_replay_progress keeps the table true if what it writes is true.  *)
LEMMA UpdateTrue ==
    ASSUME TableTrue, NEW j \in DOMAIN jobs, NEW status, NEW p, Update(j, status, p),
           UNCHANGED <<durable, paused>>,
           IsSequence(resumed'), DOMAIN resumed' = DOMAIN resumed,
           \A k \in DOMAIN jobs : k # j => resumed'[k] = resumed[k],
           status \in {"queued", "running", "completed", "failed"},
           RowTrue(jobs[j].paths, resumed'[j], durable[j], ~paused, p.done, p.found),
           status = "completed" => p.done = Len(jobs[j].paths)
    PROVE  TableTrue' /\ DOMAIN jobs' = DOMAIN jobs /\ \A k \in DOMAIN jobs : jobs'[k].paths = jobs[k].paths
<1>1. Len(jobs) \in Nat /\ DOMAIN jobs = 1 .. Len(jobs) /\ DOMAIN durable = DOMAIN jobs
      /\ DOMAIN resumed = DOMAIN jobs /\ IsSequence(durable)
  BY SequenceIsNumbered DEF TableTrue
<1>2. JobTrue(jobs[j], resumed[j], durable[j], ~paused)
  BY DEF TableTrue
<1> DEFINE old == jobs[j]
           new == [old EXCEPT !.status = status, !.done = p.done, !.found = p.found]
<1>3. DOMAIN jobs' = DOMAIN jobs /\ jobs'[j] = new /\ \A k \in DOMAIN jobs : k # j => jobs'[k] = jobs[k]
  BY DEF Update
<1>4. old = [pats |-> old.pats, paths |-> old.paths, status |-> old.status,
             done |-> old.done, found |-> old.found]
  BY <1>2 DEF JobTrue
<1>5. new = [pats |-> old.pats, paths |-> old.paths, status |-> status,
             done |-> p.done, found |-> p.found]
  <2> HIDE DEF old
  <2>1. PICK a, b, c, d, e : old = [pats |-> a, paths |-> b, status |-> c, done |-> d, found |-> e]
    BY <1>4
  <2>2. [old EXCEPT !.status = status]
           = [pats |-> a, paths |-> b, status |-> status, done |-> d, found |-> e]
    BY <2>1
  <2>3. [[pats |-> a, paths |-> b, status |-> status, done |-> d, found |-> e] EXCEPT !.done = p.done]
           = [pats |-> a, paths |-> b, status |-> status, done |-> p.done, found |-> e]
    OBVIOUS
  <2>4. [[pats |-> a, paths |-> b, status |-> status, done |-> p.done, found |-> e] EXCEPT !.found = p.found]
           = [pats |-> a, paths |-> b, status |-> status, done |-> p.done, found |-> p.found]
    OBVIOUS
  <2>5. new = [[[old EXCEPT !.status = status] EXCEPT !.done = p.done] EXCEPT !.found = p.found]
    OBVIOUS
  <2>6. old.pats = a /\ old.paths = b
    BY <2>1
  <2> QED
    BY ONLY <2>2, <2>3, <2>4, <2>5, <2>6, Zenon
<1>6. /\ new.pats = old.pats /\ new.paths = old.paths /\ new.status = status
      /\ new.done = p.done /\ new.found = p.found
  BY <1>5
<1> HIDE DEF new
<1>7. JobTrue(new, resumed'[j], durable[j], ~paused)
  BY <1>2, <1>5, <1>6 DEF JobTrue
<1>8. IsSequence(jobs')
  <2> DEFINE n == Len(jobs)
  <2>1. jobs' = [k \in 1 .. n |-> jobs'[k]] /\ n \in Nat
    BY <1>1 DEF Update
  <2> QED
    BY <2>1, NumberedIsSequence
<1>9. ASSUME NEW k \in DOMAIN jobs PROVE JobTrue(jobs'[k], resumed'[k], durable'[k], ~paused')
  BY <1>3, <1>7 DEF TableTrue
<1> QED
  BY <1>1, <1>3, <1>6, <1>8, <1>9 DEF TableTrue

-----------------------------------------------------------------------------
(* Segments on disk.                                                       *)

(* The list of the segments is in order, and holds all of them.            *)
LEMMA AscendingLists ==
    ASSUME PresentTrue
    PROVE  LET s == Ascending(present) n == Cardinality(present) IN
           /\ n \in Nat /\ IsFiniteSet(present) /\ s \in [1 .. n -> present]
           /\ \A i, k \in 1 .. n : i < k => s[i] < s[k]
           /\ \A x \in present : \E i \in 1 .. n : s[i] = x
           /\ IsPaths(s)
<1> DEFINE s == Ascending(present)
           n == Cardinality(present)
<1>0. present \subseteq Segments /\ Sealed \in Nat
  BY ReplayAssumption DEF PresentTrue
<1>1. IsFiniteSet(present) /\ n \in Nat
  <2>1. IsFiniteSet(Segments)
    BY <1>0, FS_Interval DEF Segments
  <2> QED
    BY <1>0, <2>1, FS_Subset, FS_CardinalityType
<1>2. s \in [1 .. n -> present] /\ \A i, k \in DOMAIN s : i < k => s[i] < s[k]
  <2>1. \E t \in [1 .. n -> present] : \A i, k \in DOMAIN t : i < k => t[i] < t[k]
    BY DEF PresentTrue
  <2> HIDE DEF n
  <2>2. s = CHOOSE t \in [1 .. n -> present] : \A i, k \in DOMAIN t : i < k => t[i] < t[k]
    BY DEF Ascending, n
  <2> HIDE DEF s
  <2> QED
    BY <2>1, <2>2
<1> HIDE DEF s, n
<1>3. \A i, k \in 1 .. n : i < k => s[i] < s[k]
  BY <1>2
<1>4. \A i, k \in 1 .. n : i # k => s[i] # s[k]
  <2> SUFFICES ASSUME NEW i \in 1 .. n, NEW k \in 1 .. n, i # k PROVE s[i] # s[k]
    OBVIOUS
  <2>1. s[i] \in Nat /\ s[k] \in Nat
    <3>1. s[i] \in present /\ s[k] \in present
      BY <1>2
    <3>2. present \subseteq Nat
      BY <1>0 DEF Segments
    <3> QED
      BY <3>1, <3>2
  <2>2. i < k \/ k < i
    BY <1>1
  <2>3. s[i] < s[k] \/ s[k] < s[i]
    BY <1>3, <2>2
  <2> QED
    BY <2>1, <2>3
<1>5. \A x \in present : \E i \in 1 .. n : s[i] = x
  <2>1. s \in Injection(1 .. n, present)
    BY <1>2, <1>4 DEF Injection, IsInjective
  <2>2. IsFiniteSet(1 .. n) /\ Cardinality(1 .. n) = n
    BY <1>1, FS_Interval
  <2>3. s \in Surjection(1 .. n, present)
    BY <1>1, <2>1, <2>2, FS_Injection DEF n
  <2> QED
    BY <2>3 DEF Surjection
<1>6. IsPaths(s)
  <2>1. s \in [1 .. n -> Segments]
    BY <1>0, <1>2
  <2>2. s \in Seq(Segments)
    BY <1>1, <2>1
  <2> QED
    BY <1>2, <2>2 DEF IsPaths
<1> QED
  BY <1>1, <1>2, <1>3, <1>5, <1>6 DEF s, n

(* Retention takes the first of the list.                                  *)
LEMMA RetainTrue ==
    ASSUME PresentTrue, Retain
    PROVE  PresentTrue'
<1> DEFINE s == Ascending(present)
           n == Cardinality(present)
           t == [i \in 1 .. n - 1 |-> s[i + 1]]
<1>1. /\ n \in Nat /\ IsFiniteSet(present) /\ s \in [1 .. n -> present]
      /\ \A i, k \in 1 .. n : i < k => s[i] < s[k]
      /\ \A x \in present : \E i \in 1 .. n : s[i] = x
  BY AscendingLists
<1>2. present # {} /\ present' = present \ {s[1]}
  BY DEF Retain
<1>3. n # 0
  BY <1>1, <1>2, FS_EmptySet DEF n
<1>4. s[1] \in present
  BY <1>1, <1>3
<1>5. Cardinality(present') = n - 1
  BY <1>1, <1>2, <1>4, FS_RemoveElement DEF n
<1> HIDE DEF s, n
<1>6. ASSUME NEW i \in 1 .. n - 1 PROVE s[i + 1] \in present'
  <2>1. 1 \in 1 .. n /\ i + 1 \in 1 .. n /\ 1 < i + 1
    BY <1>1
  <2>0. present \subseteq Nat
    BY ReplayAssumption DEF PresentTrue, Segments
  <2>2. s[1] < s[i + 1] /\ s[i + 1] \in present /\ s[1] \in Nat /\ s[i + 1] \in Nat
    BY <1>1, <2>0, <2>1
  <2>3. s[1] # s[i + 1]
    BY <2>2
  <2> QED
    BY <1>2, <2>2, <2>3
<1>7. t \in [1 .. n - 1 -> present']
  BY <1>6
<1>8. \A i, k \in DOMAIN t : i < k => t[i] < t[k]
  <2> SUFFICES ASSUME NEW i \in 1 .. n - 1, NEW k \in 1 .. n - 1, i < k PROVE s[i + 1] < s[k + 1]
    OBVIOUS
  <2>1. i + 1 \in 1 .. n /\ k + 1 \in 1 .. n /\ i + 1 < k + 1
    BY <1>1
  <2> QED
    BY <1>1, <2>1
<1> HIDE DEF t
<1> QED
  BY <1>2, <1>5, <1>7, <1>8 DEF PresentTrue

-----------------------------------------------------------------------------
(* Steps while no thread runs.                                             *)

(* Then only the table, the disk and the scheduler matter.                 *)
LEMMA QuietStep ==
    ASSUME run' = NoRun, TableTrue', PresentTrue', SchedTrue'
    PROVE  IInv'
<1>1. run'.pc = "none"
  BY DEF NoRun
<1> QED
  BY <1>1 DEF IInv, Active

(* The scheduler stays away from the thread.                               *)
Outside(s, names) ==
    /\ s.pc # "executing"
    /\ s.pc \in {"recovering", "created"} => s.job \in names
    /\ s.pc \in {"next", "recovering"} => s.todo \subseteq names
    /\ s.pc = "sealed" => IsPaths(s.paths)

(* The scheduler keeps to the jobs of the table.                           *)
LEMMA OutsideStep ==
    ASSUME IInv, sched.pc # "executing", Outside(sched', DOMAIN jobs'),
           UNCHANGED <<run, work, dead, hitq, refused, sent>>,
           TableTrue', PresentTrue',
           shutdown' \in BOOLEAN, paused' \in BOOLEAN, metadata' \in BOOLEAN,
           shutdown' => paused', sent # {} => metadata'
    PROVE  IInv'
<1>1. run = NoRun /\ hitq = <<>> /\ work = [w \in Workers |-> <<>>] /\ dead = {} /\ refused \in BOOLEAN
  BY DEF IInv, SchedTrue
<1>2. SchedTrue'
  BY <1>1 DEF SchedTrue, Outside
<1> QED
  BY <1>1, <1>2, QuietStep

(* The job to recover is the oldest of those left.                         *)
LEMMA OldestIn ==
    ASSUME NEW S, S \subseteq Nat, S # {}
    PROVE  Oldest(S) \in S
<1>1. \E j \in S : \A k \in S : j <= k
  BY LeastNatural
<1> QED
  BY <1>1 DEF Oldest

(* Recovery, and the making of a batch and of its job.                     *)
LEMMA SchedulerSteps ==
    ASSUME IInv,
           \/ ListJobs \/ ListFails \/ NextJob \/ RecoverFails \/ BeginFails \/ TakeFirst \/ Coalesce
           \/ CloseBatch \/ Snapshot \/ create_replay_job \/ BatchFails \/ Restart \/ Retain
    PROVE  IInv'
<1>0. TableTrue /\ PresentTrue /\ SchedTrue
  BY DEF IInv
<1>1. /\ Len(jobs) \in Nat /\ DOMAIN jobs = 1 .. Len(jobs) /\ DOMAIN durable = DOMAIN jobs
      /\ DOMAIN resumed = DOMAIN jobs /\ IsSequence(durable) /\ IsSequence(jobs) /\ IsSequence(resumed)
  BY <1>0, SequenceIsNumbered DEF TableTrue
<1>2. /\ shutdown \in BOOLEAN /\ paused \in BOOLEAN /\ metadata \in BOOLEAN
      /\ shutdown => paused
      /\ sent # {} => metadata
  BY <1>0 DEF SchedTrue
<1> USE DEF table, env, scan, pool, collector
<1>3. ASSUME \/ ListJobs \/ ListFails \/ NextJob \/ BeginFails \/ TakeFirst \/ Coalesce
             \/ CloseBatch \/ Snapshot \/ BatchFails
      PROVE  IInv'
  <2>1. /\ sched.pc # "executing"
        /\ UNCHANGED <<run, work, dead, hitq, refused, sent, jobs, resumed, durable, paused, present,
                       shutdown, metadata>>
    BY <1>3 DEF ListJobs, ListFails, NextJob, BeginFails, TakeFirst, Coalesce, CloseBatch, Snapshot, BatchFails
  <2>2. TableTrue' /\ PresentTrue'
    BY <1>0, <2>1, TableSame DEF PresentTrue
  <2>3. Outside(sched', DOMAIN jobs)
    <3>1. CASE ListJobs
      BY <3>1 DEF ListJobs, Outside, ToRecover
    <3>2. CASE ListFails \/ BatchFails
      BY <3>2 DEF ListFails, BatchFails, Outside, Idle
    <3>3. CASE NextJob
      <4>1. sched.todo \subseteq DOMAIN jobs
        BY <1>0, <3>3 DEF SchedTrue, NextJob
      <4>2. sched.todo # {} => Oldest(sched.todo) \in DOMAIN jobs
        BY <1>1, <4>1, OldestIn
      <4> QED
        BY <3>3, <4>1, <4>2 DEF NextJob, Outside, Idle
    <3>4. CASE BeginFails
      BY <1>0, <3>4 DEF BeginFails, SchedTrue, Outside
    <3>5. CASE TakeFirst \/ Coalesce \/ CloseBatch
      BY <3>5 DEF TakeFirst, Coalesce, CloseBatch, Outside, Idle
    <3>6. CASE Snapshot
      <4>1. IsPaths(Ascending(present))
        BY <1>0, AscendingLists
      <4> QED
        BY <3>6, <4>1 DEF Snapshot, Outside
    <3> QED
      BY <1>3, <3>1, <3>2, <3>3, <3>4, <3>5, <3>6
  <2>4. Outside(sched', DOMAIN jobs')
    BY <2>1, <2>3
  <2> QED
    BY <1>2, <2>1, <2>2, <2>4, OutsideStep
<1>4. CASE RecoverFails
  <2>1. /\ sched.pc = "recovering" /\ sched.job \in DOMAIN jobs /\ sched.todo \subseteq DOMAIN jobs
        /\ Update(sched.job, "failed", Row(sched.job))
        /\ sched' = [pc |-> "next", todo |-> sched.todo]
        /\ UNCHANGED <<run, work, dead, hitq, refused, sent, resumed, durable, paused, present,
                       shutdown, metadata>>
    BY <1>0, <1>4 DEF RecoverFails, SchedTrue
  <2> DEFINE j == sched.job
  <2>2. RowTrue(jobs[j].paths, resumed[j], durable[j], ~paused, jobs[j].done, jobs[j].found)
    BY <1>0, <2>1 DEF TableTrue, JobTrue
  <2>3. Row(j).done = jobs[j].done /\ Row(j).found = jobs[j].found
    BY DEF Row
  <2> HIDE DEF j
  <2>4. PICK p : p = Row(j)
    OBVIOUS
  <2>5. RowTrue(jobs[j].paths, resumed'[j], durable[j], ~paused, p.done, p.found)
    BY <2>1, <2>2, <2>3, <2>4
  <2>6. j \in DOMAIN jobs /\ Update(j, "failed", p)
    BY <2>1, <2>4 DEF j
  <2>7. TableTrue' /\ DOMAIN jobs' = DOMAIN jobs
    BY <1>0, <1>1, <2>1, <2>5, <2>6, UpdateTrue
  <2>8. Outside(sched', DOMAIN jobs') /\ PresentTrue'
    BY <1>0, <2>1, <2>7 DEF Outside, PresentTrue
  <2>9. sched.pc # "executing"
    BY <2>1
  <2> QED
    BY <1>2, <2>1, <2>7, <2>8, <2>9, OutsideStep
<1>5. CASE create_replay_job
  <2> DEFINE new == [pats |-> sched.pats, paths |-> sched.paths, status |-> "queued", done |-> 0, found |-> 0]
             n == Len(jobs)
  <2>1. /\ sched.pc = "sealed" /\ IsPaths(sched.paths)
        /\ jobs' = Append(jobs, new) /\ durable' = Append(durable, {}) /\ resumed' = Append(resumed, {})
        /\ sched' = [pc |-> "created", job |-> n + 1]
        /\ UNCHANGED <<run, work, dead, hitq, refused, sent, paused, present, shutdown, metadata>>
    BY <1>0, <1>5 DEF create_replay_job, SchedTrue
  <2>2. Len(durable) = n /\ Len(resumed) = n /\ n \in Nat
    BY <1>1, SequenceIsNumbered
  <2>3. /\ IsSequence(jobs') /\ IsSequence(durable') /\ IsSequence(resumed')
        /\ DOMAIN jobs' = 1 .. n + 1 /\ DOMAIN durable' = 1 .. n + 1 /\ DOMAIN resumed' = 1 .. n + 1
        /\ \A i \in DOMAIN jobs : jobs'[i] = jobs[i] /\ durable'[i] = durable[i] /\ resumed'[i] = resumed[i]
        /\ jobs'[n + 1] = new /\ durable'[n + 1] = {} /\ resumed'[n + 1] = {}
    BY <1>1, <2>1, <2>2, AppendToSequence
  <2>4. JobTrue(new, {}, {}, ~paused)
    <3>1. Pos(sched.paths, 0) = {}
      BY DEF Pos
    <3>2. HitsOf(sched.paths, {}, 0) = {}
      BY <3>1 DEF HitsOf
    <3>3. Len(sched.paths) \in Nat
      BY <2>1 DEF IsPaths
    <3>4. RowTrue(sched.paths, {}, {}, ~paused, 0, 0)
      BY <3>2, <3>3, FS_EmptySet DEF RowTrue
    <3>5. /\ new.pats = sched.pats /\ new.paths = sched.paths /\ new.status = "queued"
          /\ new.done = 0 /\ new.found = 0
      OBVIOUS
    <3> QED
      BY <2>1, <3>4, <3>5 DEF JobTrue
  <2> HIDE DEF new, n
  <2>5. ASSUME NEW i \in DOMAIN jobs' PROVE JobTrue(jobs'[i], resumed'[i], durable'[i], ~paused')
    <3>1. CASE i = n + 1
      BY <2>1, <2>3, <2>4, <3>1
    <3>2. CASE i \in DOMAIN jobs
      BY <1>0, <2>1, <2>3, <3>2 DEF TableTrue
    <3> QED
      BY <1>1, <2>2, <2>3, <3>1, <3>2 DEF n
  <2>6. TableTrue'
    BY <2>3, <2>5 DEF TableTrue
  <2>7. n + 1 \in DOMAIN jobs'
    BY <2>2, <2>3
  <2>8. Outside(sched', DOMAIN jobs') /\ PresentTrue'
    BY <1>0, <2>1, <2>7 DEF Outside, PresentTrue
  <2>9. sched.pc # "executing"
    BY <2>1
  <2> QED
    BY <1>2, <2>1, <2>6, <2>8, <2>9, OutsideStep
<1>6. CASE Restart
  <2>1. /\ sched.pc = "down" /\ sched' = [pc |-> "start"] /\ shutdown' = FALSE /\ metadata' = TRUE
        /\ UNCHANGED <<run, work, dead, hitq, refused, sent, jobs, resumed, durable, paused, present>>
    BY <1>6 DEF Restart, Up
  <2>2. TableTrue' /\ PresentTrue'
    BY <1>0, <2>1, TableSame DEF PresentTrue
  <2>3. Outside(sched', DOMAIN jobs') /\ sched.pc # "executing"
    BY <2>1 DEF Outside
  <2> QED
    BY <1>2, <2>1, <2>2, <2>3, OutsideStep
<1>7. CASE Retain
  <2>1. /\ sched.pc # "executing"
        /\ UNCHANGED <<run, work, dead, hitq, refused, sent, jobs, resumed, durable, paused, shutdown,
                       metadata, sched>>
    BY <1>7 DEF Retain, Guarded
  <2>2. TableTrue' /\ PresentTrue'
    BY <1>0, <1>7, <2>1, TableSame, RetainTrue
  <2>3. Outside(sched, DOMAIN jobs)
    BY <1>0, <2>1 DEF Outside, SchedTrue
  <2>4. Outside(sched', DOMAIN jobs')
    BY <2>1, <2>3
  <2> QED
    BY <1>2, <2>1, <2>2, <2>4, OutsideStep
<1> QED
  BY <1>3, <1>4, <1>5, <1>6, <1>7

-----------------------------------------------------------------------------
(* The ends of a job.                                                      *)

(* What is known while a thread runs.                                      *)
LEMMA Running ==
    ASSUME IInv, run.pc # "none"
    PROVE  /\ sched.pc = "executing" /\ run.job = sched.job /\ run.job \in DOMAIN jobs
           /\ sched.todo \subseteq DOMAIN jobs
           /\ TableTrue /\ PresentTrue /\ SchedTrue /\ RunTrue /\ QueuesTrue
           /\ IsPaths(Paths) /\ run.job \in DOMAIN durable /\ run.job \in DOMAIN resumed
<1>1. TableTrue /\ PresentTrue /\ SchedTrue /\ RunTrue /\ QueuesTrue
  BY DEF IInv
<1>2. sched.pc = "executing"
  BY <1>1 DEF SchedTrue, NoRun
<1>3. run.job = sched.job /\ run.job \in DOMAIN jobs /\ sched.todo \subseteq DOMAIN jobs
  BY <1>1, <1>2 DEF SchedTrue
<1> QED
  BY <1>1, <1>2, <1>3 DEF TableTrue, JobTrue, Paths

(* Without a thread all is still.                                          *)
LEMMA Still ==
    ASSUME IInv, run.pc = "none"
    PROVE  run = NoRun /\ hitq = <<>> /\ work = [w \in Workers |-> <<>>] /\ sched.pc # "executing"
BY DEF IInv, SchedTrue

(* A step that ends the thread.                                            *)
LEMMA NoScanStep ==
    ASSUME NoScan, TableTrue', PresentTrue', Outside(sched', DOMAIN jobs'),
           shutdown' \in BOOLEAN, paused' \in BOOLEAN, metadata' \in BOOLEAN,
           shutdown' => paused', sent' # {} => metadata'
    PROVE  IInv'
<1>1. SchedTrue'
  BY DEF SchedTrue, Outside, NoScan
<1> QED
  BY <1>1, QuietStep DEF NoScan

(* A kill, and a stop that drains the metadata writer.                     *)
LEMMA DownSteps ==
    ASSUME IInv, Kill \/ Stop
    PROVE  IInv'
<1>1. TableTrue /\ PresentTrue /\ SchedTrue
  BY DEF IInv
<1>2. /\ NoScan /\ sched' = [pc |-> "down"] /\ sent' = {}
      /\ UNCHANGED <<jobs, resumed, paused, present, shutdown, metadata>>
      /\ durable' = durable \/ durable' = Flushed
  BY DEF Kill, Stop, Down
<1>3. Grows
  <2>1. CASE durable' = durable
    BY <1>1, <1>2, <2>1, TableSame
  <2>2. CASE durable' = Flushed
    BY <1>1, <1>2, <2>2, FlushGrows
  <2> QED
    BY <1>2, <2>1, <2>2
<1>4. TableTrue'
  BY <1>1, <1>3, TableGrows
<1>5. PresentTrue' /\ Outside(sched', DOMAIN jobs')
  BY <1>1, <1>2 DEF PresentTrue, Outside
<1>6. /\ shutdown' \in BOOLEAN /\ paused' \in BOOLEAN /\ metadata' \in BOOLEAN
      /\ shutdown' => paused'
      /\ sent' # {} => metadata'
  BY <1>1, <1>2 DEF SchedTrue
<1> QED
  BY <1>2, <1>4, <1>5, <1>6, NoScanStep

(* The last report is true.                                                *)
LEMMA FinalTrue ==
    ASSUME RunTrue
    PROVE  ReportTrue(Final)
<1>1. CASE progress = <<>>
  BY <1>1 DEF RunTrue, Final
<1>2. CASE progress # <<>>
  <2>1. Len(progress) \in DOMAIN progress
    BY <1>2, TailOfSequence DEF RunTrue
  <2> QED
    BY <1>2, <2>1 DEF RunTrue, Final
<1> QED
  BY <1>1, <1>2

(* The outcome of a job.                                                   *)
LEMMA FinishStep ==
    ASSUME IInv, Finish
    PROVE  IInv'
<1>1. sched.pc = "executing" /\ run.pc = "returned"
  BY DEF Finish
<1>2. /\ sched.job \in DOMAIN jobs /\ run.job = sched.job /\ sched.todo \subseteq DOMAIN jobs
      /\ TableTrue /\ PresentTrue /\ SchedTrue /\ RunTrue
  BY <1>1, Running
<1>3. /\ UNCHANGED jobs \/ Update(sched.job, Outcome, Final)
      /\ NoScan /\ sched' = [pc |-> "next", todo |-> sched.todo]
      /\ UNCHANGED <<present, resumed, paused, durable, shutdown, metadata, sent>>
  BY DEF Finish
<1>4. TableTrue' /\ DOMAIN jobs' = DOMAIN jobs
  <2>1. CASE UNCHANGED jobs
    BY <1>2, <1>3, <2>1, TableSame
  <2>2. CASE Update(sched.job, Outcome, Final)
    <3> DEFINE j == sched.job
    <3>1. RowTrue(jobs[j].paths, resumed[j], durable[j], ~paused, Final.done, Final.found)
      BY <1>2, FinalTrue DEF ReportTrue, Paths, Cuts
    <3>2. Outcome \in {"queued", "running", "completed", "failed"}
      BY DEF Outcome
    <3>3. Outcome = "completed" => Final.done = Len(jobs[j].paths)
      <4>1. Outcome = "completed" => ~shutdown /\ run.result = "ok"
        BY DEF Outcome
      <4> QED
        BY <1>2, <4>1 DEF RunTrue, Paths
    <3>4. j \in DOMAIN jobs
      BY <1>2
    <3>5. IsSequence(resumed') /\ DOMAIN resumed' = DOMAIN resumed
          /\ \A k \in DOMAIN jobs : k # j => resumed'[k] = resumed[k]
      BY <1>2, <1>3 DEF TableTrue
    <3>6. PICK p, o : p = Final /\ o = Outcome
      OBVIOUS
    <3> HIDE DEF j
    <3>7. /\ Update(j, o, p) /\ o \in {"queued", "running", "completed", "failed"}
          /\ RowTrue(jobs[j].paths, resumed'[j], durable[j], ~paused, p.done, p.found)
          /\ o = "completed" => p.done = Len(jobs[j].paths)
      BY <1>3, <2>2, <3>1, <3>2, <3>3, <3>6 DEF j
    <3>8. UNCHANGED <<durable, paused>>
      BY <1>3
    <3> QED
      BY <1>2, <3>4, <3>5, <3>7, <3>8, UpdateTrue
  <2> QED
    BY <1>3, <2>1, <2>2
<1>5. PresentTrue' /\ Outside(sched', DOMAIN jobs')
  BY <1>2, <1>3, <1>4 DEF PresentTrue, Outside
<1>6. /\ shutdown' \in BOOLEAN /\ paused' \in BOOLEAN /\ metadata' \in BOOLEAN
      /\ shutdown' => paused'
      /\ sent' # {} => metadata'
  BY <1>2, <1>3 DEF SchedTrue
<1> QED
  BY <1>3, <1>4, <1>5, <1>6, NoScanStep

-----------------------------------------------------------------------------
(* The start of a job.                                                     *)

(* The segments that are left.                                             *)
LEMMA RestForm ==
    ASSUME NEW paths, IsPaths(paths), NEW n \in 0 .. Len(paths)
    PROVE  LET q == SubSeq(paths, n + 1, Len(paths)) IN
           /\ q \in Seq(Segments) /\ Len(q) = Len(paths) - n
           /\ \A i \in DOMAIN q : q[i] = paths[n + i]
<1> DEFINE q == SubSeq(paths, n + 1, Len(paths))
           l == Len(paths)
<1>1. paths \in Seq(Segments) /\ l \in Nat /\ DOMAIN paths = 1 .. l
  BY DEF IsPaths
<1>0. \A i \in n + 1 .. l : paths[i] \in Segments
  BY <1>1
<1> HIDE DEF l
<1>2. /\ SubSeq(paths, n + 1, l) \in Seq(Segments)
      /\ Len(SubSeq(paths, n + 1, l)) = IF n + 1 <= l THEN l - (n + 1) + 1 ELSE 0
      /\ \A i \in 1 .. l - (n + 1) + 1 : SubSeq(paths, n + 1, l)[i] = paths[n + 1 + i - 1]
  <2>1. n + 1 \in Int /\ l \in Int
    BY <1>1 DEF l
  <2> QED
    BY ONLY <1>0, <2>1, SubSeqProperties
<1>3. n \in Nat /\ n <= l
  BY <1>1 DEF l
<1>4. q \in Seq(Segments) /\ Len(q) = l - n
  BY <1>1, <1>2, <1>3 DEF l
<1> HIDE DEF q
<1>5. DOMAIN q = 1 .. l - n
  BY <1>4
<1>6. \A i \in 1 .. l - n : q[i] = paths[n + i]
  <2> SUFFICES ASSUME NEW i \in 1 .. l - n PROVE q[i] = paths[n + i]
    OBVIOUS
  <2>1. i \in 1 .. l - (n + 1) + 1 /\ n + 1 + i - 1 = n + i
    BY <1>1, <1>3
  <2> QED
    BY <1>2, <2>1 DEF q, l
<1> QED
  BY <1>4, <1>5, <1>6 DEF q, l

(* The segment list of a thread.                                           *)
LEMMA NextPath ==
    ASSUME IsPaths(Paths), RunTrue, run.paths # <<>>
    PROVE  /\ run.done \in 0 .. Len(Paths) - 1 /\ run.done \in Nat
           /\ Head(run.paths) = Paths[run.done + 1] /\ run.done + 1 \in DOMAIN Paths
           /\ Len(run.paths) \in Nat /\ Len(run.paths) > 0
           /\ Tail(run.paths) \in Seq(Segments) /\ Len(Tail(run.paths)) = Len(Paths) - (run.done + 1)
           /\ \A i \in DOMAIN Tail(run.paths) : Tail(run.paths)[i] = Paths[run.done + 1 + i]
<1> DEFINE q == run.paths
           P == Paths
           d == run.done
<1>1. /\ q \in Seq(Segments) /\ Len(q) = Len(P) - d /\ q # <<>>
      /\ \A i \in DOMAIN q : q[i] = P[d + i]
      /\ d \in 0 .. Len(P)
  BY DEF RunTrue, RowTrue
<1>2. P \in Seq(Segments)
  BY DEF IsPaths
<1> HIDE DEF q, P, d
<1>3. Len(P) \in Nat /\ DOMAIN P = 1 .. Len(P) /\ Len(q) \in Nat /\ Len(q) > 0 /\ DOMAIN q = 1 .. Len(q)
  BY <1>1, <1>2
<1>4. d \in Nat /\ d <= Len(P) - 1 /\ 1 \in DOMAIN q
  BY <1>1, <1>3
<1>5. Head(q) = P[d + 1]
  BY <1>1, <1>3, <1>4
<1>6. /\ Tail(q) \in Seq(Segments) /\ Len(Tail(q)) = Len(q) - 1 /\ DOMAIN Tail(q) = 1 .. Len(q) - 1
      /\ \A i \in 1 .. Len(q) - 1 : Tail(q)[i] = q[i + 1]
  BY <1>1, <1>3
<1>7. \A i \in DOMAIN Tail(q) : Tail(q)[i] = P[d + 1 + i]
  <2> SUFFICES ASSUME NEW i \in 1 .. Len(q) - 1 PROVE Tail(q)[i] = P[d + 1 + i]
    BY <1>6
  <2>1. i + 1 \in DOMAIN q /\ d + (i + 1) = d + 1 + i
    BY <1>3, <1>4
  <2> QED
    BY <1>1, <1>6, <2>1
<1>8. Len(Tail(q)) = Len(P) - (d + 1)
  BY <1>1, <1>3, <1>4, <1>6
<1>9. d \in 0 .. Len(P) - 1 /\ d + 1 \in DOMAIN P
  BY <1>3, <1>4
<1> QED
  BY <1>3, <1>4, <1>5, <1>6, <1>7, <1>8, <1>9 DEF q, P, d

(* A job starts, or goes on, from its row.                                 *)
LEMMA BeginStep ==
    ASSUME IInv, NEW j \in DOMAIN jobs, NEW todo, todo \subseteq DOMAIN jobs, Begin(j, todo)
    PROVE  IInv'
<1> DEFINE P == jobs[j].paths
           C == resumed[j] \cup {jobs[j].done}
           d == jobs[j].done
           f == jobs[j].found
           D == durable[j]
<1>1. TableTrue /\ PresentTrue /\ SchedTrue
  BY DEF IInv
<1>2. /\ Update(j, "running", Row(j)) /\ resumed' = [resumed EXCEPT ![j] = @ \cup {d}]
      /\ sched' = [pc |-> "executing", job |-> j, todo |-> todo] /\ last' = Row(j)
      /\ run' = [pc |-> "segment", job |-> j, paths |-> Rest(j), done |-> d,
                 found |-> f, result |-> "none"]
      /\ work' = [w \in Workers |-> <<>>] /\ dead' = {} /\ acks' = {}
      /\ hitq' = <<>> /\ collected' = 0 /\ refused' = FALSE /\ tails' = {} /\ progress' = <<>>
      /\ UNCHANGED <<present, paused, durable, shutdown, metadata, sent>>
  BY DEF Begin, env
<1>3. /\ IsSequence(jobs) /\ IsSequence(resumed) /\ DOMAIN resumed = DOMAIN jobs
      /\ DOMAIN durable = DOMAIN jobs /\ JobTrue(jobs[j], resumed[j], D, ~paused)
  BY <1>1 DEF TableTrue
<1>4. IsPaths(P) /\ RowTrue(P, resumed[j], D, ~paused, d, f)
  BY <1>3 DEF JobTrue
<1>5. RowTrue(P, C, D, ~paused, d, f)
  BY <1>4, RowResumed
<1>6. resumed'[j] = C /\ DOMAIN resumed' = DOMAIN jobs /\ \A k \in DOMAIN jobs : k # j => resumed'[k] = resumed[k]
  BY <1>2, <1>3
<1>7. IsSequence(resumed')
  <2> DEFINE n == Len(resumed)
  <2>1. n \in Nat /\ DOMAIN resumed = 1 .. n
    BY <1>3, SequenceIsNumbered
  <2>2. resumed' = [i \in 1 .. n |-> resumed'[i]]
    BY <1>2, <2>1
  <2> HIDE DEF n
  <2> QED
    BY <2>1, <2>2, NumberedIsSequence
<1>8. Row(j).done = d /\ Row(j).found = f
  BY DEF Row
<1>9. TableTrue' /\ DOMAIN jobs' = DOMAIN jobs /\ \A k \in DOMAIN jobs : jobs'[k].paths = jobs[k].paths
  <2>1. PICK p : p = Row(j)
    OBVIOUS
  <2>2. RowTrue(jobs[j].paths, resumed'[j], durable[j], ~paused, p.done, p.found) /\ Update(j, "running", p)
    BY <1>2, <1>5, <1>6, <1>8, <2>1
  <2>3. UNCHANGED <<durable, paused>>
    BY <1>2
  <2> QED
    BY <1>1, <1>3, <1>6, <1>7, <2>2, <2>3, UpdateTrue
<1>10. PresentTrue'
  BY <1>1, <1>2 DEF PresentTrue
<1>11. run'.pc = "segment" /\ run'.job = j /\ run'.paths = Rest(j) /\ run'.done = d /\ run'.found = f
       /\ run'.result = "none"
  BY <1>2
<1>12. SchedTrue'
  BY <1>1, <1>2, <1>9, <1>11 DEF SchedTrue
<1>13. Paths' = P /\ Cuts' = C /\ durable'[run'.job] = D /\ paused' = paused
  BY <1>2, <1>6, <1>9, <1>11 DEF Paths, Cuts
<1>14. d \in 0 .. Len(P) /\ f \in Nat /\ Len(P) \in Nat
  BY <1>4 DEF RowTrue, IsPaths
<1>15. Rest(j) \in Seq(Segments) /\ Len(Rest(j)) = Len(P) - d /\ \A i \in DOMAIN Rest(j) : Rest(j)[i] = P[d + i]
  BY <1>4, <1>14, RestForm DEF Rest
<1>16. RunTrue'
  <2>1. PlainRun(run')
    BY <1>2, <1>11 DEF PlainRun, RunFields
  <2>2. ReportTrue(last)'
    <3>1. last'.done = d /\ last'.found = f
      BY <1>2, <1>8
    <3> QED
      BY <1>5, <1>13, <3>1 DEF ReportTrue
  <2>3. RowTrue(P, C, D, FALSE, d, f + 0)
    <3>1. f + 0 = f
      BY <1>14
    <3> QED
      BY <1>5, <3>1, RowKept
  <2>4. RowTrue(Paths, Cuts, durable[run.job], FALSE, run.done, run.found + collected)'
    BY <1>2, <1>11, <1>13, <2>3
  <2>5. IsSequence(progress)' /\ \A i \in DOMAIN progress' : ReportTrue(progress[i])'
    BY <1>2, EmptySequence
  <2>6. run'.pc = "segment" /\ run'.result = "none" /\ run'.found \in Nat /\ collected' \in Nat
    BY <1>2, <1>11, <1>14
  <2>7. /\ run'.paths \in Seq(Segments) /\ Len(run'.paths) = Len(Paths') - run'.done
        /\ \A i \in DOMAIN run'.paths : run'.paths[i] = Paths'[run'.done + i]
    BY <1>11, <1>13, <1>15
  <2> QED
    BY <2>1, <2>2, <2>4, <2>5, <2>6, <2>7 DEF RunTrue
<1>17. QueuesTrue'
  BY <1>2, <1>11, EmptySequence DEF QueuesTrue
<1>18. ScanTrue'
  <2>1. Dealt' = 0 /\ ~Working' /\ ~Whole'
    BY <1>11 DEF Dealt, Working, Whole
  <2>2. Scanned' = {}
    BY <2>1 DEF Scanned
  <2>3. HitsSoFar' = HitsOf(P, C, d)
    BY <1>11, <1>13, <2>2, GotNone DEF HitsSoFar
  <2>4. ASSUME NEW w \in Workers PROVE WorkTrue(w)'
    <3>1. work'[w] = <<>> /\ DOMAIN work'[w] = {}
      BY <1>2
    <3> QED
      BY <3>1 DEF WorkTrue
  <2>5. FlowsBefore(P, C, d) = {}
    <3>1. ASSUME NEW y \in Pos(P, d), \A c \in C : c < y[1] PROVE FALSE
      <4>1. y[1] \in 1 .. d /\ d < y[1]
        BY <3>1, PosForm
      <4> QED
        BY <1>14, <4>1
    <3> QED
      BY <3>1 DEF FlowsBefore
  <2>6. TailsTrue'
    BY <1>2, <1>11, <1>13, <2>2, <2>5 DEF TailsTrue
  <2>7. Total' = f
    BY <1>2, <1>11, <1>14 DEF Total
  <2>8. f >= Cardinality(HitsOf(P, C, d)) /\ (~paused => f = Cardinality(HitsOf(P, C, d)))
        /\ HitsOf(P, C, d) \subseteq D
    BY <1>5 DEF RowTrue
  <2>9. PhaseTrue'
    BY <1>11, <2>1 DEF PhaseTrue
  <2>10. WorkersTrue'
    BY <1>2, <2>4 DEF WorkersTrue
  <2> HIDE DEF P, C, d, f, D
  <2>11. CountTrue' /\ SafeTrue'
    BY <1>2, <1>13, <2>3, <2>7, <2>8 DEF CountTrue, SafeTrue
  <2> QED
    BY <2>6, <2>9, <2>10, <2>11 DEF ScanTrue
<1> QED
  BY <1>9, <1>10, <1>12, <1>16, <1>17, <1>18 DEF IInv

-----------------------------------------------------------------------------
(* Steps while a thread runs: what stays.                                  *)

EnvTrue ==
    /\ paused \in BOOLEAN /\ shutdown \in BOOLEAN /\ metadata \in BOOLEAN /\ refused \in BOOLEAN
    /\ shutdown => paused
    /\ sent # {} => metadata

(* The surroundings have their types.                                      *)
LEMMA EnvTypes ==
    ASSUME SchedTrue
    PROVE  EnvTrue
BY DEF SchedTrue, EnvTrue

(* The thread goes on with its job, the scheduler waits.                   *)
LEMMA FrameStep ==
    ASSUME IInv, run.pc # "none", run'.pc # "none", run'.job = run.job, UNCHANGED <<sched, present>>,
           DOMAIN jobs' = DOMAIN jobs, TableTrue', EnvTrue', RunTrue', QueuesTrue',
           Active' /\ ~refused' => ScanTrue'
    PROVE  IInv'
<1>1. /\ sched.pc = "executing" /\ run.job = sched.job /\ run.job \in DOMAIN jobs
      /\ sched.todo \subseteq DOMAIN jobs /\ PresentTrue
  BY Running
<1>2. SchedTrue'
  BY <1>1 DEF SchedTrue, EnvTrue
<1>3. PresentTrue'
  BY <1>1 DEF PresentTrue
<1> QED
  BY <1>2, <1>3 DEF IInv

IsRun(r) == PlainRun(r) \/ NextRun(r) \/ FarRun(r)

(* Goto: only the point in the thread changes.                             *)
LEMMA GotoForm ==
    ASSUME NEW r, IsRun(r), NEW p
    PROVE  LET g == [r EXCEPT !.pc = p] IN
           /\ IsRun(g) /\ g.pc = p /\ g.job = r.job /\ g.paths = r.paths /\ g.done = r.done
           /\ g.found = r.found /\ g.result = r.result
           /\ NextRun(r) => NextRun(g) /\ g.next = r.next
<1> DEFINE g == [r EXCEPT !.pc = p]
<1>1. CASE PlainRun(r)
  <2>1. PICK a, b, c, d, e, f : r = [pc |-> a, job |-> b, paths |-> c, done |-> d, found |-> e, result |-> f]
    BY <1>1 DEF PlainRun
  <2>2. g = [pc |-> p, job |-> b, paths |-> c, done |-> d, found |-> e, result |-> f]
    BY <2>1
  <2>3. PlainRun(g) /\ g.pc = p /\ g.job = b /\ g.paths = c /\ g.done = d /\ g.found = e /\ g.result = f
    <3> HIDE DEF g
    <3> QED
      BY <2>2 DEF PlainRun, RunFields
  <2>4. r.job = b /\ r.paths = c /\ r.done = d /\ r.found = e /\ r.result = f
    BY <2>1
  <2>5. ~NextRun(r)
    BY <1>1 DEF PlainRun, NextRun, RunFields
  <2> QED
    BY <2>3, <2>4, <2>5 DEF IsRun
<1>2. CASE NextRun(r)
  <2>1. PICK a, b, c, d, e, f, n :
           r = [pc |-> a, job |-> b, paths |-> c, done |-> d, found |-> e, result |-> f, next |-> n]
    BY <1>2 DEF NextRun
  <2>2. g = [pc |-> p, job |-> b, paths |-> c, done |-> d, found |-> e, result |-> f, next |-> n]
    BY <2>1
  <2>3. NextRun(g) /\ g.pc = p /\ g.job = b /\ g.paths = c /\ g.done = d /\ g.found = e /\ g.result = f /\ g.next = n
    <3> HIDE DEF g
    <3> QED
      BY <2>2 DEF NextRun, RunFields
  <2>4. r.job = b /\ r.paths = c /\ r.done = d /\ r.found = e /\ r.result = f /\ r.next = n
    BY <2>1
  <2> QED
    BY <2>3, <2>4 DEF IsRun
<1>3. CASE FarRun(r)
  <2>1. PICK a, b, c, d, e, f, n :
           r = [pc |-> a, job |-> b, paths |-> c, done |-> d, found |-> e, result |-> f, so_far |-> n]
    BY <1>3 DEF FarRun
  <2>2. g = [pc |-> p, job |-> b, paths |-> c, done |-> d, found |-> e, result |-> f, so_far |-> n]
    BY <2>1
  <2>3. FarRun(g) /\ g.pc = p /\ g.job = b /\ g.paths = c /\ g.done = d /\ g.found = e /\ g.result = f
    <3> HIDE DEF g
    <3> QED
      BY <2>2 DEF FarRun, RunFields
  <2>4. r.job = b /\ r.paths = c /\ r.done = d /\ r.found = e /\ r.result = f
    BY <2>1
  <2>5. ~NextRun(r)
    BY <1>3 DEF FarRun, NextRun, RunFields
  <2> QED
    BY <2>3, <2>4, <2>5 DEF IsRun
<1> QED
  BY <1>1, <1>2, <1>3 DEF IsRun

(* The same of the result.                                                 *)
LEMMA ResultForm ==
    ASSUME NEW r, IsRun(r), NEW x
    PROVE  LET g == [r EXCEPT !.result = x] IN
           /\ IsRun(g) /\ g.pc = r.pc /\ g.job = r.job /\ g.paths = r.paths /\ g.done = r.done
           /\ g.found = r.found /\ g.result = x
<1> DEFINE g == [r EXCEPT !.result = x]
<1>1. CASE PlainRun(r)
  <2>1. PICK a, b, c, d, e, f : r = [pc |-> a, job |-> b, paths |-> c, done |-> d, found |-> e, result |-> f]
    BY <1>1 DEF PlainRun
  <2>2. g = [pc |-> a, job |-> b, paths |-> c, done |-> d, found |-> e, result |-> x]
    BY <2>1
  <2>3. PlainRun(g) /\ g.pc = a /\ g.job = b /\ g.paths = c /\ g.done = d /\ g.found = e /\ g.result = x
    <3> HIDE DEF g
    <3> QED
      BY <2>2 DEF PlainRun, RunFields
  <2>4. r.pc = a /\ r.job = b /\ r.paths = c /\ r.done = d /\ r.found = e
    BY <2>1
  <2> QED
    BY <2>3, <2>4 DEF IsRun
<1>2. CASE NextRun(r)
  <2>1. PICK a, b, c, d, e, f, n :
           r = [pc |-> a, job |-> b, paths |-> c, done |-> d, found |-> e, result |-> f, next |-> n]
    BY <1>2 DEF NextRun
  <2>2. g = [pc |-> a, job |-> b, paths |-> c, done |-> d, found |-> e, result |-> x, next |-> n]
    BY <2>1
  <2>3. NextRun(g) /\ g.pc = a /\ g.job = b /\ g.paths = c /\ g.done = d /\ g.found = e /\ g.result = x
    <3> HIDE DEF g
    <3> QED
      BY <2>2 DEF NextRun, RunFields
  <2>4. r.pc = a /\ r.job = b /\ r.paths = c /\ r.done = d /\ r.found = e
    BY <2>1
  <2> QED
    BY <2>3, <2>4 DEF IsRun
<1>3. CASE FarRun(r)
  <2>1. PICK a, b, c, d, e, f, n :
           r = [pc |-> a, job |-> b, paths |-> c, done |-> d, found |-> e, result |-> f, so_far |-> n]
    BY <1>3 DEF FarRun
  <2>2. g = [pc |-> a, job |-> b, paths |-> c, done |-> d, found |-> e, result |-> x, so_far |-> n]
    BY <2>1
  <2>3. FarRun(g) /\ g.pc = a /\ g.job = b /\ g.paths = c /\ g.done = d /\ g.found = e /\ g.result = x
    <3> HIDE DEF g
    <3> QED
      BY <2>2 DEF FarRun, RunFields
  <2>4. r.pc = a /\ r.job = b /\ r.paths = c /\ r.done = d /\ r.found = e
    BY <2>1
  <2> QED
    BY <2>3, <2>4 DEF IsRun
<1> QED
  BY <1>1, <1>2, <1>3 DEF IsRun

(* Return: the thread has a result.                                        *)
LEMMA ReturnForm ==
    ASSUME NEW r, IsRun(r), NEW x
    PROVE  LET g == [r EXCEPT !.pc = "returned", !.result = x] IN
           /\ IsRun(g) /\ g.pc = "returned" /\ g.job = r.job /\ g.paths = r.paths
           /\ g.done = r.done /\ g.found = r.found /\ g.result = x
<1> DEFINE g == [r EXCEPT !.pc = "returned", !.result = x]
           h == [r EXCEPT !.pc = "returned"]
<1>1. g = [h EXCEPT !.result = x]
  OBVIOUS
<1>2. IsRun(h) /\ h.pc = "returned" /\ h.job = r.job /\ h.paths = r.paths /\ h.done = r.done /\ h.found = r.found
  BY GotoForm
<1> HIDE DEF h
<1> QED
  BY <1>1, <1>2, ResultForm

(* The thread keeps its job.                                               *)
SameJob ==
    /\ IsRun(run') /\ run'.job = run.job /\ run'.paths = run.paths /\ run'.done = run.done
    /\ run'.found = run.found

(* Then it stays true, while more is collected and becomes durable.        *)
LEMMA RunKept ==
    ASSUME RunTrue, TableTrue, run.job \in DOMAIN jobs, Grows, SameJob,
           UNCHANGED <<progress, last>>, collected' \in Nat, collected' >= collected,
           shutdown => shutdown', shutdown \in BOOLEAN, shutdown' \in BOOLEAN,
           run'.pc \in {"segment", "scan", "workers", "collector", "barrier", "join", "returned"},
           run'.result = run.result \/ run'.result = "err",
           run'.pc \in {"scan", "workers", "collector"} => NextRun(run'),
           run'.pc # "returned" => run'.result = "none",
           run'.pc = "join" /\ ~shutdown' => run.paths = <<>>
    PROVE  RunTrue'
<1> DEFINE P == Paths
           C == Cuts
           D == durable[run.job]
           E == durable'[run.job]
<1>1. Paths' = P /\ Cuts' = C /\ durable'[run'.job] = E /\ D \subseteq E /\ (~paused' => ~paused)
  BY DEF Grows, SameJob, Paths, Cuts, TableTrue
<1>2. run.found \in Nat /\ collected \in Nat /\ RowTrue(P, C, D, FALSE, run.done, run.found + collected)
  BY DEF RunTrue
<1>3. RowTrue(P, C, E, FALSE, run.done, run.found + collected')
  <2>1. run.found + collected' \in Nat /\ run.found + collected' >= run.found + collected
    BY <1>2
  <2>2. PICK a, b : a = run.found + collected /\ b = run.found + collected' /\ a \in Nat /\ b \in Nat /\ b >= a
    BY <1>2, <2>1
  <2>3. IsFiniteSet(HitsOf(P, C, run.done)) => Cardinality(HitsOf(P, C, run.done)) \in Nat
    BY FS_CardinalityType
  <2>4. a >= Cardinality(HitsOf(P, C, run.done)) /\ IsPaths(P) /\ run.done \in 0 .. Len(P)
    BY <1>2, <2>2 DEF RowTrue, TableTrue, JobTrue, Paths
  <2>5. IsFiniteSet(HitsOf(P, C, run.done))
    BY <2>4, FS_EmptySet, GotFinite
  <2>6. b >= Cardinality(HitsOf(P, C, run.done))
    BY <2>2, <2>3, <2>4, <2>5
  <2>7. RowTrue(P, C, D, FALSE, run.done, b)
    BY <1>2, <2>2, <2>6 DEF RowTrue
  <2> QED
    BY <1>1, <2>2, <2>7, RowKept
<1>4. ASSUME NEW x, RowTrue(P, C, D, ~paused, x.done, x.found)
      PROVE  RowTrue(P, C, E, ~paused', x.done, x.found)
  BY <1>1, <1>4, RowKept
<1>5. ReportTrue(last)' /\ IsSequence(progress)' /\ \A i \in DOMAIN progress' : ReportTrue(progress[i])'
  BY <1>1, <1>4 DEF RunTrue, ReportTrue
<1>6. Final' = Final
  BY DEF Final
<1>7. run'.result = "ok" /\ ~shutdown' => Final'.done = Len(Paths')
  BY <1>1, <1>6 DEF RunTrue
<1>8. RowTrue(Paths, Cuts, durable[run.job], FALSE, run.done, run.found + collected)'
  BY <1>1, <1>3 DEF SameJob
<1>9. /\ run'.found \in Nat /\ run'.paths \in Seq(Segments) /\ Len(run'.paths) = Len(Paths') - run'.done
      /\ \A i \in DOMAIN run'.paths : run'.paths[i] = Paths'[run'.done + i]
  BY <1>1 DEF RunTrue, SameJob
<1>10. IsRun(run') /\ (run'.pc \in {"scan", "workers", "collector"} => NextRun(run'))
       /\ (run'.pc = "join" /\ ~shutdown' => run'.paths = <<>>)
  BY DEF SameJob
<1> QED
  BY <1>5, <1>7, <1>8, <1>9, <1>10 DEF RunTrue, IsRun

(* The thread gives up with an error; what it leaves in the queues does    *)
(* not matter.                                                             *)
LEMMA ErrStep ==
    ASSUME IInv, run.pc # "none", Return("err"),
           UNCHANGED <<jobs, resumed, durable, paused, present, sched, shutdown, metadata, sent,
                       hitq, collected, refused, dead, progress, last>>,
           DOMAIN work' = Workers, \A w \in Workers : IsSequence(work'[w]), acks' \subseteq Workers,
           run.pc # "collector" \/ refused
    PROVE  IInv'
<1>1. /\ run.job \in DOMAIN jobs /\ TableTrue /\ SchedTrue /\ RunTrue /\ QueuesTrue
  BY Running
<1>2. IsRun(run)
  BY <1>1 DEF RunTrue, IsRun
<1>3. /\ IsRun(run') /\ run'.pc = "returned" /\ run'.job = run.job /\ run'.paths = run.paths
      /\ run'.done = run.done /\ run'.found = run.found /\ run'.result = "err"
  <2> DEFINE g == [run EXCEPT !.pc = "returned", !.result = "err"]
  <2>1. /\ IsRun(g) /\ g.pc = "returned" /\ g.job = run.job /\ g.paths = run.paths
        /\ g.done = run.done /\ g.found = run.found /\ g.result = "err"
    BY ONLY <1>2, ReturnForm
  <2>2. run' = g
    BY DEF Return
  <2> HIDE DEF g
  <2> QED
    BY <2>1, <2>2
<1>4. TableTrue' /\ Grows
  BY <1>1, TableSame
<1>5. SameJob
  BY <1>3 DEF SameJob
<1>6. shutdown \in BOOLEAN /\ collected \in Nat
  BY <1>1 DEF SchedTrue, RunTrue
<1>7. RunTrue'
  BY <1>1, <1>3, <1>4, <1>5, <1>6, RunKept
<1>8. QueuesTrue'
  BY <1>1, <1>3 DEF QueuesTrue
<1>9. EnvTrue'
  BY <1>1, EnvTypes DEF EnvTrue
<1>10. ~Active'
  BY <1>3 DEF Active
<1>11. run'.pc # "none" /\ DOMAIN jobs' = DOMAIN jobs
  BY <1>3
<1> QED
  BY <1>3, <1>4, <1>7, <1>8, <1>9, <1>10, <1>11, FrameStep

(* The segment cannot be read, or the collector is gone.                   *)
LEMMA FailSteps ==
    ASSUME IInv, ScanFails \/ AwaitCollector
    PROVE  IInv'
<1>1. /\ run.pc # "none" /\ Return("err") /\ (run.pc # "collector" \/ refused)
      /\ UNCHANGED <<jobs, resumed, durable, paused, present, sched, shutdown, metadata, sent,
                     hitq, collected, refused, dead, progress, last, work, acks>>
  BY DEF ScanFails, AwaitCollector, table, env, pool, collector
<1>2. QueuesTrue
  BY <1>1, Running
<1>3. DOMAIN work' = Workers /\ acks' \subseteq Workers /\ \A w \in Workers : IsSequence(work'[w])
  BY <1>1, <1>2 DEF QueuesTrue
<1> QED
  BY <1>1, <1>3, ErrStep

(* A shutdown ends the scan of a segment.                                  *)
LEMMA InterruptStep ==
    ASSUME IInv, Interrupt
    PROVE  IInv'
<1>1. /\ run.pc = "scan" /\ shutdown /\ run' = [run EXCEPT !.pc = "join"]
      /\ UNCHANGED <<jobs, resumed, durable, paused, present, sched, shutdown, metadata, sent,
                     hitq, collected, refused, dead, progress, last, work, acks>>
  BY DEF Interrupt, Goto, table, env, pool, collector
<1>2. /\ run.job \in DOMAIN jobs /\ TableTrue /\ SchedTrue /\ RunTrue /\ QueuesTrue
  BY <1>1, Running
<1>3. IsRun(run)
  BY <1>2 DEF RunTrue, IsRun
<1>4. /\ IsRun(run') /\ run'.pc = "join" /\ run'.job = run.job /\ run'.paths = run.paths
      /\ run'.done = run.done /\ run'.found = run.found /\ run'.result = run.result
  BY <1>1, <1>3, GotoForm
<1>5. TableTrue' /\ Grows
  BY <1>1, <1>2, TableSame
<1>6. SameJob
  BY <1>4 DEF SameJob
<1>7. shutdown' /\ shutdown \in BOOLEAN /\ collected \in Nat /\ run'.result = "none"
  BY <1>1, <1>2, <1>4 DEF SchedTrue, RunTrue
<1>8. RunTrue'
  BY <1>1, <1>2, <1>4, <1>5, <1>6, <1>7, RunKept
<1>9. QueuesTrue'
  BY <1>1, <1>2, <1>4 DEF QueuesTrue
<1>10. EnvTrue'
  BY <1>1, <1>2, EnvTypes DEF EnvTrue
<1>11. ~Active' /\ run.pc # "none" /\ run'.pc # "none" /\ DOMAIN jobs' = DOMAIN jobs
  BY <1>1, <1>4 DEF Active
<1> QED
  BY <1>1, <1>4, <1>5, <1>8, <1>9, <1>10, <1>11, FrameStep

(* What the state of the workers says, if they and the thread stay.        *)
LEMMA WorkSame ==
    ASSUME UNCHANGED <<run, work, acks>>
    PROVE  /\ Records' = Records /\ Dealt' = Dealt /\ Waiting' = Waiting /\ Scanned' = Scanned
           /\ Working' = Working /\ Whole' = Whole
           /\ WorkersTrue => WorkersTrue'
<1>1. Records' = Records /\ Working' = Working /\ Whole' = Whole
  BY DEF Records, Working, Whole
<1>2. Dealt' = Dealt
  BY <1>1 DEF Dealt
<1>3. Waiting' = Waiting
  BY <1>2 DEF Waiting
<1>4. Scanned' = Scanned
  BY <1>2, <1>3 DEF Scanned
<1>5. ASSUME NEW w, WorkTrue(w) PROVE WorkTrue(w)'
  BY <1>1, <1>2, <1>4, <1>5 DEF WorkTrue
<1> QED
  BY <1>1, <1>2, <1>3, <1>4, <1>5 DEF WorkersTrue

(* The scan stays true while more becomes durable.                         *)
LEMMA ScanKept ==
    ASSUME ScanTrue, UNCHANGED <<run, work, acks, tails, hitq, collected>>,
           Paths' = Paths, Cuts' = Cuts, paused => paused', metadata' => metadata,
           metadata' => durable[run.job] \cup SentOf(run.job) \subseteq durable'[run.job] \cup SentOf(run.job)'
    PROVE  ScanTrue'
<1>1. /\ Records' = Records /\ Scanned' = Scanned /\ Working' = Working /\ Whole' = Whole
      /\ WorkersTrue'
  BY WorkSame DEF ScanTrue
<1>2. HitsSoFar' = HitsSoFar
  BY <1>1 DEF HitsSoFar
<1>3. PhaseTrue'
  BY <1>1 DEF ScanTrue, PhaseTrue
<1>4. TailsTrue'
  BY <1>1 DEF ScanTrue, TailsTrue
<1>5. Total' = Total /\ InQueue' = InQueue
  BY DEF Total, InQueue
<1>6. CountTrue'
  BY <1>2, <1>5 DEF ScanTrue, CountTrue
<1>7. SafeTrue'
  BY <1>2, <1>5 DEF ScanTrue, SafeTrue
<1> QED
  BY <1>1, <1>3, <1>4, <1>6, <1>7 DEF ScanTrue

(* The metadata writer makes durable what it has, or stops; a shutdown is  *)
(* asked for.                                                              *)
LEMMA WriterSteps ==
    ASSUME IInv, Spool \/ MetadataStops \/ RequestShutdown
    PROVE  IInv'
<1>1. /\ UNCHANGED <<jobs, resumed, present, sched, run, work, acks, tails, hitq, collected, refused,
                     dead, progress, last>>
      /\ shutdown => shutdown'
      /\ paused => paused'
      /\ metadata' => metadata
  BY DEF Spool, MetadataStops, RequestShutdown, table, env, scan, pool, collector
<1>2. TableTrue /\ PresentTrue /\ SchedTrue
  BY DEF IInv
<1>3. EnvTrue
  BY <1>2, EnvTypes
<1>4. EnvTrue'
  <2>1. CASE Spool
    BY <1>1, <1>3, <2>1 DEF Spool, Synced, EnvTrue, table, env
  <2>2. CASE MetadataStops
    BY <1>1, <1>3, <2>2 DEF MetadataStops, EnvTrue, table
  <2>3. CASE RequestShutdown
    BY <1>1, <1>3, <2>3 DEF RequestShutdown, EnvTrue
  <2> QED
    BY <2>1, <2>2, <2>3
<1>5. Grows /\ (metadata' => \A j \in DOMAIN jobs : durable[j] \cup SentOf(j) \subseteq durable'[j] \cup SentOf(j)')
  <2>1. CASE Spool
    <3>1. durable' = Flushed /\ UNCHANGED <<jobs, resumed, paused>>
      BY <2>1 DEF Spool, Synced, table
    <3>2. Grows /\ \A j \in DOMAIN jobs : durable'[j] = durable[j] \cup SentOf(j)
      BY <1>2, <3>1, FlushGrows
    <3> QED
      BY <3>2
  <2>2. CASE MetadataStops
    <3>1. ~metadata' /\ UNCHANGED <<jobs, resumed, durable, paused>>
      BY <2>2 DEF MetadataStops, table
    <3> QED
      BY <1>2, <3>1, TableSame
  <2>3. CASE RequestShutdown
    <3>1. UNCHANGED <<jobs, resumed, durable, sent>>
      BY <2>3 DEF RequestShutdown
    <3>2. Grows
      BY <1>1, <1>2, <3>1 DEF Grows, TableTrue
    <3> QED
      BY <3>1, <3>2 DEF SentOf
  <2> QED
    BY <2>1, <2>2, <2>3
<1>6. TableTrue'
  BY <1>2, <1>5, TableGrows
<1>7. CASE run.pc = "none"
  <2>1. SchedTrue' /\ PresentTrue'
    BY <1>1, <1>2, <1>4 DEF SchedTrue, PresentTrue, EnvTrue
  <2>2. run' = NoRun
    BY <1>1, <1>7, Still
  <2> QED
    BY <1>6, <2>1, <2>2, QuietStep
<1>8. CASE run.pc # "none"
  <2>1. run.job \in DOMAIN jobs /\ RunTrue /\ QueuesTrue
    BY <1>8, Running
  <2>2. SameJob
    BY <1>1, <2>1 DEF SameJob, RunTrue, IsRun
  <2>3. collected \in Nat /\ run.pc \in {"segment", "scan", "workers", "collector", "barrier", "join", "returned"}
        /\ (run.pc \in {"scan", "workers", "collector"} => NextRun(run))
        /\ (run.pc # "returned" => run.result = "none") /\ (run.pc = "join" /\ ~shutdown => run.paths = <<>>)
    BY <2>1 DEF RunTrue
  <2>4. shutdown \in BOOLEAN /\ shutdown' \in BOOLEAN
    BY <1>3, <1>4 DEF EnvTrue
  <2>5. RunTrue'
    BY <1>1, <1>2, <1>5, <2>1, <2>2, <2>3, <2>4, RunKept
  <2>6. QueuesTrue'
    BY <1>1, <2>1 DEF QueuesTrue
  <2>7. Paths' = Paths /\ Cuts' = Cuts
    BY <1>1 DEF Paths, Cuts
  <2>8. Active' /\ ~refused' => ScanTrue'
    <3>1. Active' => Active
      BY <1>1 DEF Active
    <3> SUFFICES ASSUME Active, ~refused PROVE ScanTrue'
      BY <1>1, <3>1
    <3>2. ScanTrue
      BY DEF IInv
    <3> QED
      BY <1>1, <1>5, <2>1, <2>7, <3>2, ScanKept
  <2>9. run'.pc # "none" /\ run'.job = run.job /\ DOMAIN jobs' = DOMAIN jobs
    BY <1>1, <1>8
  <2> QED
    BY <1>1, <1>4, <1>6, <1>8, <2>5, <2>6, <2>8, <2>9, FrameStep
<1> QED
  BY <1>7, <1>8

(* The scheduler reads a report and writes it to the row.                  *)
LEMMA TakeProgressStep ==
    ASSUME IInv, TakeProgress
    PROVE  IInv'
<1> DEFINE p == Head(progress)
           j == run.job
<1>1. /\ sched.pc = "executing" /\ progress # <<>> /\ last' = p /\ progress' = Tail(progress)
      /\ Update(sched.job, "running", p) \/ UNCHANGED jobs
      /\ UNCHANGED <<present, resumed, paused, durable, shutdown, metadata, sched, run, sent,
                     work, dead, acks, tails, hitq, collected, refused>>
  BY DEF TakeProgress, pool, collector
<1>2. run.pc # "none"
  BY <1>1 DEF IInv, SchedTrue
<1>3. /\ j = sched.job /\ j \in DOMAIN jobs /\ TableTrue /\ SchedTrue /\ RunTrue /\ QueuesTrue
  BY <1>2, Running
<1>4. /\ IsSequence(progress) /\ \A i \in DOMAIN progress : ReportTrue(progress[i])
  BY <1>3 DEF RunTrue
<1>5. /\ IsSequence(Tail(progress)) /\ Len(progress) \in Nat \ {0} /\ DOMAIN progress = 1 .. Len(progress)
      /\ p = progress[1] /\ Len(Tail(progress)) = Len(progress) - 1 /\ DOMAIN Tail(progress) = 1 .. Len(progress) - 1
      /\ \A i \in DOMAIN Tail(progress) : i + 1 \in DOMAIN progress /\ Tail(progress)[i] = progress[i + 1]
  BY <1>1, <1>4, TailOfSequence
<1>6. ReportTrue(p)
  BY <1>4, <1>5
<1>7. TableTrue' /\ DOMAIN jobs' = DOMAIN jobs /\ jobs'[j].paths = jobs[j].paths
  <2>1. CASE UNCHANGED jobs
    BY <1>1, <1>3, <2>1, TableSame
  <2>2. CASE Update(sched.job, "running", p)
    <3>1. RowTrue(jobs[j].paths, resumed'[j], durable[j], ~paused, p.done, p.found)
      BY <1>1, <1>6 DEF ReportTrue, Paths, Cuts
    <3>2. IsSequence(resumed') /\ DOMAIN resumed' = DOMAIN resumed /\ \A k \in DOMAIN jobs : resumed'[k] = resumed[k]
      BY <1>1, <1>3 DEF TableTrue
    <3>3. UNCHANGED <<durable, paused>> /\ Update(j, "running", p)
      BY <1>1, <1>3, <2>2
    <3> HIDE DEF p, j
    <3> QED
      BY <1>3, <3>1, <3>2, <3>3, UpdateTrue
  <2> QED
    BY <1>1, <2>1, <2>2
<1>8. Paths' = Paths /\ Cuts' = Cuts
  BY <1>1, <1>7 DEF Paths, Cuts
<1>9. \A r : ReportTrue(r)' <=> ReportTrue(r)
  BY <1>1, <1>8 DEF ReportTrue
<1>10. Final' = Final
  <2> DEFINE q == Tail(progress)
             n == Len(progress)
  <2>1. CASE n = 1
    <3>1. Len(q) = 0 /\ IsSequence(q)
      BY <1>5, <2>1
    <3>2. q = <<>>
      BY <3>1, TailOfSequence
    <3> QED
      BY <1>1, <1>5, <2>1, <3>2 DEF Final
  <2>2. CASE n # 1
    <3>1. n \in Nat /\ n > 1 /\ n - 1 \in DOMAIN q /\ Len(q) = n - 1 /\ (n - 1) + 1 = n
      BY <1>5, <2>2
    <3>2. q[Len(q)] = progress[n]
      BY <1>5, <3>1
    <3>3. q # <<>>
      BY <3>1, EmptySequence
    <3> QED
      BY <1>1, <3>2, <3>3 DEF Final
  <2> QED
    BY <2>1, <2>2
<1>11. RunTrue'
  <2>1. ReportTrue(last)'
    BY <1>1, <1>6, <1>9
  <2>2. IsSequence(progress)' /\ \A i \in DOMAIN progress' : ReportTrue(progress[i])'
    BY <1>1, <1>4, <1>5, <1>9
  <2>3. RowTrue(Paths, Cuts, durable[run.job], FALSE, run.done, run.found + collected)'
    BY <1>1, <1>3, <1>8 DEF RunTrue
  <2>4. run'.result = "ok" /\ ~shutdown' => Final'.done = Len(Paths')
    BY <1>1, <1>3, <1>8, <1>10 DEF RunTrue
  <2>5. /\ PlainRun(run') \/ NextRun(run') \/ FarRun(run')
        /\ run'.pc \in {"segment", "scan", "workers", "collector", "barrier", "join", "returned"}
        /\ run'.found \in Nat /\ collected' \in Nat
        /\ run'.paths \in Seq(Segments) /\ Len(run'.paths) = Len(Paths') - run'.done
        /\ \A i \in DOMAIN run'.paths : run'.paths[i] = Paths'[run'.done + i]
        /\ run'.pc \in {"scan", "workers", "collector"} => NextRun(run')
        /\ run'.pc # "returned" => run'.result = "none"
        /\ run'.pc = "join" /\ ~shutdown' => run'.paths = <<>>
    BY <1>1, <1>3, <1>8 DEF RunTrue
  <2> QED
    BY <2>1, <2>2, <2>3, <2>4, <2>5 DEF RunTrue
<1>12. QueuesTrue'
  BY <1>1, <1>3 DEF QueuesTrue
<1>13. EnvTrue'
  BY <1>1, <1>3, EnvTypes DEF EnvTrue
<1>14. Active' /\ ~refused' => ScanTrue'
  <2>1. Active' <=> Active
    BY <1>1 DEF Active
  <2> SUFFICES ASSUME Active, ~refused PROVE ScanTrue'
    BY <1>1, <2>1
  <2>2. ScanTrue
    BY DEF IInv
  <2>3. SentOf(run.job)' = SentOf(run.job)
    BY <1>1 DEF SentOf
  <2> QED
    BY <1>1, <1>8, <2>2, <2>3, ScanKept
<1>15. run'.pc # "none" /\ run'.job = run.job
  BY <1>1, <1>2
<1> QED
  BY <1>1, <1>2, <1>7, <1>11, <1>12, <1>13, <1>14, <1>15, FrameStep

(* Requests only wait.                                                     *)
LEMMA EnqueueStep ==
    ASSUME IInv, NEW p, enqueue(p) \/ UNCHANGED vars
    PROVE  IInv'
<1>1. /\ UNCHANGED <<jobs, resumed, durable, paused, present, sched, run, work, acks, tails, hitq, collected,
                     refused, dead, progress, last, shutdown, metadata, sent>>
  BY DEF enqueue, vars, table, env, scan, pool, collector
<1>2. TableTrue' /\ PresentTrue' /\ SchedTrue'
  BY <1>1 DEF IInv, TableTrue, PresentTrue, SchedTrue
<1>3. Paths' = Paths /\ Cuts' = Cuts /\ SentOf(run.job)' = SentOf(run.job)
  BY <1>1 DEF Paths, Cuts, SentOf
<1>4. Active' = Active
  BY <1>1 DEF Active
<1>5. ASSUME ScanTrue PROVE ScanTrue'
  BY <1>1, <1>3, <1>5, ScanKept
<1>6. ASSUME RunTrue PROVE RunTrue'
  BY <1>1, <1>3, <1>6 DEF RunTrue, ReportTrue, Final
<1>7. QueuesTrue => QueuesTrue'
  BY <1>1 DEF QueuesTrue
<1> QED
  BY <1>1, <1>2, <1>4, <1>5, <1>6, <1>7 DEF IInv

-----------------------------------------------------------------------------
(* The scan thread between segments.                                       *)

(* The next segment, or the end.                                           *)
LEMMA NextSegmentStep ==
    ASSUME IInv, NextSegment
    PROVE  IInv'
<1>1. /\ run.pc = "segment"
      /\ UNCHANGED <<jobs, resumed, durable, paused, present, sched, shutdown, metadata, sent,
                     hitq, collected, refused, dead, progress, last, work, acks, tails>>
  BY DEF NextSegment, table, env, pool, collector
<1>2. /\ run.job \in DOMAIN jobs /\ TableTrue /\ SchedTrue /\ RunTrue /\ QueuesTrue /\ IsPaths(Paths)
  BY <1>1, Running
<1>3. /\ IsRun(run) /\ collected \in Nat /\ run.result = "none" /\ shutdown \in BOOLEAN
  BY <1>1, <1>2 DEF RunTrue, IsRun, SchedTrue
<1>4. ~refused /\ hitq = <<>> /\ ScanTrue
  BY <1>1, <1>2 DEF QueuesTrue, IInv, Active
<1>5. TableTrue' /\ Grows
  BY <1>1, <1>2, TableSame
<1>6. EnvTrue'
  BY <1>1, <1>2, EnvTypes DEF EnvTrue
<1>8. (\A w \in Workers : work[w] = <<>>) /\ Scanned = {}
  <2>1. ~Working /\ Dealt = 0
    BY <1>1 DEF Working, Whole, Dealt
  <2> QED
    BY <1>4, <2>1 DEF ScanTrue, WorkersTrue, Scanned
<1>9. CASE shutdown \/ run.paths = <<>>
  <2>1. run' = [run EXCEPT !.pc = "join"]
    BY <1>9 DEF NextSegment
  <2>2. /\ IsRun(run') /\ run'.pc = "join" /\ run'.job = run.job /\ run'.paths = run.paths
        /\ run'.done = run.done /\ run'.found = run.found /\ run'.result = run.result
    BY <1>3, <2>1, GotoForm
  <2>3. SameJob
    BY <2>2 DEF SameJob
  <2>4. RunTrue'
    BY <1>1, <1>2, <1>3, <1>5, <1>9, <2>2, <2>3, RunKept
  <2>5. QueuesTrue'
    BY <1>1, <1>2, <1>4, <2>2 DEF QueuesTrue
  <2>6. ScanTrue'
    <3>1. ~Working' /\ ~Whole' /\ Dealt' = 0
      BY <2>2 DEF Working, Whole, Dealt
    <3>2. Scanned' = {}
      BY <3>1 DEF Scanned
    <3>3. Paths' = Paths /\ Cuts' = Cuts /\ durable'[run'.job] = durable[run.job]
      BY <1>1, <2>2 DEF Paths, Cuts
    <3>4. HitsSoFar' = HitsSoFar
      BY <1>8, <2>2, <3>2, <3>3 DEF HitsSoFar
    <3>5. PhaseTrue'
      BY <2>2, <3>1 DEF PhaseTrue
    <3>6. WorkersTrue'
      <4>1. \A w \in Workers : DOMAIN work'[w] = {}
        BY <1>1, <1>8
      <4>2. \A w \in Workers : WorkTrue(w)'
        BY <4>1 DEF WorkTrue
      <4> QED
        BY <1>1, <1>8, <4>2 DEF WorkersTrue
    <3>7. TailsTrue'
      BY <1>1, <1>4, <1>8, <2>2, <3>2, <3>3 DEF ScanTrue, TailsTrue
    <3>8. Total' = Total /\ InQueue' = InQueue /\ SentOf(run.job)' = SentOf(run.job)
      BY <1>1, <2>2 DEF Total, InQueue, SentOf
    <3>9. CountTrue' /\ SafeTrue'
      BY <1>1, <1>4, <2>2, <3>3, <3>4, <3>8 DEF ScanTrue, CountTrue, SafeTrue, SentOf
    <3> QED
      BY <3>5, <3>6, <3>7, <3>9 DEF ScanTrue
  <2>7. run.pc # "none" /\ run'.pc # "none" /\ DOMAIN jobs' = DOMAIN jobs
    BY <1>1, <2>2
  <2> QED
    BY <1>1, <1>5, <1>6, <2>2, <2>4, <2>5, <2>6, <2>7, FrameStep
<1>10. CASE ~shutdown /\ run.paths # <<>>
  <2>1. run' = [pc |-> "scan", job |-> run.job, paths |-> run.paths, done |-> run.done,
                found |-> run.found, result |-> "none", next |-> 1]
    BY <1>10 DEF NextSegment
  <2>2. /\ NextRun(run') /\ run'.pc = "scan" /\ run'.job = run.job /\ run'.paths = run.paths
        /\ run'.done = run.done /\ run'.found = run.found /\ run'.result = run.result /\ run'.next = 1
    BY <1>3, <2>1 DEF NextRun, RunFields
  <2>3. SameJob
    BY <2>2 DEF SameJob, IsRun
  <2>4. RunTrue'
    BY <1>1, <1>2, <1>3, <1>5, <2>2, <2>3, RunKept
  <2>5. QueuesTrue'
    BY <1>1, <1>2, <1>4, <2>2 DEF QueuesTrue
  <2>6. ScanTrue'
    <3>1. Working' /\ ~Whole' /\ Dealt' = 0
      BY <2>2 DEF Working, Whole, Dealt
    <3>2. Scanned' = {}
      BY <3>1 DEF Scanned
    <3>3. Paths' = Paths /\ Cuts' = Cuts /\ durable'[run'.job] = durable[run.job]
      BY <1>1, <2>2 DEF Paths, Cuts
    <3>4. HitsSoFar' = HitsSoFar
      BY <1>8, <2>2, <3>2, <3>3 DEF HitsSoFar
    <3>5. PhaseTrue'
      <4>1. Head(run.paths) = Paths[run.done + 1] /\ run.done + 1 \in DOMAIN Paths
        BY <1>2, <1>10, NextPath
      <4>2. Records' = SegmentOf[Paths[run.done + 1]]
        BY <2>2, <4>1 DEF Records
      <4>3. Len(Records') \in Nat
        BY <1>2, <4>1, <4>2, PathsMap
      <4>4. PICK n : n = Len(Records')
        OBVIOUS
      <4>5. 1 \in 1 .. n + 1
        BY <4>3, <4>4
      <4> QED
        BY <1>10, <2>2, <3>1, <4>4, <4>5 DEF PhaseTrue
    <3>6. WorkersTrue'
      <4>1. \A w \in Workers : DOMAIN work'[w] = {}
        BY <1>1, <1>8
      <4>2. \A w \in Workers : WorkTrue(w)'
        BY <4>1 DEF WorkTrue
      <4> QED
        BY <1>1, <1>8, <4>2 DEF WorkersTrue
    <3>7. TailsTrue'
      BY <1>1, <1>4, <1>8, <2>2, <3>2, <3>3 DEF ScanTrue, TailsTrue
    <3>8. Total' = Total /\ InQueue' = InQueue /\ SentOf(run.job)' = SentOf(run.job)
      BY <1>1, <2>2 DEF Total, InQueue, SentOf
    <3>9. CountTrue' /\ SafeTrue'
      BY <1>1, <1>4, <2>2, <3>3, <3>4, <3>8 DEF ScanTrue, CountTrue, SafeTrue, SentOf
    <3> QED
      BY <3>5, <3>6, <3>7, <3>9 DEF ScanTrue
  <2>7. run.pc # "none" /\ run'.pc # "none" /\ DOMAIN jobs' = DOMAIN jobs
    BY <1>1, <2>2
  <2> QED
    BY <1>1, <1>5, <1>6, <2>2, <2>4, <2>5, <2>6, <2>7, FrameStep
<1> QED
  BY <1>3, <1>9, <1>10

-----------------------------------------------------------------------------
(* The scan of a segment.                                                  *)

(* A flow has a worker.                                                    *)
LEMMA WorkerIn ==
    ASSUME NEW flow \in Nat
    PROVE  WorkerOf(flow) \in Workers
<1> DEFINE n == Cardinality(Workers)
<1>1. IsFiniteSet(Workers) /\ Workers # {} /\ Workers = 0 .. n - 1
  BY ReplayAssumption
<1>2. n \in Nat /\ n # 0
  BY <1>1, FS_CardinalityType, FS_EmptySet
<1> HIDE DEF n
<1>3. flow % n \in 0 .. n - 1
  BY <1>2
<1> QED
  BY <1>1, <1>3 DEF WorkerOf, n

(* The next record.                                                        *)
LEMMA NextForm ==
    ASSUME NEW r, NextRun(r)
    PROVE  LET g == [r EXCEPT !.next = @ + 1] IN
           /\ NextRun(g) /\ g.pc = r.pc /\ g.job = r.job /\ g.paths = r.paths /\ g.done = r.done
           /\ g.found = r.found /\ g.result = r.result /\ g.next = r.next + 1
<1> DEFINE g == [r EXCEPT !.next = @ + 1]
<1>1. PICK a, b, c, d, e, f, n :
         r = [pc |-> a, job |-> b, paths |-> c, done |-> d, found |-> e, result |-> f, next |-> n]
  BY DEF NextRun
<1>2. r.next = n
  BY <1>1
<1>3. g = [pc |-> a, job |-> b, paths |-> c, done |-> d, found |-> e, result |-> f, next |-> n + 1]
  BY <1>1, <1>2
<1>4. /\ NextRun(g) /\ g.pc = a /\ g.job = b /\ g.paths = c /\ g.done = d /\ g.found = e
      /\ g.result = f /\ g.next = n + 1
  <2> HIDE DEF g
  <2> QED
    BY <1>3 DEF NextRun, RunFields
<1>5. r.pc = a /\ r.job = b /\ r.paths = c /\ r.done = d /\ r.found = e /\ r.result = f
  BY <1>1
<1> QED
  BY <1>2, <1>4, <1>5

(* The records of the segment under way.                                   *)
LEMMA RecordsForm ==
    ASSUME IsPaths(Paths), RunTrue, run.paths # <<>>
    PROVE  /\ Records = SegmentOf[Paths[run.done + 1]] /\ Len(Records) \in Nat
           /\ DOMAIN Records = 1 .. Len(Records)
           /\ \A i \in 1 .. Len(Records) :
                 /\ Records[i] \in [flow : Nat, own : BOOLEAN, cross : BOOLEAN]
                 /\ Records[i].flow \in Nat /\ WorkerOf(Records[i].flow) \in Workers
<1>1. Head(run.paths) = Paths[run.done + 1] /\ run.done + 1 \in DOMAIN Paths
  BY NextPath
<1>2. Records = SegmentOf[Paths[run.done + 1]]
  BY <1>1 DEF Records
<1>3. /\ Len(Records) \in Nat /\ DOMAIN Records = 1 .. Len(Records)
      /\ \A i \in DOMAIN Records : Records[i] \in [flow : Nat, own : BOOLEAN, cross : BOOLEAN]
  BY <1>1, <1>2, PathsMap
<1>4. \A i \in DOMAIN Records : Records[i].flow \in Nat
  BY <1>3
<1> QED
  BY <1>2, <1>3, <1>4, WorkerIn

(* A record is handed to the worker of its flow.                           *)
LEMMA DispatchStep ==
    ASSUME IInv, Dispatch
    PROVE  IInv'
<1> DEFINE r == Records[run.next]
           v == WorkerOf(r.flow)
           n == run.next
           x == [kind |-> "record", r |-> r, seg |-> Head(run.paths), i |-> n]
<1>1. /\ run.pc = "scan" /\ n <= Len(Records)
      /\ \/ Return("err") /\ UNCHANGED work
         \/ /\ v \notin dead
            /\ work' = [work EXCEPT ![v] = Append(@, x)]
            /\ run' = [run EXCEPT !.next = @ + 1]
      /\ UNCHANGED <<jobs, resumed, durable, paused, present, sched, shutdown, metadata, sent,
                     hitq, collected, refused, dead, progress, last, acks, tails>>
  BY DEF Dispatch, table, env, collector
<1>2. /\ run.job \in DOMAIN jobs /\ TableTrue /\ SchedTrue /\ RunTrue /\ QueuesTrue /\ IsPaths(Paths)
  BY <1>1, Running
<1>3. DOMAIN work = Workers /\ acks \subseteq Workers /\ \A w \in Workers : IsSequence(work[w])
  BY <1>2 DEF QueuesTrue
<1>4. CASE Return("err") /\ UNCHANGED work
  BY <1>1, <1>3, <1>4, ErrStep
<1>5. CASE work' = [work EXCEPT ![v] = Append(@, x)] /\ run' = [run EXCEPT !.next = @ + 1]
  <2>1. NextRun(run) /\ collected \in Nat /\ run.result = "none"
    BY <1>1, <1>2 DEF RunTrue
  <2>2. /\ NextRun(run') /\ run'.pc = run.pc /\ run'.job = run.job /\ run'.paths = run.paths
        /\ run'.done = run.done /\ run'.found = run.found /\ run'.result = run.result /\ run'.next = n + 1
    BY <1>5, <2>1, NextForm
  <2>3. SameJob
    BY <2>2 DEF SameJob, IsRun
  <2>4. TableTrue' /\ Grows
    BY <1>1, <1>2, TableSame
  <2>5. EnvTrue' /\ shutdown \in BOOLEAN
    BY <1>1, <1>2, EnvTypes DEF EnvTrue
  <2>6. RunTrue'
    BY <1>1, <1>2, <2>1, <2>2, <2>3, <2>4, <2>5, RunKept
  <2> HIDE DEF r, v, n, x
  <2>7. DOMAIN work' = Workers /\ \A w \in Workers : work'[w] = IF w = v THEN Append(work[w], x) ELSE work[w]
    BY <1>3, <1>5
  <2>8. \A w \in Workers : IsSequence(work'[w])
    <3> SUFFICES ASSUME NEW w \in Workers PROVE IsSequence(work'[w])
      OBVIOUS
    <3>1. IsSequence(work[w]) /\ (work'[w] = Append(work[w], x) \/ work'[w] = work[w])
      BY <1>3, <2>7
    <3>2. IsSequence(Append(work[w], x))
      BY <3>1, AppendToSequence
    <3> QED
      BY <3>1, <3>2
  <2>9. QueuesTrue'
    BY <1>1, <1>2, <2>2, <2>7, <2>8 DEF QueuesTrue
  <2>10. ASSUME ~refused PROVE ScanTrue'
    <3>1. PhaseTrue /\ WorkersTrue /\ TailsTrue /\ CountTrue /\ SafeTrue
      BY <1>1, <2>10 DEF IInv, Active, ScanTrue
    <3>2. Working /\ Working' /\ ~Whole /\ ~Whole'
      BY <1>1, <2>2 DEF Working, Whole
    <3>3. run.paths # <<>>
      BY <3>1, <3>2 DEF PhaseTrue
    <3>4. /\ Len(Records) \in Nat /\ DOMAIN Records = 1 .. Len(Records)
          /\ n \in 1 .. Len(Records) + 1
      BY <1>2, <3>1, <3>2, <3>3, RecordsForm DEF PhaseTrue, n
    <3>5. n \in 1 .. Len(Records) /\ n \in Nat
      BY <1>1, <3>4
    <3>6. v \in Workers
      BY <1>2, <3>3, <3>5, RecordsForm DEF v, r, n
    <3>7. Dealt = n - 1 /\ Dealt' = n /\ Records' = Records
      BY <2>2, <3>2, <3>5 DEF Dealt, n, Records
    <3>8. x.kind = "record" /\ x.i = n /\ x.r = Records[n] /\ x.seg = Head(run.paths) /\ WorkerOf(x.r.flow) = v
      BY DEF x, r, n, v
    <3>9. ASSUME NEW w \in Workers, NEW m \in DOMAIN work[w] PROVE IsItem(work[w][m], w, Head(run.paths), n - 1)
      <4>1. WorkTrue(w)
        BY <3>1 DEF WorkersTrue
      <4> QED
        BY <1>1, <3>7, <4>1 DEF WorkTrue
    <3>10. ASSUME NEW y, NEW w, IsItem(y, w, Head(run.paths), n - 1)
           PROVE  IsItem(y, w, Head(run.paths), n) /\ y.i \in 1 .. n - 1
      BY <3>5, <3>10 DEF IsItem
    <3>11. ASSUME NEW w \in Workers
           PROVE  /\ DOMAIN work[w] = 1 .. Len(work[w]) /\ Len(work[w]) \in Nat
                  /\ w # v => work'[w] = work[w]
                  /\ w = v => /\ DOMAIN work'[w] = 1 .. Len(work[w]) + 1
                              /\ work'[w][Len(work[w]) + 1] = x
                              /\ \A m \in DOMAIN work[w] : work'[w][m] = work[w][m]
      BY <1>3, <2>7, SequenceIsNumbered, AppendToSequence
    <3>12. \A w \in Workers : \A m \in DOMAIN work'[w] :
               (work'[w][m] = x /\ w = v) \/ (m \in DOMAIN work[w] /\ work'[w][m] = work[w][m])
      <4> SUFFICES ASSUME NEW w \in Workers, NEW m \in DOMAIN work'[w],
                          ~(m \in DOMAIN work[w] /\ work'[w][m] = work[w][m])
                   PROVE  work'[w][m] = x /\ w = v
        OBVIOUS
      <4>1. w = v
        BY <3>11
      <4>2. m \in 1 .. Len(work[w]) + 1 /\ ~(m \in 1 .. Len(work[w])) /\ Len(work[w]) \in Nat
        BY <3>11, <4>1
      <4>3. m = Len(work[w]) + 1
        BY <4>2
      <4> QED
        BY <3>11, <4>1, <4>3
    <3>13. Scanned' = Scanned
      <4>1. ASSUME NEW i \in 1 .. n - 1, i \in Waiting PROVE i \in Waiting'
        <5>0. PICK w \in Workers : \E m \in DOMAIN work[w] : work[w][m].kind = "record" /\ work[w][m].i = i
          BY <4>1 DEF Waiting
        <5>1. PICK m \in DOMAIN work[w] : work[w][m].kind = "record" /\ work[w][m].i = i
          BY <5>0
        <5>2. m \in DOMAIN work'[w] /\ work'[w][m] = work[w][m]
          BY <3>11, <5>1
        <5>3. i \in 1 .. Dealt'
          BY <3>5, <3>7
        <5> QED
          BY <2>7, <5>1, <5>2, <5>3 DEF Waiting
      <4>2. ASSUME NEW i \in 1 .. n - 1, i \in Waiting' PROVE i \in Waiting
        <5>0. PICK w \in Workers : \E m \in DOMAIN work'[w] : work'[w][m].kind = "record" /\ work'[w][m].i = i
          BY <2>7, <4>2 DEF Waiting
        <5>1. PICK m \in DOMAIN work'[w] : work'[w][m].kind = "record" /\ work'[w][m].i = i
          BY <5>0
        <5>2. i # n
          BY <3>5
        <5>3. m \in DOMAIN work[w] /\ work'[w][m] = work[w][m]
          BY <3>8, <3>12, <5>1, <5>2
        <5> QED
          BY <3>7, <5>1, <5>3 DEF Waiting
      <4>3. n \in Waiting'
        <5>1. Len(work[v]) + 1 \in DOMAIN work'[v] /\ work'[v][Len(work[v]) + 1] = x
          BY <3>6, <3>11
        <5>2. n \in 1 .. Dealt'
          BY <3>5, <3>7
        <5> QED
          BY <2>7, <3>6, <3>8, <5>1, <5>2 DEF Waiting
      <4>4. \A i : i \in 1 .. Dealt' <=> i \in 1 .. n - 1 \/ i = n
        BY <3>5, <3>7
      <4>5. 1 .. Dealt = 1 .. n - 1
        BY <3>7
      <4>6. n \notin 1 .. n - 1
        BY <3>5
      <4>7. ASSUME NEW i PROVE i \in Scanned' <=> i \in Scanned
        BY <4>1, <4>2, <4>3, <4>4, <4>5, <4>6 DEF Scanned
      <4> QED
        BY <4>7
    <3>14. PhaseTrue'
      <4>1. run'.next \in 1 .. Len(Records') + 1
        BY <2>2, <3>4, <3>5, <3>7
      <4>2. run'.pc = "scan" /\ run'.paths # <<>>
        BY <1>1, <2>2, <3>3
      <4> QED
        BY <4>1, <4>2 DEF PhaseTrue
    <3>15. ASSUME NEW w \in Workers PROVE WorkTrue(w)'
      <4>1. WorkTrue(w)
        BY <3>1 DEF WorkersTrue
      <4>2. w = v => IsItem(x, w, Head(run.paths), n)
        <5>1. n \in 1 .. n /\ x.r = SegmentOf[Head(run.paths)][n]
          BY <3>5, <3>8 DEF Records
        <5> QED
          BY <3>8, <5>1 DEF IsItem
      <4>3. \A m \in DOMAIN work'[w] : IsItem(work'[w][m], w, Head(run.paths), n)
        BY <3>9, <3>10, <3>12, <4>2
      <4>4. \A i \in Scanned : i \in 1 .. n - 1
        BY <3>7 DEF Scanned
      <4>5. ASSUME NEW m \in DOMAIN work'[w], NEW l \in DOMAIN work'[w], m < l PROVE work'[w][m].i < work'[w][l].i
        <5>1. CASE l \in DOMAIN work[w] /\ work'[w][l] = work[w][l]
          <6>1. m \in DOMAIN work[w] /\ work'[w][m] = work[w][m]
            <7>1. m \in 1 .. Len(work[w]) /\ Len(work[w]) \in Nat
              BY <3>11, <4>5, <5>1
            <7> QED
              BY <3>11, <7>1
          <6>2. work[w][l].kind = "record"
            BY <3>9, <5>1 DEF IsItem
          <6> QED
            BY <4>1, <4>5, <5>1, <6>1, <6>2 DEF WorkTrue
        <5>2. CASE ~(l \in DOMAIN work[w] /\ work'[w][l] = work[w][l])
          <6>1. work'[w][l] = x /\ w = v
            BY <3>12, <5>2
          <6>2. l \notin DOMAIN work[w]
            BY <3>11, <5>2, <6>1
          <6>3. m \in DOMAIN work[w] /\ work'[w][m] = work[w][m]
            <7>1. m \in 1 .. Len(work[w]) + 1 /\ l \in 1 .. Len(work[w]) + 1 /\ Len(work[w]) \in Nat
              BY <3>11, <6>1
            <7>2. m \in 1 .. Len(work[w])
              BY <4>5, <7>1
            <7> QED
              BY <3>11, <6>1, <7>2
          <6>4. work[w][m].i \in 1 .. n - 1
            BY <3>9, <3>10, <6>3
          <6> QED
            BY <3>5, <3>8, <6>1, <6>3, <6>4
        <5> QED
          BY <5>1, <5>2
      <4>6. ASSUME NEW m \in DOMAIN work'[w], NEW i \in Scanned, WorkerOf(Records[i].flow) = w
            PROVE  i < work'[w][m].i
        <5>1. CASE m \in DOMAIN work[w] /\ work'[w][m] = work[w][m]
          <6>1. work[w][m].kind = "record"
            BY <3>9, <5>1 DEF IsItem
          <6> QED
            BY <4>1, <4>6, <5>1, <6>1 DEF WorkTrue
        <5>2. CASE work'[w][m] = x
          BY <3>5, <3>8, <4>4, <5>2
        <5> QED
          BY <3>12, <5>1, <5>2
      <4> QED
        BY <2>2, <3>7, <3>13, <4>3, <4>5, <4>6 DEF WorkTrue
    <3>16. WorkersTrue'
      BY <3>2, <3>15 DEF WorkersTrue
    <3>17. Paths' = Paths /\ Cuts' = Cuts /\ durable'[run'.job] = durable[run.job]
      BY <1>1, <2>2 DEF Paths, Cuts
    <3>18. TailsTrue'
      BY <1>1, <2>2, <3>1, <3>7, <3>13, <3>17 DEF TailsTrue
    <3>19. HitsSoFar' = HitsSoFar
      BY <2>2, <3>13, <3>17 DEF HitsSoFar
    <3>20. Total' = Total /\ InQueue' = InQueue
      BY <1>1, <2>2 DEF Total, InQueue
    <3>21. CountTrue' /\ SafeTrue'
      BY <1>1, <2>2, <3>1, <3>17, <3>19, <3>20 DEF CountTrue, SafeTrue, SentOf
    <3> QED
      BY <3>14, <3>16, <3>18, <3>21 DEF ScanTrue
  <2>11. run.pc # "none" /\ run'.pc # "none" /\ DOMAIN jobs' = DOMAIN jobs
    BY <1>1, <2>2
  <2>12. Active' /\ ~refused' => ScanTrue'
    BY <1>1, <2>10
  <2> QED
    BY <1>1, <2>2, <2>4, <2>5, <2>6, <2>9, <2>11, <2>12, FrameStep
<1> QED
  BY <1>1, <1>4, <1>5

(* Every worker gets the barrier behind the records of the segment.        *)
LEMMA SendBarriersStep ==
    ASSUME IInv, SendBarriers
    PROVE  IInv'
<1>1. /\ run.pc = "scan" /\ run.next > Len(Records) /\ acks' = {}
      /\ \/ Return("err") /\ UNCHANGED work
         \/ /\ Goto("workers") /\ work' = [w \in Workers |-> Append(work[w], Barrier)]
      /\ UNCHANGED <<jobs, resumed, durable, paused, present, sched, shutdown, metadata, sent,
                     hitq, collected, refused, dead, progress, last, tails>>
  BY DEF SendBarriers, table, env, collector
<1>2. /\ run.job \in DOMAIN jobs /\ TableTrue /\ SchedTrue /\ RunTrue /\ QueuesTrue /\ IsPaths(Paths)
  BY <1>1, Running
<1>3. DOMAIN work = Workers /\ acks' \subseteq Workers /\ \A w \in Workers : IsSequence(work[w])
  BY <1>1, <1>2 DEF QueuesTrue
<1>4. CASE Return("err") /\ UNCHANGED work
  BY <1>1, <1>3, <1>4, ErrStep
<1>5. CASE Goto("workers") /\ work' = [w \in Workers |-> Append(work[w], Barrier)]
  <2>1. NextRun(run) /\ collected \in Nat /\ run.result = "none"
    BY <1>1, <1>2 DEF RunTrue
  <2>2. /\ NextRun(run') /\ run'.pc = "workers" /\ run'.job = run.job /\ run'.paths = run.paths
        /\ run'.done = run.done /\ run'.found = run.found /\ run'.result = run.result /\ run'.next = run.next
    BY <1>5, <2>1, GotoForm DEF Goto, IsRun
  <2>3. SameJob
    BY <2>2 DEF SameJob, IsRun
  <2>4. TableTrue' /\ Grows
    BY <1>1, <1>2, TableSame
  <2>5. EnvTrue' /\ shutdown \in BOOLEAN
    BY <1>1, <1>2, EnvTypes DEF EnvTrue
  <2>6. RunTrue'
    BY <1>1, <1>2, <2>1, <2>2, <2>3, <2>4, <2>5, RunKept
  <2>7. DOMAIN work' = Workers /\ \A w \in Workers : work'[w] = Append(work[w], Barrier)
    BY <1>5
  <2>8. ASSUME NEW w \in Workers
        PROVE  /\ IsSequence(work'[w]) /\ Len(work[w]) \in Nat /\ Len(work'[w]) = Len(work[w]) + 1
               /\ DOMAIN work[w] = 1 .. Len(work[w]) /\ DOMAIN work'[w] = 1 .. Len(work[w]) + 1
               /\ \A m \in DOMAIN work[w] : work'[w][m] = work[w][m]
               /\ work'[w][Len(work[w]) + 1] = Barrier
    <3>1. IsSequence(work[w]) /\ work'[w] = Append(work[w], Barrier)
      BY <1>3, <2>7
    <3> QED
      BY <3>1, AppendToSequence
  <2>9. QueuesTrue'
    BY <1>1, <1>2, <2>2, <2>7, <2>8 DEF QueuesTrue
  <2>10. ASSUME ~refused PROVE ScanTrue'
    <3>1. PhaseTrue /\ WorkersTrue /\ TailsTrue /\ CountTrue /\ SafeTrue
      BY <1>1, <2>10 DEF IInv, Active, ScanTrue
    <3>2. Working /\ Working' /\ ~Whole /\ ~Whole'
      BY <1>1, <2>2 DEF Working, Whole
    <3>3. run.paths # <<>> /\ run.next \in 1 .. Len(Records) + 1
      BY <3>1, <3>2 DEF PhaseTrue
    <3>4. Len(Records) \in Nat
      BY <1>2, <3>3, RecordsForm
    <3>5. run.next = Len(Records) + 1
      BY <1>1, <3>3, <3>4
    <3>6. Dealt' = Dealt /\ Records' = Records
      BY <2>2, <3>2 DEF Dealt, Records
    <3>7. ASSUME NEW w \in Workers, NEW m \in DOMAIN work'[w]
          PROVE  \/ m \in DOMAIN work[w] /\ work'[w][m] = work[w][m] /\ m # Len(work'[w])
                 \/ m = Len(work'[w]) /\ work'[w][m] = Barrier
      <4>1. PICK l : l = Len(work[w])
        OBVIOUS
      <4>2. l \in Nat /\ m \in 1 .. l + 1 /\ DOMAIN work[w] = 1 .. l /\ Len(work'[w]) = l + 1
        BY <2>8, <4>1
      <4>3. (m \in 1 .. l /\ m # l + 1) \/ m = l + 1
        BY <4>2
      <4> QED
        BY <2>8, <4>1, <4>2, <4>3
    <3>8. Barrier.kind = "barrier" /\ Barrier.kind # "record"
      BY DEF Barrier
    <3>9. ASSUME NEW w \in Workers, NEW m \in DOMAIN work[w]
          PROVE  IsItem(work[w][m], w, Head(run.paths), Dealt) /\ work[w][m].kind = "record"
      <4>1. WorkTrue(w)
        BY <3>1 DEF WorkersTrue
      <4> QED
        BY <1>1, <4>1 DEF WorkTrue, IsItem
    <3>10. Waiting' = Waiting
      <4>1. ASSUME NEW i
            PROVE  (\E w \in Workers : \E m \in DOMAIN work[w] :
                        work[w][m].kind = "record" /\ work[w][m].i = i)
               <=> (\E w \in Workers : \E m \in DOMAIN work'[w] :
                        work'[w][m].kind = "record" /\ work'[w][m].i = i)
        <5>1. ASSUME NEW w \in Workers
              PROVE  (\E m \in DOMAIN work[w] : work[w][m].kind = "record" /\ work[w][m].i = i)
                 <=> (\E m \in DOMAIN work'[w] : work'[w][m].kind = "record" /\ work'[w][m].i = i)
          <6>1. \A m \in DOMAIN work[w] : m \in DOMAIN work'[w] /\ work'[w][m] = work[w][m]
            BY <2>8
          <6> QED
            BY <3>7, <3>8, <6>1
        <5> QED
          BY <5>1
      <4> QED
        BY <3>6, <4>1 DEF Waiting
    <3>11. Scanned' = Scanned
      BY <3>6, <3>10 DEF Scanned
    <3>12. PhaseTrue'
      BY <1>1, <2>2, <3>2, <3>3, <3>5, <3>6 DEF PhaseTrue
    <3>13. ASSUME NEW w \in Workers PROVE WorkTrue(w)'
      <4>1. WorkTrue(w)
        BY <3>1 DEF WorkersTrue
      <4>2. \A m \in DOMAIN work'[w] : \/ IsItem(work'[w][m], w, Head(run.paths), Dealt)
                                       \/ work'[w][m].kind = "barrier" /\ m = Len(work'[w])
        BY <3>7, <3>8, <3>9
      <4>3. ASSUME NEW m \in DOMAIN work'[w], NEW l \in DOMAIN work'[w], m < l, work'[w][l].kind = "record"
            PROVE  work'[w][m].i < work'[w][l].i
        <5>1. l \in DOMAIN work[w] /\ work'[w][l] = work[w][l]
          BY <3>7, <3>8, <4>3
        <5>2. m \in DOMAIN work[w]
          <6>1. PICK k : k = Len(work[w])
            OBVIOUS
          <6>2. k \in Nat /\ m \in 1 .. k + 1 /\ l \in 1 .. k /\ DOMAIN work[w] = 1 .. k
            BY <2>8, <5>1, <6>1
          <6> QED
            BY <4>3, <6>2
        <5>3. work'[w][m] = work[w][m]
          BY <2>8, <5>2
        <5> QED
          BY <3>9, <4>1, <4>3, <5>1, <5>2, <5>3 DEF WorkTrue
      <4>4. ASSUME NEW m \in DOMAIN work'[w], work'[w][m].kind = "record", NEW i \in Scanned,
                   WorkerOf(Records[i].flow) = w
            PROVE  i < work'[w][m].i
        <5>1. m \in DOMAIN work[w] /\ work'[w][m] = work[w][m]
          BY <3>7, <3>8, <4>4
        <5> QED
          BY <3>9, <4>1, <4>4, <5>1 DEF WorkTrue
      <4> QED
        BY <1>1, <2>2, <3>6, <3>11, <4>2, <4>3, <4>4 DEF WorkTrue
    <3>14. WorkersTrue'
      BY <3>2, <3>13 DEF WorkersTrue
    <3>15. Paths' = Paths /\ Cuts' = Cuts /\ durable'[run'.job] = durable[run.job]
      BY <1>1, <2>2 DEF Paths, Cuts
    <3>16. TailsTrue'
      BY <1>1, <2>2, <3>1, <3>6, <3>11, <3>15 DEF TailsTrue
    <3>17. HitsSoFar' = HitsSoFar
      BY <2>2, <3>11, <3>15 DEF HitsSoFar
    <3>18. Total' = Total /\ InQueue' = InQueue
      BY <1>1, <2>2 DEF Total, InQueue
    <3>19. CountTrue' /\ SafeTrue'
      BY <1>1, <2>2, <3>1, <3>15, <3>17, <3>18 DEF CountTrue, SafeTrue, SentOf
    <3> QED
      BY <3>12, <3>14, <3>16, <3>19 DEF ScanTrue
  <2>11. run.pc # "none" /\ run'.pc # "none" /\ DOMAIN jobs' = DOMAIN jobs
    BY <1>1, <2>2
  <2>12. Active' /\ ~refused' => ScanTrue'
    BY <1>1, <2>10
  <2> QED
    BY <1>1, <2>2, <2>4, <2>5, <2>6, <2>9, <2>11, <2>12, FrameStep
<1> QED
  BY <1>1, <1>4, <1>5

(* The workers have answered: their queues are empty, and the collector    *)
(* gets the barrier behind the hits.                                       *)
LEMMA AwaitWorkersStep ==
    ASSUME IInv, AwaitWorkers
    PROVE  IInv'
<1>1. /\ run.pc = "workers" /\ acks \cup dead = Workers
      /\ \/ Return("err") /\ UNCHANGED hitq
         \/ dead = {} /\ ~refused /\ Goto("collector") /\ hitq' = Append(hitq, Barrier)
      /\ UNCHANGED <<jobs, resumed, durable, paused, present, sched, shutdown, metadata, sent,
                     work, acks, collected, refused, dead, progress, last, tails>>
  BY DEF AwaitWorkers, table, env, pool
<1>2. /\ run.job \in DOMAIN jobs /\ TableTrue /\ SchedTrue /\ RunTrue /\ QueuesTrue /\ IsPaths(Paths)
  BY <1>1, Running
<1>3. /\ DOMAIN work = Workers /\ acks \subseteq Workers /\ \A w \in Workers : IsSequence(work[w])
      /\ IsSequence(hitq)
  BY <1>1, <1>2 DEF QueuesTrue
<1>4. CASE Return("err") /\ UNCHANGED hitq
  BY <1>1, <1>3, <1>4, ErrStep
<1>5. CASE dead = {} /\ ~refused /\ Goto("collector") /\ hitq' = Append(hitq, Barrier)
  <2>1. NextRun(run) /\ collected \in Nat /\ run.result = "none"
    BY <1>1, <1>2 DEF RunTrue
  <2>2. /\ NextRun(run') /\ run'.pc = "collector" /\ run'.job = run.job /\ run'.paths = run.paths
        /\ run'.done = run.done /\ run'.found = run.found /\ run'.result = run.result /\ run'.next = run.next
    BY <1>5, <2>1, GotoForm DEF Goto, IsRun
  <2>3. SameJob
    BY <2>2 DEF SameJob, IsRun
  <2>4. TableTrue' /\ Grows
    BY <1>1, <1>2, TableSame
  <2>5. EnvTrue' /\ shutdown \in BOOLEAN
    BY <1>1, <1>2, EnvTypes DEF EnvTrue
  <2>6. RunTrue'
    BY <1>1, <1>2, <2>1, <2>2, <2>3, <2>4, <2>5, RunKept
  <2>7. /\ IsSequence(hitq') /\ Len(hitq) \in Nat /\ Len(hitq') = Len(hitq) + 1
        /\ DOMAIN hitq = 1 .. Len(hitq) /\ DOMAIN hitq' = 1 .. Len(hitq) + 1
        /\ \A n \in DOMAIN hitq : hitq'[n] = hitq[n]
        /\ hitq'[Len(hitq) + 1] = Barrier
    <3>1. IsSequence(hitq) /\ hitq' = Append(hitq, Barrier)
      BY <1>3, <1>5
    <3> QED
      BY <3>1, AppendToSequence
  <2>8. \A n \in DOMAIN hitq' : (n \in DOMAIN hitq /\ n # Len(hitq')) \/ n = Len(hitq')
    <3>1. PICK l : l = Len(hitq)
      OBVIOUS
    <3>2. \A n \in 1 .. l + 1 : (n \in 1 .. l /\ n # l + 1) \/ n = l + 1
      BY <2>7, <3>1
    <3> QED
      BY <2>7, <3>1, <3>2
  <2>9. \A n \in DOMAIN hitq : hitq[n].kind = "hit" /\ n \in DOMAIN hitq'
    <3>1. \A n \in DOMAIN hitq : hitq[n].kind = "hit"
      BY <1>1, <1>2 DEF QueuesTrue
    <3> QED
      BY <2>7, <3>1
  <2>10. Barrier.kind = "barrier" /\ hitq'[Len(hitq')].kind = "barrier" /\ hitq' # <<>>
    <3>1. Len(hitq') # 0
      BY <2>7
    <3> QED
      BY <2>7, <3>1, EmptySequence DEF Barrier
  <2>11. QueuesTrue'
    <3>1. \A n \in DOMAIN hitq' : \/ hitq'[n].kind = "hit"
                                  \/ hitq'[n].kind = "barrier" /\ n = Len(hitq') /\ run'.pc = "collector"
      BY <2>2, <2>7, <2>8, <2>9, <2>10
    <3> QED
      BY <1>1, <1>2, <1>5, <2>2, <2>7, <2>10, <3>1 DEF QueuesTrue
  <2>12. ScanTrue'
    <3>1. PhaseTrue /\ WorkersTrue /\ TailsTrue /\ CountTrue /\ SafeTrue
      BY <1>1, <1>5 DEF IInv, Active, ScanTrue
    <3>2. Working /\ ~Working' /\ ~Whole /\ Whole'
      BY <1>1, <2>2 DEF Working, Whole
    <3>3. run.paths # <<>> /\ run.next = Len(Records) + 1
      BY <1>1, <3>1, <3>2 DEF PhaseTrue
    <3>4. Len(Records) \in Nat
      BY <1>2, <3>3, RecordsForm
    <3>5. Records' = Records /\ Dealt = Len(Records) /\ Dealt' = Len(Records)
      <4>1. Records' = Records
        BY <2>2 DEF Records
      <4>2. run.next - 1 = Len(Records)
        BY <3>3, <3>4
      <4> QED
        BY <3>2, <4>1, <4>2 DEF Dealt
    <3>6. \A w \in Workers : work[w] = <<>>
      BY <1>1, <1>5, <3>1 DEF PhaseTrue
    <3>7. \A w \in Workers : work'[w] = <<>> /\ DOMAIN work'[w] = {}
      BY <1>1, <3>6
    <3>8. Scanned' = Scanned
      BY <1>1, <3>5 DEF Scanned, Waiting
    <3>9. PhaseTrue'
      BY <2>2, <3>2, <3>3 DEF PhaseTrue
    <3>10. WorkersTrue'
      BY <3>7 DEF WorkersTrue, WorkTrue
    <3>11. Paths' = Paths /\ Cuts' = Cuts /\ durable'[run'.job] = durable[run.job]
      BY <1>1, <2>2 DEF Paths, Cuts
    <3>12. TailsTrue'
      BY <1>1, <2>2, <3>1, <3>5, <3>8, <3>11 DEF TailsTrue
    <3>13. HitsSoFar' = HitsSoFar
      BY <2>2, <3>8, <3>11 DEF HitsSoFar
    <3>14. Total' = Total
      <4>1. PICK l : l = Len(hitq)
        OBVIOUS
      <4>2. (l + 1) - 1 = l /\ Len(hitq') = l + 1
        BY <2>7, <4>1
      <4> QED
        BY <1>1, <2>2, <4>1, <4>2 DEF Total
    <3>15. InQueue' = InQueue
      BY <2>7, <2>8, <2>9, <2>10 DEF InQueue
    <3>16. CountTrue' /\ SafeTrue'
      BY <1>1, <2>2, <3>1, <3>11, <3>13, <3>14, <3>15 DEF CountTrue, SafeTrue, SentOf
    <3> QED
      BY <3>9, <3>10, <3>12, <3>16 DEF ScanTrue
  <2>13. run.pc # "none" /\ run'.pc # "none" /\ DOMAIN jobs' = DOMAIN jobs
    BY <1>1, <2>2
  <2> QED
    BY <1>1, <2>2, <2>4, <2>5, <2>6, <2>11, <2>12, <2>13, FrameStep
<1> QED
  BY <1>1, <1>4, <1>5

(* The collector comes to the barrier: it is the last in its queue.        *)
LEMMA CollectBarrierStep ==
    ASSUME IInv, CollectBarrier
    PROVE  IInv'
<1>1. /\ hitq # <<>> /\ Head(hitq).kind = "barrier" /\ hitq' = Tail(hitq)
      /\ run' = [pc |-> "barrier", job |-> run.job, paths |-> run.paths, done |-> run.done,
                 found |-> run.found, result |-> "none", so_far |-> collected]
      /\ UNCHANGED <<jobs, resumed, durable, paused, present, sched, shutdown, metadata, sent,
                     work, acks, collected, refused, dead, progress, last, tails>>
  BY DEF CollectBarrier, table, env, pool
<1>2. run.pc # "none"
  BY <1>1, Still
<1>3. /\ run.job \in DOMAIN jobs /\ TableTrue /\ SchedTrue /\ RunTrue /\ QueuesTrue /\ IsPaths(Paths)
  BY <1>2, Running
<1>4. /\ IsSequence(Tail(hitq)) /\ Len(hitq) \in Nat \ {0} /\ DOMAIN hitq = 1 .. Len(hitq)
      /\ Head(hitq) = hitq[1] /\ Len(Tail(hitq)) = Len(hitq) - 1
  <2>1. IsSequence(hitq)
    BY <1>3 DEF QueuesTrue
  <2> QED
    BY <1>1, <2>1, TailOfSequence
<1>5. Len(hitq) = 1 /\ run.pc = "collector" /\ hitq[1].kind = "barrier" /\ ~refused
  <2>1. 1 \in DOMAIN hitq
    BY <1>4
  <2>2. hitq[1].kind # "hit"
    BY <1>1, <1>4
  <2> QED
    BY <1>1, <1>3, <1>4, <2>1, <2>2 DEF QueuesTrue
<1>6. hitq' = <<>>
  <2>1. Len(hitq') = 0 /\ IsSequence(hitq')
    BY <1>1, <1>4, <1>5
  <2> QED
    BY <2>1, TailOfSequence
<1>7. /\ FarRun(run') /\ run'.pc = "barrier" /\ run'.job = run.job /\ run'.paths = run.paths
      /\ run'.done = run.done /\ run'.found = run.found /\ run'.result = "none" /\ run'.so_far = collected
  BY <1>1 DEF FarRun, RunFields
<1>8. SameJob /\ collected \in Nat /\ run.result = "none"
  BY <1>3, <1>5, <1>7 DEF SameJob, IsRun, RunTrue
<1>9. TableTrue' /\ Grows
  BY <1>1, <1>3, TableSame
<1>10. EnvTrue' /\ shutdown \in BOOLEAN
  BY <1>1, <1>3, EnvTypes DEF EnvTrue
<1>11. RunTrue'
  BY <1>1, <1>3, <1>7, <1>8, <1>9, <1>10, RunKept
<1>12. QueuesTrue'
  BY <1>1, <1>3, <1>5, <1>6, <1>7, EmptySequence DEF QueuesTrue
<1>13. ScanTrue'
  <2>1. PhaseTrue /\ WorkersTrue /\ TailsTrue /\ CountTrue /\ SafeTrue
    BY <1>5 DEF IInv, Active, ScanTrue
  <2>2. ~Working /\ ~Working' /\ Whole /\ Whole'
    BY <1>5, <1>7 DEF Working, Whole
  <2>3. Records' = Records /\ run.paths # <<>>
    BY <1>7, <2>1, <2>2 DEF Records, PhaseTrue
  <2>4. Dealt' = Dealt
    BY <2>2, <2>3 DEF Dealt
  <2>5. Scanned' = Scanned
    BY <1>1, <2>4 DEF Scanned, Waiting
  <2>6. PhaseTrue'
    BY <1>1, <1>7, <2>2, <2>3 DEF PhaseTrue
  <2>7. WorkersTrue'
    <3>1. \A w \in Workers : work'[w] = <<>> /\ DOMAIN work'[w] = {}
      BY <1>1, <2>1, <2>2 DEF WorkersTrue
    <3> QED
      BY <3>1 DEF WorkersTrue, WorkTrue
  <2>8. Paths' = Paths /\ Cuts' = Cuts /\ durable'[run'.job] = durable[run.job]
    BY <1>1, <1>7 DEF Paths, Cuts
  <2>9. TailsTrue'
    BY <1>1, <1>7, <2>1, <2>3, <2>5, <2>8 DEF TailsTrue
  <2>10. HitsSoFar' = HitsSoFar
    BY <1>7, <2>5, <2>8 DEF HitsSoFar
  <2>11. Total' = Total
    <3>1. Len(hitq') = 0 /\ Len(hitq) - 1 = 0
      BY <1>5, <1>6, EmptySequence
    <3> QED
      BY <1>1, <1>5, <1>7, <3>1 DEF Total
  <2>12. InQueue' = InQueue
    <3>1. \A n \in DOMAIN hitq : n = 1
      BY <1>4, <1>5
    <3>2. \A n \in DOMAIN hitq : hitq[n].kind # "hit"
      BY <1>5, <3>1
    <3> QED
      BY <1>6, <3>2, EmptySequence DEF InQueue
  <2>13. CountTrue' /\ SafeTrue'
    BY <1>1, <1>7, <2>1, <2>8, <2>10, <2>11, <2>12 DEF CountTrue, SafeTrue, SentOf
  <2> QED
    BY <2>6, <2>7, <2>9, <2>13 DEF ScanTrue
<1>14. run'.pc # "none" /\ DOMAIN jobs' = DOMAIN jobs
  BY <1>1, <1>7
<1> QED
  BY <1>1, <1>2, <1>7, <1>9, <1>10, <1>11, <1>12, <1>13, <1>14, FrameStep

(* The flows of one more segment.                                          *)
LEMMA FlowsWhole ==
    ASSUME NEW paths, IsPaths(paths), NEW n \in 0 .. Len(paths) - 1,
           NEW cuts, \A c \in cuts : c \in Nat /\ c <= n
    PROVE  LET R == SegmentOf[paths[n + 1]] IN
           FlowsBefore(paths, cuts, n + 1) = FlowsBefore(paths, cuts, n) \cup {R[i].flow : i \in DOMAIN R}
<1> DEFINE R == SegmentOf[paths[n + 1]]
<1>0. Len(paths) \in Nat /\ n \in Nat
  BY DEF IsPaths
<1>1. ASSUME NEW y PROVE y \in Pos(paths, n + 1) <=> y \in Pos(paths, n) \/ \E i \in DOMAIN R : y = <<n + 1, i>>
  <2>1. \A k : k \in 1 .. n + 1 <=> k \in 1 .. n \/ k = n + 1
    BY <1>0
  <2> QED
    BY <2>1, PosForm
<1>2. \A i : <<n + 1, i>>[1] = n + 1 /\ At(paths, <<n + 1, i>>) = R[i]
  BY DEF At
<1>3. \A c \in cuts : c < n + 1
  BY <1>0
<1>4. \A i \in DOMAIN R : <<n + 1, i>> \in Pos(paths, n + 1) /\ \A c \in cuts : c < <<n + 1, i>>[1]
  BY <1>1, <1>2, <1>3
<1> HIDE DEF R
<1>5. ASSUME NEW f \in FlowsBefore(paths, cuts, n + 1)
      PROVE  f \in FlowsBefore(paths, cuts, n) \cup {R[i].flow : i \in DOMAIN R}
  <2>1. PICK y \in Pos(paths, n + 1) : (\A c \in cuts : c < y[1]) /\ f = At(paths, y).flow
    BY DEF FlowsBefore
  <2>2. CASE y \in Pos(paths, n)
    BY <2>1, <2>2 DEF FlowsBefore
  <2>3. CASE \E i \in DOMAIN R : y = <<n + 1, i>>
    BY <1>2, <2>1, <2>3
  <2> QED
    BY <1>1, <2>1, <2>2, <2>3
<1>6. ASSUME NEW f \in FlowsBefore(paths, cuts, n) PROVE f \in FlowsBefore(paths, cuts, n + 1)
  BY <1>1 DEF FlowsBefore
<1>7. ASSUME NEW i \in DOMAIN R PROVE R[i].flow \in FlowsBefore(paths, cuts, n + 1)
  <2>1. PICK y : y = <<n + 1, i>>
    OBVIOUS
  <2>2. y \in Pos(paths, n + 1) /\ (\A c \in cuts : c < y[1]) /\ R[i].flow = At(paths, y).flow
    BY <1>2, <1>4, <2>1
  <2> QED
    BY <2>2 DEF FlowsBefore
<1>8. FlowsBefore(paths, cuts, n + 1) = FlowsBefore(paths, cuts, n) \cup {R[i].flow : i \in DOMAIN R}
  BY <1>5, <1>6, <1>7
<1> QED
  BY <1>8 DEF R

(* Behind the barriers nothing waits: the hits of the segment are counted, *)
(* and with the metadata writer or durable.                                *)
LEMMA AllFound ==
    ASSUME IInv, run.pc = "barrier"
    PROVE  /\ ~refused /\ hitq = <<>> /\ run.paths # <<>> /\ FarRun(run) /\ run.so_far = collected
           /\ \A w \in Workers : work[w] = <<>>
           /\ Scanned = DOMAIN Records /\ HitsSoFar = HitsOf(Paths, Cuts, run.done + 1)
           /\ tails = FlowsBefore(Paths, Cuts, run.done + 1)
           /\ Total = run.found + collected
           /\ run.found + collected >= Cardinality(HitsSoFar)
           /\ ~paused => run.found + collected = Cardinality(HitsSoFar)
           /\ metadata => HitsSoFar \subseteq durable[run.job] \cup SentOf(run.job)
<1>1. RunTrue /\ QueuesTrue /\ IsPaths(Paths)
  BY Running
<1>2. ~refused /\ hitq = <<>>
  BY <1>1 DEF QueuesTrue
<1>3. PhaseTrue /\ WorkersTrue /\ TailsTrue /\ CountTrue /\ SafeTrue
  BY <1>2 DEF IInv, Active, ScanTrue
<1>4. ~Working /\ Whole
  BY DEF Working, Whole
<1>5. run.paths # <<>> /\ FarRun(run) /\ run.so_far = collected /\ \A w \in Workers : work[w] = <<>>
  BY <1>3, <1>4 DEF PhaseTrue, WorkersTrue
<1>6. /\ Records = SegmentOf[Paths[run.done + 1]] /\ DOMAIN Records = 1 .. Len(Records)
  BY <1>1, <1>5, RecordsForm
<1>7. Scanned = DOMAIN Records
  <2>1. Dealt = Len(Records)
    BY <1>4 DEF Dealt
  <2>2. Waiting = {}
    BY <1>5 DEF Waiting
  <2> QED
    BY <1>6, <2>1, <2>2 DEF Scanned
<1>8. run.done \in 0 .. Len(Paths) - 1
  BY <1>1, <1>5, NextPath
<1>9. HitsSoFar = HitsOf(Paths, Cuts, run.done + 1)
  <2>1. Got(Paths, Cuts, run.done, DOMAIN Records) = HitsOf(Paths, Cuts, run.done + 1)
    BY <1>1, <1>6, <1>8, GotWhole
  <2> QED
    BY <1>7, <2>1 DEF HitsSoFar
<1>10. tails = FlowsBefore(Paths, Cuts, run.done + 1)
  <2>1. \A c \in Cuts : c \in Nat /\ c <= run.done
    BY <1>1 DEF RunTrue, RowTrue
  <2>2. FlowsBefore(Paths, Cuts, run.done + 1)
           = FlowsBefore(Paths, Cuts, run.done) \cup {Records[i].flow : i \in DOMAIN Records}
    <3> DEFINE R == SegmentOf[Paths[run.done + 1]]
    <3>1. FlowsBefore(Paths, Cuts, run.done + 1)
             = FlowsBefore(Paths, Cuts, run.done) \cup {R[i].flow : i \in DOMAIN R}
      BY <1>1, <1>8, <2>1, FlowsWhole
    <3> QED
      BY <1>6, <3>1
  <2> QED
    BY <1>3, <1>7, <2>2 DEF TailsTrue
<1>11. Total = run.found + collected
  <2>1. run.found + collected + 0 = run.found + collected
    BY <1>1 DEF RunTrue
  <2> QED
    BY <1>2, <2>1, EmptySequence DEF Total
<1>12. InQueue = {}
  BY <1>2, EmptySequence DEF InQueue
<1> QED
  BY <1>2, <1>3, <1>5, <1>7, <1>9, <1>10, <1>11, <1>12 DEF CountTrue, SafeTrue

(* A report stays true while more becomes durable.                         *)
LEMMA ReportKept ==
    ASSUME TableTrue, Grows, run.job \in DOMAIN jobs, run'.job = run.job, NEW p, ReportTrue(p)
    PROVE  RowTrue(Paths, Cuts, durable'[run.job], ~paused', p.done, p.found)
<1>1. durable[run.job] \subseteq durable'[run.job] /\ (~paused' => ~paused)
  BY DEF TableTrue, Grows
<1>2. RowTrue(Paths, Cuts, durable[run.job], ~paused, p.done, p.found)
  BY DEF ReportTrue
<1> QED
  BY <1>1, <1>2, RowKept

(* A report is added.                                                      *)
LEMMA ReportAdded ==
    ASSUME TableTrue, RunTrue, Grows, run.job \in DOMAIN jobs, run'.job = run.job,
           Paths' = Paths, Cuts' = Cuts, last' = last,
           NEW done, NEW found, Report(done, found),
           RowTrue(Paths, Cuts, durable'[run.job], ~paused', done, found)
    PROVE  /\ IsSequence(progress') /\ \A i \in DOMAIN progress' : ReportTrue(progress[i])'
           /\ ReportTrue(last)' /\ Final'.done = done
<1> DEFINE x == [done |-> done, found |-> found]
<1>1. IsSequence(progress) /\ progress' = Append(progress, x)
  BY DEF RunTrue, Report
<1>2. x.done = done /\ x.found = found
  OBVIOUS
<1> HIDE DEF x
<1>3. /\ IsSequence(progress') /\ Len(progress) \in Nat /\ Len(progress') = Len(progress) + 1
      /\ DOMAIN progress = 1 .. Len(progress) /\ DOMAIN progress' = 1 .. Len(progress) + 1
      /\ \A i \in DOMAIN progress : progress'[i] = progress[i]
      /\ progress'[Len(progress) + 1] = x
  BY <1>1, AppendToSequence
<1>4. ASSUME NEW i \in DOMAIN progress' PROVE ReportTrue(progress[i])'
  <2>1. PICK n : n = Len(progress)
    OBVIOUS
  <2>2. i \in 1 .. n \/ i = n + 1
    BY <1>3, <2>1
  <2>3. CASE i \in 1 .. n
    <3>1. progress'[i] = progress[i] /\ ReportTrue(progress[i])
      BY <1>3, <2>1, <2>3 DEF RunTrue
    <3>2. RowTrue(Paths, Cuts, durable'[run.job], ~paused', progress[i].done, progress[i].found)
      BY <3>1, ReportKept
    <3> QED
      BY <3>1, <3>2 DEF ReportTrue
  <2>4. CASE i = n + 1
    <3>1. progress'[i] = x
      BY <1>3, <2>1, <2>4
    <3> QED
      BY <1>2, <3>1 DEF ReportTrue
  <2> QED
    BY <2>2, <2>3, <2>4
<1>5. ReportTrue(last)'
  <2>1. ReportTrue(last)
    BY DEF RunTrue
  <2>2. RowTrue(Paths, Cuts, durable'[run.job], ~paused', last.done, last.found)
    BY <2>1, ReportKept
  <2> QED
    BY <2>2 DEF ReportTrue
<1>6. Final' = x
  <2>1. Len(progress') # 0 /\ progress'[Len(progress')] = x
    BY <1>3
  <2>2. progress' # <<>>
    BY <2>1, EmptySequence
  <2> QED
    BY <2>1, <2>2 DEF Final
<1> QED
  BY <1>2, <1>3, <1>4, <1>5, <1>6

(* The segment counts as done once its hits are durable.                   *)
LEMMA CheckpointStep ==
    ASSUME IInv, Checkpoint
    PROVE  IInv'
<1> DEFINE d == run.done
           t == run.found + collected
           D == durable'[run.job]
<1>1. /\ run.pc = "barrier"
      /\ \/ Return("err") /\ UNCHANGED <<durable, sent, progress>>
         \/ /\ metadata /\ Synced
            /\ run' = [pc |-> "segment", job |-> run.job, paths |-> Tail(run.paths),
                       done |-> run.done + 1, found |-> run.found, result |-> "none"]
            /\ Report(run.done + 1, run.found + run.so_far)
      /\ UNCHANGED <<jobs, resumed, paused, present, sched, shutdown, metadata,
                     work, acks, dead, tails, hitq, collected, refused, last>>
  BY DEF Checkpoint, table, env, pool, collector
<1>2. /\ run.job \in DOMAIN jobs /\ TableTrue /\ SchedTrue /\ RunTrue /\ QueuesTrue /\ IsPaths(Paths)
  BY <1>1, Running
<1>3. DOMAIN work = Workers /\ acks \subseteq Workers /\ \A w \in Workers : IsSequence(work[w])
  BY <1>2 DEF QueuesTrue
<1>4. CASE Return("err") /\ UNCHANGED <<durable, sent, progress>>
  BY <1>1, <1>3, <1>4, ErrStep
<1>5. CASE /\ metadata /\ Synced
           /\ run' = [pc |-> "segment", job |-> run.job, paths |-> Tail(run.paths),
                      done |-> run.done + 1, found |-> run.found, result |-> "none"]
           /\ Report(run.done + 1, run.found + run.so_far)
  <2>1. /\ ~refused /\ hitq = <<>> /\ run.paths # <<>> /\ run.so_far = collected
        /\ (\A w \in Workers : work[w] = <<>>) /\ HitsSoFar = HitsOf(Paths, Cuts, d + 1)
        /\ tails = FlowsBefore(Paths, Cuts, d + 1)
        /\ Total = t /\ t >= Cardinality(HitsSoFar)
        /\ ~paused => t = Cardinality(HitsSoFar)
        /\ HitsSoFar \subseteq durable[run.job] \cup SentOf(run.job)
    BY <1>1, <1>5, AllFound
  <2>2. /\ PlainRun(run') /\ run'.pc = "segment" /\ run'.job = run.job /\ run'.paths = Tail(run.paths)
        /\ run'.done = d + 1 /\ run'.found = run.found /\ run'.result = "none"
    BY <1>5 DEF PlainRun, RunFields
  <2>3. /\ d \in 0 .. Len(Paths) - 1 /\ d \in Nat
        /\ Tail(run.paths) \in Seq(Segments) /\ Len(Tail(run.paths)) = Len(Paths) - (d + 1)
        /\ \A i \in DOMAIN Tail(run.paths) : Tail(run.paths)[i] = Paths[d + 1 + i]
    BY <1>2, <2>1, NextPath
  <2>4. Grows /\ D = durable[run.job] \cup SentOf(run.job)
    <3>1. durable' = Flushed
      BY <1>5 DEF Synced
    <3> QED
      BY <1>1, <1>2, <3>1, FlushGrows
  <2>5. TableTrue'
    BY <1>2, <2>4, TableGrows
  <2>6. Paths' = Paths /\ Cuts' = Cuts
    BY <1>1, <2>2 DEF Paths, Cuts
  <2>7. RowTrue(Paths, Cuts, D, ~paused, d + 1, t)
    <3>1. d + 1 \in 0 .. Len(Paths) /\ t \in Nat
      <4>1. Len(Paths) \in Nat
        BY <1>2 DEF IsPaths
      <4>2. run.found \in Nat /\ collected \in Nat
        BY <1>2 DEF RunTrue
      <4> QED
        BY <2>3, <4>1, <4>2
    <3>2. \A c \in Cuts : c \in Nat /\ c <= d + 1
      <4>1. \A c \in Cuts : c \in Nat /\ c <= d
        BY <1>2 DEF RunTrue, RowTrue
      <4> QED
        BY <2>3, <4>1
    <3> HIDE DEF d, t, D
    <3> QED
      BY <2>1, <2>4, <3>1, <3>2 DEF RowTrue
  <2>8. /\ IsSequence(progress') /\ \A i \in DOMAIN progress' : ReportTrue(progress[i])'
        /\ ReportTrue(last)'
    <3>1. Report(d + 1, t) /\ paused' = paused /\ last' = last
      BY <1>1, <1>5, <2>1
    <3> HIDE DEF d, t, D
    <3>2. RowTrue(Paths, Cuts, durable'[run.job], ~paused', d + 1, t)
      BY <2>7, <3>1 DEF D
    <3> QED
      BY <1>2, <2>2, <2>4, <2>6, <3>1, <3>2, ReportAdded
  <2>9. RunTrue'
    <3>1. RowTrue(Paths, Cuts, D, FALSE, d + 1, t)
      BY <2>7, RowKept
    <3>2. RowTrue(Paths', Cuts', durable'[run'.job], FALSE, run'.done, run'.found + collected')
      BY <1>1, <2>2, <2>6, <3>1
    <3>3. /\ run'.found \in Nat /\ collected' \in Nat
          /\ run'.paths \in Seq(Segments) /\ Len(run'.paths) = Len(Paths') - run'.done
          /\ \A i \in DOMAIN run'.paths : run'.paths[i] = Paths'[run'.done + i]
      BY <1>1, <1>2, <2>2, <2>3, <2>6 DEF RunTrue
    <3> QED
      BY <2>2, <2>8, <3>2, <3>3 DEF RunTrue
  <2>10. QueuesTrue'
    BY <1>1, <1>2, <2>1, <2>2 DEF QueuesTrue
  <2>11. EnvTrue'
    BY <1>1, <1>2, <1>5, EnvTypes DEF EnvTrue, Synced
  <2>12. ScanTrue'
    <3>1. ~Working' /\ ~Whole' /\ Dealt' = 0
      BY <2>2 DEF Working, Whole, Dealt
    <3>2. Scanned' = {}
      BY <3>1 DEF Scanned
    <3>3. HitsSoFar' = HitsSoFar
      BY <2>1, <2>2, <2>6, <3>2, GotNone DEF HitsSoFar
    <3>4. PhaseTrue'
      BY <2>2, <3>1 DEF PhaseTrue
    <3>5. WorkersTrue'
      <4>1. \A w \in Workers : work'[w] = <<>> /\ DOMAIN work'[w] = {}
        BY <1>1, <2>1
      <4> QED
        BY <4>1 DEF WorkersTrue, WorkTrue
    <3>6. TailsTrue'
      BY <1>1, <2>1, <2>2, <2>6, <3>2 DEF TailsTrue
    <3>7. Total' = t
      <4>1. t + 0 = t
        BY <1>2 DEF RunTrue
      <4> QED
        BY <1>1, <2>1, <2>2, <4>1, EmptySequence DEF Total
    <3>8. CountTrue'
      BY <1>1, <2>1, <3>3, <3>7 DEF CountTrue
    <3>9. SafeTrue'
      BY <2>1, <2>2, <2>4, <3>3 DEF SafeTrue
    <3> QED
      BY <3>4, <3>5, <3>6, <3>8, <3>9 DEF ScanTrue
  <2>13. run.pc # "none" /\ run'.pc # "none" /\ DOMAIN jobs' = DOMAIN jobs
    BY <1>1, <2>2
  <2> QED
    BY <1>1, <2>2, <2>5, <2>9, <2>10, <2>11, <2>12, <2>13, FrameStep
<1> QED
  BY <1>1, <1>4, <1>5

(* The end of the scan: what it reports is true, and exact if no shutdown  *)
(* came in between.                                                        *)
LEMMA JoinStep ==
    ASSUME IInv, Join
    PROVE  IInv'
<1> DEFINE d == run.done
           t == run.found + collected
           D == durable'[run.job]
<1>1. /\ run.pc = "join" /\ hitq = <<>>
      /\ \/ Return("err") /\ UNCHANGED <<durable, sent, progress>>
         \/ /\ Return("ok") /\ Report(run.done, run.found + collected)
            /\ UNCHANGED <<durable, sent>> \/ Synced
      /\ UNCHANGED <<jobs, resumed, paused, present, sched, shutdown, metadata,
                     work, acks, dead, tails, hitq, collected, refused, last>>
  BY DEF Join, table, env, pool, collector
<1>2. /\ run.job \in DOMAIN jobs /\ TableTrue /\ SchedTrue /\ RunTrue /\ QueuesTrue /\ IsPaths(Paths)
  BY <1>1, Running
<1>3. DOMAIN work = Workers /\ acks \subseteq Workers /\ \A w \in Workers : IsSequence(work[w])
  BY <1>2 DEF QueuesTrue
<1>4. CASE Return("err") /\ UNCHANGED <<durable, sent, progress>>
  BY <1>1, <1>3, <1>4, ErrStep
<1>5. CASE /\ Return("ok") /\ Report(run.done, run.found + collected)
           /\ UNCHANGED <<durable, sent>> \/ Synced
  <2>1. IsRun(run) /\ run.found \in Nat /\ collected \in Nat /\ t \in Nat
    BY <1>2 DEF RunTrue, IsRun
  <2>2. /\ IsRun(run') /\ run'.pc = "returned" /\ run'.job = run.job /\ run'.paths = run.paths
        /\ run'.done = d /\ run'.found = run.found /\ run'.result = "ok"
    <3> DEFINE g == [run EXCEPT !.pc = "returned", !.result = "ok"]
    <3>1. /\ IsRun(g) /\ g.pc = "returned" /\ g.job = run.job /\ g.paths = run.paths
          /\ g.done = run.done /\ g.found = run.found /\ g.result = "ok"
      BY <2>1, ReturnForm
    <3>2. run' = g
      BY <1>5 DEF Return
    <3> HIDE DEF g
    <3> QED
      BY <3>1, <3>2
  <2>3. Grows
    <3>1. CASE UNCHANGED <<durable, sent>>
      BY <1>1, <1>2, <3>1, TableSame
    <3>2. CASE Synced
      <4>1. durable' = Flushed
        BY <3>2 DEF Synced
      <4> QED
        BY <1>1, <1>2, <4>1, FlushGrows
    <3> QED
      BY <1>5, <3>1, <3>2
  <2>4. TableTrue'
    BY <1>2, <2>3, TableGrows
  <2>5. Paths' = Paths /\ Cuts' = Cuts /\ durable[run.job] \subseteq D
    BY <1>1, <1>2, <2>2, <2>3 DEF Paths, Cuts, Grows, TableTrue
  <2>6. RowTrue(Paths, Cuts, durable[run.job], FALSE, d, t)
    BY <1>2 DEF RunTrue
  <2>7. ASSUME ~paused PROVE t = Cardinality(HitsOf(Paths, Cuts, d))
    <3>1. ~shutdown
      BY <1>2, <2>7 DEF SchedTrue
    <3>2. ~refused
      BY <1>1, <1>2, <3>1 DEF QueuesTrue
    <3>3. CountTrue
      BY <1>1, <3>1, <3>2 DEF IInv, Active, ScanTrue
    <3>4. Dealt = 0
      BY <1>1 DEF Dealt, Working, Whole
    <3>5. Scanned = {}
      BY <3>4 DEF Scanned
    <3>6. HitsSoFar = HitsOf(Paths, Cuts, d)
      BY <3>5, GotNone DEF HitsSoFar
    <3>7. Total = t
      <4>1. t + 0 = t
        BY <2>1
      <4> QED
        BY <1>1, <4>1, EmptySequence DEF Total
    <3> QED
      BY <2>7, <3>3, <3>6, <3>7 DEF CountTrue
  <2>8. RowTrue(Paths, Cuts, D, ~paused, d, t)
    BY <2>5, <2>6, <2>7 DEF RowTrue
  <2>9. /\ IsSequence(progress') /\ \A i \in DOMAIN progress' : ReportTrue(progress[i])'
        /\ ReportTrue(last)' /\ Final'.done = d
    <3>1. Report(d, t) /\ paused' = paused /\ last' = last
      BY <1>1, <1>5
    <3> HIDE DEF d, t, D
    <3>2. RowTrue(Paths, Cuts, durable'[run.job], ~paused', d, t)
      BY <2>8, <3>1 DEF D
    <3> QED
      BY <1>2, <2>2, <2>3, <2>5, <3>1, <3>2, ReportAdded
  <2>10. RunTrue'
    <3>1. RowTrue(Paths, Cuts, D, FALSE, d, t)
      BY <2>8, RowKept
    <3>2. RowTrue(Paths', Cuts', durable'[run'.job], FALSE, run'.done, run'.found + collected')
      BY <1>1, <2>2, <2>5, <3>1
    <3>3. /\ run'.found \in Nat /\ collected' \in Nat
          /\ run'.paths \in Seq(Segments) /\ Len(run'.paths) = Len(Paths') - run'.done
          /\ \A i \in DOMAIN run'.paths : run'.paths[i] = Paths'[run'.done + i]
      BY <1>1, <1>2, <2>2, <2>5 DEF RunTrue
    <3>4. ~shutdown' => Final'.done = Len(Paths')
      <4> SUFFICES ASSUME ~shutdown PROVE d = Len(Paths)
        BY <1>1, <2>5, <2>9
      <4>1. run.paths = <<>> /\ Len(run.paths) = Len(Paths) - d
        BY <1>1, <1>2 DEF RunTrue
      <4>2. Len(Paths) \in Nat /\ d \in 0 .. Len(Paths)
        BY <1>2, <2>6 DEF IsPaths, RowTrue
      <4>3. PICK n : n = Len(Paths)
        OBVIOUS
      <4>4. 0 = n - d /\ n \in Nat /\ d \in 0 .. n
        BY <4>1, <4>2, <4>3, EmptySequence
      <4> QED
        BY <4>3, <4>4
    <3> QED
      BY <2>2, <2>9, <3>2, <3>3, <3>4 DEF RunTrue, IsRun
  <2>11. QueuesTrue'
    BY <1>1, <1>2, <2>2 DEF QueuesTrue
  <2>12. EnvTrue'
    BY <1>1, <1>2, <1>5, EnvTypes DEF EnvTrue, Synced
  <2>13. run.pc # "none" /\ run'.pc # "none" /\ DOMAIN jobs' = DOMAIN jobs /\ ~Active'
    BY <1>1, <2>2 DEF Active
  <2> QED
    BY <1>1, <2>2, <2>4, <2>10, <2>11, <2>12, <2>13, FrameStep
<1> QED
  BY <1>1, <1>4, <1>5

-----------------------------------------------------------------------------
(* Match workers and collector.                                            *)

(* The collector counts a hit and hands it on, or stops.                   *)
LEMMA CollectHitStep ==
    ASSUME IInv, CollectHit
    PROVE  IInv'
<1> DEFINE h == Head(hitq).hit
<1>1. /\ hitq # <<>> /\ Head(hitq).kind = "hit" /\ collected' = collected + 1
      /\ \/ /\ metadata /\ hitq' = Tail(hitq) /\ refused' = refused
            /\ sent' = sent \cup {[job |-> run.job, hit |-> h]}
         \/ ~metadata /\ hitq' = <<>> /\ refused' = TRUE /\ sent' = sent
      /\ UNCHANGED <<jobs, resumed, durable, paused, present, sched, shutdown, metadata,
                     run, work, acks, dead, tails, progress, last>>
  BY DEF CollectHit, table, env, pool
<1>2. run.pc # "none"
  BY <1>1, Still
<1>3. /\ run.job \in DOMAIN jobs /\ TableTrue /\ SchedTrue /\ RunTrue /\ QueuesTrue /\ IsPaths(Paths)
  BY <1>2, Running
<1>4. /\ IsSequence(Tail(hitq)) /\ Len(hitq) \in Nat \ {0} /\ DOMAIN hitq = 1 .. Len(hitq)
      /\ Head(hitq) = hitq[1] /\ Len(Tail(hitq)) = Len(hitq) - 1 /\ DOMAIN Tail(hitq) = 1 .. Len(hitq) - 1
      /\ \A i \in DOMAIN Tail(hitq) : i + 1 \in DOMAIN hitq /\ Tail(hitq)[i] = hitq[i + 1]
  <2>1. IsSequence(hitq)
    BY <1>3 DEF QueuesTrue
  <2> QED
    BY <1>1, <2>1, TailOfSequence
<1>5. ~refused /\ run.pc \notin {"segment", "barrier"} /\ ~(run.pc = "join" /\ ~shutdown)
  BY <1>1, <1>3 DEF QueuesTrue
<1>6. collected \in Nat /\ collected' \in Nat /\ collected' >= collected
  BY <1>1, <1>3 DEF RunTrue
<1>7. SameJob
  BY <1>1, <1>3 DEF SameJob, RunTrue, IsRun
<1>8. TableTrue' /\ Grows
  BY <1>1, <1>3, TableSame
<1>9. EnvTrue
  BY <1>3, EnvTypes
<1>10. EnvTrue'
  BY <1>1, <1>9 DEF EnvTrue
<1>11. RunTrue'
  <2>1. /\ run.pc \in {"segment", "scan", "workers", "collector", "barrier", "join", "returned"}
        /\ (run.pc \in {"scan", "workers", "collector"} => NextRun(run))
        /\ (run.pc # "returned" => run.result = "none") /\ (run.pc = "join" /\ ~shutdown => run.paths = <<>>)
    BY <1>3 DEF RunTrue
  <2>2. shutdown \in BOOLEAN /\ shutdown' \in BOOLEAN
    BY <1>9, <1>10 DEF EnvTrue
  <2> QED
    BY <1>1, <1>3, <1>6, <1>7, <1>8, <2>1, <2>2, RunKept
<1>12. run'.pc # "none" /\ run'.job = run.job /\ DOMAIN jobs' = DOMAIN jobs
  BY <1>1, <1>2
<1>13. CASE ~metadata /\ hitq' = <<>> /\ refused' = TRUE /\ sent' = sent
  <2>1. QueuesTrue'
    BY <1>1, <1>3, <1>5, <1>13, EmptySequence DEF QueuesTrue
  <2> QED
    BY <1>1, <1>2, <1>8, <1>10, <1>11, <1>12, <1>13, <2>1, FrameStep
<1>14. CASE /\ metadata /\ hitq' = Tail(hitq) /\ refused' = refused
            /\ sent' = sent \cup {[job |-> run.job, hit |-> h]}
  <2>1. PICK l : l = Len(hitq)
    OBVIOUS
  <2>2. l \in Nat \ {0} /\ DOMAIN hitq = 1 .. l /\ Len(hitq') = l - 1 /\ DOMAIN hitq' = 1 .. l - 1
        /\ \A n \in 1 .. l - 1 : n + 1 \in 1 .. l /\ hitq'[n] = hitq[n + 1]
    BY <1>4, <1>14, <2>1
  <2>3. \A n \in 1 .. l : hitq[n].kind = "hit" \/ (hitq[n].kind = "barrier" /\ n = l /\ run.pc = "collector")
    BY <1>3, <2>1, <2>2 DEF QueuesTrue
  <2>4. hitq[1].kind = "hit" /\ hitq[1].hit = h
    BY <1>1, <1>4
  <2>5. QueuesTrue'
    <3>1. \A n \in DOMAIN hitq' : \/ hitq'[n].kind = "hit"
                                  \/ hitq'[n].kind = "barrier" /\ n = Len(hitq') /\ run'.pc = "collector"
      <4> SUFFICES ASSUME NEW n \in 1 .. l - 1
                   PROVE  \/ hitq'[n].kind = "hit"
                          \/ hitq'[n].kind = "barrier" /\ n = l - 1 /\ run.pc = "collector"
        BY <1>1, <2>2
      <4>1. hitq'[n] = hitq[n + 1] /\ n + 1 \in 1 .. l
        BY <2>2
      <4>2. n + 1 = l => n = l - 1
        BY <2>2
      <4> QED
        BY <2>3, <4>1, <4>2
    <3>2. ASSUME run.pc = "collector" PROVE hitq' # <<>> /\ hitq'[Len(hitq')].kind = "barrier"
      <4>1. hitq[l].kind = "barrier"
        BY <1>3, <1>5, <2>1, <3>2 DEF QueuesTrue
      <4>2. l # 1
        BY <2>4, <4>1
      <4>3. l - 1 \in 1 .. l - 1 /\ (l - 1) + 1 = l /\ l - 1 # 0
        BY <2>2, <4>2
      <4>4. hitq'[l - 1] = hitq[l]
        BY <2>2, <4>3
      <4>5. Len(hitq') # 0
        BY <2>2, <4>3
      <4> QED
        BY <2>2, <4>1, <4>4, <4>5, EmptySequence
    <3>3. IsSequence(hitq')
      BY <1>4, <1>14
    <3> QED
      BY <1>1, <1>3, <1>5, <1>14, <3>1, <3>2, <3>3 DEF QueuesTrue
  <2>6. ASSUME Active' PROVE ScanTrue'
    <3>1. PhaseTrue /\ WorkersTrue /\ TailsTrue /\ CountTrue /\ SafeTrue
      BY <1>1, <1>5, <2>6 DEF IInv, Active, ScanTrue
    <3>2. /\ Records' = Records /\ Scanned' = Scanned /\ Working' = Working /\ Whole' = Whole
          /\ WorkersTrue'
      BY <1>1, <3>1, WorkSame
    <3>3. Paths' = Paths /\ Cuts' = Cuts /\ durable'[run'.job] = durable[run.job]
      BY <1>1 DEF Paths, Cuts
    <3>4. HitsSoFar' = HitsSoFar
      BY <1>1, <3>2, <3>3 DEF HitsSoFar
    <3>5. PhaseTrue'
      BY <1>1, <1>5, <3>1, <3>2 DEF PhaseTrue
    <3>6. TailsTrue'
      BY <1>1, <3>1, <3>2, <3>3 DEF TailsTrue
    <3>7. Total' = Total
      <4>1. PICK f, c : f = run.found /\ c = collected
        OBVIOUS
      <4>2. f \in Nat /\ c \in Nat
        BY <1>3, <4>1 DEF RunTrue
      <4>3. f + (c + 1) + (l - 1) = f + c + l /\ f + (c + 1) + ((l - 1) - 1) = f + c + (l - 1)
        BY <2>2, <4>2
      <4>4. Total = f + c + (IF run.pc = "collector" THEN l - 1 ELSE l)
        BY <2>1, <4>1 DEF Total
      <4>5. Total' = f + (c + 1) + (IF run.pc = "collector" THEN (l - 1) - 1 ELSE l - 1)
        BY <1>1, <2>2, <4>1 DEF Total
      <4> QED
        BY <4>3, <4>4, <4>5
    <3>8. CountTrue'
      BY <1>1, <3>1, <3>4, <3>7 DEF CountTrue
    <3>9. InQueue \subseteq InQueue' \cup {h}
      <4> SUFFICES ASSUME NEW n \in 1 .. l, hitq[n].kind = "hit" PROVE hitq[n].hit \in InQueue' \cup {h}
        BY <2>2 DEF InQueue
      <4>1. CASE n = 1
        BY <2>4, <4>1
      <4>2. CASE n # 1
        <5>1. n - 1 \in 1 .. l - 1 /\ (n - 1) + 1 = n
          BY <2>2, <4>2
        <5>2. hitq'[n - 1] = hitq[n] /\ n - 1 \in DOMAIN hitq'
          BY <2>2, <5>1
        <5> QED
          BY <5>2 DEF InQueue
      <4> QED
        BY <4>1, <4>2
    <3>10. SentOf(run.job) \cup {h} \subseteq SentOf(run.job)'
      <4> DEFINE s == [job |-> run.job, hit |-> h]
      <4>1. s.job = run.job /\ s.hit = h /\ s \in sent' /\ sent \subseteq sent'
        BY <1>14
      <4> HIDE DEF s, h
      <4>2. h \in {y.hit : y \in {y \in sent' : y.job = run.job}}
        BY <4>1
      <4> QED
        BY <1>1, <4>1, <4>2 DEF SentOf
    <3>11. SafeTrue'
      <4>1. HitsSoFar \subseteq durable[run.job] \cup SentOf(run.job) \cup InQueue
        BY <1>14, <3>1 DEF SafeTrue
      <4> HIDE DEF h
      <4>2. HitsSoFar' \subseteq durable'[run'.job] \cup SentOf(run.job)' \cup InQueue'
        BY <3>3, <3>4, <3>9, <3>10, <4>1
      <4> QED
        BY <4>2 DEF SafeTrue
    <3> QED
      BY <3>2, <3>5, <3>6, <3>8, <3>11 DEF ScanTrue
  <2> QED
    BY <1>1, <1>2, <1>8, <1>10, <1>11, <1>12, <2>5, <2>6, FrameStep
<1> QED
  BY <1>1, <1>13, <1>14

(* The hits of a record, listed.                                           *)
LEMMA ListedForm ==
    ASSUME NEW S, IsFiniteSet(S)
    PROVE  /\ Cardinality(S) \in Nat /\ DOMAIN Listed(S) = 1 .. Cardinality(S)
           /\ \A i \in 1 .. Cardinality(S) : Listed(S)[i] \in S
           /\ \A y \in S : \E i \in 1 .. Cardinality(S) : Listed(S)[i] = y
<1> DEFINE n == Cardinality(S)
           Lists(s) == {s[i] : i \in DOMAIN s} = S
<1>1. n \in Nat /\ ExistsBijection(1 .. n, S)
  BY FS_CardinalityType
<1>2. PICK f : f \in Bijection(1 .. n, S)
  BY <1>1 DEF ExistsBijection
<1>3. f \in [1 .. n -> S] /\ \A y \in S : \E i \in 1 .. n : f[i] = y
  BY <1>2 DEF Bijection, Surjection, Injection
<1>4. Lists(f)
  BY <1>3
<1>5. Listed(S) \in [1 .. n -> S] /\ Lists(Listed(S))
  BY <1>3, <1>4 DEF Listed
<1> QED
  BY <1>1, <1>5

(* What the workers add to the queue of the collector.                     *)
LEMMA HitsQueued ==
    ASSUME IsSequence(hitq), NEW S, IsFiniteSet(S),
           hitq' = hitq \o [i \in DOMAIN Listed(S) |-> [kind |-> "hit", hit |-> Listed(S)[i]]]
    PROVE  /\ IsSequence(hitq') /\ Len(hitq) \in Nat /\ Cardinality(S) \in Nat
           /\ Len(hitq') = Len(hitq) + Cardinality(S)
           /\ \A n \in DOMAIN hitq : n \in DOMAIN hitq' /\ hitq'[n] = hitq[n]
           /\ \A n \in DOMAIN hitq' : n \in DOMAIN hitq \/ hitq'[n].kind = "hit"
           /\ \A y \in S : \E n \in DOMAIN hitq' : hitq'[n].kind = "hit" /\ hitq'[n].hit = y
           /\ S = {} => (hitq = <<>> => hitq' = <<>>)
<1> DEFINE s == [i \in DOMAIN Listed(S) |-> [kind |-> "hit", hit |-> Listed(S)[i]]]
           c == Cardinality(S)
           q == hitq
           l == Len(hitq)
<1>1. /\ c \in Nat /\ DOMAIN Listed(S) = 1 .. c
      /\ \A y \in S : \E i \in 1 .. c : Listed(S)[i] = y
  BY ListedForm
<1>2. /\ s = [i \in 1 .. c |-> s[i]]
      /\ \A i \in 1 .. c : s[i].kind = "hit" /\ s[i].hit = Listed(S)[i]
  BY <1>1
<1>3. hitq' = q \o s
  OBVIOUS
<1> HIDE DEF s, c, q, l
<1>4. IsSequence(s) /\ Len(s) = c
  BY <1>1, <1>2, NumberedIsSequence
<1>5. /\ IsSequence(q \o s) /\ Len(q) \in Nat /\ Len(q \o s) = Len(q) + Len(s)
      /\ DOMAIN q = 1 .. Len(q) /\ DOMAIN (q \o s) = 1 .. Len(q) + Len(s)
      /\ \A i \in 1 .. Len(q) + Len(s) : (q \o s)[i] = IF i <= Len(q) THEN q[i] ELSE s[i - Len(q)]
  <2>1. IsSequence(q)
    BY DEF q
  <2> QED
    BY <1>4, <2>1, ConcatOfSequences
<1>6. /\ IsSequence(hitq') /\ l \in Nat /\ Len(hitq') = l + c
      /\ DOMAIN q = 1 .. l /\ DOMAIN hitq' = 1 .. l + c
      /\ \A i \in 1 .. l + c : hitq'[i] = IF i <= l THEN q[i] ELSE s[i - l]
  BY <1>3, <1>4, <1>5 DEF q, l
<1>7. \A n \in 1 .. l : n \in 1 .. l + c /\ hitq'[n] = q[n]
  <2> SUFFICES ASSUME NEW n \in 1 .. l PROVE n \in 1 .. l + c /\ hitq'[n] = q[n]
    OBVIOUS
  <2>1. n \in 1 .. l + c /\ n <= l
    BY <1>1, <1>6
  <2> QED
    BY <1>6, <2>1
<1>8. \A n \in 1 .. l + c : n \in 1 .. l \/ hitq'[n].kind = "hit"
  <2> SUFFICES ASSUME NEW n \in 1 .. l + c, n \notin 1 .. l PROVE hitq'[n].kind = "hit"
    OBVIOUS
  <2>1. n - l \in 1 .. c /\ ~(n <= l)
    BY <1>1, <1>6
  <2> QED
    BY <1>2, <1>6, <2>1
<1>9. ASSUME NEW y \in S PROVE \E n \in 1 .. l + c : hitq'[n].kind = "hit" /\ hitq'[n].hit = y
  <2>1. PICK i \in 1 .. c : Listed(S)[i] = y
    BY <1>1
  <2>2. i + l \in 1 .. l + c /\ ~(i + l <= l) /\ (i + l) - l = i
    BY <1>1, <1>6
  <2>3. hitq'[i + l] = s[i]
    BY <1>6, <2>2
  <2> QED
    BY <1>2, <2>1, <2>2, <2>3
<1>10. ASSUME S = {}, hitq = <<>> PROVE hitq' = <<>>
  <2>1. c = 0 /\ l = 0
    BY <1>10, FS_EmptySet, EmptySequence DEF c, l
  <2>2. Len(hitq') = 0
    BY <1>6, <2>1
  <2> QED
    BY <1>6, <2>2, TailOfSequence
<1> QED
  BY <1>1, <1>6, <1>7, <1>8, <1>9, <1>10 DEF q, l, c

(* The hits in a record are one or two.                                    *)
LEMMA HitsInFinite ==
    ASSUME NEW x
    PROVE  IsFiniteSet(HitsIn(x))
<1> DEFINE a == [seg |-> x.seg, i |-> x.i, kind |-> "own"]
           b == [seg |-> x.seg, i |-> x.i, kind |-> "cross"]
<1>1. HitsIn(x) \subseteq {a} \cup {b}
  BY DEF HitsIn
<1> HIDE DEF a, b
<1>2. IsFiniteSet({a} \cup {b})
  BY FS_Singleton, FS_AddElement
<1> QED
  BY <1>1, <1>2, FS_Subset

(* The first record in a queue: it is the next of its flow, so the worker  *)
(* has the tail of the flow just if the record before it was scanned.      *)
LEMMA HeadItem ==
    ASSUME IInv, Working, ~refused, NEW w \in Workers, work[w] # <<>>,
           NEW x, x = Head(work[w]), x.kind # "barrier"
    PROVE  /\ IsItem(x, w, Head(run.paths), Dealt) /\ x.i \in 1 .. Dealt
           /\ x.r = Records[x.i] /\ x.i \notin Scanned
           /\ run.done \in 0 .. Len(Paths) - 1 /\ IsPaths(Paths)
           /\ HitsIn(x) = HitsAt(Paths, Cuts, <<run.done + 1, x.i>>)
<1> DEFINE R == Records
           q == work[w]
           d == run.done
<1>1. run.pc \in {"scan", "workers"}
  BY DEF Working
<1>2. RunTrue /\ QueuesTrue /\ IsPaths(Paths)
  BY <1>1, Running
<1>3. PhaseTrue /\ WorkersTrue /\ TailsTrue
  BY <1>1 DEF IInv, Active, ScanTrue
<1>4. run.paths # <<>> /\ WorkTrue(w) /\ run.next \in 1 .. Len(R) + 1
  BY <1>3 DEF PhaseTrue, WorkersTrue
<1>5. /\ R = SegmentOf[Paths[d + 1]] /\ Len(R) \in Nat /\ DOMAIN R = 1 .. Len(R)
      /\ d \in 0 .. Len(Paths) - 1 /\ Head(run.paths) = Paths[d + 1]
  BY <1>2, <1>4, RecordsForm, NextPath
<1>6. Dealt \in Nat /\ Dealt <= Len(R)
  <2>1. PICK n, l : n = run.next /\ l = Len(R)
    OBVIOUS
  <2>2. l \in Nat /\ n \in 1 .. l + 1 /\ Dealt = n - 1
    BY <1>4, <1>5, <2>1 DEF Dealt
  <2> QED
    BY <2>1, <2>2
<1>7. 1 \in DOMAIN q /\ x = q[1] /\ \A m \in DOMAIN q : m = 1 \/ 1 < m
  <2>1. IsSequence(q)
    BY <1>2 DEF QueuesTrue
  <2>2. Len(q) \in Nat \ {0} /\ DOMAIN q = 1 .. Len(q) /\ Head(q) = q[1]
    BY <2>1, TailOfSequence
  <2> QED
    BY <2>2
<1>8. IsItem(x, w, Head(run.paths), Dealt)
  BY <1>4, <1>7 DEF WorkTrue
<1>9. x.kind = "record" /\ x.seg = Paths[d + 1] /\ x.i \in 1 .. Dealt /\ x.r = R[x.i] /\ WorkerOf(x.r.flow) = w
  BY <1>5, <1>8 DEF IsItem, Records
<1>10. x.i \in Waiting /\ x.i \notin Scanned
  <2>1. x.i \in Waiting
    BY <1>7, <1>9 DEF Waiting
  <2> QED
    BY <2>1 DEF Scanned
<1>11. x.i \in DOMAIN R /\ x.i \in Nat
  BY <1>5, <1>6, <1>9
<1>12. ASSUME NEW k \in Scanned, R[k].flow = x.r.flow PROVE k \in DOMAIN R /\ k < x.i
  <2>1. k \in 1 .. Dealt
    BY DEF Scanned
  <2>2. k \in DOMAIN R
    BY <1>5, <1>6, <2>1
  <2>3. WorkerOf(R[k].flow) = w
    BY <1>9, <1>12
  <2> QED
    BY <1>4, <1>7, <1>9, <2>2, <2>3 DEF WorkTrue
<1>13. ASSUME NEW k \in DOMAIN R, k < x.i, R[k].flow = x.r.flow PROVE k \in Scanned
  <2>1. k \in 1 .. Dealt /\ k # x.i
    BY <1>5, <1>6, <1>9, <1>11, <1>13
  <2>2. ASSUME k \in Waiting PROVE FALSE
    <3>1. PICK v \in Workers : \E m \in DOMAIN work[v] : work[v][m].kind = "record" /\ work[v][m].i = k
      BY <2>2 DEF Waiting
    <3>2. PICK m \in DOMAIN work[v] : work[v][m].kind = "record" /\ work[v][m].i = k
      BY <3>1
    <3>3. WorkTrue(v)
      BY <1>3 DEF WorkersTrue
    <3>4. IsItem(work[v][m], v, Head(run.paths), Dealt)
      BY <3>2, <3>3 DEF WorkTrue
    <3>5. WorkerOf(R[k].flow) = v
      BY <3>2, <3>4 DEF IsItem, Records
    <3>6. v = w
      BY <1>9, <1>13, <3>5
    <3>7. m \in DOMAIN q /\ q[m].kind = "record" /\ q[m].i = k
      BY <3>2, <3>6
    <3>8. m = 1 \/ 1 < m
      BY <1>7, <3>7
    <3>9. m # 1
      BY <1>7, <2>1, <3>7
    <3>10. x.i < k
      BY <1>4, <1>7, <3>7, <3>8, <3>9 DEF WorkTrue
    <3>11. k \in Nat
      BY <1>5
    <3> QED
      BY <1>11, <1>13, <3>10, <3>11
  <2> QED
    BY <2>1, <2>2 DEF Scanned
<1>14. x.r.flow \in tails <=> Tracked(Paths, Cuts, <<d + 1, x.i>>)
  <2>1. \A c \in Cuts : c \in Nat /\ c <= d
    BY <1>2 DEF RunTrue, RowTrue
  <2>2. x.i \in DOMAIN SegmentOf[Paths[d + 1]]
    BY <1>5, <1>11
  <2>3. LET S == SegmentOf[Paths[d + 1]] IN
        Tracked(Paths, Cuts, <<d + 1, x.i>>)
           <=> \/ S[x.i].flow \in FlowsBefore(Paths, Cuts, d)
               \/ \E k \in DOMAIN S : k < x.i /\ S[k].flow = S[x.i].flow
    <3> HIDE DEF d
    <3> QED
      BY <1>2, <1>5, <2>1, <2>2, TrackedForm
  <2>4. Tracked(Paths, Cuts, <<d + 1, x.i>>)
           <=> \/ x.r.flow \in FlowsBefore(Paths, Cuts, d)
               \/ \E k \in DOMAIN R : k < x.i /\ R[k].flow = x.r.flow
    BY <1>5, <1>9, <2>3
  <2>5. (\E k \in DOMAIN R : k < x.i /\ R[k].flow = x.r.flow) <=> \E k \in Scanned : R[k].flow = x.r.flow
    BY <1>12, <1>13
  <2>6. x.r.flow \in tails <=> x.r.flow \in FlowsBefore(Paths, Cuts, d) \/ \E k \in Scanned : R[k].flow = x.r.flow
    BY <1>3 DEF TailsTrue
  <2> QED
    BY <2>4, <2>5, <2>6
<1>15. HitsIn(x) = HitsAt(Paths, Cuts, <<d + 1, x.i>>)
  <2>1. PICK y : y = <<d + 1, x.i>>
    OBVIOUS
  <2>2. y[1] = d + 1 /\ y[2] = x.i
    BY <2>1
  <2>3. x.seg = Paths[y[1]] /\ x.i = y[2] /\ x.r = At(Paths, y)
    BY <1>5, <1>9, <2>2 DEF At
  <2>4. x.r.flow \in tails <=> Tracked(Paths, Cuts, y)
    BY <1>14, <2>1
  <2> QED
    BY <2>1, <2>3, <2>4 DEF HitsIn, HitsAt
<1> QED
  BY <1>2, <1>5, <1>8, <1>9, <1>10, <1>15

(* The first record has left its queue: it is the one more that is scanned.*)
LEMMA HeadGone ==
    ASSUME IInv, Working, ~refused, NEW w \in Workers, work[w] # <<>>,
           NEW x, x = Head(work[w]), x.kind # "barrier",
           UNCHANGED <<run, acks>>, work' = [work EXCEPT ![w] = Tail(@)]
    PROVE  Dealt' = Dealt /\ Records' = Records /\ Scanned' = Scanned \cup {x.i} /\ WorkersTrue'
<1> DEFINE q == work[w]
           seg == Head(run.paths)
<1>1. run.pc \in {"scan", "workers"}
  BY DEF Working
<1>2. QueuesTrue /\ WorkersTrue
  BY <1>1, Running DEF IInv, Active, ScanTrue
<1>3. /\ IsItem(x, w, seg, Dealt) /\ x.i \in 1 .. Dealt /\ x.r = Records[x.i] /\ x.i \notin Scanned
      /\ x.kind = "record" /\ WorkerOf(x.r.flow) = w
  BY HeadItem DEF IsItem
<1>4. Records' = Records /\ Working' /\ Dealt' = Dealt
  BY DEF Records, Working, Dealt
<1>5. DOMAIN work' = Workers /\ \A v \in Workers : work'[v] = IF v = w THEN Tail(q) ELSE work[v]
  BY <1>2 DEF QueuesTrue
<1>6. PICK l : /\ l \in Nat /\ l # 0 /\ Len(q) = l /\ DOMAIN q = 1 .. l /\ x = q[1]
               /\ Len(work'[w]) = l - 1 /\ DOMAIN work'[w] = 1 .. l - 1
               /\ \A m \in 1 .. l - 1 : m + 1 \in 1 .. l /\ work'[w][m] = q[m + 1]
  <2>1. IsSequence(q)
    BY <1>2 DEF QueuesTrue
  <2>2. /\ Len(q) \in Nat \ {0} /\ DOMAIN q = 1 .. Len(q) /\ Head(q) = q[1]
        /\ Len(Tail(q)) = Len(q) - 1 /\ DOMAIN Tail(q) = 1 .. Len(q) - 1
        /\ \A i \in DOMAIN Tail(q) : i + 1 \in DOMAIN q /\ Tail(q)[i] = q[i + 1]
    BY <2>1, TailOfSequence
  <2>3. work'[w] = Tail(q)
    BY <1>5
  <2> HIDE DEF q
  <2> QED
    BY <2>2, <2>3 DEF q
<1>7. \A v \in Workers : WorkTrue(v)
  BY <1>2 DEF WorkersTrue
<1>8. 1 \in 1 .. l /\ \A m \in 1 .. l - 1 : 1 < m + 1
  BY <1>6
<1>9. ASSUME NEW m \in 1 .. l - 1, work'[w][m].kind = "record" PROVE x.i < work'[w][m].i
  <2>1. work'[w][m] = q[m + 1] /\ m + 1 \in DOMAIN q /\ 1 \in DOMAIN q /\ 1 < m + 1
    BY <1>6, <1>8
  <2> QED
    BY <1>6, <1>7, <1>9, <2>1 DEF WorkTrue
<1>10. ASSUME NEW v \in Workers, NEW m \in DOMAIN work'[v], work'[v][m].kind = "record"
       PROVE  work'[v][m].i # x.i
  <2>1. CASE v = w
    <3>1. x.i < work'[w][m].i /\ x.i \in Nat
      BY <1>3, <1>6, <1>9, <1>10, <2>1
    <3> QED
      BY <2>1, <3>1
  <2>2. CASE v # w
    <3>1. work'[v] = work[v]
      BY <1>5, <2>2
    <3>2. IsItem(work[v][m], v, seg, Dealt)
      BY <1>7, <1>10, <3>1 DEF WorkTrue
    <3>3. WorkerOf(Records[work[v][m].i].flow) = v
      BY <3>2 DEF IsItem, Records
    <3> QED
      BY <1>3, <2>2, <3>1, <3>3
  <2> QED
    BY <2>1, <2>2
<1>11. ASSUME NEW i \in 1 .. Dealt PROVE i \in Waiting' <=> i \in Waiting /\ i # x.i
  <2>1. ASSUME i \in Waiting' PROVE i \in Waiting /\ i # x.i
    <3>1. PICK v \in Workers : \E m \in DOMAIN work'[v] : work'[v][m].kind = "record" /\ work'[v][m].i = i
      BY <2>1 DEF Waiting
    <3>2. PICK m \in DOMAIN work'[v] : work'[v][m].kind = "record" /\ work'[v][m].i = i
      BY <3>1
    <3>3. i # x.i
      BY <1>10, <3>2
    <3>4. \E k \in DOMAIN work[v] : work[v][k] = work'[v][m]
      BY <1>5, <1>6
    <3> QED
      BY <3>2, <3>3, <3>4 DEF Waiting
  <2>2. ASSUME i \in Waiting, i # x.i PROVE i \in Waiting'
    <3>1. PICK v \in Workers : \E m \in DOMAIN work[v] : work[v][m].kind = "record" /\ work[v][m].i = i
      BY <2>2 DEF Waiting
    <3>2. PICK m \in DOMAIN work[v] : work[v][m].kind = "record" /\ work[v][m].i = i
      BY <3>1
    <3>3. \E k \in DOMAIN work'[v] : work'[v][k] = work[v][m]
      <4>1. CASE v # w
        BY <1>5, <4>1
      <4>2. CASE v = w
        <5>1. m \in 1 .. l /\ m # 1
          BY <1>6, <2>2, <3>2, <4>2
        <5>2. m - 1 \in 1 .. l - 1 /\ (m - 1) + 1 = m
          BY <1>6, <5>1
        <5>3. work'[w][m - 1] = q[m] /\ m - 1 \in DOMAIN work'[w]
          BY <1>6, <5>2
        <5> QED
          BY <4>2, <5>3
      <4> QED
        BY <4>1, <4>2
    <3> QED
      BY <1>4, <3>2, <3>3 DEF Waiting
  <2> QED
    BY <2>1, <2>2
<1>12. Scanned' = Scanned \cup {x.i}
  <2>1. ASSUME NEW i PROVE i \in Scanned' <=> i \in Scanned \/ i = x.i
    <3>1. i \in Scanned' <=> i \in 1 .. Dealt /\ i \notin Waiting'
      BY <1>4 DEF Scanned
    <3>2. i \in Scanned <=> i \in 1 .. Dealt /\ i \notin Waiting
      BY DEF Scanned
    <3> QED
      BY <1>3, <1>11, <3>1, <3>2
  <2> QED
    BY <2>1
<1>13. ASSUME NEW v \in Workers PROVE WorkTrue(v)'
  <2> DEFINE p == work'[v]
  <2>1. \A m \in DOMAIN p : \E k \in DOMAIN work[v] : p[m] = work[v][k] /\ (m = Len(p) <=> k = Len(work[v]))
    <3>1. CASE v # w
      BY <1>5, <3>1
    <3>2. CASE v = w
      <4> SUFFICES ASSUME NEW m \in 1 .. l - 1
                   PROVE  m + 1 \in 1 .. l /\ p[m] = q[m + 1] /\ (m = l - 1 <=> m + 1 = l)
        BY <1>6, <3>2
      <4>1. m = l - 1 <=> m + 1 = l
        BY <1>6
      <4> QED
        BY <1>6, <3>2, <4>1
    <3> QED
      BY <3>1, <3>2
  <2>2. ASSUME NEW m \in DOMAIN p, NEW n \in DOMAIN p, m < n
        PROVE  \E k, j \in DOMAIN work[v] : k < j /\ p[m] = work[v][k] /\ p[n] = work[v][j]
    <3>1. CASE v # w
      BY <1>5, <2>2, <3>1
    <3>2. CASE v = w
      <4>1. m \in 1 .. l - 1 /\ n \in 1 .. l - 1
        BY <1>6, <3>2
      <4>2. m + 1 < n + 1
        BY <2>2, <4>1
      <4>3. /\ m + 1 \in DOMAIN work[v] /\ n + 1 \in DOMAIN work[v]
            /\ p[m] = work[v][m + 1] /\ p[n] = work[v][n + 1]
        BY <1>6, <3>2, <4>1
      <4> HIDE DEF p
      <4> QED
        BY <4>2, <4>3
    <3> QED
      BY <3>1, <3>2
  <2>3. \A m \in DOMAIN p : \/ IsItem(p[m], v, seg, Dealt)
                            \/ p[m].kind = "barrier" /\ m = Len(p) /\ run.pc = "workers" /\ v \notin acks
    BY <1>7, <2>1 DEF WorkTrue
  <2>4. \A m, n \in DOMAIN p : m < n /\ p[n].kind = "record" => p[m].i < p[n].i
    BY <1>7, <2>2 DEF WorkTrue
  <2>5. ASSUME NEW m \in DOMAIN p, p[m].kind = "record", NEW i \in Scanned', WorkerOf(Records[i].flow) = v
        PROVE  i < p[m].i
    <3>1. CASE i \in Scanned
      BY <1>7, <2>1, <2>5, <3>1 DEF WorkTrue
    <3>2. CASE i = x.i
      <4>1. v = w
        BY <1>3, <2>5, <3>2
      <4> QED
        BY <1>6, <1>9, <2>5, <3>2, <4>1
    <3> QED
      BY <1>12, <2>5, <3>1, <3>2
  <2> QED
    BY <1>4, <2>3, <2>4, <2>5 DEF WorkTrue
<1> QED
  BY <1>4, <1>12, <1>13 DEF WorkersTrue

(* A worker scans the next record of its queue, or answers the barrier.    *)
LEMMA ScanOneStep ==
    ASSUME IInv, NEW w \in Workers, ScanOne(w)
    PROVE  IInv'
<1>1. PICK x : x = Head(work[w])
  OBVIOUS
<1> DEFINE Answers == x.kind = "barrier" /\ acks' = acks \cup {w} /\ UNCHANGED <<hitq, tails, dead>>
           Dies == refused /\ dead' = dead \cup {w} /\ UNCHANGED <<hitq, tails, acks>>
           Scans == /\ x.kind # "barrier" /\ (refused => HitsIn(x) = {})
                    /\ hitq' = hitq \o [i \in DOMAIN Listed(HitsIn(x)) |->
                                          [kind |-> "hit", hit |-> Listed(HitsIn(x))[i]]]
                    /\ tails' = tails \cup {x.r.flow} /\ UNCHANGED <<dead, acks>>
<1>2. /\ work[w] # <<>> /\ work' = [work EXCEPT ![w] = Tail(@)]
      /\ UNCHANGED <<jobs, resumed, durable, paused, present, sched, shutdown, metadata, sent,
                     run, collected, refused, progress, last>>
  BY DEF ScanOne, table, env
<1>3. Answers \/ Dies \/ Scans
  <2>1. CASE x.kind = "barrier"
    BY <1>1, <2>1 DEF ScanOne
  <2>2. CASE x.kind # "barrier" /\ HitsIn(x) # {} /\ refused
    BY <1>1, <2>2 DEF ScanOne
  <2>3. CASE x.kind # "barrier" /\ ~(HitsIn(x) # {} /\ refused)
    BY <1>1, <2>3 DEF ScanOne
  <2> QED
    BY <2>1, <2>2, <2>3
<1>4. run.pc # "none"
  BY <1>2, Still
<1>5. /\ run.job \in DOMAIN jobs /\ TableTrue /\ SchedTrue /\ RunTrue /\ QueuesTrue /\ IsPaths(Paths)
  BY <1>4, Running
<1>6. EnvTrue /\ EnvTrue' /\ refused \in BOOLEAN /\ shutdown \in BOOLEAN
  BY <1>2, <1>5, EnvTypes DEF EnvTrue
<1>7. ASSUME Active, ~refused PROVE ScanTrue /\ Working
  <2>1. ScanTrue
    BY <1>7 DEF IInv
  <2> QED
    BY <1>2, <2>1 DEF ScanTrue, WorkersTrue
<1>8. /\ run.pc \notin {"segment", "barrier"} /\ ~(run.pc = "join" /\ ~shutdown)
      /\ run.pc = "collector" => refused
  <2>1. run.pc \in {"segment", "barrier"} \/ (run.pc = "join" /\ ~shutdown) => ~refused
    BY <1>5 DEF QueuesTrue
  <2> QED
    BY <1>6, <1>7, <2>1 DEF Active, Working
<1>9. TableTrue' /\ Grows
  BY <1>2, <1>5, TableSame
<1>10. RunTrue'
  <2>1. SameJob
    BY <1>2, <1>5 DEF SameJob, RunTrue, IsRun
  <2>2. /\ collected \in Nat
        /\ run.pc \in {"segment", "scan", "workers", "collector", "barrier", "join", "returned"}
        /\ (run.pc \in {"scan", "workers", "collector"} => NextRun(run))
        /\ (run.pc # "returned" => run.result = "none") /\ (run.pc = "join" /\ ~shutdown => run.paths = <<>>)
    BY <1>5 DEF RunTrue
  <2> QED
    BY <1>2, <1>5, <1>6, <1>9, <2>1, <2>2, RunKept
<1>11. /\ DOMAIN work = Workers /\ DOMAIN work' = Workers
       /\ \A v \in Workers : work'[v] = IF v = w THEN Tail(work[v]) ELSE work[v]
       /\ IsSequence(work[w]) /\ IsSequence(hitq)
  BY <1>2, <1>5 DEF QueuesTrue
<1>12. \A v \in Workers : IsSequence(work'[v])
  <2>1. IsSequence(Tail(work[w]))
    BY <1>2, <1>11, TailOfSequence
  <2>2. \A v \in Workers : IsSequence(work[v])
    BY <1>5 DEF QueuesTrue
  <2>3. ASSUME NEW v \in Workers PROVE IsSequence(work'[v])
    <3>1. CASE v = w
      BY <1>11, <2>1, <3>1
    <3>2. CASE v # w
      BY <1>11, <2>2, <3>2
    <3> QED
      BY <3>1, <3>2
  <2> QED
    BY <2>3
<1>13. Paths' = Paths /\ Cuts' = Cuts /\ durable'[run'.job] = durable[run.job]
  BY <1>2 DEF Paths, Cuts
<1>14. Active' = Active /\ run'.pc # "none" /\ run'.job = run.job /\ DOMAIN jobs' = DOMAIN jobs
  BY <1>2, <1>4 DEF Active
<1>15. CASE Dies
  <2>1. QueuesTrue'
    BY <1>2, <1>5, <1>8, <1>11, <1>12, <1>15 DEF QueuesTrue
  <2>2. ~(Active' /\ ~refused')
    BY <1>2, <1>15
  <2> QED
    BY <1>2, <1>4, <1>6, <1>9, <1>10, <1>14, <2>1, <2>2, FrameStep
<1>16. CASE Answers
  <2>1. QueuesTrue'
    BY <1>2, <1>5, <1>8, <1>11, <1>12, <1>16 DEF QueuesTrue
  <2>2. ASSUME Active, ~refused PROVE ScanTrue'
    <3>1. PhaseTrue /\ WorkersTrue /\ TailsTrue /\ CountTrue /\ SafeTrue /\ Working
      BY <1>7, <2>2 DEF ScanTrue
    <3>2. /\ Len(work[w]) \in Nat \ {0} /\ DOMAIN work[w] = 1 .. Len(work[w]) /\ x = work[w][1]
          /\ IsSequence(Tail(work[w])) /\ Len(Tail(work[w])) = Len(work[w]) - 1
      BY <1>1, <1>2, <1>11, TailOfSequence
    <3>3. Len(work[w]) = 1
      <4>1. WorkTrue(w) /\ 1 \in DOMAIN work[w]
        BY <3>1, <3>2 DEF WorkersTrue
      <4>2. x.kind # "record"
        BY <1>16
      <4> QED
        BY <3>2, <4>1, <4>2 DEF WorkTrue, IsItem
    <3>4. work'[w] = <<>> /\ DOMAIN work'[w] = {}
      <4>1. Len(Tail(work[w])) = 0
        BY <3>2, <3>3
      <4>2. Tail(work[w]) = <<>>
        BY <3>2, <4>1, TailOfSequence
      <4>3. work'[w] = <<>>
        BY <1>11, <4>2
      <4> QED
        BY <4>3, EmptySequence
    <3>5. \A m \in DOMAIN work[w] : work[w][m].kind # "record"
      <4>1. \A m \in DOMAIN work[w] : m = 1
        BY <3>2, <3>3
      <4> QED
        BY <1>16, <3>2, <4>1
    <3>6. Dealt' = Dealt /\ Records' = Records /\ Working' /\ Whole' = Whole
      BY <1>2, <3>1 DEF Dealt, Records, Working, Whole
    <3>7. Waiting' = Waiting
      <4>1. ASSUME NEW i
            PROVE  (\E v \in Workers : \E m \in DOMAIN work[v] :
                        work[v][m].kind = "record" /\ work[v][m].i = i)
               <=> (\E v \in Workers : \E m \in DOMAIN work'[v] :
                        work'[v][m].kind = "record" /\ work'[v][m].i = i)
        <5>1. ASSUME NEW v \in Workers
              PROVE  (\E m \in DOMAIN work[v] : work[v][m].kind = "record" /\ work[v][m].i = i)
                 <=> (\E m \in DOMAIN work'[v] : work'[v][m].kind = "record" /\ work'[v][m].i = i)
          <6>1. CASE v = w
            BY <3>4, <3>5, <6>1
          <6>2. CASE v # w
            BY <1>11, <6>2
          <6> QED
            BY <6>1, <6>2
        <5> QED
          BY <5>1
      <4> QED
        BY <3>6, <4>1 DEF Waiting
    <3>8. Scanned' = Scanned
      BY <3>6, <3>7 DEF Scanned
    <3>9. PhaseTrue'
      <4>1. run.pc = "workers" => \A v \in acks' : work'[v] = <<>>
        <5> SUFFICES ASSUME run.pc = "workers", NEW v \in acks' PROVE work'[v] = <<>>
          OBVIOUS
        <5>1. CASE v = w
          BY <3>4, <5>1
        <5>2. CASE v # w
          <6>1. v \in acks /\ v \in Workers
            BY <1>5, <1>16, <5>2 DEF QueuesTrue
          <6> QED
            BY <1>11, <3>1, <5>2, <6>1 DEF PhaseTrue
        <5> QED
          BY <5>1, <5>2
      <4> QED
        BY <1>2, <3>1, <3>6, <4>1 DEF PhaseTrue
    <3>10. ASSUME NEW v \in Workers PROVE WorkTrue(v)'
      <4>1. CASE v = w
        BY <3>4, <4>1 DEF WorkTrue
      <4>2. CASE v # w
        <5>1. WorkTrue(v) /\ work'[v] = work[v] /\ (v \notin acks => v \notin acks')
          BY <1>11, <1>16, <3>1, <4>2 DEF WorkersTrue
        <5> QED
          BY <1>2, <3>6, <3>8, <5>1 DEF WorkTrue
      <4> QED
        BY <4>1, <4>2
    <3>11. WorkersTrue'
      BY <3>6, <3>10 DEF WorkersTrue
    <3>12. TailsTrue'
      BY <1>2, <1>13, <1>16, <3>1, <3>6, <3>8 DEF TailsTrue
    <3>13. HitsSoFar' = HitsSoFar
      BY <1>2, <1>13, <3>8 DEF HitsSoFar
    <3>14. Total' = Total /\ InQueue' = InQueue
      BY <1>2, <1>16 DEF Total, InQueue
    <3>15. CountTrue' /\ SafeTrue'
      BY <1>2, <1>13, <3>1, <3>13, <3>14 DEF CountTrue, SafeTrue, SentOf
    <3> QED
      BY <3>9, <3>11, <3>12, <3>15 DEF ScanTrue
  <2> QED
    BY <1>2, <1>4, <1>6, <1>9, <1>10, <1>14, <2>1, <2>2, FrameStep
<1>17. CASE Scans
  <2> DEFINE S == HitsIn(x)
             c == Cardinality(HitsIn(x))
  <2>1. /\ IsSequence(hitq') /\ Len(hitq) \in Nat /\ c \in Nat
        /\ Len(hitq') = Len(hitq) + c
        /\ \A n \in DOMAIN hitq : n \in DOMAIN hitq' /\ hitq'[n] = hitq[n]
        /\ \A n \in DOMAIN hitq' : n \in DOMAIN hitq \/ hitq'[n].kind = "hit"
        /\ \A y \in S : \E n \in DOMAIN hitq' : hitq'[n].kind = "hit" /\ hitq'[n].hit = y
        /\ S = {} => (hitq = <<>> => hitq' = <<>>)
    <3>1. IsFiniteSet(S)
      BY HitsInFinite
    <3>2. hitq' = hitq \o [i \in DOMAIN Listed(S) |-> [kind |-> "hit", hit |-> Listed(S)[i]]]
      BY <1>17
    <3> HIDE DEF S
    <3>3. /\ IsSequence(hitq') /\ Len(hitq) \in Nat /\ Cardinality(S) \in Nat
          /\ Len(hitq') = Len(hitq) + Cardinality(S)
          /\ \A n \in DOMAIN hitq : n \in DOMAIN hitq' /\ hitq'[n] = hitq[n]
          /\ \A n \in DOMAIN hitq' : n \in DOMAIN hitq \/ hitq'[n].kind = "hit"
          /\ \A y \in S : \E n \in DOMAIN hitq' : hitq'[n].kind = "hit" /\ hitq'[n].hit = y
          /\ S = {} => (hitq = <<>> => hitq' = <<>>)
      BY <1>11, <3>1, <3>2, HitsQueued
    <3> QED
      BY <3>3 DEF S
  <2>2. QueuesTrue'
    <3>1. \A n \in DOMAIN hitq : hitq[n].kind = "hit"
      <4>1. refused => DOMAIN hitq = {}
        BY <1>5, EmptySequence DEF QueuesTrue
      <4> QED
        BY <1>5, <1>8, <4>1 DEF QueuesTrue
    <3>2. \A n \in DOMAIN hitq' : hitq'[n].kind = "hit"
      BY <2>1, <3>1
    <3>3. refused => hitq' = <<>>
      BY <1>5, <1>17, <2>1 DEF QueuesTrue
    <3> QED
      BY <1>2, <1>5, <1>8, <1>11, <1>12, <1>17, <2>1, <3>2, <3>3 DEF QueuesTrue
  <2>3. ASSUME Active, ~refused PROVE ScanTrue'
    <3> DEFINE d == run.done
               new == HitsAt(Paths, Cuts, <<d + 1, x.i>>)
    <3>1. PhaseTrue /\ WorkersTrue /\ TailsTrue /\ CountTrue /\ SafeTrue /\ Working
      BY <1>7, <2>3 DEF ScanTrue
    <3>2. /\ x.i \in 1 .. Dealt /\ x.r = Records[x.i] /\ x.i \notin Scanned
          /\ d \in 0 .. Len(Paths) - 1 /\ S = new
      BY <1>1, <1>2, <1>17, <2>3, <3>1, HeadItem
    <3>3. Dealt' = Dealt /\ Records' = Records /\ Scanned' = Scanned \cup {x.i} /\ WorkersTrue'
      BY <1>1, <1>2, <1>17, <2>3, <3>1, HeadGone
    <3>4. Working' /\ Whole' = Whole /\ run.pc # "collector"
      BY <1>2, <3>1 DEF Working, Whole
    <3>5. PhaseTrue'
      <4>1. run.pc = "workers" => \A v \in acks' : work'[v] = <<>>
        <5> SUFFICES ASSUME run.pc = "workers", NEW v \in acks PROVE work'[v] = <<>>
          BY <1>17
        <5>1. work[v] = <<>> /\ v \in Workers
          BY <1>5, <3>1 DEF PhaseTrue, QueuesTrue
        <5> QED
          BY <1>2, <1>11, <5>1
      <4> QED
        BY <1>2, <3>1, <3>3, <3>4, <4>1 DEF PhaseTrue
    <3>6. TailsTrue'
      BY <1>2, <1>13, <1>17, <3>1, <3>2, <3>3 DEF TailsTrue
    <3>7. IsFiniteSet(Scanned)
      <4>1. Dealt \in Int
        <5>1. run.paths # <<>> /\ run.next \in 1 .. Len(Records) + 1
          BY <3>1 DEF PhaseTrue
        <5>2. Len(Records) \in Nat
          BY <1>5, <5>1, RecordsForm
        <5>3. run.next - 1 \in Int
          BY <5>1, <5>2
        <5> QED
          BY <3>1, <5>3 DEF Dealt
      <4>2. IsFiniteSet(1 .. Dealt)
        BY <4>1, FS_Interval
      <4> QED
        BY <4>2, FS_Subset DEF Scanned
    <3>8. PICK old, more : old = HitsSoFar /\ more = HitsSoFar'
      OBVIOUS
    <3>9. more = old \cup S /\ Cardinality(old) \in Nat /\ Cardinality(more) = Cardinality(old) + c
      <4>1. /\ Got(Paths, Cuts, d, Scanned \cup {x.i}) = Got(Paths, Cuts, d, Scanned) \cup new
            /\ Cardinality(Got(Paths, Cuts, d, Scanned)) \in Nat
            /\ Cardinality(Got(Paths, Cuts, d, Scanned \cup {x.i}))
                  = Cardinality(Got(Paths, Cuts, d, Scanned)) + Cardinality(new)
        <5>1. PICK n : n = d
          OBVIOUS
        <5>2. n \in 0 .. Len(Paths) - 1
          BY <3>2, <5>1
        <5>3. LET nw == HitsAt(Paths, Cuts, <<n + 1, x.i>>) IN
              /\ Got(Paths, Cuts, n, Scanned \cup {x.i}) = Got(Paths, Cuts, n, Scanned) \cup nw
              /\ Cardinality(Got(Paths, Cuts, n, Scanned)) \in Nat /\ Cardinality(nw) \in Nat
              /\ Cardinality(Got(Paths, Cuts, n, Scanned \cup {x.i}))
                    = Cardinality(Got(Paths, Cuts, n, Scanned)) + Cardinality(nw)
          BY <1>5, <3>2, <3>7, <5>2, GotAdds
        <5> QED
          BY <5>1, <5>3
      <4>2. HitsSoFar' = Got(Paths, Cuts, d, Scanned \cup {x.i})
        BY <1>2, <1>13, <3>3 DEF HitsSoFar
      <4> QED
        BY <3>2, <3>8, <4>1, <4>2 DEF HitsSoFar
    <3>10. PICK t, l : t = run.found + collected /\ l = Len(hitq)
      OBVIOUS
    <3>11. t \in Nat /\ l \in Nat /\ Total = t + l /\ Total' = t + (l + c)
      BY <1>2, <1>5, <2>1, <3>4, <3>10 DEF Total, RunTrue
    <3>12. CountTrue'
      <4>1. t + l >= Cardinality(old) /\ (~paused => t + l = Cardinality(old))
        BY <3>1, <3>8, <3>11 DEF CountTrue
      <4>2. PICK o : o = Cardinality(old)
        OBVIOUS
      <4> HIDE DEF c
      <4>3. t + (l + c) >= o + c /\ (~paused => t + (l + c) = o + c)
        BY <2>1, <3>9, <3>11, <4>1, <4>2
      <4> QED
        BY <1>2, <3>8, <3>9, <3>11, <4>2, <4>3 DEF CountTrue
    <3>13. InQueue \subseteq InQueue' /\ S \subseteq InQueue'
      <4> HIDE DEF S
      <4> QED
        BY <2>1 DEF InQueue
    <3>14. SafeTrue'
      <4>1. metadata => old \subseteq durable[run.job] \cup SentOf(run.job) \cup InQueue
        BY <3>1, <3>8 DEF SafeTrue
      <4>2. SentOf(run.job)' = SentOf(run.job)
        BY <1>2 DEF SentOf
      <4> HIDE DEF S
      <4>3. metadata' => more \subseteq durable'[run'.job] \cup SentOf(run.job)' \cup InQueue'
        BY <1>2, <1>13, <3>9, <3>13, <4>1, <4>2
      <4> QED
        BY <3>8, <4>3 DEF SafeTrue
    <3> QED
      BY <3>3, <3>5, <3>6, <3>12, <3>14 DEF ScanTrue
  <2> QED
    BY <1>2, <1>4, <1>6, <1>9, <1>10, <1>14, <2>2, <2>3, FrameStep
<1> QED
  BY <1>3, <1>15, <1>16, <1>17

-----------------------------------------------------------------------------
(* The invariant.                                                          *)

(* It holds at the start.                                                  *)
LEMMA InitTrue == Init => IInv
<1> SUFFICES ASSUME Init PROVE IInv
  OBVIOUS
<1>1. /\ jobs = <<>> /\ durable = <<>> /\ resumed = <<>> /\ present = 1 .. Sealed
      /\ shutdown = FALSE /\ metadata = TRUE /\ paused = FALSE /\ refused = FALSE
      /\ sched = [pc |-> "start"] /\ run = NoRun /\ work = [w \in Workers |-> <<>>] /\ dead = {}
      /\ hitq = <<>> /\ sent = {}
  BY DEF Init
<1>2. TableTrue
  BY <1>1, EmptySequence DEF TableTrue
<1>3. PresentTrue
  <2>1. Sealed \in Nat
    BY ReplayAssumption
  <2>2. Cardinality(1 .. Sealed) = Sealed
    BY <2>1, FS_Interval
  <2> DEFINE s == [i \in 1 .. Sealed |-> i]
  <2>3. s \in [1 .. Sealed -> 1 .. Sealed] /\ \A i, k \in DOMAIN s : i < k => s[i] < s[k]
    OBVIOUS
  <2> HIDE DEF s
  <2>4. \E q \in [1 .. Cardinality(present) -> present] : \A i, k \in DOMAIN q : i < k => q[i] < q[k]
    BY <1>1, <2>2, <2>3
  <2> QED
    BY <1>1, <2>4 DEF PresentTrue, Segments
<1>4. SchedTrue
  <2>1. sched.pc = "start"
    BY <1>1
  <2> QED
    BY <1>1, <2>1 DEF SchedTrue
<1>5. run.pc = "none"
  BY <1>1 DEF NoRun
<1> QED
  BY <1>2, <1>3, <1>4, <1>5 DEF IInv, Active

(* A job is taken up, again or for the first time.                         *)
LEMMA BeginSteps ==
    ASSUME IInv, Recover \/ Execute
    PROVE  IInv'
<1>1. SchedTrue
  BY DEF IInv
<1>2. CASE Recover
  <2>1. sched.job \in DOMAIN jobs /\ sched.todo \subseteq DOMAIN jobs /\ Begin(sched.job, sched.todo)
    BY <1>1, <1>2 DEF Recover, SchedTrue
  <2> QED
    BY <2>1, BeginStep
<1>3. CASE Execute
  <2>1. sched.job \in DOMAIN jobs /\ {} \subseteq DOMAIN jobs /\ Begin(sched.job, {})
    BY <1>1, <1>3 DEF Execute, SchedTrue
  <2> QED
    BY <2>1, BeginStep
<1> QED
  BY <1>2, <1>3

(* Every step keeps it.                                                    *)
LEMMA NextTrue == IInv /\ [Next]_vars => IInv'
<1> SUFFICES ASSUME IInv, [Next]_vars PROVE IInv'
  OBVIOUS
<1>1. CASE \/ ListJobs \/ ListFails \/ NextJob \/ RecoverFails \/ BeginFails \/ TakeFirst \/ Coalesce
           \/ CloseBatch \/ Snapshot \/ create_replay_job \/ BatchFails \/ Restart \/ Retain
  BY <1>1, SchedulerSteps
<1>2. CASE Recover \/ Execute
  BY <1>2, BeginSteps
<1>3. CASE TakeProgress
  BY <1>3, TakeProgressStep
<1>4. CASE Finish
  BY <1>4, FinishStep
<1>5. CASE Kill \/ Stop
  BY <1>5, DownSteps
<1>6. CASE NextSegment
  BY <1>6, NextSegmentStep
<1>7. CASE Dispatch
  BY <1>7, DispatchStep
<1>8. CASE ScanFails \/ AwaitCollector
  BY <1>8, FailSteps
<1>9. CASE Interrupt
  BY <1>9, InterruptStep
<1>10. CASE SendBarriers
  BY <1>10, SendBarriersStep
<1>11. CASE AwaitWorkers
  BY <1>11, AwaitWorkersStep
<1>12. CASE Checkpoint
  BY <1>12, CheckpointStep
<1>13. CASE Join
  BY <1>13, JoinStep
<1>14. CASE CollectHit
  BY <1>14, CollectHitStep
<1>15. CASE CollectBarrier
  BY <1>15, CollectBarrierStep
<1>16. CASE \E w \in Workers : ScanOne(w)
  BY <1>16, ScanOneStep
<1>17. CASE (\E p \in Patterns : enqueue(p)) \/ UNCHANGED vars
  BY <1>17, EnqueueStep
<1>18. CASE Spool \/ MetadataStops \/ RequestShutdown
  BY <1>18, WriterSteps
<1> QED
  BY <1>1, <1>2, <1>3, <1>4, <1>5, <1>6, <1>7, <1>8, <1>9, <1>10, <1>11, <1>12, <1>13, <1>14,
     <1>15, <1>16, <1>17, <1>18 DEF Next, Scheduler, ScanThread, Collector

(* It says what a checkpoint promises.                                     *)
LEMMA CheckpointFollows == IInv => CheckpointDurable
<1> SUFFICES ASSUME IInv PROVE CheckpointDurable
  OBVIOUS
<1>1. TableTrue /\ SchedTrue
  BY DEF IInv
<1>2. ASSUME NEW j \in DOMAIN jobs
      PROVE  /\ jobs[j].status \in {"queued", "running", "completed", "failed"}
             /\ RowTrue(jobs[j].paths, resumed[j], durable[j], ~paused, jobs[j].done, jobs[j].found)
             /\ jobs[j].status = "completed" => jobs[j].done = Len(jobs[j].paths)
  BY <1>1 DEF TableTrue, JobTrue
<1>3. TypeOK
  <2>1. run.pc # "none" => sched.pc = "executing" /\ run.job = sched.job
    BY <1>1 DEF SchedTrue, NoRun
  <2> QED
    BY <1>1, <1>2, <2>1 DEF TypeOK, SchedTrue, RowTrue
<1> QED
  BY <1>2, <1>3 DEF CheckpointDurable, RowTrue

(* What the tables, the scheduler, the thread, its workers and the         *)
(* collector hold stays true through every interleaving of them with       *)
(* kills, shutdowns, restarts, retention and failures.                     *)
THEOREM ReplayInvariant == Spec => []IInv
BY InitTrue, NextTrue, PTL DEF Spec

(* A checkpoint is a commit point (run_replay, execute_job): in every      *)
(* reachable state, for any segments and any number of workers, starts and *)
(* failures, the hits of the segments a row of replay_jobs counts as done  *)
(* are durable and counted, exactly if no shutdown came in between, and a  *)
(* completed job has scanned all of its segments.                          *)
THEOREM ReplayCheckpointDurable == Spec => []CheckpointDurable
BY ReplayInvariant, CheckpointFollows, PTL

=============================================================================
