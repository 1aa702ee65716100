------------------------- MODULE SegmentStoreProofs -------------------------
(***************************************************************************)
(* The safety of the segment store for every set of records, every         *)
(* capacity, budget and number of starts.  Each theorem names the faults   *)
(* it is proved under: what a killed process and what a power failure      *)
(* leave behind differ.                                                    *)
(***************************************************************************)
EXTENDS SegmentStore, FiniteSetTheorems, TLAPS

-----------------------------------------------------------------------------
(* Facts about numbers.                                                    *)

(* A non-empty set of natural numbers has a least element: induction is by *)
(* a least counterexample.                                                 *)
LEMMA LeastNatural ==
    ASSUME NEW S \in SUBSET Nat, S # {}
    PROVE  \E n \in S : \A m \in S : n <= m
<1> DEFINE R == OpToRel(<, Nat)
<1>1. IsWellFoundedOn(R, Nat)
  BY NatLessThanWellFounded
<1>2. \A m, n \in Nat : m < n => <<m, n>> \in R
  BY DEF OpToRel
<1> HIDE DEF R
<1>3. PICK n \in S : \A m \in S : ~(<<m, n>> \in R)
  BY <1>1, WFMin
<1>4. \A m \in S : ~(m < n)
  BY <1>2, <1>3
<1>5. \A m \in S : n <= m
  BY <1>4
<1> QED
  BY <1>5

-----------------------------------------------------------------------------
Segment == [recs : Seq(Records), vis : Nat, syn : Nat, torn : BOOLEAN]
ReplayState ==
    [pc : {"idle", "sealing", "scanning", "failed"}, snap : SUBSET Nat,
     before : SUBSET Records, after : SUBSET Records]
RetentionState ==
    [pc : {"idle", "sealing", "scan", "barrier", "mutate", "delete"},
     guard : BOOLEAN, cutoff : Cutoffs \cup {0}, paths : SUBSET Nat]

RecordCmds == {RecordCmd(r) : r \in Records}
Seals == {SealCmd(w) : w \in {"replay", "retention", "nobody"}}

Types ==
    /\ TypeOK
    /\ segs \in [DOMAIN segs -> Segment]
    /\ nextSeg >= 1
    /\ replay \in ReplayState /\ retention \in RetentionState

(* The two halves of Types: the segment files and everything else.         *)
SegTypes ==
    /\ segs \in [DOMAIN segs -> Segment] /\ nextSeg \in Nat /\ nextSeg >= 1
    /\ \A s \in DOMAIN segs :
          /\ s \in 1..(nextSeg - 1)
          /\ segs[s].syn <= segs[s].vis /\ segs[s].vis <= FileBytes(segs[s])
PlainTypes ==
    /\ phase \in {"down", "flushing", "rebuild", "marker", "running", "closing"}
    /\ starts \in 0..MaxStarts /\ seals \in 0..MaxSeals
    /\ rx \in Seq(Commands) /\ Len(rx) <= Capacity
    /\ marker \in BOOLEAN
    /\ wpc \in {"init", "recv", "write", "publish", "commit", "rotate", "stopped"}
    /\ then \in {"recv", "commit", "stop"} /\ cmd \in Commands
    /\ pending \in Seq(Rows) /\ Len(pending) <= PendingMax
    /\ retained_bytes \in Nat
    /\ todo \subseteq Rows /\ meta \subseteq Rows /\ spool \subseteq Rows
    /\ ch \subseteq Rows /\ metaUp \in BOOLEAN
    /\ replay \in ReplayState /\ retention \in RetentionState
    /\ accepted \subseteq Records /\ cutoff \in Cutoffs \cup {0}

(* The writer has left its loop, or is about to close a segment.           *)
Stopping == wpc = "stopped" \/ (wpc = "publish" /\ then = "stop")
Committing == wpc \in {"commit", "rotate"} \/ (wpc = "publish" /\ then = "commit")

(* Where the writer is: its segment is the newest of the store.            *)
WriterAt ==
    /\ wpc = "init" => active = 0
    /\ Up /\ wpc # "init" => active \in DOMAIN segs /\ active = nextSeg - 1

(* Which command it holds at each point of its loop.                       *)
WriterCmd ==
    /\ wpc \in {"init", "recv"} \/ Stopping => cmd = NoCmd
    /\ wpc = "write" => cmd \in RecordCmds
    /\ Committing => cmd \in RecordCmds \cup Seals
    /\ wpc = "publish" /\ then = "recv" => cmd \in {NoCmd, FlushCmd}

(* Its unpublished index rows are of records of its segment.               *)
WriterRows ==
    /\ wpc \in {"init", "commit", "rotate"} => pending = <<>>
    /\ wpc \in {"init", "recv", "write"} => Len(pending) < PendingMax
    /\ \A i \in 1..Len(pending) :
          pending[i][2] = active /\ \E j \in 1..Len(segs[active].recs) :
                                       segs[active].recs[j] = pending[i][1]

WriterInv == WriterAt /\ WriterCmd /\ WriterRows

(* What holds in each phase of the process.                                *)
PhaseInv ==
    /\ ~Up => /\ rx = <<>> /\ cmd = NoCmd /\ wpc = "stopped" /\ active = 0
              /\ pending = <<>> /\ meta = {} /\ ~metaUp
    /\ phase = "flushing" =>
          \/ wpc \in {"init", "recv"} /\ rx = <<FlushCmd>>
          \/ wpc = "publish" /\ then = "recv" /\ cmd = FlushCmd /\ rx = <<>>
    /\ phase \in {"rebuild", "marker"} => wpc \in {"init", "recv"} /\ rx = <<>>
    /\ phase \in {"flushing", "rebuild", "marker"} =>
          /\ pending = <<>> /\ metaUp
          /\ wpc # "init" => segs[active].recs = <<>>
    /\ phase # "flushing" => cmd # FlushCmd /\ \A i \in 1..Len(rx) : rx[i] # FlushCmd
    /\ phase # "rebuild" => todo = {}
    /\ phase = "marker" => meta = {}
    /\ phase \in {"running", "closing"} => marker
    /\ phase # "running" => replay = Idle /\ retention = NoRetention

(* Each caller has at most one seal on its way, and waits for it.          *)
SealInv ==
    /\ \A w \in {"replay", "retention"} :
          /\ \A i, j \in 1..Len(rx) : rx[i] = SealCmd(w) /\ rx[j] = SealCmd(w) => i = j
          /\ cmd = SealCmd(w) => \A i \in 1..Len(rx) : rx[i] # SealCmd(w)
    /\ \A i \in 1..Len(rx) : rx[i] = SealCmd("replay") => replay.pc = "sealing"
    /\ \A i \in 1..Len(rx) : rx[i] = SealCmd("retention") => retention.pc = "sealing"
    /\ cmd = SealCmd("replay") => replay.pc = "sealing"
    /\ cmd = SealCmd("retention") => retention.pc = "sealing"

(* The maintenance lock: retention keeps it up to the deletion, and from   *)
(* then on unless its client went away; no replay runs under it.           *)
GuardInv ==
    /\ retention.pc \in {"sealing", "scan", "barrier", "mutate"} => retention.guard
    /\ retention.pc = "delete" /\ ~Disconnects => retention.guard
    /\ retention.guard => replay.pc = "idle"
    /\ replay.pc = "idle" => replay = Idle
    /\ retention.pc = "idle" => retention = NoRetention
    /\ retention.pc = "sealing" => retention.paths = {}

(* Both work on segments that the writer has left.                         *)
ClosedInv ==
    /\ retention.paths \subseteq DOMAIN segs \ {active}
    /\ replay.pc = "scanning" => \A s \in replay.snap : s < active

UserInv == SealInv /\ GuardInv /\ ClosedInv

(* Everything written to a segment that is not the active one can be read. *)
AllVisible(seg) == seg.vis = FileBytes(seg) \/ seg.recs = <<>>

VisibleInv ==
    /\ \A s \in DOMAIN segs : s # active => AllVisible(segs[s])
    /\ Up /\ (wpc \in {"publish", "commit", "rotate", "stopped"}) =>
          segs[active].vis = FileBytes(segs[active])
    /\ retention.pc \in {"barrier", "mutate", "delete"} =>
          \A s \in retention.paths : Expired(s, retention.cutoff)

(* A whole segment: complete, and synced if power failures happen.         *)
Whole(seg) ==
    /\ seg.vis = FileBytes(seg) /\ ~seg.torn
    /\ "power" \in Faults => seg.syn = FileBytes(seg)

ReadInv ==
    /\ \A s \in DOMAIN segs : s # (IF Up THEN active ELSE LatestSegment) => Whole(segs[s])
    /\ ~Up => \A s \in DOMAIN segs :
          /\ segs[s].vis >= HeaderSize => segs[s].vis = FileBytes(segs[s])
          /\ "power" \in Faults => segs[s].syn = segs[s].vis
    /\ Up /\ wpc # "init" => ~segs[active].torn
    /\ Up /\ (Committing \/ Stopping) => Whole(segs[active])

(* A record that has its durable index row, or lost it to retention.       *)
Indexed(r, s) == <<r, s>> \in spool \cup ch \/ r < cutoff

IndexInv ==
    /\ ~Up /\ marker => \A s \in DOMAIN segs : s # LatestSegment =>
          \A i \in 1..Len(segs[s].recs) : Indexed(segs[s].recs[i], s)
    /\ phase \in {"marker", "running", "closing"} =>
          \A s \in DOMAIN segs : s # active =>
             \A i \in 1..Len(segs[s].recs) : Indexed(segs[s].recs[i], s)
    /\ phase = "rebuild" =>
          \A s \in DOMAIN segs : s # active =>
             \A i \in 1..Len(segs[s].recs) :
                Indexed(segs[s].recs[i], s) \/ <<segs[s].recs[i], s>> \in meta \cup todo
    /\ Up /\ metaUp /\ wpc # "init" => \A i \in 1..Len(segs[active].recs) :
          \/ Indexed(segs[active].recs[i], active)
          \/ <<segs[active].recs[i], active>> \in meta
          \/ \E j \in 1..Len(pending) : pending[j] = <<segs[active].recs[i], active>>
    /\ wpc = "rotate" => \A i \in 1..Len(segs[active].recs) :
          Indexed(segs[active].recs[i], active)

(* A row whose record can be read.                                         *)
Backed(row) ==
    /\ row[2] \in DOMAIN segs
    /\ \E i \in 1..Len(segs[row[2]].recs) :
          i + HeaderSize <= segs[row[2]].vis /\ segs[row[2]].recs[i] = row[1]

RowInv ==
    /\ \A row \in meta \cup spool \cup ch \cup todo : Backed(row)
    /\ retention.pc \in {"mutate", "delete"} =>
          \A row \in meta \cup spool : row[2] \notin retention.paths
    /\ retention.pc = "mutate" =>
          \A row \in ch : row[2] \in retention.paths => row[1] < retention.cutoff
    /\ retention.pc = "delete" => \A row \in ch : row[2] \notin retention.paths

(* Where an accepted record can be: in a file, or in the queue, there      *)
(* ahead of a replay's seal or not.                                        *)
In(r, s) == \E i \in 1..Len(segs[s].recs) : segs[s].recs[i] = r
Stored(r) == \E s \in DOMAIN segs : In(r, s)
Queued(r) == \E i \in 1..Len(rx) : rx[i] = RecordCmd(r)
SealQueued == \E k \in 1..Len(rx) : rx[k] = SealCmd("replay")
Ahead(r) ==
    \E k \in 1..Len(rx) : /\ rx[k] = SealCmd("replay")
                          /\ \E i \in 1..Len(rx) : i < k /\ rx[i] = RecordCmd(r)

PlaceInv ==
    /\ \A r \in Records :
          /\ Stored(r) => r \in accepted
          /\ Queued(r) => r \in accepted /\ ~Stored(r) /\ cmd # RecordCmd(r)
          /\ cmd = RecordCmd(r) => r \in accepted /\ ~Stored(r)
          /\ \A i, j \in 1..Len(rx) : rx[i] = RecordCmd(r) /\ rx[j] = RecordCmd(r) => i = j
          /\ \A s, t \in DOMAIN segs : In(r, s) /\ In(r, t) => s = t
    /\ ~Up \/ ~Stopping => \A r \in accepted : Stored(r) \/ cmd = RecordCmd(r) \/ Queued(r)

SnapInv ==
    /\ SealQueued =>
          /\ ~Stopping => \A r \in replay.before : Stored(r) \/ cmd = RecordCmd(r) \/ Ahead(r)
          /\ \A r \in replay.after : ~Stored(r) /\ cmd # RecordCmd(r) /\ ~Ahead(r)
    /\ cmd = SealCmd("replay") =>
          /\ \A r \in replay.before : Stored(r)
          /\ \A r \in replay.after : ~Stored(r)
    /\ replay.pc = "scanning" =>
          /\ replay.snap \subseteq DOMAIN segs
          /\ \A r \in replay.before : \E s \in replay.snap : In(r, s)
          /\ \A r \in replay.after : \A s \in replay.snap : ~In(r, s)
-----------------------------------------------------------------------------
(* Segments.                                                               *)

(* What can be read of a segment (scan_path): the records whose bytes have *)
(* left the BufWriter.                                                     *)
LEMMA VisibleRecords ==
    ASSUME NEW seg \in Segment, seg.vis <= FileBytes(seg), NEW r
    PROVE  r \in ToSet(Visible(seg)) <=>
             \E i \in 1..Len(seg.recs) : i + HeaderSize <= seg.vis /\ seg.recs[i] = r
<1>1. /\ seg.recs \in Seq(Records) /\ Len(seg.recs) \in Nat /\ seg.vis \in Nat
      /\ seg.vis - 1 <= Len(seg.recs)
  BY DEF Segment, FileBytes, HeaderSize
<1> DEFINE q == SubSeq(seg.recs, 1, seg.vis - 1)
<1>2. /\ q \in Seq(Records) /\ DOMAIN q = 1..(seg.vis - 1)
      /\ \A i \in 1..(seg.vis - 1) : q[i] = seg.recs[i]
  BY <1>1
<1>3. ToSet(Visible(seg)) = {q[i] : i \in DOMAIN q}
  BY DEF ToSet, Visible, HeaderSize
<1> HIDE DEF q
<1>4. \A i \in 1..(seg.vis - 1) : i \in 1..Len(seg.recs) /\ i + 1 <= seg.vis
  BY <1>1
<1>5. \A i \in 1..Len(seg.recs) : i + 1 <= seg.vis => i \in 1..(seg.vis - 1)
  BY <1>1
<1> QED
  BY <1>2, <1>3, <1>4, <1>5 DEF HeaderSize

(* The parts of a segment, and what a flush and a sync do to them.         *)
LEMMA SegmentParts ==
    ASSUME NEW seg \in Segment
    PROVE  /\ seg.recs \in Seq(Records) /\ Len(seg.recs) \in Nat /\ seg.vis \in Nat
           /\ seg.syn \in Nat /\ seg.torn \in BOOLEAN /\ FileBytes(seg) \in Nat
           /\ FileBytes(seg) = Len(seg.recs) + 1
           /\ Flushed(seg) \in Segment /\ Flushed(seg).recs = seg.recs
           /\ Flushed(seg).vis = FileBytes(seg) /\ Flushed(seg).syn = seg.syn
           /\ Flushed(seg).torn = seg.torn
           /\ Synced(seg) \in Segment /\ Synced(seg).recs = seg.recs
           /\ Synced(seg).vis = FileBytes(seg) /\ Synced(seg).syn = FileBytes(seg)
           /\ Synced(seg).torn = seg.torn
<1>1. /\ seg.recs \in Seq(Records) /\ seg.vis \in Nat /\ seg.syn \in Nat
      /\ seg.torn \in BOOLEAN
  BY DEF Segment
<1>2. Len(seg.recs) \in Nat
  BY <1>1
<1>3. FileBytes(seg) = Len(seg.recs) + 1 /\ FileBytes(seg) \in Nat
  BY <1>2 DEF FileBytes, HeaderSize
<1> DEFINE n == FileBytes(seg)
<1> HIDE DEF n
<1>4. Flushed(seg) = [seg EXCEPT !.vis = n]
  BY DEF Flushed, n
<1>5. Synced(seg) = [seg EXCEPT !.vis = n, !.syn = n]
  BY DEF Synced, n
<1>6. n \in Nat
  BY <1>3 DEF n
<1>7. /\ Flushed(seg) \in Segment /\ Flushed(seg).recs = seg.recs
      /\ Flushed(seg).vis = n /\ Flushed(seg).syn = seg.syn /\ Flushed(seg).torn = seg.torn
  BY <1>4, <1>6 DEF Segment
<1>8. /\ Synced(seg) \in Segment /\ Synced(seg).recs = seg.recs
      /\ Synced(seg).vis = n /\ Synced(seg).syn = n /\ Synced(seg).torn = seg.torn
  BY <1>5, <1>6 DEF Segment
<1> QED
  BY <1>1, <1>2, <1>3, <1>7, <1>8 DEF n

(* A flush, a sync and a write touch the active segment only.              *)
LEMMA FlushFacts ==
    ASSUME Types, active \in DOMAIN segs, flush_visible
    PROVE  /\ DOMAIN segs' = DOMAIN segs /\ segs' \in [DOMAIN segs -> Segment]
           /\ \A s \in DOMAIN segs : s # active => segs'[s] = segs[s]
           /\ segs'[active].recs = segs[active].recs
           /\ segs'[active].vis = FileBytes(segs[active])
           /\ segs'[active].syn = segs[active].syn
           /\ segs'[active].torn = segs[active].torn
<1>1. segs \in [DOMAIN segs -> Segment] /\ segs[active] \in Segment
  BY DEF Types
<1>2. segs' = [segs EXCEPT ![active] = Flushed(segs[active])]
  BY DEF flush_visible
<1> QED
  BY <1>1, <1>2, SegmentParts

(* flush_sync: the same, and the bytes are on the disk.                    *)
LEMMA SyncFacts ==
    ASSUME Types, active \in DOMAIN segs, flush_sync
    PROVE  /\ DOMAIN segs' = DOMAIN segs /\ segs' \in [DOMAIN segs -> Segment]
           /\ \A s \in DOMAIN segs : s # active => segs'[s] = segs[s]
           /\ segs'[active].recs = segs[active].recs
           /\ segs'[active].vis = FileBytes(segs[active])
           /\ segs'[active].syn = FileBytes(segs[active])
           /\ segs'[active].torn = segs[active].torn
<1>1. segs \in [DOMAIN segs -> Segment] /\ segs[active] \in Segment
  BY DEF Types
<1>2. segs' = [segs EXCEPT ![active] = Synced(segs[active])]
  BY DEF flush_sync
<1> QED
  BY <1>1, <1>2, SegmentParts

(* write_prepared appends one record.                                      *)
LEMMA WriteFacts ==
    ASSUME Types, active \in DOMAIN segs, NEW r \in Records, cmd.rec = r, WriteRecord
    PROVE  /\ DOMAIN segs' = DOMAIN segs /\ segs' \in [DOMAIN segs -> Segment]
           /\ \A s \in DOMAIN segs : s # active => segs'[s] = segs[s]
           /\ segs'[active].recs = Append(segs[active].recs, r)
           /\ segs'[active].vis \in {segs[active].vis, Len(segs[active].recs) + 2}
           /\ wpc' \in {"recv", "publish"}
           /\ wpc' = "publish" => segs'[active].vis = Len(segs[active].recs) + 2
           /\ wpc' = "recv" => Len(pending) + 1 < PendingMax
           /\ segs'[active].syn = segs[active].syn
           /\ segs'[active].torn = segs[active].torn
<1> DEFINE old == segs[active]
           seg == [old EXCEPT !.recs = Append(@, r)]
           full == Len(pending) + 1 >= PendingMax
<1>1. segs \in [DOMAIN segs -> Segment] /\ old \in Segment /\ Len(old.recs) \in Nat
  BY DEF Types, Segment
<1>2. /\ seg \in Segment /\ seg.recs = Append(old.recs, r) /\ seg.vis = old.vis
      /\ seg.syn = old.syn /\ seg.torn = old.torn /\ Len(seg.recs) = Len(old.recs) + 1
  <2> DEFINE q == Append(old.recs, r)
  <2>1. old.recs \in Seq(Records)
    BY <1>1 DEF Segment
  <2>2. q \in Seq(Records) /\ Len(q) = Len(old.recs) + 1
    BY <2>1
  <2>3. seg = [old EXCEPT !.recs = q]
    OBVIOUS
  <2> HIDE DEF q, old, seg
  <2>4. /\ seg \in Segment /\ seg.recs = q /\ seg.vis = old.vis
        /\ seg.syn = old.syn /\ seg.torn = old.torn
    BY <1>1, <2>2, <2>3 DEF Segment
  <2> QED
    BY <2>2, <2>4 DEF q
<1>3. /\ segs' = [segs EXCEPT ![active] = IF full THEN Flushed(seg) ELSE seg]
      /\ wpc' = IF full THEN "publish" ELSE "recv"
  BY DEF WriteRecord
<1>4. Len(pending) \in Nat /\ PendingMax \in Nat
  BY PendingMaxAssumption DEF Types, TypeOK
<1> HIDE DEF seg, old
<1>5. CASE full
  <2>1. segs' = [segs EXCEPT ![active] = Flushed(seg)] /\ wpc' = "publish"
    BY <1>3, <1>5
  <2>2. Flushed(seg) \in Segment /\ Flushed(seg).recs = seg.recs
        /\ Flushed(seg).vis = Len(seg.recs) + 1 /\ Flushed(seg).syn = seg.syn
        /\ Flushed(seg).torn = seg.torn
    BY <1>2, SegmentParts
  <2>3. segs'[active] = Flushed(seg)
    BY <1>1, <2>1
  <2> QED
    BY <1>1, <1>2, <2>1, <2>2, <2>3 DEF old
<1>6. CASE ~full
  <2>1. segs' = [segs EXCEPT ![active] = seg] /\ wpc' = "recv"
    BY <1>3, <1>6
  <2>2. segs'[active] = seg
    BY <1>1, <2>1
  <2> QED
    BY <1>1, <1>2, <1>4, <1>6, <2>1, <2>2 DEF old
<1> QED
  BY <1>5, <1>6

(* create_segment adds an empty file under a name that was never used.     *)
LEMMA OpenFacts ==
    ASSUME Types, OpenSegment(segs)
    PROVE  /\ DOMAIN segs' = DOMAIN segs \cup {nextSeg} /\ nextSeg \notin DOMAIN segs
           /\ segs' \in [DOMAIN segs' -> Segment]
           /\ \A s \in DOMAIN segs : segs'[s] = segs[s]
           /\ segs'[nextSeg].recs = <<>> /\ segs'[nextSeg].vis = 0
           /\ segs'[nextSeg].syn = 0 /\ segs'[nextSeg].torn = FALSE
           /\ active' = nextSeg /\ nextSeg' = nextSeg + 1 /\ nextSeg \in Nat
<1>1. /\ segs \in [DOMAIN segs -> Segment] /\ nextSeg \in Nat
      /\ \A s \in DOMAIN segs : s \in 1..(nextSeg - 1)
  BY DEF Types, TypeOK
<1>2. nextSeg \notin DOMAIN segs
  BY <1>1
<1>3. EmptySegment \in Segment
  BY DEF EmptySegment, Segment
<1>4. /\ EmptySegment.recs = <<>> /\ EmptySegment.vis = 0 /\ EmptySegment.syn = 0
      /\ EmptySegment.torn = FALSE
  BY DEF EmptySegment
<1> QED
  BY <1>1, <1>2, <1>3, <1>4 DEF OpenSegment

(* What a crash leaves of a segment: a prefix, all of it visible.          *)
LEMMA CutFacts ==
    ASSUME NEW seg \in Segment, NEW v \in 0..FileBytes(seg), NEW y \in Nat, NEW t \in BOOLEAN,
           NEW c, c = Cut(seg, v, y, t)
    PROVE  /\ c \in Segment /\ c.vis = v /\ c.syn = y
           /\ Len(c.recs) \in Nat /\ Len(c.recs) <= Len(seg.recs)
           /\ v = 0 => c.recs = <<>>
           /\ v > 0 => Len(c.recs) = v - 1
           /\ \A i \in 1..Len(c.recs) : i \in 1..Len(seg.recs) /\ c.recs[i] = seg.recs[i]
<1>1. seg.recs \in Seq(Records) /\ Len(seg.recs) \in Nat /\ v \in Nat /\ v - 1 <= Len(seg.recs)
  BY DEF Segment, FileBytes, HeaderSize
<1> DEFINE q == SubSeq(seg.recs, 1, v - 1)
<1>2. /\ q \in Seq(Records) /\ (v > 0 => Len(q) = v - 1) /\ (v = 0 => Len(q) = 0)
      /\ \A i \in 1..(v - 1) : q[i] = seg.recs[i]
  BY <1>1
<1>3. v = 0 => q = <<>>
  BY <1>2
<1>4. c = [recs |-> q, vis |-> v, syn |-> y, torn |-> t]
  BY DEF Cut, HeaderSize
<1> HIDE DEF q
<1>5. c \in Segment /\ c.recs = q /\ c.vis = v /\ c.syn = y
  BY <1>1, <1>2, <1>4 DEF Segment
<1> QED
  BY <1>1, <1>2, <1>3, <1>5

(* The newest segment of a directory.                                      *)
LEMMA LatestFacts ==
    ASSUME Types
    PROVE  DOMAIN segs # {} =>
             LatestSegment \in DOMAIN segs /\ \A s \in DOMAIN segs : s <= LatestSegment
<1> SUFFICES ASSUME DOMAIN segs # {}
             PROVE  LatestSegment \in DOMAIN segs /\ \A s \in DOMAIN segs : s <= LatestSegment
  OBVIOUS
<1> DEFINE D == DOMAIN segs
           B == {n \in Nat : \A s \in D : s <= n}
<1>1. nextSeg \in Nat /\ \A s \in D : s \in Nat /\ s <= nextSeg
  BY DEF Types, TypeOK
<1>2. PICK n \in B : \A m \in B : n <= m
  BY <1>1, LeastNatural
<1>3. n \in D
  <2> SUFFICES ASSUME n \notin D PROVE FALSE
    OBVIOUS
  <2>1. \A s \in D : s <= n - 1
    BY <1>1, <1>2
  <2>2. n - 1 \in Nat
    BY <1>1, <1>2, <2>1
  <2> QED
    BY <1>2, <2>1, <2>2
<1>4. n \in D /\ \A s \in D : n >= s
  BY <1>1, <1>2, <1>3
<1>5. LatestSegment = CHOOSE x \in D : \A y \in D : x >= y
  BY DEF LatestSegment, list_segments, Max
<1>6. LatestSegment \in D /\ \A y \in D : LatestSegment >= y
  BY <1>4, <1>5
<1> QED
  BY <1>1, <1>6

(* The parts of the segments of the store.                                 *)
LEMMA StoreParts ==
    ASSUME Types
    PROVE  \A s \in DOMAIN segs :
             /\ segs[s] \in Segment /\ s \in Nat /\ s >= 1 /\ s < nextSeg
             /\ segs[s].recs \in Seq(Records) /\ Len(segs[s].recs) \in Nat
             /\ segs[s].vis \in Nat /\ segs[s].syn \in Nat /\ segs[s].torn \in BOOLEAN
             /\ FileBytes(segs[s]) = Len(segs[s].recs) + 1
             /\ segs[s].syn <= segs[s].vis /\ segs[s].vis <= FileBytes(segs[s])
             /\ AllVisible(segs[s]) /\ segs[s].vis >= 1 => segs[s].vis = FileBytes(segs[s])
<1> SUFFICES ASSUME NEW s \in DOMAIN segs
             PROVE  /\ segs[s] \in Segment /\ s \in Nat /\ s >= 1 /\ s < nextSeg
                    /\ segs[s].recs \in Seq(Records) /\ Len(segs[s].recs) \in Nat
                    /\ segs[s].vis \in Nat /\ segs[s].syn \in Nat /\ segs[s].torn \in BOOLEAN
                    /\ FileBytes(segs[s]) = Len(segs[s].recs) + 1
                    /\ segs[s].syn <= segs[s].vis /\ segs[s].vis <= FileBytes(segs[s])
                    /\ AllVisible(segs[s]) /\ segs[s].vis >= 1 => segs[s].vis = FileBytes(segs[s])
  OBVIOUS
<1>1. segs[s] \in Segment
  BY DEF Types
<1>2. /\ segs[s].recs \in Seq(Records) /\ Len(segs[s].recs) \in Nat
      /\ segs[s].vis \in Nat /\ segs[s].syn \in Nat /\ segs[s].torn \in BOOLEAN
      /\ FileBytes(segs[s]) = Len(segs[s].recs) + 1
  BY <1>1, SegmentParts
<1>3. /\ s \in 1..(nextSeg - 1) /\ nextSeg \in Nat
      /\ segs[s].syn <= segs[s].vis /\ segs[s].vis <= FileBytes(segs[s])
  BY DEF Types, TypeOK
<1>4. segs[s].recs = <<>> => Len(segs[s].recs) = 0
  BY <1>2
<1> QED
  BY <1>1, <1>2, <1>3, <1>4 DEF AllVisible

(* What the end of a process leaves: of every segment a prefix, all of     *)
(* which can be read.                                                      *)
Left(fs) ==
    /\ DOMAIN fs = DOMAIN segs /\ fs \in [DOMAIN segs -> Segment]
    /\ \A s \in DOMAIN segs :
         /\ fs[s].syn <= fs[s].vis /\ fs[s].vis <= FileBytes(fs[s])
         /\ AllVisible(fs[s])
         /\ fs[s].vis >= HeaderSize => fs[s].vis = FileBytes(fs[s])
         /\ \A i \in 1..Len(fs[s].recs) :
               i \in 1..Len(segs[s].recs) /\ fs[s].recs[i] = segs[s].recs[i]

(* A cut segment is such a prefix.                                         *)
LEMMA CutLeft ==
    ASSUME NEW seg \in Segment, NEW v \in 0..FileBytes(seg), NEW y \in Nat, y <= v,
           NEW t \in BOOLEAN, NEW c, c = Cut(seg, v, y, t)
    PROVE  /\ c \in Segment /\ c.syn <= c.vis /\ c.vis <= FileBytes(c) /\ AllVisible(c)
           /\ c.vis >= HeaderSize => c.vis = FileBytes(c)
           /\ \A i \in 1..Len(c.recs) : i \in 1..Len(seg.recs) /\ c.recs[i] = seg.recs[i]
<1>1. /\ c \in Segment /\ c.vis = v /\ c.syn = y
      /\ Len(c.recs) \in Nat /\ Len(c.recs) <= Len(seg.recs)
      /\ v = 0 => c.recs = <<>>
      /\ v > 0 => Len(c.recs) = v - 1
      /\ \A i \in 1..Len(c.recs) : i \in 1..Len(seg.recs) /\ c.recs[i] = seg.recs[i]
  BY CutFacts
<1>2. FileBytes(c) = Len(c.recs) + 1 /\ Len(c.recs) \in Nat /\ v \in Nat
  BY <1>1, SegmentParts
<1> QED
  BY <1>1, <1>2 DEF AllVisible, HeaderSize

(* The process that exits has flushed everything.                          *)
LEMMA ExitFacts ==
    ASSUME Types, VisibleInv, Exit
    PROVE  ProcessGone(segs') /\ Left(segs') /\ Up /\ meta' = {} /\ segs' = segs
           /\ wpc = "stopped"
<1>1. ProcessGone(segs) /\ Up /\ meta' = {} /\ segs' = segs /\ wpc = "stopped"
  BY DEF Exit, ProcessGone, Up
<1>2. \A s \in DOMAIN segs : AllVisible(segs[s])
  BY <1>1 DEF VisibleInv, AllVisible
<1>3. segs \in [DOMAIN segs -> Segment]
  BY DEF Types
<1>4. Left(segs)
  BY <1>2, <1>3, StoreParts DEF Left, HeaderSize
<1> QED
  BY <1>1, <1>4

(* A kill spares all but the active segment, and of that one everything    *)
(* that was visible.                                                       *)
LEMMA KillFacts ==
    ASSUME Types, WriterInv, PhaseInv, VisibleInv, Kill
    PROVE  /\ ProcessGone(segs') /\ Left(segs') /\ Up /\ meta' = {}
           /\ UNCHANGED <<spool, ch>>
           /\ \A s \in DOMAIN segs :
                /\ s # active => segs'[s] = segs[s]
                /\ segs[s].vis <= segs'[s].vis /\ segs'[s].syn = segs[s].syn
<1>0. Up /\ meta' = {} /\ UNCHANGED <<spool, ch>>
  BY DEF Kill, Crash
<1>1. segs \in [DOMAIN segs -> Segment]
  BY DEF Types
<1>2. CASE active \notin DOMAIN segs
  <2>1. ProcessGone(segs) /\ segs' = segs
    BY <1>2 DEF Kill, list_segments, ProcessGone
  <2>2. \A s \in DOMAIN segs : AllVisible(segs[s])
    BY <1>2 DEF VisibleInv
  <2>3. Left(segs)
    BY <1>1, <2>2, StoreParts DEF Left, HeaderSize
  <2>4. \A s \in DOMAIN segs : segs[s].vis <= segs[s].vis
    BY StoreParts
  <2> QED
    BY <1>0, <2>1, <2>3, <2>4
<1>3. CASE active \in DOMAIN segs
  <2> DEFINE seg == segs[active]
  <2>1. PICK vis \in seg.vis .. FileBytes(seg), torn \in BOOLEAN :
          ProcessGone([segs EXCEPT ![active] = Cut(seg, vis, seg.syn, torn)])
    BY <1>3 DEF Kill, list_segments
  <2> DEFINE c == Cut(seg, vis, seg.syn, torn)
             fs == [segs EXCEPT ![active] = c]
  <2>2. /\ seg \in Segment /\ seg.syn \in Nat /\ seg.vis \in Nat /\ FileBytes(seg) \in Nat
        /\ seg.syn <= seg.vis /\ vis \in 0..FileBytes(seg) /\ seg.syn <= vis
    <3>1. /\ seg \in Segment /\ seg.syn \in Nat /\ seg.vis \in Nat /\ FileBytes(seg) \in Nat
          /\ seg.syn <= seg.vis
      BY <1>3, StoreParts
    <3> QED
      BY <2>1, <3>1
  <2> HIDE DEF seg, c
  <2>3. /\ c \in Segment /\ c.syn <= c.vis /\ c.vis <= FileBytes(c) /\ AllVisible(c)
        /\ c.vis >= HeaderSize => c.vis = FileBytes(c)
        /\ \A i \in 1..Len(c.recs) : i \in 1..Len(seg.recs) /\ c.recs[i] = seg.recs[i]
    BY <2>1, <2>2, CutLeft DEF c
  <2>4. c.vis = vis /\ c.syn = seg.syn
    BY <2>1, <2>2, CutFacts DEF c
  <2>5. /\ segs' = fs /\ ProcessGone(fs) /\ DOMAIN fs = DOMAIN segs /\ fs[active] = c
        /\ \A s \in DOMAIN segs : s # active => fs[s] = segs[s]
    BY <1>1, <1>3, <2>1 DEF ProcessGone, c
  <2> HIDE DEF fs
  <2>6. \A s \in DOMAIN segs : s # active =>
          /\ segs[s] \in Segment /\ segs[s].syn <= segs[s].vis
          /\ segs[s].vis <= FileBytes(segs[s]) /\ AllVisible(segs[s])
          /\ segs[s].vis >= HeaderSize => segs[s].vis = FileBytes(segs[s])
    BY StoreParts DEF VisibleInv, HeaderSize
  <2>7. Left(segs')
    <3>1. fs \in [DOMAIN segs -> Segment]
      <4>1. \A s \in DOMAIN segs : fs[s] \in Segment
        BY <2>3, <2>5, <2>6
      <4>2. fs = [s \in DOMAIN segs |-> fs[s]]
        BY <1>1, <2>5 DEF fs
      <4> QED
        BY <4>1, <4>2
    <3>2. \A s \in DOMAIN segs :
            /\ fs[s].syn <= fs[s].vis /\ fs[s].vis <= FileBytes(fs[s]) /\ AllVisible(fs[s])
            /\ fs[s].vis >= HeaderSize => fs[s].vis = FileBytes(fs[s])
            /\ \A i \in 1..Len(fs[s].recs) :
                 i \in 1..Len(segs[s].recs) /\ fs[s].recs[i] = segs[s].recs[i]
      BY <2>3, <2>5, <2>6 DEF seg
    <3> QED
      BY <2>5, <3>1, <3>2 DEF Left
  <2>8. \A s \in DOMAIN segs :
          /\ s # active => segs'[s] = segs[s]
          /\ segs[s].vis <= segs'[s].vis /\ segs'[s].syn = segs[s].syn
    <3>1. \A s \in DOMAIN segs : segs[s].vis <= segs[s].vis
      BY StoreParts
    <3> QED
      BY <2>1, <2>4, <2>5, <3>1 DEF seg
  <2> QED
    BY <1>0, <2>5, <2>7, <2>8
<1> QED
  BY <1>2, <1>3

(* A power failure spares what was synced.                                 *)
LEMMA PowerFacts ==
    ASSUME Types, PowerFailure
    PROVE  /\ ProcessGone(segs') /\ Left(segs') /\ Up /\ meta' = {}
           /\ UNCHANGED <<spool, ch>> /\ phase \in {"running", "closing"} /\ "power" \in Faults
           /\ \A s \in DOMAIN segs :
                /\ segs'[s].vis = segs'[s].syn /\ segs[s].syn <= segs'[s].vis
                /\ segs'[s].vis <= FileBytes(segs[s])
                /\ segs'[s].torn => segs'[s].vis < FileBytes(segs[s])
<1>0. /\ Up /\ meta' = {} /\ UNCHANGED <<spool, ch>> /\ phase \in {"running", "closing"}
      /\ "power" \in Faults
  BY DEF PowerFailure, Crash
<1>1. PICK cut : /\ \A s \in DOMAIN segs : cut[s] \in segs[s].syn .. FileBytes(segs[s])
                 /\ \E torn \in SUBSET {s \in DOMAIN segs :
                                   cut[s] \in HeaderSize .. FileBytes(segs[s]) - 1} :
                      ProcessGone([s \in DOMAIN segs |->
                          Cut(segs[s], cut[s], cut[s], s \in torn)])
  BY DEF PowerFailure, list_segments
<1>2. PICK torn \in SUBSET {s \in DOMAIN segs :
                              cut[s] \in HeaderSize .. FileBytes(segs[s]) - 1} :
        ProcessGone([s \in DOMAIN segs |-> Cut(segs[s], cut[s], cut[s], s \in torn)])
  BY <1>1
<1> DEFINE fs == [s \in DOMAIN segs |-> Cut(segs[s], cut[s], cut[s], s \in torn)]
<1>3. segs' = fs /\ ProcessGone(fs) /\ DOMAIN fs = DOMAIN segs
  BY <1>2 DEF ProcessGone
<1>4. ASSUME NEW s \in DOMAIN segs
      PROVE  /\ fs[s] \in Segment /\ fs[s].syn <= fs[s].vis /\ fs[s].vis <= FileBytes(fs[s])
             /\ AllVisible(fs[s])
             /\ fs[s].vis >= HeaderSize => fs[s].vis = FileBytes(fs[s])
             /\ \A i \in 1..Len(fs[s].recs) :
                  i \in 1..Len(segs[s].recs) /\ fs[s].recs[i] = segs[s].recs[i]
             /\ fs[s].vis = fs[s].syn /\ segs[s].syn <= fs[s].vis
             /\ fs[s].vis <= FileBytes(segs[s])
             /\ fs[s].torn => fs[s].vis < FileBytes(segs[s])
  <2> DEFINE seg == segs[s]
             v == cut[s]
             t == s \in torn
             c == fs[s]
  <2>1. c = Cut(seg, v, v, t)
    OBVIOUS
  <2>2. /\ seg \in Segment /\ v \in 0..FileBytes(seg) /\ v \in Nat /\ v <= v
        /\ seg.syn <= v /\ v <= FileBytes(seg)
    BY <1>1, StoreParts
  <2>3. t \in BOOLEAN
    OBVIOUS
  <2>4. t => v < FileBytes(seg)
    BY <1>2, <2>2, StoreParts DEF HeaderSize
  <2> HIDE DEF seg, v, t, c
  <2>5. /\ c \in Segment /\ c.syn <= c.vis /\ c.vis <= FileBytes(c) /\ AllVisible(c)
        /\ c.vis >= HeaderSize => c.vis = FileBytes(c)
        /\ \A i \in 1..Len(c.recs) : i \in 1..Len(seg.recs) /\ c.recs[i] = seg.recs[i]
    BY <2>1, <2>2, <2>3, CutLeft
  <2>6. c.vis = v /\ c.syn = v
    BY <2>1 DEF Cut
  <2>7. c.torn => t
    BY <2>1 DEF Cut
  <2> QED
    BY <2>2, <2>4, <2>5, <2>6, <2>7 DEF c, seg
<1>5. fs \in [DOMAIN segs -> Segment]
  BY <1>4
<1> HIDE DEF fs
<1>6. Left(segs')
  BY <1>3, <1>4, <1>5 DEF Left
<1> QED
  BY <1>0, <1>3, <1>4, <1>6

(* recover_last_segment_tail removes the newest segment if it has no       *)
(* header, and mends it otherwise; no record is lost.                      *)
LEMMA RecoverFacts ==
    ASSUME Types, PhaseInv, VisibleInv, ~Up, segs' = recover_last_segment_tail
    PROVE  /\ DOMAIN segs' \subseteq DOMAIN segs /\ segs' \in [DOMAIN segs' -> Segment]
           /\ \A s \in DOMAIN segs : s \notin DOMAIN segs' =>
                s = LatestSegment /\ segs[s].recs = <<>> /\ segs[s].vis < HeaderSize
           /\ \A s \in DOMAIN segs' :
                /\ segs'[s].recs = segs[s].recs /\ segs'[s].vis = segs[s].vis
                /\ s # LatestSegment => segs'[s] = segs[s]
                /\ s = LatestSegment => ~segs'[s].torn /\ segs[s].vis >= HeaderSize
                /\ segs'[s].syn \in {segs[s].syn, segs[s].vis}
<1>1. segs \in [DOMAIN segs -> Segment]
  BY DEF Types
<1>2. \A s \in DOMAIN segs : AllVisible(segs[s])
  BY StoreParts DEF VisibleInv, PhaseInv
<1>3. CASE DOMAIN segs = {}
  <2>1. segs' = segs
    BY <1>3 DEF recover_last_segment_tail, list_segments
  <2> QED
    BY <1>1, <1>3, <2>1
<1>4. CASE DOMAIN segs # {}
  <2> DEFINE s == LatestSegment
  <2>1. s \in DOMAIN segs
    BY <1>4, LatestFacts
  <2>2. /\ segs[s] \in Segment /\ segs[s].vis \in Nat /\ FileBytes(segs[s]) \in Nat
        /\ FileBytes(segs[s]) = Len(segs[s].recs) + 1 /\ Len(segs[s].recs) \in Nat
        /\ segs[s].vis >= 1 => segs[s].vis = FileBytes(segs[s])
    BY <1>2, <2>1, StoreParts
  <2> HIDE DEF s
  <2>3. CASE segs[s].vis < HeaderSize
    <3>1. segs' = Restrict(segs, DOMAIN segs \ {s})
      BY <1>4, <2>3 DEF recover_last_segment_tail, list_segments, s
    <3>2. /\ DOMAIN segs' = DOMAIN segs \ {s} /\ \A t \in DOMAIN segs' : segs'[t] = segs[t]
          /\ segs' \in [DOMAIN segs' -> Segment]
      BY <1>1, <3>1 DEF Restrict
    <3>3. segs[s].recs = <<>>
      BY <1>2, <2>1, <2>2, <2>3 DEF AllVisible, HeaderSize
    <3> QED
      BY <2>3, <3>2, <3>3 DEF s
  <2>4. CASE segs[s].vis >= HeaderSize /\ segs[s].torn
    <3> DEFINE mended == [segs[s] EXCEPT !.torn = FALSE]
    <3>1. segs' = [segs EXCEPT ![s] = Synced(mended)]
      BY <1>4, <2>2, <2>4 DEF recover_last_segment_tail, list_segments, s, HeaderSize
    <3>2. mended \in Segment /\ mended.recs = segs[s].recs /\ ~mended.torn
      BY <2>2 DEF Segment
    <3>3. FileBytes(mended) = FileBytes(segs[s])
      BY <3>2 DEF FileBytes
    <3> HIDE DEF mended
    <3>4. /\ Synced(mended) \in Segment /\ Synced(mended).recs = mended.recs
          /\ Synced(mended).vis = FileBytes(mended) /\ Synced(mended).syn = FileBytes(mended)
          /\ Synced(mended).torn = mended.torn
      BY <3>2, SegmentParts
    <3>5. /\ DOMAIN segs' = DOMAIN segs /\ segs'[s] = Synced(mended)
          /\ \A t \in DOMAIN segs : t # s => segs'[t] = segs[t]
      BY <1>1, <2>1, <3>1
    <3>6. segs' \in [DOMAIN segs' -> Segment]
      BY <1>1, <2>1, <3>1, <3>4
    <3>7. segs[s].vis = FileBytes(segs[s])
      BY <2>2, <2>4 DEF HeaderSize
    <3> QED
      BY <2>4, <3>2, <3>3, <3>4, <3>5, <3>6, <3>7 DEF s
  <2>5. CASE segs[s].vis >= HeaderSize /\ ~segs[s].torn
    <3>1. segs' = segs
      BY <1>4, <2>2, <2>5 DEF recover_last_segment_tail, list_segments, s, HeaderSize
    <3> QED
      BY <1>1, <2>5, <3>1 DEF s
  <2> QED
    BY <2>2, <2>3, <2>4, <2>5 DEF HeaderSize
<1> QED
  BY <1>3, <1>4

(* delete_segments removes the first of its paths.                         *)
LEMMA DeleteFacts ==
    ASSUME Types, UserInv, RetentionDelete
    PROVE  \/ /\ retention.paths = {} /\ retention' = NoRetention
              /\ UNCHANGED <<segs, accepted>>
           \/ \E s \in retention.paths :
                /\ s \in DOMAIN segs /\ s # active
                /\ DOMAIN segs' = DOMAIN segs \ {s} /\ segs' \in [DOMAIN segs' -> Segment]
                /\ \A t \in DOMAIN segs' : segs'[t] = segs[t]
                /\ retention' = [retention EXCEPT !.paths = @ \ {s}]
                /\ accepted' = accepted \ ToSet(segs[s].recs)
<1>1. CASE retention.paths = {}
  BY <1>1 DEF RetentionDelete
<1>2. CASE retention.paths # {}
  <2> DEFINE s == Min(retention.paths)
  <2>1. retention.paths \in SUBSET Nat
    BY DEF Types, RetentionState
  <2>2. \E n \in retention.paths : \A m \in retention.paths : n <= m
    BY <1>2, <2>1, LeastNatural
  <2>3. s \in retention.paths
    BY <2>2 DEF Min
  <2>4. /\ segs' = [t \in DOMAIN segs \ {s} |-> segs[t]]
        /\ retention' = [retention EXCEPT !.paths = @ \ {s}]
        /\ accepted' = accepted \ ToSet(segs[s].recs)
    BY <1>2 DEF RetentionDelete, list_segments
  <2> HIDE DEF s
  <2>5. s \in DOMAIN segs /\ s # active
    BY <2>3 DEF UserInv, ClosedInv
  <2>6. segs \in [DOMAIN segs -> Segment]
    BY DEF Types
  <2>7. /\ DOMAIN segs' = DOMAIN segs \ {s} /\ segs' \in [DOMAIN segs' -> Segment]
        /\ \A t \in DOMAIN segs' : segs'[t] = segs[t]
    BY <2>4, <2>6
  <2> QED
    BY <2>3, <2>4, <2>5, <2>7
<1> QED
  BY <1>1, <1>2
-----------------------------------------------------------------------------
(* The queue.                                                              *)

(* The commands, by kind.                                                  *)
LEMMA CommandKinds ==
    /\ FlushCmd \in Commands /\ NoCmd \in Commands
    /\ \A r \in Records : RecordCmd(r) \in Commands /\ RecordCmd(r).rec = r
    /\ \A w \in {"replay", "retention", "nobody"} : SealCmd(w) \in Commands
    /\ \A c \in Commands :
         /\ c.kind = "record" <=> c \in RecordCmds
         /\ c.kind = "seal" <=> c \in Seals
         /\ c.kind = "flush" <=> c = FlushCmd
         /\ c.kind = "none" <=> c = NoCmd
BY DEF Commands, RecordCmds, Seals, FlushCmd, NoCmd, RecordCmd, SealCmd

(* The commands differ from each other.                                    *)
LEMMA CommandsDiffer ==
    /\ NoCmd # FlushCmd
    /\ \A r : RecordCmd(r) # NoCmd /\ RecordCmd(r) # FlushCmd
    /\ \A w : SealCmd(w) # NoCmd /\ SealCmd(w) # FlushCmd
    /\ \A r, w : RecordCmd(r) # SealCmd(w)
    /\ \A r, q : RecordCmd(r) = RecordCmd(q) => r = q
    /\ \A v, w : SealCmd(v) = SealCmd(w) => v = w
<1>1. \A r : RecordCmd(r).kind = "record" /\ RecordCmd(r).rec = r
  BY DEF RecordCmd
<1>2. \A w : SealCmd(w).kind = "seal" /\ SealCmd(w).who = w
  BY DEF SealCmd
<1>3. NoCmd.kind = "none" /\ FlushCmd.kind = "flush"
  BY DEF NoCmd, FlushCmd
<1> QED
  BY <1>1, <1>2, <1>3

(* A caller puts a command at the end of the queue.                        *)
LEMMA EnqueueFacts ==
    ASSUME PlainTypes, NEW c \in Commands, Enqueue(c)
    PROVE  /\ rx' \in Seq(Commands) /\ Len(rx) \in Nat /\ Len(rx') = Len(rx) + 1
           /\ Len(rx') <= Capacity /\ rx'[Len(rx) + 1] = c /\ wpc # "stopped"
           /\ \A i \in 1..Len(rx) : rx'[i] = rx[i]
BY CapacityAssumption DEF PlainTypes, Enqueue

(* The writer takes the command at the front of the queue.                 *)
LEMMA ReceiveFacts ==
    ASSUME PlainTypes, NEW kind, Receive(kind)
    PROVE  /\ Up /\ wpc = "recv" /\ Len(rx) \in Nat /\ Len(rx) >= 1
           /\ rx' \in Seq(Commands) /\ Len(rx') = Len(rx) - 1 /\ Len(rx') <= Capacity
           /\ \A i \in 1..Len(rx') : i + 1 \in 1..Len(rx) /\ rx'[i] = rx[i + 1]
           /\ Head(rx) \in Commands /\ Head(rx) = rx[1] /\ 1 \in 1..Len(rx)
           /\ Head(rx).kind = kind
BY CapacityAssumption DEF PlainTypes, Receive

(* Both halves of the types.                                               *)
LEMMA TypesApart == Types => SegTypes /\ PlainTypes
BY DEF Types, TypeOK, SegTypes, PlainTypes

(* The bytes of the directory are a number.                                *)
LEMMA DirectoryBytesType ==
    ASSUME NEW n \in Nat, NEW fs, fs \in [DOMAIN fs -> Segment], DOMAIN fs \subseteq 1..n
    PROVE  directory_bytes(fs) \in Nat
<1> DEFINE part(s) == {s} \X (1..fs[s].vis)
           parts == {part(s) : s \in DOMAIN fs}
<1>0. IsFiniteSet(DOMAIN fs)
  <2>1. IsFiniteSet(1..n)
    BY FS_Interval
  <2> QED
    BY <2>1, FS_Subset
<1>1. IsFiniteSet(parts)
  <2>1. [s \in DOMAIN fs |-> part(s)] \in Surjection(DOMAIN fs, parts)
    BY DEF Surjection
  <2> QED
    BY <1>0, <2>1, FS_Surjection
<1>2. \A P \in parts : IsFiniteSet(P)
  <2> SUFFICES ASSUME NEW s \in DOMAIN fs PROVE IsFiniteSet({s} \X (1..fs[s].vis))
    OBVIOUS
  <2>1. IsFiniteSet({s})
    BY FS_Singleton
  <2>2. fs[s].vis \in Nat
    BY DEF Segment
  <2>3. IsFiniteSet(1..fs[s].vis)
    BY <2>2, FS_Interval
  <2> QED
    BY <2>1, <2>3, FS_Product
<1>3. IsFiniteSet(UNION parts)
  BY <1>1, <1>2, FS_UNION
<1> QED
  BY <1>3, FS_CardinalityType DEF directory_bytes
-----------------------------------------------------------------------------
(* The steps, by what they do to the segment files.                        *)
Control == Types /\ WriterInv /\ PhaseInv /\ UserInv /\ VisibleInv

Steady ==
    \/ RecordFits \/ PublishRow \/ PublishDone \/ CommitBarrier \/ StopWriter
    \/ StartStep \/ RetentionScan \/ RetentionBarrier \/ RetentionMutate \/ UserStep
    \/ ReplayDone \/ MetaSpool \/ Project \/ MetaStop \/ BeginShutdown
    \/ UNCHANGED vars
Flushing == TakeFlush \/ Tick
Syncing ==
    \/ RecordOverBudget \/ TickStop \/ MetadataGone \/ RotateOverBudget
    \/ RecordRotates \/ TakeSeal
Opening == WriterInit \/ Rotate
Ending == Exit \/ Kill \/ PowerFailure

(* There are no other steps.                                               *)
LEMMA StepKinds ==
    ASSUME [Next]_vars
    PROVE  \/ Steady \/ Flushing \/ Syncing \/ WriteRecord \/ Opening
           \/ RetentionDelete \/ Ending \/ Start
BY DEF Next, WriterStep, RetentionStep, Steady, Flushing, Syncing, Opening, Ending

(* Most steps leave the files alone.                                       *)
LEMMA SteadyFacts ==
    ASSUME Steady
    PROVE  UNCHANGED <<segs, nextSeg, active>>
<1> USE DEF bounds, storeVars, writerVars, metaVars, userVars, historyVars
<1>1. CASE RecordFits \/ PublishRow \/ PublishDone \/ CommitBarrier \/ StopWriter
  BY <1>1 DEF RecordFits, PublishRow, PublishDone, CommitBarrier, StopWriter
<1>2. CASE StartStep
  BY <1>2 DEF StartStep, RebuildRow, RebuildBarrier, WriteMarker
<1>3. CASE RetentionScan \/ RetentionBarrier \/ RetentionMutate
  BY <1>3 DEF RetentionScan, RetentionBarrier, RetentionMutate
<1>4. CASE UserStep
  BY <1>4 DEF UserStep, AppendRecord, RetentionSeal, ReplaySeal, RetentionDropped
<1>5. CASE ReplayDone \/ MetaSpool \/ Project \/ MetaStop \/ BeginShutdown
  BY <1>5 DEF ReplayDone, MetaSpool, Project, MetaStop, BeginShutdown
<1>6. CASE UNCHANGED vars
  BY <1>6 DEF vars
<1> QED
  BY <1>1, <1>2, <1>3, <1>4, <1>5, <1>6 DEF Steady

(* A flush in the writer's loop publishes next.                            *)
LEMMA FlushingFacts ==
    ASSUME Control, Flushing
    PROVE  /\ Up /\ wpc = "recv" /\ active \in DOMAIN segs /\ flush_visible
           /\ wpc' = "publish" /\ then' = "recv"
           /\ UNCHANGED <<phase, nextSeg, marker, active, pending, retained_bytes, todo,
                          bounds, metaVars, userVars, historyVars>>
<1>1. Up /\ wpc = "recv"
  BY DEF Flushing, TakeFlush, Tick, Receive
<1>2. active \in DOMAIN segs
  BY <1>1 DEF Control, WriterInv, WriterAt, WriterCmd, WriterRows
<1> QED
  BY <1>1, <1>2 DEF Flushing, TakeFlush, Tick

(* A sync precedes the close of a segment and the end of the writer.       *)
LEMMA SyncingFacts ==
    ASSUME Control, Syncing
    PROVE  /\ Up /\ active \in DOMAIN segs /\ flush_sync
           /\ wpc \in {"recv", "publish", "commit", "rotate"}
           /\ wpc' = "publish" /\ then' \in {"commit", "stop"}
           /\ UNCHANGED <<phase, nextSeg, marker, active, pending, retained_bytes, todo,
                          bounds, metaVars, historyVars>>
<1>1. Up /\ wpc \in {"recv", "publish", "commit", "rotate"}
  BY DEF Syncing, RecordOverBudget, TickStop, MetadataGone, RotateOverBudget, RecordRotates,
         TakeSeal, Receive, Up
<1>2. active \in DOMAIN segs
  BY <1>1 DEF Control, WriterInv, WriterAt, WriterCmd, WriterRows
<1>3. LeaveLoop \/ BeginCommit
  BY DEF Syncing, RecordOverBudget, TickStop, MetadataGone, RotateOverBudget, RecordRotates,
         TakeSeal
<1> QED
  BY <1>1, <1>2, <1>3 DEF LeaveLoop, BeginCommit, metaVars, historyVars, bounds

(* The record that is written is the one the writer holds.                 *)
LEMMA WritingFacts ==
    ASSUME Control, WriteRecord
    PROVE  \E r \in Records :
             /\ cmd = RecordCmd(r) /\ cmd.rec = r
             /\ Up /\ wpc = "write" /\ active \in DOMAIN segs
<1>1. wpc = "write"
  BY DEF WriteRecord
<1>2. Up
  BY <1>1 DEF Control, PhaseInv
<1>3. active \in DOMAIN segs /\ cmd \in RecordCmds
  BY <1>1, <1>2 DEF Control, WriterInv, WriterAt, WriterCmd, WriterRows
<1>4. PICK r \in Records : cmd = RecordCmd(r)
  BY <1>3 DEF RecordCmds
<1>5. cmd.rec = r
  BY <1>4, CommandKinds
<1> QED
  BY <1>1, <1>2, <1>3, <1>4, <1>5

(* A new segment follows the start of the writer or a rotation.            *)
LEMMA OpeningFacts ==
    ASSUME Opening
    PROVE  /\ Up /\ OpenSegment(segs) /\ wpc \in {"init", "rotate"}
           /\ UNCHANGED <<phase, rx, marker, then, pending, todo, bounds, metaVars, historyVars>>
BY DEF Opening, WriterInit, Rotate

(* Every end of the process leaves prefixes.                               *)
LEMMA EndingFacts ==
    ASSUME Control, Ending
    PROVE  ProcessGone(segs') /\ Left(segs') /\ Up /\ meta' = {}
BY ExitFacts, KillFacts, PowerFacts DEF Control, Ending

(* The segment files keep their types.                                     *)
LEMMA SegTypesStep ==
    ASSUME Control, [Next]_vars
    PROVE  SegTypes'
<1>0. Types /\ SegTypes /\ PlainTypes
  BY TypesApart DEF Control
<1>1. CASE Steady
  BY <1>0, <1>1, SteadyFacts DEF SegTypes, FileBytes
<1>2. ASSUME active \in DOMAIN segs, UNCHANGED nextSeg,
             DOMAIN segs' = DOMAIN segs, segs' \in [DOMAIN segs -> Segment],
             \A s \in DOMAIN segs : s # active => segs'[s] = segs[s],
             segs'[active].syn <= segs'[active].vis,
             segs'[active].vis <= FileBytes(segs'[active])
      PROVE  SegTypes'
  BY <1>0, <1>2 DEF SegTypes
<1>3. active \in DOMAIN segs =>
        /\ segs[active].vis \in Nat /\ segs[active].syn \in Nat /\ Len(segs[active].recs) \in Nat
        /\ segs[active].syn <= segs[active].vis /\ segs[active].recs \in Seq(Records)
        /\ segs[active].vis <= FileBytes(segs[active])
        /\ FileBytes(segs[active]) = Len(segs[active].recs) + 1
  BY <1>0, StoreParts
<1>4. CASE Flushing
  <2>1. flush_visible /\ active \in DOMAIN segs /\ UNCHANGED nextSeg
    BY <1>4, FlushingFacts
  <2>2. /\ DOMAIN segs' = DOMAIN segs /\ segs' \in [DOMAIN segs -> Segment]
        /\ \A s \in DOMAIN segs : s # active => segs'[s] = segs[s]
        /\ segs'[active].recs = segs[active].recs
        /\ segs'[active].vis = FileBytes(segs[active])
        /\ segs'[active].syn = segs[active].syn
    BY <1>0, <2>1, FlushFacts
  <2>3. FileBytes(segs'[active]) = Len(segs[active].recs) + 1
    BY <2>2 DEF FileBytes, HeaderSize
  <2> QED
    BY <1>2, <1>3, <2>1, <2>2, <2>3
<1>5. CASE Syncing
  <2>1. flush_sync /\ active \in DOMAIN segs /\ UNCHANGED nextSeg
    BY <1>5, SyncingFacts
  <2>2. /\ DOMAIN segs' = DOMAIN segs /\ segs' \in [DOMAIN segs -> Segment]
        /\ \A s \in DOMAIN segs : s # active => segs'[s] = segs[s]
        /\ segs'[active].recs = segs[active].recs
        /\ segs'[active].vis = FileBytes(segs[active])
        /\ segs'[active].syn = FileBytes(segs[active])
    BY <1>0, <2>1, SyncFacts
  <2>3. FileBytes(segs'[active]) = Len(segs[active].recs) + 1
    BY <2>2 DEF FileBytes, HeaderSize
  <2> QED
    BY <1>2, <1>3, <2>1, <2>2, <2>3
<1>6. CASE WriteRecord
  <2>1. PICK r \in Records : cmd.rec = r /\ active \in DOMAIN segs
    BY <1>6, WritingFacts
  <2>2. /\ DOMAIN segs' = DOMAIN segs /\ segs' \in [DOMAIN segs -> Segment]
        /\ \A s \in DOMAIN segs : s # active => segs'[s] = segs[s]
        /\ segs'[active].recs = Append(segs[active].recs, r)
        /\ segs'[active].vis \in {segs[active].vis, Len(segs[active].recs) + 2}
        /\ segs'[active].syn = segs[active].syn
    BY <1>0, <1>6, <2>1, WriteFacts
  <2>3. FileBytes(segs'[active]) = Len(segs[active].recs) + 2
    BY <1>3, <2>1, <2>2 DEF FileBytes, HeaderSize
  <2>4. UNCHANGED nextSeg
    BY <1>6 DEF WriteRecord
  <2> QED
    BY <1>2, <1>3, <2>1, <2>2, <2>3, <2>4
<1>7. CASE Opening
  <2>1. /\ DOMAIN segs' = DOMAIN segs \cup {nextSeg}
        /\ segs' \in [DOMAIN segs' -> Segment]
        /\ \A s \in DOMAIN segs : segs'[s] = segs[s]
        /\ segs'[nextSeg].recs = <<>> /\ segs'[nextSeg].vis = 0 /\ segs'[nextSeg].syn = 0
        /\ nextSeg' = nextSeg + 1
    BY <1>0, <1>7, OpeningFacts, OpenFacts
  <2>2. FileBytes(segs'[nextSeg]) = 1
    BY <2>1 DEF FileBytes, HeaderSize
  <2> QED
    BY <1>0, <2>1, <2>2 DEF SegTypes
<1>8. CASE RetentionDelete
  <2>1. UserInv /\ UNCHANGED nextSeg
    BY <1>8 DEF Control, RetentionDelete
  <2> QED
    BY <1>0, <1>8, <2>1, DeleteFacts DEF SegTypes, FileBytes
<1>9. CASE Ending
  <2>1. ProcessGone(segs') /\ Left(segs')
    BY <1>9, EndingFacts
  <2>2. UNCHANGED nextSeg
    BY <2>1 DEF ProcessGone
  <2> QED
    BY <1>0, <2>1, <2>2 DEF SegTypes, Left
<1>10. CASE Start
  <2>1. ~Up /\ segs' = recover_last_segment_tail /\ UNCHANGED nextSeg
    BY <1>10 DEF Start, Up
  <2>2. /\ DOMAIN segs' \subseteq DOMAIN segs /\ segs' \in [DOMAIN segs' -> Segment]
        /\ \A s \in DOMAIN segs' : /\ segs'[s].recs = segs[s].recs /\ segs'[s].vis = segs[s].vis
                                   /\ segs'[s].syn \in {segs[s].syn, segs[s].vis}
    BY <2>1, RecoverFacts DEF Control
  <2>3. \A s \in DOMAIN segs' : FileBytes(segs'[s]) = FileBytes(segs[s])
    BY <2>2 DEF FileBytes
  <2>4. \A s \in DOMAIN segs : segs[s].vis \in Nat
    BY <1>0, StoreParts
  <2> QED
    BY <1>0, <2>1, <2>2, <2>3, <2>4 DEF SegTypes
<1> QED
  BY <1>1, <1>4, <1>5, <1>6, <1>7, <1>8, <1>9, <1>10, StepKinds

(* An index row of a readable record.                                      *)
LEMMA RowTypes ==
    ASSUME NEW fs, fs \in [DOMAIN fs -> Segment],
           \A s \in DOMAIN fs : s \in Nat /\ fs[s].vis <= FileBytes(fs[s]),
           NEW s \in DOMAIN fs, NEW r \in ToSet(Visible(fs[s]))
    PROVE  <<r, s>> \in Rows
<1>1. fs[s] \in Segment
  OBVIOUS
<1>2. \E i \in 1..Len(fs[s].recs) : fs[s].recs[i] = r
  BY <1>1, VisibleRecords
<1>3. fs[s].recs \in Seq(Records)
  BY <1>1 DEF Segment
<1>4. r \in Records
  BY <1>2, <1>3
<1> QED
  BY <1>4 DEF Rows

(* The caller of a command that failed is told.                            *)
LEMMA ReplyErrTypes ==
    ASSUME PlainTypes, NEW cs, ReplyErr(cs)
    PROVE  replay' \in ReplayState /\ retention' \in RetentionState
<1>1. NoRetention \in RetentionState
  BY DEF NoRetention, RetentionState
<1>2. [replay EXCEPT !.pc = "failed"] \in ReplayState
  BY DEF PlainTypes, ReplayState
<1> QED
  BY <1>1, <1>2 DEF ReplyErr, PlainTypes

(* The greater of two cutoffs is one of them.                              *)
LEMMA MaxOfTwo ==
    ASSUME NEW a \in Nat, NEW b \in Nat
    PROVE  /\ Max({a, b}) \in {a, b} /\ a <= Max({a, b}) /\ b <= Max({a, b})
<1>1. \E x \in {a, b} : \A y \in {a, b} : x >= y
  OBVIOUS
<1>2. Max({a, b}) \in {a, b} /\ \A y \in {a, b} : Max({a, b}) >= y
  BY <1>1 DEF Max
<1> QED
  BY <1>2

(* The other variables keep their types.                                   *)
LEMMA PlainTypesStep ==
    ASSUME Control, [Next]_vars
    PROVE  PlainTypes'
<1>0. Types /\ SegTypes /\ PlainTypes
  BY TypesApart DEF Control
<1>a. NoRetention \in RetentionState /\ Idle \in ReplayState
  BY DEF NoRetention, RetentionState, Idle, ReplayState
<1>b. NoCmd \in Commands /\ FlushCmd \in Commands
  BY CommandKinds
<1> USE DEF bounds, storeVars, writerVars, metaVars, userVars, historyVars
<1>1. CASE Flushing
  <2>1. /\ wpc' = "publish" /\ then' = "recv"
        /\ UNCHANGED <<phase, marker, pending, retained_bytes, todo, starts, seals, metaUp, meta,
                       spool, ch, replay, retention, accepted, cutoff>>
    BY <1>1, FlushingFacts
  <2>2. rx' \in Seq(Commands) /\ Len(rx') <= Capacity /\ cmd' \in Commands
    <3>1. CASE TakeFlush
      BY <1>0, <3>1, ReceiveFacts DEF TakeFlush
    <3>2. CASE Tick
      BY <1>0, <3>2 DEF Tick, PlainTypes
    <3> QED
      BY <1>1, <3>1, <3>2 DEF Flushing
  <2> QED
    BY <1>0, <2>1, <2>2 DEF PlainTypes
<1>2. CASE Syncing
  <2>1. /\ wpc' = "publish" /\ then' \in {"commit", "stop"}
        /\ UNCHANGED <<phase, marker, pending, retained_bytes, todo, starts, seals, metaUp, meta,
                       spool, ch, accepted, cutoff>>
    BY <1>2, SyncingFacts
  <2>2. rx' \in Seq(Commands) /\ Len(rx') <= Capacity /\ cmd' \in Commands
    <3>1. CASE RecordOverBudget \/ RecordRotates \/ TakeSeal
      BY <1>0, <1>b, <3>1, ReceiveFacts
         DEF RecordOverBudget, RecordRotates, TakeSeal, LeaveLoop, BeginCommit
    <3>2. CASE TickStop \/ MetadataGone \/ RotateOverBudget
      BY <1>0, <1>b, <3>2 DEF TickStop, MetadataGone, RotateOverBudget, LeaveLoop, PlainTypes
    <3> QED
      BY <1>2, <3>1, <3>2 DEF Syncing
  <2>3. replay' \in ReplayState /\ retention' \in RetentionState
    <3>1. CASE RecordOverBudget \/ RecordRotates \/ TakeSeal \/ TickStop
      BY <1>0, <3>1 DEF RecordOverBudget, RecordRotates, TakeSeal, BeginCommit, TickStop, PlainTypes
    <3>2. CASE MetadataGone \/ RotateOverBudget
      BY <1>0, <3>2, ReplyErrTypes DEF MetadataGone, RotateOverBudget
    <3> QED
      BY <1>2, <3>1, <3>2 DEF Syncing
  <2> QED
    BY <1>0, <2>1, <2>2, <2>3 DEF PlainTypes
<1>3. CASE WriteRecord
  <2>1. PICK r \in Records : cmd.rec = r /\ active \in DOMAIN segs
    BY <1>3, WritingFacts
  <2>2. wpc' \in {"recv", "publish"}
    BY <1>0, <1>3, <2>1, WriteFacts
  <2>3. <<r, active>> \in Rows
    BY <1>0, <2>1 DEF SegTypes, Rows
  <2>4. Len(pending) < PendingMax
    BY <1>3 DEF Control, WriterInv, WriterAt, WriterCmd, WriterRows, WriteRecord
  <2>5. /\ then' = "recv" /\ pending' = Append(pending, <<r, active>>) /\ cmd' = NoCmd
        /\ retained_bytes' = retained_bytes + 1
        /\ UNCHANGED <<phase, rx, marker, todo, starts, seals, metaUp, meta, spool, ch, replay,
                       retention, accepted, cutoff>>
    BY <1>3, <2>1 DEF WriteRecord
  <2>6. pending' \in Seq(Rows) /\ Len(pending') <= PendingMax
    BY <1>0, <2>3, <2>4, <2>5, PendingMaxAssumption DEF PlainTypes
  <2> QED
    BY <1>0, <1>b, <2>2, <2>5, <2>6 DEF PlainTypes
<1>4. CASE Opening
  <2>1. UNCHANGED <<phase, rx, marker, then, pending, todo, starts, seals, metaUp, meta, spool,
                    ch, accepted, cutoff>>
    BY <1>4, OpeningFacts
  <2>2. retained_bytes' \in Nat
    BY <1>0, <1>4, OpeningFacts DEF OpenSegment, HeaderSize, PlainTypes
  <2>3. wpc' \in {"recv", "write"} /\ cmd' \in Commands
    BY <1>0, <1>4, <1>b DEF Opening, WriterInit, Rotate, PlainTypes
  <2>4. replay' \in ReplayState /\ retention' \in RetentionState
    <3>1. SealReply \subseteq Nat
      <4>1. DOMAIN segs' = DOMAIN segs \cup {nextSeg}
        BY <1>4, OpeningFacts DEF OpenSegment
      <4> QED
        BY <1>0, <4>1 DEF SealReply, SegTypes
    <3>2. [replay EXCEPT !.pc = "scanning", !.snap = SealReply] \in ReplayState
      BY <1>0, <3>1 DEF PlainTypes, ReplayState
    <3>3. [retention EXCEPT !.pc = "scan", !.paths = SealReply] \in RetentionState
      BY <1>0, <3>1 DEF PlainTypes, RetentionState
    <3> QED
      BY <1>0, <1>4, <3>2, <3>3 DEF Opening, WriterInit, Rotate, PlainTypes
  <2> QED
    BY <1>0, <2>1, <2>2, <2>3, <2>4 DEF PlainTypes
<1>5. CASE RetentionDelete
  <2>1. retention' \in RetentionState
    <3>1. \A s : [retention EXCEPT !.paths = @ \ {s}] \in RetentionState
      BY <1>0 DEF PlainTypes, RetentionState
    <3> QED
      BY <1>5, <1>a, <3>1 DEF RetentionDelete
  <2>2. accepted' \subseteq Records
    BY <1>0, <1>5 DEF RetentionDelete, PlainTypes
  <2> QED
    BY <1>0, <1>5, <2>1, <2>2 DEF RetentionDelete, PlainTypes
<1>6. CASE Ending
  <2>1. ProcessGone(segs') /\ meta' = {}
    BY <1>6, EndingFacts
  <2>2. spool' \subseteq Rows /\ ch' \subseteq Rows
    BY <1>0, <1>6 DEF Ending, Exit, Kill, PowerFailure, Crash, PlainTypes
  <2>3. /\ phase' = "down" /\ rx' = <<>> /\ cmd' = NoCmd /\ wpc' = "stopped" /\ then' = "recv"
        /\ pending' = <<>> /\ retained_bytes' = 0 /\ todo' = {} /\ metaUp' = FALSE
        /\ replay' = Idle /\ retention' = NoRetention
        /\ UNCHANGED <<starts, seals, nextSeg, marker, cutoff>>
        /\ accepted' \subseteq accepted
    BY <2>1 DEF ProcessGone
  <2>4. rx' \in Seq(Commands) /\ Len(rx') = 0 /\ pending' \in Seq(Rows) /\ Len(pending') = 0
    BY <2>3
  <2>5. Len(rx') <= Capacity /\ Len(pending') <= PendingMax /\ retained_bytes' \in Nat
    BY <2>3, <2>4, CapacityAssumption, PendingMaxAssumption
  <2>6. replay' \in ReplayState /\ retention' \in RetentionState /\ cmd' \in Commands
    BY <1>a, <1>b, <2>3
  <2>7. accepted' \subseteq Records /\ todo' \subseteq Rows /\ meta' \subseteq Rows
    BY <1>0, <2>1, <2>3 DEF PlainTypes
  <2> QED
    BY <1>0, <2>2, <2>3, <2>4, <2>5, <2>6, <2>7 DEF PlainTypes
<1>7. CASE Start
  <2>1. /\ ~Up /\ segs' = recover_last_segment_tail /\ starts < MaxStarts /\ starts' = starts + 1
        /\ retained_bytes' = directory_bytes(segs') /\ wpc' = "init" /\ metaUp' = TRUE
        /\ UNCHANGED <<seals, marker, then, cmd, pending, meta, spool, ch, replay, retention,
                       accepted, cutoff>>
        /\ \/ phase' = "rebuild" /\ todo' = RecoveryRows(segs') /\ rx' = <<>>
           \/ phase' = "flushing" /\ todo' = {} /\ rx' = <<FlushCmd>>
    BY <1>7 DEF Start, Up
  <2>2. SegTypes'
    BY SegTypesStep
  <2>3. directory_bytes(segs') \in Nat
    <3>1. /\ nextSeg' - 1 \in Nat /\ segs' \in [DOMAIN segs' -> Segment]
          /\ DOMAIN segs' \subseteq 1..(nextSeg' - 1)
      BY <2>2 DEF SegTypes
    <3> QED
      BY <3>1, DirectoryBytesType
  <2>4. RecoveryRows(segs') \subseteq Rows
    <3>1. /\ segs' \in [DOMAIN segs' -> Segment]
          /\ \A s \in DOMAIN segs' : s \in Nat /\ segs'[s].vis <= FileBytes(segs'[s])
      BY <2>2 DEF SegTypes
    <3> DEFINE fs == segs'
    <3>2. \A s \in DOMAIN fs : \A r \in ToSet(Visible(fs[s])) : <<r, s>> \in Rows
      <4> HIDE DEF fs
      <4>1. /\ fs \in [DOMAIN fs -> Segment]
            /\ \A s \in DOMAIN fs : s \in Nat /\ fs[s].vis <= FileBytes(fs[s])
        BY <3>1 DEF fs
      <4> QED
        BY <4>1, RowTypes
    <3> QED
      BY <3>2 DEF RecoveryRows
  <2>5. rx' \in Seq(Commands) /\ Len(rx') <= 1
    <3>1. <<>> \in Seq(Commands) /\ Len(<<>>) <= 1
      OBVIOUS
    <3>2. <<FlushCmd>> \in Seq(Commands) /\ Len(<<FlushCmd>>) <= 1
      BY <1>b
    <3>3. rx' = <<>> \/ rx' = <<FlushCmd>>
      BY <2>1
    <3> QED
      BY <3>1, <3>2, <3>3
  <2>6. starts' \in 0..MaxStarts
    BY <1>0, <2>1, BoundsAssumption DEF PlainTypes
  <2>7. Len(rx') <= Capacity
    BY <2>5, CapacityAssumption
  <2> QED
    BY <1>0, <2>1, <2>3, <2>4, <2>5, <2>6, <2>7 DEF PlainTypes
<1>8. CASE Steady
  <2>1. CASE RecordFits
    BY <1>0, <2>1, ReceiveFacts DEF RecordFits, PlainTypes
  <2>2. CASE PublishRow
    <3>1. Head(pending) \in Rows /\ Tail(pending) \in Seq(Rows) /\ Len(Tail(pending)) <= PendingMax
      BY <1>0, <2>2, PendingMaxAssumption DEF PublishRow, PlainTypes
    <3> QED
      BY <1>0, <2>2, <3>1 DEF PublishRow, PlainTypes
  <2>3. CASE PublishDone
    <3>1. UNION {RowsOf(s) : s \in list_segments} \subseteq Rows
      <4>1. /\ segs \in [DOMAIN segs -> Segment]
            /\ \A s \in DOMAIN segs : s \in Nat /\ segs[s].vis <= FileBytes(segs[s])
        BY <1>0 DEF SegTypes
      <4> QED
        BY <4>1, RowTypes DEF RowsOf, list_segments
    <3>2. todo' \subseteq Rows /\ phase' \in {"rebuild", phase} /\ cmd' \in Commands
          /\ wpc' \in {"recv", "commit"}
      BY <1>0, <1>b, <2>3, <3>1 DEF PublishDone, PlainTypes
    <3> QED
      BY <1>0, <2>3, <3>2 DEF PublishDone, PlainTypes
  <2>4. CASE CommitBarrier
    BY <1>0, <2>4 DEF CommitBarrier, DurableBarrier, PlainTypes
  <2>5. CASE StopWriter
    <3>1. rx' \in Seq(Commands) /\ Len(rx') <= Capacity
      BY <2>5, CapacityAssumption DEF StopWriter
    <3> QED
      BY <1>0, <2>5, <3>1, ReplyErrTypes DEF StopWriter, PlainTypes
  <2>6. CASE StartStep
    BY <1>0, <2>6 DEF StartStep, RebuildRow, RebuildBarrier, WriteMarker, DurableBarrier, PlainTypes
  <2>7. CASE RetentionScan \/ RetentionBarrier
    <3>1. [retention EXCEPT !.pc = "barrier",
              !.paths = {s \in @ : Expired(s, retention.cutoff)}] \in RetentionState
      BY <1>0 DEF PlainTypes, RetentionState
    <3>2. [retention EXCEPT !.pc = "mutate"] \in RetentionState
      BY <1>0 DEF PlainTypes, RetentionState
    <3> QED
      BY <1>0, <1>a, <2>7, <3>1, <3>2 DEF RetentionScan, RetentionBarrier, PlainTypes
  <2>8. CASE RetentionMutate
    <3>1. [retention EXCEPT !.pc = "delete"] \in RetentionState
      BY <1>0 DEF PlainTypes, RetentionState
    <3>a. retention.cutoff \in Cutoffs \cup {0} /\ cutoff \in Cutoffs \cup {0}
      <4>1. retention \in RetentionState /\ cutoff \in Cutoffs \cup {0}
        BY <1>0 DEF PlainTypes
      <4>2. retention.cutoff \in Cutoffs \cup {0}
        BY <4>1 DEF RetentionState
      <4> QED
        BY <4>1, <4>2
    <3>2. cutoff \in Nat /\ retention.cutoff \in Nat /\ retention.cutoff \in Cutoffs \cup {0}
      <4>1. \A k \in Cutoffs \cup {0} : k \in Nat
        BY RecordsAssumption
      <4> QED
        BY <3>a, <4>1
    <3>3. Max({cutoff, retention.cutoff}) \in {cutoff, retention.cutoff}
      BY <3>2, MaxOfTwo
    <3>4. cutoff' \in Cutoffs \cup {0}
      BY <1>0, <2>8, <3>2, <3>3 DEF RetentionMutate, PlainTypes
    <3> QED
      BY <1>0, <2>8, <3>1, <3>4 DEF RetentionMutate, PlainTypes
  <2>9. CASE UserStep
    <3>1. ASSUME NEW r \in Records, AppendRecord(r) PROVE PlainTypes'
      <4>1. rx' \in Seq(Commands) /\ Len(rx') <= Capacity
        BY <1>0, <3>1, CommandKinds, EnqueueFacts DEF AppendRecord
      <4>2. replay' \in ReplayState
        <5>1. \A x \in SUBSET Records : [replay EXCEPT !.after = x] \in ReplayState
          BY <1>0 DEF PlainTypes, ReplayState
        <5>2. replay.after \cup {r} \in SUBSET Records /\ {} \in SUBSET Records
          BY <1>0 DEF PlainTypes, ReplayState
        <5> QED
          BY <3>1, <5>1, <5>2 DEF AppendRecord
      <4> QED
        BY <1>0, <3>1, <4>1, <4>2 DEF AppendRecord, PlainTypes
    <3>2. ASSUME NEW c \in Cutoffs, RetentionSeal(c) PROVE PlainTypes'
      <4>1. rx' \in Seq(Commands) /\ Len(rx') <= Capacity
        BY <1>0, <3>2, CommandKinds, EnqueueFacts DEF RetentionSeal
      <4>2. [pc |-> "sealing", guard |-> TRUE, cutoff |-> c, paths |-> {}] \in RetentionState
        BY DEF RetentionState
      <4>3. seals' \in 0..MaxSeals
        BY <1>0, <3>2, BoundsAssumption DEF RetentionSeal, PlainTypes
      <4> QED
        BY <1>0, <3>2, <4>1, <4>2, <4>3 DEF RetentionSeal, PlainTypes
    <3>3. CASE ReplaySeal
      <4>1. rx' \in Seq(Commands) /\ Len(rx') <= Capacity
        BY <1>0, <3>3, CommandKinds, EnqueueFacts DEF ReplaySeal
      <4>2. [pc |-> "sealing", snap |-> {}, before |-> accepted, after |-> {}] \in ReplayState
        BY <1>0 DEF ReplayState, PlainTypes
      <4>3. seals' \in 0..MaxSeals
        BY <1>0, <3>3, BoundsAssumption DEF ReplaySeal, PlainTypes
      <4> QED
        BY <1>0, <3>3, <4>1, <4>2, <4>3 DEF ReplaySeal, PlainTypes
    <3>4. CASE RetentionDropped
      <4>1. SealCmd("nobody") \in Commands
        BY CommandKinds
      <4>2. rx' \in Seq(Commands) /\ Len(rx') = Len(rx)
        <5>1. rx \in Seq(Commands) /\ DOMAIN rx = 1..Len(rx) /\ Len(rx) \in Nat
          BY <1>0 DEF PlainTypes
        <5>2. rx' \in [1..Len(rx) -> Commands]
          BY <3>4, <4>1, <5>1 DEF RetentionDropped
        <5> QED
          BY <5>1, <5>2
      <4>3. [retention EXCEPT !.guard = FALSE] \in RetentionState
        BY <1>0 DEF PlainTypes, RetentionState
      <4>4. cmd' \in Commands /\ retention' \in RetentionState
        BY <1>0, <1>a, <3>4, <4>1, <4>3 DEF RetentionDropped, PlainTypes
      <4> QED
        BY <1>0, <3>4, <4>2, <4>4 DEF RetentionDropped, PlainTypes
    <3> QED
      BY <2>9, <3>1, <3>2, <3>3, <3>4 DEF UserStep
  <2>10. CASE ReplayDone \/ MetaSpool \/ Project \/ MetaStop \/ BeginShutdown
    BY <1>0, <1>a, <2>10
       DEF ReplayDone, MetaSpool, DurableBarrier, Project, MetaStop, BeginShutdown, PlainTypes
  <2>11. CASE UNCHANGED vars
    BY <1>0, <2>11 DEF vars, PlainTypes
  <2> QED
    BY <1>8, <2>1, <2>2, <2>3, <2>4, <2>5, <2>6, <2>7, <2>8, <2>9, <2>10, <2>11 DEF Steady
<1> QED
  BY <1>1, <1>2, <1>3, <1>4, <1>5, <1>6, <1>7, <1>8, StepKinds

(* A writer that runs has the newest segment of the store.                 *)
LEMMA WriterAtStep ==
    ASSUME Control, [Next]_vars
    PROVE  WriterAt'
<1>0. WriterAt /\ Types /\ SegTypes /\ UserInv
  BY TypesApart DEF Control, WriterInv
<1> USE DEF bounds, storeVars, writerVars, metaVars, userVars, historyVars
<1>1. CASE Steady
  <2>1. UNCHANGED <<segs, nextSeg, active>>
    BY <1>1, SteadyFacts
  <2>2. (Up' <=> Up) /\ (wpc' = "init" <=> wpc = "init")
    <3>1. CASE RecordFits \/ PublishRow \/ PublishDone \/ CommitBarrier \/ StopWriter
      BY <1>0, <3>1 DEF RecordFits, PublishRow, PublishDone, CommitBarrier, StopWriter, Receive, Up,
                        Types, TypeOK
    <3>2. CASE StartStep
      BY <3>2 DEF StartStep, RebuildRow, RebuildBarrier, WriteMarker, Up
    <3>3. CASE RetentionScan \/ RetentionBarrier \/ RetentionMutate
      BY <3>3 DEF RetentionScan, RetentionBarrier, RetentionMutate, Up
    <3>4. CASE UserStep
      BY <3>4 DEF UserStep, AppendRecord, RetentionSeal, ReplaySeal, RetentionDropped, Up
    <3>5. CASE ReplayDone \/ MetaSpool \/ Project \/ MetaStop \/ BeginShutdown
      BY <3>5 DEF ReplayDone, MetaSpool, Project, MetaStop, BeginShutdown, Up
    <3>6. CASE UNCHANGED vars
      BY <3>6 DEF vars, Up
    <3> QED
      BY <1>1, <3>1, <3>2, <3>3, <3>4, <3>5, <3>6 DEF Steady
  <2> QED
    BY <1>0, <2>1, <2>2 DEF WriterAt, Up
<1>2. CASE Flushing
  <2>1. /\ Up /\ wpc = "recv" /\ wpc' = "publish" /\ UNCHANGED <<phase, nextSeg, active>>
        /\ active \in DOMAIN segs /\ flush_visible
    BY <1>2, FlushingFacts
  <2>2. DOMAIN segs' = DOMAIN segs
    BY <1>0, <2>1, FlushFacts
  <2> QED
    BY <1>0, <2>1, <2>2 DEF WriterAt, Up
<1>3. CASE Syncing
  <2>1. /\ Up /\ wpc # "init" /\ wpc' = "publish" /\ UNCHANGED <<phase, nextSeg, active>>
        /\ active \in DOMAIN segs /\ flush_sync
    BY <1>3, SyncingFacts
  <2>2. DOMAIN segs' = DOMAIN segs
    BY <1>0, <2>1, SyncFacts
  <2> QED
    BY <1>0, <2>1, <2>2 DEF WriterAt, Up
<1>4. CASE WriteRecord
  <2>1. PICK r \in Records : /\ cmd.rec = r /\ Up /\ wpc = "write" /\ active \in DOMAIN segs
    BY <1>4, WritingFacts
  <2>2. DOMAIN segs' = DOMAIN segs /\ wpc' \in {"recv", "publish"}
    BY <1>0, <1>4, <2>1, WriteFacts
  <2> QED
    BY <1>0, <1>4, <2>1, <2>2 DEF WriterAt, Up, WriteRecord
<1>5. CASE Opening
  <2>1. DOMAIN segs' = DOMAIN segs \cup {nextSeg} /\ active' = nextSeg /\ nextSeg' = nextSeg + 1
        /\ nextSeg \in Nat
    BY <1>0, <1>5, OpeningFacts, OpenFacts
  <2>2. wpc' # "init"
    BY <1>5 DEF Opening, WriterInit, Rotate
  <2> QED
    BY <2>1, <2>2 DEF WriterAt
<1>6. CASE RetentionDelete
  <2>1. UNCHANGED <<phase, nextSeg, active, wpc>>
    BY <1>6 DEF RetentionDelete
  <2>2. DOMAIN segs \ {active} \subseteq DOMAIN segs /\ (active \in DOMAIN segs => active \in DOMAIN segs')
    BY <1>0, <1>6, DeleteFacts
  <2> QED
    BY <1>0, <2>1, <2>2 DEF WriterAt, Up
<1>7. CASE Ending
  BY <1>7, EndingFacts DEF ProcessGone, WriterAt, Up
<1>8. CASE Start
  <2>1. wpc' = "init" /\ UNCHANGED active /\ ~Up
    BY <1>8 DEF Start, Up
  <2>2. active = 0
    BY <2>1 DEF Control, PhaseInv
  <2> QED
    BY <2>1, <2>2 DEF WriterAt
<1> QED
  BY <1>1, <1>2, <1>3, <1>4, <1>5, <1>6, <1>7, <1>8, StepKinds

(* It holds a command exactly while it executes one.                       *)
LEMMA WriterCmdStep ==
    ASSUME Control, [Next]_vars
    PROVE  WriterCmd'
<1>0. WriterCmd /\ PlainTypes
  BY TypesApart DEF Control, WriterInv
<1> USE DEF bounds, storeVars, writerVars, metaVars, userVars, historyVars
<1> USE DEF WriterCmd, Stopping, Committing
<1>1. ASSUME UNCHANGED <<wpc, then, cmd>>
      PROVE  WriterCmd'
  BY <1>0, <1>1
<1>2. CASE Flushing
  <2>1. wpc = "recv" /\ wpc' = "publish" /\ then' = "recv"
    BY <1>2, FlushingFacts
  <2>2. CASE TakeFlush
    <3>1. cmd' = Head(rx) /\ Head(rx) \in Commands /\ Head(rx).kind = "flush"
      BY <1>0, <2>2, ReceiveFacts DEF TakeFlush
    <3>2. cmd' = FlushCmd
      BY <3>1, CommandKinds
    <3> QED
      BY <2>1, <3>2
  <2>3. CASE Tick
    BY <1>0, <2>1, <2>3 DEF Tick
  <2> QED
    BY <1>2, <2>2, <2>3 DEF Flushing
<1>3. CASE RecordOverBudget \/ TickStop \/ MetadataGone \/ RotateOverBudget
  BY <1>3 DEF RecordOverBudget, TickStop, MetadataGone, RotateOverBudget, LeaveLoop
<1>4. CASE RecordRotates \/ TakeSeal
  <2>1. Receive("record") \/ Receive("seal")
    BY <1>4 DEF RecordRotates, TakeSeal
  <2>2. Head(rx) \in Commands /\ Head(rx).kind \in {"record", "seal"}
    BY <1>0, <2>1, ReceiveFacts
  <2>3. Head(rx) \in RecordCmds \cup Seals
    BY <2>2, CommandKinds
  <2>4. wpc' = "publish" /\ then' = "commit" /\ cmd' = Head(rx)
    BY <1>4 DEF RecordRotates, TakeSeal, BeginCommit
  <2> QED
    BY <2>3, <2>4
<1>5. CASE WriteRecord
  <2>1. wpc' \in {"recv", "publish"} /\ then' = "recv" /\ cmd' = NoCmd
    BY <1>5 DEF WriteRecord
  <2> QED
    BY <2>1
<1>6. CASE WriterInit
  BY <1>0, <1>6 DEF WriterInit
<1>7. CASE Rotate
  <2>1. cmd \in Commands /\ (cmd.kind = "record" => cmd \in RecordCmds)
    BY <1>0, CommandKinds DEF PlainTypes
  <2> QED
    BY <1>7, <2>1 DEF Rotate
<1>8. CASE Ending
  BY <1>8, EndingFacts DEF ProcessGone
<1>9. CASE Start
  BY <1>9 DEF Start, Control, PhaseInv, Up
<1>10. CASE RetentionDelete
  BY <1>1, <1>10 DEF RetentionDelete
<1>11. CASE Steady
  <2>1. CASE RecordFits
    <3>1. Head(rx) \in RecordCmds
      BY <1>0, <2>1, ReceiveFacts, CommandKinds DEF RecordFits
    <3> QED
      BY <2>1, <3>1 DEF RecordFits
  <2>2. CASE PublishDone
    <3>1. then \in {"recv", "commit"} /\ wpc = "publish"
      BY <1>0, <2>2 DEF PublishDone, PlainTypes
    <3> QED
      BY <1>0, <2>2, <3>1 DEF PublishDone
  <2>3. CASE CommitBarrier \/ StopWriter
    BY <1>0, <2>3 DEF CommitBarrier, StopWriter
  <2>4. CASE RetentionDropped
    <3>1. cmd' \in {cmd, SealCmd("nobody")} /\ UNCHANGED <<wpc, then>>
          /\ (cmd' # cmd => cmd = SealCmd("retention"))
      BY <2>4 DEF RetentionDropped
    <3>2. SealCmd("nobody") \in Seals
      BY DEF Seals
    <3>3. SealCmd("retention") \notin RecordCmds /\ SealCmd("retention") # NoCmd
          /\ SealCmd("retention") # FlushCmd
      BY CommandsDiffer DEF RecordCmds
    <3> QED
      BY <1>0, <3>1, <3>2, <3>3
  <2>5. CASE \/ PublishRow \/ StartStep \/ RetentionScan \/ RetentionBarrier \/ RetentionMutate
             \/ ReplayDone \/ MetaSpool \/ Project \/ MetaStop \/ BeginShutdown \/ UNCHANGED vars
    <3>1. UNCHANGED <<wpc, then, cmd>>
      BY <2>5 DEF PublishRow, StartStep, RebuildRow, RebuildBarrier, WriteMarker, RetentionScan,
                  RetentionBarrier, RetentionMutate, ReplayDone, MetaSpool, Project, MetaStop,
                  BeginShutdown, vars
    <3> QED
      BY <1>1, <3>1
  <2>6. CASE (\E r \in Records : AppendRecord(r)) \/ (\E c \in Cutoffs : RetentionSeal(c)) \/ ReplaySeal
    <3>1. UNCHANGED <<wpc, then, cmd>>
      BY <2>6 DEF AppendRecord, RetentionSeal, ReplaySeal
    <3> QED
      BY <1>1, <3>1
  <2> QED
    BY <1>11, <2>1, <2>2, <2>3, <2>4, <2>5, <2>6 DEF Steady, UserStep
<1> QED
  BY <1>2, <1>3, <1>4, <1>5, <1>6, <1>7, <1>8, <1>9, <1>10, <1>11, StepKinds
     DEF Syncing, Opening

(* The rows it has yet to publish stay those of its segment.               *)
LEMMA WriterRowsStep ==
    ASSUME Control, [Next]_vars
    PROVE  WriterRows'
<1>0. WriterRows /\ WriterAt /\ PlainTypes /\ Types /\ pending \in Seq(Rows)
  BY TypesApart DEF Control, WriterInv, PlainTypes
<1> USE DEF bounds, storeVars, writerVars, metaVars, userVars, historyVars
<1>a. 0 < PendingMax /\ Len(<<>>) = 0
  BY PendingMaxAssumption
<1>b. ASSUME pending' = <<>>
      PROVE  WriterRows'
  <2>1. Len(pending') = 0
    BY <1>a, <1>b
  <2> QED
    BY <1>a, <1>b, <2>1 DEF WriterRows
<1>c. ASSUME UNCHANGED <<pending, active>>,
             segs'[active].recs = segs[active].recs,
             wpc' \in {"init", "commit", "rotate"} => wpc \in {"init", "commit", "rotate"},
             wpc' \in {"init", "recv", "write"} => wpc \in {"init", "recv", "write"}
      PROVE  WriterRows'
  BY <1>0, <1>c DEF WriterRows
<1>1. CASE Steady
  <2>1. UNCHANGED <<segs, active>>
    BY <1>1, SteadyFacts
  <2>2. CASE RecordFits
    BY <1>c, <2>1, <2>2 DEF RecordFits, Receive
  <2>3. CASE PublishRow
    <3>1. /\ pending # <<>> /\ pending' = Tail(pending) /\ wpc = "publish" /\ UNCHANGED wpc
      BY <2>3 DEF PublishRow
    <3>2. /\ Len(pending') = Len(pending) - 1 /\ Len(pending) \in Nat
          /\ \A i \in 1..Len(pending') : i + 1 \in 1..Len(pending) /\ pending'[i] = pending[i + 1]
      BY <1>0, <3>1
    <3> QED
      BY <1>0, <2>1, <3>1, <3>2 DEF WriterRows
  <2>4. CASE PublishDone
    BY <1>b, <2>4 DEF PublishDone
  <2>5. CASE CommitBarrier \/ StopWriter
    BY <1>c, <2>1, <2>5 DEF CommitBarrier, StopWriter
  <2>6. CASE \/ StartStep \/ RetentionScan \/ RetentionBarrier \/ RetentionMutate
             \/ ReplayDone \/ MetaSpool \/ Project \/ MetaStop \/ BeginShutdown \/ UNCHANGED vars
    <3>1. UNCHANGED <<wpc, pending>>
      BY <2>6 DEF StartStep, RebuildRow, RebuildBarrier, WriteMarker, RetentionScan,
                  RetentionBarrier, RetentionMutate, ReplayDone, MetaSpool, Project, MetaStop,
                  BeginShutdown, vars
    <3> QED
      BY <1>c, <2>1, <3>1
  <2>7. CASE UserStep
    <3>1. UNCHANGED <<wpc, pending>>
      BY <2>7 DEF UserStep, AppendRecord, RetentionSeal, ReplaySeal, RetentionDropped
    <3> QED
      BY <1>c, <2>1, <3>1
  <2> QED
    BY <1>1, <2>2, <2>3, <2>4, <2>5, <2>6, <2>7 DEF Steady
<1>2. CASE Flushing
  <2>1. /\ wpc' = "publish" /\ UNCHANGED <<pending, active>>
        /\ active \in DOMAIN segs /\ flush_visible
    BY <1>2, FlushingFacts
  <2>2. segs'[active].recs = segs[active].recs
    BY <1>0, <2>1, FlushFacts
  <2> QED
    BY <1>c, <2>1, <2>2
<1>3. CASE Syncing
  <2>1. /\ wpc' = "publish" /\ UNCHANGED <<pending, active>>
        /\ active \in DOMAIN segs /\ flush_sync
    BY <1>3, SyncingFacts
  <2>2. segs'[active].recs = segs[active].recs
    BY <1>0, <2>1, SyncFacts
  <2> QED
    BY <1>c, <2>1, <2>2
<1>4. CASE WriteRecord
  <2>1. PICK r \in Records : /\ cmd.rec = r /\ Up /\ wpc = "write" /\ active \in DOMAIN segs
    BY <1>4, WritingFacts
  <2>2. /\ segs'[active].recs = Append(segs[active].recs, r)
        /\ wpc' \in {"recv", "publish"}
        /\ wpc' = "recv" => Len(pending) + 1 < PendingMax
    BY <1>0, <1>4, <2>1, WriteFacts
  <2>3. pending' = Append(pending, <<r, active>>) /\ UNCHANGED active
    BY <1>4, <2>1 DEF WriteRecord
  <2> DEFINE old == segs[active].recs
             new == segs'[active].recs
             row == <<r, active>>
  <2>4. old \in Seq(Records) /\ Len(old) \in Nat
    BY <1>0, <2>1, StoreParts
  <2>5. /\ Len(new) = Len(old) + 1 /\ new[Len(old) + 1] = r /\ Len(old) + 1 \in 1..Len(new)
        /\ \A j \in 1..Len(old) : j \in 1..Len(new) /\ new[j] = old[j]
    <3> HIDE DEF old
    <3>1. new = Append(old, r)
      BY <2>2 DEF old
    <3> HIDE DEF new
    <3> QED
      BY <2>4, <3>1
  <2>6. /\ Len(pending') = Len(pending) + 1 /\ Len(pending) \in Nat
        /\ pending'[Len(pending) + 1] = row
        /\ \A i \in 1..Len(pending) : pending'[i] = pending[i]
    <3> HIDE DEF row
    <3>1. pending' = Append(pending, row)
      BY <2>3 DEF row
    <3> QED
      BY <1>0, <3>1
  <2>7. row[1] = r /\ row[2] = active
    OBVIOUS
  <2> HIDE DEF row, old, new
  <2>8. ASSUME NEW i \in 1..Len(pending')
        PROVE  pending'[i][2] = active /\ \E j \in 1..Len(new) : new[j] = pending'[i][1]
    <3>1. CASE i = Len(pending) + 1
      BY <2>5, <2>6, <2>7, <3>1
    <3>2. CASE i # Len(pending) + 1
      <4>1. i \in 1..Len(pending) /\ pending'[i] = pending[i]
        BY <2>6, <3>2
      <4>2. pending[i][2] = active /\ \E j \in 1..Len(old) : old[j] = pending[i][1]
        BY <1>0, <4>1 DEF WriterRows, old
      <4> QED
        BY <2>5, <4>1, <4>2
    <3> QED
      BY <3>1, <3>2
  <2> QED
    BY <2>2, <2>3, <2>6, <2>8 DEF WriterRows, new
<1>5. CASE Opening
  BY <1>0, <1>5, <1>b, OpeningFacts DEF WriterRows
<1>6. CASE RetentionDelete
  <2>1. UNCHANGED <<active, wpc, pending>> /\ retention.pc = "delete"
    BY <1>6 DEF RetentionDelete
  <2>2. Up
    BY <2>1 DEF Control, PhaseInv, NoRetention, Up
  <2>3. CASE wpc = "init"
    BY <1>0, <1>b, <2>1, <2>3 DEF WriterRows
  <2>4. CASE wpc # "init"
    <3>1. active \in DOMAIN segs
      BY <1>0, <2>2, <2>4 DEF WriterAt
    <3>2. segs'[active] = segs[active]
      BY <1>0, <1>6, <3>1, DeleteFacts DEF Control
    <3> QED
      BY <1>c, <2>1, <3>2
  <2> QED
    BY <2>3, <2>4
<1>7. CASE Ending
  BY <1>7, <1>b, EndingFacts DEF ProcessGone
<1>8. CASE Start
  BY <1>8, <1>b DEF Start, Control, PhaseInv, Up
<1> QED
  BY <1>1, <1>2, <1>3, <1>4, <1>5, <1>6, <1>7, <1>8, StepKinds

(* While the store starts up, the writer only answers the flush that the   *)
(* rebuild of the index asks for; everything else comes later.             *)
LEMMA ServicePhases ==
    ASSUME Control,
           \/ Syncing \/ WriteRecord \/ RecordFits \/ Rotate \/ CommitBarrier \/ StopWriter
           \/ PublishRow \/ Tick \/ UserStep \/ RetentionStep \/ ReplayDone \/ MetaStop
           \/ BeginShutdown
    PROVE  phase \in {"running", "closing"}
<1>0. PhaseInv /\ PlainTypes /\ WriterAt
  BY TypesApart DEF Control, WriterInv
<1>a. ASSUME phase \notin {"running", "closing"}, Up
      PROVE  /\ pending = <<>> /\ metaUp /\ replay = Idle /\ retention = NoRetention
             /\ wpc \in {"init", "recv", "publish"} /\ (wpc = "publish" => then = "recv")
             /\ rx = <<>> \/ rx = <<FlushCmd>>
  BY <1>0, <1>a DEF PhaseInv, PlainTypes, Up
<1>b. ASSUME NEW kind \in {"record", "seal"}, Receive(kind)
      PROVE  phase \in {"running", "closing"}
  <2> SUFFICES ASSUME phase \notin {"running", "closing"} PROVE FALSE
    OBVIOUS
  <2>1. Up /\ rx # <<>> /\ Head(rx).kind = kind
    BY <1>b DEF Receive
  <2>2. rx = <<FlushCmd>>
    BY <1>a, <2>1
  <2>3. Head(rx) = FlushCmd
    BY <2>2
  <2> QED
    BY <2>1, <2>3 DEF FlushCmd
<1> USE DEF bounds, storeVars, writerVars, metaVars, userVars, historyVars
<1>1. CASE RecordOverBudget \/ RecordRotates \/ TakeSeal \/ RecordFits
  BY <1>1, <1>b DEF RecordOverBudget, RecordRotates, TakeSeal, RecordFits
<1>2. CASE TickStop \/ MetadataGone \/ RotateOverBudget
  BY <1>2, <1>a DEF TickStop, MetadataGone, RotateOverBudget
<1>3. CASE WriteRecord
  <2>1. wpc = "write" /\ Up
    BY <1>3, WritingFacts
  <2> QED
    BY <1>a, <2>1
<1>4. CASE Rotate \/ CommitBarrier \/ StopWriter \/ PublishRow \/ Tick
  BY <1>4, <1>a DEF Rotate, CommitBarrier, StopWriter, PublishRow, Tick
<1>5. CASE UserStep
  <2>1. CASE RetentionDropped
    BY <1>0, <2>1 DEF RetentionDropped, PhaseInv, NoRetention
  <2>2. CASE ~RetentionDropped
    BY <1>5, <2>2 DEF UserStep, AppendRecord, RetentionSeal, ReplaySeal
  <2> QED
    BY <2>1, <2>2
<1>6. CASE RetentionStep
  BY <1>0, <1>6 DEF RetentionStep, RetentionScan, RetentionBarrier, RetentionMutate,
                    RetentionDelete, PhaseInv, NoRetention
<1>7. CASE ReplayDone
  BY <1>0, <1>7 DEF ReplayDone, PhaseInv, Idle
<1>8. CASE MetaStop \/ BeginShutdown
  BY <1>8 DEF MetaStop, BeginShutdown
<1> QED
  BY <1>1, <1>2, <1>3, <1>4, <1>5, <1>6, <1>7, <1>8 DEF Syncing

(* A store that shuts down has neither a replay nor a cleanup.             *)
LEMMA ClosingQuiet ==
    ASSUME Control, phase \in {"running", "closing"}, Syncing \/ Rotate \/ StopWriter
    PROVE  phase = "closing" => UNCHANGED userVars
<1>0. PhaseInv /\ UserInv /\ rx \in Seq(Commands)
  BY TypesApart DEF Control, PlainTypes
<1> SUFFICES ASSUME phase = "closing" PROVE UNCHANGED userVars
  OBVIOUS
<1>1. replay.pc = "idle" /\ retention.pc = "idle"
  BY <1>0 DEF PhaseInv, Idle, NoRetention
<1>2. cmd # SealCmd("replay") /\ cmd # SealCmd("retention")
  BY <1>0, <1>1 DEF UserInv, SealInv
<1>3. SealCmd("replay") \notin ToSet(rx) /\ SealCmd("retention") \notin ToSet(rx)
  <2>1. DOMAIN rx = 1..Len(rx)
    BY <1>0
  <2> QED
    BY <1>0, <1>1, <2>1 DEF UserInv, SealInv, ToSet
<1>4. CASE Syncing
  BY <1>2, <1>4 DEF Syncing, RecordOverBudget, TickStop, MetadataGone, RotateOverBudget,
                    RecordRotates, TakeSeal, BeginCommit, ReplyErr, userVars
<1>5. CASE Rotate
  BY <1>2, <1>5 DEF Rotate, userVars
<1>6. CASE StopWriter
  BY <1>3, <1>6 DEF StopWriter, ReplyErr, userVars
<1> QED
  BY <1>4, <1>5, <1>6

(* The flush of the rebuild is the only one.                               *)
LEMMA NoOtherFlush ==
    ASSUME Control, phase # "flushing",
           \/ Syncing \/ RecordFits \/ UserStep \/ StopWriter \/ Rotate
           \/ UNCHANGED <<rx, cmd>>
    PROVE  cmd' # FlushCmd /\ \A i \in 1..Len(rx') : rx'[i] # FlushCmd
<1>0. PlainTypes /\ cmd # FlushCmd /\ (\A i \in 1..Len(rx) : rx[i] # FlushCmd) /\ NoCmd # FlushCmd
  BY TypesApart, CommandsDiffer DEF Control, PhaseInv
<1>a. ASSUME NEW kind, Receive(kind)
      PROVE  Head(rx) # FlushCmd /\ \A i \in 1..Len(rx') : rx'[i] # FlushCmd
  BY <1>0, <1>a, ReceiveFacts
<1>1. CASE RecordOverBudget \/ RecordRotates \/ TakeSeal \/ RecordFits
  BY <1>0, <1>1, <1>a DEF RecordOverBudget, RecordRotates, TakeSeal, RecordFits, LeaveLoop, BeginCommit
<1>2. CASE TickStop \/ MetadataGone \/ RotateOverBudget
  BY <1>0, <1>2 DEF TickStop, MetadataGone, RotateOverBudget, LeaveLoop
<1>3. CASE UserStep
  <2>1. ASSUME NEW c \in Commands, c # FlushCmd, Enqueue(c), UNCHANGED cmd
        PROVE  cmd' # FlushCmd /\ \A i \in 1..Len(rx') : rx'[i] # FlushCmd
    BY <1>0, <2>1, EnqueueFacts
  <2>2. CASE \E r \in Records : AppendRecord(r)
    BY <2>1, <2>2, CommandKinds, CommandsDiffer DEF AppendRecord, writerVars
  <2>3. CASE (\E c \in Cutoffs : RetentionSeal(c)) \/ ReplaySeal
    BY <2>1, <2>3, CommandKinds, CommandsDiffer DEF RetentionSeal, ReplaySeal, writerVars
  <2>4. CASE RetentionDropped
    <3>1. SealCmd("nobody") # FlushCmd
      BY CommandsDiffer
    <3>2. DOMAIN rx = 1..Len(rx) /\ Len(rx) \in Nat
      BY <1>0 DEF PlainTypes
    <3>3. /\ Len(rx') = Len(rx)
          /\ \A i \in 1..Len(rx) : rx'[i] \in {rx[i], SealCmd("nobody")}
      BY <2>4, <3>2 DEF RetentionDropped
    <3> QED
      BY <1>0, <2>4, <3>1, <3>3 DEF RetentionDropped
  <2> QED
    BY <1>3, <2>2, <2>3, <2>4 DEF UserStep
<1>4. CASE StopWriter
  BY <1>0, <1>4 DEF StopWriter
<1>5. CASE Rotate
  BY <1>0, <1>5 DEF Rotate
<1>6. CASE UNCHANGED <<rx, cmd>>
  BY <1>0, <1>6
<1> QED
  BY <1>1, <1>2, <1>3, <1>4, <1>5, <1>6 DEF Syncing

(* The phases of the process follow each other in order.                   *)
LEMMA PhaseInvStep ==
    ASSUME Control, [Next]_vars
    PROVE  PhaseInv'
<1>0. PhaseInv /\ PlainTypes /\ WriterAt /\ WriterCmd /\ Types
  BY TypesApart DEF Control, WriterInv
<1> USE DEF bounds, storeVars, writerVars, metaVars, userVars, historyVars
<1>a. ASSUME phase \in {"running", "closing"}, UNCHANGED <<phase, marker, todo>>,
             cmd' # FlushCmd, \A i \in 1..Len(rx') : rx'[i] # FlushCmd,
             phase = "closing" => UNCHANGED <<replay, retention>>
      PROVE  PhaseInv'
  BY <1>0, <1>a DEF PhaseInv, Up
<1>b. phase \in {"running", "closing"} =>
        cmd # FlushCmd /\ (\A i \in 1..Len(rx) : rx[i] # FlushCmd) /\ NoCmd # FlushCmd
  BY <1>0, CommandsDiffer DEF PhaseInv
<1>c. FlushCmd.kind = "flush" /\ Len(<<FlushCmd>>) = 1 /\ Tail(<<FlushCmd>>) = <<>>
      /\ Head(<<FlushCmd>>) = FlushCmd
  BY DEF FlushCmd
<1>1. CASE Syncing
  <2>1. phase \in {"running", "closing"}
    BY <1>1, ServicePhases
  <2>2. cmd' # FlushCmd /\ \A i \in 1..Len(rx') : rx'[i] # FlushCmd
    BY <1>1, <2>1, NoOtherFlush
  <2>3. UNCHANGED <<phase, marker, todo>>
    BY <1>1, SyncingFacts
  <2> QED
    BY <1>1, <1>a, <2>1, <2>2, <2>3, ClosingQuiet
<1>2. CASE WriteRecord
  <2>1. phase \in {"running", "closing"}
    BY <1>2, ServicePhases
  <2> QED
    BY <1>2, <1>a, <1>b, <2>1 DEF WriteRecord
<1>3. CASE Flushing
  <2>1. /\ wpc = "recv" /\ wpc' = "publish" /\ then' = "recv" /\ active \in DOMAIN segs
        /\ UNCHANGED <<phase, marker, todo, pending, active, metaUp, meta, replay, retention>>
        /\ Up /\ flush_visible
    BY <1>3, FlushingFacts
  <2>2. CASE Tick
    <3>1. phase \in {"running", "closing"}
      BY <2>2, ServicePhases
    <3> QED
      BY <1>a, <1>b, <2>1, <2>2, <3>1 DEF Tick
  <2>3. CASE TakeFlush
    <3>1. rx # <<>> /\ rx' = Tail(rx) /\ cmd' = Head(rx) /\ Head(rx).kind = "flush"
      BY <2>3 DEF TakeFlush, Receive
    <3>2. Head(rx) = FlushCmd /\ Head(rx) = rx[1] /\ 1 \in 1..Len(rx)
      BY <1>0, <2>3, ReceiveFacts, CommandKinds DEF TakeFlush
    <3>3. phase = "flushing"
      BY <1>0, <3>2 DEF PhaseInv
    <3>4. rx = <<FlushCmd>>
      BY <1>0, <2>1, <3>3 DEF PhaseInv
    <3>5. cmd' = FlushCmd /\ rx' = <<>>
      BY <1>c, <3>1, <3>4
    <3>6. segs'[active].recs = segs[active].recs
      BY <1>0, <2>1, FlushFacts
    <3> QED
      BY <1>0, <2>1, <3>3, <3>5, <3>6 DEF PhaseInv, Up
  <2> QED
    BY <1>3, <2>2, <2>3 DEF Flushing
<1>4. CASE WriterInit
  <2>1. UNCHANGED <<phase, rx, marker, then, cmd, pending, todo, metaUp, meta, replay, retention>>
        /\ wpc = "init" /\ wpc' = "recv" /\ OpenSegment(segs) /\ Up
    BY <1>4 DEF WriterInit
  <2>2. segs'[active'].recs = <<>>
    BY <1>0, <2>1, OpenFacts
  <2> QED
    BY <1>0, <2>1, <2>2 DEF PhaseInv, Up
<1>5. CASE Rotate
  <2>1. phase \in {"running", "closing"}
    BY <1>5, ServicePhases
  <2>2. cmd' # FlushCmd /\ \A i \in 1..Len(rx') : rx'[i] # FlushCmd
    BY <1>5, <2>1, NoOtherFlush
  <2>3. UNCHANGED <<phase, marker, todo>>
    BY <1>5 DEF Rotate
  <2> QED
    BY <1>5, <1>a, <2>1, <2>2, <2>3, ClosingQuiet
<1>6. CASE RetentionDelete
  <2>1. phase \in {"running", "closing"}
    BY <1>6, ServicePhases DEF RetentionStep
  <2>2. phase # "closing"
    BY <1>0, <1>6 DEF RetentionDelete, PhaseInv, NoRetention
  <2> QED
    BY <1>6, <1>a, <1>b, <2>1, <2>2 DEF RetentionDelete
<1>7. CASE Ending
  <2>1. /\ phase' = "down" /\ rx' = <<>> /\ cmd' = NoCmd /\ wpc' = "stopped" /\ active' = 0
        /\ pending' = <<>> /\ todo' = {} /\ metaUp' = FALSE /\ meta' = {}
        /\ replay' = Idle /\ retention' = NoRetention
    BY <1>7, EndingFacts DEF ProcessGone
  <2>2. cmd' # FlushCmd /\ Len(rx') = 0
    BY <2>1, CommandsDiffer
  <2> QED
    BY <2>1, <2>2 DEF PhaseInv, Up
<1>8. CASE Start
  <2>1. /\ phase = "down" /\ wpc' = "init" /\ metaUp' = TRUE
        /\ \/ phase' = "rebuild" /\ rx' = <<>>
           \/ phase' = "flushing" /\ todo' = {} /\ rx' = <<FlushCmd>>
        /\ UNCHANGED <<marker, cmd, pending, meta, replay, retention>>
    BY <1>8 DEF Start
  <2>2. cmd # FlushCmd /\ pending = <<>> /\ Len(<<>>) = 0
        /\ replay = Idle /\ retention = NoRetention
    BY <1>0, <2>1 DEF PhaseInv, Up
  <2> QED
    BY <2>1, <2>2 DEF PhaseInv, Up
<1>9. CASE RecordFits \/ StopWriter \/ UserStep
  <2>1. phase \in {"running", "closing"}
    BY <1>9, ServicePhases
  <2>2. cmd' # FlushCmd /\ \A i \in 1..Len(rx') : rx'[i] # FlushCmd
    BY <1>9, <2>1, NoOtherFlush
  <2>3. UNCHANGED <<phase, marker, todo>>
    BY <1>9 DEF RecordFits, StopWriter, UserStep, AppendRecord, RetentionSeal, ReplaySeal,
                RetentionDropped
  <2>4. phase = "closing" => UNCHANGED <<replay, retention>>
    <3>1. CASE RecordFits
      BY <3>1 DEF RecordFits
    <3>2. CASE StopWriter
      BY <2>1, <3>2, ClosingQuiet
    <3>3. CASE UserStep
      <4>1. phase = "closing" => ~retention.guard
        BY <1>0 DEF PhaseInv, NoRetention
      <4> QED
        BY <3>3, <4>1 DEF UserStep, AppendRecord, RetentionSeal, ReplaySeal, RetentionDropped
    <3> QED
      BY <1>9, <3>1, <3>2, <3>3
  <2> QED
    BY <1>a, <2>1, <2>2, <2>3, <2>4
<1>10. CASE RetentionScan \/ RetentionBarrier \/ RetentionMutate \/ ReplayDone
  <2>1. phase \in {"running", "closing"}
    BY <1>10, ServicePhases DEF RetentionStep
  <2>2. phase # "closing"
    BY <1>0, <1>10 DEF RetentionScan, RetentionBarrier, RetentionMutate, ReplayDone, PhaseInv,
                       NoRetention, Idle
  <2> QED
    BY <1>10, <1>a, <1>b, <2>1, <2>2
       DEF RetentionScan, RetentionBarrier, RetentionMutate, ReplayDone
<1>11. CASE PublishRow \/ CommitBarrier \/ MetaStop
  <2>1. phase \in {"running", "closing"}
    BY <1>11, ServicePhases
  <2> QED
    BY <1>11, <1>a, <1>b, <2>1 DEF PublishRow, CommitBarrier, MetaStop
<1>12. CASE BeginShutdown
  <2>1. replay = Idle /\ retention = NoRetention
    BY <1>12 DEF BeginShutdown, Control, UserInv, GuardInv
  <2> QED
    BY <1>0, <1>12, <2>1 DEF BeginShutdown, PhaseInv, Up
<1>13. CASE PublishDone
  <2>1. /\ Up /\ wpc = "publish" /\ wpc' = then /\ cmd' \in {NoCmd, cmd}
        /\ UNCHANGED <<rx, segs, marker, then, active, pending, metaUp, meta, replay, retention>>
    BY <1>13 DEF PublishDone
  <2>2. CASE cmd = FlushCmd
    <3>1. phase = "flushing" /\ phase' = "rebuild"
      BY <1>0, <1>13, <2>2 DEF PublishDone, PhaseInv
    <3>2. then = "recv" /\ rx = <<>> /\ pending = <<>> /\ metaUp /\ segs[active].recs = <<>>
          /\ replay = Idle /\ retention = NoRetention
      BY <1>0, <2>1, <3>1 DEF PhaseInv
    <3>3. cmd' = NoCmd /\ Len(rx') = 0
      BY <1>13, <2>1, <3>2 DEF PublishDone
    <3>4. cmd' # FlushCmd
      BY <3>3, CommandsDiffer
    <3> QED
      BY <2>1, <3>1, <3>2, <3>3, <3>4 DEF PhaseInv, Up
  <2>3. CASE cmd # FlushCmd
    <3>1. phase \in {"running", "closing"}
      BY <1>0, <2>1, <2>3 DEF PhaseInv, PlainTypes, Up
    <3>2. UNCHANGED <<phase, todo>>
      BY <1>13, <2>3 DEF PublishDone
    <3> QED
      BY <1>a, <1>b, <2>1, <3>1, <3>2
  <2> QED
    BY <2>2, <2>3
<1>14. CASE StartStep
  BY <1>0, <1>14 DEF StartStep, RebuildRow, RebuildBarrier, WriteMarker, DurableBarrier, PhaseInv, Up
<1>15. CASE MetaSpool \/ Project
  BY <1>0, <1>15 DEF MetaSpool, Project, DurableBarrier, PhaseInv, Up
<1>16. CASE UNCHANGED vars
  BY <1>0, <1>16 DEF vars, PhaseInv, Up
<1> QED
  BY <1>1, <1>2, <1>3, <1>4, <1>5, <1>6, <1>7, <1>8, <1>9, <1>10, <1>11, <1>12, <1>13, <1>14,
     <1>15, <1>16, StepKinds DEF Steady, Opening

(* A seal has one caller, who waits for it.                                *)
LEMMA SealInvStep ==
    ASSUME Control, [Next]_vars
    PROVE  SealInv'
<1>0. SealInv /\ PlainTypes /\ PhaseInv /\ GuardInv /\ WriterCmd
  BY TypesApart DEF Control, UserInv, WriterInv
<1> USE DEF bounds, storeVars, writerVars, metaVars, userVars, historyVars
<1>a. /\ SealCmd("replay") # SealCmd("retention") /\ SealCmd("nobody") # SealCmd("replay")
      /\ SealCmd("nobody") # SealCmd("retention")
      /\ \A w : SealCmd(w) # NoCmd /\ SealCmd(w) # FlushCmd
      /\ \A r, w : RecordCmd(r) # SealCmd(w)
  BY CommandsDiffer
<1>b. ASSUME UNCHANGED rx, cmd' = cmd \/ (\A w \in {"replay", "retention"} : cmd' # SealCmd(w)),
             replay.pc = "sealing" => replay'.pc = "sealing" \/ cmd = SealCmd("replay"),
             retention.pc = "sealing" => retention'.pc = "sealing" \/ cmd = SealCmd("retention"),
             cmd' = SealCmd("replay") => replay'.pc = "sealing",
             cmd' = SealCmd("retention") => retention'.pc = "sealing"
      PROVE  SealInv'
  BY <1>0, <1>b DEF SealInv
<1>c. ASSUME NEW kind, Receive(kind), cmd' \in {Head(rx), NoCmd}, UNCHANGED <<replay, retention>>
      PROVE  SealInv'
  <2>1. /\ Len(rx) \in Nat /\ Len(rx') = Len(rx) - 1 /\ 1 \in 1..Len(rx)
        /\ \A i \in 1..Len(rx') : i + 1 \in 1..Len(rx) /\ rx'[i] = rx[i + 1]
        /\ Head(rx) = rx[1]
    BY <1>0, <1>c, ReceiveFacts
  <2>2. ASSUME NEW w \in {"replay", "retention"}
        PROVE  /\ \A i, j \in 1..Len(rx') : rx'[i] = SealCmd(w) /\ rx'[j] = SealCmd(w) => i = j
               /\ cmd' = SealCmd(w) => \A i \in 1..Len(rx') : rx'[i] # SealCmd(w)
    <3>1. \A i, j \in 1..Len(rx) : rx[i] = SealCmd(w) /\ rx[j] = SealCmd(w) => i = j
      BY <1>0 DEF SealInv
    <3>2. cmd' = SealCmd(w) => rx[1] = SealCmd(w)
      BY <1>a, <1>c, <2>1
    <3> QED
      BY <2>1, <3>1, <3>2
  <2>3. /\ \A i \in 1..Len(rx') : rx'[i] = SealCmd("replay") => replay.pc = "sealing"
        /\ \A i \in 1..Len(rx') : rx'[i] = SealCmd("retention") => retention.pc = "sealing"
        /\ cmd' = SealCmd("replay") => replay.pc = "sealing"
        /\ cmd' = SealCmd("retention") => retention.pc = "sealing"
    BY <1>0, <1>a, <1>c, <2>1 DEF SealInv
  <2> QED
    BY <1>c, <2>2, <2>3 DEF SealInv
<1>d. ASSUME rx' = <<>> \/ rx' = <<FlushCmd>>, cmd' = NoCmd
      PROVE  SealInv'
  <2>1. \A i \in 1..Len(rx') : rx'[i] = FlushCmd
    BY <1>d
  <2> QED
    BY <1>a, <1>d, <2>1 DEF SealInv
<1>1. CASE RecordOverBudget \/ RecordRotates \/ TakeSeal \/ RecordFits \/ TakeFlush
  <2>1. \E kind : Receive(kind)
    BY <1>1 DEF RecordOverBudget, RecordRotates, TakeSeal, RecordFits, TakeFlush
  <2>2. cmd' \in {Head(rx), NoCmd} /\ UNCHANGED <<replay, retention>>
    BY <1>1 DEF RecordOverBudget, RecordRotates, TakeSeal, RecordFits, TakeFlush, LeaveLoop,
                BeginCommit
  <2> QED
    BY <1>c, <2>1, <2>2
<1>2. CASE TickStop
  BY <1>2, <1>a, <1>b DEF TickStop, LeaveLoop
<1>3. CASE MetadataGone \/ RotateOverBudget
  <2>1. UNCHANGED rx /\ cmd' = NoCmd /\ ReplyErr({cmd})
    BY <1>3 DEF MetadataGone, RotateOverBudget, LeaveLoop
  <2>2. /\ replay.pc = "sealing" => replay'.pc = "sealing" \/ cmd = SealCmd("replay")
        /\ retention.pc = "sealing" => retention'.pc = "sealing" \/ cmd = SealCmd("retention")
    BY <2>1 DEF ReplyErr
  <2> QED
    BY <1>a, <1>b, <2>1, <2>2
<1>4. CASE Rotate
  <2>1. cmd.kind = "record" => \A w \in {"replay", "retention"} : cmd # SealCmd(w)
    BY DEF SealCmd
  <2>2. /\ UNCHANGED rx /\ (\A w \in {"replay", "retention"} : cmd' # SealCmd(w))
    BY <1>4, <1>a, <2>1 DEF Rotate
  <2>3. /\ replay.pc = "sealing" => replay'.pc = "sealing" \/ cmd = SealCmd("replay")
        /\ retention.pc = "sealing" => retention'.pc = "sealing" \/ cmd = SealCmd("retention")
    BY <1>4 DEF Rotate
  <2> QED
    BY <1>b, <2>2, <2>3
<1>5. CASE StopWriter
  <2>1. cmd = NoCmd
    BY <1>0, <1>5 DEF StopWriter, WriterCmd, Stopping
  <2> QED
    BY <1>5, <1>d, <2>1 DEF StopWriter
<1>6. CASE Ending
  BY <1>6, <1>d, EndingFacts DEF ProcessGone
<1>7. CASE Start
  BY <1>0, <1>7, <1>d DEF Start, PhaseInv, Up
<1>8. CASE WriteRecord \/ PublishDone
  <2>1. UNCHANGED <<rx, replay, retention>> /\ cmd' \in {cmd, NoCmd}
    BY <1>8 DEF WriteRecord, PublishDone
  <2>2. /\ cmd' = SealCmd("replay") => replay.pc = "sealing"
        /\ cmd' = SealCmd("retention") => retention.pc = "sealing"
    BY <1>0, <1>a, <2>1 DEF SealInv
  <2> QED
    BY <1>a, <1>b, <2>1, <2>2
<1>9. CASE RetentionStep \/ ReplayDone
  <2>1. UNCHANGED <<rx, cmd>>
    BY <1>9 DEF RetentionStep, RetentionScan, RetentionBarrier, RetentionMutate, RetentionDelete,
                ReplayDone
  <2>2. \/ retention.pc # "sealing" /\ UNCHANGED replay
        \/ replay.pc # "sealing" /\ UNCHANGED retention
    BY <1>9 DEF RetentionStep, RetentionScan, RetentionBarrier, RetentionMutate, RetentionDelete,
                ReplayDone
  <2> QED
    BY <1>0, <2>1, <2>2 DEF SealInv
<1>10. ASSUME NEW c, Enqueue(c), UNCHANGED cmd, c \in Commands,
              replay.pc = "sealing" => replay'.pc = "sealing",
              retention.pc = "sealing" => retention'.pc = "sealing",
              c = SealCmd("replay") => replay.pc = "idle" /\ replay'.pc = "sealing",
              c = SealCmd("retention") => retention.pc = "idle" /\ retention'.pc = "sealing"
       PROVE  SealInv'
  <2>1. /\ Len(rx) \in Nat /\ Len(rx') = Len(rx) + 1 /\ rx'[Len(rx) + 1] = c
        /\ \A i \in 1..Len(rx) : rx'[i] = rx[i]
    BY <1>0, <1>10, EnqueueFacts
  <2>2. ASSUME NEW w \in {"replay", "retention"}
        PROVE  /\ \A i, j \in 1..Len(rx') : rx'[i] = SealCmd(w) /\ rx'[j] = SealCmd(w) => i = j
               /\ cmd' = SealCmd(w) => \A i \in 1..Len(rx') : rx'[i] # SealCmd(w)
    <3>1. \A i, j \in 1..Len(rx) : rx[i] = SealCmd(w) /\ rx[j] = SealCmd(w) => i = j
      BY <1>0 DEF SealInv
    <3>2. c = SealCmd(w) => (\A i \in 1..Len(rx) : rx[i] # SealCmd(w)) /\ cmd # SealCmd(w)
      BY <1>0, <1>10 DEF SealInv
    <3>3. cmd = SealCmd(w) => \A i \in 1..Len(rx) : rx[i] # SealCmd(w)
      BY <1>0 DEF SealInv
    <3>4. \A i \in 1..Len(rx') : i \in 1..Len(rx) \/ i = Len(rx) + 1
      BY <2>1
    <3> QED
      BY <1>10, <2>1, <3>1, <3>2, <3>3, <3>4
  <2>3. /\ \A i \in 1..Len(rx') : rx'[i] = SealCmd("replay") => replay'.pc = "sealing"
        /\ \A i \in 1..Len(rx') : rx'[i] = SealCmd("retention") => retention'.pc = "sealing"
        /\ cmd' = SealCmd("replay") => replay'.pc = "sealing"
        /\ cmd' = SealCmd("retention") => retention'.pc = "sealing"
    BY <1>0, <1>10, <2>1 DEF SealInv
  <2> QED
    BY <2>2, <2>3 DEF SealInv
<1>11. CASE UserStep
  <2>1. ASSUME NEW r \in Records, AppendRecord(r) PROVE SealInv'
    <3>1. Enqueue(RecordCmd(r)) /\ UNCHANGED <<cmd, retention>>
      BY <2>1 DEF AppendRecord
    <3>2. replay'.pc = replay.pc
      BY <1>0, <2>1 DEF AppendRecord, PlainTypes, ReplayState
    <3> QED
      BY <1>10, <1>a, <3>1, <3>2, CommandKinds
  <2>2. ASSUME NEW c \in Cutoffs, RetentionSeal(c) PROVE SealInv'
    BY <1>10, <1>a, <2>2, CommandKinds DEF RetentionSeal
  <2>3. CASE ReplaySeal
    BY <1>10, <1>a, <2>3, CommandKinds DEF ReplaySeal
  <2>4. CASE RetentionDropped
    <3>1. DOMAIN rx = 1..Len(rx) /\ Len(rx) \in Nat
      BY <1>0 DEF PlainTypes
    <3>2. /\ Len(rx') = Len(rx)
          /\ \A i \in 1..Len(rx) : rx'[i] = IF rx[i] = SealCmd("retention")
                                            THEN SealCmd("nobody") ELSE rx[i]
      BY <2>4, <3>1 DEF RetentionDropped
    <3>3. /\ UNCHANGED replay
          /\ cmd' = IF cmd = SealCmd("retention") THEN SealCmd("nobody") ELSE cmd
      BY <2>4 DEF RetentionDropped
    <3>4. \A i \in 1..Len(rx) : /\ rx'[i] # SealCmd("retention")
                                /\ rx'[i] = SealCmd("replay") => rx[i] = SealCmd("replay")
      BY <1>a, <3>2
    <3>5. cmd' # SealCmd("retention") /\ (cmd' = SealCmd("replay") => cmd = SealCmd("replay"))
      BY <1>a, <3>3
    <3> QED
      BY <1>0, <3>2, <3>3, <3>4, <3>5 DEF SealInv
  <2> QED
    BY <1>11, <2>1, <2>2, <2>3, <2>4 DEF UserStep
<1>12. CASE \/ WriterInit \/ Tick \/ PublishRow \/ CommitBarrier \/ StartStep \/ MetaSpool
            \/ Project \/ MetaStop \/ BeginShutdown \/ UNCHANGED vars
  <2>1. UNCHANGED <<rx, cmd, replay, retention>>
    BY <1>12 DEF WriterInit, Tick, PublishRow, CommitBarrier, StartStep, RebuildRow,
                 RebuildBarrier, WriteMarker, MetaSpool, Project, MetaStop, BeginShutdown, vars
  <2> QED
    BY <1>0, <2>1 DEF SealInv
<1> QED
  BY <1>1, <1>2, <1>3, <1>4, <1>5, <1>6, <1>7, <1>8, <1>9, <1>11, <1>12, StepKinds
     DEF Steady, Flushing, Syncing, Opening, RetentionStep

(* Replay and retention keep out of each other's way.                      *)
LEMMA GuardInvStep ==
    ASSUME Control, [Next]_vars
    PROVE  GuardInv'
<1>0. /\ GuardInv /\ SealInv /\ PlainTypes /\ PhaseInv
      /\ replay \in ReplayState /\ retention \in RetentionState
  BY TypesApart DEF Control, UserInv, PlainTypes
<1> USE DEF bounds, storeVars, writerVars, metaVars, userVars, historyVars
<1>a. ASSUME UNCHANGED <<replay, retention>>
      PROVE  GuardInv'
  BY <1>0, <1>a DEF GuardInv
<1>b. ASSUME NEW cs, ReplyErr(cs),
             SealCmd("replay") \in cs => replay.pc = "sealing"
      PROVE  GuardInv'
  <2>1. /\ NoRetention.pc = "idle" /\ ~NoRetention.guard
    BY DEF NoRetention
  <2>2. replay' = replay \/ (replay.pc = "sealing" /\ replay'.pc = "failed")
    BY <1>0, <1>b DEF ReplyErr, ReplayState
  <2>3. retention' = retention \/ retention' = NoRetention
    BY <1>b DEF ReplyErr
  <2> QED
    BY <1>0, <2>1, <2>2, <2>3 DEF GuardInv
<1>1. CASE Syncing
  <2>1. CASE RecordOverBudget \/ TickStop \/ RecordRotates \/ TakeSeal
    BY <1>a, <2>1 DEF RecordOverBudget, TickStop, RecordRotates, TakeSeal, BeginCommit
  <2>2. CASE MetadataGone \/ RotateOverBudget
    BY <1>0, <1>b, <2>2 DEF MetadataGone, RotateOverBudget, SealInv
  <2> QED
    BY <1>1, <2>1, <2>2 DEF Syncing
<1>2. CASE StopWriter
  <2>1. DOMAIN rx = 1..Len(rx)
    BY <1>0 DEF PlainTypes
  <2>2. SealCmd("replay") \in ToSet(rx) => replay.pc = "sealing"
    BY <1>0, <2>1 DEF SealInv, ToSet
  <2> QED
    BY <1>2, <1>b, <2>2 DEF StopWriter
<1>3. CASE Rotate
  <2>1. replay' = replay \/ (replay.pc = "sealing" /\ replay'.pc = "scanning")
    BY <1>0, <1>3 DEF Rotate, ReplayState, SealInv
  <2>2. \/ retention' = retention
        \/ /\ retention.pc = "sealing" /\ retention'.pc = "scan"
           /\ retention'.guard = retention.guard
    BY <1>0, <1>3 DEF Rotate, RetentionState, SealInv
  <2> QED
    BY <1>0, <2>1, <2>2 DEF GuardInv
<1>4. CASE RetentionStep
  <2>1. UNCHANGED replay
    BY <1>4 DEF RetentionStep, RetentionScan, RetentionBarrier, RetentionMutate, RetentionDelete
  <2>2. \/ retention' = NoRetention
        \/ /\ retention.pc \in {"scan", "barrier", "mutate"}
           /\ retention'.pc \in {"barrier", "mutate", "delete"}
           /\ retention'.guard = retention.guard
        \/ /\ retention.pc = "delete" /\ retention'.pc = "delete"
           /\ retention'.guard = retention.guard
    BY <1>0, <1>4 DEF RetentionStep, RetentionScan, RetentionBarrier, RetentionMutate,
                      RetentionDelete, RetentionState
  <2>3. NoRetention.pc = "idle" /\ ~NoRetention.guard
    BY DEF NoRetention
  <2> QED
    BY <1>0, <2>1, <2>2, <2>3 DEF GuardInv
<1>5. CASE UserStep
  <2>1. ASSUME NEW r \in Records, AppendRecord(r) PROVE GuardInv'
    <3>1. UNCHANGED retention /\ replay'.pc = replay.pc
      BY <1>0, <2>1 DEF AppendRecord, ReplayState
    <3>2. replay.pc = "idle" => replay' = Idle
      <4>1. replay.pc = "idle" => replay = Idle /\ replay' = [replay EXCEPT !.after = {}]
        BY <1>0, <2>1 DEF AppendRecord, GuardInv
      <4> QED
        BY <4>1 DEF Idle
    <3> QED
      BY <1>0, <3>1, <3>2 DEF GuardInv
  <2>2. ASSUME NEW c \in Cutoffs, RetentionSeal(c) PROVE GuardInv'
    BY <1>0, <2>2 DEF RetentionSeal, GuardInv
  <2>3. CASE ReplaySeal
    BY <1>0, <2>3 DEF ReplaySeal, ReadGuard, GuardInv
  <2>4. CASE RetentionDropped
    <3>1. UNCHANGED replay /\ Disconnects
      BY <2>4 DEF RetentionDropped
    <3>2. \/ retention' = NoRetention
          \/ retention'.pc = "delete" /\ ~retention'.guard
      BY <1>0, <2>4 DEF RetentionDropped, RetentionState
    <3>3. NoRetention.pc = "idle" /\ ~NoRetention.guard
      BY DEF NoRetention
    <3> QED
      BY <1>0, <3>1, <3>2, <3>3 DEF GuardInv
  <2> QED
    BY <1>5, <2>1, <2>2, <2>3, <2>4 DEF UserStep
<1>6. CASE ReplayDone
  <2>1. Idle.pc = "idle"
    BY DEF Idle
  <2> QED
    BY <1>0, <1>6, <2>1 DEF ReplayDone, GuardInv
<1>7. CASE Ending
  <2>1. replay' = Idle /\ retention' = NoRetention
    BY <1>7, EndingFacts DEF ProcessGone
  <2>2. NoRetention.pc = "idle" /\ ~NoRetention.guard
    BY DEF NoRetention
  <2> QED
    BY <2>1, <2>2 DEF GuardInv
<1>8. CASE Flushing
  BY <1>8, <1>a, FlushingFacts
<1>9. CASE WriteRecord \/ WriterInit \/ Start
  BY <1>9, <1>a DEF WriteRecord, WriterInit, Start
<1>10. CASE \/ RecordFits \/ PublishRow \/ PublishDone \/ CommitBarrier \/ StartStep \/ MetaSpool
            \/ Project \/ MetaStop \/ BeginShutdown \/ UNCHANGED vars
  <2>1. UNCHANGED <<replay, retention>>
    BY <1>10 DEF RecordFits, PublishRow, PublishDone, CommitBarrier, StartStep, RebuildRow,
                 RebuildBarrier, WriteMarker, MetaSpool, Project, MetaStop, BeginShutdown, vars
  <2> QED
    BY <1>a, <2>1
<1> QED
  BY <1>1, <1>2, <1>3, <1>4, <1>5, <1>6, <1>7, <1>8, <1>9, <1>10, StepKinds
     DEF Steady, Opening, RetentionStep

(* What replay scans and retention deletes is never the active segment.    *)
LEMMA ClosedInvStep ==
    ASSUME Control, [Next]_vars
    PROVE  ClosedInv'
<1>0. /\ ClosedInv /\ SealInv /\ GuardInv /\ PlainTypes /\ PhaseInv /\ Types /\ SegTypes /\ WriterAt
      /\ replay \in ReplayState /\ retention \in RetentionState
  BY TypesApart DEF Control, UserInv, PlainTypes, WriterInv
<1> USE DEF bounds, storeVars, writerVars, metaVars, userVars, historyVars
<1>a. NoRetention.paths = {} /\ Idle.pc = "idle"
  BY DEF NoRetention, Idle
<1>b. ASSUME UNCHANGED active, DOMAIN segs' = DOMAIN segs,
             retention'.paths \subseteq retention.paths,
             replay'.pc = "scanning" => replay.pc = "scanning" /\ replay'.snap = replay.snap
      PROVE  ClosedInv'
  BY <1>0, <1>b DEF ClosedInv
<1>c. ASSUME NEW cs, ReplyErr(cs)
      PROVE  /\ retention'.paths \subseteq retention.paths
             /\ replay'.pc = "scanning" => replay.pc = "scanning" /\ replay'.snap = replay.snap
  BY <1>0, <1>a, <1>c DEF ReplyErr, ReplayState
<1>1. CASE Steady
  <2>1. UNCHANGED <<segs, active>>
    BY <1>1, SteadyFacts
  <2>2. /\ retention'.paths \subseteq retention.paths
        /\ replay'.pc = "scanning" => replay.pc = "scanning" /\ replay'.snap = replay.snap
    <3>1. CASE StopWriter
      BY <1>c, <3>1 DEF StopWriter
    <3>2. CASE RetentionScan \/ RetentionBarrier \/ RetentionMutate
      BY <1>0, <1>a, <3>2 DEF RetentionScan, RetentionBarrier, RetentionMutate, RetentionState
    <3>3. CASE ReplayDone
      BY <1>a, <3>3 DEF ReplayDone
    <3>4. ASSUME NEW r \in Records, AppendRecord(r)
          PROVE  UNCHANGED retention /\ replay'.pc = replay.pc /\ replay'.snap = replay.snap
      BY <1>0, <3>4 DEF AppendRecord, ReplayState
    <3>5. CASE (\E c \in Cutoffs : RetentionSeal(c)) \/ ReplaySeal
      BY <3>5 DEF RetentionSeal, ReplaySeal
    <3>6. CASE RetentionDropped
      BY <1>0, <1>a, <3>6 DEF RetentionDropped, RetentionState
    <3>7. CASE \/ RecordFits \/ PublishRow \/ PublishDone \/ CommitBarrier \/ StartStep \/ MetaSpool
               \/ Project \/ MetaStop \/ BeginShutdown \/ UNCHANGED vars
      BY <3>7 DEF RecordFits, PublishRow, PublishDone, CommitBarrier, StartStep, RebuildRow,
                  RebuildBarrier, WriteMarker, MetaSpool, Project, MetaStop, BeginShutdown, vars
    <3> QED
      BY <1>1, <3>1, <3>2, <3>3, <3>4, <3>5, <3>6, <3>7 DEF Steady, UserStep
  <2> QED
    BY <1>b, <2>1, <2>2
<1>2. CASE Flushing
  <2>1. active \in DOMAIN segs /\ flush_visible /\ UNCHANGED <<active, replay, retention>>
    BY <1>2, FlushingFacts
  <2> QED
    BY <1>0, <1>b, <2>1, FlushFacts
<1>3. CASE Syncing
  <2>1. active \in DOMAIN segs /\ flush_sync /\ UNCHANGED active
    BY <1>3, SyncingFacts
  <2>2. UNCHANGED <<replay, retention>> \/ ReplyErr({cmd})
    BY <1>3 DEF Syncing, RecordOverBudget, TickStop, MetadataGone, RotateOverBudget,
                RecordRotates, TakeSeal, BeginCommit
  <2>3. DOMAIN segs' = DOMAIN segs
    BY <1>0, <2>1, SyncFacts
  <2> QED
    BY <1>b, <1>c, <2>1, <2>2, <2>3
<1>4. CASE WriteRecord
  <2>1. PICK r \in Records : cmd.rec = r /\ active \in DOMAIN segs
    BY <1>4, WritingFacts
  <2>2. DOMAIN segs' = DOMAIN segs
    BY <1>0, <1>4, <2>1, WriteFacts
  <2> QED
    BY <1>4, <1>b, <2>2 DEF WriteRecord
<1>5. CASE Opening
  <2>1. /\ DOMAIN segs' = DOMAIN segs \cup {nextSeg} /\ active' = nextSeg /\ nextSeg \in Nat
        /\ nextSeg \notin DOMAIN segs
    BY <1>0, <1>5, OpeningFacts, OpenFacts
  <2>2. active \in Nat /\ active < nextSeg
    BY <1>0, <1>5, OpeningFacts DEF WriterAt, SegTypes
  <2>3. SealReply = DOMAIN segs /\ \A s \in DOMAIN segs : s < nextSeg
    <3>1. \A s \in DOMAIN segs : s < nextSeg
      BY <1>0 DEF SegTypes
    <3> QED
      BY <2>1, <3>1 DEF SealReply
  <2>4. retention'.paths \in {retention.paths, DOMAIN segs}
    BY <1>0, <1>5, <2>3 DEF Opening, WriterInit, Rotate, RetentionState
  <2>5. replay'.pc = "scanning" =>
          replay'.snap = DOMAIN segs \/ (replay.pc = "scanning" /\ replay'.snap = replay.snap)
    BY <1>0, <1>5, <2>3 DEF Opening, WriterInit, Rotate, ReplayState
  <2>6. replay.pc = "scanning" => \A s \in replay.snap : s < nextSeg
    <3>1. replay.snap \subseteq Nat
      BY <1>0 DEF ReplayState
    <3> QED
      BY <1>0, <2>1, <2>2, <3>1 DEF ClosedInv
  <2>7. retention'.paths \subseteq DOMAIN segs' \ {active'}
    BY <1>0, <2>1, <2>4 DEF ClosedInv
  <2>8. replay'.pc = "scanning" => \A s \in replay'.snap : s < nextSeg
    BY <2>3, <2>5, <2>6
  <2> QED
    BY <2>1, <2>7, <2>8 DEF ClosedInv
<1>6. CASE RetentionDelete
  <2>1. UNCHANGED <<active, replay>>
    BY <1>6 DEF RetentionDelete
  <2>2. retention'.paths \subseteq DOMAIN segs' \ {active}
    <3>1. \A s : [retention EXCEPT !.paths = @ \ {s}].paths = retention.paths \ {s}
      BY <1>0 DEF RetentionState
    <3> QED
      BY <1>0, <1>6, <1>a, <3>1, DeleteFacts DEF ClosedInv, Control
  <2> QED
    BY <1>0, <2>1, <2>2 DEF ClosedInv
<1>7. CASE Ending
  BY <1>7, <1>a, EndingFacts DEF ProcessGone, ClosedInv
<1>8. CASE Start
  <2>1. UNCHANGED <<replay, retention, active>> /\ replay = Idle /\ retention = NoRetention
    BY <1>0, <1>8 DEF Start, PhaseInv
  <2> QED
    BY <1>a, <2>1 DEF ClosedInv
<1> QED
  BY <1>1, <1>2, <1>3, <1>4, <1>5, <1>6, <1>7, <1>8, StepKinds

(* What the candidates of a cleanup have in them does not change.          *)
LEMMA ExpiredKept ==
    ASSUME NEW s, NEW k, segs'[s] = segs[s], Expired(s, k)
    PROVE  \A r \in ToSet(Visible(segs'[s])) : r < k
BY DEF Expired

(* No bytes stay behind in the BufWriter of a segment that is left.        *)
LEMMA VisibleInvStep ==
    ASSUME Control, [Next]_vars
    PROVE  VisibleInv'
<1>0. /\ VisibleInv /\ ClosedInv /\ PlainTypes /\ PhaseInv /\ Types /\ SegTypes /\ WriterAt
      /\ replay \in ReplayState /\ retention \in RetentionState
  BY TypesApart DEF Control, UserInv, PlainTypes, WriterInv
<1> USE DEF bounds, storeVars, writerVars, metaVars, userVars, historyVars
<1> DEFINE W == {"publish", "commit", "rotate", "stopped"}
           D == {"barrier", "mutate", "delete"}
           Old(s) == \A r \in ToSet(Visible(segs'[s])) : r < retention'.cutoff
<1>a. NoRetention.paths = {} /\ NoRetention.pc = "idle"
  BY DEF NoRetention
<1>b. ASSUME \A s \in DOMAIN segs' : s # active' => AllVisible(segs'[s]),
             Up' /\ wpc' \in W => segs'[active'].vis = FileBytes(segs'[active']),
             retention'.pc \in D =>
               \A s \in retention'.paths : Old(s)
      PROVE  VisibleInv'
  BY <1>b DEF VisibleInv, Expired
<1>c. ASSUME retention'.pc \in D => /\ retention.pc \in D /\ retention'.cutoff = retention.cutoff
                                    /\ retention'.paths \subseteq retention.paths,
             \A s \in retention'.paths : segs'[s] = segs[s]
      PROVE  retention'.pc \in D => \A s \in retention'.paths : Old(s)
  <2> SUFFICES ASSUME retention'.pc \in D, NEW s \in retention'.paths
               PROVE  Old(s)
    OBVIOUS
  <2> DEFINE k == retention.cutoff
  <2>1. segs'[s] = segs[s] /\ Expired(s, k) /\ retention'.cutoff = k
    BY <1>0, <1>c DEF VisibleInv
  <2> HIDE DEF k
  <2>2. \A r \in ToSet(Visible(segs'[s])) : r < k
    BY <2>1, ExpiredKept
  <2> QED
    BY <2>1, <2>2
<1>d. ASSUME NEW cs, ReplyErr(cs)
      PROVE  retention' = retention \/ retention' = NoRetention
  BY <1>d DEF ReplyErr
<1>e. ASSUME active \in DOMAIN segs, UNCHANGED active, DOMAIN segs' = DOMAIN segs,
             \A s \in DOMAIN segs : s # active => segs'[s] = segs[s],
             Up' /\ wpc' \in W => segs'[active].vis = FileBytes(segs'[active]),
             retention' = retention \/ retention' = NoRetention
      PROVE  VisibleInv'
  <2>1. \A s \in DOMAIN segs' : s # active' => AllVisible(segs'[s])
    BY <1>0, <1>e DEF VisibleInv
  <2>2. \A s \in retention'.paths : segs'[s] = segs[s]
    BY <1>0, <1>a, <1>e DEF ClosedInv
  <2> QED
    BY <1>a, <1>b, <1>c, <1>e, <2>1, <2>2
<1>1. CASE Steady
  <2>1. UNCHANGED <<segs, active>>
    BY <1>1, SteadyFacts
  <2>2. Up' /\ wpc' \in W => Up /\ wpc \in W
    <3>1. CASE RecordFits \/ PublishRow \/ PublishDone \/ CommitBarrier \/ StopWriter
      BY <1>0, <3>1 DEF RecordFits, PublishRow, PublishDone, CommitBarrier, StopWriter, Receive, Up
    <3>2. CASE StartStep
      BY <3>2 DEF StartStep, RebuildRow, RebuildBarrier, WriteMarker, Up
    <3>3. CASE RetentionScan \/ RetentionBarrier \/ RetentionMutate
      BY <3>3 DEF RetentionScan, RetentionBarrier, RetentionMutate, Up
    <3>4. CASE UserStep
      BY <3>4 DEF UserStep, AppendRecord, RetentionSeal, ReplaySeal, RetentionDropped, Up
    <3>5. CASE ReplayDone \/ MetaSpool \/ Project \/ MetaStop \/ BeginShutdown
      BY <3>5 DEF ReplayDone, MetaSpool, Project, MetaStop, BeginShutdown, Up
    <3>6. CASE UNCHANGED vars
      BY <3>6 DEF vars, Up
    <3> QED
      BY <1>1, <3>1, <3>2, <3>3, <3>4, <3>5, <3>6 DEF Steady
  <2>3. /\ \A s \in DOMAIN segs' : s # active' => AllVisible(segs'[s])
        /\ Up' /\ wpc' \in W => segs'[active'].vis = FileBytes(segs'[active'])
    BY <1>0, <2>1, <2>2 DEF VisibleInv
  <2>4. CASE RetentionScan
    <3>1. /\ retention'.cutoff = retention.cutoff
          /\ retention'.paths = {s \in retention.paths : Expired(s, retention.cutoff)}
      BY <1>0, <2>4 DEF RetentionScan, RetentionState
    <3>2. \A s \in retention'.paths : Old(s)
      <4> SUFFICES ASSUME NEW s \in retention'.paths PROVE Old(s)
        OBVIOUS
      <4> DEFINE k == retention.cutoff
      <4>1. Expired(s, k) /\ segs'[s] = segs[s] /\ retention'.cutoff = k
        BY <2>1, <3>1
      <4> HIDE DEF k
      <4>2. \A r \in ToSet(Visible(segs'[s])) : r < k
        BY <4>1, ExpiredKept
      <4> QED
        BY <4>1, <4>2
    <3> QED
      BY <1>b, <2>3, <3>2
  <2>5. CASE ~RetentionScan
    <3>1. retention'.pc \in D => /\ retention.pc \in D /\ retention'.cutoff = retention.cutoff
                                 /\ retention'.paths \subseteq retention.paths
      <4>1. CASE StopWriter
        BY <1>a, <1>d, <4>1 DEF StopWriter
      <4>2. CASE RetentionBarrier \/ RetentionMutate \/ RetentionDropped
        BY <1>0, <1>a, <4>2 DEF RetentionBarrier, RetentionMutate, RetentionDropped, RetentionState
      <4>3. CASE (\E c \in Cutoffs : RetentionSeal(c)) \/ ReplaySeal
                 \/ (\E r \in Records : AppendRecord(r))
        BY <4>3 DEF RetentionSeal, ReplaySeal, AppendRecord
      <4>4. CASE \/ RecordFits \/ PublishRow \/ PublishDone \/ CommitBarrier \/ StartStep
                 \/ MetaSpool \/ Project \/ MetaStop \/ BeginShutdown \/ ReplayDone \/ UNCHANGED vars
        BY <4>4 DEF RecordFits, PublishRow, PublishDone, CommitBarrier, StartStep, RebuildRow,
                    RebuildBarrier, WriteMarker, MetaSpool, Project, MetaStop, BeginShutdown,
                    ReplayDone, vars
      <4> QED
        BY <1>1, <2>5, <4>1, <4>2, <4>3, <4>4 DEF Steady, UserStep
    <3> QED
      BY <1>b, <1>c, <2>1, <2>3, <3>1
  <2> QED
    BY <2>4, <2>5
<1>2. CASE Flushing
  <2>1. active \in DOMAIN segs /\ flush_visible /\ UNCHANGED <<active, retention>>
    BY <1>2, FlushingFacts
  <2>2. /\ DOMAIN segs' = DOMAIN segs
        /\ \A s \in DOMAIN segs : s # active => segs'[s] = segs[s]
        /\ segs'[active].recs = segs[active].recs
        /\ segs'[active].vis = FileBytes(segs[active])
    BY <1>0, <2>1, FlushFacts
  <2>3. FileBytes(segs'[active]) = FileBytes(segs[active])
    BY <2>2 DEF FileBytes
  <2> QED
    BY <1>e, <2>1, <2>2, <2>3
<1>3. CASE Syncing
  <2>1. active \in DOMAIN segs /\ flush_sync /\ UNCHANGED active
    BY <1>3, SyncingFacts
  <2>2. /\ DOMAIN segs' = DOMAIN segs
        /\ \A s \in DOMAIN segs : s # active => segs'[s] = segs[s]
        /\ segs'[active].recs = segs[active].recs
        /\ segs'[active].vis = FileBytes(segs[active])
    BY <1>0, <2>1, SyncFacts
  <2>3. FileBytes(segs'[active]) = FileBytes(segs[active])
    BY <2>2 DEF FileBytes
  <2>4. UNCHANGED retention \/ ReplyErr({cmd})
    BY <1>3 DEF Syncing, RecordOverBudget, TickStop, MetadataGone, RotateOverBudget,
                RecordRotates, TakeSeal, BeginCommit
  <2>5. retention' = retention \/ retention' = NoRetention
    BY <1>d, <2>4
  <2> QED
    BY <1>e, <2>1, <2>2, <2>3, <2>5
<1>4. CASE WriteRecord
  <2>1. PICK r \in Records : cmd.rec = r /\ active \in DOMAIN segs
    BY <1>4, WritingFacts
  <2>2. /\ DOMAIN segs' = DOMAIN segs
        /\ \A s \in DOMAIN segs : s # active => segs'[s] = segs[s]
        /\ segs'[active].recs = Append(segs[active].recs, r)
        /\ wpc' \in {"recv", "publish"}
        /\ wpc' = "publish" => segs'[active].vis = Len(segs[active].recs) + 2
    BY <1>0, <1>4, <2>1, WriteFacts
  <2>3. segs[active].recs \in Seq(Records)
    BY <1>0, <2>1, StoreParts
  <2>4. FileBytes(segs'[active]) = Len(segs[active].recs) + 2
    BY <2>2, <2>3 DEF FileBytes, HeaderSize
  <2>5. UNCHANGED <<active, retention>>
    BY <1>4 DEF WriteRecord
  <2> QED
    BY <1>e, <2>1, <2>2, <2>4, <2>5
<1>5. CASE Opening
  <2>1. /\ DOMAIN segs' = DOMAIN segs \cup {nextSeg} /\ active' = nextSeg
        /\ nextSeg \notin DOMAIN segs /\ \A s \in DOMAIN segs : segs'[s] = segs[s]
    BY <1>0, <1>5, OpeningFacts, OpenFacts
  <2>2. \A s \in DOMAIN segs : AllVisible(segs[s])
    <3>1. active \in DOMAIN segs => AllVisible(segs[active])
      <4>1. CASE wpc = "rotate"
        BY <1>0, <1>5, <4>1, OpeningFacts DEF VisibleInv, AllVisible
      <4>2. CASE wpc = "init"
        BY <1>0, <4>2, StoreParts DEF WriterAt
      <4> QED
        BY <1>5, <4>1, <4>2, OpeningFacts
    <3> QED
      BY <1>0, <3>1 DEF VisibleInv
  <2>3. wpc' \in {"recv", "write"}
    BY <1>5 DEF Opening, WriterInit, Rotate
  <2>4. retention' = retention \/ retention'.pc = "scan"
    BY <1>0, <1>5 DEF Opening, WriterInit, Rotate, RetentionState
  <2>5. CASE retention' = retention
    <3>1. \A s \in retention'.paths : segs'[s] = segs[s]
      BY <1>0, <2>1, <2>5 DEF ClosedInv
    <3> QED
      BY <1>b, <1>c, <2>1, <2>2, <2>3, <2>5, <3>1
  <2>6. CASE retention'.pc = "scan"
    BY <1>b, <2>1, <2>2, <2>3, <2>6
  <2> QED
    BY <2>4, <2>5, <2>6
<1>6. CASE RetentionDelete
  <2>1. UNCHANGED <<active, phase, wpc>> /\ UserInv
    BY <1>6 DEF RetentionDelete, Control
  <2>2. CASE retention' = NoRetention /\ UNCHANGED segs
    <3>1. /\ \A s \in DOMAIN segs' : s # active' => AllVisible(segs'[s])
          /\ Up' /\ wpc' \in W => segs'[active'].vis = FileBytes(segs'[active'])
      BY <1>0, <2>1, <2>2 DEF VisibleInv, Up
    <3> QED
      BY <1>a, <1>b, <2>2, <3>1
  <2>3. ASSUME NEW s \in retention.paths, s # active, s \in DOMAIN segs,
               DOMAIN segs' = DOMAIN segs \ {s}, \A t \in DOMAIN segs' : segs'[t] = segs[t],
               retention' = [retention EXCEPT !.paths = @ \ {s}]
        PROVE  VisibleInv'
    <3>1. Up' /\ wpc' \in W => segs'[active'].vis = FileBytes(segs'[active'])
      <4>1. Up /\ wpc \in W => active \in DOMAIN segs /\ segs'[active] = segs[active]
        BY <1>0, <2>3 DEF WriterAt
      <4> QED
        BY <1>0, <2>1, <4>1 DEF VisibleInv, Up
    <3>2. \A t \in DOMAIN segs' : t # active' => AllVisible(segs'[t])
      BY <1>0, <2>1, <2>3 DEF VisibleInv
    <3>3. /\ retention'.pc = retention.pc /\ retention'.cutoff = retention.cutoff
          /\ retention'.paths = retention.paths \ {s}
      BY <1>0, <2>3 DEF RetentionState
    <3>4. \A t \in retention'.paths : segs'[t] = segs[t]
      BY <1>0, <2>3, <3>3 DEF ClosedInv
    <3> QED
      BY <1>b, <1>c, <3>1, <3>2, <3>3, <3>4
  <2> QED
    BY <1>0, <1>6, <2>1, <2>2, <2>3, DeleteFacts
<1>7. CASE Ending
  <2>1. ProcessGone(segs') /\ Left(segs')
    BY <1>7, EndingFacts
  <2>2. phase' = "down" /\ retention' = NoRetention
    BY <2>1 DEF ProcessGone
  <2> QED
    BY <1>a, <1>b, <2>1, <2>2 DEF Left, Up
<1>8. CASE Start
  <2>1. /\ ~Up /\ segs' = recover_last_segment_tail /\ wpc' = "init"
        /\ UNCHANGED <<active, retention>>
    BY <1>8 DEF Start, Up
  <2>2. active = 0 /\ retention = NoRetention
    BY <1>0, <2>1 DEF PhaseInv, Up
  <2>3. \A s \in DOMAIN segs : AllVisible(segs[s])
    BY <1>0, <2>2, StoreParts DEF VisibleInv
  <2>4. /\ DOMAIN segs' \subseteq DOMAIN segs
        /\ \A s \in DOMAIN segs' : segs'[s].recs = segs[s].recs /\ segs'[s].vis = segs[s].vis
    BY <1>0, <2>1, RecoverFacts
  <2>5. \A s \in DOMAIN segs' : AllVisible(segs'[s])
    BY <2>3, <2>4 DEF AllVisible, FileBytes
  <2> QED
    BY <1>a, <1>b, <2>1, <2>2, <2>5
<1> QED
  BY <1>1, <1>2, <1>3, <1>4, <1>5, <1>6, <1>7, <1>8, StepKinds

(* The control invariant holds at first, and every step keeps it.          *)
LEMMA ControlInit == Init => Control
<1> SUFFICES ASSUME Init PROVE Control
  OBVIOUS
<1> USE DEF Init
<1>1. segs = <<>> /\ DOMAIN segs = {}
  OBVIOUS
<1>2. SegTypes
  BY <1>1 DEF SegTypes
<1>3. NoRetention \in RetentionState /\ Idle \in ReplayState
  BY DEF NoRetention, RetentionState, Idle, ReplayState
<1>4. PlainTypes
  <2>1. rx \in Seq(Commands) /\ Len(rx) = 0 /\ pending \in Seq(Rows) /\ Len(pending) = 0
    OBVIOUS
  <2>2. Len(rx) <= Capacity /\ Len(pending) <= PendingMax
    BY <2>1, CapacityAssumption, PendingMaxAssumption
  <2>3. starts \in 0..MaxStarts /\ seals \in 0..MaxSeals
    BY BoundsAssumption
  <2> QED
    BY <1>3, <2>1, <2>2, <2>3, CommandKinds DEF PlainTypes
<1>5. WriterInv
  BY <1>1, <1>4 DEF WriterInv, WriterAt, WriterCmd, WriterRows, Stopping, Committing, Up, PlainTypes
<1>6. PhaseInv
  BY <1>4, CommandsDiffer DEF PhaseInv, Up
<1>7. UserInv
  BY <1>1, CommandsDiffer DEF UserInv, SealInv, GuardInv, ClosedInv, Idle, NoRetention
<1>8. VisibleInv
  BY <1>1 DEF VisibleInv, Up, NoRetention
<1>9. Types
  <2>1. /\ replay.pc \in {"idle", "sealing", "scanning", "failed"}
        /\ retention.pc \in {"idle", "sealing", "scan", "barrier", "mutate", "delete"}
    BY DEF Idle, NoRetention
  <2>2. TypeOK
    BY <1>1, <1>2, <1>4, <2>1 DEF TypeOK, SegTypes, PlainTypes
  <2> QED
    BY <1>1, <1>2, <1>4, <2>2 DEF Types, SegTypes, PlainTypes
<1> QED
  BY <1>5, <1>6, <1>7, <1>8, <1>9 DEF Control

(* The same for a step.                                                    *)
LEMMA ControlStep ==
    ASSUME Control, [Next]_vars
    PROVE  Control'
<1>1. SegTypes' /\ PlainTypes'
  BY SegTypesStep, PlainTypesStep
<1>2. WriterAt' /\ WriterCmd' /\ WriterRows' /\ PhaseInv'
  BY WriterAtStep, WriterCmdStep, WriterRowsStep, PhaseInvStep
<1>3. SealInv' /\ GuardInv' /\ ClosedInv' /\ VisibleInv'
  BY SealInvStep, GuardInvStep, ClosedInvStep, VisibleInvStep
<1>4. Types'
  <2>1. (wpc \notin {"init", "stopped"} => active \in DOMAIN segs)'
    BY <1>2 DEF WriterAt, PhaseInv, Up
  <2>2. \A s \in DOMAIN segs' : segs'[s] \in Segment
    BY <1>1 DEF SegTypes
  <2>3. \A s \in DOMAIN segs' : /\ segs'[s].recs \in Seq(Records) /\ segs'[s].torn \in BOOLEAN
                                /\ 0 <= segs'[s].syn
    BY <2>2 DEF Segment
  <2>4. /\ replay'.pc \in {"idle", "sealing", "scanning", "failed"}
        /\ retention'.pc \in {"idle", "sealing", "scan", "barrier", "mutate", "delete"}
    BY <1>1 DEF PlainTypes, ReplayState, RetentionState
  <2>5. TypeOK'
    BY <1>1, <2>1, <2>3, <2>4 DEF TypeOK, SegTypes, PlainTypes
  <2> QED
    BY <1>1, <2>5 DEF Types, SegTypes, PlainTypes
<1> QED
  BY <1>2, <1>3, <1>4 DEF Control, WriterInv, UserInv
-----------------------------------------------------------------------------
(* Types and readability.                                                  *)

(* A step that leaves the files alone neither starts nor ends the process  *)
(* or its writer, and begins no commit.                                    *)
LEMMA SteadyControl ==
    ASSUME Control, Steady
    PROVE  /\ (Up' <=> Up) /\ (wpc' = "init" <=> wpc = "init")
           /\ (Committing \/ Stopping)' => Committing \/ Stopping
           /\ Stopping' => Stopping
<1>0. PlainTypes
  BY TypesApart DEF Control
<1> USE DEF bounds, storeVars, writerVars, metaVars, userVars, historyVars
<1> USE DEF Up, Committing, Stopping
<1>1. CASE RecordFits \/ PublishRow \/ CommitBarrier \/ StopWriter
  BY <1>1 DEF RecordFits, PublishRow, CommitBarrier, StopWriter, Receive
<1>2. CASE PublishDone
  BY <1>0, <1>2 DEF PublishDone, PlainTypes
<1>3. CASE StartStep
  BY <1>3 DEF StartStep, RebuildRow, RebuildBarrier, WriteMarker
<1>4. CASE RetentionScan \/ RetentionBarrier \/ RetentionMutate
  BY <1>4 DEF RetentionScan, RetentionBarrier, RetentionMutate
<1>5. CASE UserStep
  BY <1>5 DEF UserStep, AppendRecord, RetentionSeal, ReplaySeal, RetentionDropped
<1>6. CASE ReplayDone \/ MetaSpool \/ Project \/ MetaStop \/ BeginShutdown
  BY <1>6 DEF ReplayDone, MetaSpool, Project, MetaStop, BeginShutdown
<1>7. CASE UNCHANGED vars
  BY <1>7 DEF vars
<1> QED
  BY <1>1, <1>2, <1>3, <1>4, <1>5, <1>6, <1>7 DEF Steady

(* The writer's segment is the newest one.                                 *)
LEMMA ActiveIsNewest ==
    ASSUME Control, Up, wpc # "init"
    PROVE  active = LatestSegment /\ active \in DOMAIN segs
<1>1. active \in DOMAIN segs /\ active = nextSeg - 1 /\ Types
  BY DEF Control, WriterInv, WriterAt
<1>2. LatestSegment \in DOMAIN segs /\ active <= LatestSegment
  BY <1>1, LatestFacts
<1>3. LatestSegment \in Nat /\ LatestSegment < nextSeg /\ active \in Nat
  BY <1>1, <1>2, StoreParts
<1> QED
  BY <1>1, <1>2, <1>3 DEF Types, TypeOK

(* Before the writer has one, it has none of the store.                    *)
LEMMA NoActive ==
    ASSUME Control, ~Up \/ wpc = "init"
    PROVE  active \notin DOMAIN segs
<1>1. active = 0 /\ Types
  BY DEF Control, WriterInv, WriterAt, PhaseInv
<1> QED
  BY <1>1, StoreParts

(* Every variable keeps its type.                                          *)
THEOREM StoreTypeCorrect == Spec => []TypeOK
<1>1. Control => TypeOK
  BY DEF Control, Types
<1> QED
  BY <1>1, ControlInit, ControlStep, PTL DEF Spec

(* Closed segments stay whole.  A kill leaves the newest one as it is, a   *)
(* power failure what was synced of it; a start mends it.                  *)
LEMMA ReadInvStep ==
    ASSUME "power" \notin Faults \/ Faults \cap {"kill", "startup"} = {},
           Control, ReadInv, [Next]_vars
    PROVE  ReadInv'
<1>0. Types /\ PhaseInv /\ WriterAt /\ UserInv /\ VisibleInv
  BY DEF Control, WriterInv
<1>a. ASSUME Up,
             \A s \in DOMAIN segs' : s # active' => Whole(segs'[s]),
             wpc' # "init" => ~segs'[active'].torn,
             (Committing \/ Stopping)' => Whole(segs'[active']),
             Up'
      PROVE  ReadInv'
  BY <1>a DEF ReadInv
<1>b. ASSUME NEW f, NEW g, f.recs = g.recs
      PROVE  FileBytes(f) = FileBytes(g)
  BY <1>b DEF FileBytes
<1>1. CASE Steady
  <2>1. UNCHANGED <<segs, active>> /\ (Up' <=> Up) /\ (wpc' = "init" <=> wpc = "init")
        /\ ((Committing \/ Stopping)' => Committing \/ Stopping)
    BY <1>1, SteadyFacts, SteadyControl
  <2>2. LatestSegment' = LatestSegment
    BY <2>1 DEF LatestSegment, list_segments
  <2> QED
    BY <2>1, <2>2 DEF ReadInv
<1>2. CASE Flushing
  <2>1. /\ active \in DOMAIN segs /\ flush_visible /\ UNCHANGED <<phase, active>>
        /\ Up /\ wpc = "recv" /\ wpc' = "publish" /\ then' = "recv"
    BY <1>2, FlushingFacts
  <2>2. /\ DOMAIN segs' = DOMAIN segs
        /\ \A s \in DOMAIN segs : s # active => segs'[s] = segs[s]
        /\ segs'[active].torn = segs[active].torn
    BY <1>0, <2>1, FlushFacts
  <2> QED
    BY <1>a, <2>1, <2>2 DEF ReadInv, Up, Committing, Stopping
<1>3. CASE Syncing
  <2>1. /\ active \in DOMAIN segs /\ flush_sync /\ UNCHANGED <<phase, active>> /\ Up
        /\ wpc # "init"
    BY <1>3, SyncingFacts
  <2>2. /\ DOMAIN segs' = DOMAIN segs
        /\ \A s \in DOMAIN segs : s # active => segs'[s] = segs[s]
        /\ segs'[active].recs = segs[active].recs
        /\ segs'[active].vis = FileBytes(segs[active])
        /\ segs'[active].syn = FileBytes(segs[active])
        /\ segs'[active].torn = segs[active].torn
    BY <1>0, <2>1, SyncFacts
  <2>3. FileBytes(segs'[active]) = FileBytes(segs[active])
    BY <1>b, <2>2
  <2>4. Whole(segs'[active])
    BY <2>1, <2>2, <2>3 DEF ReadInv, Whole
  <2> QED
    BY <1>a, <2>1, <2>2, <2>4 DEF ReadInv, Up, Whole
<1>4. CASE WriteRecord
  <2>1. PICK r \in Records : cmd.rec = r /\ active \in DOMAIN segs /\ Up /\ wpc = "write"
    BY <1>4, WritingFacts
  <2>2. /\ DOMAIN segs' = DOMAIN segs
        /\ \A s \in DOMAIN segs : s # active => segs'[s] = segs[s]
        /\ segs'[active].torn = segs[active].torn /\ wpc' \in {"recv", "publish"}
    BY <1>0, <1>4, <2>1, WriteFacts
  <2>3. then' = "recv" /\ UNCHANGED <<phase, active>>
    BY <1>4 DEF WriteRecord
  <2> QED
    BY <1>a, <2>1, <2>2, <2>3 DEF ReadInv, Up, Committing, Stopping
<1>5. CASE Opening
  <2>1. Up /\ wpc \in {"init", "rotate"} /\ UNCHANGED phase
    BY <1>5, OpeningFacts
  <2>2. /\ DOMAIN segs' = DOMAIN segs \cup {nextSeg} /\ active' = nextSeg
        /\ nextSeg \notin DOMAIN segs /\ \A s \in DOMAIN segs : segs'[s] = segs[s]
        /\ segs'[nextSeg].torn = FALSE
    BY <1>0, <1>5, OpeningFacts, OpenFacts
  <2>3. wpc' \in {"recv", "write"}
    BY <1>5 DEF Opening, WriterInit, Rotate
  <2>4. active \in DOMAIN segs => Whole(segs[active])
    BY <2>1, NoActive DEF ReadInv, Committing
  <2>5. \A s \in DOMAIN segs : Whole(segs[s])
    BY <2>1, <2>4 DEF ReadInv
  <2>6. \A s \in DOMAIN segs' : s # active' => Whole(segs'[s])
    BY <2>2, <2>5
  <2> QED
    BY <1>a, <2>1, <2>2, <2>3, <2>6 DEF Up, Committing, Stopping
<1>6. CASE RetentionDelete
  <2>1. Up
    BY <1>6, ServicePhases DEF RetentionStep, Up
  <2>2. UNCHANGED <<active, phase, wpc, then>>
    BY <1>6 DEF RetentionDelete, writerVars
  <2>3. DOMAIN segs' \subseteq DOMAIN segs /\ (\A s \in DOMAIN segs' : segs'[s] = segs[s])
        /\ (active \in DOMAIN segs => segs'[active] = segs[active])
    BY <1>0, <1>6, DeleteFacts
  <2>4. wpc # "init" => active \in DOMAIN segs
    BY <1>0, <2>1 DEF WriterAt
  <2>5. \A s \in DOMAIN segs' : s # active' => Whole(segs'[s])
    BY <2>1, <2>2, <2>3 DEF ReadInv
  <2> QED
    BY <1>a, <2>1, <2>2, <2>3, <2>4, <2>5 DEF ReadInv, Up, Committing, Stopping
<1>7. CASE Ending
  <2>1. ProcessGone(segs') /\ Left(segs') /\ Up
    BY <1>7, EndingFacts
  <2>2. DOMAIN segs' = DOMAIN segs /\ phase' = "down"
    BY <2>1 DEF Left, ProcessGone
  <2>3. LatestSegment' = LatestSegment
    BY <2>2 DEF LatestSegment, list_segments
  <2>4. \A s \in DOMAIN segs : s # LatestSegment => s # active
    BY <2>1, NoActive, ActiveIsNewest
  <2>5. \A s \in DOMAIN segs : s # LatestSegment => Whole(segs[s])
    BY <2>1, <2>4 DEF ReadInv
  <2>6. \A s \in DOMAIN segs : segs'[s].vis >= HeaderSize => segs'[s].vis = FileBytes(segs'[s])
    BY <2>1 DEF Left
  <2>7. ASSUME NEW s \in DOMAIN segs
        PROVE  /\ s # LatestSegment => Whole(segs'[s])
               /\ "power" \in Faults => segs'[s].syn = segs'[s].vis
    <3>1. CASE Exit
      <4>1. segs' = segs /\ wpc = "stopped"
        BY <1>0, <3>1, ExitFacts
      <4>2. Whole(segs[s])
        BY <2>1, <4>1 DEF ReadInv, Stopping
      <4> QED
        BY <4>1, <4>2 DEF Whole
    <3>2. CASE Kill
      <4>1. s # active => segs'[s] = segs[s]
        BY <1>0, <3>2, KillFacts DEF Control
      <4>2. "kill" \in Faults \/ "startup" \in Faults
        BY <3>2 DEF Kill, Crash
      <4>3. "power" \notin Faults
        BY <4>2
      <4> QED
        BY <2>4, <2>5, <4>1, <4>3
    <3>3. CASE PowerFailure
      <4>1. /\ segs'[s].vis = segs'[s].syn /\ segs[s].syn <= segs'[s].vis
            /\ segs'[s].vis <= FileBytes(segs[s]) /\ "power" \in Faults
            /\ segs'[s].torn => segs'[s].vis < FileBytes(segs[s])
        BY <1>0, <3>3, PowerFacts
      <4>2. SegTypes'
        BY SegTypesStep
      <4>3. segs'[s] \in Segment
        BY <2>2, <4>2 DEF SegTypes
      <4>4. segs'[s].vis \in Nat /\ FileBytes(segs[s]) \in Nat /\ FileBytes(segs[s]) >= 1
        BY <1>0, <4>3, SegmentParts, StoreParts
      <4>5. ASSUME s # LatestSegment PROVE Whole(segs'[s])
        <5>1. segs[s].syn = FileBytes(segs[s])
          BY <2>5, <4>1, <4>5 DEF Whole
        <5>2. segs'[s].vis = FileBytes(segs[s])
          BY <4>1, <4>4, <5>1
        <5>3. ~segs'[s].torn
          BY <4>1, <4>4, <5>2
        <5>4. segs'[s].vis = FileBytes(segs'[s])
          BY <2>6, <4>4, <5>2 DEF HeaderSize
        <5> QED
          BY <4>1, <5>3, <5>4 DEF Whole
      <4> QED
        BY <4>1, <4>5
    <3> QED
      BY <1>7, <3>1, <3>2, <3>3 DEF Ending
  <2> QED
    BY <2>2, <2>3, <2>6, <2>7 DEF ReadInv, Up
<1>8. CASE Start
  <2>1. /\ ~Up /\ segs' = recover_last_segment_tail /\ wpc' = "init" /\ Up'
        /\ UNCHANGED active
    BY <1>8 DEF Start, Up
  <2>2. /\ DOMAIN segs' \subseteq DOMAIN segs
        /\ \A s \in DOMAIN segs' :
             /\ segs'[s].recs = segs[s].recs /\ segs'[s].vis = segs[s].vis
             /\ s # LatestSegment => segs'[s] = segs[s]
             /\ s = LatestSegment => ~segs'[s].torn /\ segs[s].vis >= HeaderSize
             /\ segs'[s].syn \in {segs[s].syn, segs[s].vis}
    BY <1>0, <2>1, RecoverFacts
  <2>3. ASSUME NEW s \in DOMAIN segs' PROVE Whole(segs'[s])
    <3>1. CASE s # LatestSegment
      BY <2>1, <2>2, <3>1 DEF ReadInv
    <3>2. CASE s = LatestSegment
      <4>1. segs[s].vis = FileBytes(segs[s]) /\ ("power" \in Faults => segs[s].syn = segs[s].vis)
        BY <2>1, <2>2, <3>2 DEF ReadInv
      <4>2. FileBytes(segs'[s]) = FileBytes(segs[s])
        BY <1>b, <2>2
      <4> QED
        BY <2>2, <3>2, <4>1, <4>2 DEF Whole
    <3> QED
      BY <3>1, <3>2
  <2>4. ~(Committing \/ Stopping)'
    BY <2>1 DEF Committing, Stopping
  <2> QED
    BY <2>1, <2>3, <2>4 DEF ReadInv
<1> QED
  BY <1>1, <1>2, <1>3, <1>4, <1>5, <1>6, <1>7, <1>8, StepKinds

(* Only the newest segment can be incomplete.  With kills and power        *)
(* failures both, it is not so: a killed process leaves its newest segment *)
(* unsynced, the next one opens another, and a power failure tears the     *)
(* older.                                                                  *)
THEOREM ReadableCorrect ==
    ASSUME "power" \notin Faults \/ Faults \cap {"kill", "startup"} = {}
    PROVE  Spec => []ClosedSegmentsReadable
<1>1. Init => Control /\ ReadInv
  <2>1. Init => DOMAIN segs = {} /\ ~Up
    BY DEF Init, Up
  <2> QED
    BY <2>1, ControlInit DEF ReadInv
<1>2. Control /\ ReadInv /\ [Next]_vars => (Control /\ ReadInv)'
  BY ControlStep, ReadInvStep
<1>3. Control /\ ReadInv => ClosedSegmentsReadable
  <2> SUFFICES ASSUME Control, ReadInv, NEW s \in DOMAIN segs, s # LatestSegment
               PROVE  segs[s].vis = FileBytes(segs[s]) /\ ~segs[s].torn
    BY DEF ClosedSegmentsReadable, list_segments
  <2>1. Up => s # active
    BY NoActive, ActiveIsNewest
  <2> QED
    BY <2>1 DEF ReadInv, Whole
<1> QED
  BY <1>1, <1>2, <1>3, PTL DEF Spec
-----------------------------------------------------------------------------
(* Index rows and their payloads.                                          *)

(* A row stays backed while its segment exists and what could be read of   *)
(* it still can.                                                           *)
LEMMA BackedKept ==
    ASSUME NEW row, Backed(row), row[2] \in DOMAIN segs',
           \A i \in 1..Len(segs[row[2]].recs) : i + HeaderSize <= segs[row[2]].vis =>
              /\ i \in 1..Len(segs'[row[2]].recs) /\ i + HeaderSize <= segs'[row[2]].vis
              /\ segs'[row[2]].recs[i] = segs[row[2]].recs[i]
    PROVE  Backed(row)'
BY DEF Backed

(* No step but a deletion and a power failure takes a readable record.     *)
LEMMA RowsKept ==
    ASSUME Control, [Next]_vars, ~PowerFailure, NEW row, Backed(row),
           RetentionDelete => row[2] \notin retention.paths
    PROVE  Backed(row)'
<1>0. Types /\ WriterInv /\ PhaseInv /\ UserInv /\ VisibleInv
  BY DEF Control
<1> DEFINE s == row[2]
<1>1. /\ s \in DOMAIN segs /\ segs[s].vis \in Nat /\ Len(segs[s].recs) \in Nat
      /\ segs[s].recs \in Seq(Records) /\ segs[s].vis >= 1
      /\ segs[s].vis <= Len(segs[s].recs) + 1
  <2>1. s \in DOMAIN segs /\ \E i \in 1..Len(segs[s].recs) : i + HeaderSize <= segs[s].vis
    BY DEF Backed
  <2>2. /\ segs[s].vis \in Nat /\ Len(segs[s].recs) \in Nat /\ segs[s].recs \in Seq(Records)
        /\ segs[s].vis <= Len(segs[s].recs) + 1
    BY <1>0, <2>1, StoreParts
  <2>3. segs[s].vis >= 1
    BY <2>1, <2>2 DEF HeaderSize
  <2> QED
    BY <2>1, <2>2, <2>3
<1>a. ASSUME s \in DOMAIN segs', segs'[s] = segs[s] PROVE Backed(row)'
  <2> HIDE DEF s
  <2> QED
    BY <1>a, BackedKept DEF s
<1>b. ASSUME s \in DOMAIN segs', segs'[s].recs = segs[s].recs, segs'[s].vis \in Nat,
             segs[s].vis <= segs'[s].vis
      PROVE  Backed(row)'
  <2>1. \A i \in 1..Len(segs[s].recs) : i + HeaderSize <= segs[s].vis =>
            /\ i \in 1..Len(segs'[s].recs) /\ i + HeaderSize <= segs'[s].vis
            /\ segs'[s].recs[i] = segs[s].recs[i]
    BY <1>1, <1>b DEF HeaderSize
  <2> QED
    BY <1>b, <2>1, BackedKept
<1>2. CASE Steady
  BY <1>1, <1>2, <1>a, SteadyFacts
<1>3. CASE Flushing
  <2>1. active \in DOMAIN segs /\ flush_visible
    BY <1>3, FlushingFacts
  <2>2. /\ DOMAIN segs' = DOMAIN segs
        /\ \A t \in DOMAIN segs : t # active => segs'[t] = segs[t]
        /\ segs'[active].recs = segs[active].recs
        /\ segs'[active].vis = FileBytes(segs[active])
    BY <1>0, <2>1, FlushFacts
  <2>3. /\ FileBytes(segs[active]) \in Nat /\ segs[active].vis <= FileBytes(segs[active])
    BY <1>0, <2>1, StoreParts
  <2> QED
    BY <1>1, <1>a, <1>b, <2>2, <2>3
<1>4. CASE Syncing
  <2>1. active \in DOMAIN segs /\ flush_sync
    BY <1>4, SyncingFacts
  <2>2. /\ DOMAIN segs' = DOMAIN segs
        /\ \A t \in DOMAIN segs : t # active => segs'[t] = segs[t]
        /\ segs'[active].recs = segs[active].recs
        /\ segs'[active].vis = FileBytes(segs[active])
    BY <1>0, <2>1, SyncFacts
  <2>3. /\ FileBytes(segs[active]) \in Nat /\ segs[active].vis <= FileBytes(segs[active])
    BY <1>0, <2>1, StoreParts
  <2> QED
    BY <1>1, <1>a, <1>b, <2>2, <2>3
<1>5. CASE WriteRecord
  <2>1. PICK r \in Records : cmd.rec = r /\ active \in DOMAIN segs
    BY <1>5, WritingFacts
  <2>2. /\ DOMAIN segs' = DOMAIN segs
        /\ \A t \in DOMAIN segs : t # active => segs'[t] = segs[t]
        /\ segs'[active].recs = Append(segs[active].recs, r)
        /\ segs'[active].vis \in {segs[active].vis, Len(segs[active].recs) + 2}
    BY <1>0, <1>5, <2>1, WriteFacts
  <2>3. CASE s = active
    <3> DEFINE old == segs[s].recs
               new == segs'[s].recs
    <3>1. new = Append(old, r) /\ old \in Seq(Records)
      BY <1>1, <2>2, <2>3
    <3> HIDE DEF old, new
    <3>2. \A i \in 1..Len(old) : i \in 1..Len(new) /\ new[i] = old[i]
      BY <3>1
    <3>3. \A i \in 1..Len(old) : i + 1 <= segs[s].vis => i + 1 <= segs'[s].vis
      BY <1>1, <2>2, <2>3 DEF old
    <3> QED
      BY <2>1, <2>2, <2>3, <3>2, <3>3, BackedKept DEF old, new, HeaderSize
  <2>4. CASE s # active
    BY <1>1, <1>a, <2>2, <2>4
  <2> QED
    BY <2>3, <2>4
<1>6. CASE Opening
  <2>1. DOMAIN segs' = DOMAIN segs \cup {nextSeg} /\ \A t \in DOMAIN segs : segs'[t] = segs[t]
    BY <1>0, <1>6, OpeningFacts, OpenFacts
  <2> QED
    BY <1>1, <1>a, <2>1
<1>7. CASE RetentionDelete
  BY <1>0, <1>1, <1>7, <1>a, DeleteFacts
<1>8. CASE Ending
  <2>1. CASE Exit
    BY <1>0, <1>1, <1>a, <2>1, ExitFacts
  <2>2. CASE Kill
    <3>1. Left(segs') /\ segs[s].vis <= segs'[s].vis
      BY <1>0, <1>1, <2>2, KillFacts
    <3>2. /\ DOMAIN segs' = DOMAIN segs /\ segs'[s] \in Segment
          /\ segs'[s].vis >= 1 => segs'[s].vis = FileBytes(segs'[s])
          /\ \A i \in 1..Len(segs'[s].recs) : segs'[s].recs[i] = segs[s].recs[i]
      BY <1>1, <3>1 DEF Left, HeaderSize
    <3>3. /\ segs'[s].vis \in Nat /\ Len(segs'[s].recs) \in Nat
          /\ FileBytes(segs'[s]) = Len(segs'[s].recs) + 1
      BY <3>2, SegmentParts
    <3>4. \A i \in 1..Len(segs[s].recs) : i + 1 <= segs[s].vis =>
             i \in 1..Len(segs'[s].recs) /\ i + 1 <= segs'[s].vis
      BY <1>1, <3>1, <3>2, <3>3
    <3> QED
      BY <1>1, <3>2, <3>4, BackedKept DEF HeaderSize
  <2> QED
    BY <1>8, <2>1, <2>2 DEF Ending
<1>9. CASE Start
  <2>1. ~Up /\ segs' = recover_last_segment_tail
    BY <1>9 DEF Start, Up
  <2>2. s \in DOMAIN segs' /\ segs'[s].recs = segs[s].recs /\ segs'[s].vis = segs[s].vis
    BY <1>0, <1>1, <2>1, RecoverFacts DEF HeaderSize
  <2> QED
    BY <1>1, <1>b, <2>2
<1> QED
  BY <1>2, <1>3, <1>4, <1>5, <1>6, <1>7, <1>8, <1>9, StepKinds

(* Index rows come from the writer's publication and from the recovery,    *)
(* and go from the channel to the spool to ClickHouse.                     *)
LEMMA RowMoves ==
    ASSUME Control, [Next]_vars
    PROVE  /\ \A row \in meta' \cup spool' :
                row \in meta \cup spool \cup todo \/ (PublishRow /\ row = Head(pending))
           /\ ch' \subseteq ch \cup spool \/ (RetentionBarrier /\ ch' \subseteq ch \cup spool \cup meta)
           /\ todo' \subseteq todo \/ (PublishDone /\ cmd = FlushCmd) \/ Start
<1> USE DEF bounds, storeVars, writerVars, metaVars, userVars, historyVars
<1>1. CASE Flushing
  BY <1>1, FlushingFacts
<1>2. CASE Syncing
  BY <1>2, SyncingFacts
<1>3. CASE WriteRecord \/ Opening \/ RetentionDelete
  BY <1>3, OpeningFacts DEF WriteRecord, RetentionDelete
<1>4. CASE Ending
  <2>1. meta' = {} /\ todo' = {} /\ ch' = ch /\ spool' \subseteq spool \cup meta
    BY <1>4 DEF Ending, Exit, Kill, PowerFailure, Crash, ProcessGone
  <2> QED
    BY <2>1
<1>5. CASE Start
  BY <1>5 DEF Start
<1>6. CASE Steady
  <2>1. CASE RecordFits \/ StopWriter \/ RetentionScan \/ ReplayDone \/ BeginShutdown
    BY <2>1 DEF RecordFits, StopWriter, RetentionScan, ReplayDone, BeginShutdown
  <2>2. CASE PublishRow \/ PublishDone
    BY <2>2 DEF PublishRow, PublishDone
  <2>3. CASE CommitBarrier \/ MetaSpool
    BY <2>3 DEF CommitBarrier, MetaSpool, DurableBarrier
  <2>4. CASE StartStep
    BY <2>4 DEF StartStep, RebuildRow, RebuildBarrier, WriteMarker, DurableBarrier
  <2>5. CASE RetentionBarrier \/ RetentionMutate
    BY <2>5 DEF RetentionBarrier, RetentionMutate
  <2>6. CASE UserStep
    BY <2>6 DEF UserStep, AppendRecord, RetentionSeal, ReplaySeal, RetentionDropped
  <2>7. CASE Project \/ MetaStop
    BY <2>7 DEF Project, MetaStop
  <2>8. CASE UNCHANGED vars
    BY <2>8 DEF vars
  <2> QED
    BY <1>6, <2>1, <2>2, <2>3, <2>4, <2>5, <2>6, <2>7, <2>8 DEF Steady
<1> QED
  BY <1>1, <1>2, <1>3, <1>4, <1>5, <1>6, StepKinds

(* A cleanup keeps its cutoff and its candidates from the scan on.         *)
LEMMA RetentionMoves ==
    ASSUME Control, [Next]_vars, retention'.pc \in {"mutate", "delete"}
    PROVE  \/ /\ RetentionBarrier /\ retention.pc = "barrier" /\ retention'.pc = "mutate"
              /\ meta' = {} /\ spool' = {}
              /\ retention'.cutoff = retention.cutoff /\ retention'.paths = retention.paths
           \/ /\ RetentionMutate /\ retention.pc = "mutate" /\ retention'.pc = "delete"
              /\ retention'.cutoff = retention.cutoff /\ retention'.paths = retention.paths
           \/ /\ retention'.pc = retention.pc /\ ~RetentionBarrier /\ ~RetentionMutate
              /\ retention'.cutoff = retention.cutoff
              /\ retention'.paths \subseteq retention.paths
<1> USE DEF bounds, storeVars, writerVars, metaVars, userVars, historyVars
<1>0. retention \in RetentionState
  BY DEF Control, Types
<1>a. NoRetention.pc = "idle"
  BY DEF NoRetention
<1>b. \A c : [retention EXCEPT !.pc = c].pc = c
  BY <1>0 DEF RetentionState
<1>1. CASE RetentionBarrier
  BY <1>0, <1>1, <1>a DEF RetentionBarrier, RetentionState
<1>2. CASE RetentionMutate
  BY <1>0, <1>2 DEF RetentionMutate, RetentionState
<1>3. CASE RetentionScan
  BY <1>0, <1>3 DEF RetentionScan, RetentionState
<1>4. ASSUME ~RetentionBarrier, ~RetentionMutate, ~RetentionScan
      PROVE  /\ retention'.pc = retention.pc /\ retention'.cutoff = retention.cutoff
             /\ retention'.paths \subseteq retention.paths
  <2>1. CASE retention' = retention
    BY <2>1
  <2>2. CASE Syncing \/ StopWriter
    <3>1. retention' \in {retention, NoRetention}
      BY <2>2 DEF Syncing, RecordOverBudget, TickStop, MetadataGone, RotateOverBudget,
                  RecordRotates, TakeSeal, BeginCommit, StopWriter, ReplyErr
    <3> QED
      BY <1>a, <3>1
  <2>3. CASE Opening
    <3>1. retention' = retention \/ retention'.pc = "scan"
      BY <1>0, <2>3 DEF Opening, WriterInit, Rotate, RetentionState
    <3> QED
      BY <3>1
  <2>4. CASE RetentionDelete
    BY <1>0, <1>a, <2>4 DEF RetentionDelete, RetentionState
  <2>5. CASE Ending
    BY <1>a, <2>5, EndingFacts DEF ProcessGone
  <2>6. CASE UserStep
    <3>1. CASE RetentionDropped
      BY <1>0, <1>a, <3>1 DEF RetentionDropped, RetentionState
    <3>2. CASE ~RetentionDropped
      BY <2>6, <3>2 DEF UserStep, AppendRecord, RetentionSeal, ReplaySeal
    <3> QED
      BY <3>1, <3>2
  <2>7. CASE \/ RecordFits \/ PublishRow \/ PublishDone \/ CommitBarrier \/ StartStep \/ MetaSpool
             \/ Project \/ MetaStop \/ BeginShutdown \/ ReplayDone \/ UNCHANGED vars
    BY <2>7 DEF RecordFits, PublishRow, PublishDone, CommitBarrier, StartStep, RebuildRow,
                RebuildBarrier, WriteMarker, MetaSpool, Project, MetaStop, BeginShutdown,
                ReplayDone, vars
  <2>8. CASE Flushing \/ WriteRecord \/ Start
    BY <2>8, FlushingFacts DEF WriteRecord, Start
  <2> QED
    BY <1>4, <2>2, <2>3, <2>4, <2>5, <2>6, <2>7, <2>8, StepKinds DEF Steady
<1> QED
  BY <1>1, <1>2, <1>3, <1>4, <1>a

(* What a reader finds in a file is backed.                                *)
LEMMA ReadIsBacked ==
    ASSUME NEW fs, fs \in [DOMAIN fs -> Segment], NEW s \in DOMAIN fs,
           fs[s].vis <= FileBytes(fs[s]), NEW r \in ToSet(Visible(fs[s]))
    PROVE  /\ <<r, s>>[2] = s /\ <<r, s>>[1] = r
           /\ \E i \in 1..Len(fs[s].recs) : i + HeaderSize <= fs[s].vis /\ fs[s].recs[i] = r
<1>1. fs[s] \in Segment
  OBVIOUS
<1> QED
  BY <1>1, VisibleRecords

(* No step leaves a row without its payload, if the power does not fail.   *)
LEMMA RowInvStep ==
    ASSUME "power" \notin Faults, Control, RowInv, [Next]_vars
    PROVE  RowInv'
<1>0. /\ Types /\ SegTypes /\ PlainTypes /\ WriterInv /\ PhaseInv /\ UserInv /\ VisibleInv
      /\ GuardInv /\ ClosedInv
  BY TypesApart DEF Control, UserInv
<1>a. ~PowerFailure
  BY DEF PowerFailure, Crash
<1>b. SegTypes'
  BY SegTypesStep
<1>1. ASSUME PublishRow
      PROVE  Head(pending)[2] = active /\ active \in DOMAIN segs /\ Backed(Head(pending))
  <2>1. Up /\ wpc = "publish" /\ pending # <<>> /\ pending \in Seq(Rows)
    BY <1>0, <1>1 DEF PublishRow, PlainTypes
  <2>2. Head(pending) = pending[1] /\ 1 \in 1..Len(pending)
    BY <2>1
  <2>3. active \in DOMAIN segs
    BY <1>0, <2>1 DEF WriterInv, WriterAt
  <2>4. Head(pending)[2] = active /\ \E j \in 1..Len(segs[active].recs) :
                                        segs[active].recs[j] = Head(pending)[1]
    BY <1>0, <2>2 DEF WriterInv, WriterRows
  <2>5. segs[active].vis = Len(segs[active].recs) + 1 /\ Len(segs[active].recs) \in Nat
    BY <1>0, <2>1, <2>3, StoreParts DEF VisibleInv
  <2>6. \A j \in 1..Len(segs[active].recs) : j + HeaderSize <= segs[active].vis
    BY <2>5 DEF HeaderSize
  <2> QED
    BY <2>3, <2>4, <2>6 DEF Backed
<1>2. ASSUME NEW row \in meta \cup spool \cup ch \cup todo,
             row \in meta' \cup spool' \cup ch' \cup todo'
      PROVE  Backed(row)'
  <2>1. RetentionDelete => row[2] \notin retention.paths
    <3>1. RetentionDelete => todo = {} /\ retention.pc = "delete"
      BY <1>0 DEF RetentionDelete, PhaseInv, NoRetention
    <3> QED
      BY <3>1 DEF RowInv
  <2> QED
    BY <1>a, <2>1, RowsKept DEF RowInv
<1>3. ASSUME NEW row \in meta' \cup spool' \cup ch' \cup todo'
      PROVE  Backed(row)'
  <2>1. CASE row \in meta \cup spool \cup ch \cup todo
    BY <1>2, <1>3, <2>1
  <2>2. CASE PublishRow /\ row = Head(pending)
    <3>1. Backed(row)
      BY <1>1, <2>2
    <3>2. row[2] \notin retention.paths
      BY <1>0, <1>1, <2>2 DEF ClosedInv
    <3> QED
      BY <1>a, <3>1, <3>2, RowsKept
  <2>3. CASE PublishDone /\ cmd = FlushCmd /\ row \in todo'
    <3>1. segs' = segs /\ todo' = UNION {RowsOf(s) : s \in DOMAIN segs}
      BY <2>3 DEF PublishDone, storeVars, list_segments
    <3>2. PICK s \in DOMAIN segs : row \in RowsOf(s)
      BY <2>3, <3>1
    <3>3. PICK r \in ToSet(Visible(segs[s])) : row = <<r, s>>
      BY <3>2 DEF RowsOf
    <3>4. segs \in [DOMAIN segs -> Segment] /\ segs[s].vis <= FileBytes(segs[s])
      BY <1>0 DEF SegTypes
    <3>5. Backed(row)
      BY <3>2, <3>3, <3>4, ReadIsBacked DEF Backed
    <3>6. ~RetentionDelete
      BY <1>0, <2>3 DEF PhaseInv, RetentionDelete, NoRetention
    <3> QED
      BY <1>a, <3>5, <3>6, RowsKept
  <2>4. CASE Start /\ row \in todo'
    <3>1. todo' = RecoveryRows(segs') \/ todo' = {}
      BY <2>4 DEF Start
    <3> DEFINE fs == segs'
               s == LatestSegment
    <3>2. s \in DOMAIN fs /\ \E r \in ToSet(Visible(fs[s])) : row = <<r, s>>
      BY <2>4, <3>1 DEF RecoveryRows
    <3>3. fs \in [DOMAIN fs -> Segment] /\ fs[s].vis <= FileBytes(fs[s])
      BY <1>b, <3>2 DEF SegTypes
    <3> HIDE DEF fs, s
    <3>4. PICK r \in ToSet(Visible(fs[s])) : row = <<r, s>>
      BY <3>2
    <3>5. /\ row[2] = s /\ row[1] = r
          /\ \E i \in 1..Len(fs[s].recs) : i + HeaderSize <= fs[s].vis /\ fs[s].recs[i] = r
      BY <3>2, <3>3, <3>4, ReadIsBacked
    <3> QED
      BY <3>2, <3>5 DEF Backed, fs
  <2> QED
    BY <1>3, <2>1, <2>2, <2>3, <2>4, RowMoves
<1>4. ASSUME retention'.pc \in {"mutate", "delete"}
      PROVE  /\ \A row \in meta' \cup spool' : row[2] \notin retention'.paths
             /\ retention'.pc = "mutate" =>
                  \A row \in ch' : row[2] \in retention'.paths => row[1] < retention'.cutoff
             /\ retention'.pc = "delete" => \A row \in ch' : row[2] \notin retention'.paths
  <2>1. CASE /\ RetentionBarrier /\ retention.pc = "barrier" /\ retention'.pc = "mutate"
             /\ meta' = {} /\ spool' = {}
             /\ retention'.cutoff = retention.cutoff /\ retention'.paths = retention.paths
    <3> SUFFICES ASSUME NEW row \in ch', row[2] \in retention.paths
                 PROVE  row[1] < retention.cutoff
      BY <2>1
    <3>1. row \in ch \cup spool \cup meta
      BY RowMoves
    <3>2. Backed(row)
      BY <3>1 DEF RowInv
    <3>3. Expired(row[2], retention.cutoff)
      BY <1>0, <2>1 DEF VisibleInv
    <3>4. row[2] \in DOMAIN segs /\ segs[row[2]] \in Segment
          /\ segs[row[2]].vis <= FileBytes(segs[row[2]])
      BY <1>0, <3>2 DEF Backed, SegTypes
    <3>5. row[1] \in ToSet(Visible(segs[row[2]]))
      BY <3>2, <3>4, VisibleRecords DEF Backed
    <3> QED
      BY <3>3, <3>5 DEF Expired
  <2>2. CASE /\ RetentionMutate /\ retention.pc = "mutate" /\ retention'.pc = "delete"
             /\ retention'.cutoff = retention.cutoff /\ retention'.paths = retention.paths
    <3>1. /\ meta' = meta /\ spool' = spool
          /\ ch' = {row \in ch : row[1] >= retention.cutoff}
      BY <2>2 DEF RetentionMutate
    <3>2. \A row \in ch' : row \in ch /\ row[1] >= retention.cutoff /\ row[1] \in Nat
                           /\ retention.cutoff \in Nat
      <4>1. \A row \in ch : row[1] \in Nat
        BY <1>0, RecordsAssumption DEF PlainTypes, Rows
      <4>2. retention.cutoff \in Cutoffs \cup {0}
        BY <1>0 DEF Types, RetentionState
      <4>3. \A k \in Cutoffs \cup {0} : k \in Nat
        BY RecordsAssumption
      <4> QED
        BY <3>1, <4>1, <4>2, <4>3
    <3>3. \A row \in ch : row[2] \in retention.paths => row[1] < retention.cutoff
      BY <2>2 DEF RowInv
    <3>4. \A row \in ch' : row[2] \notin retention.paths
      BY <3>2, <3>3
    <3> QED
      BY <2>2, <3>1, <3>4 DEF RowInv
  <2>3. CASE /\ retention'.pc = retention.pc /\ ~RetentionBarrier /\ ~RetentionMutate
             /\ retention'.cutoff = retention.cutoff
             /\ retention'.paths \subseteq retention.paths
    <3>1. todo = {}
      BY <1>0, <1>4, <2>3 DEF PhaseInv, NoRetention
    <3>2. \A row \in meta' \cup spool' : row[2] \notin retention.paths
      <4> SUFFICES ASSUME NEW row \in meta' \cup spool' PROVE row[2] \notin retention.paths
        OBVIOUS
      <4>1. row \in meta \cup spool \/ (PublishRow /\ row = Head(pending))
        BY <3>1, RowMoves
      <4>2. row \in meta \cup spool => row[2] \notin retention.paths
        BY <1>4, <2>3 DEF RowInv
      <4>3. PublishRow /\ row = Head(pending) => row[2] \notin retention.paths
        BY <1>0, <1>1 DEF ClosedInv
      <4> QED
        BY <4>1, <4>2, <4>3
    <3>3. ch' \subseteq ch \cup spool
      BY <2>3, RowMoves
    <3>4. \A row \in spool : row[2] \notin retention.paths
      BY <1>4, <2>3 DEF RowInv
    <3>5. retention.pc = "mutate" =>
            \A row \in ch : row[2] \in retention.paths => row[1] < retention.cutoff
      BY DEF RowInv
    <3>6. retention.pc = "delete" => \A row \in ch : row[2] \notin retention.paths
      BY DEF RowInv
    <3> QED
      BY <2>3, <3>2, <3>3, <3>4, <3>5, <3>6
  <2> QED
    BY <1>4, <2>1, <2>2, <2>3, RetentionMoves
<1> QED
  BY <1>3, <1>4 DEF RowInv

(* An index row never points at bytes a reader cannot find, whatever the   *)
(* order of publications, barriers, deletions, kills and restarts.  After  *)
(* a power failure it may: rows are durable before the bytes they name     *)
(* are synced.                                                             *)
THEOREM PayloadCorrect ==
    ASSUME "power" \notin Faults
    PROVE  Spec => []NoRowWithoutPayload
<1>1. Init => Control /\ RowInv
  <2>1. Init => meta = {} /\ spool = {} /\ ch = {} /\ todo = {}
    BY DEF Init
  <2> QED
    BY <2>1, ControlInit DEF RowInv
<1>2. Control /\ RowInv /\ [Next]_vars => (Control /\ RowInv)'
  BY ControlStep, RowInvStep
<1>3. Control /\ RowInv => NoRowWithoutPayload
  <2> SUFFICES ASSUME Control, RowInv, NEW row \in meta \cup spool \cup ch
               PROVE  row[2] \in DOMAIN segs /\ row[1] \in ToSet(Visible(segs[row[2]]))
    BY DEF NoRowWithoutPayload, list_segments
  <2>1. Backed(row) /\ Types
    BY DEF RowInv, Control
  <2>2. row[2] \in DOMAIN segs
    BY <2>1 DEF Backed
  <2>3. segs[row[2]] \in Segment /\ segs[row[2]].vis <= FileBytes(segs[row[2]])
    BY <2>1, <2>2, StoreParts
  <2> QED
    BY <2>1, <2>2, <2>3, VisibleRecords DEF Backed
<1> QED
  BY <1>1, <1>2, <1>3, PTL DEF Spec
-----------------------------------------------------------------------------
(* Records and their index rows.                                           *)

(* The records of the segments the writer has left never change, and a     *)
(* segment is left by a rotation.                                          *)
LEMMA ClosedRecs ==
    ASSUME Control, [Next]_vars, Up, Up', NEW s \in DOMAIN segs', s # active'
    PROVE  /\ s \in DOMAIN segs /\ segs'[s].recs = segs[s].recs
           /\ s # active \/ Rotate
<1>0. Types /\ UserInv
  BY DEF Control
<1>1. CASE Steady
  BY <1>1, SteadyFacts
<1>2. CASE Flushing
  <2>1. active \in DOMAIN segs /\ flush_visible /\ UNCHANGED active
    BY <1>2, FlushingFacts
  <2> QED
    BY <1>0, <2>1, FlushFacts
<1>3. CASE Syncing
  <2>1. active \in DOMAIN segs /\ flush_sync /\ UNCHANGED active
    BY <1>3, SyncingFacts
  <2> QED
    BY <1>0, <2>1, SyncFacts
<1>4. CASE WriteRecord
  <2>1. PICK r \in Records : cmd.rec = r /\ active \in DOMAIN segs
    BY <1>4, WritingFacts
  <2>2. UNCHANGED active
    BY <1>4 DEF WriteRecord
  <2> QED
    BY <1>0, <1>4, <2>1, <2>2, WriteFacts
<1>5. CASE Opening
  <2>1. /\ DOMAIN segs' = DOMAIN segs \cup {nextSeg} /\ active' = nextSeg
        /\ \A t \in DOMAIN segs : segs'[t] = segs[t]
    BY <1>0, <1>5, OpeningFacts, OpenFacts
  <2>2. WriterInit => active \notin DOMAIN segs
    BY NoActive DEF WriterInit
  <2> QED
    BY <1>5, <2>1, <2>2 DEF Opening
<1>6. CASE RetentionDelete
  <2>1. UNCHANGED active
    BY <1>6 DEF RetentionDelete, writerVars
  <2> QED
    BY <1>0, <1>6, <2>1, DeleteFacts
<1>7. CASE Ending
  BY <1>7, EndingFacts DEF ProcessGone, Up
<1>8. CASE Start
  BY <1>8 DEF Start, Up
<1> QED
  BY <1>1, <1>2, <1>3, <1>4, <1>5, <1>6, <1>7, <1>8, StepKinds

(* The active segment grows by one record at a time, and is empty when it  *)
(* is opened.                                                              *)
LEMMA ActiveRecs ==
    ASSUME Control, [Next]_vars, Up, Up', wpc' # "init"
    PROVE  \/ /\ active' = active /\ wpc # "init" /\ active \in DOMAIN segs
              /\ segs'[active].recs = segs[active].recs /\ ~WriteRecord /\ ~Opening
           \/ /\ WriteRecord /\ active' = active /\ wpc = "write" /\ active \in DOMAIN segs
              /\ \E r \in Records : /\ cmd = RecordCmd(r)
                                    /\ segs'[active].recs = Append(segs[active].recs, r)
                                    /\ pending' = Append(pending, <<r, active>>)
           \/ /\ Opening /\ active' = nextSeg /\ nextSeg \notin DOMAIN segs
              /\ segs'[active'].recs = <<>>
<1>0. Types /\ UserInv /\ WriterAt
  BY DEF Control, WriterInv
<1>1. CASE WriteRecord
  <2>1. PICK r \in Records : cmd = RecordCmd(r) /\ cmd.rec = r /\ active \in DOMAIN segs
                             /\ wpc = "write"
    BY <1>1, WritingFacts
  <2>2. UNCHANGED active /\ pending' = Append(pending, <<r, active>>)
    BY <1>1, <2>1 DEF WriteRecord
  <2>3. segs'[active].recs = Append(segs[active].recs, r)
    BY <1>0, <1>1, <2>1, WriteFacts
  <2> QED
    BY <1>1, <2>1, <2>2, <2>3
<1>2. CASE Opening
  <2>1. active' = nextSeg /\ nextSeg \notin DOMAIN segs /\ segs'[nextSeg].recs = <<>>
    BY <1>0, <1>2, OpeningFacts, OpenFacts
  <2> QED
    BY <1>2, <2>1
<1>3. ASSUME ~WriteRecord, ~Opening
      PROVE  /\ active' = active /\ wpc # "init" /\ active \in DOMAIN segs
             /\ segs'[active].recs = segs[active].recs
  <2>1. CASE Steady
    BY <1>0, <2>1, SteadyFacts, SteadyControl DEF WriterAt
  <2>2. CASE Flushing
    <3>1. active \in DOMAIN segs /\ flush_visible /\ UNCHANGED active /\ wpc = "recv"
      BY <2>2, FlushingFacts
    <3> QED
      BY <1>0, <3>1, FlushFacts
  <2>3. CASE Syncing
    <3>1. active \in DOMAIN segs /\ flush_sync /\ UNCHANGED active /\ wpc # "init"
      BY <2>3, SyncingFacts
    <3> QED
      BY <1>0, <3>1, SyncFacts
  <2>4. CASE RetentionDelete
    <3>1. UNCHANGED <<active, wpc>>
      BY <2>4 DEF RetentionDelete, writerVars
    <3>2. active \in DOMAIN segs
      BY <1>0, <3>1 DEF WriterAt
    <3> QED
      BY <1>0, <2>4, <3>1, <3>2, DeleteFacts
  <2>5. CASE Ending
    BY <2>5, EndingFacts DEF ProcessGone, Up
  <2>6. CASE Start
    BY <2>6 DEF Start, Up
  <2> QED
    BY <1>3, <2>1, <2>2, <2>3, <2>4, <2>5, <2>6, StepKinds
<1> QED
  BY <1>1, <1>2, <1>3

(* Retention only takes rows it says it has taken.                         *)
LEMMA IndexedKept ==
    ASSUME Control, [Next]_vars, NEW r \in Records, NEW s, Indexed(r, s)
    PROVE  Indexed(r, s)'
<1>0. /\ PlainTypes /\ cutoff \in Nat /\ retention.cutoff \in Nat /\ r \in Nat
  <2>1. cutoff \in Cutoffs \cup {0} /\ retention \in RetentionState /\ PlainTypes
    BY TypesApart DEF Control, PlainTypes
  <2>2. retention.cutoff \in Cutoffs \cup {0}
    BY <2>1 DEF RetentionState
  <2>3. \A k \in Cutoffs \cup {0} : k \in Nat
    BY RecordsAssumption
  <2>4. r \in Nat
    BY RecordsAssumption
  <2> QED
    BY <2>1, <2>2, <2>3, <2>4
<1> USE DEF bounds, storeVars, writerVars, metaVars, userVars, historyVars
<1>a. ASSUME spool \cup ch \subseteq spool' \cup ch', UNCHANGED cutoff
      PROVE  Indexed(r, s)'
  BY <1>a DEF Indexed
<1>1. CASE RetentionMutate
  <2> DEFINE row == <<r, s>>
  <2>1. /\ spool' = spool /\ ch' = {x \in ch : x[1] >= retention.cutoff}
        /\ cutoff' = Max({cutoff, retention.cutoff})
    BY <1>1 DEF RetentionMutate
  <2>2. cutoff' \in Nat /\ cutoff <= cutoff' /\ retention.cutoff <= cutoff'
    BY <1>0, <2>1, MaxOfTwo
  <2>3. row[1] = r
    OBVIOUS
  <2>4. row \in spool \cup ch \/ r < cutoff
    BY DEF Indexed
  <2> HIDE DEF row
  <2>5. row \in spool' \cup ch' \/ r < cutoff'
    BY <1>0, <2>1, <2>2, <2>3, <2>4
  <2> QED
    BY <2>5 DEF Indexed, row
<1>2. CASE Flushing \/ Syncing
  BY <1>2, <1>a, FlushingFacts, SyncingFacts
<1>3. CASE WriteRecord \/ Opening \/ RetentionDelete
  BY <1>3, <1>a, OpeningFacts DEF WriteRecord, RetentionDelete
<1>4. CASE Ending
  <2>1. spool \subseteq spool' /\ ch' = ch /\ UNCHANGED cutoff
    BY <1>4 DEF Ending, Exit, Kill, PowerFailure, Crash, ProcessGone
  <2> QED
    BY <1>a, <2>1
<1>5. CASE Start
  BY <1>5, <1>a DEF Start
<1>6. CASE Steady /\ ~RetentionMutate
  <2>1. CASE RecordFits \/ StopWriter \/ RetentionScan \/ ReplayDone \/ BeginShutdown
    BY <1>a, <2>1 DEF RecordFits, StopWriter, RetentionScan, ReplayDone, BeginShutdown
  <2>2. CASE PublishRow \/ PublishDone
    BY <1>a, <2>2 DEF PublishRow, PublishDone
  <2>3. CASE CommitBarrier \/ MetaSpool
    BY <1>a, <2>3 DEF CommitBarrier, MetaSpool, DurableBarrier
  <2>4. CASE StartStep
    BY <1>a, <2>4 DEF StartStep, RebuildRow, RebuildBarrier, WriteMarker, DurableBarrier
  <2>5. CASE RetentionBarrier
    BY <1>a, <2>5 DEF RetentionBarrier
  <2>6. CASE UserStep
    BY <1>a, <2>6 DEF UserStep, AppendRecord, RetentionSeal, ReplaySeal, RetentionDropped
  <2>7. CASE Project \/ MetaStop
    BY <1>a, <2>7 DEF Project, MetaStop
  <2>8. CASE UNCHANGED vars
    BY <1>a, <2>8 DEF vars
  <2> QED
    BY <1>6, <2>1, <2>2, <2>3, <2>4, <2>5, <2>6, <2>7, <2>8 DEF Steady
<1> QED
  BY <1>1, <1>2, <1>3, <1>4, <1>5, <1>6, StepKinds

(* The order of the phases.                                                *)
LEMMA PhaseMoves ==
    ASSUME Control, [Next]_vars
    PROVE  \/ phase' = phase \/ Start \/ Ending
           \/ PublishDone /\ cmd = FlushCmd /\ phase = "flushing" /\ phase' = "rebuild"
           \/ RebuildBarrier /\ phase = "rebuild" /\ phase' \in {"marker", "running"}
           \/ WriteMarker /\ phase = "marker" /\ phase' = "running"
           \/ BeginShutdown /\ phase = "running" /\ phase' = "closing"
<1> USE DEF bounds, storeVars, writerVars, metaVars, userVars, historyVars
<1>0. PhaseInv
  BY DEF Control
<1>1. CASE Flushing \/ Syncing
  BY <1>1, FlushingFacts, SyncingFacts
<1>2. CASE WriteRecord \/ Opening \/ RetentionDelete
  BY <1>2, OpeningFacts DEF WriteRecord, RetentionDelete
<1>3. CASE PublishDone
  BY <1>0, <1>3 DEF PublishDone, PhaseInv
<1>4. CASE StartStep
  BY <1>4 DEF StartStep, RebuildRow, RebuildBarrier, WriteMarker
<1>5. CASE \/ RecordFits \/ PublishRow \/ CommitBarrier \/ StopWriter \/ MetaSpool \/ Project
           \/ MetaStop \/ BeginShutdown \/ ReplayDone \/ UNCHANGED vars
  BY <1>5 DEF RecordFits, PublishRow, CommitBarrier, StopWriter, MetaSpool, Project, MetaStop,
              BeginShutdown, ReplayDone, vars
<1>6. CASE RetentionScan \/ RetentionBarrier \/ RetentionMutate
  BY <1>6 DEF RetentionScan, RetentionBarrier, RetentionMutate
<1>7. CASE UserStep
  BY <1>7 DEF UserStep, AppendRecord, RetentionSeal, ReplaySeal, RetentionDropped
<1> QED
  BY <1>1, <1>2, <1>3, <1>4, <1>5, <1>6, <1>7, StepKinds DEF Steady

(* A row on its way arrives, as long as the metadata writer runs.          *)
LEMMA OnItsWay ==
    ASSUME Control, [Next]_vars, Up, Up', metaUp'
    PROVE  /\ metaUp
           /\ \A row \in meta : row \in meta' \cup spool' \cup ch'
           /\ \A row \in todo : row \in meta' \cup todo' \/ PublishDone
           /\ \A j \in 1..Len(pending) : \/ pending[j] \in meta'
                                         \/ \E k \in 1..Len(pending') : pending'[k] = pending[j]
<1>0. PlainTypes /\ pending \in Seq(Rows)
  BY TypesApart DEF Control, PlainTypes
<1>a. ASSUME pending' = pending
      PROVE  \A j \in 1..Len(pending) : \E k \in 1..Len(pending') : pending'[k] = pending[j]
  BY <1>a
<1> USE DEF bounds, storeVars, writerVars, metaVars, userVars, historyVars
<1>1. CASE Flushing \/ Syncing
  BY <1>1, <1>a, FlushingFacts, SyncingFacts
<1>2. CASE Opening \/ RetentionDelete
  BY <1>2, <1>a, OpeningFacts DEF RetentionDelete
<1>3. CASE WriteRecord
  <2> DEFINE row == <<cmd.rec, active>>
  <2>1. pending' = Append(pending, row) /\ UNCHANGED <<metaUp, meta, todo>>
    BY <1>3 DEF WriteRecord
  <2> HIDE DEF row
  <2>2. \A j \in 1..Len(pending) : j \in 1..Len(pending') /\ pending'[j] = pending[j]
    BY <1>0, <2>1
  <2> QED
    BY <2>1, <2>2
<1>4. CASE Ending
  BY <1>4, EndingFacts DEF ProcessGone, Up
<1>5. CASE Start
  BY <1>5 DEF Start, Up
<1>6. CASE PublishRow
  <2>1. /\ pending # <<>> /\ pending' = Tail(pending) /\ meta' = meta \cup {Head(pending)}
        /\ UNCHANGED <<metaUp, todo>>
    BY <1>6 DEF PublishRow
  <2>2. /\ Len(pending) \in Nat /\ Len(pending') = Len(pending) - 1 /\ Head(pending) = pending[1]
        /\ \A k \in 1..Len(pending') : pending'[k] = pending[k + 1]
    BY <1>0, <2>1
  <2>3. ASSUME NEW j \in 1..Len(pending)
        PROVE  \/ pending[j] \in meta'
               \/ \E k \in 1..Len(pending') : pending'[k] = pending[j]
    <3>1. CASE j = 1
      BY <2>1, <2>2, <3>1
    <3>2. CASE j # 1
      <4>1. j - 1 \in 1..Len(pending') /\ j - 1 + 1 = j
        BY <2>2, <3>2
      <4>2. pending'[j - 1] = pending[j]
        BY <2>2, <4>1
      <4> QED
        BY <4>1, <4>2
    <3> QED
      BY <3>1, <3>2
  <2> QED
    BY <2>1, <2>3
<1>7. CASE PublishDone \/ RecordFits \/ StopWriter \/ RetentionScan \/ ReplayDone \/ BeginShutdown
  BY <1>7, <1>a DEF PublishDone, RecordFits, StopWriter, RetentionScan, ReplayDone, BeginShutdown
<1>8. CASE CommitBarrier \/ MetaSpool
  BY <1>8, <1>a DEF CommitBarrier, MetaSpool, DurableBarrier
<1>9. CASE StartStep
  BY <1>9, <1>a DEF StartStep, RebuildRow, RebuildBarrier, WriteMarker, DurableBarrier
<1>10. CASE RetentionBarrier \/ RetentionMutate
  BY <1>10, <1>a DEF RetentionBarrier, RetentionMutate
<1>11. CASE UserStep
  BY <1>11, <1>a DEF UserStep, AppendRecord, RetentionSeal, ReplaySeal, RetentionDropped
<1>12. CASE Project \/ MetaStop
  BY <1>12, <1>a DEF Project, MetaStop
<1>13. CASE UNCHANGED vars
  BY <1>13, <1>a DEF vars
<1> QED
  BY <1>1, <1>2, <1>3, <1>4, <1>5, <1>6, <1>7, <1>8, <1>9, <1>10, <1>11, <1>12, <1>13, StepKinds
     DEF Steady

(* The writer is about to rotate once the barrier is behind it.            *)
LEMMA RotateMoves ==
    ASSUME Control, [Next]_vars, wpc' = "rotate"
    PROVE  Up /\ Up' /\ ((wpc = "rotate" /\ ~WriteRecord /\ ~Opening) \/ CommitBarrier)
<1> USE DEF bounds, storeVars, writerVars, metaVars, userVars, historyVars
<1>0. PhaseInv /\ PlainTypes
  BY TypesApart DEF Control
<1>1. CASE Flushing \/ Syncing
  BY <1>1, FlushingFacts, SyncingFacts
<1>2. CASE WriteRecord \/ Opening
  BY <1>2 DEF WriteRecord, Opening, WriterInit, Rotate
<1>3. CASE Ending
  BY <1>3, EndingFacts DEF ProcessGone
<1>4. CASE Start
  BY <1>4 DEF Start
<1>5. CASE Steady \/ RetentionDelete
  <2>1. wpc = "rotate" \/ CommitBarrier
    <3>1. CASE PublishDone
      BY <1>0, <3>1 DEF PublishDone, PlainTypes
    <3>2. CASE RecordFits \/ StopWriter
      BY <3>2 DEF RecordFits, StopWriter
    <3>3. CASE StartStep
      BY <3>3 DEF StartStep, RebuildRow, RebuildBarrier, WriteMarker
    <3>4. CASE \/ PublishRow \/ MetaSpool \/ Project \/ MetaStop \/ BeginShutdown \/ ReplayDone
               \/ UNCHANGED vars
      BY <3>4 DEF PublishRow, MetaSpool, Project, MetaStop, BeginShutdown, ReplayDone, vars
    <3>5. CASE RetentionScan \/ RetentionBarrier \/ RetentionMutate \/ RetentionDelete
      BY <3>5 DEF RetentionScan, RetentionBarrier, RetentionMutate, RetentionDelete
    <3>6. CASE UserStep
      BY <3>6 DEF UserStep, AppendRecord, RetentionSeal, ReplaySeal, RetentionDropped
    <3> QED
      BY <1>5, <3>1, <3>2, <3>3, <3>4, <3>5, <3>6 DEF Steady
  <2>2. Up
    BY <1>0, <2>1 DEF PhaseInv, CommitBarrier
  <2>3. Up'
    <3>1. RetentionDelete => UNCHANGED phase
      BY DEF RetentionDelete
    <3> QED
      BY <1>5, <2>2, <3>1, SteadyControl DEF Up
  <2>4. wpc = "rotate" => ~WriteRecord
    BY DEF WriteRecord
  <2>5. ~Opening
    BY DEF Opening, WriterInit, Rotate
  <2> QED
    BY <2>1, <2>2, <2>3, <2>4, <2>5
<1> QED
  BY <1>1, <1>2, <1>3, <1>4, <1>5, StepKinds

(* Everything that was written to a file can be read, once it is closed.   *)
LEMMA ClosedIsRead ==
    ASSUME NEW seg \in Segment, seg.vis <= FileBytes(seg), AllVisible(seg),
           NEW i \in 1..Len(seg.recs)
    PROVE  seg.recs[i] \in ToSet(Visible(seg))
<1>1. /\ Len(seg.recs) \in Nat /\ FileBytes(seg) = Len(seg.recs) + 1 /\ seg.vis \in Nat
      /\ seg.recs \in Seq(Records)
  BY SegmentParts
<1>2. seg.recs # <<>>
  BY <1>1
<1>3. i + HeaderSize <= seg.vis
  BY <1>1, <1>2 DEF AllVisible, HeaderSize
<1> QED
  BY <1>3, VisibleRecords

(* Every record of a closed segment keeps its index row, in the spool or   *)
(* in ClickHouse, until retention takes it; if no start is interrupted.    *)
LEMMA IndexInvStep ==
    ASSUME "startup" \notin Faults, Control, IndexInv, [Next]_vars
    PROVE  IndexInv'
<1>0. /\ Types /\ SegTypes /\ PlainTypes /\ WriterInv /\ PhaseInv /\ UserInv /\ VisibleInv
  BY TypesApart DEF Control
<1>a. Control'
  BY ControlStep
<1>b. Types' /\ SegTypes' /\ PhaseInv' /\ WriterAt' /\ VisibleInv'
  BY <1>a, SegTypesStep DEF Control, WriterInv
<1>c. \A s \in DOMAIN segs : \A i \in 1..Len(segs[s].recs) : segs[s].recs[i] \in Records
  BY <1>0, StoreParts
<1>d. ASSUME NEW s \in DOMAIN segs, NEW i \in 1..Len(segs[s].recs), Indexed(segs[s].recs[i], s)
      PROVE  Indexed(segs[s].recs[i], s)' \/ segs'[s].recs[i] # segs[s].recs[i]
  <2>1. PICK r \in Records : r = segs[s].recs[i]
    BY <1>c
  <2>2. Indexed(r, s)
    BY <1>d, <2>1
  <2>3. Indexed(r, s)'
    BY <2>2, IndexedKept
  <2> QED
    BY <2>1, <2>3 DEF Indexed
<1>e. ASSUME NEW s \in DOMAIN segs, NEW i \in 1..Len(segs[s].recs),
             segs'[s].recs[i] = segs[s].recs[i],
             <<segs[s].recs[i], s>> \in spool' \cup ch'
      PROVE  Indexed(segs[s].recs[i], s)'
  BY <1>e DEF Indexed
<1>1. ASSUME ~Up', marker', NEW s \in DOMAIN segs', s # LatestSegment',
             NEW i \in 1..Len(segs'[s].recs)
      PROVE  Indexed(segs[s].recs[i], s)'
  <2>1. CASE Ending
    <3>1. Left(segs') /\ Up /\ ProcessGone(segs')
      BY <2>1, EndingFacts
    <3>2. /\ DOMAIN segs' = DOMAIN segs /\ s \in DOMAIN segs
          /\ i \in 1..Len(segs[s].recs) /\ segs'[s].recs[i] = segs[s].recs[i]
      BY <1>1, <3>1 DEF Left
    <3>3. LatestSegment' = LatestSegment
      BY <3>2 DEF LatestSegment, list_segments
    <3>4. phase \in {"running", "closing"}
      BY <2>1 DEF Ending, Exit, PowerFailure, Kill, Crash
    <3>5. s # active
      BY <1>1, <3>1, <3>2, <3>3, NoActive, ActiveIsNewest
    <3>6. Indexed(segs[s].recs[i], s)
      BY <3>2, <3>4, <3>5 DEF IndexInv
    <3> QED
      BY <1>d, <3>2, <3>6
  <2>2. CASE ~Ending
    <3>1. ~Start
      BY <1>1 DEF Start, Up
    <3>2. phase' = phase /\ ~Up
      BY <1>1, <2>2, <3>1, PhaseMoves DEF Up
    <3>3. Steady
      <4>1. ~Flushing /\ ~Syncing /\ ~WriteRecord /\ ~Opening
        BY <3>2, FlushingFacts, SyncingFacts, WritingFacts, OpeningFacts
      <4>2. ~RetentionDelete
        BY <3>2, ServicePhases DEF RetentionStep, Up
      <4> QED
        BY <2>2, <3>1, <4>1, <4>2, StepKinds
    <3>4. UNCHANGED segs
      BY <3>3, SteadyFacts
    <3>5. LatestSegment' = LatestSegment
      BY <3>4 DEF LatestSegment, list_segments
    <3>6. marker
      <4>1. CASE WriteMarker
        BY <3>2, <4>1 DEF WriteMarker, Up
      <4>2. CASE ~WriteMarker
        <5> USE DEF bounds, storeVars, writerVars, metaVars, userVars, historyVars
        <5>1. CASE StartStep
          BY <1>1, <4>2, <5>1 DEF StartStep, RebuildRow, RebuildBarrier
        <5>2. CASE UserStep
          BY <1>1, <5>2 DEF UserStep, AppendRecord, RetentionSeal, ReplaySeal, RetentionDropped
        <5>3. CASE RetentionScan \/ RetentionBarrier \/ RetentionMutate
          BY <1>1, <5>3 DEF RetentionScan, RetentionBarrier, RetentionMutate
        <5>4. CASE \/ RecordFits \/ PublishRow \/ PublishDone \/ CommitBarrier \/ StopWriter
          BY <1>1, <5>4 DEF RecordFits, PublishRow, PublishDone, CommitBarrier, StopWriter
        <5>5. CASE \/ MetaSpool \/ Project \/ MetaStop \/ BeginShutdown \/ ReplayDone
                   \/ UNCHANGED vars
          BY <1>1, <5>5 DEF MetaSpool, Project, MetaStop, BeginShutdown, ReplayDone, vars
        <5> QED
          BY <3>3, <5>1, <5>2, <5>3, <5>4, <5>5 DEF Steady
      <4> QED
        BY <4>1, <4>2
    <3>7. Indexed(segs[s].recs[i], s)
      BY <1>1, <3>2, <3>4, <3>5, <3>6 DEF IndexInv
    <3> QED
      BY <1>1, <1>d, <3>4, <3>7
  <2> QED
    BY <2>1, <2>2
<1>2. ASSUME phase' \in {"marker", "running", "closing"}, NEW s \in DOMAIN segs', s # active',
             NEW i \in 1..Len(segs'[s].recs)
      PROVE  Indexed(segs[s].recs[i], s)'
  <2>1. Up' /\ ~Start /\ ~Ending
    <3>1. ~Start
      BY <1>2 DEF Start
    <3>2. ~Ending
      BY <1>2, EndingFacts DEF ProcessGone
    <3> QED
      BY <1>2, <3>1, <3>2 DEF Up
  <2>2. Up /\ phase # "flushing"
    BY <1>2, <2>1, PhaseMoves DEF Up
  <2>3. s \in DOMAIN segs /\ segs'[s].recs = segs[s].recs /\ (s # active \/ Rotate)
    BY <1>2, <2>1, <2>2, ClosedRecs
  <2>4. i \in 1..Len(segs[s].recs)
    BY <1>2, <2>3
  <2>5. CASE phase = "rebuild"
    <3>1. RebuildBarrier
      BY <1>2, <2>1, <2>5, PhaseMoves
    <3>2. todo = {} /\ spool' = spool \cup meta /\ ch' = ch
      BY <3>1 DEF RebuildBarrier, DurableBarrier
    <3>3. s # active
      BY <2>3, <2>5, ServicePhases
    <3>4. Indexed(segs[s].recs[i], s) \/ <<segs[s].recs[i], s>> \in meta \cup todo
      BY <2>3, <2>4, <2>5, <3>3 DEF IndexInv
    <3> QED
      BY <1>d, <1>e, <2>3, <2>4, <3>2, <3>4
  <2>6. CASE phase # "rebuild"
    <3>1. phase \in {"marker", "running", "closing"}
      BY <1>0, <2>2, <2>6 DEF PlainTypes, Up
    <3>2. Indexed(segs[s].recs[i], s)
      <4>1. CASE s # active
        BY <2>3, <2>4, <3>1, <4>1 DEF IndexInv
      <4>2. CASE s = active /\ Rotate
        <5>1. wpc = "rotate"
          BY <4>2 DEF Rotate
        <5> QED
          BY <2>4, <4>2, <5>1 DEF IndexInv
      <4> QED
        BY <2>3, <4>1, <4>2
    <3> QED
      BY <1>d, <2>3, <2>4, <3>2
  <2> QED
    BY <2>5, <2>6
<1>3. ASSUME phase' = "rebuild", NEW s \in DOMAIN segs', s # active',
             NEW i \in 1..Len(segs'[s].recs)
      PROVE  Indexed(segs[s].recs[i], s)' \/ <<segs'[s].recs[i], s>> \in meta' \cup todo'
  <2>0. Up' /\ ~Ending
    BY <1>3, EndingFacts DEF ProcessGone, Up
  <2>1. CASE Start
    <3>1. /\ ~Up /\ segs' = recover_last_segment_tail /\ marker
          /\ todo' = RecoveryRows(segs')
      BY <1>3, <2>1 DEF Start, Up
    <3>2. /\ s \in DOMAIN segs /\ segs'[s].recs = segs[s].recs
      BY <1>0, <3>1, RecoverFacts
    <3>3. CASE s = LatestSegment
      <4>1. segs'[s] \in Segment /\ segs'[s].vis <= FileBytes(segs'[s]) /\ AllVisible(segs'[s])
        BY <1>3, <1>b DEF SegTypes, VisibleInv
      <4>2. segs'[s].recs[i] \in ToSet(Visible(segs'[s]))
        BY <4>1, ClosedIsRead
      <4> QED
        BY <3>1, <3>3, <4>2 DEF RecoveryRows
    <3>4. CASE s # LatestSegment
      <4>1. i \in 1..Len(segs[s].recs)
        BY <3>2
      <4>2. Indexed(segs[s].recs[i], s)
        BY <3>1, <3>2, <3>4, <4>1 DEF IndexInv
      <4> QED
        BY <1>d, <3>2, <4>1, <4>2
    <3> QED
      BY <3>3, <3>4
  <2>2. CASE PublishDone /\ cmd = FlushCmd
    <3>1. segs' = segs /\ active' = active /\ todo' = UNION {RowsOf(t) : t \in DOMAIN segs}
      BY <2>2 DEF PublishDone, storeVars, list_segments
    <3>2. segs[s] \in Segment /\ segs[s].vis <= FileBytes(segs[s]) /\ AllVisible(segs[s])
      BY <1>0, <1>3, <3>1 DEF SegTypes, VisibleInv
    <3>3. segs[s].recs[i] \in ToSet(Visible(segs[s]))
      BY <3>1, <3>2, ClosedIsRead
    <3>4. <<segs[s].recs[i], s>> \in RowsOf(s)
      BY <3>3 DEF RowsOf
    <3> QED
      BY <3>1, <3>4
  <2>3. CASE ~Start /\ ~(PublishDone /\ cmd = FlushCmd)
    <3>1. phase = "rebuild" /\ Up
      BY <1>3, <2>0, <2>3, PhaseMoves DEF Up
    <3>2. s \in DOMAIN segs /\ segs'[s].recs = segs[s].recs /\ (s # active \/ Rotate)
      BY <1>3, <2>0, <3>1, ClosedRecs
    <3>3. s # active /\ i \in 1..Len(segs[s].recs)
      BY <3>1, <3>2, ServicePhases
    <3>4. Indexed(segs[s].recs[i], s) \/ <<segs[s].recs[i], s>> \in meta \cup todo
      BY <3>1, <3>2, <3>3 DEF IndexInv
    <3>5. metaUp'
      BY <1>3, <1>b DEF PhaseInv
    <3>6. ~PublishDone
      BY <1>0, <3>1 DEF PublishDone, PhaseInv
    <3>7. <<segs[s].recs[i], s>> \in meta \cup todo =>
            <<segs[s].recs[i], s>> \in meta' \cup todo' \cup spool' \cup ch'
      BY <2>0, <3>1, <3>5, <3>6, OnItsWay
    <3> QED
      BY <1>d, <1>e, <3>2, <3>3, <3>4, <3>7
  <2> QED
    BY <2>1, <2>2, <2>3
<1>4. ASSUME Up', metaUp', wpc' # "init", NEW i \in 1..Len(segs'[active'].recs)
      PROVE  \/ Indexed(segs[active].recs[i], active)'
             \/ <<segs'[active'].recs[i], active'>> \in meta'
             \/ \E j \in 1..Len(pending') : pending'[j] = <<segs'[active'].recs[i], active'>>
  <2>1. ~Start
    BY <1>4 DEF Start
  <2>2. Up
    <3>1. ~Ending
      BY <1>4, EndingFacts DEF ProcessGone, Up
    <3> QED
      BY <1>4, <2>1, <3>1, PhaseMoves DEF Up
  <2>3. /\ metaUp
        /\ \A row \in meta : row \in meta' \cup spool' \cup ch'
        /\ \A j \in 1..Len(pending) : \/ pending[j] \in meta'
                                      \/ \E k \in 1..Len(pending') : pending'[k] = pending[j]
    BY <1>4, <2>2, OnItsWay
  <2>4. ASSUME active' = active, wpc # "init", active \in DOMAIN segs,
               i \in 1..Len(segs[active].recs),
               segs'[active].recs[i] = segs[active].recs[i]
        PROVE  \/ Indexed(segs[active].recs[i], active)'
               \/ <<segs'[active'].recs[i], active'>> \in meta'
               \/ \E j \in 1..Len(pending') : pending'[j] = <<segs'[active'].recs[i], active'>>
    <3> DEFINE s == active
    <3>1. \/ Indexed(segs[s].recs[i], s)
          \/ <<segs[s].recs[i], s>> \in meta
          \/ \E j \in 1..Len(pending) : pending[j] = <<segs[s].recs[i], s>>
      BY <2>2, <2>3, <2>4 DEF IndexInv
    <3>2. CASE Indexed(segs[s].recs[i], s)
      <4>1. segs[s].recs[i] \in Records
        BY <1>c, <2>4
      <4>2. PICK r \in Records : r = segs[s].recs[i]
        BY <4>1
      <4>3. PICK t : t = s
        OBVIOUS
      <4>4. Indexed(r, t)
        BY <3>2, <4>2, <4>3
      <4>5. Indexed(r, t)'
        BY <4>4, IndexedKept
      <4> QED
        BY <2>4, <4>2, <4>3, <4>5 DEF Indexed
    <3>3. CASE <<segs[s].recs[i], s>> \in meta
      BY <2>3, <2>4, <3>3 DEF Indexed
    <3>4. CASE \E j \in 1..Len(pending) : pending[j] = <<segs[s].recs[i], s>>
      BY <2>3, <2>4, <3>4
    <3> QED
      BY <3>1, <3>2, <3>3, <3>4
  <2>5. CASE /\ active' = active /\ wpc # "init" /\ active \in DOMAIN segs
             /\ segs'[active].recs = segs[active].recs
    BY <2>4, <2>5
  <2>6. CASE WriteRecord /\ active' = active /\ wpc = "write" /\ active \in DOMAIN segs
    <3>1. PICK r \in Records : /\ segs'[active].recs = Append(segs[active].recs, r)
                               /\ pending' = Append(pending, <<r, active>>)
      BY <1>4, <2>2, <2>6, ActiveRecs DEF Opening, WriterInit, Rotate
    <3> DEFINE old == segs[active].recs
               new == segs'[active].recs
               row == <<r, active>>
    <3>2. old \in Seq(Records) /\ Len(old) \in Nat /\ new = Append(old, r)
      BY <1>0, <2>6, <3>1, StoreParts
    <3>3. pending \in Seq(Rows) /\ pending' = Append(pending, row)
      BY <1>0, <3>1 DEF PlainTypes
    <3>4. /\ Len(new) = Len(old) + 1 /\ new[Len(old) + 1] = r
          /\ \A j \in 1..Len(old) : new[j] = old[j]
      <4> HIDE DEF old, new
      <4> QED
        BY <3>2
    <3>5. Len(pending) + 1 \in 1..Len(pending') /\ pending'[Len(pending) + 1] = row
      <4> HIDE DEF row
      <4> QED
        BY <3>3
    <3>6. CASE i = Len(old) + 1
      BY <2>6, <3>4, <3>5, <3>6
    <3>7. CASE i # Len(old) + 1
      <4>1. i \in 1..Len(old) /\ new[i] = old[i]
        BY <1>4, <2>6, <3>2, <3>4, <3>7
      <4> QED
        BY <2>4, <2>6, <4>1
    <3> QED
      BY <3>6, <3>7
  <2>7. CASE Opening /\ segs'[active'].recs = <<>>
    BY <1>4, <2>7
  <2> QED
    BY <1>4, <2>2, <2>5, <2>6, <2>7, ActiveRecs
<1>5. ASSUME wpc' = "rotate", NEW i \in 1..Len(segs'[active'].recs)
      PROVE  Indexed(segs[active].recs[i], active)'
  <2>1. Up /\ Up' /\ ((wpc = "rotate" /\ ~WriteRecord /\ ~Opening) \/ CommitBarrier)
    BY <1>5, RotateMoves
  <2>2. ~WriteRecord /\ ~Opening
    BY <1>5, <2>1 DEF CommitBarrier, WriteRecord, Opening, WriterInit, Rotate
  <2>3. /\ active' = active /\ active \in DOMAIN segs /\ wpc # "init"
        /\ segs'[active].recs = segs[active].recs
    BY <1>5, <2>1, <2>2, ActiveRecs
  <2>4. i \in 1..Len(segs[active].recs) /\ segs[active].recs[i] \in Records
    BY <1>5, <1>c, <2>3
  <2> DEFINE s == active
  <2>5. PICK r \in Records : r = segs[s].recs[i]
    BY <2>4
  <2>6. PICK t : t = s
    OBVIOUS
  <2>7. Indexed(r, t)'
    <3>1. CASE wpc = "rotate"
      <4>1. Indexed(segs[active].recs[i], active)
        BY <2>4, <3>1 DEF IndexInv
      <4>2. Indexed(r, t)
        BY <2>5, <2>6, <4>1
      <4> QED
        BY <4>2, IndexedKept
    <3>2. CASE CommitBarrier
      <4>1. wpc = "commit" /\ metaUp /\ spool' = spool \cup meta /\ ch' = ch /\ cutoff' = cutoff
        BY <3>2 DEF CommitBarrier, DurableBarrier, historyVars
      <4>2. pending = <<>>
        BY <1>0, <4>1 DEF WriterInv, WriterRows
      <4>3. Len(pending) = 0
        BY <4>2
      <4>4. \/ Indexed(segs[s].recs[i], s) \/ <<segs[s].recs[i], s>> \in meta
        BY <2>1, <2>3, <2>4, <4>1, <4>3 DEF IndexInv
      <4> QED
        BY <2>5, <2>6, <4>1, <4>4 DEF Indexed
    <3> QED
      BY <2>1, <3>1, <3>2
  <2> QED
    BY <2>3, <2>5, <2>6, <2>7 DEF Indexed
<1> QED
  BY <1>1, <1>2, <1>3, <1>4, <1>5 DEF IndexInv

(* Once the store runs, every record of a closed segment has its durable   *)
(* index row, or retention has taken it: a rotation waits for the rows of  *)
(* the segment it closes, and a start indexes again the one segment whose  *)
(* rows may be missing.  A start that is itself interrupted leaves two.    *)
THEOREM IndexedCorrect ==
    ASSUME "startup" \notin Faults
    PROVE  Spec => []ClosedSegmentsIndexed
<1>1. Init => Control /\ IndexInv
  <2>1. Init => DOMAIN segs = {} /\ ~Up /\ wpc = "stopped" /\ phase = "down"
    BY DEF Init, Up
  <2> QED
    BY <2>1, ControlInit DEF IndexInv
<1>2. Control /\ IndexInv /\ [Next]_vars => (Control /\ IndexInv)'
  BY ControlStep, IndexInvStep
<1>3. Control /\ IndexInv => ClosedSegmentsIndexed
  <2> SUFFICES ASSUME Control, IndexInv, phase \in {"running", "closing"},
                      NEW s \in DOMAIN segs, s # active, NEW r \in ToSet(Visible(segs[s]))
               PROVE  <<r, s>> \in Durable \/ r < cutoff
    BY DEF ClosedSegmentsIndexed, list_segments
  <2>1. segs[s] \in Segment /\ segs[s].vis <= FileBytes(segs[s])
    BY StoreParts DEF Control
  <2>2. PICK i \in 1..Len(segs[s].recs) : segs[s].recs[i] = r
    BY <2>1, VisibleRecords
  <2>3. Indexed(segs[s].recs[i], s)
    BY <2>2 DEF IndexInv
  <2> QED
    BY <2>2, <2>3 DEF Indexed, Durable
<1> QED
  BY <1>1, <1>2, <1>3, PTL DEF Spec
-----------------------------------------------------------------------------
(* Replay.                                                                 *)

(* What a file holds: a file other than the active one gains nothing, the  *)
(* active one the record the writer was about to write, and only retention *)
(* and a crash take anything away.                                         *)
LEMMA RecsMoves ==
    ASSUME Control, [Next]_vars
    PROVE  /\ \A s \in DOMAIN segs' : \A i \in 1..Len(segs'[s].recs) :
                \/ /\ s \in DOMAIN segs /\ i \in 1..Len(segs[s].recs)
                   /\ segs'[s].recs[i] = segs[s].recs[i]
                \/ /\ s = active /\ s \in DOMAIN segs /\ wpc = "write" /\ cmd' = NoCmd
                   /\ cmd = RecordCmd(segs'[s].recs[i])
           /\ \/ RetentionDelete \/ Ending
              \/ \A s \in DOMAIN segs : \A i \in 1..Len(segs[s].recs) :
                    /\ s \in DOMAIN segs' /\ i \in 1..Len(segs'[s].recs)
                    /\ segs'[s].recs[i] = segs[s].recs[i]
           /\ RetentionDelete \/ Ending \/ Start \/ DOMAIN segs \subseteq DOMAIN segs'
<1>0. Types /\ UserInv /\ VisibleInv /\ PhaseInv
  BY DEF Control
<1>1. CASE Steady
  BY <1>1, SteadyFacts
<1>2. CASE Flushing
  <2>1. active \in DOMAIN segs /\ flush_visible
    BY <1>2, FlushingFacts
  <2>2. /\ DOMAIN segs' = DOMAIN segs
        /\ \A s \in DOMAIN segs : segs'[s].recs = segs[s].recs
    BY <1>0, <2>1, FlushFacts
  <2> QED
    BY <2>2
<1>3. CASE Syncing
  <2>1. active \in DOMAIN segs /\ flush_sync
    BY <1>3, SyncingFacts
  <2>2. /\ DOMAIN segs' = DOMAIN segs
        /\ \A s \in DOMAIN segs : segs'[s].recs = segs[s].recs
    BY <1>0, <2>1, SyncFacts
  <2> QED
    BY <2>2
<1>4. CASE WriteRecord
  <2>1. PICK r \in Records : cmd = RecordCmd(r) /\ cmd.rec = r /\ active \in DOMAIN segs
                             /\ wpc = "write"
    BY <1>4, WritingFacts
  <2>2. /\ DOMAIN segs' = DOMAIN segs
        /\ \A s \in DOMAIN segs : s # active => segs'[s] = segs[s]
        /\ segs'[active].recs = Append(segs[active].recs, r)
    BY <1>0, <1>4, <2>1, WriteFacts
  <2>3. segs[active].recs \in Seq(Records)
    BY <1>0, <2>1, StoreParts
  <2>4. /\ \A i \in 1..Len(segs[active].recs) : /\ i \in 1..Len(segs'[active].recs)
                                                /\ segs'[active].recs[i] = segs[active].recs[i]
        /\ \A i \in 1..Len(segs'[active].recs) : \/ i \in 1..Len(segs[active].recs)
                                                 \/ segs'[active].recs[i] = r
    BY <2>2, <2>3
  <2>5. cmd' = NoCmd
    BY <1>4 DEF WriteRecord
  <2> QED
    BY <2>1, <2>2, <2>4, <2>5
<1>5. CASE Opening
  <2>1. /\ DOMAIN segs' = DOMAIN segs \cup {nextSeg}
        /\ \A t \in DOMAIN segs : segs'[t] = segs[t]
        /\ segs'[nextSeg].recs = <<>>
    BY <1>0, <1>5, OpeningFacts, OpenFacts
  <2>2. \A i \in 1..Len(segs'[nextSeg].recs) : FALSE
    BY <2>1
  <2> QED
    BY <2>1, <2>2
<1>6. CASE RetentionDelete
  BY <1>0, <1>6, DeleteFacts
<1>7. CASE Ending
  BY <1>7, EndingFacts DEF Left
<1>8. CASE Start
  <2>1. ~Up /\ segs' = recover_last_segment_tail
    BY <1>8 DEF Start, Up
  <2>2. /\ DOMAIN segs' \subseteq DOMAIN segs
        /\ \A s \in DOMAIN segs : s \notin DOMAIN segs' => segs[s].recs = <<>>
        /\ \A s \in DOMAIN segs' : segs'[s].recs = segs[s].recs
    BY <1>0, <2>1, RecoverFacts
  <2>3. \A s \in DOMAIN segs : s \notin DOMAIN segs' => \A i \in 1..Len(segs[s].recs) : FALSE
    BY <2>2
  <2> QED
    BY <1>8, <2>2, <2>3
<1> QED
  BY <1>1, <1>2, <1>3, <1>4, <1>5, <1>6, <1>7, <1>8, StepKinds

(* What becomes of a replay in a step.                                     *)
LEMMA ReplayMoves ==
    ASSUME Control, [Next]_vars
    PROVE  \/ replay' = replay
           \/ \E r \in Records : AppendRecord(r)
           \/ ReplaySeal
           \/ replay'.pc \in {"idle", "failed"}
           \/ /\ Rotate /\ cmd = SealCmd("replay")
              /\ replay'.pc = "scanning" /\ replay'.snap = DOMAIN segs
              /\ replay'.before = replay.before /\ replay'.after = replay.after
<1>0. Types /\ PlainTypes
  BY TypesApart DEF Control
<1> USE DEF bounds, storeVars, writerVars, metaVars, userVars, historyVars
<1>1. CASE Flushing \/ RecordOverBudget \/ TickStop \/ RecordRotates \/ TakeSeal
  BY <1>1, FlushingFacts DEF RecordOverBudget, TickStop, RecordRotates, TakeSeal, BeginCommit
<1>2. CASE MetadataGone \/ RotateOverBudget \/ StopWriter
  <2>1. \E cs : ReplyErr(cs)
    BY <1>2 DEF MetadataGone, RotateOverBudget, StopWriter
  <2>2. replay \in ReplayState
    BY <1>0 DEF PlainTypes
  <2> QED
    BY <2>1, <2>2 DEF ReplyErr, ReplayState
<1>3. CASE WriteRecord \/ WriterInit \/ RetentionDelete
  BY <1>3 DEF WriteRecord, WriterInit, RetentionDelete
<1>4. CASE Rotate
  <2>1. CASE cmd = SealCmd("replay")
    <3>1. DOMAIN segs' = DOMAIN segs \cup {nextSeg} /\ nextSeg \notin DOMAIN segs
          /\ active' = nextSeg
      BY <1>0, <1>4, OpenFacts DEF Rotate
    <3>2. SealReply = DOMAIN segs
      BY <3>1 DEF SealReply
    <3>3. replay \in ReplayState
      BY <1>0 DEF PlainTypes
    <3>4. replay' = [replay EXCEPT !.pc = "scanning", !.snap = DOMAIN segs]
      BY <1>4, <2>1, <3>2 DEF Rotate
    <3> QED
      BY <1>4, <2>1, <3>3, <3>4 DEF ReplayState
  <2> QED
    BY <1>4, <2>1 DEF Rotate
<1>5. CASE Ending
  BY <1>5, EndingFacts DEF ProcessGone, Idle
<1>6. CASE Start
  BY <1>6 DEF Start
<1>7. CASE \/ RecordFits \/ PublishRow \/ PublishDone \/ CommitBarrier \/ MetaSpool \/ Project
           \/ MetaStop \/ BeginShutdown \/ UNCHANGED vars
  BY <1>7 DEF RecordFits, PublishRow, PublishDone, CommitBarrier, MetaSpool, Project, MetaStop,
              BeginShutdown, vars
<1>8. CASE StartStep \/ RetentionScan \/ RetentionBarrier \/ RetentionMutate
  BY <1>8 DEF StartStep, RebuildRow, RebuildBarrier, WriteMarker, RetentionScan,
              RetentionBarrier, RetentionMutate
<1>9. CASE ReplayDone
  BY <1>9 DEF ReplayDone, Idle
<1>10. CASE UserStep
  BY <1>10 DEF UserStep, RetentionSeal, RetentionDropped
<1> QED
  BY <1>1, <1>2, <1>3, <1>4, <1>5, <1>6, <1>7, <1>8, <1>9, <1>10, StepKinds
     DEF Steady, Syncing, Opening

(* The record an append adds to the history of a running replay.           *)
LEMMA AppendReplay ==
    ASSUME Control, NEW r \in Records, AppendRecord(r)
    PROVE  /\ replay'.pc = replay.pc /\ replay'.snap = replay.snap
           /\ replay'.before = replay.before
           /\ replay'.after = IF replay.pc = "idle" THEN {} ELSE replay.after \cup {r}
           /\ phase = "running" /\ r \notin accepted /\ accepted' = accepted \cup {r}
           /\ Enqueue(RecordCmd(r)) /\ UNCHANGED <<segs, cmd, wpc, then, active>>
<1>1. replay \in ReplayState
  BY DEF Control, Types
<1> QED
  BY <1>1 DEF AppendRecord, ReplayState, writerVars

(* No file is deleted while a replay runs, if every cleanup request keeps  *)
(* the maintenance lock up to its last deletion.                           *)
LEMMA NoDeleteInReplay ==
    ASSUME ~Disconnects, Control, RetentionDelete
    PROVE  replay.pc = "idle" /\ UNCHANGED replay
BY DEF Control, UserInv, GuardInv, RetentionDelete

(* The files of a replay's snapshot stay (ARCHITECTURE.md:199), for every  *)
(* cleanup that is not dropped by its client: a dropped handler releases   *)
(* the lock while its blocking task goes on deleting.                      *)
THEOREM PresentCorrect ==
    ASSUME ~Disconnects
    PROVE  Spec => []ReplaySegmentsPresent
<1>1. Init => Control /\ ReplaySegmentsPresent
  BY ControlInit DEF Init, Idle, ReplaySegmentsPresent
<1>2. Control /\ ReplaySegmentsPresent /\ [Next]_vars => (Control /\ ReplaySegmentsPresent)'
  <2> SUFFICES ASSUME Control, ReplaySegmentsPresent, [Next]_vars, replay'.pc = "scanning"
               PROVE  replay'.snap \subseteq DOMAIN segs'
    BY ControlStep DEF ReplaySegmentsPresent, list_segments
  <2>1. ~RetentionDelete \/ replay'.pc # "scanning"
    BY NoDeleteInReplay
  <2>2. ~Ending
    <3>1. Ending => replay'.pc = "idle"
      BY EndingFacts DEF ProcessGone, Idle
    <3> QED
      BY <3>1
  <2>3. ~Start
    BY DEF Start, Control, PhaseInv, Idle, userVars
  <2>4. DOMAIN segs \subseteq DOMAIN segs'
    BY <2>1, <2>2, <2>3, RecsMoves
  <2>5. replay.pc = "scanning" => replay.snap \subseteq DOMAIN segs
    BY DEF ReplaySegmentsPresent, list_segments
  <2>6. CASE \E r \in Records : AppendRecord(r)
    BY <2>4, <2>5, <2>6, AppendReplay
  <2>7. ~ReplaySeal
    BY DEF ReplaySeal
  <2> QED
    BY <2>4, <2>5, <2>6, <2>7, ReplayMoves
<1> QED
  BY <1>1, <1>2, PTL DEF Spec

(* The steps, by what they do to the queue and to the command in hand.     *)
LEMMA QueueKinds ==
    ASSUME Control, [Next]_vars
    PROVE  \/ UNCHANGED <<rx, cmd>>
           \/ \E c \in Commands : /\ Enqueue(c) /\ UNCHANGED cmd
                                  /\ \A r \in Records : c = RecordCmd(r) => AppendRecord(r)
                                  /\ c = SealCmd("replay") => ReplaySeal
           \/ \E kind : Receive(kind) /\ cmd = NoCmd /\ cmd' = Head(rx)
           \/ /\ Up' /\ Stopping' /\ cmd' = NoCmd
              /\ (\E kind : Receive(kind)) \/ rx' = rx \/ rx' = <<>>
           \/ UNCHANGED rx /\ cmd' = NoCmd /\ (WriteRecord \/ cmd \notin RecordCmds)
           \/ RetentionDropped \/ Ending \/ Start
<1>0. PlainTypes /\ WriterCmd
  BY TypesApart DEF Control, WriterInv
<1> USE DEF bounds, storeVars, writerVars, metaVars, userVars, historyVars
<1>1. CASE RecordRotates \/ TakeSeal \/ RecordFits \/ TakeFlush
  <2>1. \E kind : Receive(kind) /\ cmd' = Head(rx)
    BY <1>1 DEF RecordRotates, TakeSeal, RecordFits, TakeFlush, BeginCommit
  <2>2. cmd = NoCmd
    BY <1>0, <2>1 DEF WriterCmd, Receive
  <2> QED
    BY <2>1, <2>2
<1>2. CASE RecordOverBudget \/ TickStop \/ MetadataGone \/ RotateOverBudget
  <2>1. Up' /\ Stopping' /\ cmd' = NoCmd
    BY <1>2 DEF RecordOverBudget, TickStop, MetadataGone, RotateOverBudget, LeaveLoop, Receive,
                Up, Stopping
  <2>2. (\E kind : Receive(kind)) \/ rx' = rx
    BY <1>2 DEF RecordOverBudget, TickStop, MetadataGone, RotateOverBudget
  <2> QED
    BY <2>1, <2>2
<1>3. CASE StopWriter
  <2>1. cmd = NoCmd
    BY <1>0, <1>3 DEF StopWriter, WriterCmd, Stopping
  <2> QED
    BY <1>3, <2>1 DEF StopWriter, Up, Stopping
<1>4. CASE WriteRecord
  BY <1>4 DEF WriteRecord
<1>5. CASE Rotate
  <2>1. cmd \in Commands
    BY <1>0 DEF PlainTypes
  <2>2. cmd.kind # "record" => cmd \notin RecordCmds
    BY <2>1, CommandKinds
  <2> QED
    BY <1>5, <2>2 DEF Rotate
<1>6. CASE PublishDone
  <2>1. CASE then = "recv"
    <3>1. cmd \in {NoCmd, FlushCmd}
      BY <1>0, <1>6, <2>1 DEF WriterCmd, PublishDone
    <3>2. cmd \notin RecordCmds
      BY <3>1, CommandsDiffer DEF RecordCmds
    <3> QED
      BY <1>6, <2>1, <3>2 DEF PublishDone
  <2> QED
    BY <1>6, <2>1 DEF PublishDone
<1>7. CASE \/ WriterInit \/ Tick \/ PublishRow \/ CommitBarrier \/ StartStep \/ MetaSpool
           \/ Project \/ MetaStop \/ BeginShutdown \/ ReplayDone \/ UNCHANGED vars
  BY <1>7 DEF WriterInit, Tick, PublishRow, CommitBarrier, StartStep, RebuildRow,
              RebuildBarrier, WriteMarker, MetaSpool, Project, MetaStop, BeginShutdown,
              ReplayDone, vars
<1>8. CASE RetentionScan \/ RetentionBarrier \/ RetentionMutate \/ RetentionDelete
  BY <1>8 DEF RetentionScan, RetentionBarrier, RetentionMutate, RetentionDelete
<1>9. CASE UserStep
  <2>1. ASSUME NEW q \in Records, AppendRecord(q)
        PROVE  \E c \in Commands : /\ Enqueue(c) /\ UNCHANGED cmd
                                   /\ \A r \in Records : c = RecordCmd(r) => AppendRecord(r)
                                   /\ c = SealCmd("replay") => ReplaySeal
    <3>1. Enqueue(RecordCmd(q)) /\ UNCHANGED cmd
      BY <2>1 DEF AppendRecord
    <3>2. \A r \in Records : RecordCmd(q) = RecordCmd(r) => r = q
      BY CommandsDiffer
    <3> QED
      BY <2>1, <3>1, <3>2, CommandKinds, CommandsDiffer
  <2>2. ASSUME NEW k \in Cutoffs, RetentionSeal(k)
        PROVE  \E c \in Commands : /\ Enqueue(c) /\ UNCHANGED cmd
                                   /\ \A r \in Records : c = RecordCmd(r) => AppendRecord(r)
                                   /\ c = SealCmd("replay") => ReplaySeal
    <3>1. Enqueue(SealCmd("retention")) /\ UNCHANGED cmd
      BY <2>2 DEF RetentionSeal
    <3> QED
      BY <3>1, CommandKinds, CommandsDiffer
  <2>3. ASSUME ReplaySeal
        PROVE  \E c \in Commands : /\ Enqueue(c) /\ UNCHANGED cmd
                                   /\ \A r \in Records : c = RecordCmd(r) => AppendRecord(r)
                                   /\ c = SealCmd("replay") => ReplaySeal
    <3>1. Enqueue(SealCmd("replay")) /\ UNCHANGED cmd
      BY <2>3 DEF ReplaySeal
    <3> QED
      BY <2>3, <3>1, CommandKinds, CommandsDiffer
  <2> QED
    BY <1>9, <2>1, <2>2, <2>3 DEF UserStep
<1> QED
  BY <1>1, <1>2, <1>3, <1>4, <1>5, <1>6, <1>7, <1>8, <1>9, StepKinds
     DEF Steady, Flushing, Syncing, Opening

(* A command and the queue it is taken from.                               *)
LEMMA ReceiveQueue ==
    ASSUME PlainTypes, NEW kind, Receive(kind), NEW c
    PROVE  /\ (\E i \in 1..Len(rx') : rx'[i] = c) => \E i \in 1..Len(rx) : rx[i] = c
           /\ (\E i \in 1..Len(rx) : rx[i] = c) =>
                 Head(rx) = c \/ \E i \in 1..Len(rx') : rx'[i] = c
           /\ Head(rx) = c => \E i \in 1..Len(rx) : rx[i] = c
           /\ (\A i, j \in 1..Len(rx) : rx[i] = c /\ rx[j] = c => i = j) =>
                 /\ \A i, j \in 1..Len(rx') : rx'[i] = c /\ rx'[j] = c => i = j
                 /\ Head(rx) = c => \A i \in 1..Len(rx') : rx'[i] # c
<1>1. /\ Len(rx) \in Nat /\ Len(rx') = Len(rx) - 1 /\ 1 \in 1..Len(rx)
      /\ \A i \in 1..Len(rx') : i + 1 \in 1..Len(rx) /\ rx'[i] = rx[i + 1]
      /\ Head(rx) = rx[1]
  BY ReceiveFacts
<1>2. ASSUME NEW i \in 1..Len(rx), rx[i] = c, i # 1
      PROVE  \E k \in 1..Len(rx') : rx'[k] = c
  <2>1. i - 1 \in 1..Len(rx') /\ i - 1 + 1 = i
    BY <1>1, <1>2
  <2>2. rx'[i - 1] = c
    BY <1>1, <1>2, <2>1
  <2> QED
    BY <2>1, <2>2
<1>3. (\E i \in 1..Len(rx') : rx'[i] = c) => \E i \in 1..Len(rx) : rx[i] = c
  BY <1>1
<1>4. (\E i \in 1..Len(rx) : rx[i] = c) => Head(rx) = c \/ \E i \in 1..Len(rx') : rx'[i] = c
  BY <1>1, <1>2
<1>5. ASSUME \A i, j \in 1..Len(rx) : rx[i] = c /\ rx[j] = c => i = j
      PROVE  /\ \A i, j \in 1..Len(rx') : rx'[i] = c /\ rx'[j] = c => i = j
             /\ Head(rx) = c => \A i \in 1..Len(rx') : rx'[i] # c
  BY <1>1, <1>5
<1>6. Head(rx) = c => \E i \in 1..Len(rx) : rx[i] = c
  BY <1>1
<1> QED
  BY <1>3, <1>4, <1>5, <1>6

(* A command and the queue it is put into.                                 *)
LEMMA EnqueueQueue ==
    ASSUME PlainTypes, NEW d \in Commands, Enqueue(d), NEW c
    PROVE  /\ (\E i \in 1..Len(rx') : rx'[i] = c) => c = d \/ \E i \in 1..Len(rx) : rx[i] = c
           /\ (\E i \in 1..Len(rx) : rx[i] = c) => \E i \in 1..Len(rx') : rx'[i] = c
           /\ c = d => \E i \in 1..Len(rx') : rx'[i] = c
           /\ (/\ \A i, j \in 1..Len(rx) : rx[i] = c /\ rx[j] = c => i = j
               /\ c # d \/ \A i \in 1..Len(rx) : rx[i] # c)
              => \A i, j \in 1..Len(rx') : rx'[i] = c /\ rx'[j] = c => i = j
<1>1. /\ Len(rx) \in Nat /\ Len(rx') = Len(rx) + 1 /\ rx'[Len(rx) + 1] = d
      /\ \A i \in 1..Len(rx) : rx'[i] = rx[i]
  BY EnqueueFacts
<1>2. /\ \A i \in 1..Len(rx') : i \in 1..Len(rx) \/ i = Len(rx) + 1
      /\ Len(rx) + 1 \in 1..Len(rx') /\ \A i \in 1..Len(rx) : i \in 1..Len(rx')
  BY <1>1
<1> QED
  BY <1>1, <1>2

(* A dropped cleanup request leaves every other command where it is.       *)
LEMMA DroppedQueue ==
    ASSUME PlainTypes, RetentionDropped
    PROVE  /\ Len(rx') = Len(rx) /\ Len(rx) \in Nat
           /\ \A c \in RecordCmds \cup {SealCmd("replay")} :
                 /\ \A i \in 1..Len(rx) : rx'[i] = c <=> rx[i] = c
                 /\ cmd' = c <=> cmd = c
<1>1. DOMAIN rx = 1..Len(rx) /\ Len(rx) \in Nat
  BY DEF PlainTypes
<1>2. /\ Len(rx') = Len(rx)
      /\ \A i \in 1..Len(rx) : rx'[i] = IF rx[i] = SealCmd("retention")
                                        THEN SealCmd("nobody") ELSE rx[i]
      /\ cmd' = IF cmd = SealCmd("retention") THEN SealCmd("nobody") ELSE cmd
  BY <1>1 DEF RetentionDropped
<1>3. \A c \in RecordCmds \cup {SealCmd("replay")} :
         c # SealCmd("retention") /\ c # SealCmd("nobody")
  BY CommandsDiffer DEF RecordCmds
<1> QED
  BY <1>1, <1>2, <1>3

(* A writer that has left its loop does not come back.                     *)
LEMMA StopStays ==
    ASSUME Control, [Next]_vars, Up, Stopping
    PROVE  (Up' /\ Stopping') \/ Ending
<1> USE DEF bounds, storeVars, writerVars, metaVars, userVars, historyVars
<1> USE DEF Up, Stopping
<1>1. ~Start /\ ~WriteRecord /\ ~Opening /\ ~Flushing
  BY DEF Start, WriteRecord, Opening, WriterInit, Rotate, Flushing, TakeFlush, Tick, Receive
<1>2. CASE Syncing
  BY <1>2 DEF Syncing, RecordOverBudget, TickStop, MetadataGone, RotateOverBudget, LeaveLoop,
              RecordRotates, TakeSeal, Receive
<1>3. CASE RecordFits \/ PublishRow \/ PublishDone \/ CommitBarrier \/ StopWriter
  BY <1>3 DEF RecordFits, PublishRow, PublishDone, CommitBarrier, StopWriter, Receive
<1>4. CASE StartStep
  BY <1>4 DEF StartStep, RebuildRow, RebuildBarrier, WriteMarker
<1>5. CASE RetentionScan \/ RetentionBarrier \/ RetentionMutate \/ RetentionDelete
  BY <1>5 DEF RetentionScan, RetentionBarrier, RetentionMutate, RetentionDelete
<1>6. CASE UserStep
  BY <1>6 DEF UserStep, AppendRecord, RetentionSeal, ReplaySeal, RetentionDropped
<1>7. CASE ReplayDone \/ MetaSpool \/ Project \/ MetaStop \/ BeginShutdown \/ UNCHANGED vars
  BY <1>7 DEF ReplayDone, MetaSpool, Project, MetaStop, BeginShutdown, vars
<1> QED
  BY <1>1, <1>2, <1>3, <1>4, <1>5, <1>6, <1>7, StepKinds DEF Steady

(* Who changes the set of accepted records.                                *)
LEMMA AcceptedMoves ==
    ASSUME Control, [Next]_vars
    PROVE  \/ accepted' = accepted
           \/ \E r \in Records : AppendRecord(r)
           \/ RetentionDelete \/ Ending
<1> USE DEF bounds, storeVars, writerVars, metaVars, userVars, historyVars
<1>1. CASE Flushing \/ Syncing \/ Opening
  BY <1>1, FlushingFacts, SyncingFacts, OpeningFacts
<1>2. CASE WriteRecord \/ Start
  BY <1>2 DEF WriteRecord, Start
<1>3. CASE RecordFits \/ PublishRow \/ PublishDone \/ CommitBarrier \/ StopWriter
  BY <1>3 DEF RecordFits, PublishRow, PublishDone, CommitBarrier, StopWriter
<1>4. CASE StartStep
  BY <1>4 DEF StartStep, RebuildRow, RebuildBarrier, WriteMarker
<1>5. CASE RetentionScan \/ RetentionBarrier \/ RetentionMutate
  BY <1>5 DEF RetentionScan, RetentionBarrier, RetentionMutate
<1>6. CASE UserStep
  BY <1>6 DEF UserStep, RetentionSeal, ReplaySeal, RetentionDropped
<1>7. CASE ReplayDone \/ MetaSpool \/ Project \/ MetaStop \/ BeginShutdown \/ UNCHANGED vars
  BY <1>7 DEF ReplayDone, MetaSpool, Project, MetaStop, BeginShutdown, vars
<1> QED
  BY <1>1, <1>2, <1>3, <1>4, <1>5, <1>6, <1>7, StepKinds DEF Steady

(* How a record travels through the queue to the writer's hand.            *)
LEMMA QueueMoves ==
    ASSUME Control, PlaceInv, [Next]_vars, NEW r \in Records
    PROVE  /\ Queued(r)' => (Queued(r) \/ AppendRecord(r)) /\ cmd' # RecordCmd(r)
           /\ cmd' = RecordCmd(r) => cmd = RecordCmd(r) \/ Queued(r)
           /\ Queued(r) => Queued(r)' \/ cmd' = RecordCmd(r) \/ (Up' /\ Stopping') \/ Ending
           /\ cmd = RecordCmd(r) =>
                 cmd' = RecordCmd(r) \/ WriteRecord \/ (Up' /\ Stopping') \/ Ending
           /\ \A i, j \in 1..Len(rx') : rx'[i] = RecordCmd(r) /\ rx'[j] = RecordCmd(r) => i = j
           /\ Ending => ~Queued(r)' /\ cmd' = NoCmd
           /\ AppendRecord(r) => Queued(r)'
<1>0. PlainTypes /\ PhaseInv /\ RecordCmd(r) \in RecordCmds /\ RecordCmd(r) # NoCmd
      /\ RecordCmd(r) # FlushCmd /\ RecordCmd(r) \in Commands
  BY TypesApart, CommandsDiffer, CommandKinds DEF Control, RecordCmds
<1>1. /\ Queued(r) => r \in accepted /\ cmd # RecordCmd(r)
      /\ cmd = RecordCmd(r) => r \in accepted
      /\ \A i, j \in 1..Len(rx) : rx[i] = RecordCmd(r) /\ rx[j] = RecordCmd(r) => i = j
  BY DEF PlaceInv
<1>2. AppendRecord(r) => r \notin accepted /\ Enqueue(RecordCmd(r))
  BY DEF AppendRecord
<1>3. Ending => rx' = <<>> /\ cmd' = NoCmd
  BY EndingFacts DEF ProcessGone
<1>4. AppendRecord(r) => Queued(r)'
  BY <1>0, <1>2, EnqueueQueue DEF Queued
<1>5. Ending => ~Queued(r)' /\ cmd' = NoCmd
  BY <1>3 DEF Queued
<1>6. CASE UNCHANGED <<rx, cmd>>
  BY <1>1, <1>4, <1>5, <1>6 DEF Queued
<1>7. ASSUME NEW c \in Commands, Enqueue(c), UNCHANGED cmd, c = RecordCmd(r) => AppendRecord(r)
      PROVE  /\ Queued(r)' => (Queued(r) \/ AppendRecord(r)) /\ cmd' # RecordCmd(r)
             /\ Queued(r) => Queued(r)'
             /\ \A i, j \in 1..Len(rx') : rx'[i] = RecordCmd(r) /\ rx'[j] = RecordCmd(r) => i = j
  <2>1. /\ Queued(r)' => Queued(r) \/ c = RecordCmd(r)
        /\ Queued(r) => Queued(r)'
    BY <1>0, <1>7, EnqueueQueue DEF Queued
  <2>2. c = RecordCmd(r) => ~Queued(r) /\ cmd # RecordCmd(r)
    BY <1>1, <1>2, <1>7
  <2>3. c # RecordCmd(r) \/ \A i \in 1..Len(rx) : rx[i] # RecordCmd(r)
    BY <2>2 DEF Queued
  <2>4. \A i, j \in 1..Len(rx') : rx'[i] = RecordCmd(r) /\ rx'[j] = RecordCmd(r) => i = j
    BY <1>0, <1>1, <1>7, <2>3, EnqueueQueue
  <2> QED
    BY <1>1, <1>7, <2>1, <2>2, <2>4
<1>8. ASSUME NEW kind, Receive(kind), cmd' \in {Head(rx), NoCmd}
      PROVE  /\ Queued(r)' => Queued(r) /\ cmd' # RecordCmd(r)
             /\ cmd' = RecordCmd(r) => Queued(r)
             /\ Queued(r) => Queued(r)' \/ Head(rx) = RecordCmd(r)
             /\ \A i, j \in 1..Len(rx') : rx'[i] = RecordCmd(r) /\ rx'[j] = RecordCmd(r) => i = j
  BY <1>0, <1>1, <1>8, ReceiveQueue DEF Queued
<1>9. CASE \E kind : Receive(kind) /\ cmd = NoCmd /\ cmd' = Head(rx)
  BY <1>0, <1>4, <1>5, <1>8, <1>9
<1>10. CASE /\ Up' /\ Stopping' /\ cmd' = NoCmd
            /\ (\E kind : Receive(kind)) \/ rx' = rx \/ rx' = <<>>
  <2>1. rx' = <<>> => ~Queued(r)' /\ \A i, j \in 1..Len(rx') : i = j
    BY DEF Queued
  <2>2. rx' = rx => /\ Queued(r)' => Queued(r)
                    /\ \A i, j \in 1..Len(rx') : rx'[i] = RecordCmd(r) /\ rx'[j] = RecordCmd(r)
                                                 => i = j
    BY <1>1 DEF Queued
  <2> QED
    BY <1>0, <1>4, <1>5, <1>8, <1>10, <2>1, <2>2
<1>11. CASE UNCHANGED rx /\ cmd' = NoCmd /\ (WriteRecord \/ cmd \notin RecordCmds)
  BY <1>0, <1>1, <1>4, <1>5, <1>11 DEF Queued
<1>12. CASE RetentionDropped
  BY <1>0, <1>1, <1>4, <1>5, <1>12, DroppedQueue DEF Queued
<1>13. CASE Ending
  <2>1. \A i, j \in 1..Len(rx') : i = j
    BY <1>3, <1>13
  <2> QED
    BY <1>0, <1>4, <1>5, <1>13, <2>1
<1>14. CASE Start
  <2>1. (rx' = <<>> \/ rx' = <<FlushCmd>>) /\ rx = <<>> /\ UNCHANGED cmd /\ cmd = NoCmd
    BY <1>0, <1>14 DEF Start, PhaseInv, Up
  <2>2. \A i \in 1..Len(rx') : rx'[i] = FlushCmd
    BY <2>1
  <2>3. ~Queued(r)' /\ ~Queued(r)
    BY <1>0, <2>1, <2>2 DEF Queued
  <2> QED
    BY <1>0, <1>4, <1>5, <2>1, <2>2, <2>3
<1> QED
  BY <1>4, <1>5, <1>6, <1>7, <1>9, <1>10, <1>11, <1>12, <1>13, <1>14, QueueKinds

(* How a record comes to a file and stays there.                           *)
LEMMA StoredMoves ==
    ASSUME Control, [Next]_vars, NEW r \in Records
    PROVE  /\ \A s \in DOMAIN segs' : In(r, s)' =>
                \/ s \in DOMAIN segs /\ In(r, s)
                \/ s = active /\ s \in DOMAIN segs /\ cmd = RecordCmd(r) /\ cmd' = NoCmd
           /\ \/ RetentionDelete \/ Ending
              \/ \A s \in DOMAIN segs : In(r, s) => s \in DOMAIN segs' /\ In(r, s)'
           /\ WriteRecord /\ cmd = RecordCmd(r) => Stored(r)'
<1>1. ASSUME NEW s \in DOMAIN segs', In(r, s)'
      PROVE  \/ s \in DOMAIN segs /\ In(r, s)
             \/ s = active /\ s \in DOMAIN segs /\ cmd = RecordCmd(r) /\ cmd' = NoCmd
  <2>1. PICK i \in 1..Len(segs'[s].recs) : segs'[s].recs[i] = r
    BY <1>1 DEF In
  <2>2. \/ s \in DOMAIN segs /\ i \in 1..Len(segs[s].recs) /\ segs[s].recs[i] = r
        \/ s = active /\ s \in DOMAIN segs /\ cmd = RecordCmd(r) /\ cmd' = NoCmd
    BY <2>1, RecsMoves
  <2> QED
    BY <2>2 DEF In
<1>2. ASSUME ~RetentionDelete, ~Ending, NEW s \in DOMAIN segs, In(r, s)
      PROVE  s \in DOMAIN segs' /\ In(r, s)'
  <2>1. PICK i \in 1..Len(segs[s].recs) : segs[s].recs[i] = r
    BY <1>2 DEF In
  <2>2. s \in DOMAIN segs' /\ i \in 1..Len(segs'[s].recs) /\ segs'[s].recs[i] = r
    BY <1>2, <2>1, RecsMoves
  <2> QED
    BY <2>2 DEF In
<1>3. ASSUME WriteRecord, cmd = RecordCmd(r) PROVE Stored(r)'
  <2>1. active \in DOMAIN segs /\ Types /\ cmd.rec = r
    BY <1>3, WritingFacts, CommandKinds DEF Control
  <2>2. DOMAIN segs' = DOMAIN segs /\ segs'[active].recs = Append(segs[active].recs, r)
    BY <1>3, <2>1, WriteFacts
  <2>3. segs[active].recs \in Seq(Records)
    BY <2>1, StoreParts
  <2>4. \E i \in 1..Len(segs'[active].recs) : segs'[active].recs[i] = r
    <3> DEFINE q == segs[active].recs
    <3>1. q \in Seq(Records) /\ segs'[active].recs = Append(q, r)
      BY <2>2, <2>3
    <3> HIDE DEF q
    <3>2. Len(q) + 1 \in 1..Len(Append(q, r)) /\ Append(q, r)[Len(q) + 1] = r
      BY <3>1
    <3> QED
      BY <3>1, <3>2
  <2> QED
    BY <2>1, <2>2, <2>4 DEF Stored, In
<1> QED
  BY <1>1, <1>2, <1>3

(* An accepted record is in one place, from append to the file, until the  *)
(* writer stops or retention removes the file.                             *)
LEMMA PlaceInvStep ==
    ASSUME Control, PlaceInv, [Next]_vars
    PROVE  PlaceInv'
<1>0. Types /\ UserInv
  BY DEF Control
<1>1. ASSUME NEW r \in Records
      PROVE  /\ Stored(r)' => Stored(r) \/ (cmd = RecordCmd(r) /\ cmd' = NoCmd)
             /\ RetentionDelete \/ Ending \/ (Stored(r) => Stored(r)')
  BY StoredMoves DEF Stored
<1>2. ASSUME NEW r \in Records, Ending PROVE r \in accepted' <=> r \in accepted /\ Stored(r)'
  <2>1. accepted' = {q \in accepted : \E s \in DOMAIN segs' : q \in ToSet(segs'[s].recs)}
    BY <1>2, EndingFacts DEF ProcessGone
  <2>2. \A s \in DOMAIN segs' : segs'[s].recs \in Seq(Records)
    BY ControlStep, SegTypesStep DEF SegTypes, Segment
  <2>3. \A s \in DOMAIN segs' : r \in ToSet(segs'[s].recs) <=> In(r, s)'
    BY <2>2 DEF ToSet, In
  <2> QED
    BY <2>1, <2>3 DEF Stored
<1>3. ASSUME NEW r \in Records, RetentionDelete
      PROVE  /\ r \in accepted' => r \in accepted /\ (Stored(r) => Stored(r)')
             /\ r \in accepted /\ r \notin accepted' => Stored(r) /\ ~Stored(r)'
  <2>1. CASE UNCHANGED <<segs, accepted>>
    BY <2>1 DEF Stored, In
  <2>2. CASE \E s \in retention.paths :
                /\ s \in DOMAIN segs
                /\ DOMAIN segs' = DOMAIN segs \ {s}
                /\ \A t \in DOMAIN segs' : segs'[t] = segs[t]
                /\ accepted' = accepted \ ToSet(segs[s].recs)
    <3>1. PICK s \in DOMAIN segs : /\ DOMAIN segs' = DOMAIN segs \ {s}
                                   /\ \A t \in DOMAIN segs' : segs'[t] = segs[t]
                                   /\ accepted' = accepted \ ToSet(segs[s].recs)
      BY <2>2
    <3>2. segs[s].recs \in Seq(Records)
      BY <1>0, StoreParts
    <3>3. r \in ToSet(segs[s].recs) <=> In(r, s)
      BY <3>2 DEF ToSet, In
    <3>4. \A t \in DOMAIN segs' : In(r, t)' <=> In(r, t)
      BY <3>1 DEF In
    <3>5. \A t \in DOMAIN segs : In(r, s) /\ In(r, t) => s = t
      BY DEF PlaceInv
    <3> QED
      BY <3>1, <3>3, <3>4, <3>5 DEF Stored
  <2> QED
    BY <1>0, <1>3, <2>1, <2>2, DeleteFacts
<1>4. ASSUME NEW r \in Records, ~RetentionDelete, ~Ending
      PROVE  /\ r \in accepted => r \in accepted'
             /\ r \in accepted' => r \in accepted \/ AppendRecord(r)
  <2>1. ASSUME NEW q \in Records, AppendRecord(q)
        PROVE  accepted' = accepted \cup {q} /\ AppendRecord(q)
    BY <2>1 DEF AppendRecord
  <2> QED
    BY <1>4, <2>1, AcceptedMoves
<1>5. ASSUME NEW r \in Records
      PROVE  /\ Stored(r)' => r \in accepted'
             /\ Queued(r)' => r \in accepted' /\ ~Stored(r)' /\ cmd' # RecordCmd(r)
             /\ cmd' = RecordCmd(r) => r \in accepted' /\ ~Stored(r)'
             /\ \A i, j \in 1..Len(rx') : rx'[i] = RecordCmd(r) /\ rx'[j] = RecordCmd(r) => i = j
  <2>1. /\ Stored(r) => r \in accepted
        /\ Queued(r) => r \in accepted /\ ~Stored(r) /\ cmd # RecordCmd(r)
        /\ cmd = RecordCmd(r) => r \in accepted /\ ~Stored(r)
    BY DEF PlaceInv
  <2>2. NoCmd # RecordCmd(r)
    BY CommandsDiffer
  <2>3. AppendRecord(r) => r \notin accepted /\ r \in accepted'
    BY DEF AppendRecord
  <2>4. /\ Queued(r)' => (Queued(r) \/ AppendRecord(r)) /\ cmd' # RecordCmd(r)
        /\ cmd' = RecordCmd(r) => cmd = RecordCmd(r) \/ Queued(r)
        /\ Ending => ~Queued(r)' /\ cmd' = NoCmd
        /\ \A i, j \in 1..Len(rx') : rx'[i] = RecordCmd(r) /\ rx'[j] = RecordCmd(r) => i = j
    BY QueueMoves
  <2>5. Queued(r) \/ cmd = RecordCmd(r) => r \in accepted' \/ Ending
    BY <1>3, <1>4, <2>1
  <2>6. Stored(r)' => r \in accepted'
    BY <1>1, <1>2, <1>3, <1>4, <2>1
  <2> QED
    BY <1>1, <2>1, <2>2, <2>3, <2>4, <2>5, <2>6
<1>6. ASSUME NEW r \in Records, NEW s \in DOMAIN segs', NEW t \in DOMAIN segs', In(r, s)', In(r, t)'
      PROVE  s = t
  <2>1. /\ (s \in DOMAIN segs /\ In(r, s)) \/ (s = active /\ cmd = RecordCmd(r))
        /\ (t \in DOMAIN segs /\ In(r, t)) \/ (t = active /\ cmd = RecordCmd(r))
    BY <1>6, StoredMoves
  <2>2. cmd = RecordCmd(r) => ~Stored(r)
    BY DEF PlaceInv
  <2>3. s \in DOMAIN segs /\ t \in DOMAIN segs /\ In(r, s) /\ In(r, t) => s = t
    BY DEF PlaceInv
  <2> QED
    BY <2>1, <2>2, <2>3 DEF Stored
<1>7. ASSUME (~Up \/ ~Stopping)', NEW r \in accepted'
      PROVE  (Stored(r) \/ cmd = RecordCmd(r) \/ Queued(r))'
  <2>1. r \in Records
    BY ControlStep, PlainTypesStep DEF PlainTypes
  <2>2. Ending => Stored(r)'
    BY <1>2, <1>7, <2>1
  <2>3. CASE ~Ending
    <3>1. ~Up \/ ~Stopping
      BY <1>7, <2>3, StopStays
    <3>2. AppendRecord(r) => Queued(r)'
      BY <2>1, QueueMoves
    <3>3. r \in accepted \/ AppendRecord(r)
      BY <1>3, <1>4, <1>7, <2>1, <2>3
    <3>4. r \in accepted => Stored(r) \/ cmd = RecordCmd(r) \/ Queued(r)
      BY <3>1 DEF PlaceInv
    <3>5. Stored(r) => Stored(r)'
      BY <1>1, <1>3, <1>7, <2>1, <2>3
    <3>6. /\ Queued(r) => Queued(r)' \/ cmd' = RecordCmd(r) \/ (Up' /\ Stopping') \/ Ending
          /\ cmd = RecordCmd(r) =>
                cmd' = RecordCmd(r) \/ WriteRecord \/ (Up' /\ Stopping') \/ Ending
          /\ WriteRecord /\ cmd = RecordCmd(r) => Stored(r)'
      BY <2>1, QueueMoves, StoredMoves
    <3> QED
      BY <1>7, <2>3, <3>2, <3>3, <3>4, <3>5, <3>6
  <2> QED
    BY <2>2, <2>3
<1> QED
  BY <1>5, <1>6, <1>7 DEF PlaceInv

(* The records ahead of a replay's seal, when the writer takes a command.  *)
LEMMA ReceiveAhead ==
    ASSUME PlainTypes, SealInv, NEW kind, Receive(kind), NEW r \in Records
    PROVE  /\ SealQueued' => SealQueued
           /\ Ahead(r)' => Ahead(r)
           /\ Ahead(r) => Ahead(r)' \/ Head(rx) = RecordCmd(r)
           /\ Head(rx) = RecordCmd(r) /\ SealQueued' => Ahead(r)
           /\ Head(rx) = SealCmd("replay") => SealQueued /\ ~Ahead(r)
<1>1. /\ Len(rx) \in Nat /\ Len(rx') = Len(rx) - 1 /\ 1 \in 1..Len(rx)
      /\ \A i \in 1..Len(rx') : i + 1 \in 1..Len(rx) /\ rx'[i] = rx[i + 1]
      /\ Head(rx) = rx[1]
  BY ReceiveFacts
<1>2. \A i \in 1..Len(rx) : i = 1 \/ (i - 1 \in 1..Len(rx') /\ rx'[i - 1] = rx[i])
  <2> SUFFICES ASSUME NEW i \in 1..Len(rx), i # 1
               PROVE  i - 1 \in 1..Len(rx') /\ rx'[i - 1] = rx[i]
    OBVIOUS
  <2>1. i - 1 \in 1..Len(rx') /\ i - 1 + 1 = i
    BY <1>1
  <2> QED
    BY <1>1, <2>1
<1>3. SealQueued' => SealQueued
  BY <1>1 DEF SealQueued
<1>4. ASSUME Ahead(r)' PROVE Ahead(r)
  <2>1. PICK k \in 1..Len(rx'), i \in 1..Len(rx') :
           rx'[k] = SealCmd("replay") /\ i < k /\ rx'[i] = RecordCmd(r)
    BY <1>4 DEF Ahead
  <2>2. /\ k + 1 \in 1..Len(rx) /\ rx[k + 1] = SealCmd("replay")
        /\ i + 1 \in 1..Len(rx) /\ rx[i + 1] = RecordCmd(r) /\ i + 1 < k + 1
    BY <1>1, <2>1
  <2> QED
    BY <2>2 DEF Ahead
<1>5. ASSUME Ahead(r), Head(rx) # RecordCmd(r) PROVE Ahead(r)'
  <2>1. PICK k \in 1..Len(rx), i \in 1..Len(rx) :
           rx[k] = SealCmd("replay") /\ i < k /\ rx[i] = RecordCmd(r)
    BY <1>5 DEF Ahead
  <2>2. i # 1 /\ k # 1
    BY <1>1, <1>5, <2>1
  <2>3. /\ k - 1 \in 1..Len(rx') /\ rx'[k - 1] = SealCmd("replay")
        /\ i - 1 \in 1..Len(rx') /\ rx'[i - 1] = RecordCmd(r) /\ i - 1 < k - 1
    BY <1>2, <2>1, <2>2
  <2> QED
    BY <2>3 DEF Ahead
<1>6. ASSUME Head(rx) = RecordCmd(r), SealQueued' PROVE Ahead(r)
  <2>1. PICK k \in 1..Len(rx') : rx'[k] = SealCmd("replay")
    BY <1>6 DEF SealQueued
  <2>2. k + 1 \in 1..Len(rx) /\ rx[k + 1] = SealCmd("replay") /\ 1 < k + 1
    BY <1>1, <2>1
  <2> QED
    BY <1>1, <1>6, <2>2 DEF Ahead
<1>7. ASSUME Head(rx) = SealCmd("replay") PROVE SealQueued /\ ~Ahead(r)
  <2>1. \A k \in 1..Len(rx) : rx[k] = SealCmd("replay") => k = 1
    BY <1>1, <1>7 DEF SealInv
  <2>2. ~Ahead(r)
    BY <2>1 DEF Ahead
  <2> QED
    BY <1>1, <1>7, <2>2 DEF SealQueued
<1> QED
  BY <1>3, <1>4, <1>5, <1>6, <1>7

(* The same when a caller adds one.                                        *)
LEMMA EnqueueAhead ==
    ASSUME PlainTypes, NEW c \in Commands, Enqueue(c), NEW r \in Records
    PROVE  /\ SealQueued' => SealQueued \/ c = SealCmd("replay")
           /\ Ahead(r)' => Ahead(r) \/ c = SealCmd("replay")
           /\ Ahead(r) => Ahead(r)'
           /\ c = SealCmd("replay") /\ Queued(r) => Ahead(r)'
<1>1. /\ Len(rx) \in Nat /\ Len(rx') = Len(rx) + 1 /\ rx'[Len(rx) + 1] = c
      /\ \A i \in 1..Len(rx) : rx'[i] = rx[i]
  BY EnqueueFacts
<1>2. /\ \A i \in 1..Len(rx') : i \in 1..Len(rx) \/ i = Len(rx) + 1
      /\ Len(rx) + 1 \in 1..Len(rx')
      /\ \A i \in 1..Len(rx) : i \in 1..Len(rx') /\ i < Len(rx) + 1
  BY <1>1
<1>3. SealQueued' => SealQueued \/ c = SealCmd("replay")
  BY <1>1, <1>2 DEF SealQueued
<1>4. ASSUME Ahead(r)', c # SealCmd("replay") PROVE Ahead(r)
  <2>1. PICK k \in 1..Len(rx'), i \in 1..Len(rx') :
           rx'[k] = SealCmd("replay") /\ i < k /\ rx'[i] = RecordCmd(r)
    BY <1>4 DEF Ahead
  <2>2. k \in 1..Len(rx) /\ i \in 1..Len(rx)
    BY <1>1, <1>2, <1>4, <2>1
  <2> QED
    BY <1>1, <2>1, <2>2 DEF Ahead
<1>5. Ahead(r) => Ahead(r)'
  BY <1>1, <1>2 DEF Ahead
<1>6. c = SealCmd("replay") /\ Queued(r) => Ahead(r)'
  BY <1>1, <1>2 DEF Ahead, Queued
<1> QED
  BY <1>3, <1>4, <1>5, <1>6

(* The writer takes the records ahead of a seal before the seal, and none  *)
(* of those behind it.                                                     *)
LEMMA AheadMoves ==
    ASSUME Control, [Next]_vars, NEW r \in Records
    PROVE  /\ SealQueued' => SealQueued \/ ReplaySeal
           /\ Ahead(r)' => Ahead(r) \/ ReplaySeal
           /\ SealQueued' /\ Ahead(r) => Ahead(r)' \/ cmd' = RecordCmd(r) \/ Stopping'
           /\ SealQueued' /\ cmd' = RecordCmd(r) => cmd = RecordCmd(r) \/ Ahead(r)
           /\ cmd' = SealCmd("replay") =>
                 \/ cmd = SealCmd("replay")
                 \/ SealQueued /\ cmd = NoCmd /\ ~Stopping /\ ~Ahead(r)
<1>0. /\ PlainTypes /\ PhaseInv /\ SealInv
      /\ RecordCmd(r) \in RecordCmds /\ RecordCmd(r) # NoCmd /\ SealCmd("replay") # NoCmd
      /\ FlushCmd # SealCmd("replay")
  BY TypesApart, CommandsDiffer DEF Control, RecordCmds, UserInv
<1>1. CASE UNCHANGED <<rx, cmd>>
  BY <1>1 DEF SealQueued, Ahead
<1>2. CASE \E c \in Commands : /\ Enqueue(c) /\ UNCHANGED cmd
                               /\ c = SealCmd("replay") => ReplaySeal
  <2>1. PICK c \in Commands : /\ Enqueue(c) /\ UNCHANGED cmd
                              /\ c = SealCmd("replay") => ReplaySeal
    BY <1>2
  <2> QED
    BY <1>0, <2>1, EnqueueAhead
<1>3. CASE \E kind : Receive(kind) /\ cmd = NoCmd /\ cmd' = Head(rx)
  <2>1. PICK kind : Receive(kind) /\ cmd = NoCmd /\ cmd' = Head(rx)
    BY <1>3
  <2>2. ~Stopping
    BY <2>1 DEF Receive, Stopping
  <2> QED
    BY <1>0, <2>1, <2>2, ReceiveAhead
<1>4. CASE /\ Up' /\ Stopping' /\ cmd' = NoCmd
           /\ (\E kind : Receive(kind)) \/ rx' = rx \/ rx' = <<>>
  <2>1. rx' = <<>> => ~SealQueued' /\ ~Ahead(r)'
    BY DEF SealQueued, Ahead
  <2>2. rx' = rx => (SealQueued' => SealQueued) /\ (Ahead(r)' => Ahead(r))
    BY DEF SealQueued, Ahead
  <2>3. (\E kind : Receive(kind)) => (SealQueued' => SealQueued) /\ (Ahead(r)' => Ahead(r))
    BY <1>0, ReceiveAhead
  <2> QED
    BY <1>0, <1>4, <2>1, <2>2, <2>3
<1>5. CASE UNCHANGED rx /\ cmd' = NoCmd
  BY <1>0, <1>5 DEF SealQueued, Ahead
<1>6. CASE RetentionDropped
  <2>1. /\ Len(rx') = Len(rx) /\ Len(rx) \in Nat
        /\ \A i \in 1..Len(rx) : /\ rx'[i] = RecordCmd(r) <=> rx[i] = RecordCmd(r)
                                 /\ rx'[i] = SealCmd("replay") <=> rx[i] = SealCmd("replay")
        /\ cmd' = RecordCmd(r) <=> cmd = RecordCmd(r)
        /\ cmd' = SealCmd("replay") <=> cmd = SealCmd("replay")
    BY <1>0, <1>6, DroppedQueue
  <2>2. SealQueued' => SealQueued
    BY <2>1 DEF SealQueued
  <2>3. Ahead(r)' <=> Ahead(r)
    BY <2>1 DEF Ahead
  <2> QED
    BY <2>1, <2>2, <2>3
<1>7. CASE Ending \/ Start
  <2>1. rx' = <<>> \/ rx' = <<FlushCmd>>
    BY <1>7, EndingFacts DEF ProcessGone, Start
  <2>2. cmd' = NoCmd
    BY <1>0, <1>7, EndingFacts DEF ProcessGone, Start, PhaseInv, Up
  <2>3. \A i \in 1..Len(rx') : rx'[i] = FlushCmd
    BY <2>1
  <2>4. ~SealQueued' /\ ~Ahead(r)'
    BY <1>0, <2>3 DEF SealQueued, Ahead
  <2> QED
    BY <1>0, <2>2, <2>4
<1> QED
  BY <1>1, <1>2, <1>3, <1>4, <1>5, <1>6, <1>7, QueueKinds

(* The records accepted before a seal are written before it is taken, the  *)
(* later ones after it; the snapshot is the files that the first are in.   *)
LEMMA SnapInvStep ==
    ASSUME ~Disconnects, Control, PlaceInv, SnapInv, [Next]_vars
    PROVE  SnapInv'
<1>0. /\ PhaseInv /\ SealInv /\ GuardInv /\ ClosedInv /\ PlainTypes
  BY TypesApart DEF Control, UserInv
<1>a. SealInv' /\ PlainTypes' /\ PlaceInv'
  BY SealInvStep, PlainTypesStep, PlaceInvStep
<1>b. /\ replay'.before \subseteq Records /\ replay'.after \subseteq Records
      /\ replay.before \subseteq Records /\ replay.after \subseteq Records
  BY <1>0, <1>a DEF PlainTypes, ReplayState
<1>c. /\ SealQueued => replay.pc = "sealing"
      /\ cmd = SealCmd("replay") => replay.pc = "sealing"
      /\ SealQueued' => replay'.pc = "sealing"
      /\ cmd' = SealCmd("replay") => replay'.pc = "sealing"
  BY <1>0, <1>a DEF SealInv, SealQueued
<1>d. /\ Ending => replay'.pc = "idle"
      /\ RetentionDelete => replay.pc = "idle" /\ replay' = replay
  <2>1. Ending => replay'.pc = "idle"
    BY EndingFacts DEF ProcessGone, Idle
  <2> QED
    BY <2>1, NoDeleteInReplay
<1>e. \A q \in Records : /\ NoCmd # RecordCmd(q) /\ RecordCmd(q) # SealCmd("replay")
                         /\ Ahead(q) => Queued(q)
  BY CommandsDiffer DEF Ahead, Queued
<1>1. ASSUME NEW r \in Records, replay.pc # "idle", replay'.pc # "idle"
      PROVE  /\ Stored(r) => Stored(r)'
             /\ Stored(r)' => Stored(r) \/ cmd = RecordCmd(r)
             /\ \A s \in DOMAIN segs : In(r, s) => s \in DOMAIN segs' /\ In(r, s)'
             /\ cmd = RecordCmd(r) => cmd' = RecordCmd(r) \/ Stored(r)' \/ Stopping'
  <2>1. ~Ending /\ ~RetentionDelete
    BY <1>1, <1>d
  <2> QED
    BY <2>1, StoredMoves, QueueMoves DEF Stored
<1>2. SealQueued /\ SealQueued' /\ Stopping => Stopping'
  <2>1. SealQueued => Up
    BY <1>0 DEF PhaseInv, SealQueued
  <2>2. SealQueued' => ~Ending
    BY <1>c, <1>d
  <2> QED
    BY <2>1, <2>2, StopStays
<1>3. ASSUME replay.pc = "sealing", SealQueued', SealQueued, NEW r \in replay.before
      PROVE  Stopping' \/ (Stored(r) \/ cmd = RecordCmd(r) \/ Ahead(r))'
  <2>1. Stopping' \/ Stored(r) \/ cmd = RecordCmd(r) \/ Ahead(r)
    BY <1>2, <1>3 DEF SnapInv
  <2>2. replay'.pc = "sealing" /\ r \in Records
    BY <1>3, <1>b, <1>c
  <2>3. Ahead(r) => Ahead(r)' \/ cmd' = RecordCmd(r) \/ Stopping'
    BY <1>3, <2>2, AheadMoves
  <2> QED
    BY <1>1, <1>3, <2>1, <2>2, <2>3
<1>4. ASSUME replay.pc = "sealing", SealQueued', SealQueued, ~ReplaySeal, NEW r \in replay.after
      PROVE  ~Stored(r)' /\ cmd' # RecordCmd(r) /\ ~Ahead(r)'
  <2>1. ~Stored(r) /\ cmd # RecordCmd(r) /\ ~Ahead(r)
    BY <1>4 DEF SnapInv
  <2>2. replay'.pc = "sealing" /\ r \in Records
    BY <1>4, <1>b, <1>c
  <2> QED
    BY <1>1, <1>4, <2>1, <2>2, AheadMoves
<1>5. ASSUME replay.pc = "sealing", cmd' = SealCmd("replay")
      PROVE  /\ \A r \in replay.before : Stored(r)'
             /\ \A r \in replay.after : ~Stored(r)'
  <2>0. replay'.pc = "sealing"
    BY <1>5, <1>c
  <2>1. ASSUME NEW r \in replay.before PROVE Stored(r)'
    <3>1. r \in Records
      BY <1>b, <2>1
    <3>2. CASE cmd = SealCmd("replay")
      <4>1. Stored(r)
        BY <2>1, <3>2 DEF SnapInv
      <4> QED
        BY <1>1, <1>5, <2>0, <3>1, <4>1
    <3>3. CASE SealQueued /\ cmd = NoCmd /\ ~Stopping /\ ~Ahead(r)
      <4>1. Stored(r)
        BY <1>e, <2>1, <3>1, <3>3 DEF SnapInv
      <4> QED
        BY <1>1, <1>5, <2>0, <3>1, <4>1
    <3> QED
      BY <1>5, <3>1, <3>2, <3>3, AheadMoves
  <2>2. ASSUME NEW r \in replay.after PROVE ~Stored(r)'
    <3>1. r \in Records
      BY <1>b, <2>2
    <3>2. CASE cmd = SealCmd("replay")
      <4>1. ~Stored(r) /\ cmd # RecordCmd(r)
        BY <1>e, <2>2, <3>1, <3>2 DEF SnapInv
      <4> QED
        BY <1>1, <1>5, <2>0, <3>1, <4>1
    <3>3. CASE SealQueued
      <4>1. ~Stored(r) /\ cmd # RecordCmd(r)
        BY <2>2, <3>3 DEF SnapInv
      <4> QED
        BY <1>1, <1>5, <2>0, <3>1, <4>1
    <3> QED
      BY <1>5, <3>1, <3>2, <3>3, AheadMoves
  <2> QED
    BY <2>1, <2>2
<1>6. ASSUME replay.pc = "scanning", replay'.pc = "scanning"
      PROVE  /\ replay.snap \subseteq DOMAIN segs'
             /\ \A r \in replay.before : \E s \in replay.snap : In(r, s)'
             /\ \A r \in replay.after : \A s \in replay.snap : ~In(r, s)'
  <2>1. /\ replay.snap \subseteq DOMAIN segs
        /\ \A r \in replay.before : \E s \in replay.snap : In(r, s)
        /\ \A r \in replay.after : \A s \in replay.snap : ~In(r, s)
    BY <1>6 DEF SnapInv
  <2>2. active \notin replay.snap
    <3>1. \A s \in replay.snap : s < active
      BY <1>0, <1>6 DEF ClosedInv
    <3>2. \A s \in replay.snap : s \in Nat
      BY <1>0 DEF PlainTypes, ReplayState
    <3> QED
      BY <3>1, <3>2
  <2>3. DOMAIN segs \subseteq DOMAIN segs'
    <3>1. ~Start
      BY <1>0, <1>6 DEF Start, PhaseInv, Idle
    <3> QED
      BY <1>6, <1>d, <3>1, RecsMoves
  <2>4. \A r \in replay.after : \A s \in replay.snap : ~In(r, s)'
    BY <1>b, <2>1, <2>2, <2>3, StoredMoves
  <2> QED
    BY <1>1, <1>6, <1>b, <2>1, <2>3, <2>4
<1>7. ASSUME UNCHANGED replay PROVE SnapInv'
  <2>1. ~ReplaySeal
    BY <1>7 DEF ReplaySeal
  <2>2. \A r \in Records : SealQueued' => SealQueued
    BY <2>1, AheadMoves
  <2>3. ASSUME SealQueued'
        PROVE  /\ ~Stopping' => \A r \in replay.before : (Stored(r) \/ cmd = RecordCmd(r) \/ Ahead(r))'
               /\ \A r \in replay.after : ~Stored(r)' /\ cmd' # RecordCmd(r) /\ ~Ahead(r)'
    BY <1>3, <1>4, <1>7, <1>b, <1>c, <2>1, <2>2, <2>3
  <2>4. ASSUME cmd' = SealCmd("replay")
        PROVE  (\A r \in replay.before : Stored(r)') /\ (\A r \in replay.after : ~Stored(r)')
    BY <1>5, <1>7, <1>c, <2>4
  <2> QED
    BY <1>6, <1>7, <2>3, <2>4 DEF SnapInv
<1>8. ASSUME NEW q \in Records, AppendRecord(q) PROVE SnapInv'
  <2>1. /\ replay'.pc = replay.pc /\ replay'.snap = replay.snap
        /\ replay'.before = replay.before
        /\ replay.pc # "idle" => replay'.after = replay.after \cup {q}
        /\ q \notin accepted /\ UNCHANGED <<segs, cmd>>
    BY <1>8, AppendReplay
  <2>2. ~ReplaySeal
    BY <2>1 DEF ReplaySeal
  <2>3. ~Stored(q) /\ ~Queued(q) /\ cmd # RecordCmd(q)
    BY <2>1 DEF PlaceInv
  <2>4. ~Stored(q)' /\ cmd' # RecordCmd(q) /\ ~Ahead(q)'
    BY <1>e, <2>1, <2>2, <2>3, AheadMoves DEF Stored, In
  <2>5. \A r \in Records : SealQueued' => SealQueued
    BY <2>2, AheadMoves
  <2>6. ASSUME SealQueued'
        PROVE  /\ ~Stopping' => \A r \in replay'.before : (Stored(r) \/ cmd = RecordCmd(r) \/ Ahead(r))'
               /\ \A r \in replay'.after : ~Stored(r)' /\ cmd' # RecordCmd(r) /\ ~Ahead(r)'
    BY <1>3, <1>4, <1>c, <2>1, <2>2, <2>4, <2>5, <2>6
  <2>7. ASSUME cmd' = SealCmd("replay")
        PROVE  (\A r \in replay'.before : Stored(r)') /\ (\A r \in replay'.after : ~Stored(r)')
    BY <1>5, <1>c, <2>1, <2>4, <2>7
  <2>8. ASSUME replay'.pc = "scanning"
        PROVE  /\ replay'.snap \subseteq DOMAIN segs'
               /\ \A r \in replay'.before : \E s \in replay'.snap : In(r, s)'
               /\ \A r \in replay'.after : \A s \in replay'.snap : ~In(r, s)'
    <3>1. \A s \in DOMAIN segs' : ~In(q, s)'
      BY <2>4 DEF Stored
    <3> QED
      BY <1>6, <2>1, <2>8, <3>1
  <2> QED
    BY <2>6, <2>7, <2>8 DEF SnapInv
<1>9. CASE ReplaySeal
  <2>1. /\ replay'.pc = "sealing" /\ replay'.before = accepted /\ replay'.after = {}
        /\ replay.pc = "idle" /\ Enqueue(SealCmd("replay")) /\ Up
        /\ UNCHANGED <<cmd, wpc, then, segs>>
    BY <1>9 DEF ReplaySeal, writerVars, Up
  <2>2. cmd # SealCmd("replay")
    BY <1>0, <2>1 DEF SealInv
  <2>3. Stopping' <=> Stopping
    BY <2>1 DEF Stopping
  <2>4. ASSUME ~Stopping, NEW r \in accepted PROVE (Stored(r) \/ cmd = RecordCmd(r) \/ Ahead(r))'
    <3>1. r \in Records /\ SealCmd("replay") \in Commands
      BY <1>0, CommandKinds DEF PlainTypes
    <3>2. Stored(r) \/ cmd = RecordCmd(r) \/ Queued(r)
      BY <2>4 DEF PlaceInv
    <3>3. Queued(r) => Ahead(r)'
      BY <1>0, <2>1, <3>1, EnqueueAhead
    <3>4. Stored(r) => Stored(r)'
      BY <2>1 DEF Stored, In
    <3> QED
      BY <2>1, <3>2, <3>3, <3>4
  <2> QED
    BY <2>1, <2>2, <2>3, <2>4 DEF SnapInv
<1>10. CASE replay'.pc \in {"idle", "failed"}
  BY <1>10, <1>c DEF SnapInv
<1>11. CASE /\ cmd = SealCmd("replay")
            /\ replay'.pc = "scanning" /\ replay'.snap = DOMAIN segs
            /\ replay'.before = replay.before /\ replay'.after = replay.after
  <2>1. replay.pc = "sealing"
    BY <1>11, <1>c
  <2>2. ~Start
    BY <1>0, <2>1 DEF Start, PhaseInv, Idle
  <2>3. ~Ending /\ ~RetentionDelete
    BY <1>11, <1>d, <2>1
  <2>4. DOMAIN segs \subseteq DOMAIN segs'
    BY <2>2, <2>3, RecsMoves
  <2>5. ASSUME NEW r \in replay.before PROVE \E s \in DOMAIN segs : In(r, s)'
    <3>1. Stored(r) /\ r \in Records
      BY <1>11, <1>b, <2>5 DEF SnapInv
    <3>2. PICK s \in DOMAIN segs : In(r, s)
      BY <3>1 DEF Stored
    <3>3. In(r, s)'
      BY <2>3, <3>1, <3>2, StoredMoves
    <3> QED
      BY <3>3
  <2>6. ASSUME NEW r \in replay.after, NEW s \in DOMAIN segs PROVE ~In(r, s)'
    <3>1. ~Stored(r) /\ r \in Records
      BY <1>11, <1>b, <2>6 DEF SnapInv
    <3>2. In(r, s)' => In(r, s)
      BY <1>11, <1>e, <2>4, <3>1, StoredMoves
    <3> QED
      BY <3>1, <3>2 DEF Stored
  <2> QED
    BY <1>11, <1>c, <2>4, <2>5, <2>6 DEF SnapInv
<1> QED
  BY <1>7, <1>8, <1>9, <1>10, <1>11, ReplayMoves

(* A replay scans exactly what was accepted before its seal: all of it,    *)
(* and nothing accepted later, for cleanups that keep the maintenance lock.*)
THEOREM SnapshotCorrect ==
    ASSUME ~Disconnects
    PROVE  Spec => []SnapshotExact
<1> DEFINE Inv == Control /\ PlaceInv /\ SnapInv
<1>1. Init => Inv
  <2> SUFFICES ASSUME Init PROVE PlaceInv /\ SnapInv
    BY ControlInit
  <2>1. /\ DOMAIN segs = {} /\ rx = <<>> /\ cmd = NoCmd /\ accepted = {} /\ replay.pc = "idle"
    BY DEF Init, Idle
  <2>2. \A r \in Records : ~Stored(r) /\ ~Queued(r) /\ RecordCmd(r) # NoCmd
    BY <2>1, CommandsDiffer DEF Stored, Queued
  <2>3. ~SealQueued /\ SealCmd("replay") # NoCmd /\ \A i \in 1..Len(rx) : FALSE
    BY <2>1, CommandsDiffer DEF SealQueued
  <2> QED
    BY <2>1, <2>2, <2>3 DEF PlaceInv, SnapInv
<1>2. Inv /\ [Next]_vars => Inv'
  BY ControlStep, PlaceInvStep, SnapInvStep
<1>3. Inv => SnapshotExact
  <2> SUFFICES ASSUME Control, SnapInv, replay.pc = "scanning"
               PROVE  replay.before \subseteq Snapshot /\ replay.after \cap Snapshot = {}
    BY DEF SnapshotExact, Control, Types
  <2>1. /\ replay.snap \subseteq DOMAIN segs
        /\ \A r \in replay.before : \E s \in replay.snap : In(r, s)
        /\ \A r \in replay.after : \A s \in replay.snap : ~In(r, s)
    BY DEF SnapInv
  <2>2. Types /\ VisibleInv /\ (\A s \in replay.snap : s \in Nat /\ s < active)
    BY DEF Control, UserInv, ClosedInv, Types, ReplayState
  <2>3. ASSUME NEW s \in replay.snap, NEW r
        PROVE  r \in ToSet(Visible(segs[s])) <=> In(r, s)
    <3>1. /\ s \in DOMAIN segs /\ AllVisible(segs[s]) /\ segs[s] \in Segment
          /\ segs[s].vis <= FileBytes(segs[s])
      <4>1. s # active
        BY <2>2
      <4> QED
        BY <2>1, <2>2, <4>1, StoreParts DEF VisibleInv
    <3>2. In(r, s) => r \in ToSet(Visible(segs[s]))
      BY <3>1, ClosedIsRead DEF In
    <3>3. r \in ToSet(Visible(segs[s])) => In(r, s)
      BY <3>1, VisibleRecords DEF In
    <3> QED
      BY <3>2, <3>3
  <2>4. \A r : r \in Snapshot <=> \E s \in replay.snap : r \in ToSet(Visible(segs[s]))
    BY <2>1 DEF Snapshot, list_segments
  <2> QED
    BY <2>1, <2>3, <2>4
<1> QED
  BY <1>1, <1>2, <1>3, PTL DEF Spec
=============================================================================
