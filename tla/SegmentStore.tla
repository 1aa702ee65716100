---------------------------- MODULE SegmentStore ----------------------------
(***************************************************************************)
(* The immutable payload store (src/src/storage/segment.rs): the bounded   *)
(* command queue, the segment-writer thread with its rotation protocol,    *)
(* crash recovery at startup (storage/mod.rs:404-444), and the two users   *)
(* of sealed segments, historical replay and retention, with the           *)
(* maintenance lock between them (replay/mod.rs, api/mod.rs).              *)
(*                                                                         *)
(* Data: a record is its timestamp and is one byte long, and so is a       *)
(* segment header.  A segment file is [recs, vis, syn, torn]: the records  *)
(* written to it, how many bytes have left the BufWriter, how many are     *)
(* synced, and whether a crash left a partial record after them.  Segment  *)
(* names carry the wall clock and sort by it; the clock is taken to move   *)
(* forward, so a name is a number that grows.                              *)
(*                                                                         *)
(* The metadata pipeline appears as three sets of index rows <<r, s>> (the *)
(* record r is in segment s): meta on its way to the spool, spool durable, *)
(* ch projected.  A durable barrier moves all of meta to the spool and a   *)
(* projected barrier all of it to ch, which is what MetadataPipeline       *)
(* proves of them.                                                         *)
(***************************************************************************)
EXTENDS Integers, Sequences, FiniteSets, SequencesExt, FiniteSetsExt

CONSTANTS
    Records,       \* content records, by timestamp (ts_ns)
    Cutoffs,       \* retention cutoffs asked for
    Capacity,      \* queue_capacity
    MaxBytes,      \* segment_max_bytes
    StoreMaxBytes, \* segment_store_max_bytes
    PendingMax,    \* pending index rows that force a flush (512 in the code)
    MaxSeals,      \* model bound: replay and retention runs explored
    MaxStarts,     \* model bound: process starts explored
    Faults,        \* which faults happen: "kill", "startup", "power", "meta"
    Disconnects    \* whether a cleanup request may lose its HTTP client

ASSUME RecordsAssumption == Records \subseteq Nat /\ Cutoffs \subseteq Nat
ASSUME CapacityAssumption == Capacity \in Nat \ {0}
ASSUME MaxBytesAssumption == MaxBytes \in Nat /\ StoreMaxBytes \in Nat
ASSUME PendingMaxAssumption == PendingMax \in Nat \ {0}
ASSUME BoundsAssumption == MaxSeals \in Nat /\ MaxStarts \in Nat
ASSUME FaultsAssumption ==
    Faults \subseteq {"kill", "startup", "power", "meta"} /\ Disconnects \in BOOLEAN

HeaderSize == 1

VARIABLES
    phase,      \* "down", "flushing", "rebuild", "marker", "running", "closing"
    starts, seals,
    \* the store
    rx,         \* commands queued to the writer
    segs,       \* segment files, by name
    nextSeg,    \* the name the clock gives to the next segment
    marker,     \* the content-index recovery marker is valid
    \* the segment-writer thread
    wpc,        \* where it is
    then,       \* what follows its flush_and_publish
    cmd,        \* the command it is executing
    active,     \* the segment it writes
    pending,    \* index rows not yet published
    retained_bytes,
    \* startup
    todo,       \* index rows the recovery has yet to send
    \* the metadata pipeline
    metaUp, meta, spool, ch,
    \* historical replay and retention
    replay,     \* [pc, snap, before, after]
    retention,  \* [pc, guard, cutoff, paths]
    \* history
    accepted,   \* records append has accepted and no crash has lost
    cutoff      \* the newest cutoff whose mutation has run

bounds      == <<starts, seals>>
storeVars   == <<rx, segs, nextSeg, marker>>
writerVars  == <<wpc, then, cmd, active, pending, retained_bytes>>
metaVars    == <<metaUp, meta, spool, ch>>
userVars    == <<replay, retention>>
historyVars == <<accepted, cutoff>>
vars == <<phase, bounds, storeVars, writerVars, todo, metaVars, userVars,
          historyVars>>

NoCmd == [kind |-> "none"]
RecordCmd(r) == [kind |-> "record", rec |-> r]
SealCmd(who) == [kind |-> "seal", who |-> who]
FlushCmd == [kind |-> "flush"]

Idle == [pc |-> "idle", snap |-> {}, before |-> {}, after |-> {}]
NoRetention == [pc |-> "idle", guard |-> FALSE, cutoff |-> 0, paths |-> {}]

Up == phase # "down"
Durable == spool \cup ch

EmptySegment == [recs |-> <<>>, vis |-> 0, syn |-> 0, torn |-> FALSE]

(* The records of a segment that a new file descriptor can read.           *)
Visible(seg) == SubSeq(seg.recs, 1, seg.vis - HeaderSize)

RowsOf(s) == {<<r, s>> : r \in ToSet(Visible(segs[s]))}

list_segments == DOMAIN segs

LatestSegment == IF list_segments = {} THEN 0 ELSE Max(list_segments)

FileBytes(seg) == Len(seg.recs) + HeaderSize

(* Bytes in the directory, each one named by its file and its offset.      *)
directory_bytes(files) ==
    Cardinality(UNION {{s} \X (1..files[s].vis) : s \in DOMAIN files})
-----------------------------------------------------------------------------
(***************************************************************************)
(* SegmentStore: the callers' side of the queue.                           *)
(***************************************************************************)
Enqueue(c) ==
    /\ wpc # "stopped"
    /\ Len(rx) < Capacity
    /\ rx' = Append(rx, c)

(* SegmentStore::append by the L7 workers.                                 *)
AppendRecord(r) ==
    /\ phase = "running"
    /\ r \notin accepted
    /\ Enqueue(RecordCmd(r))
    /\ accepted' = accepted \cup {r}
    /\ replay' = [replay EXCEPT !.after =
                    IF replay.pc = "idle" THEN {} ELSE @ \cup {r}]
    /\ UNCHANGED <<phase, bounds, segs, nextSeg, marker, writerVars, todo,
                   metaVars, retention, cutoff>>

(* Slip: the replay task does not take the gate.                           *)
ReadGuardNone == TRUE

(* maintenance.read() succeeds.                                            *)
ReadGuard == ~retention.guard

(* snapshot_for_replay called by the replay task, which holds the read     *)
(* guard from here to the end of the job.                                  *)
ReplaySeal ==
    /\ phase = "running" /\ replay.pc = "idle" /\ ReadGuard
    /\ seals < MaxSeals
    /\ Enqueue(SealCmd("replay"))
    /\ seals' = seals + 1
    /\ replay' = [pc |-> "sealing", snap |-> {}, before |-> accepted,
                  after |-> {}]
    /\ UNCHANGED <<phase, starts, segs, nextSeg, marker, writerVars, todo,
                   metaVars, retention, historyVars>>

(* The job has scanned its snapshot, or the seal failed.                   *)
ReplayDone ==
    /\ replay.pc \in {"scanning", "failed"}
    /\ replay' = Idle
    /\ UNCHANGED <<phase, bounds, storeVars, writerVars, todo, metaVars,
                   retention, historyVars>>
-----------------------------------------------------------------------------
(***************************************************************************)
(* Retention: management_cleanup, retention_candidates, delete_segments.   *)
(***************************************************************************)

(* Take the write guard and seal the active segment.                       *)
RetentionSeal(c) ==
    /\ phase = "running" /\ retention.pc = "idle" /\ replay.pc = "idle"
    /\ seals < MaxSeals
    /\ Enqueue(SealCmd("retention"))
    /\ seals' = seals + 1
    /\ retention' = [pc |-> "sealing", guard |-> TRUE, cutoff |-> c, paths |-> {}]
    /\ UNCHANGED <<phase, starts, segs, nextSeg, marker, writerVars, todo,
                   metaVars, replay, historyVars>>

(* retention_candidates: the newest record is older than the cutoff, or    *)
(* there is none.                                                          *)
Expired(s, c) == \A r \in ToSet(Visible(segs[s])) : r < c

(* Scan the sealed segments for the candidates.                            *)
RetentionScan ==
    /\ retention.pc = "scan"
    /\ retention' = [retention EXCEPT
          !.pc = "barrier", !.paths = {s \in @ : Expired(s, retention.cutoff)}]
    /\ UNCHANGED <<phase, bounds, storeVars, writerVars, todo, metaVars,
                   replay, historyVars>>

(* MetadataSink::barrier: every row sent so far is in ClickHouse.          *)
RetentionBarrier ==
    /\ retention.pc = "barrier"
    /\ \/ /\ metaUp
          /\ ch' = ch \cup spool \cup meta
          /\ spool' = {} /\ meta' = {}
          /\ retention' = [retention EXCEPT !.pc = "mutate"]
       \/ /\ ~metaUp
          /\ retention' = NoRetention
          /\ UNCHANGED <<meta, spool, ch>>
    /\ UNCHANGED <<phase, bounds, storeVars, writerVars, todo, metaUp,
                   replay, historyVars>>

(* ClickHouseStore::delete_before.                                         *)
RetentionMutate ==
    /\ retention.pc = "mutate"
    /\ ch' = {row \in ch : row[1] >= retention.cutoff}
    /\ cutoff' = Max({cutoff, retention.cutoff})
    /\ retention' = [retention EXCEPT !.pc = "delete"]
    /\ UNCHANGED <<phase, bounds, storeVars, writerVars, todo, metaUp,
                   meta, spool, replay, accepted>>

(* delete_segments, one file at a time.                                    *)
RetentionDelete ==
    /\ retention.pc = "delete"
    /\ IF retention.paths = {}
       THEN retention' = NoRetention /\ UNCHANGED <<segs, accepted>>
       ELSE LET s == Min(retention.paths) IN
            /\ segs' = [t \in list_segments \ {s} |-> segs[t]]
            /\ retention' = [retention EXCEPT !.paths = @ \ {s}]
            /\ accepted' = accepted \ ToSet(segs[s].recs)
    /\ UNCHANGED <<phase, bounds, rx, nextSeg, marker, writerVars, todo,
                   metaVars, replay, cutoff>>

(* The client of the cleanup request goes away: the handler is dropped at  *)
(* the await it has reached, and with it the write guard.  The blocking    *)
(* task it was waiting for, if any, runs to its end.                       *)
RetentionDropped ==
    /\ Disconnects /\ retention.guard
    /\ retention' = IF retention.pc = "delete"
                    THEN [retention EXCEPT !.guard = FALSE]
                    ELSE NoRetention
    /\ rx' = [i \in DOMAIN rx |-> IF rx[i] = SealCmd("retention")
                                  THEN SealCmd("nobody") ELSE rx[i]]
    /\ cmd' = IF cmd = SealCmd("retention") THEN SealCmd("nobody") ELSE cmd
    /\ UNCHANGED <<phase, bounds, segs, nextSeg, marker, wpc, then, active,
                   pending, retained_bytes, todo, metaVars, replay,
                   historyVars>>
-----------------------------------------------------------------------------
(***************************************************************************)
(* The segment-writer thread.                                              *)
(***************************************************************************)
(* Slip: rows are published while their records are in the BufWriter.      *)
FlushedNot(seg) == seg

Flushed(seg) == [seg EXCEPT !.vis = FileBytes(seg)]
Synced(seg) == [seg EXCEPT !.vis = FileBytes(seg), !.syn = FileBytes(seg)]

flush_visible == segs' = [segs EXCEPT ![active] = Flushed(@)]

(* Slip: a rotation flushes the old segment without syncing it.            *)
FlushNoSync == flush_visible

flush_sync == segs' = [segs EXCEPT ![active] = Synced(@)]

(* create_segment and write_header, the header still in the BufWriter.     *)
OpenSegment(fs) ==
    /\ segs' = [s \in DOMAIN fs \cup {nextSeg} |->
                   IF s = nextSeg THEN EmptySegment ELSE fs[s]]
    /\ active' = nextSeg
    /\ nextSeg' = nextSeg + 1
    /\ retained_bytes' = retained_bytes + HeaderSize

(* ActiveWriter::new, when the thread starts.                              *)
WriterInit ==
    /\ Up /\ wpc = "init"
    /\ OpenSegment(segs)
    /\ wpc' = "recv"
    /\ UNCHANGED <<phase, bounds, rx, marker, then, cmd, pending, todo,
                   metaVars, userVars, historyVars>>

(* Slip: a stopping writer leaves its callers waiting.                     *)
ReplyErrNone(cs) == UNCHANGED userVars

(* The callers of the commands in cs are told that they failed.            *)
ReplyErr(cs) ==
    /\ replay' = IF SealCmd("replay") \in cs
                 THEN [replay EXCEPT !.pc = "failed"] ELSE replay
    /\ retention' = IF SealCmd("retention") \in cs THEN NoRetention
                    ELSE retention

(* fatal: the loop is left for the final flush_and_publish.                *)
LeaveLoop ==
    /\ flush_sync
    /\ wpc' = "publish" /\ then' = "stop"
    /\ cmd' = NoCmd
    /\ UNCHANGED <<phase, bounds, nextSeg, marker, active, pending,
                   retained_bytes, todo, metaVars, historyVars>>

needs_rotation ==
    /\ FileBytes(segs[active]) > HeaderSize
    /\ FileBytes(segs[active]) + 1 > MaxBytes

(* prepare_record and check_rotation_budget.                               *)
Required == 1 + (IF needs_rotation THEN HeaderSize ELSE 0)
OverBudget == retained_bytes + Required > StoreMaxBytes

Receive(kind) ==
    /\ Up /\ wpc = "recv" /\ rx # <<>> /\ Head(rx).kind = kind
    /\ rx' = Tail(rx)

RecordOverBudget ==
    /\ Receive("record") /\ OverBudget
    /\ LeaveLoop
    /\ UNCHANGED userVars

(* The record fits in the active segment.                                  *)
RecordFits ==
    /\ Receive("record") /\ ~OverBudget /\ ~needs_rotation
    /\ wpc' = "write" /\ cmd' = Head(rx)
    /\ UNCHANGED <<phase, bounds, segs, nextSeg, marker, then, active, pending,
                   retained_bytes, todo, metaVars, userVars, historyVars>>

(* commit_and_rotate up to the publication of the index rows.              *)
BeginCommit ==
    /\ flush_sync
    /\ wpc' = "publish" /\ then' = "commit" /\ cmd' = Head(rx)
    /\ UNCHANGED <<phase, bounds, nextSeg, marker, active, pending,
                   retained_bytes, todo, metaVars, userVars, historyVars>>

RecordRotates ==
    /\ Receive("record") /\ ~OverBudget /\ needs_rotation
    /\ BeginCommit

TakeSeal ==
    /\ Receive("seal")
    /\ BeginCommit

(* write_prepared; the 512th pending index row forces a visibility flush.  *)
WriteRecord ==
    /\ wpc = "write"
    /\ LET seg == [segs[active] EXCEPT !.recs = Append(@, cmd.rec)]
           full == Len(pending) + 1 >= PendingMax
       IN  /\ segs' = [segs EXCEPT ![active] = IF full THEN Flushed(seg) ELSE seg]
           /\ wpc' = IF full THEN "publish" ELSE "recv"
    /\ then' = "recv"
    /\ pending' = Append(pending, <<cmd.rec, active>>)
    /\ retained_bytes' = retained_bytes + 1
    /\ cmd' = NoCmd
    /\ UNCHANGED <<phase, bounds, rx, nextSeg, marker, active, todo,
                   metaVars, userVars, historyVars>>

(* The flush asked for by the rebuild of the whole index.                  *)
TakeFlush ==
    /\ Receive("flush")
    /\ flush_visible
    /\ wpc' = "publish" /\ then' = "recv" /\ cmd' = Head(rx)
    /\ UNCHANGED <<phase, bounds, nextSeg, marker, active, pending,
                   retained_bytes, todo, metaVars, userVars, historyVars>>

(* Slip: index rows wait for the 512th.                                    *)
TickNever == FALSE /\ UNCHANGED vars

(* recv_timeout ran out: publish what is pending.                          *)
Tick ==
    /\ Up /\ wpc = "recv" /\ rx = <<>> /\ pending # <<>>
    /\ flush_visible
    /\ wpc' = "publish" /\ then' = "recv"
    /\ UNCHANGED <<phase, bounds, rx, nextSeg, marker, cmd, active, pending,
                   retained_bytes, todo, metaVars, userVars, historyVars>>

(* It ran out with nothing pending after the shutdown flag was set.        *)
TickStop ==
    /\ phase = "closing" /\ wpc = "recv" /\ rx = <<>> /\ pending = <<>>
    /\ LeaveLoop
    /\ UNCHANGED <<rx, userVars>>

(* flush_and_publish hands one pending row to the metadata channel.        *)
PublishRow ==
    /\ Up /\ wpc = "publish" /\ pending # <<>> /\ metaUp
    /\ meta' = meta \cup {Head(pending)}
    /\ pending' = Tail(pending)
    /\ UNCHANGED <<phase, bounds, storeVars, wpc, then, cmd, active,
                   retained_bytes, todo, metaUp, spool, ch, userVars,
                   historyVars>>

(* All rows are published; a Flush is answered.                            *)
PublishDone ==
    /\ Up /\ wpc = "publish" /\ pending = <<>> /\ then # "stop"
    /\ wpc' = then
    /\ cmd' = IF then = "recv" THEN NoCmd ELSE cmd
    /\ phase' = IF cmd = FlushCmd THEN "rebuild" ELSE phase
    /\ todo' = IF cmd = FlushCmd THEN UNION {RowsOf(s) : s \in list_segments}
               ELSE todo
    /\ UNCHANGED <<bounds, storeVars, then, active, pending, retained_bytes,
                   metaVars, userVars, historyVars>>

(* The thread ends; the queue and the replies in it are dropped.           *)
StopWriter ==
    /\ Up /\ wpc = "publish" /\ then = "stop"
    /\ pending = <<>> \/ ~metaUp
    /\ wpc' = "stopped"
    /\ rx' = <<>>
    /\ ReplyErr(ToSet(rx))
    /\ UNCHANGED <<phase, bounds, segs, nextSeg, marker, then, cmd, active,
                   pending, retained_bytes, todo, metaVars, historyVars>>

(* durable_barrier: every row sent so far is in the spool.                 *)
DurableBarrier(rows) == spool' = spool \cup rows /\ meta' = meta \ rows

(* Slip: the rotation does not wait for the index rows to be durable.      *)
CommitBarrierSkipped ==
    /\ Up /\ wpc = "commit" /\ metaUp
    /\ wpc' = "rotate"
    /\ UNCHANGED <<phase, bounds, storeVars, then, cmd, active, pending,
                   retained_bytes, todo, metaVars, userVars, historyVars>>

(* The barrier inside commit_and_rotate.                                   *)
CommitBarrier ==
    /\ Up /\ wpc = "commit" /\ metaUp
    /\ DurableBarrier(meta)
    /\ wpc' = "rotate"
    /\ UNCHANGED <<phase, bounds, storeVars, then, cmd, active, pending,
                   retained_bytes, todo, metaUp, ch, userVars, historyVars>>

(* The metadata writer has stopped: the send or the barrier fails.         *)
MetadataGone ==
    /\ Up /\ ~metaUp
    /\ \/ wpc = "publish" /\ pending # <<>> /\ then # "stop"
       \/ wpc = "commit"
    /\ LeaveLoop
    /\ ReplyErr({cmd})
    /\ UNCHANGED rx

(* Slip: the new active segment is part of the snapshot.                   *)
SealReplyAll == DOMAIN segs'

(* What a Seal is answered: every segment but the new active one.          *)
SealReply == DOMAIN segs' \ {active'}

(* rotate_after_commit: the next segment is opened; a Seal is answered.    *)
Rotate ==
    /\ Up /\ wpc = "rotate"
    /\ retained_bytes + HeaderSize <= StoreMaxBytes
    /\ OpenSegment(segs)
    /\ wpc' = IF cmd.kind = "record" THEN "write" ELSE "recv"
    /\ cmd' = IF cmd.kind = "record" THEN cmd ELSE NoCmd
    /\ replay' = IF cmd = SealCmd("replay")
                 THEN [replay EXCEPT !.pc = "scanning", !.snap = SealReply]
                 ELSE replay
    /\ retention' = IF cmd = SealCmd("retention")
                    THEN [retention EXCEPT !.pc = "scan", !.paths = SealReply]
                    ELSE retention
    /\ UNCHANGED <<phase, bounds, rx, marker, then, pending, todo,
                   metaVars, historyVars>>

RotateOverBudget ==
    /\ Up /\ wpc = "rotate"
    /\ retained_bytes + HeaderSize > StoreMaxBytes
    /\ LeaveLoop
    /\ ReplyErr({cmd})
    /\ UNCHANGED rx
-----------------------------------------------------------------------------
(***************************************************************************)
(* The metadata pipeline, as far as this module needs it.                  *)
(***************************************************************************)

(* The metadata writer spools a batch; batches are taken here row by row.  *)
MetaSpool ==
    /\ metaUp
    /\ \E row \in meta : DurableBarrier({row})
    /\ UNCHANGED <<phase, bounds, storeVars, writerVars, todo, metaUp, ch,
                   userVars, historyVars>>

(* The projector copies it to ClickHouse.                                  *)
Project ==
    /\ metaUp
    /\ \E row \in spool : spool' = spool \ {row} /\ ch' = ch \cup {row}
    /\ UNCHANGED <<phase, bounds, storeVars, writerVars, todo, metaUp,
                   meta, userVars, historyVars>>

(* The metadata writer stops on an error; what its channel held is lost.   *)
MetaStop ==
    /\ "meta" \in Faults /\ phase \in {"running", "closing"} /\ metaUp
    /\ metaUp' = FALSE
    /\ meta' = {}
    /\ UNCHANGED <<phase, bounds, storeVars, writerVars, todo, spool, ch,
                   userVars, historyVars>>
-----------------------------------------------------------------------------
(***************************************************************************)
(* Startup, shutdown and death of the process.                             *)
(***************************************************************************)
(* recover_last_segment_tail: a file without a whole header is removed, a  *)
(* partial record is cut off and the rest synced.                          *)
recover_last_segment_tail ==
    IF list_segments = {} THEN segs
    ELSE LET s == LatestSegment IN
         IF segs[s].vis < HeaderSize
         THEN Restrict(segs, list_segments \ {s})
         ELSE IF segs[s].torn
              THEN [segs EXCEPT ![s] = Synced([segs[s] EXCEPT !.torn = FALSE])]
              ELSE segs

(* The rows of the segment that was newest when the process started.       *)
RecoveryRows(fs) ==
    IF LatestSegment \in DOMAIN fs
    THEN {<<r, LatestSegment>> : r \in ToSet(Visible(fs[LatestSegment]))}
    ELSE {}

(* StorageRuntime::start up to the recovery of the index: the newest       *)
(* segment is noted, then SegmentStore::open recovers the tail, counts the *)
(* directory and starts the writer thread.                                 *)
Start ==
    /\ phase = "down" /\ starts < MaxStarts
    /\ segs' = recover_last_segment_tail
    /\ directory_bytes(segs') <= StoreMaxBytes
    /\ retained_bytes' = directory_bytes(segs')
    /\ starts' = starts + 1
    /\ metaUp' = TRUE
    /\ wpc' = "init"
    /\ IF marker
       THEN phase' = "rebuild" /\ todo' = RecoveryRows(segs') /\ rx' = <<>>
       ELSE phase' = "flushing" /\ todo' = {} /\ rx' = <<FlushCmd>>
    /\ UNCHANGED <<seals, nextSeg, marker, then, cmd, active, pending, meta,
                   spool, ch, userVars, historyVars>>

(* rebuild_index_path sends one index row.                                 *)
RebuildRow ==
    /\ phase = "rebuild" /\ todo # {}
    /\ \E row \in todo :
          /\ meta' = meta \cup {row}
          /\ todo' = todo \ {row}
    /\ UNCHANGED <<phase, bounds, storeVars, writerVars, metaUp,
                   spool, ch, userVars, historyVars>>

(* The durable barrier behind the rebuild; a full one writes the marker    *)
(* before the second barrier.                                              *)
RebuildBarrier ==
    /\ phase = "rebuild" /\ todo = {}
    /\ DurableBarrier(meta)
    /\ phase' = IF marker THEN "running" ELSE "marker"
    /\ UNCHANGED <<bounds, storeVars, writerVars, todo, metaUp, ch,
                   userVars, historyVars>>

WriteMarker ==
    /\ phase = "marker"
    /\ marker' = TRUE
    /\ phase' = "running"
    /\ UNCHANGED <<bounds, rx, segs, nextSeg, writerVars, todo, metaVars,
                   userVars, historyVars>>

(* Nothing in memory survives the process, and its queued metadata neither.*)
ProcessGone(fs) ==
    /\ phase' = "down"
    /\ segs' = fs
    /\ accepted' = {r \in accepted : \E s \in DOMAIN fs : r \in ToSet(fs[s].recs)}
    /\ rx' = <<>> /\ cmd' = NoCmd /\ wpc' = "stopped" /\ then' = "recv"
    /\ active' = 0 /\ pending' = <<>> /\ retained_bytes' = 0
    /\ todo' = {}
    /\ metaUp' = FALSE
    /\ replay' = Idle /\ retention' = NoRetention
    /\ UNCHANGED <<starts, seals, nextSeg, marker, cutoff>>

(* What a crash leaves of a segment: vis bytes, of which syn are on disk,  *)
(* and part of the next record when torn.                                  *)
Cut(seg, vis, syn, torn) ==
    [recs |-> SubSeq(seg.recs, 1, vis - HeaderSize), vis |-> vis, syn |-> syn,
     torn |-> torn]

Crash(kind) == Up /\ kind \in Faults /\ meta' = {} /\ UNCHANGED <<spool, ch>>

(* The process is killed, or fails to start: what left the BufWriter       *)
(* stays, and a BufWriter that holds records may have spilled part of them.*)
Kill ==
    /\ Crash(IF phase \in {"running", "closing"} THEN "kill" ELSE "startup")
    /\ IF active \notin list_segments THEN ProcessGone(segs)
       ELSE LET seg == segs[active] IN
            \E vis \in seg.vis .. FileBytes(seg), torn \in BOOLEAN :
                /\ seg.recs = <<>> => vis = seg.vis
                /\ torn => vis \in HeaderSize .. FileBytes(seg) - 1
                /\ ProcessGone([segs EXCEPT
                                  ![active] = Cut(seg, vis, seg.syn, torn)])

(* The machine loses power: every segment keeps what was synced and some   *)
(* prefix of the rest.                                                     *)
PowerFailure ==
    /\ Crash("power") /\ phase \in {"running", "closing"}
    /\ \E cut \in [list_segments ->
                      0 .. Max({FileBytes(segs[s]) : s \in list_segments} \cup {0})] :
          /\ \A s \in list_segments : cut[s] \in segs[s].syn .. FileBytes(segs[s])
          /\ \E torn \in SUBSET {s \in list_segments :
                                   cut[s] \in HeaderSize .. FileBytes(segs[s]) - 1} :
                ProcessGone([s \in list_segments |->
                    Cut(segs[s], cut[s], cut[s], s \in torn)])

(* Shutdown begins after the producers, replay and the API have stopped,   *)
(* on a signal or because the supervisor saw a writer finish.              *)
BeginShutdown ==
    /\ phase = "running"
    /\ replay.pc = "idle" /\ retention.pc = "idle"
    /\ phase' = "closing"
    /\ UNCHANGED <<bounds, storeVars, writerVars, todo, metaVars,
                   userVars, historyVars>>

(* The writer thread has been joined; a last durable barrier and exit.     *)
Exit ==
    /\ phase = "closing" /\ wpc = "stopped"
    /\ spool' = spool \cup meta /\ meta' = {}
    /\ ProcessGone(segs)
    /\ UNCHANGED ch
-----------------------------------------------------------------------------
(* The first start, on an empty directory.                                 *)
Init ==
    /\ phase = "down" /\ starts = 0 /\ seals = 0
    /\ rx = <<>> /\ segs = <<>> /\ nextSeg = 1 /\ marker = FALSE
    /\ wpc = "stopped" /\ then = "recv" /\ cmd = NoCmd /\ active = 0
    /\ pending = <<>> /\ retained_bytes = 0
    /\ todo = {}
    /\ metaUp = FALSE /\ meta = {} /\ spool = {} /\ ch = {}
    /\ replay = Idle /\ retention = NoRetention
    /\ accepted = {} /\ cutoff = 0

WriterStep ==
    \/ WriterInit
    \/ RecordOverBudget \/ RecordFits \/ RecordRotates \/ WriteRecord
    \/ TakeSeal \/ TakeFlush \/ Tick \/ TickStop
    \/ PublishRow \/ PublishDone \/ CommitBarrier \/ Rotate
    \/ RotateOverBudget \/ MetadataGone \/ StopWriter

StartStep == RebuildRow \/ RebuildBarrier \/ WriteMarker

RetentionStep ==
    RetentionScan \/ RetentionBarrier \/ RetentionMutate \/ RetentionDelete

UserStep ==
    \/ \E r \in Records : AppendRecord(r)
    \/ \E c \in Cutoffs : RetentionSeal(c)
    \/ ReplaySeal \/ RetentionDropped

Next ==
    \/ WriterStep \/ StartStep \/ RetentionStep \/ UserStep \/ ReplayDone
    \/ MetaSpool \/ Project \/ MetaStop
    \/ Start \/ BeginShutdown \/ Exit \/ Kill \/ PowerFailure

(* Threads and tasks that keep being scheduled; MetadataPipeline shows     *)
(* that the metadata writer gets to its batches.                           *)
Fairness ==
    /\ WF_vars(WriterStep) /\ WF_vars(StartStep) /\ WF_vars(MetaSpool)
    /\ WF_vars(RetentionStep)

Spec == Init /\ [][Next]_vars /\ Fairness
-----------------------------------------------------------------------------
(***************************************************************************)
(* Properties.                                                             *)
(***************************************************************************)
Rows == Records \X Nat
Commands == {RecordCmd(r) : r \in Records} \cup {FlushCmd, NoCmd}
              \cup {SealCmd(w) : w \in {"replay", "retention", "nobody"}}

(* Every variable has its type; the file a running writer writes exists.   *)
TypeOK ==
    /\ phase \in {"down", "flushing", "rebuild", "marker", "running", "closing"}
    /\ starts \in 0..MaxStarts /\ seals \in 0..MaxSeals
    /\ rx \in Seq(Commands) /\ Len(rx) <= Capacity
    /\ \A s \in DOMAIN segs :
          /\ s \in 1..(nextSeg - 1)
          /\ segs[s].recs \in Seq(Records) /\ segs[s].torn \in BOOLEAN
          /\ 0 <= segs[s].syn /\ segs[s].syn <= segs[s].vis
          /\ segs[s].vis <= FileBytes(segs[s])
    /\ nextSeg \in Nat /\ marker \in BOOLEAN
    /\ wpc \in {"init", "recv", "write", "publish", "commit", "rotate", "stopped"}
    /\ then \in {"recv", "commit", "stop"} /\ cmd \in Commands
    /\ wpc \notin {"init", "stopped"} => active \in DOMAIN segs
    /\ pending \in Seq(Rows) /\ Len(pending) <= PendingMax
    /\ retained_bytes \in Nat
    /\ todo \subseteq Rows /\ meta \subseteq Rows /\ spool \subseteq Rows
    /\ ch \subseteq Rows /\ metaUp \in BOOLEAN
    /\ replay.pc \in {"idle", "sealing", "scanning", "failed"}
    /\ retention.pc \in {"idle", "sealing", "scan", "barrier", "mutate", "delete"}
    /\ accepted \subseteq Records /\ cutoff \in Cutoffs \cup {0}

(* An index row never points at bytes a reader cannot find: not at a       *)
(* BufWriter-only tail (segment.rs:39-43), not at a segment retention has  *)
(* removed (ARCHITECTURE.md:199), and not after the process was killed.    *)
NoRowWithoutPayload ==
    \A row \in meta \cup spool \cup ch :
        row[2] \in list_segments /\ row[1] \in ToSet(Visible(segs[row[2]]))

(* Once the store runs, every record of every segment but the active one   *)
(* has a durable index row, or one that retention has deleted, through any *)
(* rotation, crash and restart (segment.rs:503-505).                       *)
ClosedSegmentsIndexed ==
    phase \in {"running", "closing"} =>
        \A s \in list_segments \ {active} : \A r \in ToSet(Visible(segs[s])) :
            <<r, s>> \in Durable \/ r < cutoff

(* Only the newest segment can be incomplete, so recovery need look at no  *)
(* other and a scan of an older one never fails (segment.rs:837-840).      *)
ClosedSegmentsReadable ==
    \A s \in list_segments \ {LatestSegment} :
        segs[s].vis = FileBytes(segs[s]) /\ ~segs[s].torn

Snapshot ==
    UNION {ToSet(Visible(segs[s])) : s \in replay.snap \cap list_segments}

(* A replay snapshot holds every record accepted before the seal and none  *)
(* accepted after it (segment.rs:254-257); the store stays well formed.    *)
SnapshotExact ==
    /\ TypeOK
    /\ replay.pc = "scanning" =>
         replay.before \subseteq Snapshot /\ replay.after \cap Snapshot = {}

(* No payload file is deleted underneath a replay (ARCHITECTURE.md:199).   *)
ReplaySegmentsPresent == replay.pc = "scanning" => replay.snap \subseteq list_segments

(* An accepted record gets its durable index row, unless the process or    *)
(* its metadata writer stops first.                                        *)
AcceptedIsIndexed ==
    \A r \in Records :
        r \in accepted ~> \/ \E s \in list_segments : <<r, s>> \in Durable
                          \/ phase # "running" \/ wpc = "stopped" \/ ~metaUp
                          \/ r \notin accepted \/ r < cutoff

(* snapshot_for_replay returns, also when the writer fails with the        *)
(* request in its queue.                                                   *)
SealAnswered == replay.pc = "sealing" ~> replay.pc # "sealing"
=============================================================================
