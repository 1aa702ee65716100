-------------------------- MODULE MetadataPipeline --------------------------
(***************************************************************************)
(* The metadata write path of StorageRuntime (src/src/storage/mod.rs) and  *)
(* the MetadataSpool it writes through (src/src/storage/spool.rs).         *)
(*                                                                         *)
(* Producers send events over one bounded channel.  A writer task batches  *)
(* them and publishes each batch as one numbered file of the spool         *)
(* directory (temp file, fsync, rename, directory fsync).  A projector     *)
(* task copies the files to ClickHouse in sequence order and retires them. *)
(* A barrier sent down the same channel is answered once everything        *)
(* ordered before it is in the spool (durable barrier) or in ClickHouse    *)
(* (projected barrier).  The process may die, or the machine lose power,   *)
(* between any two steps.                                                  *)
(*                                                                         *)
(* Data: an event is an opaque identity, a batch is the set of its events  *)
(* and weighs one byte per event.  All four ClickHouse tables are          *)
(* ReplacingMergeTree keyed by identity, so ClickHouse is a set of rows.   *)
(***************************************************************************)
EXTENDS Integers, Sequences, FiniteSets, Functions, FiniteSetsExt

CONSTANTS
    Events,      \* identities of metadata events
    Clients,     \* callers of MetadataSink::barrier / durable_barrier
    Main,        \* the caller that runs StorageRuntime::shutdown
    Capacity,    \* cfg.storage_capacity, the bound of the command channel
    BatchMax,    \* events in one batch (2048 in the code)
    MaxBytes,    \* cfg.metadata_spool_max_bytes
    MaxFaults    \* model bound: I/O errors, process deaths, power failures

ASSUME CapacityAssumption == Capacity \in Nat \ {0}
ASSUME BatchMaxAssumption == BatchMax \in Nat \ {0}
ASSUME MaxBytesAssumption == MaxBytes \in Nat \ {0}
ASSUME MaxFaultsAssumption == MaxFaults \in Nat
ASSUME MainAssumption == Main \notin Clients

VARIABLES
    \* the process
    closing,      \* progress of shutdown(), "down" while no process runs
    rx,           \* the command channel, oldest first
    accepted,     \* history: events this process's sink has accepted
    reply,        \* what each barrier caller waits for or was told
    \* the writer task
    wpc,          \* where the writer is
    batch,        \* the batch it is collecting or appending
    barrier,      \* at most one barrier, the one that closed the batch
    next_sequence,
    durable_sequence_max,
    spool_bytes,  \* MetadataSpool.bytes
    \* the projector task and the tasks that wait for it
    ppc,          \* where the projector is
    sequence,     \* the sequence it works on
    pbatch,       \* the batch it has read
    projected_sequence,
    waiters,      \* pending projected barriers
    \* what outlives the process
    files,        \* the spool directory as processes see it
    images,       \* the directories a power failure may leave behind
    rows,         \* events that have a row in ClickHouse
    faults,
    \* history: events ordered before a barrier that was answered Ok
    durableAcked,
    projectedAcked

procVars   == <<closing, rx, accepted, reply>>
writerVars == <<wpc, batch, barrier, next_sequence, durable_sequence_max,
                spool_bytes>>
projVars   == <<ppc, sequence, pbatch, projected_sequence, waiters>>
diskVars   == <<files, images, rows, faults>>
ackVars    == <<durableAcked, projectedAcked>>
vars == <<procVars, writerVars, projVars, diskVars, ackVars>>

Callers == Clients \cup {Main}

(* MetadataCommand.  covers is a history field: the events that the        *)
(* channel ordered before the barrier.                                     *)
EventCmd   == [kind : {"event"}, event : Events]
BarrierCmd == [kind : {"barrier"}, client : Callers, projected : BOOLEAN,
               covers : SUBSET Events]
Waiter     == [client : Callers, covers : SUBSET Events, seq : Nat,
               behind : BOOLEAN]

EventsOf(f) == UNION {f[s] : s \in DOMAIN f}

(* The bytes of a spool directory, one per event of each file.             *)
BytesOf(f) == Cardinality(UNION {{s} \X f[s] : s \in DOMAIN f})

SaturatingSub(a, b) == IF a > b THEN a - b ELSE 0

Up == closing # "down"

(* One more fault of the environment.                                      *)
Fault == faults < MaxFaults /\ faults' = faults + 1
-----------------------------------------------------------------------------
(***************************************************************************)
(* MetadataSink: what the rest of the program calls.                       *)
(***************************************************************************)

(* MetadataSink::send: blocks while the channel is full, fails once the    *)
(* writer is gone.  Every event has a fresh identity, except that one a    *)
(* crash has lost may be produced again.                                   *)
Send(e) ==
    /\ closing = "running" /\ wpc # "stopped"
    /\ e \notin accepted \cup rows \cup EventsOf(files)
    /\ Len(rx) < Capacity
    /\ rx' = Append(rx, [kind |-> "event", event |-> e])
    /\ accepted' = accepted \cup {e}
    /\ UNCHANGED <<closing, reply, writerVars, projVars, diskVars, ackVars>>

(* MetadataSink::barrier_inner up to the wait for the reply, by a caller   *)
(* that is not already waiting for one.                                    *)
SendBarrier(c, projected) ==
    /\ reply[c] \notin {"durable", "projected"}
    /\ IF wpc = "stopped"
       THEN /\ reply' = [reply EXCEPT ![c] = "err"]
            /\ UNCHANGED rx
       ELSE /\ Len(rx) < Capacity
            /\ rx' = Append(rx, [kind |-> "barrier", client |-> c,
                                 projected |-> projected, covers |-> accepted])
            /\ reply' = [reply EXCEPT
                            ![c] = IF projected THEN "projected" ELSE "durable"]
    /\ UNCHANGED <<accepted, writerVars, projVars, diskVars, ackVars>>

CallBarrier(c, projected) ==
    /\ closing = "running"
    /\ SendBarrier(c, projected)
    /\ UNCHANGED closing
-----------------------------------------------------------------------------
(***************************************************************************)
(* The writer task.                                                        *)
(***************************************************************************)

(* Take the oldest command: an event joins the batch and a barrier closes  *)
(* it.                                                                     *)
Receive ==
    /\ rx' = Tail(rx)
    /\ \/ /\ Head(rx).kind = "event"
          /\ batch' = batch \cup {Head(rx).event}
          /\ wpc' = "collect"
          /\ UNCHANGED barrier
       \/ /\ Head(rx).kind = "barrier"
          /\ barrier' = {Head(rx)}
          /\ wpc' = "append"
          /\ UNCHANGED batch
    /\ UNCHANGED <<closing, accepted, reply, next_sequence,
                   durable_sequence_max, spool_bytes, projVars, diskVars,
                   ackVars>>

(* The blocking recv that starts a round.                                  *)
RecvFirst ==
    /\ Up /\ wpc = "recv" /\ rx # <<>>
    /\ Receive

(* recv_timeout inside the coalescing window.                              *)
RecvMore ==
    /\ Up /\ wpc = "collect" /\ rx # <<>>
    /\ Cardinality(batch) < BatchMax
    /\ Receive

(* The batch is full, the window ran out, or every sender is gone.         *)
CloseBatch ==
    /\ Up /\ wpc = "collect"
    /\ wpc' = "append"
    /\ UNCHANGED <<procVars, batch, barrier, next_sequence,
                   durable_sequence_max, spool_bytes, projVars, diskVars,
                   ackVars>>

(* Slip: the commands still queued are left to wait for ever.              *)
StopWriterKeepsQueue ==
    /\ wpc' = "stopped"
    /\ UNCHANGED <<procVars, batch, barrier, next_sequence,
                   durable_sequence_max, spool_bytes, projVars, files, images,
                   rows, ackVars>>

(* The writer leaves its loop: the channel and the barrier it holds are    *)
(* dropped, and with them the reply senders of every barrier in them.      *)
StopWriter ==
    /\ wpc' = "stopped"
    /\ rx' = <<>>
    /\ batch' = {}
    /\ barrier' = {}
    /\ LET dropped == {b \in Range(rx) \cup barrier : b.kind = "barrier"}
       IN  reply' = [c \in Callers |->
                        IF \E b \in dropped : b.client = c
                        THEN "err" ELSE reply[c]]
    /\ UNCHANGED <<closing, accepted, next_sequence, durable_sequence_max,
                   spool_bytes, projVars, files, images, rows, ackVars>>

(* MetadataSpool::append refuses a batch that would exceed the quota.      *)
AppendOverQuota ==
    /\ Up /\ wpc = "append" /\ batch # {}
    /\ spool_bytes + Cardinality(batch) > MaxBytes
    /\ StopWriter
    /\ UNCHANGED faults

(* MetadataSpool::append up to the rename: the file is complete and synced *)
(* before it appears under its final name, but the directory entry is not  *)
(* durable yet.                                                            *)
AppendRename ==
    /\ Up /\ wpc = "append" /\ batch # {}
    /\ spool_bytes + Cardinality(batch) <= MaxBytes
    /\ files' = [s \in DOMAIN files \cup {next_sequence} |->
                    IF s = next_sequence THEN batch ELSE files[s]]
    /\ images' = images \cup {files'}
    /\ wpc' = "renamed"
    /\ UNCHANGED <<procVars, batch, barrier, next_sequence,
                   durable_sequence_max, spool_bytes, projVars, rows,
                   faults, ackVars>>

(* An I/O error before the rename, or at the directory fsync after it: in  *)
(* the second case the published file stays where it is.                   *)
AppendIoError ==
    /\ Up
    /\ \/ wpc = "append" /\ batch # {}
       \/ wpc = "renamed"
    /\ StopWriter
    /\ Fault

(* Answer the barrier that closed the batch, if one did: at once when it   *)
(* asked for local durability, through a waiter task when it asked for the *)
(* projection of everything up to durable_sequence.  behind: the waiter    *)
(* can find the projection short of that sequence at least once.           *)
AnswerBarrier(durable_sequence) ==
    /\ barrier' = {}
    /\ reply' = [c \in Callers |->
                    IF \E b \in barrier : b.client = c /\ ~b.projected
                    THEN "ok" ELSE reply[c]]
    /\ durableAcked' = durableAcked \cup
          UNION {b.covers : b \in {x \in barrier : ~x.projected}}
    /\ waiters' = waiters \cup
          {[client |-> b.client, covers |-> b.covers, seq |-> durable_sequence,
            behind |-> projected_sequence < durable_sequence] :
              b \in {x \in barrier : x.projected}}

(* Slip: append skips the fsync of the directory.                          *)
AppendCommitNoDirSync ==
    /\ Up /\ wpc = "renamed"
    /\ spool_bytes' = spool_bytes + Cardinality(batch)
    /\ durable_sequence_max' = next_sequence
    /\ next_sequence' = next_sequence + 1
    /\ batch' = {}
    /\ wpc' = "recv"
    /\ AnswerBarrier(next_sequence)
    /\ UNCHANGED <<closing, rx, accepted, ppc, sequence, pbatch,
                   projected_sequence, diskVars, projectedAcked>>

(* Slip: the waiter is given the sequence before this batch.               *)
AppendCommitStaleSequence ==
    /\ Up /\ wpc = "renamed"
    /\ images' = {files}
    /\ spool_bytes' = spool_bytes + Cardinality(batch)
    /\ durable_sequence_max' = next_sequence
    /\ next_sequence' = next_sequence + 1
    /\ batch' = {}
    /\ wpc' = "recv"
    /\ AnswerBarrier(next_sequence - 1)
    /\ UNCHANGED <<closing, rx, accepted, ppc, sequence, pbatch,
                   projected_sequence, files, rows, faults, projectedAcked>>

(* The directory fsync succeeded: count the bytes, publish the sequence to *)
(* the projector and answer the barrier.                                   *)
AppendCommit ==
    /\ Up /\ wpc = "renamed"
    /\ images' = {files}
    /\ spool_bytes' = spool_bytes + Cardinality(batch)
    /\ durable_sequence_max' = next_sequence
    /\ next_sequence' = next_sequence + 1
    /\ batch' = {}
    /\ wpc' = "recv"
    /\ AnswerBarrier(next_sequence)
    /\ UNCHANGED <<closing, rx, accepted, ppc, sequence, pbatch,
                   projected_sequence, files, rows, faults, projectedAcked>>

(* A barrier that starts a round finds nothing to append.                  *)
BarrierOnly ==
    /\ Up /\ wpc = "append" /\ batch = {}
    /\ wpc' = "recv"
    /\ AnswerBarrier(next_sequence - 1)
    /\ UNCHANGED <<closing, rx, accepted, batch, next_sequence,
                   durable_sequence_max, spool_bytes, ppc, sequence, pbatch,
                   projected_sequence, diskVars, projectedAcked>>

(* Every sender is gone and the channel is empty.                          *)
WriterDisconnected ==
    /\ closing = "dropped" /\ wpc = "recv" /\ rx = <<>>
    /\ wpc' = "stopped"
    /\ UNCHANGED <<procVars, batch, barrier, next_sequence,
                   durable_sequence_max, spool_bytes, projVars, diskVars,
                   ackVars>>
-----------------------------------------------------------------------------
(***************************************************************************)
(* The projector task and the tasks that wait for it.                      *)
(***************************************************************************)
ShutdownFlag == closing = "flagged"

(* Slip: the comparison with the durable maximum is off by one.            *)
PollOffByOne ==
    /\ Up /\ ppc = "poll" /\ ~ShutdownFlag
    /\ sequence < durable_sequence_max
    /\ \/ /\ sequence \notin DOMAIN files
          /\ ppc' = "stopped"
          /\ UNCHANGED pbatch
       \/ /\ sequence \in DOMAIN files
          /\ pbatch' = files[sequence]
          /\ ppc' = "loaded"
    /\ UNCHANGED <<procVars, writerVars, sequence, projected_sequence, waiters,
                   diskVars, ackVars>>

(* Look at the next committed sequence: a missing file stops the           *)
(* projector, otherwise its batch is read.                                 *)
Poll ==
    /\ Up /\ ppc = "poll" /\ ~ShutdownFlag
    /\ sequence <= durable_sequence_max
    /\ \/ /\ sequence \notin DOMAIN files
          /\ ppc' = "stopped"
          /\ UNCHANGED pbatch
       \/ /\ sequence \in DOMAIN files
          /\ pbatch' = files[sequence]
          /\ ppc' = "loaded"
    /\ UNCHANGED <<procVars, writerVars, sequence, projected_sequence, waiters,
                   diskVars, ackVars>>

StopProjector ==
    /\ ppc' = "stopped"
    /\ UNCHANGED <<procVars, writerVars, sequence, pbatch, projected_sequence,
                   waiters, files, images, rows, ackVars>>

(* The batch cannot be read, or remove fails before or after its unlink.   *)
ProjectorIoError ==
    /\ Up
    /\ \/ ppc = "poll" /\ sequence <= durable_sequence_max /\ ~ShutdownFlag
       \/ ppc \in {"inserted", "removed"}
    /\ StopProjector
    /\ Fault

(* Slip: the retry loop does not look at the flag.                         *)
SeeShutdownAtPollOnly ==
    /\ ShutdownFlag /\ ppc = "poll"
    /\ StopProjector
    /\ UNCHANGED faults

(* The shutdown flag is looked at before a batch is picked and before      *)
(* each attempt to insert it.                                              *)
SeeShutdown ==
    /\ ShutdownFlag /\ ppc \in {"poll", "loaded"}
    /\ StopProjector
    /\ UNCHANGED faults

(* insert_events succeeded.  It may have been in flight when the flag was  *)
(* raised.                                                                 *)
InsertOk ==
    /\ Up /\ ppc = "loaded"
    /\ rows' = rows \cup pbatch
    /\ ppc' = "inserted"
    /\ UNCHANGED <<procVars, writerVars, sequence, pbatch, projected_sequence,
                   waiters, files, images, faults, ackVars>>

(* Slip: a batch that fails to insert is skipped until the next start.     *)
InsertFailSkips ==
    /\ Up /\ ppc = "loaded"
    /\ \E part \in SUBSET pbatch : rows' = rows \cup part
    /\ sequence' = sequence + 1
    /\ ppc' = "poll"
    /\ UNCHANGED <<procVars, writerVars, pbatch, projected_sequence, waiters,
                   files, images, faults, ackVars>>

(* ClickHouse could not be initialised, or insert_events failed after some *)
(* of its tables took their rows: the same batch is tried again.           *)
InsertFail ==
    /\ Up /\ ppc = "loaded"
    /\ \E part \in SUBSET pbatch : rows' = rows \cup part
    /\ UNCHANGED <<procVars, writerVars, projVars, files, images, faults,
                   ackVars>>

(* MetadataSpool::remove unlinks the file ...                              *)
RemoveFile ==
    /\ Up /\ ppc = "inserted"
    /\ files' = Restrict(files, DOMAIN files \ {sequence})
    /\ images' = images \cup {files'}
    /\ ppc' = "removed"
    /\ UNCHANGED <<procVars, writerVars, sequence, pbatch, projected_sequence,
                   waiters, rows, faults, ackVars>>

(* ... syncs the directory and releases the bytes; then the projector      *)
(* publishes its progress and moves on.                                    *)
Retire ==
    /\ Up /\ ppc = "removed"
    /\ images' = {files}
    /\ spool_bytes' = SaturatingSub(spool_bytes, Cardinality(pbatch))
    /\ projected_sequence' = sequence
    /\ sequence' = sequence + 1
    /\ pbatch' = {}
    /\ ppc' = "poll"
    /\ UNCHANGED <<procVars, wpc, batch, barrier, next_sequence,
                   durable_sequence_max, waiters, files, rows, faults,
                   ackVars>>

FinishWaiter(w, outcome) ==
    /\ waiters' = waiters \ {w}
    /\ reply' = [reply EXCEPT ![w.client] = outcome]
    /\ UNCHANGED <<closing, rx, accepted, writerVars, ppc, sequence, pbatch,
                   projected_sequence, diskVars, durableAcked>>

(* The projection has reached the barrier's sequence.                      *)
WaiterOk(w) ==
    /\ Up
    /\ projected_sequence >= w.seq
    /\ FinishWaiter(w, "ok")
    /\ projectedAcked' = projectedAcked \cup w.covers

(* Slip: the waiter only ever looks at the projected sequence.             *)
WaiterErrNever(w) ==
    /\ Up /\ ppc = "stopped" /\ w.behind /\ w.seq = 0
    /\ FinishWaiter(w, "err")
    /\ UNCHANGED projectedAcked

(* The projector has stopped.  The waiter reads the projected sequence and *)
(* then the alive flag, so it may still hold a sequence that was too small *)
(* when the projector has since retired the batch and stopped.             *)
WaiterErr(w) ==
    /\ Up /\ ppc = "stopped" /\ w.behind
    /\ FinishWaiter(w, "err")
    /\ UNCHANGED projectedAcked
-----------------------------------------------------------------------------
(***************************************************************************)
(* StorageRuntime::shutdown, called after every producer has stopped.      *)
(***************************************************************************)
BeginShutdown ==
    /\ closing = "running"
    /\ \A c \in Clients : reply[c] \notin {"durable", "projected"}
    /\ SendBarrier(Main, FALSE)
    /\ closing' = "barrier"

DropSink ==
    /\ closing = "barrier" /\ reply[Main] # "durable"
    /\ closing' = "dropped"
    /\ UNCHANGED <<rx, accepted, reply, writerVars, projVars, diskVars, ackVars>>

(* The writer task has been joined.                                        *)
SetShutdownFlag ==
    /\ closing = "dropped" /\ wpc = "stopped"
    /\ closing' = "flagged"
    /\ UNCHANGED <<rx, accepted, reply, writerVars, projVars, diskVars, ackVars>>

(* The process is gone and with it everything it held in memory; the spool *)
(* directory is now img and, on a power failure, may be any of imgs.       *)
ProcessGone(img, imgs) ==
    /\ closing' = "down"
    /\ rx' = <<>>
    /\ accepted' = {}
    /\ reply' = [c \in Callers |-> "none"]
    /\ wpc' = "stopped" /\ batch' = {} /\ barrier' = {}
    /\ next_sequence' = 1 /\ durable_sequence_max' = 0 /\ spool_bytes' = 0
    /\ ppc' = "stopped" /\ sequence' = 1 /\ pbatch' = {}
    /\ projected_sequence' = 0 /\ waiters' = {}
    /\ files' = img
    /\ images' = imgs
    /\ UNCHANGED <<rows, ackVars>>

(* The projector task has been joined and shutdown returns.                *)
Exit ==
    /\ ShutdownFlag /\ ppc = "stopped"
    /\ ProcessGone(files, images)
    /\ UNCHANGED faults

(* The process is killed: the kernel keeps the directory.                  *)
Kill ==
    /\ Up
    /\ ProcessGone(files, images)
    /\ Fault

(* The machine loses power: directory operations since the last fsync      *)
(* survive as a prefix of the order they were issued in.                   *)
PowerFailure ==
    /\ Up
    /\ \E img \in images : ProcessGone(img, {img})
    /\ Fault

max_sequence == IF DOMAIN files = {} THEN 0 ELSE Max(DOMAIN files)

(* Slip: the projector starts at the first sequence ever used.             *)
StartFromOne ==
    /\ closing = "down"
    /\ BytesOf(files) <= MaxBytes
    /\ closing' = "running"
    /\ wpc' = "recv"
    /\ next_sequence' = max_sequence + 1
    /\ durable_sequence_max' = max_sequence
    /\ spool_bytes' = BytesOf(files)
    /\ ppc' = "poll"
    /\ sequence' = 1
    /\ projected_sequence' = 0
    /\ UNCHANGED <<rx, accepted, reply, batch, barrier, pbatch, waiters,
                   diskVars, ackVars>>

(* Slip: the bytes already in the spool are not counted.                   *)
StartUncounted ==
    LET first == IF DOMAIN files = {} THEN max_sequence + 1 ELSE Min(DOMAIN files)
    IN
    /\ closing = "down"
    /\ closing' = "running"
    /\ wpc' = "recv"
    /\ next_sequence' = max_sequence + 1
    /\ durable_sequence_max' = max_sequence
    /\ spool_bytes' = 0
    /\ ppc' = "poll"
    /\ sequence' = first
    /\ projected_sequence' = first - 1
    /\ UNCHANGED <<rx, accepted, reply, batch, barrier, pbatch, waiters,
                   diskVars, ackVars>>

(* StorageRuntime::start: MetadataSpool::open counts the bytes and refuses *)
(* a spool above its quota; the sequences resume from what the directory   *)
(* holds.                                                                  *)
Start ==
    LET first == IF DOMAIN files = {} THEN max_sequence + 1 ELSE Min(DOMAIN files)
    IN
    /\ closing = "down"
    /\ BytesOf(files) <= MaxBytes
    /\ closing' = "running"
    /\ wpc' = "recv"
    /\ next_sequence' = max_sequence + 1
    /\ durable_sequence_max' = max_sequence
    /\ spool_bytes' = BytesOf(files)
    /\ ppc' = "poll"
    /\ sequence' = first
    /\ projected_sequence' = first - 1
    /\ UNCHANGED <<rx, accepted, reply, batch, barrier, pbatch, waiters,
                   diskVars, ackVars>>
-----------------------------------------------------------------------------
(* The first start, on an empty spool and empty tables.                    *)
Init ==
    /\ closing = "running" /\ rx = <<>> /\ accepted = {}
    /\ reply = [c \in Callers |-> "none"]
    /\ wpc = "recv" /\ batch = {} /\ barrier = {}
    /\ next_sequence = 1 /\ durable_sequence_max = 0 /\ spool_bytes = 0
    /\ ppc = "poll" /\ sequence = 1 /\ pbatch = {} /\ projected_sequence = 0
    /\ waiters = {}
    /\ files = <<>> /\ images = {<<>>} /\ rows = {} /\ faults = 0
    /\ durableAcked = {} /\ projectedAcked = {}

WriterStep ==
    \/ RecvFirst \/ RecvMore \/ CloseBatch
    \/ AppendOverQuota \/ AppendRename \/ AppendCommit \/ BarrierOnly
    \/ WriterDisconnected

ProjectorStep == Poll \/ SeeShutdown \/ RemoveFile \/ Retire

WaiterStep == \E w \in waiters : WaiterOk(w) \/ WaiterErr(w)
(* The task of one waiter.                                                 *)
WaiterOf(c) == \E w \in waiters : w.client = c /\ (WaiterOk(w) \/ WaiterErr(w))

ShutdownStep == DropSink \/ SetShutdownFlag \/ Exit

ClientStep ==
    \/ \E e \in Events : Send(e)
    \/ \E c \in Clients, projected \in BOOLEAN : CallBarrier(c, projected)
    \/ BeginShutdown

FailureStep == AppendIoError \/ ProjectorIoError \/ Kill \/ PowerFailure

Next ==
    \/ ClientStep \/ WriterStep \/ WaiterStep
    \/ ProjectorStep \/ InsertOk \/ InsertFail
    \/ ShutdownStep \/ FailureStep \/ Start

(* Tasks the runtime keeps scheduling.  An attempt to insert returns (the  *)
(* client has a request timeout), so the projector gets to look at the     *)
(* flag, but nothing says that an attempt ever succeeds.                   *)
Fairness ==
    /\ WF_vars(WriterStep) /\ WF_vars(ProjectorStep)
    /\ \A c \in Callers : WF_vars(WaiterOf(c))
    /\ WF_vars(ShutdownStep)

Spec == Init /\ [][Next]_vars /\ Fairness

(* ClickHouse does not fail every attempt for ever.                        *)
ClickHouseAnswers == SF_vars(InsertOk)
-----------------------------------------------------------------------------
(***************************************************************************)
(* Safety.                                                                 *)
(***************************************************************************)

(* Spool directories: numbered files, from 1, each with a finite batch.    *)
IsSpool(f) ==
    /\ f \in [DOMAIN f -> SUBSET Events]
    /\ DOMAIN f \subseteq Nat \ {0}
    /\ \A s \in DOMAIN f : IsFiniteSet(f[s])

(* Every variable has its type and every batch is finite.                  *)
TypeOK ==
    /\ closing \in {"running", "barrier", "dropped", "flagged", "down"}
    /\ rx \in Seq(EventCmd \cup BarrierCmd)
    /\ accepted \in SUBSET Events
    /\ reply \in [Callers -> {"none", "durable", "projected", "ok", "err"}]
    /\ wpc \in {"recv", "collect", "append", "renamed", "stopped"}
    /\ batch \in SUBSET Events /\ IsFiniteSet(batch)
    /\ barrier \in SUBSET BarrierCmd
    /\ next_sequence \in Nat \ {0}
    /\ durable_sequence_max \in Nat
    /\ spool_bytes \in Nat
    /\ ppc \in {"poll", "loaded", "inserted", "removed", "stopped"}
    /\ sequence \in Nat \ {0}
    /\ pbatch \in SUBSET Events /\ IsFiniteSet(pbatch)
    /\ projected_sequence \in Nat
    /\ waiters \in SUBSET Waiter
    /\ IsSpool(files) /\ \A img \in images : IsSpool(img)
    /\ rows \in SUBSET Events
    /\ faults \in 0..MaxFaults
    /\ durableAcked \in SUBSET Events
    /\ projectedAcked \in SUBSET Events

(* durable_barrier: once it has answered Ok, every event ordered before it *)
(* is in ClickHouse or in every directory a power failure may leave, so no *)
(* crash loses it (storage/mod.rs:89-94; replay checkpoints and shutdown   *)
(* rest on it).                                                            *)
DurableBarrierSound ==
    \A img \in images : durableAcked \subseteq rows \cup EventsOf(img)

(* barrier: once it has answered Ok, every event ordered before it has its *)
(* row in ClickHouse (storage/mod.rs:83-87; retention deletes payload on   *)
(* the strength of it).                                                    *)
ProjectedBarrierSound == projectedAcked \subseteq rows

(* The projector never finds a committed sequence missing, whatever was    *)
(* removed, published, lost or renumbered since (storage/mod.rs:194-198    *)
(* treats that as fatal).                                                  *)
CommittedSequencePresent ==
    ppc = "poll" /\ sequence <= durable_sequence_max =>
        sequence \in DOMAIN files

(* Batches reach ClickHouse oldest first: while a file is in the spool no  *)
(* event of a later file has a row.  The flows table keeps the row that    *)
(* was inserted last, so a batch must not be inserted again after a newer  *)
(* one.  Stated of a single fault: open does not sync the directory, so a  *)
(* kill between an unlink and its fsync and a power failure after the next *)
(* batch is inserted bring the older batch back.                           *)
ProjectionInOrder ==
    faults <= 1 =>
        \A s, t \in DOMAIN files : s < t => files[t] \cap rows = {}

(* What a crash leaves never exceeds the quota, so that MetadataSpool::open*)
(* never refuses the program's own spool (spool.rs:50-54).                 *)
RestartNeverRefused == \A img \in images : BytesOf(img) <= MaxBytes

(***************************************************************************)
(* The invariant that makes the two barriers inductive, proved in          *)
(* MetadataPipelineProofs.                                                 *)
(***************************************************************************)
Contiguous(f) ==
    DOMAIN f = {} \/ \E lo, hi \in DOMAIN f : DOMAIN f = lo..hi

(* The sequences of the files in the spool, from where the two tasks are.  *)
Heads == CASE ppc = "removed" -> {sequence + 1}
           [] ppc = "stopped" -> {sequence, sequence + 1}
           [] OTHER -> {sequence}
Tails == CASE wpc = "renamed" -> {next_sequence}
           [] wpc = "stopped" -> {next_sequence - 1, next_sequence}
           [] OTHER -> {next_sequence - 1}

(* The directory is always one run of sequences that the counters of the   *)
(* writer and the projector delimit, whatever image of it a power failure  *)
(* leaves; nothing is held in memory while the process is down.            *)
SpoolShape ==
    /\ files \in images
    /\ \A img \in images : Contiguous(img)
    /\ ~Up => /\ rx = <<>> /\ accepted = {} /\ batch = {} /\ barrier = {}
              /\ waiters = {} /\ wpc = "stopped" /\ ppc = "stopped"
    /\ Up => /\ durable_sequence_max = next_sequence - 1
             /\ projected_sequence = sequence - 1
             /\ sequence <= next_sequence
             /\ ppc \in {"loaded", "inserted", "removed"} =>
                    sequence < next_sequence
             /\ \E lo \in Heads, hi \in Tails :
                    lo <= next_sequence /\ DOMAIN files = lo..hi
             /\ wpc = "renamed" => files[next_sequence] = batch
             /\ ppc = "loaded" => pbatch = files[sequence]
             /\ ppc = "inserted" => files[sequence] \subseteq rows

(* The events among the first n commands of the channel.                   *)
Queued(n) ==
    {e \in Events : \E i \in 1..n : rx[i].kind = "event" /\ rx[i].event = e}

(* What is projected, or in directory img, or ahead of command n + 1 on    *)
(* its way there.                                                          *)
Ahead(img, n) == rows \cup EventsOf(img) \cup batch \cup Queued(n)

(* The events a barrier vouches for stay ahead of it all the way.          *)
BarrierCoverage ==
    /\ wpc # "stopped" =>
        \A img \in images :
            /\ accepted \subseteq Ahead(img, Len(rx))
            /\ \A i \in 1..Len(rx) :
                  rx[i].kind = "barrier" => rx[i].covers \subseteq Ahead(img, i - 1)
            /\ \A b \in barrier : b.covers \subseteq Ahead(img, 0)
    /\ \A w \in waiters :
          /\ w.seq <= durable_sequence_max
          /\ w.covers \subseteq
                rows \cup UNION {files[s] : s \in {t \in DOMAIN files : t <= w.seq}}
-----------------------------------------------------------------------------
(* A durable barrier is always answered, through writer failures and       *)
(* ClickHouse outages alike.                                               *)
DurableBarrierAnswered ==
    \A c \in Callers : reply[c] = "durable" ~> reply[c] # "durable"

(* A projected barrier is answered unless ClickHouse fails for ever.       *)
ProjectedBarrierAnswered ==
    ClickHouseAnswers =>
        \A c \in Callers : reply[c] = "projected" ~> reply[c] # "projected"

(* A shutdown that has begun ends, even during a ClickHouse outage         *)
(* (storage/mod.rs:477-480).                                               *)
ShutdownEnds == closing = "barrier" ~> closing = "down"

(* An accepted event gets its row, unless ClickHouse fails for ever or the *)
(* process or one of its two tasks stops first.                            *)
AcceptedIsProjected ==
    ClickHouseAnswers =>
        \A e \in Events :
            e \in accepted ~> \/ e \in rows
                              \/ closing \notin {"running", "barrier"}
                              \/ wpc = "stopped" \/ ppc = "stopped"
=============================================================================
