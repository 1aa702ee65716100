----------------------------- MODULE ReplayJob -----------------------------
(***************************************************************************)
(* Historical scans as persistent jobs (src/replay/mod.rs, with the job    *)
(* table of src/storage/postgres.rs).                                      *)
(*                                                                         *)
(* A scheduler resumes the jobs the table holds, then coalesces requests   *)
(* into a new job over a snapshot of the segments. Of a job, a scan thread *)
(* deals the records of one segment after the other to match workers, by   *)
(* flow; the workers send hits to a collector, which sends them to the     *)
(* metadata writer. After each segment the thread waits for a barrier      *)
(* through the workers, one through the collector and one through the      *)
(* metadata writer, and reports progress, which the scheduler writes to    *)
(* the table. A shutdown pauses the job, a kill loses all but the tables,  *)
(* the segments and the events the metadata writer has made durable.       *)
(*                                                                         *)
(* A record may hold a hit of its own and may complete an occurrence begun *)
(* in the record before it of its flow. A pause under live pressure is a   *)
(* step not taken yet.                                                     *)
(***************************************************************************)
EXTENDS Integers, Sequences, FiniteSets

CONSTANTS
    Patterns,     \* revisions a request may name, each requested once
    Disabled,     \* those that are disabled
    SegmentOf,    \* segment number |-> its records [flow, own, cross]
    Sealed,       \* segments there are at the start
    Workers,      \* replay_workers, as 0 .. n - 1
    MaxLives,     \* bound: starts of the process
    MaxFaults     \* bound: failures of PostgreSQL, disk or metadata writer

ASSUME ReplayAssumption ==
    /\ Disabled \subseteq Patterns
    /\ SegmentOf \in Seq(Seq([flow : Nat, own : BOOLEAN, cross : BOOLEAN]))
    /\ Sealed \in Nat /\ Sealed <= Len(SegmentOf)
    /\ IsFiniteSet(Workers) /\ Workers # {} /\ Workers = 0 .. Cardinality(Workers) - 1
    /\ MaxLives \in Nat \ {0} /\ MaxFaults \in Nat

VARIABLES
    jobs,         \* table replay_jobs: [pats, paths, status, done, found]
    present,      \* segments on disk
    durable,      \* job |-> hits of it that are durable
    lives, faults, shutdown,
    requested,    \* patterns requested so far
    channel,      \* requests the scheduler has not taken
    sched,        \* the scheduler
    run,          \* the scan thread of the job under way
    work, dead,   \* queues of the match workers, workers that returned
    acks,         \* workers that answered the barrier
    hitq,         \* queue of the collector
    collected,    \* hits it has counted
    refused,      \* it has stopped, a hit of its being refused
    tails,        \* flows of which a worker holds a tail
    sent,         \* hits with the metadata writer, not durable yet
    metadata,     \* the metadata writer runs
    progress,     \* reports the scheduler has not read
    last,         \* the one it read last
    lost,         \* history: patterns dropped, or left to the next start, by a failure
    resumed,      \* history: job |-> numbers of segments done when it was resumed
    paused        \* history: a shutdown was asked for

table == <<jobs, present, requested, lost, resumed, paused>>
pool == <<work, dead, acks, tails>>
collector == <<hitq, collected, refused>>
scan == <<run, pool, collector, progress>>
env == <<lives, faults, shutdown, metadata>>
vars == <<table, durable, env, channel, sched, scan, sent, last>>

Barrier == [kind |-> "barrier"]
Unfinished(j) == jobs[j].status \in {"queued", "running"}
NoRun == [pc |-> "none"]
Idle == [pc |-> "idle"]
NoScan == /\ run' = NoRun /\ work' = [w \in Workers |-> <<>>] /\ dead' = {} /\ acks' = {}
          /\ hitq' = <<>> /\ collected' = 0 /\ refused' = FALSE /\ tails' = {} /\ progress' = <<>>
MayFail == faults < MaxFaults
Fault == faults' = faults + 1

(* update_replay_progress: all of the row but its patterns and segments.   *)
Update(j, status, p) ==
    jobs' = [jobs EXCEPT ![j].status = status, ![j].done = p.done, ![j].found = p.found]

-----------------------------------------------------------------------------
(* The scheduler: recovery.                                                *)

Up == sched.pc # "down"
(* The maintenance gate is held for reading.                               *)
Guarded == sched.pc \in {"guarded", "sealed", "created", "recovering", "executing"}

(* Slip: a job that was running when the process died is not taken up.     *)
QueuedOnly == {j \in DOMAIN jobs : jobs[j].status = "queued"}
(* The jobs that are not finished, to be taken in the order they were made.*)
ToRecover == {j \in DOMAIN jobs : Unfinished(j)}
Oldest(S) == CHOOSE j \in S : \A k \in S : j <= k

ListJobs ==
    /\ sched.pc = "start"
    /\ sched' = [pc |-> "next", todo |-> ToRecover]
    /\ UNCHANGED <<table, durable, env, channel, scan, sent, last>>
ListFails ==
    /\ sched.pc = "start" /\ MayFail /\ Fault
    /\ sched' = Idle
    /\ lost' = lost \cup UNION {jobs[j].pats : j \in DOMAIN jobs}
    /\ UNCHANGED <<jobs, present, requested, resumed, paused, durable, lives, shutdown, metadata,
                   channel, scan, sent, last>>

NextJob ==
    /\ sched.pc = "next"
    /\ sched' = IF sched.todo = {} \/ shutdown THEN Idle
                ELSE LET j == Oldest(sched.todo)
                     IN  [pc |-> "recovering", job |-> j, todo |-> sched.todo \ {j}]
    /\ UNCHANGED <<table, durable, env, channel, scan, sent, last>>

(* replay_paths_for_job: all segments of the job must still be there, the  *)
(* ones already scanned too.                                               *)
Rest(j) == SubSeq(jobs[j].paths, jobs[j].done + 1, Len(jobs[j].paths))
Complete(j) == \A i \in DOMAIN jobs[j].paths : jobs[j].paths[i] \in present
Row(j) == [done |-> jobs[j].done, found |-> jobs[j].found]

(* A job whose segments are gone, or whose patterns cannot be read, fails; *)
(* if that cannot be written either, the step is BeginFails.               *)
RecoverFails ==
    /\ sched.pc = "recovering"
    /\ \/ ~Complete(sched.job) /\ UNCHANGED faults
       \/ MayFail /\ Fault
    /\ Update(sched.job, "failed", Row(sched.job))
    /\ sched' = [pc |-> "next", todo |-> sched.todo]
    /\ UNCHANGED <<present, requested, lost, resumed, paused, durable, lives, shutdown, metadata,
                   channel, scan, sent, last>>

(* execute_job marks the job as running and starts the scan thread.        *)
Begin(j, todo) ==
    /\ Update(j, "running", Row(j))
    /\ resumed' = [resumed EXCEPT ![j] = @ \cup {jobs[j].done}]
    /\ sched' = [pc |-> "executing", job |-> j, todo |-> todo]
    /\ last' = Row(j)
    /\ run' = [pc |-> "segment", job |-> j, paths |-> Rest(j), done |-> jobs[j].done,
               found |-> jobs[j].found, result |-> "none"]
    /\ work' = [w \in Workers |-> <<>>] /\ dead' = {} /\ acks' = {}
    /\ hitq' = <<>> /\ collected' = 0 /\ refused' = FALSE /\ tails' = {} /\ progress' = <<>>
    /\ UNCHANGED <<present, requested, lost, paused, durable, env, channel, sent>>
Recover == sched.pc = "recovering" /\ Complete(sched.job) /\ Begin(sched.job, sched.todo)
Execute == sched.pc = "created" /\ Begin(sched.job, {})

(* The row cannot be marked, neither as running nor, for a job that has    *)
(* lost its segments or patterns, as failed (RecoverFails when its own     *)
(* update is lost too): the job stays as it is until the next start.       *)
BeginFails ==
    /\ sched.pc \in {"recovering", "created"} /\ MayFail /\ Fault
    /\ lost' = lost \cup jobs[sched.job].pats
    /\ sched' = [pc |-> "next", todo |-> IF sched.pc = "created" THEN {} ELSE sched.todo]
    /\ UNCHANGED <<jobs, present, requested, resumed, paused, durable, lives, shutdown, metadata,
                   channel, scan, sent, last>>

-----------------------------------------------------------------------------
(* The scheduler: new jobs.                                                *)

enqueue(p) ==
    /\ Up /\ p \notin requested
    /\ requested' = requested \cup {p}
    /\ channel' = Append(channel, p)
    /\ UNCHANGED <<jobs, present, lost, resumed, paused, durable, env, sched, scan, sent, last>>

(* The first request of a batch, and what else comes within the window.    *)
TakeFirst ==
    /\ sched.pc = "idle" /\ ~shutdown /\ channel # <<>>
    /\ sched' = [pc |-> "batch", pats |-> {Head(channel)}]
    /\ channel' = Tail(channel)
    /\ UNCHANGED <<table, durable, env, scan, sent, last>>
Coalesce ==
    /\ sched.pc = "batch" /\ ~shutdown /\ channel # <<>>
    /\ sched' = [pc |-> "batch", pats |-> sched.pats \cup {Head(channel)}]
    /\ channel' = Tail(channel)
    /\ UNCHANGED <<table, durable, env, scan, sent, last>>
CloseBatch ==
    /\ sched.pc = "batch"
    /\ LET enabled == sched.pats \ Disabled
       IN  sched' = IF enabled = {} THEN Idle ELSE [pc |-> "guarded", pats |-> enabled]
    /\ lost' = lost \cup (sched.pats \cap Disabled)
    /\ UNCHANGED <<jobs, present, requested, resumed, paused, durable, env, channel, scan,
                   sent, last>>

Ascending(S) == CHOOSE s \in [1 .. Cardinality(S) -> S] :
                    \A i, k \in DOMAIN s : i < k => s[i] < s[k]
(* snapshot_for_replay, then create_replay_job.                            *)
Snapshot ==
    /\ sched.pc = "guarded"
    /\ sched' = [pc |-> "sealed", pats |-> sched.pats, paths |-> Ascending(present)]
    /\ UNCHANGED <<table, durable, env, channel, scan, sent, last>>
create_replay_job ==
    /\ sched.pc = "sealed"
    /\ jobs' = Append(jobs, [pats |-> sched.pats, paths |-> sched.paths, status |-> "queued",
                             done |-> 0, found |-> 0])
    /\ durable' = Append(durable, {}) /\ resumed' = Append(resumed, {})
    /\ sched' = [pc |-> "created", job |-> Len(jobs) + 1]
    /\ UNCHANGED <<present, requested, lost, paused, env, channel, scan, sent, last>>
(* Either fails: the batch is dropped.                                     *)
BatchFails ==
    /\ sched.pc \in {"guarded", "sealed"} /\ MayFail /\ Fault
    /\ lost' = lost \cup sched.pats
    /\ sched' = Idle
    /\ UNCHANGED <<jobs, present, requested, resumed, paused, durable, lives, shutdown, metadata,
                   channel, scan, sent, last>>

-----------------------------------------------------------------------------
(* run_replay: the scan thread.                                            *)

Goto(pc) == run' = [run EXCEPT !.pc = pc]
Return(result) == run' = [run EXCEPT !.pc = "returned", !.result = result]
WorkerOf(flow) == flow % Cardinality(Workers)

(* The next segment, unless there is none or a shutdown ends the loop.     *)
NextSegment ==
    /\ run.pc = "segment"
    /\ run' = IF shutdown \/ run.paths = <<>> THEN [run EXCEPT !.pc = "join"]
              ELSE [pc |-> "scan", job |-> run.job, paths |-> run.paths, done |-> run.done,
                    found |-> run.found, result |-> "none", next |-> 1]
    /\ UNCHANGED <<table, durable, env, channel, sched, pool, collector, progress, sent, last>>

Records == SegmentOf[Head(run.paths)]
(* scan_path hands one record to a worker; a worker that has returned      *)
(* refuses it.                                                             *)
Dispatch ==
    /\ run.pc = "scan" /\ ~shutdown /\ run.next <= Len(Records)
    /\ LET r == Records[run.next]
           w == WorkerOf(r.flow)
       IN  IF w \in dead THEN Return("err") /\ UNCHANGED work
           ELSE /\ work' = [work EXCEPT ![w] = Append(@, [kind |-> "record", r |-> r,
                                seg |-> Head(run.paths), i |-> run.next])]
                /\ run' = [run EXCEPT !.next = @ + 1]
    /\ UNCHANGED <<table, durable, env, channel, sched, dead, acks, tails, collector, progress, sent,
                   last>>
(* The segment cannot be read.                                             *)
ScanFails ==
    /\ run.pc = "scan" /\ ~shutdown /\ MayFail /\ Fault
    /\ Return("err")
    /\ UNCHANGED <<table, durable, lives, shutdown, metadata, channel, sched, pool, collector,
                   progress, sent, last>>
Interrupt ==
    /\ run.pc = "scan" /\ shutdown
    /\ Goto("join")
    /\ UNCHANGED <<table, durable, env, channel, sched, pool, collector, progress, sent, last>>

(* The three barriers behind a segment.                                    *)
SendBarriers ==
    /\ run.pc = "scan" /\ ~shutdown /\ run.next > Len(Records)
    /\ acks' = {}
    /\ IF dead # {} THEN Return("err") /\ UNCHANGED work
       ELSE Goto("workers") /\ work' = [w \in Workers |-> Append(work[w], Barrier)]
    /\ UNCHANGED <<table, durable, env, channel, sched, dead, tails, collector, progress, sent, last>>
(* Slip: the collector is asked before the workers have answered.          *)
AwaitNone ==
    /\ run.pc = "workers"
    /\ IF refused THEN Return("err") /\ UNCHANGED hitq
       ELSE Goto("collector") /\ hitq' = Append(hitq, Barrier)
    /\ UNCHANGED <<table, durable, env, channel, sched, pool, collected, refused, progress, sent, last>>
AwaitWorkers ==
    /\ run.pc = "workers" /\ acks \cup dead = Workers
    /\ IF dead # {} \/ refused THEN Return("err") /\ UNCHANGED hitq
       ELSE Goto("collector") /\ hitq' = Append(hitq, Barrier)
    /\ UNCHANGED <<table, durable, env, channel, sched, pool, collected, refused, progress, sent, last>>
(* The collector answers with its count.                                   *)
CollectBarrier ==
    /\ hitq # <<>> /\ Head(hitq).kind = "barrier"
    /\ hitq' = Tail(hitq)
    /\ run' = [pc |-> "barrier", job |-> run.job, paths |-> run.paths, done |-> run.done,
               found |-> run.found, result |-> "none", so_far |-> collected]
    /\ UNCHANGED <<table, durable, env, channel, sched, pool, collected, refused, progress, sent, last>>
AwaitCollector ==
    /\ run.pc = "collector" /\ refused
    /\ Return("err")
    /\ UNCHANGED <<table, durable, env, channel, sched, pool, collector, progress, sent, last>>

Flushed == [j \in DOMAIN durable |->
               durable[j] \cup {h.hit : h \in {s \in sent : s.job = j}}]
Synced == durable' = Flushed /\ sent' = {}
Report(done, found) == progress' = Append(progress, [done |-> done, found |-> found])
(* durable_barrier, and the report of the segment.                         *)
Checkpoint ==
    /\ run.pc = "barrier"
    /\ IF metadata
       THEN /\ Synced
            /\ run' = [pc |-> "segment", job |-> run.job, paths |-> Tail(run.paths),
                       done |-> run.done + 1, found |-> run.found, result |-> "none"]
            /\ Report(run.done + 1, run.found + run.so_far)
       ELSE Return("err") /\ UNCHANGED <<durable, sent, progress>>
    /\ UNCHANGED <<table, env, channel, sched, pool, collector, last>>

(* Workers and collector are joined when their queues are empty; without a *)
(* shutdown a last barrier follows.                                        *)
Join ==
    /\ run.pc = "join"
    /\ \A w \in Workers \ dead : work[w] = <<>>
    /\ hitq = <<>>
    /\ IF ~shutdown /\ ~metadata
       THEN Return("err") /\ UNCHANGED <<durable, sent, progress>>
       ELSE /\ Return("ok")
            /\ Report(run.done, run.found + collected)
            /\ IF shutdown THEN UNCHANGED <<durable, sent>> ELSE Synced
    /\ UNCHANGED <<table, env, channel, sched, pool, collector, last>>

-----------------------------------------------------------------------------
(* Match workers, collector and metadata writer.                           *)

(* ReplayScanner::scan_record: an occurrence begun in the record before is *)
(* found when its tail is there.                                           *)
HitsIn(x) == {[seg |-> x.seg, i |-> x.i, kind |-> k] :
                k \in {k \in {"own", "cross"} : IF k = "own" THEN x.r.own
                                             ELSE x.r.cross /\ x.r.flow \in tails}}
Listed(S) == CHOOSE s \in [1 .. Cardinality(S) -> S] : {s[i] : i \in DOMAIN s} = S
ScanOne(w) ==
    /\ work[w] # <<>> /\ w \notin dead
    /\ LET x == Head(work[w]) IN
       IF x.kind = "barrier" THEN acks' = acks \cup {w} /\ UNCHANGED <<hitq, tails, dead>>
       ELSE /\ IF HitsIn(x) # {} /\ refused
               THEN dead' = dead \cup {w} /\ UNCHANGED <<hitq, tails>>
               ELSE /\ hitq' = hitq \o [i \in DOMAIN Listed(HitsIn(x)) |->
                                          [kind |-> "hit", hit |-> Listed(HitsIn(x))[i]]]
                    /\ tails' = tails \cup {x.r.flow}
                    /\ UNCHANGED dead
            /\ UNCHANGED acks
    /\ work' = [work EXCEPT ![w] = Tail(@)]
    /\ UNCHANGED <<table, durable, env, channel, sched, run, collected, refused, progress, sent, last>>

(* The collector stops, and its queue with it, when a hit is refused.      *)
CollectHit ==
    /\ hitq # <<>> /\ Head(hitq).kind = "hit"
    /\ collected' = collected + 1
    /\ IF metadata
       THEN /\ hitq' = Tail(hitq) /\ UNCHANGED refused
            /\ sent' = sent \cup {[job |-> run.job, hit |-> Head(hitq).hit]}
       ELSE hitq' = <<>> /\ refused' = TRUE /\ UNCHANGED sent
    /\ UNCHANGED <<table, durable, env, channel, sched, run, pool, progress, last>>

(* The spool takes what was sent, at its own pace; or the writer stops.    *)
Spool ==
    /\ metadata /\ sent # {} /\ Synced
    /\ UNCHANGED <<table, env, channel, sched, scan, last>>
MetadataStops ==
    /\ Up /\ metadata /\ MayFail /\ Fault
    /\ metadata' = FALSE
    /\ sent' = {}
    /\ UNCHANGED <<table, durable, lives, shutdown, channel, sched, scan, last>>

-----------------------------------------------------------------------------
(* execute_job: progress is written to the table, then the outcome. A      *)
(* write that fails in between is passed over.                             *)
TakeProgress ==
    /\ sched.pc = "executing" /\ progress # <<>>
    /\ last' = Head(progress) /\ progress' = Tail(progress)
    /\ \/ Update(sched.job, "running", Head(progress)) /\ UNCHANGED faults
       \/ MayFail /\ Fault /\ UNCHANGED jobs
    /\ UNCHANGED <<present, requested, lost, resumed, paused, durable, lives, shutdown, metadata,
                   channel, sched, run, pool, collector, sent>>

Final == IF progress = <<>> THEN last ELSE progress[Len(progress)]
Outcome == IF shutdown THEN "queued" ELSE IF run.result = "ok" THEN "completed" ELSE "failed"
Finish ==
    /\ sched.pc = "executing" /\ run.pc = "returned"
    /\ \/ /\ Update(sched.job, Outcome, Final)
          /\ UNCHANGED <<faults, lost>>
       \/ /\ MayFail /\ Fault
          /\ lost' = lost \cup jobs[sched.job].pats
          /\ UNCHANGED jobs
    /\ sched' = [pc |-> "next", todo |-> sched.todo]
    /\ NoScan /\ last' = [done |-> 0, found |-> 0]
    /\ UNCHANGED <<present, requested, resumed, paused, durable, lives, shutdown, metadata, channel, sent>>

-----------------------------------------------------------------------------
(* The process and its surroundings.                                       *)

Queued == {channel[i] : i \in DOMAIN channel}
Held == IF sched.pc \in {"batch", "guarded", "sealed"} THEN sched.pats ELSE {}
Down == /\ sched' = [pc |-> "down"]
        /\ lost' = lost \cup Queued \cup Held
        /\ channel' = <<>> /\ sent' = {}
        /\ NoScan /\ last' = [done |-> 0, found |-> 0]
        /\ UNCHANGED <<jobs, present, requested, resumed, paused, lives, faults, shutdown, metadata>>

Kill == Up /\ lives < MaxLives /\ Down /\ UNCHANGED durable
RequestShutdown ==
    /\ Up /\ ~shutdown /\ lives < MaxLives
    /\ shutdown' = TRUE /\ paused' = TRUE
    /\ UNCHANGED <<jobs, present, requested, lost, resumed, durable, lives, faults, metadata, channel,
                   sched, scan, sent, last>>
(* The scheduler leaves its loop; the storage runtime then drains.         *)
Stop ==
    /\ sched.pc = "idle" /\ shutdown
    /\ durable' = Flushed
    /\ Down
Restart ==
    /\ ~Up
    /\ sched' = [pc |-> "start"] /\ lives' = lives + 1
    /\ shutdown' = FALSE /\ metadata' = TRUE
    /\ UNCHANGED <<table, durable, faults, channel, scan, sent, last>>

(* Retention deletes the oldest segment when it gets the gate.             *)
Retain ==
    /\ Up /\ ~Guarded /\ present # {}
    /\ present' = present \ {Ascending(present)[1]}
    /\ UNCHANGED <<jobs, requested, lost, resumed, paused, durable, env, channel, sched, scan,
                   sent, last>>

Init ==
    /\ jobs = <<>> /\ durable = <<>> /\ resumed = <<>>
    /\ present = 1 .. Sealed
    /\ lives = 1 /\ faults = 0 /\ shutdown = FALSE /\ metadata = TRUE
    /\ requested = {} /\ channel = <<>> /\ lost = {} /\ paused = FALSE
    /\ sched = [pc |-> "start"]
    /\ run = NoRun /\ work = [w \in Workers |-> <<>>] /\ dead = {} /\ acks = {}
    /\ hitq = <<>> /\ collected = 0 /\ refused = FALSE /\ tails = {} /\ progress = <<>>
    /\ sent = {} /\ last = [done |-> 0, found |-> 0]

Scheduler ==
    \/ ListJobs \/ ListFails \/ NextJob \/ RecoverFails \/ Recover \/ Execute \/ BeginFails
    \/ TakeFirst \/ Coalesce \/ CloseBatch \/ Snapshot \/ create_replay_job \/ BatchFails
    \/ TakeProgress \/ Finish \/ Stop
ScanThread ==
    \/ NextSegment \/ Dispatch \/ ScanFails \/ Interrupt \/ SendBarriers \/ AwaitWorkers
    \/ AwaitCollector \/ Checkpoint \/ Join
Collector == CollectHit \/ CollectBarrier

Next ==
    \/ Scheduler \/ ScanThread \/ Collector
    \/ \E w \in Workers : ScanOne(w)
    \/ \E p \in Patterns : enqueue(p)
    \/ Spool \/ MetadataStops \/ Kill \/ RequestShutdown \/ Restart \/ Retain

(* Threads run, a window closes, and a process that is down is started     *)
(* again; nothing is assumed of failures, requests and retention.          *)
Fairness ==
    /\ WF_vars(Scheduler) /\ WF_vars(ScanThread) /\ WF_vars(Collector)
    /\ \A w \in Workers : WF_vars(ScanOne(w))
    /\ WF_vars(Restart)

Spec == Init /\ [][Next]_vars /\ Fairness

-----------------------------------------------------------------------------
TypeOK ==
    /\ \A j \in DOMAIN jobs :
         /\ jobs[j].status \in {"queued", "running", "completed", "failed"}
         /\ jobs[j].done \in 0 .. Len(jobs[j].paths) /\ jobs[j].found \in Nat
    /\ sent # {} => metadata
    /\ run.pc # "none" => sched.pc = "executing" /\ run.job = sched.job

(* Hits of the first n of the segments paths: those of its records, and    *)
(* those across records unless the job was resumed between the two, cuts   *)
(* being the numbers of segments done when it was.                         *)
Pos(paths, n) == UNION {{k} \X DOMAIN SegmentOf[paths[k]] : k \in 1 .. n}
At(paths, x) == SegmentOf[paths[x[1]]][x[2]]
Precedes(x, y) == x[1] < y[1] \/ (x[1] = y[1] /\ x[2] < y[2])
Tracked(paths, cuts, x) ==
    \E y \in Pos(paths, x[1]) :
        /\ Precedes(y, x) /\ At(paths, y).flow = At(paths, x).flow
        /\ \A c \in cuts : ~(y[1] <= c /\ c < x[1])
HitsAt(paths, cuts, x) ==
    {[seg |-> paths[x[1]], i |-> x[2], kind |-> k] :
        k \in {k \in {"own", "cross"} : IF k = "own" THEN At(paths, x).own
                                        ELSE At(paths, x).cross /\ Tracked(paths, cuts, x)}}
HitsOf(paths, cuts, n) == UNION {HitsAt(paths, cuts, x) : x \in Pos(paths, n)}

(* A checkpoint is a commit point (run_replay, execute_job): the hits of   *)
(* the segments a row counts as done are durable, whatever is killed,      *)
(* stopped or resumed later, and are all counted, exactly if no shutdown   *)
(* came in between; a completed job has scanned all of its segments.       *)
CheckpointDurable ==
    /\ TypeOK
    /\ \A j \in DOMAIN jobs :
         LET hits == HitsOf(jobs[j].paths, resumed[j], jobs[j].done) IN
         /\ hits \subseteq durable[j]
         /\ jobs[j].found >= Cardinality(hits)
         /\ ~paused => jobs[j].found = Cardinality(hits)
         /\ jobs[j].status = "completed" => jobs[j].done = Len(jobs[j].paths)

(* A request leads to a historical scan that ends (the scheduler and its   *)
(* recovery): it completes or fails, through kills and shutdowns, unless   *)
(* the request was lost before its job was in the table, or a failure of   *)
(* the table left the job to a later start.                                *)
BackfillHappens ==
    \A p \in Patterns :
        (p \in requested) ~> (\/ p \in lost
                              \/ \E j \in DOMAIN jobs : p \in jobs[j].pats /\ ~Unfinished(j))

=============================================================================
