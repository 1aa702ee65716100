# BAZALT: TLA+ models, checks and proofs

BAZALT captures the traffic of configured services, reassembles it into
streams, parses HTTP, stores payload in immutable segment files, indexes it in
ClickHouse and matches patterns against it live and retrospectively. This
directory models the path from the interface to the stored match: capture,
flow table, TCP reassembly, HTTP parsing, payload and metadata storage,
pattern matching and historical replay. Paths below are relative to the
repository (`src/...` is the Rust crate, `docs/...` the documents).

## 1. Inventory

| Part | State it keeps | Operations | Interacts with |
|---|---|---|---|
| Packet capture (`src/capture`) | kernel filter, installed generation, AF_XDP rings or libpcap handle | check generation, install filter, receive, gate, enqueue with a bounded wait | service registry, parser, topology, flow shards |
| Packet parser (`capture/parser.rs`) | none across packets | decode tags, IP, tunnels, TCP and UDP; canonical flow key | fragment cache |
| IP fragment cache (`capture/fragment.rs`) | pieces per datagram, byte total, last-seen times | insert, complete, expire, evict | capture workers share it under locks |
| Service registry (`http/mod.rs` 40-160) | map by port, generation | upsert, delete | API, PostgreSQL, every stage that asks for a port |
| Topology and throttle (`topology.rs`, `native/`) | batches per worker, source table, overflow; throttle rules in the kernel | observe, flush, merge, collect, snapshot; set, clear | capture, API |
| Flow table (`flow/mod.rs`) | flows, lazy timers, tombstones, per-prefix counts; a global flow budget | packet, timeout, close, drain | capture queues in, L7 queues out |
| TCP reassembly (`flow/reassembly.rs`) | expected position, out-of-order buffer, pending FIN, peer ACK, gap clock | accept, acknowledge, finalize | called by the flow table |
| HTTP and L7 (`http/mod.rs`) | parser per direction, queue of unanswered requests | chunk, gap, close; fan-out to storage and matcher | segment store, matcher |
| Patterns and matcher (`matching/mod.rs`) | revisions, compiled set, interest mask, generation, overlap tails | create, update, enable, delete, look back; rebuild, install, scan | PostgreSQL, L7, metadata, replay |
| Segment store (`storage/segment.rs`) | command queue, active file, pending index rows, retained bytes, files | append, seal, tick, rotate, scan, delete, recover | metadata pipeline, replay, retention |
| Metadata pipeline (`storage/mod.rs`, `storage/spool.rs`) | command channel, batch, sequence counters, spool files | send, barrier, durable_barrier, append, project, retire, shutdown, restart | every producer of metadata; ClickHouse |
| Historical replay (`replay/mod.rs`) | request queue, job rows, progress | enqueue, coalesce, snapshot, scan, checkpoint, pause, resume | segment store, metadata pipeline, PostgreSQL, maintenance gate |
| Retention (`api/mod.rs`, management_cleanup) | none of its own | seal, barrier, mutate, delete | segment store, pipeline, ClickHouse, maintenance gate |
| Sessions, runtime (`auth.rs`, `runtime.rs`) | sessions; supervision state | login, expire; ordered shutdown | all |

What is hard here: every stage is its own thread or task behind a bounded
queue; the metadata and payload writers are tied together by barriers; both
must survive kills and power failures between any two system calls; retention
and replay share files under an async lock whose guard a disconnecting client
drops; services and patterns change under the workers that read them, through
several stores that are not one step; the capture delivers fragments and TCP
segments in any order, repeated, conflicting or not at all, and everything
behind it sees streams cut at arbitrary points. `PROJECT.json` lists the
hazards at the lines where they bite and the properties that cover them. Some
have none: there the code goes wrong, the properties nearby exclude the case,
and section 5 describes it.

What makes the parts correct:

* capture: no filter that claims the current generation hides a configured
  service; both directions of a connection get one key; a completed datagram
  has no hole or repetition; no counted packet is lost or doubled;
* flow table: every count equals the table, each flow has one live timer, a
  timer never closes a newer flow of its key, idle flows go, and what was
  opened downstream is closed;
* reassembly: offsets are exact, the first copy wins, memory is bounded, no
  byte that was taken in disappears below the FIN;
* HTTP: a header or body record is what was on the wire at its offset, a decoded
  one stands behind what it was decoded from; without gaps the messages are the
  ones sent; after a gap parsing resumes;
* patterns: hits do not depend on the cutting; a new revision reaches every
  record live or in its replay; the installed set is the one the table asks for;
* replay: a checkpoint counts only segments whose hits are durable; a request
  ends in a finished job through crashes;
* segment store: an index row always finds its payload; a segment that is
  left behind has durable rows; a snapshot separates before from after;
* metadata pipeline: an answered barrier means what it says through any crash;
  sequences are never reused or missing; batches reach ClickHouse in order; a
  shutdown ends during an outage.

## 2. Modules

| Module | Models | State and actions |
|---|---|---|
| `MetadataPipeline` | `storage/mod.rs` 51-400 and 457-497, `storage/spool.rs` | Channel, writer, projector, barrier waiters, spool directory, ClickHouse. One action per step of a task between two awaits: `Send`, `CallBarrier`, `RecvFirst`, `RecvMore`, `CloseBatch`, `AppendRename`, `AppendCommit`, `Poll`, `InsertOk`/`InsertFail`, `RemoveFile`, `Retire`, `WaiterOk`/`WaiterErr`, the steps of `shutdown`, `Kill`, `PowerFailure`, `Start` |
| `SegmentStore` | `storage/segment.rs`, start-up recovery of `storage/mod.rs` 404-446, `management_cleanup`, the replay gate | Queue, writer thread (receive, write, publish, commit, rotate, stop), recovery, replay, retention, crash actions |
| `TcpHalf` | `flow/reassembly.rs` | the code's functions as operators on the record of a half; actions `Segment`, `Ack`, `Close` |
| `FlowTable` | `flow/mod.rs` | per shard: flows, timers, tombstones, prefix counts, a program counter; shared: the budget and the L7 stage. One iteration of `shard_loop` is `Recv`, `Admit`, `Place`, `TimerPass`; `Idle` is a timeout of the queue, `Disconnected` the drain at the end |
| `FlowContract` | what `flow/mod.rs` promises L7 | abstract: the live flows and those L7 keeps state for; `Admit`, `Deliver`, `Retire` |
| `FragmentCache` | `capture/fragment.rs` | operators on the record of a shard: `insert`, `maintenance`, `Complete`, `Evicted`, `remove_key` |
| `Ingest` (extends `FragmentCache`) | `capture/mod.rs`, `capture/parser.rs`, the filter of `pcap_source.rs`, the service registry, service requests of `api/mod.rs`, `topology.rs` | operators: `Request`, `Database`, `Load`, `Store`, `Bump`; worker: `CheckGeneration`, `ReadPorts`, `InstallFilter`, `InstallFails`, `Receive`, `Gate`, `Send`, `NoFrame`; `Dequeue`, `Snapshot`, `Tick` |
| `HttpStream` | the connection and stream parsers of `http/mod.rs` | two parsers (buffer, offset, state, sync flag) and the pending requests; `Feed` runs the parse loop of `feed` to its end, `Miss` is a gap, `Close` runs `finish` |
| `PatternMatching` | `matching/mod.rs`, `fanout_content`, pattern handlers of `api/mod.rs`, pattern table of `postgres.rs` | a request goes through reading the revision, inserting the next, listing, and three stores; a record through `ReadMask`, `Accept`, `TakeSnapshot`, `send_content`; a matcher worker takes `Content` and `FlowClosed` |
| `ReplayJob` | `replay/mod.rs`, job table of `postgres.rs` | scheduler (`ListJobs`, `NextJob`, `Recover`, `TakeFirst`, `Coalesce`, `Snapshot`, `create_replay_job`, `Finish`), scan thread (`NextSegment`, `Dispatch`, the three barriers, `Checkpoint`, `Join`), match workers, hit collector, faults, `Kill`, shutdown, `Restart` |
| `MC*` | | the modules TLC runs, one per model |
| `MetadataPipelineProofs`, `SegmentStoreProofs`, `TcpHalfProofs`, `FlowTableProofs`, `IngestProofs`, `HttpStreamProofs`, `PatternMatchingProofs`, `ReplayJobProofs` | | the TLAPS proofs, each about the module it is named after; facts about numbers, finite sets and sequences come first where a proof needs them |

Definitions keep the names of the source where TLA+ allows it. A definition
whose comment begins with "Slip" is not part of a model: it is a plausible
error in the definition that follows or precedes it, used to confirm that a
property can fail.

How the modules fit. `FlowTable` reduces a TCP direction to what the table
asks of it; that bytes and offsets are right is `TcpHalf`, whose `accept` may
have any of the outcomes the table distinguishes. `HttpStream` takes its chunks
as `TcpHalf` emits them: contiguous, or with a gap that shows in the offset.
`PatternMatching` takes records of any cut, as `HttpStream` may produce them,
and treats the historical scan as one action that `ReplayJob` takes apart.
`SegmentStore` and `ReplayJob` use the metadata pipeline through its barriers
only: a durable barrier moves every row sent so far into the set of durable
rows, a projected barrier into ClickHouse; that these are sound steps is what
`MetadataPipeline` states as `DurableBarrierSound` and `ProjectedBarrierSound`,
and what the proofs establish. `FlowTable` implements `FlowContract`: the run
`flow` checks the abstract specification as a property under the mapping that
takes the flows of all shards to `live` and the
L7 stage's table to `open`.

### Abstractions

* Events, records and bytes are identities. A metadata event weighs one byte;
  a record and a segment header are one byte each, the recovery marker none.
* ClickHouse is a set of rows: the tables are ReplacingMergeTree keyed by
  identity. An insert that reports failure may have landed (`InsertFail`
  covers both), but does not land later.
* The file system keeps directory operations in order: a power failure leaves
  the directory as it was at some point since its last fsync (`images`). File
  contents are durable up to the last `sync_all`, with any prefix beyond it. A
  kill loses what the `BufWriter` holds, possibly spilling part of it.
* Segment names carry the wall clock; it is taken not to go back.
* `None` is 0 in `TcpHalf`; no position or time there is 0. A byte is its true
  position and a version that tells conflicting copies apart. `Duplicates`
  says whether segments that bring only old bytes are captured: FALSE in the
  passing run because of the finding below, TRUE in the run that shows it.
* `Faults` and `Disconnects` in `SegmentStore` choose the failures of a run: a
  crash during start-up and a client that disconnects during cleanup are left
  out where section 5 says that the code goes wrong.
* Time is relative in `FlowTable`, `FragmentCache` and `Ingest`: ages and times
  left, capped where nothing tells larger ones apart. A flow id is its key with
  a generation, taken again once nothing refers to it.
* A frame is the sequence of its headers; lengths and checks of one header are
  the flag `short`. A tunnel domain is the sequence of tags and tunnels where
  the code mixes a hash (collisions are left out). Fragment offsets count
  8-byte units.
* In `HttpStream` a unit stands for a start line, a header field, a line end, a
  chunk size or a piece of body, and any unit may also occur as body. Limits
  count units. Decoders either succeed within `MaxDecode` or give nothing.
* In `PatternMatching` a regular expression is a word found in the window that
  regular expressions get; the engines themselves are left out. A stream of a
  raw, header or body view is verbatim: its records are pieces of one text at
  their offsets. A decoded body has a text of its own and, as in the code, the
  wire offset at which its encoded form ends.
* `Excluded` in `Ingest` is what the operator's `bpf_filter` turns away. It
  narrows the port clause of the kernel filter only, as in
  `live_port_filter_expression`; `NoBlindSpot` speaks of the other frames.
* The rows of `ReplayJob` reach disk through the metadata writer of
  `storage/mod.rs`, reduced to batches that become durable at some time
  (`Spool`), a barrier that waits for it (`Flushed`, `Synced`), and an end after
  which events and barriers are refused (`MetadataStops`).

## 3. Runs

Ten runs pass; two show a disagreement with what the repository says.

| Run | Shows | Instance |
|---|---|---|
| `pipeline_safety` | barriers, sequence numbers, projection order and quota through any two I/O errors, kills or power failures | 3 events, 2 clients, queue 2, batches of 2, quota 2 |
| `pipeline_live` | durable barriers are answered and a shutdown ends even if ClickHouse fails for ever; projected barriers are answered and events get rows unless it does | 2 events, 2 clients, one fault |
| `segment_kill` | rows find their payload, closed segments are indexed, snapshots are exact, retention and replay exclude each other, through kills and metadata failures | 2 records, 3 starts, 2 seals |
| `segment_power` | a power failure leaves at most the newest segment incomplete; accepted records get durable rows and seals are answered, also when budget or metadata writer fail, a client disconnects or the process was started again | 2 records, 2 starts, 2 seals |
| `tcp_stream` | exact offsets, first copy wins, bounded buffer, no byte below the FIN lost; reordering, conflicts, holes, ACKs, FINs, timeouts, wrap | 5 bytes, segments of 2, 2 versions, FINs at 2 and 4 |
| `flow` | counts, budget and timers agree with the tables; tombstones stay within their limit, expire from their queue and last their time though stale entries stand before them, and a full set gives up its oldest; the shards implement `FlowContract`; idle flows expire if the shard reaches its timer pass | 2 shards, two TCP and two UDP keys, budget 2, quota 1, tombstone limit 1, tombstone life 2, up to 3 closes within it |
| `ingest` | no filter hides a service while two operators edit services; keys are symmetric; fragments are reassembled without hole; topology counts are conserved; a service that stays gets into the filter | 1 worker, 2 operators, 19 frames and one the operator excludes, 3 inputs, 2 of them requests |
| `http` | headers and bodies stand at true offsets, decoded bodies behind what they were decoded from; without gaps exactly the messages sent are reported; after a gap the parser finds the next message | 11 exchanges, chunks up to 5 units, 2 gaps |
| `patterns` | hits on verbatim streams are exactly the occurrences, on decoded views those within a body or across two that meet; none is published twice; a revision reaches every record live or in history; the installed set is the table's | 5 scenarios of 2 requests and up to 3 records, 3 streams |
| `replay_job` | a checkpoint counts only segments with durable hits; a request ends in a finished job or in a named loss | 2 patterns, 2 segments, 2 workers, 2 starts, 1 fault |
| `tcp_duplicate` (violation) | a segment of old bytes only is emitted again at the current offset (`flow/reassembly.rs:200`) | 3 bytes |
| `bridge` (violation) | a pattern is found across two decoded bodies whose offsets meet (`matching/mod.rs:648`) | 1 scenario of 2 bodies |

The bounds:

* pipeline: a queue of two is enough for a barrier behind an event and for a
  full queue; a batch limit and a quota of two let a batch be full, partial and
  refused; two faults let a crash hit the recovery from another;
* segment store: in `segment_kill` a segment holds two records, so that seals
  rotate partly filled segments and a cutoff can fall inside one, and three
  starts let a kill follow a recovery; in `segment_power` it holds one, so that
  the second record rotates a full one and a seal can exhaust the budget;
* reassembly: five bytes from position 61 in a space of 32 place the wrap
  inside the stream, and a buffer of three bytes or two segments can be
  exceeded by either limit while a hole is open;
* flow table: a budget of two for four keys on two shards makes a reservation
  of one shard refuse the other; a quota of one makes admission give its slot
  back; two generations let a key be reused while a timer still refers to its
  older flow; TCP and UDP have different timeouts. Two TCP keys and one
  tombstone make a close evict; a life of two and up to three closes within it
  (`MaxOrder` counts entries that have not expired) let fresh entries stand
  behind stale ones of their key, with an earlier deadline, when these expire or
  are evicted;
* ingest: three inputs suffice for a datagram of two or three pieces, for an
  overlap and for an identifier used again, and for a request on each side of a
  frame; the cache holds one datagram, the topology table one source, so that
  both overflow; one worker, since workers share the cache under locks and the
  topology under one lock, and their filters are their own. Two requests may
  overlap in every step;
* http: each exchange has one of the framings that decide where a message ends
  (length, chunks with and without trailer, close, HEAD, 1xx, 204, CONNECT,
  upgrade, a body that looks like messages, bodies beyond either limit, refused
  framing); any cut into chunks of one to five units and any interleaving of
  the directions is taken;
* patterns: words that lie in one, two and three records, a regular expression
  limited to its window, a gap, a rule for one service, decoded bodies that
  meet, overlap in their numbers or stand alone, an update that disables, a queue
  of one and hit limits of one and two. The scenarios let every kind of request
  overlap another one and the fan-out at each step;
* replay: two starts let a job be interrupted at any step and resumed; two
  segments give a checkpoint in the middle, two flows on two workers let hits
  of one segment be in different places when a barrier passes; an occurrence
  lies across the two segments.

Deadlock is checked in the pipeline runs. The other models may stop: their
inputs are finite, or the system is idle.

`RegistryFollowsDatabase` and `ActiveIsLatest` exclude requests that overlap,
`LiveOrHistorical` a record whose interest mask was read before the
installation: there the code does go wrong, as section 5 says, and the
properties state what holds besides. `IdleFlowsExpire` has the timer pass as a
hypothesis, `BytesConserved` speaks of bytes below the FIN, the run of
`ReplaySegmentsPresent` has no client that disconnects, and `BackfillHappens`
exempts what is lost before the job row exists, for the same reason.
`HitsExact` requires an occurrence to be reported only if one set and one
generation scanned all its records, and allows a hit on a decoded view across a
chance meeting of two bodies; that there is none is `MessagesApart`, which the
run `bridge` refutes.

`ProjectionInOrder` is a statement about one fault. With two it fails: after a
kill between an unlink and its directory fsync, and a power failure after the
next batch was inserted, the older batch returns to the spool and is inserted
again (`MetadataSpool::open` does not sync the directory). No document
promises more.

### Fairness

Threads and tasks of the process are weakly fair; nothing is assumed of
producers, requests, faults or retention.

* `MetadataPipeline`: writer, projector, each waiter and the shutdown, which never
  block on each other except through the queues that are modelled. The
  projector is fair without `InsertOk`: a request has a client timeout, so an
  attempt returns, but nothing says it succeeds. `ClickHouseAnswers`, strong
  fairness of `InsertOk`, is a hypothesis of the two properties that need
  ClickHouse to answer some time.
* `SegmentStore`: writer, start-up, retention, and the metadata writer, as
  `DurableBarrierAnswered` shows it is; projection is not fair.
* `FlowTable`: the clock only. That a shard reaches its timer pass is not
  implied by its being scheduled: a packet that is suppressed, filtered or
  refused restarts the loop before it (`flow/mod.rs:453`), so
  `IdleFlowsExpire` has it as a hypothesis.
* `Ingest`: the steps of a request after it was made, and the workers.
* `ReplayJob`: scheduler, scan thread, match workers, collector, and the
  restart of a process that has ended (a service manager, external).
* `TcpHalf`, `HttpStream` and `PatternMatching` have no liveness property.

## 4. Proofs

The theorems hold for every value of the constants that meets the named
assumptions of the model's module; the proof modules assume nothing more. Each
is proved from an inductive invariant: the initial states satisfy it
(`...Init`), every step preserves it (`...Step`, one case per action or per
group of actions that change the same variables), and it implies the property.
The last step of each theorem is temporal logic only. The invariants were first
checked by TLC on the instances of section 3.

### Metadata pipeline (`MetadataPipelineProofs`)

For any events and clients and any positive capacity, batch limit and quota.

* `Invariance`: `TypeOK`, `SpoolShape` and `Sound` (the coverage and both
  barrier guarantees) are inductive. `TypeCorrect`, `DurableBarrierCorrect`,
  `ProjectedBarrierCorrect` and `NoCommittedSequenceMissing` follow.
* `RestartCorrect`: no directory that a crash can leave exceeds the quota.
* `ProjectionOrderCorrect`: batches are projected oldest first through any one
  fault.

The barrier guarantees are not inductive alone. That a barrier may be answered
at a sequence number rests on every file up to it being present or projected,
hence on the spool being one run of sequences delimited by the counters of the
two tasks in each of their program points, in every directory a power failure
may leave: `SpoolShape`. That the answer covers the right events rests on every
event ordered before a barrier staying ahead of it, in the queue, the batch,
the spool or ClickHouse: `BarrierCoverage`. The quota needs `BytesInv`: the
writer's counter covers the directory, up to the batch that is renamed and not
yet counted, and what the projector has removed and not yet released. The order
needs `Fresh` (an event is in one place between the channel and the spool) and
`Ordered` (only the file in the projector's hand may have rows; until the first
fault, every directory image is known).

### Segment store (`SegmentStoreProofs`)

For any records, cutoffs, capacity, budgets, seals and starts. Each theorem
names the faults it is proved under, since they are different:

* `StoreTypeCorrect`: the types, under all faults;
* `ReadableCorrect` (`ClosedSegmentsReadable`): either without power failures,
  or without kills and interrupted starts. With both it is false: a kill leaves
  the newest segment unsynced, the next start opens another, and a power
  failure tears the older;
* `PayloadCorrect` (`NoRowWithoutPayload`): without power failures. With them it
  is false, see section 5;
* `IndexedCorrect` (`ClosedSegmentsIndexed`): without interrupted starts. With
  them it is false, see section 5;
* `PresentCorrect` (`ReplaySegmentsPresent`) and `SnapshotCorrect`
  (`SnapshotExact`): under all faults, when no cleanup request loses its client
  (`~Disconnects`). With that they are false, see section 5.

`Control` is the invariant under all of them: types, where the writer is and
which command and rows it holds, what each phase of start-up and shutdown
allows, that a caller has at most one seal under way and waits for it, that
replay and retention exclude each other, and that everything written to a
segment the writer has left can be read. On top of it, `ReadInv` says which
segments are whole while the process is up or down, `RowInv` that every row is
backed and that retention has no rows left for the files it deletes, `IndexInv`
where the row of each record is (pending, on its way, durable or deleted),
`PlaceInv` that an accepted record is in exactly one of the queue, the writer's
hand and one file, and `SnapInv` that the records accepted before a replay's
seal are stored or ahead of it and the later ones are neither. Steps are grouped
by what they do to the files: `Steady`, `Flushing`, `Syncing`, `WriteRecord`,
`Opening`, `RetentionDelete`, `Ending`, `Start`; the queue has a grouping of its
own (`QueueKinds`).

### TCP reassembly (`TcpHalfProofs`)

`TcpOffsetsExact` (`StreamOffsetsExact`), `TcpFirstSeenWins`, `TcpBytesConserved`
and `TcpBufferSound`, for every stream length, sequence space, initial sequence
number, segment size, set of contents a retransmission may carry, buffer limit
and gap timeout. The stream is shorter than half of the sequence space
(`WindowAssumption`), so that every segment and acknowledgement lies within the
half space in which `extend_seq` is unambiguous; the code needs that of what is
in flight only, so longer streams are outside of the theorems. All four have the
hypothesis `Duplicates = FALSE`: a segment that brings only bytes behind the
expected one is emitted again at the current offset, and with such segments the
properties fail, as the run `tcp_duplicate` shows (section 5).

The invariant `Inv` says that what was handed on is true of the sent stream
(`ItemsTrue`: every item lies at the offset of the byte it begins with, carries
the first seen version of each byte, and a gap shows in the offset) and that the
half `Rests`. Between two steps inside a call less holds, `Under`: the offset
counts what was handed on and skipped; the expected position is the stream
coordinate plus a multiple of the sequence space; the buffered segments are
disjoint, ahead of the expected byte and true of the stream (`BufferTrue`);
every byte that was taken in and not handed on is in the buffer (`BufferWhole`);
FIN and the acknowledged position lie within the stream (`Within`). At rest, in
addition, nothing is due (`Settled`), a FIN that was reached has been consumed
unless it is unconfirmed (`FinAhead`, without which a clipped segment could end
before the expected byte) and the buffer is within its limits.
Each function of the code is shown to keep `Under` and to move only forward
(`Onward`): `extend_seq` returns the exact position of a number within the
window (`ExtendExact`), each loop turn is a step of that kind and shrinks the
buffer, so the loop ends in a state where no turn is due (`LoopEnds`, by a least
counterexample over the recursive function).
The pressure loop also needs that what is buffered behind a FIN was there before
the call (`LateFrom`). `AcceptTrue`, `AcknowledgeTrue` and `FinalizeTrue` put the
calls together, one for each action.

### Flow table (`FlowTableProofs`)

For any shards, keys, prefixes, generations, limits and timeouts.

* `FlowInvariant`; `FlowTablesConsistent`, `FlowTimers`, `FlowTombstones` follow;
* `FlowTableImplementsContract`: every step of a shard is a step of
  `FlowContract` or a stutter.

`FlowInv` has six parts: the form of the tables (`Shapes`), one timer per live
flow and none late (`TimersSound`), prefix counts equal to the number of flows
(`CountsMatch`), an entry in the queue for each tombstone (`TombsSound`), the
shared budget equal to the live flows plus the shards between a reservation and
its use (`Budget`), and L7 holding only flows that were made visible
(`OpenIsVisible`). The budget needs the middle term because shards reserve
before they place. Every step of a shard is shown to retire flows, to serve one
that is there, to open one, or to change none of them (`StepKind`); each part
of the invariant and the refinement are proved from that.

### Capture (`IngestProofs`)

For any ports, operators, workers and frames, of any nesting of headers.

* `IngestInvariant`; `RegistryCorrect` (`RegistryFollowsDatabase`) follows;
* `FiltersCorrect` (`NoBlindSpot`): what a worker has read under the current
  generation is the current registry, because the registry is stored before the
  generation is raised and read after it (`Fresh`); and a frame the decoder
  attributes to a service passes the filter of its ports, by induction on the
  headers;
* `KeysCorrect` (`KeysSymmetric`): decoding a frame and its mirror image goes
  through mirrored states, header by header;
* `TopologyCorrect` (`TopologyConserved`): for a finite set of workers, the
  packets observed are those the table has forgotten, those that found it full,
  those in it and those in the workers' hands (`TopologyInv`). A sum is the
  number of units in all of its terms (`SumOf`), so sums are split and joined as
  disjoint finite sets; merging a batch, ageing the table and flushing a worker
  each move units from one term to another;
* `FragmentsCorrect` (`FragmentsSound`): `FragmentsInv` says that the cache is
  within its limits, and `CacheTrue` that the bytes charged to a datagram are
  the sum over its pieces and those of the cache the sum over its datagrams, and
  that the pieces of a datagram are disjoint and each is the part of the
  original its offset names. What a complete datagram yields follows by
  induction over the offsets of its pieces. A fragment is assumed to carry, at
  its offset, bytes that belong there (`IsCut`), of the original or of another
  version; fragments may overlap, repeat, be missing or have any length.

### HTTP parser (`HttpStreamProofs`)

For any exchanges whose directions number their units (`ScenariosAssumption`),
cut into any chunks, interleaved and holed in any way, and for any limits.

* `ParseEnds`: the parse loop of `feed` ends, in a state from which no turn can
  be taken;
* `HttpInvariant`; `RecordsCorrect` (`RecordsTrue`) follows: whatever is handed
  on as a header or a body stands at its offset of the stream; a decoded body
  has an offset behind all units it was decoded from (the code takes
  `stream_offset` after the body, `http/mod.rs` 872 and 880), each of which was
  reported as body.

A parser is `Good` when its buffer holds the units of the stream from its offset
on, up to where the next chunk is expected (`Aligned`), and the state of a body
announces units that are still to be read. Each turn of the loop, through
headers, every kind of body, chunk framing, resynchronisation and the switch to
a tunnel, keeps that and lowers `Measure`, twice the buffered units and one more
within a body; so the loop ends, by a least counterexample over the recursive
function `Turns`. `RecordsInv` adds that the parsers of both directions are in
step with what was delivered until a tunnel begins, and that every emission is
faithful.

### Pattern registry and matcher (`PatternMatchingProofs`)

For any patterns, requests, streams, traffic and limits.

* `MatchingInvariant`; `ActiveSetCorrect` (`ActiveIsLatest`) and
  `RevisionsReachRecords` (`LiveOrHistorical`) follow.
* `ScansInvariant`; `HitsCorrect` (`HitsExact`) follows. Decoded bodies may
  have any text and lie at any offset, also at one where another ends.

`MatchingInv` says that installers take turns unless they overlapped, that the
interest mask is that of the installed set once it is stored (`RegistryInv`);
that a record that was not copied had no rule in the set its mask came from, and
that only wanted records reach the queue (`IngressInv`); and that a record
accepted after the seal of a revision is or will be scanned with it
(`ReachInv`). The proof showed that a look-back sealed before the installation
covers nothing that is accepted between the two, so `sealed` records only
look-backs that follow the installation; the fourth scenario of the run
`patterns` has one that does not.

`HitsExact` rests on what one scan finds and on what the tail of a stream holds.
For one scan: `find_iter`, a recursive function, returns only occurrences and
every one that no rival overlaps (by a least counterexample over its turns, and
because the order it takes them in has a first in every set that is not empty);
what is found in a part of a text is an occurrence of the text at the shifted
place; so bridge, record and window of a regular expression together report
every isolated occurrence that begins in the prefix or the record and ends in
the record, and nothing else (`ScanRecordIs`). For the tails, `HitsExactInv`
says that the records of verbatim streams are true pieces in order
(`RecordsInv`, `TrafficInv`), that they are scanned in the order in which they
were accepted and that no record of a flow is behind its closing notice in the
queue (`QueueInv`), that the tail of a verbatim stream is what precedes its end
(`TailsInv`), that a live hit ends in a record that was scanned, so that it
cannot be found again (`HitsInv`), and that the tail behind the latest scanned
record of a stream reaches back over everything scanned with the same set and
generation, as far as the longest word of the set can need, unless the flow was
purged or nothing more comes from it (`ReachesInv`). That last part is what
makes `PublishedInv`, the completeness of the hits, inductive. The proof uses
that no word is empty (`PatternsAssumption`; `validate_new_pattern` refuses one)
and that the pieces of a verbatim stream are behind one another
(`TrafficAssumption`; reassembly never goes back). Nothing is assumed of decoded
bodies: there a tail, kept or not, can only add what crosses the start of a
body, so that a literal within the body is found in any case, and a regular
expression unless the tail of a body that meets it brings a rival. That one scan
reports no hit twice (`twice`) follows for all streams: bridge and record share
no place, and a rule is in one group only; that two scans do not follows for
verbatim streams, on which records do not overlap. Two decoded bodies at one
offset may well yield hits at the same numbers. The proof showed that the order in
which matches are taken must tell any two occurrences apart, those of two
revisions with equal words included, which `Place` does.

### Historical replay (`ReplayJobProofs`)

For any segments, records and flows, patterns, number of workers, starts and
failures.

* `ReplayInvariant`; `ReplayCheckpointDurable` (`CheckpointDurable`) follows.

The hits of a segment pass through a worker's queue, the collector's queue and
the metadata writer before a row counts them, so `IInv` says where each one is
at every point of the scan. Every row of the table and every report of the
thread is true: the hits of the segments it counts are durable and counted, and
counted exactly if no pause came in between (`RowTrue`). Within a segment, every
hit of a record that a worker has scanned is counted or on its way to the
collector (`CountTrue`), and is durable, sent or queued as long as the metadata
writer runs (`SafeTrue`), unless a hit was refused, after which the scan does
not report the segment as done. What a worker remembers of a flow is that the
flow was met since the job was last resumed (`TailsTrue`), which needs that a
worker takes the records of its flows in order (`WorkTrue`); the three barriers
are passed only when the queue they wait on is empty, so that before a
checkpoint all records are scanned, all hits counted and all of them durable.

### What is only model-checked

* Liveness under fairness and `ENABLED`: every temporal property besides
  `ImplementsContract`.
* `TombstonesLast` of `FlowTable`, an action property.
* `FramingExact` and `GapRecovered` of `HttpStream`: they say what a whole
  exchange yields, and which exchanges are well formed is a flag of a scenario
  (`clean`, `plain`) and not a definition that a proof could take apart.

## 5. Where the code and its description part

Two disagreements have runs, `tcp_duplicate` and `bridge`. The others were met
while modelling; the models follow the code, and the properties are stated so
that they say what holds besides.

Storage:

* `storage/mod.rs:433`: start-up indexes only the newest segment again, but
  `SegmentStore::open` has already created a newer one; a crash between that
  and the durable barrier leaves a segment that no later start indexes, against
  the comment at 434.
* `storage/segment.rs:360` and 588: `delete_segments` does not lower the
  writer's `retained_bytes`, so records are refused as "segment disk budget
  exhausted" while the directory has room (`config.rs:124`, "Hard retained
  payload budget"). At a restart the header of the new segment may exceed the
  budget, after which the next start is refused (`segment.rs:552`).
* `api/mod.rs:266`: the write guard lives in the request's future and the
  deletion in a blocking task; a client that disconnects drops the guard while
  files are deleted under a replay (`docs/ARCHITECTURE.md:199`).
* `storage/segment.rs:487`: rows are durable before the payload they point at
  is synced, so after a power failure a row may point beyond its segment; a
  clock set back makes an older file name the newest (`segment.rs:919`); an
  insert that timed out at the client may land after later batches
  (`clickhouse.rs:169`). The first is what `NoRowWithoutPayload` shows when it is
  checked with power failures; the other two are outside the models.

Reassembly (`flow/reassembly.rs`):

* 498: a tentative FIN before a buffered segment makes `finalize` leave it in
  the buffer (`docs/ARCHITECTURE.md:207`);
* 553: `consume_fin_if_ready` consumes an unconfirmed FIN after a gap and a
  flush, and clears bytes behind it (`README.md:19`);
* 540: a segment buffered before the FIN was seen is emitted whole though it
  reaches beyond it (comment at 159); 330: the clock of a hole that is filled
  goes on for the next one (comment at 63).

Capture and HTTP:

* `http/mod.rs:57`: two service edits that overlap lose one in the registry
  while the database has both, until the next edit or restart.
* Traffic of this host to a service port elsewhere is turned away by
  `frame_may_belong_to_service` and would be let through by
  `service_flow_visible`; where the interface's MAC cannot be resolved, local
  responses are taken for remote traffic and dropped.
* Fragments expire only when another fragment arrives after the clean-up
  interval; after an overlap dropped a datagram its later fragments start a
  new one.
* The limit on a header depends on where the stream was cut; a chunk error
  drops the body collected in the same call; resynchronisation looks at the
  very next byte and at line starts only; a response parsed before its request,
  or after a gap cleared the pairing, is framed without knowing of HEAD or
  CONNECT (`http/mod.rs:632`).

Matching and replay:

* `matching/mod.rs:648`: `prefix_for` takes the tail when its end is the offset
  of the record. A decoded body is stored at the wire offset of its end
  (`http/mod.rs:1337`) and counts its decoded length from there, so it may end
  at the offset of the next one, and a pattern is found across two messages,
  against the comment at 644 and `docs/ARCHITECTURE.md:148` (run `bridge`).
* `matching/mod.rs:97`: of two overlapping requests the older list may be
  installed last; both may also read the same revision and one then fails on
  the primary key. A rebuild that fails leaves a pattern enabled in the table,
  inactive, and without a replay.
* `http/mod.rs:416`: a record whose mask was read before the installation and
  which is accepted after the seal is scanned neither live nor in history.
* `matching/mod.rs:703`: any change of any pattern starts a new generation and
  empties all tails, so an occurrence of another pattern across that point is
  lost. The bridge (309) is scanned for matches that do not overlap: a short
  one inside the tail may hide a longer one that crosses, depending on the cut.
* `docs/ARCHITECTURE.md:152` describes workers that compare generations and
  keep a set of their own; the code takes the set at ingress.
* `replay/mod.rs:190`, `api/mod.rs:770`: a request is lost with the process, or
  when the snapshot or the job row fails, before the row exists, although
  `docs/API.md:171` says that a revision creates a job. A failure of PostgreSQL
  at the first or last update, or at the one that marks a job as failed
  (`BeginFails`), leaves a job to the next restart, and recovery
  looks at the newest 1000 jobs only.
* `replay/mod.rs:595`: `matches_found` counts hits of a half-scanned segment
  again after a pause; an occurrence across a resume point is lost, as tails
  start empty; retention of segments already scanned fails a resumed job
  (252-277). The comment at 545 speaks of confirmation by ClickHouse, the
  barrier at 565 is the durable one.

## 6. Not modelled

* XDP throttle: a token bucket in the kernel (`native/throttle.bpf.c`) and one
  table of rules behind one lock; no interleaving of it is hard to test.
* Operator sessions: one table with an expiry behind one lock.
* `runtime.rs`: it joins the stages in pipeline order. The storage end of the
  shutdown is in `MetadataPipeline` and `SegmentStore`, the pause of a job in
  `ReplayJob`; the composition of all stages is beyond TLC.
* AF_XDP rings, offline files, the raw copy of frames, socket set-up: I/O whose
  state is in the kernel or a library.
* Text of SQL and rows, decoders, the regular expression engine, header syntax,
  CPU planning, metrics, configuration and the front end: data processing or
  constants without protocol state.
* `SegmentStore`, `PatternMatching` and `ReplayJob` are composed through the
  abstractions named in section 2, not in one state space.
