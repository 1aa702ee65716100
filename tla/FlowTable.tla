----------------------------- MODULE FlowTable -----------------------------
(***************************************************************************)
(* The flow shards (src/src/flow/mod.rs): each owns the flows of its keys, *)
(* their lazy idle timers, the tombstones of recently closed connections   *)
(* and the flow counts per source prefix; all of them reserve from one     *)
(* global budget, metrics.active_flows, with a compare-and-swap loop.      *)
(*                                                                         *)
(* One iteration of shard_loop is Recv (the packet up to the vacant        *)
(* entry), Admit (the reservation), Place (prefix quota, insertion and     *)
(* processing) and TimerPass; a path that says `continue` in the code goes *)
(* back to Recv without the timer pass.  Other shards run in between.      *)
(*                                                                         *)
(* Data: time is relative.  A flow has the time since its last activity, a *)
(* timer and a tombstone the time left; none of them is told apart once it *)
(* has run out.  A TCP direction is reduced to what the table asks of it:  *)
(* "new" (no sequence state), "open", "held" (bytes or a FIN wait for an   *)
(* earlier byte) and "done" (FIN consumed); which of its possible outcomes *)
(* a segment has is a choice (TcpHalf models it).  A flow id is its key    *)
(* with a generation that nothing refers to any more.                      *)
(***************************************************************************)
EXTENDS Integers, Sequences, FiniteSets, Functions

CONSTANTS
    Shards, Keys,
    ShardOf,        \* Keys -> Shards: shard_hash64
    TcpKeys,        \* the keys whose protocol is TCP
    SourcePrefixes,
    PrefixOf,       \* key, direction -> SourcePrefix
    Traffic,        \* the packets that are captured
    Gens,           \* model bound: flows of one key that something refers to
    MaxFlows,       \* max_active_flows
    MaxPerPrefix,   \* max_flows_per_source_prefix
    TcpTimeout, UdpTimeout, TombstoneTtl,
    TombstoneMax,   \* TCP_TOMBSTONE_MAX
    CompactMin,     \* 4096 in the code
    CompactSlack,   \* 1024 in the code
    MaxOrder        \* model bound: closes of a shard within TombstoneTtl

ASSUME ShardAssumption == ShardOf \in [Keys -> Shards] /\ TcpKeys \subseteq Keys
ASSUME FlowLimitsAssumption ==
    /\ MaxFlows \in Nat \ {0} /\ MaxPerPrefix \in Nat \ {0}
    /\ TombstoneMax \in Nat \ {0} /\ CompactMin \in Nat /\ CompactSlack \in Nat
ASSUME TimeoutAssumption ==
    {TcpTimeout, UdpTimeout, TombstoneTtl} \subseteq Nat \ {0}

Dirs == {"ab", "ba"}
HalfStates == {"new", "open", "held", "done"}
FlowIds == Keys \X Gens
ASSUME PrefixAssumption == PrefixOf \in [Keys \X Dirs -> SourcePrefixes]
opposite(d) == CHOOSE e \in Dirs : e # d

VARIABLES
    flows,      \* flows[s]: key -> flow
    timers,     \* timers[s]: the BinaryHeap
    tombs,      \* tombs[s]: TcpTombstones
    counts,     \* counts[s]: source_counts
    active,     \* metrics.active_flows
    pc,         \* pc[s]: where shard_loop is, with the packet in hand
    l7          \* ids of the flows the L7 stage holds state for

vars == <<flows, timers, tombs, counts, active, pc, l7>>

(* HashMap::insert.                                                        *)
Put(f, k, v) == [x \in DOMAIN f \cup {k} |-> IF x = k THEN v ELSE f[x]]

-----------------------------------------------------------------------------
(* Packets                                                                 *)

PacketRecords ==
    [key : TcpKeys, dir : Dirs, kind : {"syn", "data", "empty", "fin", "rst"}]
    \cup [key : Keys \ TcpKeys, dir : Dirs, kind : {"data", "empty"}]

ASSUME TrafficAssumption == Traffic \subseteq PacketRecords

Tcp(k) == k \in TcpKeys
Timeout(k) == IF Tcp(k) THEN TcpTimeout ELSE UdpTimeout
Live(s) == DOMAIN flows[s]

(* A "syn" is an initiating one (SYN without ACK); a SYN with ACK is to    *)
(* the table a packet that starts a direction, as "data" is.               *)
Packets(s) == {p \in Traffic : ShardOf[p.key] = s}

-----------------------------------------------------------------------------
(* TcpTombstones                                                           *)

NoTombs == [by_key |-> <<>>, order |-> <<>>]

(* The entry of the queue that stands for the tombstone of k, which is     *)
(* the one with its deadline.                                              *)
EntryOf(t, k) == [left |-> t.by_key[k], key |-> k]

(* Slip: a popped entry takes the tombstone of its key with it, even if    *)
(* the key was closed again since.                                         *)
PoppedWithKey(t, n) ==
    LET kept == {k \in DOMAIN t.by_key : \A i \in 1 .. n : t.order[i].key # k}
    IN  [by_key |-> Restrict(t.by_key, kept),
         order |-> SubSeq(t.order, n + 1, Len(t.order))]

(* n entries are popped from the front of the queue; each takes the        *)
(* tombstone it stands for with it, unless the key was closed again since. *)
Popped(t, n) ==
    LET kept == {k \in DOMAIN t.by_key : \A i \in 1 .. n : t.order[i] # EntryOf(t, k)}
    IN  [by_key |-> Restrict(t.by_key, kept),
         order |-> SubSeq(t.order, n + 1, Len(t.order))]

expire(t) ==
    LET due == {i \in 1 .. Len(t.order) : \A j \in 1 .. i : t.order[j].left = 0}
    IN  Popped(t, Cardinality(due))

remove(t, k) == [t EXCEPT !.by_key = Restrict(@, DOMAIN @ \ {k})]

(* The eviction pops until at most TombstoneMax keys are left.             *)
Evict(t) ==
    LET n == CHOOSE i \in 0 .. Len(t.order) :
                /\ \/ Cardinality(DOMAIN Popped(t, i).by_key) <= TombstoneMax
                   \/ i = Len(t.order)
                /\ \A j \in 0 .. i - 1 :
                      Cardinality(DOMAIN Popped(t, j).by_key) > TombstoneMax
    IN  Popped(t, n)

(* Slip: a key that is closed again keeps its first queue entry.           *)
InsertOnce(t, k) ==
    Evict(expire([by_key |-> Put(t.by_key, k, TombstoneTtl),
                  order |-> IF k \in DOMAIN t.by_key THEN t.order
                            ELSE Append(t.order, [left |-> TombstoneTtl, key |-> k])]))

insert(t, k) ==
    Evict(expire([by_key |-> Put(t.by_key, k, TombstoneTtl),
                  order |-> Append(t.order, [left |-> TombstoneTtl, key |-> k])]))

contains_live(t, k) == k \in DOMAIN expire(t).by_key

-----------------------------------------------------------------------------
(* Flows                                                                   *)

NewFlow(p, id) ==
    [id |-> id, prefix |-> PrefixOf[<<p.key, p.dir>>], idle |-> 0,
     half |-> [d \in Dirs |-> "new"], visible |-> FALSE]

(* TcpHalf::acknowledge may release what the half holds.                   *)
AckOutcomes(h) ==
    {[half |-> h, emitted |-> FALSE]} \cup
    (IF h = "held" THEN [half : {"held", "open", "done"}, emitted : BOOLEAN]
                   ELSE {})

(* TcpHalf::accept: a first segment starts the sequence, a later one may   *)
(* be in order, out of order or old, and may close the hole in front of    *)
(* what is held; only a FIN, or a FIN that is held, ends the direction.    *)
AcceptOutcomes(h, kind) ==
    IF h = "done" THEN {[half |-> h, emitted |-> FALSE]}
    ELSE {o \in [half : {"open", "held", "done"}, emitted : BOOLEAN] :
            /\ o.emitted => kind \in {"data", "fin"} \/ h = "held"
            /\ o.half = "done" => kind = "fin" \/ h = "held"
            /\ h = "new" => o.half # "held"
            /\ h = "open" /\ o.half = "held" => kind \in {"data", "fin"}}

(* What a TCP packet may do to the flow: rst_matches_next, acknowledge of  *)
(* the other direction (which changes nothing when the packet has no ACK), *)
(* accept of its own.                                                      *)
TcpOutcomes(f, p) ==
    {[flow |-> [f EXCEPT !.half = [d \in Dirs |-> IF d = p.dir THEN own.half ELSE other.half]],
      emitted |-> own.emitted \/ other.emitted,
      rst |-> rst] :
        rst \in IF p.kind # "rst" THEN {FALSE}
                ELSE IF f.half[p.dir] = "new" THEN {TRUE} ELSE BOOLEAN,
        other \in IF p.kind = "syn"
                  THEN {[half |-> f.half[opposite(p.dir)], emitted |-> FALSE]}
                  ELSE AckOutcomes(f.half[opposite(p.dir)]),
        own \in IF p.kind = "rst" \/ (p.kind = "empty" /\ f.half[p.dir] # "new")
                THEN {[half |-> f.half[p.dir], emitted |-> FALSE]}
                ELSE AcceptOutcomes(f.half[p.dir], p.kind)}

(* An ACK on a reset that was not accepted is not looked at.               *)
Outcomes(f, p) ==
    IF Tcp(p.key)
    THEN {o \in TcpOutcomes(f, p) :
            p.kind = "rst" /\ ~o.rst => o.flow = f /\ ~o.emitted}
    ELSE {[flow |-> f, emitted |-> p.kind = "data", rst |-> FALSE]}

should_close(o) == o.rst \/ \A d \in Dirs : o.flow.half[d] = "done"

(* finalize_tcp_halves drains what is held (all but what lies behind a     *)
(* tentative FIN).                                                         *)
FinalizeEmits(f) ==
    IF \E d \in Dirs : f.half[d] = "held" THEN BOOLEAN ELSE {FALSE}

(* Slip: Closed is sent before the halves are drained.                     *)
CloseThenDrain(states, fs, emits) ==
    LET drained == {k \in DOMAIN emits : emits[k]}
        visible == {k \in DOMAIN emits : fs[k].visible}
    IN  (states \ {fs[k].id : k \in visible}) \cup {fs[k].id : k \in drained}

(* The state of the L7 stage after the Chunk messages of finalize, sent    *)
(* for the flows that emit, and the Closed message, which only a visible   *)
(* flow sends.                                                             *)
L7Closed(states, fs, emits) ==
    LET drained == {k \in DOMAIN emits : emits[k]}
        visible == {k \in DOMAIN emits : fs[k].visible} \cup drained
    IN  (states \cup {fs[k].id : k \in drained}) \ {fs[k].id : k \in visible}

(* source_counts after flows of the given keys are gone.                   *)
Uncount(c, fs, gone) ==
    LET left == [x \in DOMAIN c |->
                    c[x] - Cardinality({k \in gone : fs[k].prefix = x})]
    IN  Restrict(left, {x \in DOMAIN left : left[x] > 0})

(* close_flow for a set of keys of shard s, out of the flows fs.           *)
CloseFlows(s, fs, c, states, gone) ==
    /\ flows' = [flows EXCEPT ![s] = Restrict(fs, DOMAIN fs \ gone)]
    /\ counts' = [counts EXCEPT ![s] = Uncount(c, fs, gone)]
    /\ active' = active - Cardinality(gone)
    /\ \E emits \in [gone -> BOOLEAN] :
          /\ \A k \in gone : emits[k] \in FinalizeEmits(fs[k])
          /\ l7' = L7Closed(states, fs, emits)

-----------------------------------------------------------------------------
(* shard_loop                                                              *)

At(s, where) == pc[s].at = where
Goto(s, where) == pc' = [pc EXCEPT ![s] = [at |-> where]]
GotoWith(s, where, p) == pc' = [pc EXCEPT ![s] = [at |-> where, pkt |-> p]]

InitiatingSyn(p) == Tcp(p.key) /\ p.kind = "syn"

(* A control or empty packet that trails the close of its connection.      *)
Suppressed(s, p) ==
    /\ Tcp(p.key) /\ p.kind \in {"empty", "fin", "rst"}
    /\ p.key \notin Live(s)
    /\ contains_live(tombs[s], p.key)

(* tombstones as the packet leaves them.                                   *)
TombsAfter(s, p) ==
    IF InitiatingSyn(p) THEN remove(tombs[s], p.key)
    ELSE IF Tcp(p.key) /\ p.key \notin Live(s) THEN expire(tombs[s])
    ELSE tombs[s]

(* Whether a SYN starts a new generation of a live flow.  A direction      *)
(* without sequence state has no initial number that it could repeat.      *)
NewGeneration(s, p) ==
    IF ~InitiatingSyn(p) \/ p.key \notin Live(s) THEN {FALSE}
    ELSE IF flows[s][p.key].half[p.dir] = "new" THEN {TRUE}
    ELSE BOOLEAN

(* Generations that neither a flow, a timer nor the L7 stage refers to.    *)
FreeGens(s, k) ==
    {g \in Gens : /\ \A x \in Live(s) : flows[s][x].id # <<k, g>>
                  /\ \A t \in timers[s] : t.id # <<k, g>>
                  /\ <<k, g>> \notin l7}

CountOf(s, x) == IF x \in DOMAIN counts[s] THEN counts[s][x] ELSE 0

(* A packet p of flow f: reassembly, the snapshot that makes the flow      *)
(* visible, the idle timer of a new flow, and the close.  t and c are the  *)
(* tombstones and the prefix counts so far.                                *)
Process(s, p, f, isNew, t, c) ==
    \E o \in Outcomes([f EXCEPT !.idle = 0], p) :
        LET g == [o.flow EXCEPT !.visible = @ \/ o.emitted]
            close == should_close(o)
        IN  /\ CloseFlows(s, Put(flows[s], p.key, g), c,
                          IF o.emitted THEN l7 \cup {f.id} ELSE l7,
                          IF close THEN {p.key} ELSE {})
            /\ timers' = [timers EXCEPT ![s] =
                  IF isNew /\ ~close
                  THEN @ \cup {[left |-> Timeout(p.key), key |-> p.key, id |-> f.id]}
                  ELSE @]
            /\ tombs' = [tombs EXCEPT ![s] =
                  IF close /\ Tcp(p.key) THEN insert(t, p.key) ELSE t]
            /\ Goto(s, "timers")

(* A packet up to the vacant entry, or all of it when its flow is live.    *)
(* Whether accepts_destination holds for it is a choice.                   *)
Recv(s, p) ==
    /\ At(s, "recv")
    /\ Len(expire(tombs[s]).order) < MaxOrder
    /\ (p.key \in Live(s) /\ ~InitiatingSyn(p)) \/ FreeGens(s, p.key) # {}
    /\ \E fresh \in NewGeneration(s, p) :
          IF p.key \in Live(s) /\ ~fresh
          THEN Process(s, p, flows[s][p.key], FALSE, TombsAfter(s, p), counts[s])
          ELSE /\ CloseFlows(s, flows[s], counts[s], l7, IF fresh THEN {p.key} ELSE {})
               /\ tombs' = [tombs EXCEPT ![s] = TombsAfter(s, p)]
               /\ Goto(s, "recv") \/ (~Suppressed(s, p) /\ GotoWith(s, "admit", p))
               /\ UNCHANGED timers

(* The 20 ms wait ends without a packet.                                   *)
Idle(s) ==
    /\ At(s, "recv")
    /\ Goto(s, "timers")
    /\ UNCHANGED <<flows, timers, tombs, counts, active, l7>>

(* try_admit_flow: one slot of the global budget, or the packet is refused *)
(* and the loop starts over.                                               *)
Admit(s) ==
    /\ At(s, "admit")
    /\ IF active < MaxFlows
       THEN active' = active + 1 /\ GotoWith(s, "place", pc[s].pkt)
       ELSE UNCHANGED active /\ Goto(s, "recv")
    /\ UNCHANGED <<flows, timers, tombs, counts, l7>>

(* Slip: a packet refused by the prefix quota keeps the slot it reserved.  *)
RefuseKeepingSlot(s) ==
    /\ Goto(s, "recv")
    /\ UNCHANGED <<flows, timers, tombs, counts, active, l7>>

(* The quota of the source prefix refuses, and gives the slot back.        *)
RefusePrefix(s) ==
    /\ active' = active - 1
    /\ Goto(s, "recv")
    /\ UNCHANGED <<flows, timers, tombs, counts, l7>>

(* The packet of a reserved slot: refused, or inserted and processed.      *)
Place(s) ==
    /\ At(s, "place")
    /\ LET p == pc[s].pkt
           x == PrefixOf[<<p.key, p.dir>>]
           id == <<p.key, CHOOSE g \in FreeGens(s, p.key) : TRUE>>
       IN  IF CountOf(s, x) >= MaxPerPrefix THEN RefusePrefix(s)
           ELSE Process(s, p, NewFlow(p, id), TRUE, tombs[s],
                        Put(counts[s], x, CountOf(s, x) + 1))

(* Slip: compaction starts the idle time of every flow again.              *)
RebuiltFromNow(fs) ==
    {[left |-> Timeout(k), key |-> k, id |-> fs[k].id] : k \in DOMAIN fs}

(* Compaction: one timer per flow of fs, none for anything else.           *)
Rebuilt(fs) ==
    {[left |-> Timeout(k) - fs[k].idle, key |-> k, id |-> fs[k].id] : k \in DOMAIN fs}

(* Slip: a timer that fires early is not set again.                        *)
RescheduledOnce(s, t) ==
    IF /\ t.key \in Live(s) /\ flows[s][t.key].id = t.id
       /\ flows[s][t.key].idle = Timeout(t.key)
    THEN {t}
    ELSE {}

(* What a due timer leaves behind: nothing when its flow is gone or        *)
(* replaced, else the time its flow still has; none left means a close.    *)
Rescheduled(s, t) ==
    IF t.key \in Live(s) /\ flows[s][t.key].id = t.id
    THEN {[t EXCEPT !.left = Timeout(t.key) - flows[s][t.key].idle]}
    ELSE {}

(* The heap is compacted when stale timers outnumber the n flows.          *)
NeedsCompaction(heap, n) ==
    Cardinality(heap) > CompactMin /\ Cardinality(heap) > 2 * n + CompactSlack

(* The timer pass and the occasional compaction of the heap.               *)
TimerPass(s) ==
    /\ At(s, "timers")
    /\ LET due == {t \in timers[s] : t.left = 0}
           again == UNION {Rescheduled(s, t) : t \in due}
           gone == {t.key : t \in {u \in again : u.left = 0}}
           fs == Restrict(flows[s], Live(s) \ gone)
           heap == (timers[s] \ due) \cup {t \in again : t.left > 0}
       IN  /\ CloseFlows(s, flows[s], counts[s], l7, gone)
           /\ timers' = [timers EXCEPT ![s] =
                 IF NeedsCompaction(heap, Cardinality(DOMAIN fs))
                 THEN Rebuilt(fs) ELSE heap]
    /\ Goto(s, "recv")
    /\ UNCHANGED tombs

(* The capture workers have gone: the shard drains its flows and ends.     *)
Disconnected(s) ==
    /\ At(s, "recv")
    /\ CloseFlows(s, flows[s], counts[s], l7, Live(s))
    /\ Goto(s, "stopped")
    /\ UNCHANGED <<timers, tombs>>

Down(n) == IF n = 0 THEN 0 ELSE n - 1

(* Time passes for flows, timers and tombstones alike.                     *)
Tick ==
    /\ flows' = [s \in Shards |-> [k \in Live(s) |->
          [flows[s][k] EXCEPT !.idle = IF @ < Timeout(k) THEN @ + 1 ELSE @]]]
    /\ timers' = [s \in Shards |-> {[t EXCEPT !.left = Down(@)] : t \in timers[s]}]
    /\ tombs' = [s \in Shards |->
          [by_key |-> [k \in DOMAIN tombs[s].by_key |-> Down(tombs[s].by_key[k])],
           order |-> [i \in DOMAIN tombs[s].order |->
                        [tombs[s].order[i] EXCEPT !.left = Down(@)]]]]
    /\ UNCHANGED <<counts, active, pc, l7>>

-----------------------------------------------------------------------------
Init ==
    /\ flows = [s \in Shards |-> <<>>]
    /\ timers = [s \in Shards |-> {}]
    /\ tombs = [s \in Shards |-> NoTombs]
    /\ counts = [s \in Shards |-> <<>>]
    /\ active = 0
    /\ pc = [s \in Shards |-> [at |-> "recv"]]
    /\ l7 = {}

ShardStep(s) ==
    \/ \E p \in Packets(s) : Recv(s, p)
    \/ Idle(s) \/ Admit(s) \/ Place(s) \/ TimerPass(s)
    \/ Disconnected(s)

Next == Tick \/ \E s \in Shards : ShardStep(s)

Spec == Init /\ [][Next]_vars /\ WF_vars(Tick)

-----------------------------------------------------------------------------
(* Properties                                                              *)

FlowRecords ==
    [id : FlowIds, prefix : SourcePrefixes, idle : 0 .. TcpTimeout + UdpTimeout,
     half : [Dirs -> HalfStates], visible : BOOLEAN]
PcAt == {"recv", "admit", "place", "timers", "stopped"}

(* Every flow sits in the shard of its key under its own key, and a packet *)
(* in hand belongs to the shard (shard_loop's tables are per shard).       *)
TypeOK ==
    /\ \A s \in Shards :
        /\ Live(s) \subseteq {k \in Keys : ShardOf[k] = s}
        /\ \A k \in Live(s) : flows[s][k] \in FlowRecords /\ flows[s][k].id[1] = k
        /\ \A t \in timers[s] : t.id[1] = t.key /\ t.left \in 0 .. Timeout(t.key)
        /\ DOMAIN counts[s] \subseteq SourcePrefixes
        /\ pc[s].at \in PcAt
        /\ "pkt" \in DOMAIN pc[s] => pc[s].pkt \in Packets(s)
        /\ pc[s].at \in {"admit", "place"} => pc[s].pkt.key \notin Live(s)
    /\ active \in 0 .. MaxFlows
    /\ l7 \subseteq FlowIds

LiveIds == UNION {{flows[s][k].id : k \in Live(s)} : s \in Shards}
Reserved == Cardinality({s \in Shards : At(s, "place")})

(* The global counter is the number of flows of all shards plus the slots  *)
(* reserved by shards that have not decided yet: every way a flow ends and *)
(* every refusal gives its slot back exactly once (try_admit_flow,         *)
(* close_flow, the drain at the end of shard_loop).                        *)
BudgetExact ==
    active = Reserved + Cardinality(LiveIds)

(* source_counts counts the live flows of each prefix, and has no entry    *)
(* for a prefix without flows.                                             *)
PrefixCountsExact ==
    \A s \in Shards : \A x \in SourcePrefixes :
        LET n == Cardinality({k \in Live(s) : flows[s][k].prefix = x})
        IN  /\ n <= MaxPerPrefix
            /\ CountOf(s, x) = n
            /\ x \in DOMAIN counts[s] <=> n > 0

(* The tables of the shards agree with one another and with the shared     *)
(* budget.                                                                 *)
TablesConsistent == TypeOK /\ BudgetExact /\ PrefixCountsExact

(* Every flow has exactly one timer, due no later than the end of its idle *)
(* time: no flow can be forgotten, however timers are rescheduled, left    *)
(* behind or compacted.                                                    *)
OneTimerPerFlow ==
    \A s \in Shards : \A k \in Live(s) :
        LET mine == {t \in timers[s] : t.id = flows[s][k].id}
        IN  /\ Cardinality(mine) = 1
            /\ \A t \in mine : t.left <= Timeout(k) - flows[s][k].idle

(* A tombstone is found by the queue that expires it, with its own time,   *)
(* and the set stays within TCP_TOMBSTONE_MAX.                             *)
TombstonesExpire ==
    \A s \in Shards :
        /\ Cardinality(DOMAIN tombs[s].by_key) <= TombstoneMax
        /\ \A k \in DOMAIN tombs[s].by_key : \E i \in DOMAIN tombs[s].order :
              tombs[s].order[i] = [left |-> tombs[s].by_key[k], key |-> k]

(* A tombstone lasts its time, however often its connection was opened and *)
(* closed before: only a SYN of its own connection, or the close of        *)
(* another when the set is full, takes one that has time left, and then    *)
(* one of the oldest (expire, remove and the eviction of insert).          *)
TombstonesLast ==
    [][\A s \in Shards : \A k \in DOMAIN tombs[s].by_key :
          tombs[s].by_key[k] > 0 /\ k \notin DOMAIN tombs'[s].by_key =>
             \/ \E p \in Packets(s) : p.key = k /\ InitiatingSyn(p) /\ Recv(s, p)
             \/ /\ Cardinality(DOMAIN tombs'[s].by_key) = TombstoneMax
                /\ \A x \in DOMAIN tombs'[s].by_key : tombs[s].by_key[k] <= tombs'[s].by_key[x]]_vars

(* The shards together implement the contract of the flow table.           *)
Contract == INSTANCE FlowContract WITH live <- LiveIds, open <- l7
ImplementsContract == Contract!ContractSpec

(* The shard gets to its timer pass, and through it, again and again.      *)
PassesTimers(s) == []<>At(s, "timers") /\ []<>~At(s, "timers")
(* A flow that stays idle is closed, provided its shard gets to its timer  *)
(* pass again and again.  Packets that are suppressed, filtered or refused *)
(* restart the loop before the timer pass, so that the proviso is needed.  *)
IdleFlowsExpire ==
    \A k \in Keys : LET s == ShardOf[k] IN
        PassesTimers(s) =>
            []<>(k \in Live(s) => flows[s][k].idle = 0)
=============================================================================
