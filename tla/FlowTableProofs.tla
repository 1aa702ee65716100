-------------------------- MODULE FlowTableProofs --------------------------
(***************************************************************************)
(* The flow table is safe, and implements its contract, for every number   *)
(* of shards, keys, prefixes and generations and every limit and timeout.  *)
(***************************************************************************)
EXTENDS FlowTable, FiniteSetTheorems, TLAPS

-----------------------------------------------------------------------------
(* Facts about numbers and finite sets.                                    *)

(* A non-empty set of natural numbers has a least element: induction is by *)
(* a least counterexample.                                                 *)
LEMMA LeastNatural ==
    ASSUME NEW S \in SUBSET Nat, S # {}
    PROVE  \E n \in S : \A m \in S : n <= m
<1> DEFINE R == OpToRel(<, Nat)
<1>1. IsWellFoundedOn(R, Nat)
  BY NatLessThanWellFounded
<1>2. \A m, n \in Nat : m < n => <<m, n>> \in R
  BY DEF OpToRel
<1> HIDE DEF R
<1>3. PICK n \in S : \A m \in S : ~(<<m, n>> \in R)
  BY <1>1, WFMin
<1>4. \A m \in S : ~(m < n)
  BY <1>2, <1>3
<1>5. \A m \in S : n <= m
  BY <1>4
<1> QED
  BY <1>5

(* A one-to-one image of a finite set has as many elements as the set.     *)
LEMMA ImageCardinality ==
    ASSUME NEW S, IsFiniteSet(S), NEW f, DOMAIN f = S,
           f = [x \in S |-> f[x]], \A x, y \in S : f[x] = f[y] => x = y
    PROVE  /\ IsFiniteSet({f[x] : x \in S})
           /\ Cardinality({f[x] : x \in S}) = Cardinality(S)
<1> DEFINE T == {f[x] : x \in S}
<1>1. f \in Bijection(S, T)
  BY DEF Bijection, Injection, Surjection, IsInjective
<1> QED
  BY <1>1, FS_Bijection DEF ExistsBijection

(* Taking a part out of a finite set takes its size off.                   *)
LEMMA CardinalityMinus ==
    ASSUME NEW S, IsFiniteSet(S), NEW T, T \subseteq S
    PROVE  /\ IsFiniteSet(S \ T)
           /\ IsFiniteSet(T)
           /\ Cardinality(S) \in Nat /\ Cardinality(T) \in Nat
           /\ Cardinality(T) <= Cardinality(S)
           /\ Cardinality(S \ T) = Cardinality(S) - Cardinality(T)
<1>1. S \cap T = T
  OBVIOUS
<1> QED
  BY <1>1, FS_Difference, FS_Subset, FS_CardinalityType

(* The sizes of two disjoint finite sets add up.                           *)
LEMMA CardinalityPlus ==
    ASSUME NEW S, IsFiniteSet(S), NEW T, IsFiniteSet(T), S \cap T = {}
    PROVE  /\ IsFiniteSet(S \cup T)
           /\ Cardinality(S) \in Nat /\ Cardinality(T) \in Nat
           /\ Cardinality(S \cup T) = Cardinality(S) + Cardinality(T)
BY FS_Union, FS_EmptySet, FS_CardinalityType

-----------------------------------------------------------------------------
(* The inductive invariant.                                                *)

TimerRecords == [left : Nat, key : Keys, id : FlowIds]
PcStates(s) == [at : {"recv", "timers", "stopped"}]
                 \cup [at : {"admit", "place"}, pkt : Packets(s)]

(* A table of shard s: finitely many flows, each under its own key.        *)
IsTable(f, s) ==
    /\ IsFiniteSet(DOMAIN f)
    /\ DOMAIN f \subseteq {k \in Keys : ShardOf[k] = s}
    /\ \A k \in DOMAIN f : f[k] \in FlowRecords /\ f[k].id[1] = k /\ f[k].idle <= Timeout(k)

(* A packet on its way to a slot has no flow, and there is an id for one.  *)
ShardShape(s) ==
    /\ IsTable(flows[s], s)
    /\ pc[s] \in PcStates(s)
    /\ pc[s].at \in {"admit", "place"} =>
          pc[s].pkt.key \notin Live(s) /\ FreeGens(s, pc[s].pkt.key) # {}

Shapes ==
    /\ DOMAIN flows = Shards /\ DOMAIN timers = Shards /\ DOMAIN tombs = Shards
    /\ DOMAIN counts = Shards /\ DOMAIN pc = Shards
    /\ active \in Int
    /\ l7 \subseteq FlowIds
    /\ \A s \in Shards : ShardShape(s)

(* An id has one timer at most, a live flow has one, and it is not late.   *)
TimersSound(ts, fs) ==
    /\ ts \subseteq TimerRecords
    /\ \A t \in ts : t.id[1] = t.key /\ t.left <= Timeout(t.key)
    /\ \A t, u \in ts : t.id = u.id => t = u
    /\ \A k \in DOMAIN fs : \E t \in ts :
          t.id = fs[k].id /\ t.left <= Timeout(k) - fs[k].idle

(* A count per prefix that has flows, and it is their number.              *)
OfPrefix(fs, x) == {k \in DOMAIN fs : fs[k].prefix = x}
CountsMatch(c, fs) ==
    /\ DOMAIN c = {x \in SourcePrefixes : OfPrefix(fs, x) # {}}
    /\ \A x \in DOMAIN c : c[x] = Cardinality(OfPrefix(fs, x)) /\ c[x] <= MaxPerPrefix

(* Every tombstone has its entry in the queue.                             *)
TombsIndexed(t) ==
    /\ DOMAIN t = {"by_key", "order"}
    /\ t.order \in Seq([left : Nat, key : Keys])
    /\ IsFiniteSet(DOMAIN t.by_key)
    /\ \A k \in DOMAIN t.by_key : \E i \in DOMAIN t.order : t.order[i] = EntryOf(t, k)
TombsSound(t) == TombsIndexed(t) /\ Cardinality(DOMAIN t.by_key) <= TombstoneMax

Placing == {s \in Shards : At(s, "place")}
Budget ==
    /\ IsFiniteSet(LiveIds) /\ IsFiniteSet(Placing)
    /\ active = Cardinality(Placing) + Cardinality(LiveIds)
    /\ active <= MaxFlows

(* The L7 stage knows only the flows that were made visible to it.         *)
OpenIsVisible ==
    \A s \in Shards : \A k \in Live(s) : flows[s][k].id \in l7 => flows[s][k].visible

FlowInv ==
    /\ Shapes
    /\ \A s \in Shards : TimersSound(timers[s], flows[s])
    /\ \A s \in Shards : CountsMatch(counts[s], flows[s])
    /\ \A s \in Shards : TombsSound(tombs[s])
    /\ Budget
    /\ OpenIsVisible

-----------------------------------------------------------------------------
(* The building blocks of the actions.                                     *)

(* Timeouts, limits and the packets of a shard are what they should be.    *)
LEMMA ConstantFacts ==
    /\ \A k \in Keys : Timeout(k) \in Nat /\ Timeout(k) # 0 /\ Timeout(k) <= TcpTimeout + UdpTimeout
    /\ TcpTimeout \in Nat /\ UdpTimeout \in Nat /\ TombstoneTtl \in Nat
    /\ MaxFlows \in Nat /\ MaxPerPrefix \in Nat /\ MaxPerPrefix # 0 /\ TombstoneMax \in Nat
    /\ \A s : \A p \in Packets(s) :
          /\ p.key \in Keys /\ ShardOf[p.key] = s /\ p.dir \in Dirs
          /\ PrefixOf[<<p.key, p.dir>>] \in SourcePrefixes
<1>1. \A s : \A p \in Packets(s) : p.key \in Keys /\ ShardOf[p.key] = s /\ p.dir \in Dirs
  BY TrafficAssumption, ShardAssumption DEF Packets, PacketRecords
<1>2. \A k \in Keys, d \in Dirs : PrefixOf[<<k, d>>] \in SourcePrefixes
  BY PrefixAssumption
<1> QED
  BY <1>1, <1>2, TimeoutAssumption, FlowLimitsAssumption DEF Timeout

(* Reassembly changes nothing of a flow but the state of its directions    *)
(* (shard_loop's call of TcpHalf::accept and acknowledge).                 *)
LEMMA OutcomeKeepsFlow ==
    ASSUME NEW f \in FlowRecords, NEW s, NEW p \in Packets(s), NEW o \in Outcomes(f, p)
    PROVE  /\ o.flow \in FlowRecords
           /\ o.flow.id = f.id /\ o.flow.prefix = f.prefix
           /\ o.flow.idle = f.idle /\ o.flow.visible = f.visible
           /\ o.emitted \in BOOLEAN
<1>1. CASE Tcp(p.key)
  <2>1. o \in TcpOutcomes(f, p)
    BY <1>1 DEF Outcomes
  <2> DEFINE HalfOutcomes == [half : HalfStates, emitted : BOOLEAN]
  <2>2. ASSUME NEW h \in HalfStates, NEW kind
        PROVE  /\ AckOutcomes(h) \subseteq HalfOutcomes
               /\ AcceptOutcomes(h, kind) \subseteq HalfOutcomes
               /\ [half |-> h, emitted |-> FALSE] \in HalfOutcomes
    <3>1. [half |-> h, emitted |-> FALSE] \in HalfOutcomes
      OBVIOUS
    <3>2. [half : {"held", "open", "done"}, emitted : BOOLEAN] \subseteq HalfOutcomes
      BY DEF HalfStates
    <3>3. [half : {"open", "held", "done"}, emitted : BOOLEAN] \subseteq HalfOutcomes
      BY DEF HalfStates
    <3> HIDE DEF HalfOutcomes
    <3>4. AckOutcomes(h) \subseteq HalfOutcomes
      BY <3>1, <3>2, Zenon DEF AckOutcomes
    <3>5. AcceptOutcomes(h, kind) \subseteq HalfOutcomes
      BY <3>1, <3>3, Zenon DEF AcceptOutcomes
    <3> QED
      BY <3>1, <3>4, <3>5
  <2>3. p.dir \in Dirs /\ opposite(p.dir) \in Dirs
    BY ConstantFacts DEF opposite, Dirs
  <2>4. f.half[p.dir] \in HalfStates /\ f.half[opposite(p.dir)] \in HalfStates
    BY <2>3 DEF FlowRecords
  <2> HIDE DEF HalfOutcomes
  <2> DEFINE A == IF p.kind # "rst" THEN {FALSE}
                  ELSE IF f.half[p.dir] = "new" THEN {TRUE} ELSE BOOLEAN
             B == IF p.kind = "syn"
                  THEN {[half |-> f.half[opposite(p.dir)], emitted |-> FALSE]}
                  ELSE AckOutcomes(f.half[opposite(p.dir)])
             C == IF p.kind = "rst" \/ (p.kind = "empty" /\ f.half[p.dir] # "new")
                  THEN {[half |-> f.half[p.dir], emitted |-> FALSE]}
                  ELSE AcceptOutcomes(f.half[p.dir], p.kind)
             result(own, other, rst) ==
                [flow |-> [f EXCEPT !.half =
                             [d \in Dirs |-> IF d = p.dir THEN own.half ELSE other.half]],
                 emitted |-> own.emitted \/ other.emitted, rst |-> rst]
  <2>a. B \subseteq HalfOutcomes /\ C \subseteq HalfOutcomes
    BY <2>2, <2>4, Zenon
  <2>b. TcpOutcomes(f, p) = {result(own, other, rst) : rst \in A, other \in B, own \in C}
    BY DEF TcpOutcomes
  <2> HIDE DEF A, B, C, result
  <2>c. PICK rst \in A, other \in B, own \in C : o = result(own, other, rst)
    BY <2>1, <2>b
  <2>5. /\ own \in HalfOutcomes /\ other \in HalfOutcomes
        /\ o = [flow |-> [f EXCEPT !.half =
                           [d \in Dirs |-> IF d = p.dir THEN own.half ELSE other.half]],
                emitted |-> own.emitted \/ other.emitted, rst |-> rst]
    BY <2>a, <2>c, Zenon DEF result
  <2>6. [d \in Dirs |-> IF d = p.dir THEN own.half ELSE other.half] \in [Dirs -> HalfStates]
    BY <2>5 DEF HalfOutcomes
  <2>7. o.emitted \in BOOLEAN
    BY <2>5, Zenon
  <2>8. o.flow = [f EXCEPT !.half = [d \in Dirs |-> IF d = p.dir THEN own.half ELSE other.half]]
    BY <2>5, Zenon
  <2> QED
    BY <2>6, <2>7, <2>8 DEF FlowRecords
<1>2. CASE ~Tcp(p.key)
  <2>1. o = [flow |-> f, emitted |-> p.kind = "data", rst |-> FALSE]
    BY <1>2 DEF Outcomes
  <2>2. o.flow = f /\ o.emitted = (p.kind = "data")
    BY <2>1, Zenon
  <2> QED
    BY <2>2, Zenon
<1> QED
  BY <1>1, <1>2

IdsOf(fs, K) == {fs[k].id : k \in K}

(* The state after flows of the keys in gone ended, V of them with a       *)
(* message to the L7 stage.                                                *)
CloseResult(s, fs, c, states, gone, V) ==
    /\ DOMAIN flows' = Shards /\ DOMAIN counts' = Shards
    /\ flows'[s] = Restrict(fs, DOMAIN fs \ gone)
    /\ counts'[s] = Uncount(c, fs, gone)
    /\ \A x \in Shards \ {s} : flows'[x] = flows[x] /\ counts'[x] = counts[x]
    /\ active' = active - Cardinality(gone)
    /\ \A k \in gone : fs[k].visible => k \in V
    /\ l7' = states \ IdsOf(fs, V)

(* close_flow removes the flows of the given keys from their shard, and    *)
(* from the L7 stage at least those it could know.                         *)
LEMMA CloseEffect ==
    ASSUME NEW s \in Shards, NEW fs, NEW c, NEW states, NEW gone,
           DOMAIN flows = Shards, DOMAIN counts = Shards,
           CloseFlows(s, fs, c, states, gone)
    PROVE  \E V \in SUBSET gone : CloseResult(s, fs, c, states, gone, V)
<1>1. PICK emits \in [gone -> BOOLEAN] : l7' = L7Closed(states, fs, emits)
  BY DEF CloseFlows
<1> DEFINE drained == {k \in DOMAIN emits : emits[k]}
           V == {k \in DOMAIN emits : fs[k].visible} \cup drained
<1>2. V \in SUBSET gone /\ \A k \in gone : fs[k].visible => k \in V
  OBVIOUS
<1>3. l7' = (states \cup {fs[k].id : k \in drained}) \ {fs[k].id : k \in V}
  BY <1>1 DEF L7Closed
<1>4. {fs[k].id : k \in drained} \subseteq {fs[k].id : k \in V}
  OBVIOUS
<1>5. l7' = states \ {fs[k].id : k \in V}
  BY <1>3, <1>4
<1> HIDE DEF V, drained
<1>6. CloseResult(s, fs, c, states, gone, V)
  BY <1>2, <1>5 DEF CloseFlows, CloseResult, IdsOf
<1> QED
  BY <1>2, <1>6

(* The state after a packet p of flow f, which is then g: fed is {g.id}    *)
(* when bytes were emitted, gone is {p.key} when the flow ends.            *)
ProcessResult(s, p, f, isNew, t, c, g, fed, gone) ==
    /\ g.id = f.id /\ g.prefix = f.prefix /\ g.idle = 0
    /\ f.visible \/ fed # {} => g.visible
    /\ CloseFlows(s, Put(flows[s], p.key, g), c, l7 \cup fed, gone)
    /\ timers' = [timers EXCEPT ![s] =
          IF isNew /\ gone = {}
          THEN @ \cup {[left |-> Timeout(p.key), key |-> p.key, id |-> f.id]}
          ELSE @]
    /\ tombs' = [tombs EXCEPT ![s] =
          IF gone # {} /\ Tcp(p.key) THEN insert(t, p.key) ELSE t]
    /\ pc' = [pc EXCEPT ![s] = [at |-> "timers"]]

(* A packet of flow f (per-packet part of shard_loop): the flow becomes g, *)
(* which is the same flow, just active.                                    *)
LEMMA ProcessEffect ==
    ASSUME NEW s, NEW p \in Packets(s), NEW f \in FlowRecords, NEW isNew, NEW t, NEW c,
           Process(s, p, f, isNew, t, c)
    PROVE  \E g \in FlowRecords, fed \in SUBSET {f.id}, gone \in SUBSET {p.key} :
             ProcessResult(s, p, f, isNew, t, c, g, fed, gone)
<1> DEFINE f0 == [f EXCEPT !.idle = 0]
<1>1. f0 \in FlowRecords /\ f0.id = f.id /\ f0.prefix = f.prefix /\ f0.idle = 0
      /\ f0.visible = f.visible
  BY ConstantFacts DEF FlowRecords
<1> HIDE DEF f0
<1>2. PICK o \in Outcomes(f0, p) :
        LET g == [o.flow EXCEPT !.visible = @ \/ o.emitted]
            close == should_close(o)
        IN  /\ CloseFlows(s, Put(flows[s], p.key, g), c,
                          IF o.emitted THEN l7 \cup {f.id} ELSE l7,
                          IF close THEN {p.key} ELSE {})
            /\ timers' = [timers EXCEPT ![s] =
                  IF isNew /\ ~close
                  THEN @ \cup {[left |-> Timeout(p.key), key |-> p.key, id |-> f.id]}
                  ELSE @]
            /\ tombs' = [tombs EXCEPT ![s] =
                  IF close /\ Tcp(p.key) THEN insert(t, p.key) ELSE t]
            /\ pc' = [pc EXCEPT ![s] = [at |-> "timers"]]
  BY DEF Process, Goto, f0
<1>3. /\ o.flow \in FlowRecords
      /\ o.flow.id = f.id /\ o.flow.prefix = f.prefix
      /\ o.flow.idle = 0 /\ o.flow.visible = f.visible
      /\ o.emitted \in BOOLEAN
  BY <1>1, <1>2, OutcomeKeepsFlow
<1> DEFINE g == [o.flow EXCEPT !.visible = @ \/ o.emitted]
           fed == IF o.emitted THEN {f.id} ELSE {}
           gone == IF should_close(o) THEN {p.key} ELSE {}
<1>4. /\ g \in FlowRecords /\ g.id = f.id /\ g.prefix = f.prefix /\ g.idle = 0
      /\ f.visible \/ fed # {} => g.visible
  BY <1>3 DEF FlowRecords
<1>5. /\ (IF o.emitted THEN l7 \cup {f.id} ELSE l7) = l7 \cup fed
      /\ should_close(o) <=> gone # {}
  OBVIOUS
<1>6. /\ CloseFlows(s, Put(flows[s], p.key, g), c, l7 \cup fed, gone)
      /\ timers' = [timers EXCEPT ![s] =
            IF isNew /\ gone = {}
            THEN @ \cup {[left |-> Timeout(p.key), key |-> p.key, id |-> f.id]}
            ELSE @]
      /\ tombs' = [tombs EXCEPT ![s] =
            IF gone # {} /\ Tcp(p.key) THEN insert(t, p.key) ELSE t]
      /\ pc' = [pc EXCEPT ![s] = [at |-> "timers"]]
  BY <1>2, <1>5
<1>7. fed \in SUBSET {f.id} /\ gone \in SUBSET {p.key}
  OBVIOUS
<1> HIDE DEF g, fed, gone
<1>8. ProcessResult(s, p, f, isNew, t, c, g, fed, gone)
  BY <1>4, <1>6 DEF ProcessResult
<1> QED
  BY <1>4, <1>7, <1>8

-----------------------------------------------------------------------------
(* Every step of a shard is of one of four kinds.                          *)

(* A step of shard s leaves the tables of the other shards alone.          *)
Frame(s) ==
    /\ DOMAIN flows' = Shards /\ DOMAIN timers' = Shards /\ DOMAIN tombs' = Shards
    /\ DOMAIN counts' = Shards /\ DOMAIN pc' = Shards
    /\ \A x \in Shards \ {s} :
        /\ flows'[x] = flows[x] /\ timers'[x] = timers[x] /\ tombs'[x] = tombs[x]
        /\ counts'[x] = counts[x] /\ pc'[x] = pc[x]

(* No flow comes or goes; a slot may be reserved or given back.            *)
Quiet(s) ==
    /\ flows'[s] = flows[s] /\ timers'[s] = timers[s] /\ tombs'[s] = tombs[s]
    /\ counts'[s] = counts[s] /\ l7' = l7
    /\ \/ /\ pc[s].at \in {"recv", "admit"} /\ pc'[s] \in [at : {"recv", "timers"}]
          /\ active' = active
       \/ /\ pc[s].at = "admit" /\ pc'[s] = [at |-> "place", pkt |-> pc[s].pkt]
          /\ active < MaxFlows /\ active' = active + 1
       \/ /\ pc[s].at = "place" /\ pc'[s] = [at |-> "recv"]
          /\ active' = active - 1

(* The timer pass in its parts.                                            *)
Due(s) == {t \in timers[s] : t.left = 0}
Again(s) == UNION {Rescheduled(s, t) : t \in Due(s)}
Expired(s) == {t.key : t \in {u \in Again(s) : u.left = 0}}
Heap(s) == (timers[s] \ Due(s)) \cup {t \in Again(s) : t.left > 0}

(* The flows of the keys in gone end, V of them known to the L7 stage.     *)
RetireOf(s, gone, V) ==
    /\ V \subseteq gone /\ gone \subseteq Live(s)
    /\ flows'[s] = Restrict(flows[s], Live(s) \ gone)
    /\ counts'[s] = Uncount(counts[s], flows[s], gone)
    /\ active' = active - Cardinality(gone)
    /\ \A k \in gone : flows[s][k].visible => k \in V
    /\ l7' = l7 \ IdsOf(flows[s], V)
    /\ pc[s].at \in {"recv", "timers"}
    /\ \/ pc'[s] \in [at : {"recv", "stopped"}]
       \/ \E p \in Packets(s) :
             /\ pc'[s] = [at |-> "admit", pkt |-> p]
             /\ p.key \notin Live(s) \ gone
             /\ FreeGens(s, p.key) # {} /\ timers'[s] = timers[s]
    /\ \/ timers'[s] = timers[s]
       \/ gone = Expired(s) /\ timers'[s] = Heap(s)
       \/ timers'[s] = Rebuilt(Restrict(flows[s], Live(s) \ gone))
    /\ \/ tombs'[s] \in {tombs[s], expire(tombs[s])}
       \/ \E k \in Keys : tombs'[s] = remove(tombs[s], k)
Retire(s) == \E gone \in SUBSET Live(s), V \in SUBSET Live(s) : RetireOf(s, gone, V)

(* A packet p of a flow, which is g afterwards and may end with it.        *)
ServeOf(s, p, g, fed, gone, c, V) ==
    LET fs == Put(flows[s], p.key, g)
    IN  /\ p.key \in Keys /\ ShardOf[p.key] = s
        /\ g.id[1] = p.key /\ g.idle = 0
        /\ fed \subseteq {g.id} /\ (fed # {} => g.visible)
        /\ gone \subseteq {p.key}
        /\ flows'[s] = Restrict(fs, DOMAIN fs \ gone)
        /\ counts'[s] = Uncount(c, fs, gone)
        /\ active' = active - Cardinality(gone)
        /\ V \subseteq gone /\ \A k \in gone : fs[k].visible => k \in V
        /\ l7' = (l7 \cup fed) \ IdsOf(fs, V)
        /\ pc'[s] = [at |-> "timers"]

(* The flow was live: it keeps its id, its prefix and its timer.           *)
ServeLive(s, p, g, fed, gone, V) ==
    /\ p.key \in Live(s) /\ pc[s].at = "recv"
    /\ g.id = flows[s][p.key].id /\ g.prefix = flows[s][p.key].prefix
    /\ flows[s][p.key].visible => g.visible
    /\ ServeOf(s, p, g, fed, gone, counts[s], V)
    /\ timers'[s] = timers[s]
    /\ \E t \in {tombs[s], remove(tombs[s], p.key)} :
          tombs'[s] \in {t, insert(t, p.key)}

(* The flow is new: it has a free id, and a timer unless it ends at once.  *)
ServeNew(s, p, g, fed, gone, V) ==
    /\ p.key \notin Live(s) /\ pc[s].at = "place"
    /\ g.id[2] \in FreeGens(s, p.key)
    /\ ~(CountOf(s, g.prefix) >= MaxPerPrefix)
    /\ ServeOf(s, p, g, fed, gone, Put(counts[s], g.prefix, CountOf(s, g.prefix) + 1), V)
    /\ timers'[s] = IF gone # {} THEN timers[s]
                    ELSE timers[s] \cup {[left |-> Timeout(p.key), key |-> p.key, id |-> g.id]}
    /\ tombs'[s] \in {tombs[s], insert(tombs[s], p.key)}

Serve(s) ==
    \E p \in Packets(s), g \in FlowRecords, fed \in SUBSET FlowIds,
       gone \in SUBSET Keys, V \in SUBSET Keys : ServeLive(s, p, g, fed, gone, V)
Open(s) ==
    \E p \in Packets(s), g \in FlowRecords, fed \in SUBSET FlowIds,
       gone \in SUBSET Keys, V \in SUBSET Keys : ServeNew(s, p, g, fed, gone, V)

(* Every packet that is processed leaves its shard in the state ServeOf.   *)
LEMMA ProcessServes ==
    ASSUME Shapes, NEW s \in Shards, NEW p \in Packets(s), NEW f \in FlowRecords,
           NEW isNew, NEW t, NEW c, f.id[1] = p.key, Process(s, p, f, isNew, t, c)
    PROVE  \E g \in FlowRecords, fed \in SUBSET FlowIds, gone \in SUBSET Keys, V \in SUBSET Keys :
             /\ ServeOf(s, p, g, fed, gone, c, V)
             /\ ProcessResult(s, p, f, isNew, t, c, g, fed, gone)
             /\ Frame(s)
<1>1. PICK g \in FlowRecords, fed \in SUBSET {f.id}, gone \in SUBSET {p.key} :
        ProcessResult(s, p, f, isNew, t, c, g, fed, gone)
  BY ProcessEffect
<1> DEFINE fs == Put(flows[s], p.key, g)
           states == l7 \cup fed
<1>2. CloseFlows(s, fs, c, states, gone)
  BY <1>1 DEF ProcessResult
<1> HIDE DEF fs, states
<1>3. DOMAIN flows = Shards /\ DOMAIN counts = Shards
  BY DEF Shapes
<1>4. PICK V \in SUBSET gone : CloseResult(s, fs, c, states, gone, V)
  BY <1>2, <1>3, CloseEffect
<1>5. /\ p.key \in Keys /\ ShardOf[p.key] = s
      /\ V \in SUBSET Keys /\ gone \in SUBSET Keys /\ fed \in SUBSET FlowIds
  <2>1. p.key \in Keys /\ ShardOf[p.key] = s
    BY ConstantFacts
  <2>2. f.id \in FlowIds
    BY DEF FlowRecords
  <2> QED
    BY <1>4, <2>1, <2>2
<1>6. Frame(s) /\ pc'[s] = [at |-> "timers"]
  BY <1>1, <1>4 DEF Frame, ProcessResult, CloseResult, Shapes
<1>7. ServeOf(s, p, g, fed, gone, c, V)
  BY <1>1, <1>4, <1>5, <1>6 DEF ServeOf, ProcessResult, CloseResult, fs, states
<1> QED
  BY <1>1, <1>5, <1>6, <1>7

(* Receiving a packet (shard_loop up to the vacant entry) either serves a  *)
(* live flow, or retires the older generation of one, or only drops the    *)
(* packet.                                                                 *)
LEMMA RecvKind ==
    ASSUME Shapes, NEW s \in Shards, NEW p \in Packets(s), Recv(s, p)
    PROVE  Frame(s) /\ (Retire(s) \/ Serve(s))
<1>1. PICK fresh \in NewGeneration(s, p) :
          IF p.key \in Live(s) /\ ~fresh
          THEN Process(s, p, flows[s][p.key], FALSE, TombsAfter(s, p), counts[s])
          ELSE /\ CloseFlows(s, flows[s], counts[s], l7, IF fresh THEN {p.key} ELSE {})
               /\ tombs' = [tombs EXCEPT ![s] = TombsAfter(s, p)]
               /\ Goto(s, "recv") \/ (~Suppressed(s, p) /\ GotoWith(s, "admit", p))
               /\ UNCHANGED timers
  BY DEF Recv
<1>2. p.key \in Keys /\ ShardOf[p.key] = s
  BY ConstantFacts
<1>3. TombsAfter(s, p) \in {tombs[s], expire(tombs[s]), remove(tombs[s], p.key)}
  BY DEF TombsAfter
<1>4. CASE p.key \in Live(s) /\ ~fresh
  <2> DEFINE f == flows[s][p.key]
             t == TombsAfter(s, p)
  <2>1. f \in FlowRecords /\ f.id[1] = p.key
    BY <1>4 DEF Shapes, ShardShape, IsTable, Live
  <2>2. Process(s, p, f, FALSE, t, counts[s])
    BY <1>1, <1>4
  <2>3. t \in {tombs[s], remove(tombs[s], p.key)}
    BY <1>4 DEF TombsAfter
  <2> HIDE DEF f, t
  <2>4. PICK g \in FlowRecords, fed \in SUBSET FlowIds, gone \in SUBSET Keys, V \in SUBSET Keys :
             /\ ServeOf(s, p, g, fed, gone, counts[s], V)
             /\ ProcessResult(s, p, f, FALSE, t, counts[s], g, fed, gone)
             /\ Frame(s)
    BY <2>1, <2>2, ProcessServes
  <2>5. timers'[s] = timers[s] /\ tombs'[s] \in {t, insert(t, p.key)}
    BY <2>4 DEF ProcessResult, Shapes
  <2>6. /\ g.id = flows[s][p.key].id /\ g.prefix = flows[s][p.key].prefix
        /\ flows[s][p.key].visible => g.visible
    BY <2>4 DEF f, ProcessResult
  <2>7. pc[s].at = "recv"
    BY DEF Recv, At
  <2>8. ServeLive(s, p, g, fed, gone, V)
    BY <1>4, <2>3, <2>4, <2>5, <2>6, <2>7 DEF ServeLive
  <2> QED
    BY <2>4, <2>8 DEF Serve
<1>5. CASE ~(p.key \in Live(s) /\ ~fresh)
  <2> DEFINE gone == IF fresh THEN {p.key} ELSE {}
  <2>1. gone \subseteq Live(s)
    BY <1>1 DEF NewGeneration
  <2>2. /\ CloseFlows(s, flows[s], counts[s], l7, gone)
        /\ tombs' = [tombs EXCEPT ![s] = TombsAfter(s, p)]
        /\ pc' = [pc EXCEPT ![s] = [at |-> "recv"]]
           \/ pc' = [pc EXCEPT ![s] = [at |-> "admit", pkt |-> p]]
        /\ timers' = timers
    BY <1>1, <1>5 DEF Goto, GotoWith
  <2>3. p.key \notin Live(s) \ gone
    BY <1>5
  <2> HIDE DEF gone
  <2>a. DOMAIN flows = Shards /\ DOMAIN counts = Shards
    BY DEF Shapes
  <2>4. PICK V \in SUBSET gone : CloseResult(s, flows[s], counts[s], l7, gone, V)
    BY <2>2, <2>a, CloseEffect
  <2>5. Frame(s) /\ timers'[s] = timers[s] /\ tombs'[s] = TombsAfter(s, p)
    BY <2>2, <2>4 DEF Shapes, Frame, CloseResult
  <2>6. /\ pc[s].at = "recv" /\ FreeGens(s, p.key) # {}
        /\ pc'[s] = [at |-> "recv"] \/ pc'[s] = [at |-> "admit", pkt |-> p]
    <3>1. fresh => InitiatingSyn(p)
      BY <1>1 DEF NewGeneration
    <3>2. FreeGens(s, p.key) # {}
      BY <1>5, <3>1, Zenon DEF Recv
    <3> QED
      BY <2>2, <3>2 DEF Recv, At, Shapes
  <2>b. \/ pc'[s] \in [at : {"recv", "stopped"}]
        \/ \E q \in Packets(s) :
              /\ pc'[s] = [at |-> "admit", pkt |-> q]
              /\ q.key \notin Live(s) \ gone
              /\ FreeGens(s, q.key) # {} /\ timers'[s] = timers[s]
    <3>1. CASE pc'[s] = [at |-> "recv"]
      BY <3>1
    <3>2. CASE pc'[s] = [at |-> "admit", pkt |-> p]
      BY <2>3, <2>5, <2>6, <3>2, Zenon
    <3> QED
      BY <2>6, <3>1, <3>2
  <2>c. \/ tombs'[s] \in {tombs[s], expire(tombs[s])}
        \/ \E k \in Keys : tombs'[s] = remove(tombs[s], k)
    BY <1>2, <1>3, <2>5
  <2>7. RetireOf(s, gone, V)
    BY <2>1, <2>4, <2>5, <2>6, <2>b, <2>c, Zenon DEF RetireOf, CloseResult, Live
  <2> QED
    BY <2>1, <2>5, <2>7 DEF Retire
<1> QED
  BY <1>4, <1>5

(* A reserved slot (shard_loop after try_admit_flow) is given back or      *)
(* becomes a new flow.                                                     *)
LEMMA PlaceKind ==
    ASSUME Shapes, NEW s \in Shards, Place(s)
    PROVE  Frame(s) /\ (Quiet(s) \/ Open(s))
<1> DEFINE p == pc[s].pkt
           x == PrefixOf[<<p.key, p.dir>>]
           gen == CHOOSE h \in FreeGens(s, p.key) : TRUE
           id == <<p.key, gen>>
           c == Put(counts[s], x, CountOf(s, x) + 1)
<1>1. pc[s].at = "place" /\ pc[s] \in PcStates(s)
  BY DEF Place, At, Shapes, ShardShape
<1>2. p \in Packets(s)
  BY <1>1 DEF PcStates
<1>3. p.key \notin Live(s) /\ FreeGens(s, p.key) # {}
  BY <1>1 DEF Shapes, ShardShape
<1>4. CASE CountOf(s, x) >= MaxPerPrefix
  <2>1. RefusePrefix(s)
    BY <1>4 DEF Place
  <2> QED
    BY <1>1, <2>1 DEF Frame, Quiet, RefusePrefix, Goto, Shapes
<1>5. CASE ~(CountOf(s, x) >= MaxPerPrefix)
  <2>1. Process(s, p, NewFlow(p, id), TRUE, tombs[s], c)
    BY <1>5 DEF Place
  <2>2. p.key \in Keys /\ p.dir \in Dirs /\ x \in SourcePrefixes
    BY <1>2, ConstantFacts
  <2>3. gen \in FreeGens(s, p.key) /\ gen \in Gens
    BY <1>3 DEF FreeGens
  <2> HIDE DEF gen, p
  <2>4. id \in FlowIds /\ id[1] = p.key /\ id[2] = gen
    BY <2>2, <2>3 DEF FlowIds
  <2> USE DEF p
  <2> HIDE DEF id, c
  <2>5. /\ NewFlow(p, id) \in FlowRecords
        /\ NewFlow(p, id).id = id /\ NewFlow(p, id).prefix = x
    BY <2>2, <2>4, ConstantFacts DEF NewFlow, FlowRecords, HalfStates
  <2> DEFINE f == NewFlow(p, id)
  <2> HIDE DEF f, p, x
  <2>6. PICK g \in FlowRecords, fed \in SUBSET FlowIds, gone \in SUBSET Keys, V \in SUBSET Keys :
             /\ ServeOf(s, p, g, fed, gone, c, V)
             /\ ProcessResult(s, p, f, TRUE, tombs[s], c, g, fed, gone)
             /\ Frame(s)
    BY <1>2, <2>1, <2>4, <2>5, ProcessServes DEF f
  <2>7. g.id = id /\ g.prefix = x
    BY <2>5, <2>6 DEF ProcessResult, f
  <2>8. /\ timers'[s] = IF gone # {} THEN timers[s]
                        ELSE timers[s] \cup {[left |-> Timeout(p.key), key |-> p.key, id |-> g.id]}
        /\ tombs'[s] \in {tombs[s], insert(tombs[s], p.key)}
    BY <2>5, <2>6, <2>7 DEF ProcessResult, Shapes, f
  <2>10. ServeNew(s, p, g, fed, gone, V)
    BY <1>1, <1>3, <2>3, <2>4, <2>6, <2>7, <2>8, <1>5 DEF ServeNew, c
  <2> QED
    BY <1>2, <2>6, <2>10 DEF Open
<1> QED
  BY <1>4, <1>5

(* The timer pass retires the flows whose idle time is over.               *)
LEMMA TimerPassKind ==
    ASSUME Shapes, NEW s \in Shards, TimerPass(s)
    PROVE  Frame(s) /\ Retire(s)
<1> DEFINE gone == Expired(s)
           fs == Restrict(flows[s], Live(s) \ gone)
<1>1. /\ pc[s].at = "timers" /\ pc' = [pc EXCEPT ![s] = [at |-> "recv"]]
      /\ tombs' = tombs
      /\ CloseFlows(s, flows[s], counts[s], l7, gone)
      /\ timers' = [timers EXCEPT ![s] =
            IF NeedsCompaction(Heap(s), Cardinality(DOMAIN fs)) THEN Rebuilt(fs) ELSE Heap(s)]
  BY DEF TimerPass, At, Goto, Expired, Heap, Again, Due
<1>2. gone \subseteq Live(s)
  <2> SUFFICES ASSUME NEW u \in Again(s) PROVE u.key \in Live(s)
    BY DEF Expired
  <2>1. PICK t \in Due(s) : u \in Rescheduled(s, t)
    BY DEF Again
  <2>2. t.key \in Live(s) /\ u = [t EXCEPT !.left = Timeout(t.key) - flows[s][t.key].idle]
    BY <2>1 DEF Rescheduled
  <2>3. u.key = t.key
    BY <2>2
  <2> QED
    BY <2>2, <2>3
<1> HIDE DEF gone
<1>3. DOMAIN flows = Shards /\ DOMAIN counts = Shards
  BY DEF Shapes
<1>4. PICK V \in SUBSET gone : CloseResult(s, flows[s], counts[s], l7, gone, V)
  BY <1>1, <1>3, CloseEffect
<1>5. Frame(s)
  BY <1>1, <1>4 DEF Frame, CloseResult, Shapes
<1>6. timers'[s] = Heap(s) \/ timers'[s] = Rebuilt(fs)
  BY <1>1 DEF Shapes
<1>7. pc'[s] \in [at : {"recv", "stopped"}] /\ tombs'[s] = tombs[s]
  BY <1>1 DEF Shapes
<1>8. RetireOf(s, gone, V)
  BY <1>1, <1>2, <1>4, <1>6, <1>7, Zenon DEF RetireOf, CloseResult, Live, gone
<1> QED
  BY <1>2, <1>5, <1>8 DEF Retire

(* The drain at the end of shard_loop retires every flow.                  *)
LEMMA DisconnectedKind ==
    ASSUME Shapes, NEW s \in Shards, Disconnected(s)
    PROVE  Frame(s) /\ Retire(s)
<1>1. /\ pc[s].at = "recv" /\ pc' = [pc EXCEPT ![s] = [at |-> "stopped"]]
      /\ tombs' = tombs /\ timers' = timers
      /\ CloseFlows(s, flows[s], counts[s], l7, Live(s))
  BY DEF Disconnected, At, Goto
<1>2. DOMAIN flows = Shards /\ DOMAIN counts = Shards
  BY DEF Shapes
<1>3. PICK V \in SUBSET Live(s) : CloseResult(s, flows[s], counts[s], l7, Live(s), V)
  BY <1>1, <1>2, CloseEffect
<1>4. Frame(s)
  BY <1>1, <1>3 DEF Frame, CloseResult, Shapes
<1>5. /\ pc'[s] \in [at : {"recv", "stopped"}] /\ tombs'[s] = tombs[s]
      /\ timers'[s] = timers[s]
  BY <1>1 DEF Shapes
<1>6. RetireOf(s, Live(s), V)
  BY <1>1, <1>3, <1>5, Zenon DEF RetireOf, CloseResult, Live
<1> QED
  BY <1>4, <1>6 DEF Retire

(* What an iteration of shard_loop may do, step by step.                   *)
LEMMA StepKind ==
    ASSUME Shapes, NEW s \in Shards, ShardStep(s)
    PROVE  Frame(s) /\ (Quiet(s) \/ Retire(s) \/ Serve(s) \/ Open(s))
<1>1. ASSUME NEW p \in Packets(s), Recv(s, p)
      PROVE  Frame(s) /\ (Retire(s) \/ Serve(s))
  BY <1>1, RecvKind
<1>2. CASE Idle(s)
  BY <1>2 DEF Idle, Goto, At, Frame, Quiet, Shapes
<1>3. CASE Admit(s)
  BY <1>3 DEF Admit, Goto, GotoWith, At, Frame, Quiet, Shapes
<1> QED
  BY <1>1, <1>2, <1>3, PlaceKind, TimerPassKind, DisconnectedKind DEF ShardStep

-----------------------------------------------------------------------------
(* Shapes.                                                                 *)

(* Inserting and removing flows (flows.entry, flows.remove) keeps a table  *)
(* a table.                                                                *)
LEMMA TablePut ==
    ASSUME NEW s, NEW f, IsTable(f, s), NEW k \in Keys, ShardOf[k] = s,
           NEW g \in FlowRecords, g.id[1] = k, g.idle = 0
    PROVE  IsTable(Put(f, k, g), s)
<1>1. /\ DOMAIN Put(f, k, g) = DOMAIN f \cup {k}
      /\ Put(f, k, g)[k] = g
      /\ \A x \in DOMAIN f \ {k} : Put(f, k, g)[x] = f[x]
  BY DEF Put
<1>2. IsFiniteSet(DOMAIN f \cup {k})
  BY FS_AddElement DEF IsTable
<1>3. g.idle <= Timeout(k)
  BY ConstantFacts
<1> QED
  BY <1>1, <1>2, <1>3 DEF IsTable

(* A table from which flows were removed is a table of the shard still.    *)
LEMMA TableRestrict ==
    ASSUME NEW s, NEW f, IsTable(f, s), NEW gone
    PROVE  IsTable(Restrict(f, DOMAIN f \ gone), s)
<1>1. IsFiniteSet(DOMAIN f \ gone)
  BY FS_Difference DEF IsTable
<1> QED
  BY <1>1 DEF IsTable, Restrict

(* What a packet does to the table of its shard.                           *)
LEMMA ServedTable ==
    ASSUME Shapes, NEW s \in Shards, NEW p, NEW g \in FlowRecords, NEW fed, NEW gone, NEW c, NEW V,
           ServeOf(s, p, g, fed, gone, c, V)
    PROVE  /\ IsTable(flows'[s], s)
           /\ DOMAIN flows'[s] = (Live(s) \cup {p.key}) \ gone
           /\ \A k \in DOMAIN flows'[s] : flows'[s][k] = IF k = p.key THEN g ELSE flows[s][k]
<1> DEFINE fs == Put(flows[s], p.key, g)
<1>1. p.key \in Keys /\ ShardOf[p.key] = s /\ g.id[1] = p.key /\ g.idle = 0
  BY DEF ServeOf
<1>2. IsTable(flows[s], s)
  BY DEF Shapes, ShardShape
<1>a. IsTable(fs, s)
  BY <1>1, <1>2, TablePut
<1>3. /\ DOMAIN fs = Live(s) \cup {p.key}
      /\ fs[p.key] = g /\ \A x \in Live(s) \ {p.key} : fs[x] = flows[s][x]
  BY DEF Live, Put
<1>4. flows'[s] = Restrict(fs, DOMAIN fs \ gone)
  BY DEF ServeOf
<1> HIDE DEF fs
<1>b. IsTable(flows'[s], s)
  BY <1>a, <1>4, TableRestrict
<1>5. /\ DOMAIN flows'[s] = DOMAIN fs \ gone
      /\ \A x \in DOMAIN fs \ gone : flows'[s][x] = fs[x]
  BY <1>4 DEF Restrict
<1> QED
  BY <1>3, <1>b, <1>5

(* What the end of flows (close_flow) does to the table of their shard.    *)
LEMMA RetiredTable ==
    ASSUME Shapes, NEW s \in Shards, NEW gone, NEW V, RetireOf(s, gone, V)
    PROVE  /\ IsTable(flows'[s], s)
           /\ DOMAIN flows'[s] = Live(s) \ gone
           /\ \A k \in DOMAIN flows'[s] : flows'[s][k] = flows[s][k]
<1>1. IsTable(flows[s], s) /\ flows'[s] = Restrict(flows[s], DOMAIN flows[s] \ gone)
  BY DEF Shapes, ShardShape, RetireOf, Live
<1>2. IsTable(flows'[s], s)
  BY <1>1, TableRestrict
<1>3. /\ DOMAIN flows'[s] = DOMAIN flows[s] \ gone
      /\ \A x \in DOMAIN flows[s] \ gone : flows'[s][x] = flows[s][x]
  BY <1>1 DEF Restrict
<1> QED
  BY <1>2, <1>3 DEF Live

(* What one shard adds to the L7 stage are flows of its own keys.          *)
LEMMA OpenedBelongs ==
    ASSUME Shapes, NEW s \in Shards, Quiet(s) \/ Retire(s) \/ Serve(s) \/ Open(s)
    PROVE  \A i \in l7' : i \in l7 \/ (i \in FlowIds /\ ShardOf[i[1]] = s)
<1>1. CASE Quiet(s)
  BY <1>1 DEF Quiet
<1>2. CASE Retire(s)
  BY <1>2 DEF Retire, RetireOf
<1>3. ASSUME NEW p, NEW g \in FlowRecords, NEW fed, NEW gone, NEW c, NEW V,
             ServeOf(s, p, g, fed, gone, c, V)
      PROVE  \A i \in l7' : i \in l7 \/ (i \in FlowIds /\ ShardOf[i[1]] = s)
  <2>1. g.id \in FlowIds
    BY DEF FlowRecords
  <2>2. /\ l7' \subseteq l7 \cup fed /\ fed \subseteq {g.id}
        /\ g.id[1] = p.key /\ ShardOf[p.key] = s
    <3>1. l7' = (l7 \cup fed) \ IdsOf(Put(flows[s], p.key, g), V)
      BY <1>3, Zenon DEF ServeOf
    <3>2. fed \subseteq {g.id} /\ g.id[1] = p.key /\ ShardOf[p.key] = s
      BY <1>3, Zenon DEF ServeOf
    <3> QED
      BY <3>1, <3>2
  <2> QED
    BY <2>1, <2>2
<1>4. CASE Serve(s)
  BY <1>3, <1>4 DEF Serve, ServeLive
<1>5. CASE Open(s)
  BY <1>3, <1>5 DEF Open, ServeNew
<1> QED
  BY <1>1, <1>2, <1>3, <1>4, <1>5

(* The tables keep their shape, and a packet on its way keeps its id.      *)
LEMMA ShapesShard ==
    ASSUME Shapes, NEW s \in Shards, ShardStep(s)
    PROVE  Shapes'
<1>1. Frame(s) /\ (Quiet(s) \/ Retire(s) \/ Serve(s) \/ Open(s))
  BY StepKind
<1>2. \A i \in l7' : i \in l7 \/ (i \in FlowIds /\ ShardOf[i[1]] = s)
  BY <1>1, OpenedBelongs
<1>3. ASSUME NEW x \in Shards, x # s PROVE ShardShape(x)'
  <2>1. flows'[x] = flows[x] /\ timers'[x] = timers[x] /\ pc'[x] = pc[x]
    BY <1>1, <1>3 DEF Frame
  <2>2. ASSUME NEW k \in Keys, ShardOf[k] = x PROVE FreeGens(x, k) \subseteq FreeGens(x, k)'
    BY <1>2, <1>3, <2>1, <2>2 DEF FreeGens, Live
  <2>3. ASSUME NEW k, k = pc[x].pkt.key, pc[x].at \in {"admit", "place"}
        PROVE  FreeGens(x, k)' # {}
    <3>1. pc[x].pkt \in Packets(x) /\ FreeGens(x, k) # {}
      BY <2>3 DEF Shapes, ShardShape, PcStates
    <3>2. k \in Keys /\ ShardOf[k] = x
      BY <2>3, <3>1, ConstantFacts
    <3> QED
      BY <2>2, <3>1, <3>2
  <2>4. ASSUME pc'[x].at \in {"admit", "place"} PROVE (FreeGens(x, pc[x].pkt.key) # {})'
    BY <2>1, <2>3, <2>4 DEF FreeGens, Live
  <2> QED
    BY <2>1, <2>4 DEF Shapes, ShardShape, Live
<1>4. ShardShape(s)' /\ active' \in Int
  <2>1. CASE Quiet(s)
    <3>1. flows'[s] = flows[s] /\ timers'[s] = timers[s] /\ l7' = l7
      BY <2>1 DEF Quiet
    <3>2. active' \in Int
      BY <2>1 DEF Quiet, Shapes
    <3>3. pc[s].at = "admit" => pc[s].pkt \in Packets(s)
      BY DEF Shapes, ShardShape, PcStates
    <3>4. pc'[s] \in PcStates(s)
      BY <2>1, <3>3 DEF Quiet, PcStates
    <3>5. pc'[s].at \in {"admit", "place"} => pc[s].at = "admit" /\ pc'[s].pkt = pc[s].pkt
      BY <2>1 DEF Quiet
    <3> QED
      BY <3>1, <3>2, <3>4, <3>5 DEF Shapes, ShardShape, Live, FreeGens
  <2>2. ASSUME NEW gone, NEW V, RetireOf(s, gone, V)
        PROVE  ShardShape(s)' /\ active' \in Int
    <3>1. /\ IsTable(flows'[s], s) /\ DOMAIN flows'[s] = Live(s) \ gone
          /\ \A k \in DOMAIN flows'[s] : flows'[s][k] = flows[s][k]
      BY <2>2, RetiredTable
    <3>2. active' \in Int
      <4>1. gone \subseteq DOMAIN flows[s] /\ IsFiniteSet(DOMAIN flows[s])
        BY <2>2 DEF RetireOf, Live, Shapes, ShardShape, IsTable
      <4>2. Cardinality(gone) \in Nat
        BY <4>1, CardinalityMinus
      <4> QED
        BY <2>2, <4>2 DEF RetireOf, Shapes
    <3>3. CASE pc'[s] \in [at : {"recv", "stopped"}]
      BY <3>1, <3>2, <3>3 DEF ShardShape, PcStates
    <3>4. ASSUME NEW p \in Packets(s), pc'[s] = [at |-> "admit", pkt |-> p],
                 p.key \notin Live(s) \ gone, FreeGens(s, p.key) # {}, timers'[s] = timers[s]
          PROVE  ShardShape(s)'
      <4>1. l7' \subseteq l7
        BY <2>2 DEF RetireOf
      <4>2. FreeGens(s, p.key) \subseteq FreeGens(s, p.key)'
        BY <3>1, <3>4, <4>1 DEF FreeGens, Live
      <4>3. pc'[s] \in PcStates(s) /\ pc'[s].pkt = p
        BY <3>4 DEF PcStates
      <4>4. (FreeGens(s, pc[s].pkt.key) # {})'
        BY <3>4, <4>2, <4>3 DEF FreeGens, Live
      <4> QED
        BY <3>1, <3>4, <4>3, <4>4 DEF ShardShape, Live
    <3> QED
      BY <2>2, <3>2, <3>3, <3>4 DEF RetireOf
  <2>3. ASSUME NEW p, NEW g \in FlowRecords, NEW fed, NEW gone, NEW c, NEW V,
               ServeOf(s, p, g, fed, gone, c, V)
        PROVE  ShardShape(s)' /\ active' \in Int
    <3>1. IsTable(flows'[s], s)
      BY <2>3, ServedTable
    <3>2. pc'[s] = [at |-> "timers"] /\ gone \subseteq {p.key} /\ active' = active - Cardinality(gone)
      BY <2>3 DEF ServeOf
    <3>3. Cardinality(gone) \in Nat
      BY <3>2, FS_Singleton, CardinalityMinus
    <3> QED
      BY <3>1, <3>2, <3>3 DEF ShardShape, PcStates, Shapes
  <2>4. CASE Serve(s)
    BY <2>3, <2>4 DEF Serve, ServeLive
  <2>5. CASE Open(s)
    BY <2>3, <2>5 DEF Open, ServeNew
  <2> QED
    BY <1>1, <2>1, <2>2, <2>4, <2>5 DEF Retire
<1>5. l7' \subseteq FlowIds
  BY <1>2 DEF Shapes
<1> QED
  BY <1>1, <1>3, <1>4, <1>5 DEF Frame, Shapes

(* Time passing changes only times: a flow keeps everything but its idle   *)
(* time, which stays within its timeout.                                   *)
LEMMA TickedTable ==
    ASSUME Shapes, Tick, NEW s \in Shards
    PROVE  /\ DOMAIN flows'[s] = Live(s)
           /\ \A k \in Live(s) :
                 /\ flows'[s][k] \in FlowRecords
                 /\ flows'[s][k].id = flows[s][k].id
                 /\ flows'[s][k].prefix = flows[s][k].prefix
                 /\ flows'[s][k].visible = flows[s][k].visible
                 /\ flows'[s][k].idle = IF flows[s][k].idle < Timeout(k)
                                        THEN flows[s][k].idle + 1 ELSE flows[s][k].idle
                 /\ flows[s][k].idle \in Nat /\ flows[s][k].idle <= Timeout(k)
                 /\ Timeout(k) \in Nat /\ k \in Keys
           /\ IsTable(flows'[s], s)
<1>1. /\ DOMAIN flows'[s] = Live(s)
      /\ \A k \in Live(s) : flows'[s][k] =
            [flows[s][k] EXCEPT !.idle = IF @ < Timeout(k) THEN @ + 1 ELSE @]
  BY DEF Tick
<1>2. ASSUME NEW k \in Live(s)
      PROVE  /\ flows[s][k] \in FlowRecords /\ flows[s][k].id[1] = k
             /\ flows[s][k].idle <= Timeout(k) /\ k \in Keys
  BY DEF Shapes, ShardShape, IsTable, Live
<1>3. ASSUME NEW k \in Live(s)
      PROVE  /\ flows'[s][k] \in FlowRecords
             /\ flows'[s][k].id = flows[s][k].id
             /\ flows'[s][k].prefix = flows[s][k].prefix
             /\ flows'[s][k].visible = flows[s][k].visible
             /\ flows'[s][k].idle = IF flows[s][k].idle < Timeout(k)
                                    THEN flows[s][k].idle + 1 ELSE flows[s][k].idle
             /\ flows[s][k].idle \in Nat /\ Timeout(k) \in Nat
  <2> DEFINE f == flows[s][k]
             h == IF f.idle < Timeout(k) THEN f.idle + 1 ELSE f.idle
  <2>1. flows'[s][k] = [f EXCEPT !.idle = h]
    BY <1>1, <1>3
  <2>2. f \in FlowRecords /\ f.idle \in Nat /\ Timeout(k) \in Nat /\ h \in 0 .. TcpTimeout + UdpTimeout
    BY <1>2, <1>3, ConstantFacts DEF FlowRecords
  <2> HIDE DEF f, h
  <2>3. /\ [f EXCEPT !.idle = h] \in FlowRecords
        /\ [f EXCEPT !.idle = h].id = f.id /\ [f EXCEPT !.idle = h].prefix = f.prefix
        /\ [f EXCEPT !.idle = h].visible = f.visible /\ [f EXCEPT !.idle = h].idle = h
    BY <2>2 DEF FlowRecords
  <2> QED
    BY <2>1, <2>2, <2>3 DEF f, h
<1>4. IsTable(flows'[s], s)
  <2>1. IsFiniteSet(Live(s)) /\ Live(s) \subseteq {k \in Keys : ShardOf[k] = s}
    BY DEF Shapes, ShardShape, IsTable, Live
  <2>2. \A k \in Live(s) : flows'[s][k].id[1] = k /\ flows'[s][k].idle <= Timeout(k)
    BY <1>2, <1>3
  <2> QED
    BY <1>1, <1>3, <2>1, <2>2 DEF IsTable
<1> QED
  BY <1>1, <1>2, <1>3, <1>4

(* The ids of the timers do not change as time passes.                     *)
Ticked(t, u) == /\ u \in TimerRecords /\ u.id = t.id /\ u.key = t.key
                /\ t.left \in Nat /\ u.left = Down(t.left)

(* Time makes of every timer one timer, with the same flow and less time,  *)
(* and never makes two of them one.                                        *)
LEMMA TickedTimers ==
    ASSUME Tick, NEW s \in Shards, TimersSound(timers[s], flows[s])
    PROVE  /\ \A t \in timers[s] : \E u \in timers'[s] : Ticked(t, u)
           /\ \A u \in timers'[s] : \E t \in timers[s] : Ticked(t, u)
           /\ \A t \in timers[s], u, v \in timers'[s] : u.id = t.id /\ v.id = t.id => u = v
<1>1. timers'[s] = {[t EXCEPT !.left = Down(@)] : t \in timers[s]}
  BY DEF Tick
<1>2. timers[s] \subseteq TimerRecords /\ \A t, u \in timers[s] : t.id = u.id => t = u
  BY DEF TimersSound
<1>3. ASSUME NEW t \in timers[s] PROVE Ticked(t, [t EXCEPT !.left = Down(@)])
  <2>1. t \in TimerRecords /\ t.left \in Nat /\ Down(t.left) \in Nat
    BY <1>2, <1>3 DEF TimerRecords, Down
  <2> QED
    BY <2>1 DEF Ticked, TimerRecords
<1>4. \A t \in timers[s] : \E u \in timers'[s] : Ticked(t, u)
  BY <1>1, <1>3
<1>5. ASSUME NEW u \in timers'[s]
      PROVE  \E t \in timers[s] : u = [t EXCEPT !.left = Down(@)] /\ u.id = t.id /\ Ticked(t, u)
  <2>1. PICK t \in timers[s] : u = [t EXCEPT !.left = Down(@)]
    BY <1>1, <1>5
  <2>2. Ticked(t, u)
    BY <1>3, <2>1
  <2> QED
    BY <2>1, <2>2 DEF Ticked
<1>6. ASSUME NEW t \in timers[s], NEW u \in timers'[s], NEW v \in timers'[s], u.id = t.id, v.id = t.id
      PROVE  u = v
  <2>1. PICK a \in timers[s] : u = [a EXCEPT !.left = Down(@)] /\ u.id = a.id
    BY <1>5
  <2>2. PICK b \in timers[s] : v = [b EXCEPT !.left = Down(@)] /\ v.id = b.id
    BY <1>5
  <2>3. a = b
    BY <1>2, <1>6, <2>1, <2>2
  <2> QED
    BY <2>1, <2>2, <2>3
<1> QED
  BY <1>4, <1>5, <1>6

(* Time keeps the tables well formed: idle times stop at the timeout.      *)
LEMMA ShapesTick ==
    ASSUME Shapes, Tick, \A s \in Shards : TimersSound(timers[s], flows[s])
    PROVE  Shapes'
<1>1. /\ DOMAIN flows' = Shards /\ DOMAIN timers' = Shards /\ DOMAIN tombs' = Shards
      /\ counts' = counts /\ active' = active /\ pc' = pc /\ l7' = l7
  BY DEF Tick
<1>2. ASSUME NEW s \in Shards PROVE ShardShape(s)'
  <2>1. IsTable(flows'[s], s) /\ DOMAIN flows'[s] = Live(s)
        /\ \A k \in Live(s) : flows'[s][k].id = flows[s][k].id
    BY TickedTable
  <2>2. \A u \in timers'[s] : \E t \in timers[s] : u.id = t.id
    BY TickedTimers DEF Ticked
  <2>3. ASSUME NEW k PROVE FreeGens(s, k) \subseteq FreeGens(s, k)'
    BY <1>1, <2>1, <2>2 DEF FreeGens, Live
  <2>4. ASSUME NEW k, k = pc[s].pkt.key, pc[s].at \in {"admit", "place"}
        PROVE  FreeGens(s, k)' # {}
    BY <2>3, <2>4 DEF Shapes, ShardShape
  <2>5. ASSUME pc'[s].at \in {"admit", "place"} PROVE (FreeGens(s, pc[s].pkt.key) # {})'
    BY <1>1, <2>4, <2>5 DEF FreeGens, Live
  <2> QED
    BY <1>1, <2>1, <2>5 DEF Shapes, ShardShape, Live
<1> QED
  BY <1>1, <1>2 DEF Shapes

-----------------------------------------------------------------------------
(* Timers.                                                                 *)

(* A due timer that is set again keeps its flow and has the time the flow  *)
(* has left.                                                               *)
LEMMA RescheduledTimer ==
    ASSUME Shapes, NEW s \in Shards, TimersSound(timers[s], flows[s]),
           NEW t \in timers[s], NEW u \in Rescheduled(s, t)
    PROVE  /\ t.key \in Live(s) /\ flows[s][t.key].id = t.id
           /\ u \in TimerRecords /\ u.id = t.id /\ u.key = t.key
           /\ u = [t EXCEPT !.left = Timeout(t.key) - flows[s][t.key].idle]
           /\ u.left = Timeout(t.key) - flows[s][t.key].idle
           /\ u.left <= Timeout(t.key)
<1>1. /\ t.key \in Live(s) /\ flows[s][t.key].id = t.id
      /\ u = [t EXCEPT !.left = Timeout(t.key) - flows[s][t.key].idle]
  BY DEF Rescheduled
<1>2. /\ flows[s][t.key] \in FlowRecords /\ flows[s][t.key].idle <= Timeout(t.key)
      /\ t.key \in Keys
  BY <1>1 DEF Shapes, ShardShape, IsTable, Live
<1> DEFINE l == Timeout(t.key) - flows[s][t.key].idle
<1>3. l \in Nat /\ l <= Timeout(t.key)
  <2>1. Timeout(t.key) \in Nat
    BY <1>2, ConstantFacts
  <2>2. flows[s][t.key].idle \in Nat
    BY <1>2, ConstantFacts DEF FlowRecords
  <2> QED
    BY <1>2, <2>1, <2>2
<1>4. t \in TimerRecords
  BY DEF TimersSound
<1> HIDE DEF l
<1>5. /\ [t EXCEPT !.left = l] \in TimerRecords
      /\ [t EXCEPT !.left = l].id = t.id /\ [t EXCEPT !.left = l].key = t.key
      /\ [t EXCEPT !.left = l].left = l
  BY <1>3, <1>4 DEF TimerRecords
<1> QED
  BY <1>1, <1>3, <1>5 DEF l

(* The heap that the timer pass leaves (shard_loop's loop over due timers) *)
(* has one timer for each flow that stays.                                 *)
LEMMA HeapSound ==
    ASSUME Shapes, NEW s \in Shards, TimersSound(timers[s], flows[s]),
           NEW fs, DOMAIN fs = Live(s) \ Expired(s),
           \A k \in DOMAIN fs : fs[k] = flows[s][k]
    PROVE  TimersSound(Heap(s), fs)
<1>1. ASSUME NEW u \in Heap(s)
      PROVE  \E t \in timers[s] :
                \/ t.left # 0 /\ u = t
                \/ t.left = 0 /\ u \in Rescheduled(s, t)
  BY <1>1 DEF Heap, Due, Again
<1>2. ASSUME NEW u \in Heap(s)
      PROVE  u \in TimerRecords /\ u.id[1] = u.key /\ u.left <= Timeout(u.key)
  <2>1. PICK t \in timers[s] :
                \/ t.left # 0 /\ u = t
                \/ t.left = 0 /\ u \in Rescheduled(s, t)
    BY <1>1
  <2>2. t \in TimerRecords /\ t.id[1] = t.key /\ t.left <= Timeout(t.key)
    BY DEF TimersSound
  <2>3. CASE u = t
    BY <2>2, <2>3
  <2>4. CASE u \in Rescheduled(s, t)
    <3>1. u \in TimerRecords /\ u.id = t.id /\ u.key = t.key /\ u.left <= Timeout(t.key)
      BY <2>4, RescheduledTimer
    <3> QED
      BY <2>2, <3>1
  <2> QED
    BY <2>1, <2>3, <2>4
<1>3. ASSUME NEW u \in Heap(s), NEW v \in Heap(s), u.id = v.id PROVE u = v
  <2>1. PICK t \in timers[s] :
                \/ t.left # 0 /\ u = t
                \/ t.left = 0 /\ u \in Rescheduled(s, t)
    BY <1>1
  <2>2. PICK r \in timers[s] :
                \/ r.left # 0 /\ v = r
                \/ r.left = 0 /\ v \in Rescheduled(s, r)
    BY <1>1
  <2>3. u.id = t.id /\ v.id = r.id
    BY <2>1, <2>2, RescheduledTimer
  <2>4. t = r
    BY <1>3, <2>3 DEF TimersSound
  <2>5. CASE t.left # 0
    BY <2>1, <2>2, <2>4, <2>5
  <2>6. CASE t.left = 0
    <3>1. u \in Rescheduled(s, t) /\ v \in Rescheduled(s, t)
      BY <2>1, <2>2, <2>4, <2>6
    <3> QED
      BY <3>1, RescheduledTimer
  <2> QED
    BY <2>5, <2>6
<1>4. ASSUME NEW k \in DOMAIN fs
      PROVE  \E t \in Heap(s) : t.id = fs[k].id /\ t.left <= Timeout(k) - fs[k].idle
  <2>1. k \in Live(s) /\ k \notin Expired(s) /\ fs[k] = flows[s][k]
    OBVIOUS
  <2>2. PICK t \in timers[s] : t.id = flows[s][k].id /\ t.left <= Timeout(k) - flows[s][k].idle
    BY <2>1 DEF TimersSound, Live
  <2>3. CASE t.left # 0
    <3>1. t \in Heap(s)
      BY <2>3 DEF Heap, Due
    <3> QED
      BY <2>1, <2>2, <3>1
  <2>4. CASE t.left = 0
    <3>1. t.key = k
      <4>1. t.id[1] = t.key
        BY DEF TimersSound
      <4>2. flows[s][k].id[1] = k
        BY <2>1 DEF Shapes, ShardShape, IsTable, Live
      <4> QED
        BY <2>2, <4>1, <4>2
    <3> DEFINE u == [t EXCEPT !.left = Timeout(t.key) - flows[s][t.key].idle]
    <3>2. u \in Rescheduled(s, t)
      BY <2>1, <2>2, <3>1 DEF Rescheduled
    <3> HIDE DEF u
    <3>3. /\ u \in TimerRecords /\ u.id = t.id /\ u.key = t.key
          /\ u.left = Timeout(t.key) - flows[s][t.key].idle
      BY <3>2, RescheduledTimer
    <3>4. u \in Again(s)
      BY <2>4, <3>2 DEF Again, Due
    <3>5. u.left # 0
      BY <2>1, <3>1, <3>3, <3>4 DEF Expired
    <3>6. u.left > 0 /\ u.left <= u.left
      BY <3>3, <3>5 DEF TimerRecords
    <3>7. u \in Heap(s)
      BY <3>4, <3>6 DEF Heap
    <3> QED
      BY <2>1, <2>2, <3>1, <3>3, <3>6, <3>7
  <2> QED
    BY <2>3, <2>4
<1> QED
  BY <1>2, <1>3, <1>4 DEF TimersSound

(* The compacted heap has exactly the timers of the flows.                 *)
LEMMA RebuiltSound ==
    ASSUME NEW s, NEW fs, IsTable(fs, s)
    PROVE  TimersSound(Rebuilt(fs), fs)
<1> DEFINE T(k) == [left |-> Timeout(k) - fs[k].idle, key |-> k, id |-> fs[k].id]
<1>1. Rebuilt(fs) = {T(k) : k \in DOMAIN fs}
  BY DEF Rebuilt
<1>2. ASSUME NEW k \in DOMAIN fs
      PROVE  /\ T(k) \in TimerRecords /\ T(k).id = fs[k].id /\ T(k).id[1] = k /\ T(k).key = k
             /\ T(k).left = Timeout(k) - fs[k].idle /\ T(k).left <= Timeout(k)
             /\ T(k).left <= Timeout(k) - fs[k].idle
  <2>1. fs[k] \in FlowRecords /\ fs[k].id[1] = k /\ fs[k].idle <= Timeout(k) /\ k \in Keys
    BY DEF IsTable
  <2>2. Timeout(k) \in Nat
    BY <2>1, ConstantFacts
  <2>3. fs[k].idle \in Nat /\ fs[k].id \in FlowIds
    BY <2>1, ConstantFacts DEF FlowRecords
  <2> QED
    BY <2>1, <2>2, <2>3 DEF TimerRecords
<1> HIDE DEF T
<1>3. ASSUME NEW t \in Rebuilt(fs)
      PROVE  t \in TimerRecords /\ t.id[1] = t.key /\ t.left <= Timeout(t.key)
  BY <1>1, <1>2, <1>3
<1>4. ASSUME NEW t \in Rebuilt(fs), NEW u \in Rebuilt(fs), t.id = u.id PROVE t = u
  <2>1. PICK k \in DOMAIN fs : t = T(k)
    BY <1>1
  <2>2. PICK h \in DOMAIN fs : u = T(h)
    BY <1>1
  <2> QED
    BY <1>2, <1>4, <2>1, <2>2
<1>5. ASSUME NEW k \in DOMAIN fs
      PROVE  \E t \in Rebuilt(fs) : t.id = fs[k].id /\ t.left <= Timeout(k) - fs[k].idle
  BY <1>1, <1>2, <1>5
<1> QED
  BY <1>3, <1>4, <1>5 DEF TimersSound

(* A flow that goes, or is active again, needs no new timer.               *)
LEMMA TimersOfFewer ==
    ASSUME NEW ts, NEW fs, NEW gs, TimersSound(ts, fs), DOMAIN gs \subseteq DOMAIN fs,
           \A k \in DOMAIN gs : gs[k] = fs[k] \/
              (gs[k].id = fs[k].id /\ gs[k].idle = 0 /\ gs[k].id[1] = k /\ k \in Keys)
    PROVE  TimersSound(ts, gs)
<1> SUFFICES ASSUME NEW k \in DOMAIN gs
             PROVE  \E t \in ts : t.id = gs[k].id /\ t.left <= Timeout(k) - gs[k].idle
  BY DEF TimersSound
<1>1. PICK t \in ts : t.id = fs[k].id /\ t.left <= Timeout(k) - fs[k].idle
  BY DEF TimersSound
<1>2. t.id[1] = t.key /\ t.left <= Timeout(t.key)
  BY DEF TimersSound
<1>3. CASE gs[k] = fs[k]
  BY <1>1, <1>3
<1>4. CASE gs[k].id = fs[k].id /\ gs[k].idle = 0 /\ gs[k].id[1] = k /\ k \in Keys
  <2>1. t.key = k /\ Timeout(k) \in Nat
    BY <1>1, <1>2, <1>4, ConstantFacts
  <2>2. Timeout(k) - gs[k].idle = Timeout(k)
    BY <1>4, <2>1
  <2> QED
    BY <1>1, <1>2, <1>4, <2>1, <2>2
<1> QED
  BY <1>3, <1>4

(* Every kind of step leaves the shard's timers sound.                     *)
LEMMA TimersShard ==
    ASSUME Shapes, \A x \in Shards : TimersSound(timers[x], flows[x]),
           NEW s \in Shards, ShardStep(s)
    PROVE  \A x \in Shards : TimersSound(timers'[x], flows'[x])
<1>1. Frame(s) /\ (Quiet(s) \/ Retire(s) \/ Serve(s) \/ Open(s))
  BY StepKind
<1>2. \A x \in Shards \ {s} : TimersSound(timers'[x], flows'[x])
  BY <1>1 DEF Frame
<1>3. TimersSound(timers[s], flows[s])
  OBVIOUS
<1>4. CASE Quiet(s)
  BY <1>2, <1>3, <1>4 DEF Quiet
<1>5. ASSUME NEW gone, NEW V, RetireOf(s, gone, V)
      PROVE  TimersSound(timers'[s], flows'[s])
  <2>1. /\ IsTable(flows'[s], s) /\ DOMAIN flows'[s] = Live(s) \ gone
        /\ \A k \in DOMAIN flows'[s] : flows'[s][k] = flows[s][k]
    BY <1>5, RetiredTable
  <2>2. CASE timers'[s] = timers[s]
    BY <1>3, <2>1, <2>2, TimersOfFewer DEF Live
  <2>3. CASE gone = Expired(s) /\ timers'[s] = Heap(s)
    BY <1>3, <2>1, <2>3, HeapSound
  <2>4. CASE timers'[s] = Rebuilt(Restrict(flows[s], Live(s) \ gone))
    <3>1. timers'[s] = Rebuilt(flows'[s])
      BY <1>5, <2>4 DEF RetireOf
    <3> QED
      BY <2>1, <3>1, RebuiltSound
  <2> QED
    BY <1>5, <2>2, <2>3, <2>4, Zenon DEF RetireOf
<1>6. ASSUME NEW p \in Packets(s), NEW g \in FlowRecords, NEW fed, NEW gone, NEW V,
             ServeLive(s, p, g, fed, gone, V)
      PROVE  TimersSound(timers'[s], flows'[s])
  <2>1. ServeOf(s, p, g, fed, gone, counts[s], V)
    BY <1>6 DEF ServeLive
  <2>2. /\ DOMAIN flows'[s] = (Live(s) \cup {p.key}) \ gone
        /\ \A k \in DOMAIN flows'[s] : flows'[s][k] = IF k = p.key THEN g ELSE flows[s][k]
    BY <2>1, ServedTable
  <2>3. /\ p.key \in Live(s) /\ g.id = flows[s][p.key].id /\ timers'[s] = timers[s]
    BY <1>6, Zenon DEF ServeLive
  <2>4. g.idle = 0 /\ g.id[1] = p.key /\ p.key \in Keys
    BY <2>1, Zenon DEF ServeOf
  <2> QED
    BY <1>3, <2>2, <2>3, <2>4, TimersOfFewer DEF Live
<1>7. ASSUME NEW p \in Packets(s), NEW g \in FlowRecords, NEW fed, NEW gone, NEW V,
             ServeNew(s, p, g, fed, gone, V)
      PROVE  TimersSound(timers'[s], flows'[s])
  <2> DEFINE c == Put(counts[s], g.prefix, CountOf(s, g.prefix) + 1)
             n == [left |-> Timeout(p.key), key |-> p.key, id |-> g.id]
  <2>1. ServeOf(s, p, g, fed, gone, c, V)
    BY <1>7 DEF ServeNew
  <2> HIDE DEF c
  <2>2. /\ DOMAIN flows'[s] = (Live(s) \cup {p.key}) \ gone
        /\ \A k \in DOMAIN flows'[s] : flows'[s][k] = IF k = p.key THEN g ELSE flows[s][k]
    BY <2>1, ServedTable
  <2>3. /\ p.key \notin Live(s) /\ g.id[2] \in FreeGens(s, p.key)
        /\ timers'[s] = IF gone # {} THEN timers[s] ELSE timers[s] \cup {n}
    BY <1>7, Zenon DEF ServeNew
  <2>4. g.idle = 0 /\ g.id[1] = p.key /\ p.key \in Keys /\ gone \subseteq {p.key}
    BY <2>1, Zenon DEF ServeOf
  <2>5. CASE gone # {}
    <3>1. gone = {p.key}
      BY <2>4, <2>5
    <3> QED
      BY <1>3, <2>2, <2>3, <2>5, <3>1, TimersOfFewer DEF Live
  <2>6. CASE gone = {}
    <3>1. g.id \in FlowIds /\ Timeout(p.key) \in Nat
      BY <2>4, ConstantFacts DEF FlowRecords
    <3>2. /\ n \in TimerRecords /\ n.id = g.id /\ n.key = p.key /\ n.left = Timeout(p.key)
      BY <2>4, <3>1 DEF TimerRecords
    <3>3. g.id = <<p.key, g.id[2]>>
      BY <2>4, <3>1 DEF FlowIds
    <3> HIDE DEF n
    <3>4. \A t \in timers[s] : t.id # n.id
      BY <2>3, <3>2, <3>3 DEF FreeGens
    <3>5. timers'[s] = timers[s] \cup {n}
      BY <2>3, <2>6
    <3>6. ASSUME NEW k \in DOMAIN flows'[s]
          PROVE  \E t \in timers'[s] : t.id = flows'[s][k].id /\ t.left <= Timeout(k) - flows'[s][k].idle
      <4>1. CASE k = p.key
        <5>1. flows'[s][k] = g /\ n \in timers'[s]
          BY <2>2, <3>5, <4>1
        <5>2. n.left <= Timeout(k) - g.idle
          BY <2>4, <3>1, <3>2, <4>1
        <5> QED
          BY <3>2, <5>1, <5>2
      <4>2. CASE k # p.key
        <5>1. k \in Live(s) /\ flows'[s][k] = flows[s][k]
          BY <2>2, <3>6, <4>2
        <5> QED
          BY <1>3, <3>5, <5>1 DEF TimersSound, Live
      <4> QED
        BY <4>1, <4>2
    <3>7. \A t \in timers'[s] : t \in TimerRecords /\ t.id[1] = t.key /\ t.left <= Timeout(t.key)
      <4>1. n.id[1] = n.key /\ n.left <= Timeout(n.key)
        BY <2>4, <3>1, <3>2
      <4> QED
        BY <1>3, <3>2, <3>5, <4>1 DEF TimersSound
    <3>8. \A t, u \in timers'[s] : t.id = u.id => t = u
      BY <1>3, <3>4, <3>5 DEF TimersSound
    <3> QED
      BY <3>6, <3>7, <3>8 DEF TimersSound
  <2> QED
    BY <2>5, <2>6
<1> QED
  BY <1>1, <1>2, <1>4, <1>5, <1>6, <1>7 DEF Retire, Serve, Open

(* A timer runs down with the idle time of its flow, never behind it.      *)
LEMMA TimersTick ==
    ASSUME Shapes, \A x \in Shards : TimersSound(timers[x], flows[x]), Tick, NEW s \in Shards
    PROVE  TimersSound(timers'[s], flows'[s])
<1>1. /\ \A t \in timers[s] : \E u \in timers'[s] : Ticked(t, u)
      /\ \A u \in timers'[s] : \E t \in timers[s] : Ticked(t, u)
      /\ \A t \in timers[s], u, v \in timers'[s] : u.id = t.id /\ v.id = t.id => u = v
  BY TickedTimers
<1>2. ASSUME NEW u \in timers'[s]
      PROVE  u \in TimerRecords /\ u.id[1] = u.key /\ u.left <= Timeout(u.key)
  <2>1. PICK t \in timers[s] : Ticked(t, u)
    BY <1>1
  <2>2. t.id[1] = t.key /\ t.left <= Timeout(t.key) /\ t \in TimerRecords
    BY DEF TimersSound
  <2>3. u \in TimerRecords /\ u.id = t.id /\ u.key = t.key /\ t.left \in Nat /\ u.left = Down(t.left)
    BY <2>1 DEF Ticked
  <2>4. t.key \in Keys
    BY <2>2 DEF TimerRecords
  <2>5. Timeout(t.key) \in Nat
    BY <2>4, ConstantFacts
  <2>6. Down(t.left) <= t.left
    BY <2>3 DEF Down
  <2>7. u.left \in Nat
    BY <2>3 DEF TimerRecords
  <2> QED
    BY <2>2, <2>3, <2>5, <2>6, <2>7
<1>3. ASSUME NEW u \in timers'[s], NEW v \in timers'[s], u.id = v.id PROVE u = v
  <2>1. PICK t \in timers[s] : u.id = t.id
    BY <1>1 DEF Ticked
  <2> QED
    BY <1>1, <1>3, <2>1
<1>4. ASSUME NEW k \in DOMAIN flows'[s]
      PROVE  \E u \in timers'[s] : u.id = flows'[s][k].id /\ u.left <= Timeout(k) - flows'[s][k].idle
  <2>1. /\ k \in Live(s) /\ flows'[s][k].id = flows[s][k].id
        /\ flows'[s][k].idle = IF flows[s][k].idle < Timeout(k)
                               THEN flows[s][k].idle + 1 ELSE flows[s][k].idle
        /\ flows[s][k].idle \in Nat /\ flows[s][k].idle <= Timeout(k) /\ Timeout(k) \in Nat
    BY TickedTable
  <2>2. PICK t \in timers[s] : t.id = flows[s][k].id /\ t.left <= Timeout(k) - flows[s][k].idle
    BY <2>1 DEF TimersSound, Live
  <2>3. PICK u \in timers'[s] : u.id = t.id /\ u.left = Down(t.left) /\ t.left \in Nat
    BY <1>1 DEF Ticked
  <2>4. u.left <= Timeout(k) - flows'[s][k].idle
    BY <2>1, <2>2, <2>3 DEF Down
  <2> QED
    BY <2>1, <2>2, <2>3, <2>4
<1> QED
  BY <1>2, <1>3, <1>4 DEF TimersSound

-----------------------------------------------------------------------------
(* Flow counts per source prefix.                                          *)

(* gs is what is left of the table fs without the keys in gone.            *)
LeftOf(gs, fs, gone) ==
    /\ gone \subseteq DOMAIN fs
    /\ DOMAIN gs = DOMAIN fs \ gone
    /\ \A k \in DOMAIN gs : gs[k] = fs[k]

(* close_flow takes the flows that go off the counts.                      *)
LEMMA UncountMatches ==
    ASSUME NEW s, NEW c, NEW fs, NEW gone, NEW gs,
           CountsMatch(c, fs), IsTable(fs, s), LeftOf(gs, fs, gone)
    PROVE  CountsMatch(Uncount(c, fs, gone), gs)
<1> DEFINE d == Uncount(c, fs, gone)
<1>0. /\ gone \subseteq DOMAIN fs /\ DOMAIN gs = DOMAIN fs \ gone
      /\ \A k \in DOMAIN gs : gs[k] = fs[k]
  BY DEF LeftOf
<1> DEFINE out(x) == {k \in gone : fs[k].prefix = x}
           left == [x \in DOMAIN c |-> c[x] - Cardinality(out(x))]
<1>1. d = Restrict(left, {x \in DOMAIN left : left[x] > 0})
  BY DEF Uncount
<1> HIDE DEF d
<1>2. /\ DOMAIN d = {x \in DOMAIN c : c[x] - Cardinality(out(x)) > 0}
      /\ \A x \in DOMAIN d : d[x] = c[x] - Cardinality(out(x))
  BY <1>1 DEF Restrict
<1>3. ASSUME NEW x \in SourcePrefixes
      PROVE  /\ OfPrefix(gs, x) = OfPrefix(fs, x) \ out(x) /\ out(x) \subseteq OfPrefix(fs, x)
             /\ IsFiniteSet(OfPrefix(fs, x))
             /\ Cardinality(OfPrefix(gs, x)) = Cardinality(OfPrefix(fs, x)) - Cardinality(out(x))
             /\ Cardinality(OfPrefix(fs, x)) \in Nat /\ Cardinality(out(x)) \in Nat
             /\ Cardinality(OfPrefix(gs, x)) \in Nat
             /\ Cardinality(OfPrefix(gs, x)) = 0 <=> OfPrefix(gs, x) = {}
  <2>1. OfPrefix(gs, x) = OfPrefix(fs, x) \ out(x) /\ out(x) \subseteq OfPrefix(fs, x)
    BY <1>0 DEF OfPrefix
  <2>2. IsFiniteSet(OfPrefix(fs, x))
    <3>1. OfPrefix(fs, x) \in SUBSET DOMAIN fs /\ IsFiniteSet(DOMAIN fs)
      BY DEF OfPrefix, IsTable
    <3> QED
      BY <3>1, FS_Subset
  <2> HIDE DEF out
  <2>3. /\ IsFiniteSet(OfPrefix(fs, x) \ out(x))
        /\ Cardinality(OfPrefix(fs, x)) \in Nat /\ Cardinality(out(x)) \in Nat
        /\ Cardinality(OfPrefix(fs, x) \ out(x)) = Cardinality(OfPrefix(fs, x)) - Cardinality(out(x))
    BY <2>1, <2>2, CardinalityMinus
  <2>4. /\ Cardinality(OfPrefix(gs, x)) \in Nat
        /\ Cardinality(OfPrefix(gs, x)) = 0 <=> OfPrefix(gs, x) = {}
    BY <2>1, <2>3, FS_EmptySet, FS_CardinalityType
  <2> QED
    BY <2>1, <2>2, <2>3, <2>4
<1> HIDE DEF out, left
<1>4. /\ DOMAIN c = {x \in SourcePrefixes : OfPrefix(fs, x) # {}}
      /\ \A x \in DOMAIN c : c[x] = Cardinality(OfPrefix(fs, x)) /\ c[x] <= MaxPerPrefix
  BY DEF CountsMatch
<1>5. DOMAIN d = {x \in SourcePrefixes : OfPrefix(gs, x) # {}}
  <2>1. ASSUME NEW x \in SourcePrefixes PROVE x \in DOMAIN d <=> OfPrefix(gs, x) # {}
    <3>1. CASE x \in DOMAIN c
      BY <1>2, <1>3, <1>4, <3>1
    <3>2. CASE x \notin DOMAIN c
      BY <1>2, <1>3, <1>4, <3>2
    <3> QED
      BY <3>1, <3>2
  <2> QED
    BY <1>2, <1>4, <2>1
<1>6. ASSUME NEW x \in DOMAIN d PROVE d[x] = Cardinality(OfPrefix(gs, x)) /\ d[x] <= MaxPerPrefix
  <2>1. x \in DOMAIN c /\ x \in SourcePrefixes /\ d[x] = c[x] - Cardinality(out(x))
    BY <1>2, <1>4, <1>6
  <2> QED
    BY <1>3, <1>4, <2>1, ConstantFacts
<1>7. CountsMatch(d, gs)
  BY <1>5, <1>6 DEF CountsMatch
<1> QED
  BY <1>7 DEF d

(* A new flow is counted once, and only when the quota of its prefix       *)
(* allows it.                                                              *)
LEMMA CountNew ==
    ASSUME NEW s \in Shards, NEW k \in Keys, NEW g \in FlowRecords, NEW gs, NEW d,
           IsTable(flows[s], s), CountsMatch(counts[s], flows[s]), k \notin Live(s),
           ~(CountOf(s, g.prefix) >= MaxPerPrefix),
           d = Put(counts[s], g.prefix, CountOf(s, g.prefix) + 1),
           DOMAIN gs = Live(s) \cup {k}, gs[k] = g,
           \A h \in Live(s) : gs[h] = flows[s][h]
    PROVE  CountsMatch(d, gs)
<1> DEFINE x == g.prefix
<1>1. x \in SourcePrefixes
  BY DEF FlowRecords
<1> HIDE DEF x
<1>2. /\ OfPrefix(gs, x) = OfPrefix(flows[s], x) \cup {k} /\ k \notin OfPrefix(flows[s], x)
      /\ \A y \in SourcePrefixes \ {x} : OfPrefix(gs, y) = OfPrefix(flows[s], y)
  BY DEF OfPrefix, Live, x
<1>3. IsFiniteSet(OfPrefix(flows[s], x))
  <2>1. OfPrefix(flows[s], x) \in SUBSET DOMAIN flows[s] /\ IsFiniteSet(DOMAIN flows[s])
    BY DEF OfPrefix, IsTable
  <2> QED
    BY <2>1, FS_Subset
<1>4. /\ Cardinality(OfPrefix(flows[s], x)) \in Nat
      /\ Cardinality(OfPrefix(gs, x)) = Cardinality(OfPrefix(flows[s], x)) + 1
  BY <1>2, <1>3, FS_AddElement, FS_CardinalityType
<1>5. CountOf(s, x) = Cardinality(OfPrefix(flows[s], x))
  BY <1>1, FS_EmptySet DEF CountOf, CountsMatch
<1>6. /\ DOMAIN d = DOMAIN counts[s] \cup {x}
      /\ \A y \in DOMAIN d : d[y] = IF y = x THEN CountOf(s, x) + 1 ELSE counts[s][y]
  BY DEF Put, x
<1>7. /\ DOMAIN counts[s] = {y \in SourcePrefixes : OfPrefix(flows[s], y) # {}}
      /\ \A y \in DOMAIN counts[s] :
            counts[s][y] = Cardinality(OfPrefix(flows[s], y)) /\ counts[s][y] <= MaxPerPrefix
  BY DEF CountsMatch
<1>8. DOMAIN d = {y \in SourcePrefixes : OfPrefix(gs, y) # {}}
  BY <1>1, <1>2, <1>6, <1>7
<1>9. CountOf(s, x) + 1 <= MaxPerPrefix
  BY <1>4, <1>5, ConstantFacts DEF x
<1>10. ASSUME NEW y \in DOMAIN d PROVE d[y] = Cardinality(OfPrefix(gs, y)) /\ d[y] <= MaxPerPrefix
  <2>1. CASE y = x
    BY <1>4, <1>5, <1>6, <1>9, <2>1
  <2>2. CASE y # x
    BY <1>2, <1>6, <1>7, <1>10, <2>2
  <2> QED
    BY <2>1, <2>2
<1> QED
  BY <1>8, <1>10 DEF CountsMatch

(* A table whose flows have the same prefixes has the same counts.         *)
LEMMA CountsOfSame ==
    ASSUME NEW c, NEW fs, NEW gs, CountsMatch(c, fs), DOMAIN gs = DOMAIN fs,
           \A k \in DOMAIN fs : gs[k].prefix = fs[k].prefix
    PROVE  CountsMatch(c, gs)
<1>1. \A x : OfPrefix(gs, x) = OfPrefix(fs, x)
  BY DEF OfPrefix
<1> QED
  BY <1>1 DEF CountsMatch

(* Every kind of step keeps the counts of the shard exact.                 *)
LEMMA CountsShard ==
    ASSUME Shapes, \A x \in Shards : CountsMatch(counts[x], flows[x]),
           NEW s \in Shards, ShardStep(s)
    PROVE  \A x \in Shards : CountsMatch(counts'[x], flows'[x])
<1>1. Frame(s) /\ (Quiet(s) \/ Retire(s) \/ Serve(s) \/ Open(s))
  BY StepKind
<1>2. \A x \in Shards \ {s} : CountsMatch(counts'[x], flows'[x])
  BY <1>1 DEF Frame
<1>3. CountsMatch(counts[s], flows[s]) /\ IsTable(flows[s], s)
  BY DEF Shapes, ShardShape
<1>4. CASE Quiet(s)
  BY <1>2, <1>3, <1>4 DEF Quiet
<1>5. ASSUME NEW gone, NEW V, RetireOf(s, gone, V)
      PROVE  CountsMatch(counts'[s], flows'[s])
  <2>1. /\ DOMAIN flows'[s] = Live(s) \ gone
        /\ \A k \in DOMAIN flows'[s] : flows'[s][k] = flows[s][k]
    BY <1>5, RetiredTable
  <2>2. counts'[s] = Uncount(counts[s], flows[s], gone) /\ gone \subseteq Live(s)
    BY <1>5, Zenon DEF RetireOf
  <2>3. LeftOf(flows'[s], flows[s], gone)
    BY <2>1, <2>2 DEF LeftOf, Live
  <2>4. CountsMatch(Uncount(counts[s], flows[s], gone), flows'[s])
    BY <1>3, <2>3, UncountMatches, Zenon
  <2> QED
    BY <2>2, <2>4, Zenon
<1>6. ASSUME NEW p, NEW g \in FlowRecords, NEW fed, NEW gone, NEW c, NEW V,
             ServeOf(s, p, g, fed, gone, c, V),
             NEW fs, fs = Put(flows[s], p.key, g), CountsMatch(c, fs)
      PROVE  CountsMatch(counts'[s], flows'[s])
  <2>1. /\ p.key \in Keys /\ ShardOf[p.key] = s /\ g.id[1] = p.key /\ g.idle = 0
        /\ gone \subseteq {p.key} /\ counts'[s] = Uncount(c, fs, gone)
        /\ flows'[s] = Restrict(fs, DOMAIN fs \ gone)
    BY <1>6, Zenon DEF ServeOf
  <2>2. IsTable(fs, s)
    BY <1>3, <1>6, <2>1, TablePut
  <2>3. p.key \in DOMAIN fs
    BY <1>6 DEF Put
  <2>4. LeftOf(flows'[s], fs, gone)
    BY <2>1, <2>3 DEF Restrict, LeftOf
  <2>5. CountsMatch(Uncount(c, fs, gone), flows'[s])
    BY <1>6, <2>2, <2>4, UncountMatches, Zenon
  <2> QED
    BY <2>1, <2>5, Zenon
<1>7. ASSUME NEW p \in Packets(s), NEW g \in FlowRecords, NEW fed, NEW gone, NEW V,
             ServeLive(s, p, g, fed, gone, V)
      PROVE  CountsMatch(counts'[s], flows'[s])
  <2> DEFINE fs == Put(flows[s], p.key, g)
  <2>1. /\ ServeOf(s, p, g, fed, gone, counts[s], V)
        /\ p.key \in Live(s) /\ g.prefix = flows[s][p.key].prefix
    BY <1>7, Zenon DEF ServeLive
  <2>2. DOMAIN fs = Live(s) /\ \A k \in Live(s) : fs[k].prefix = flows[s][k].prefix
    BY <2>1 DEF Put, Live
  <2> HIDE DEF fs
  <2>3. CountsMatch(counts[s], fs)
    BY <1>3, <2>2, CountsOfSame DEF Live
  <2> QED
    <3>1. fs = Put(flows[s], p.key, g)
      BY DEF fs
    <3>2. ServeOf(s, p, g, fed, gone, counts[s], V)
      BY <2>1
    <3> QED
      BY <1>6, <3>1, <3>2, <2>3
<1>8. ASSUME NEW p \in Packets(s), NEW g \in FlowRecords, NEW fed, NEW gone, NEW V,
             ServeNew(s, p, g, fed, gone, V)
      PROVE  CountsMatch(counts'[s], flows'[s])
  <2> DEFINE fs == Put(flows[s], p.key, g)
             c == Put(counts[s], g.prefix, CountOf(s, g.prefix) + 1)
  <2>1. /\ ServeOf(s, p, g, fed, gone, c, V)
        /\ p.key \notin Live(s) /\ ~(CountOf(s, g.prefix) >= MaxPerPrefix)
    BY <1>8, Zenon DEF ServeNew
  <2>2. p.key \in Keys
    BY ConstantFacts
  <2>3. DOMAIN fs = Live(s) \cup {p.key} /\ fs[p.key] = g /\ \A k \in Live(s) : fs[k] = flows[s][k]
    BY <2>1 DEF Put, Live
  <2>4. \A d : d = c => CountsMatch(d, fs)
    <3> HIDE DEF fs
    <3> QED
      BY <1>3, <2>1, <2>2, <2>3, CountNew
  <2>5. CountsMatch(c, fs)
    BY <2>4, Zenon
  <2> HIDE DEF c, fs
  <2> QED
    BY <1>6, <2>1, <2>5 DEF fs
<1> QED
  BY <1>1, <1>2, <1>4, <1>5, <1>7, <1>8 DEF Retire, Serve, Open

(* Time does not touch the flow counts per prefix.                         *)
LEMMA CountsTick ==
    ASSUME Shapes, \A x \in Shards : CountsMatch(counts[x], flows[x]), Tick, NEW s \in Shards
    PROVE  CountsMatch(counts'[s], flows'[s])
<1>1. /\ DOMAIN flows'[s] = DOMAIN flows[s]
      /\ \A k \in DOMAIN flows[s] : flows'[s][k].prefix = flows[s][k].prefix
  BY TickedTable DEF Live
<1>2. counts'[s] = counts[s]
  BY DEF Tick
<1> QED
  BY <1>1, <1>2, CountsOfSame

-----------------------------------------------------------------------------
(* Tombstones.                                                             *)

Entries == [left : Nat, key : Keys]

(* What is left after n entries were popped.                               *)
Pops(u, t, n) ==
    /\ DOMAIN u = {"by_key", "order"}
    /\ u.order = SubSeq(t.order, n + 1, Len(t.order))
    /\ DOMAIN u.by_key = {k \in DOMAIN t.by_key : \A i \in 1 .. n : t.order[i] # EntryOf(t, k)}
    /\ \A k \in DOMAIN u.by_key : u.by_key[k] = t.by_key[k]

(* Each popped entry takes the tombstone it stands for with it.            *)
LEMMA PoppedFacts ==
    ASSUME NEW t, NEW n
    PROVE  Pops(Popped(t, n), t, n)
<1> DEFINE kept == {k \in DOMAIN t.by_key : \A i \in 1 .. n : t.order[i] # EntryOf(t, k)}
           rest == SubSeq(t.order, n + 1, Len(t.order))
           u == [by_key |-> [k \in kept |-> t.by_key[k]], order |-> rest]
<1>1. Popped(t, n) = u
  BY Zenon DEF Popped, Restrict
<1> HIDE DEF kept, rest
<1>2. /\ DOMAIN u = {"by_key", "order"} /\ u.order = rest
      /\ DOMAIN u.by_key = kept
      /\ \A k \in kept : u.by_key[k] = t.by_key[k]
  OBVIOUS
<1> HIDE DEF u
<1>3. Pops(u, t, n)
  BY <1>2 DEF kept, rest, Pops
<1> QED
  BY <1>1, <1>3, Zenon

(* Popping keeps an entry for every tombstone that stays, and with the     *)
(* whole queue all tombstones go (TcpTombstones::expire, the eviction).    *)
LEMMA PoppedIndexed ==
    ASSUME NEW t, TombsIndexed(t), NEW n \in 0 .. Len(t.order), NEW u, u = Popped(t, n)
    PROVE  /\ TombsIndexed(u)
           /\ DOMAIN u.by_key \subseteq DOMAIN t.by_key
           /\ n = Len(t.order) => DOMAIN u.by_key = {}
<1>1. /\ u.order = SubSeq(t.order, n + 1, Len(t.order))
      /\ DOMAIN u.by_key = {k \in DOMAIN t.by_key :
                               \A i \in 1 .. n : t.order[i] # EntryOf(t, k)}
      /\ \A k \in DOMAIN u.by_key : u.by_key[k] = t.by_key[k]
      /\ DOMAIN u = {"by_key", "order"}
  <2>1. Pops(u, t, n)
    BY PoppedFacts, Zenon
  <2> QED
    BY <2>1 DEF Pops
<1>2. t.order \in Seq(Entries) /\ Len(t.order) \in Nat /\ DOMAIN t.order = 1 .. Len(t.order)
  BY DEF TombsIndexed, Entries
<1>3. /\ u.order \in Seq(Entries) /\ Len(u.order) = Len(t.order) - n
      /\ DOMAIN u.order = 1 .. Len(t.order) - n
      /\ \A i \in 1 .. Len(t.order) - n : u.order[i] = t.order[i + n]
  BY <1>1, <1>2
<1>4. IsFiniteSet(DOMAIN u.by_key)
  BY <1>1, FS_Subset DEF TombsIndexed
<1>5. ASSUME NEW k \in DOMAIN u.by_key PROVE \E i \in DOMAIN u.order : u.order[i] = EntryOf(u, k)
  <2>1. EntryOf(u, k) = EntryOf(t, k) /\ k \in DOMAIN t.by_key
        /\ \A i \in 1 .. n : t.order[i] # EntryOf(t, k)
    BY <1>1 DEF EntryOf
  <2>2. PICK i \in 1 .. Len(t.order) : t.order[i] = EntryOf(t, k)
    BY <1>2, <2>1 DEF TombsIndexed
  <2>3. i \notin 1 .. n
    BY <2>1, <2>2
  <2>4. i - n \in 1 .. Len(t.order) - n /\ (i - n) + n = i
    BY <1>2, <2>2, <2>3
  <2> QED
    BY <1>3, <2>1, <2>2, <2>4
<1>6. n = Len(t.order) => DOMAIN u.by_key = {}
  BY <1>1, <1>2 DEF TombsIndexed
<1> QED
  BY <1>1, <1>3, <1>4, <1>5, <1>6 DEF TombsIndexed, Entries

(* expire and remove keep the index and leave no more tombstones.          *)
LEMMA ExpireIndexed ==
    ASSUME NEW t, TombsIndexed(t), NEW u, u = expire(t)
    PROVE  TombsIndexed(u) /\ DOMAIN u.by_key \subseteq DOMAIN t.by_key
<1> DEFINE due == {i \in 1 .. Len(t.order) : \A j \in 1 .. i : t.order[j].left = 0}
           n == Cardinality(due)
<1>1. Len(t.order) \in Nat
  BY DEF TombsIndexed
<1>2. IsFiniteSet(1 .. Len(t.order)) /\ Cardinality(1 .. Len(t.order)) = Len(t.order)
  BY <1>1, FS_Interval
<1>3. due \in SUBSET (1 .. Len(t.order))
  OBVIOUS
<1>4. u = Popped(t, n)
  BY DEF expire
<1> HIDE DEF due
<1>5. n \in Nat /\ n <= Len(t.order)
  BY <1>2, <1>3, FS_Subset, FS_CardinalityType
<1> HIDE DEF n
<1> QED
  BY <1>1, <1>4, <1>5, PoppedIndexed

(* The entry of a tombstone may outlive it.                                *)
LEMMA RemoveIndexed ==
    ASSUME NEW t, TombsIndexed(t), NEW k, NEW u, u = remove(t, k)
    PROVE  TombsIndexed(u) /\ DOMAIN u.by_key \subseteq DOMAIN t.by_key
<1>1. /\ u.order = t.order /\ DOMAIN u.by_key = DOMAIN t.by_key \ {k}
      /\ \A x \in DOMAIN u.by_key : u.by_key[x] = t.by_key[x]
      /\ DOMAIN u = {"by_key", "order"}
  BY DEF remove, Restrict, TombsIndexed
<1>2. IsFiniteSet(DOMAIN u.by_key)
  BY <1>1, FS_Subset DEF TombsIndexed
<1> QED
  BY <1>1, <1>2 DEF TombsIndexed, EntryOf

(* The eviction brings the tombstones within their limit, whatever their   *)
(* number was.                                                             *)
LEMMA EvictSound ==
    ASSUME NEW t, TombsIndexed(t), NEW u, u = Evict(t)
    PROVE  TombsSound(u)
<1> DEFINE N == Len(t.order)
           many(i) == Cardinality(DOMAIN Popped(t, i).by_key)
           S == {i \in 0 .. N : many(i) <= TombstoneMax \/ i = N}
           fits(i) == /\ many(i) <= TombstoneMax \/ i = N
                      /\ \A j \in 0 .. i - 1 : many(j) > TombstoneMax
           n == CHOOSE i \in 0 .. N : fits(i)
<1>1. N \in Nat
  BY DEF TombsIndexed
<1>2. u = Popped(t, n)
  BY Zenon DEF Evict
<1>3. ASSUME NEW i \in 0 .. N
      PROVE  /\ TombsIndexed(Popped(t, i)) /\ many(i) \in Nat
             /\ i = N => many(i) = 0
  <2>1. ASSUME NEW v, v = Popped(t, i)
        PROVE  /\ TombsIndexed(v) /\ Cardinality(DOMAIN v.by_key) \in Nat
               /\ i = N => Cardinality(DOMAIN v.by_key) = 0
    <3>1. TombsIndexed(v) /\ (i = N => DOMAIN v.by_key = {})
      BY <2>1, PoppedIndexed
    <3>2. IsFiniteSet(DOMAIN v.by_key)
      BY <3>1 DEF TombsIndexed
    <3> QED
      BY <3>1, <3>2, FS_CardinalityType, FS_EmptySet
  <2> QED
    BY <2>1, Zenon
<1> HIDE DEF many, N
<1>4. \E i \in S : \A j \in S : i <= j
  <2>1. S \subseteq Nat /\ N \in S
    BY <1>1
  <2> HIDE DEF S
  <2> QED
    BY <2>1, LeastNatural
<1>5. \E i \in 0 .. N : fits(i)
  <2>1. PICK i \in S : \A j \in S : i <= j
    BY <1>4
  <2>2. i \in 0 .. N /\ (many(i) <= TombstoneMax \/ i = N)
    BY <2>1
  <2>3. ASSUME NEW j \in 0 .. i - 1 PROVE many(j) > TombstoneMax
    <3>1. j \in 0 .. N /\ j < i
      BY <1>1, <2>2
    <3>2. j \notin S
      BY <1>1, <2>1, <2>2, <3>1
    <3> QED
      BY <1>3, <3>1, <3>2, ConstantFacts
  <2> QED
    BY <2>2, <2>3
<1>6. n \in 0 .. N /\ fits(n)
  <2> HIDE DEF fits
  <2> QED
    BY <1>5, Zenon
<1> HIDE DEF n
<1>7. many(n) <= TombstoneMax
  <2>1. 0 <= TombstoneMax
    BY ConstantFacts
  <2> QED
    BY <1>3, <1>6, <2>1
<1>8. TombsIndexed(Popped(t, n))
  BY <1>3, <1>6
<1> QED
  BY <1>2, <1>7, <1>8 DEF TombsSound, many

(* A close leaves the tombstones sound (TcpTombstones::insert).            *)
LEMMA InsertSound ==
    ASSUME NEW t, TombsIndexed(t), NEW k \in Keys, NEW u, u = insert(t, k)
    PROVE  TombsSound(u)
<1> DEFINE e == [left |-> TombstoneTtl, key |-> k]
           v == [by_key |-> Put(t.by_key, k, TombstoneTtl), order |-> Append(t.order, e)]
<1>1. u = Evict(expire(v))
  BY DEF insert
<1>2. /\ DOMAIN v = {"by_key", "order"} /\ v.order = Append(t.order, e)
      /\ DOMAIN v.by_key = DOMAIN t.by_key \cup {k}
      /\ v.by_key[k] = TombstoneTtl /\ \A x \in DOMAIN t.by_key \ {k} : v.by_key[x] = t.by_key[x]
  BY DEF Put
<1>3. t.order \in Seq(Entries) /\ e \in Entries
  BY ConstantFacts DEF TombsIndexed, Entries
<1>4. e.left = TombstoneTtl /\ e.key = k
  OBVIOUS
<1>5. e = EntryOf(v, k)
  BY <1>2, Zenon DEF EntryOf
<1> HIDE DEF v, e
<1>6. /\ v.order \in Seq(Entries) /\ DOMAIN v.order = 1 .. Len(t.order) + 1
      /\ v.order[Len(t.order) + 1] = e
      /\ \A i \in 1 .. Len(t.order) : v.order[i] = t.order[i]
      /\ Len(t.order) \in Nat /\ DOMAIN t.order = 1 .. Len(t.order)
  BY <1>2, <1>3
<1>7. IsFiniteSet(DOMAIN v.by_key)
  <2>1. IsFiniteSet(DOMAIN t.by_key \cup {k})
    BY FS_AddElement DEF TombsIndexed
  <2> QED
    BY <1>2, <2>1
<1>8. ASSUME NEW x \in DOMAIN v.by_key PROVE \E i \in DOMAIN v.order : v.order[i] = EntryOf(v, x)
  <2>1. CASE x = k
    BY <1>5, <1>6, <2>1
  <2>2. CASE x # k
    <3>1. x \in DOMAIN t.by_key /\ EntryOf(v, x) = EntryOf(t, x)
      BY <1>2, <1>8, <2>2 DEF EntryOf
    <3>2. PICK i \in 1 .. Len(t.order) : t.order[i] = EntryOf(t, x)
      BY <1>6, <3>1 DEF TombsIndexed
    <3> QED
      BY <1>6, <3>1, <3>2
  <2> QED
    BY <2>1, <2>2
<1>9. TombsIndexed(v)
  BY <1>2, <1>6, <1>7, <1>8 DEF TombsIndexed, Entries
<1>10. TombsIndexed(expire(v))
  BY <1>9, ExpireIndexed
<1> QED
  BY <1>1, <1>10, EvictSound

(* Fewer tombstones are within the limit.                                  *)
LEMMA FewerSound ==
    ASSUME NEW t, TombsSound(t), NEW u, TombsIndexed(u), DOMAIN u.by_key \subseteq DOMAIN t.by_key
    PROVE  TombsSound(u)
<1>1. IsFiniteSet(DOMAIN t.by_key) /\ Cardinality(DOMAIN t.by_key) <= TombstoneMax
  BY DEF TombsSound, TombsIndexed
<1>2. /\ Cardinality(DOMAIN u.by_key) \in Nat /\ Cardinality(DOMAIN t.by_key) \in Nat
      /\ Cardinality(DOMAIN u.by_key) <= Cardinality(DOMAIN t.by_key)
  BY <1>1, FS_Subset, FS_CardinalityType
<1> QED
  BY <1>1, <1>2, ConstantFacts DEF TombsSound

(* Every kind of step keeps the tombstones of the shard sound.             *)
LEMMA TombsShard ==
    ASSUME Shapes, \A x \in Shards : TombsSound(tombs[x]), NEW s \in Shards, ShardStep(s)
    PROVE  \A x \in Shards : TombsSound(tombs'[x])
<1>1. Frame(s) /\ (Quiet(s) \/ Retire(s) \/ Serve(s) \/ Open(s))
  BY StepKind
<1>2. \A x \in Shards \ {s} : TombsSound(tombs'[x])
  BY <1>1 DEF Frame
<1>3. TombsSound(tombs[s]) /\ TombsIndexed(tombs[s])
  BY DEF TombsSound
<1>4. TombsSound(expire(tombs[s])) /\ \A k : TombsSound(remove(tombs[s], k))
  <2>1. ASSUME NEW u, u = expire(tombs[s]) PROVE TombsSound(u)
    BY <1>3, <2>1, ExpireIndexed, FewerSound
  <2>2. ASSUME NEW k, NEW u, u = remove(tombs[s], k) PROVE TombsSound(u)
    BY <1>3, <2>2, RemoveIndexed, FewerSound
  <2> QED
    BY <2>1, <2>2
<1>5. CASE Quiet(s)
  BY <1>2, <1>3, <1>5 DEF Quiet
<1>6. ASSUME NEW gone, NEW V, RetireOf(s, gone, V) PROVE TombsSound(tombs'[s])
  BY <1>3, <1>4, <1>6, Zenon DEF RetireOf
<1>7. ASSUME NEW p \in Packets(s), NEW t, TombsSound(t), tombs'[s] \in {t, insert(t, p.key)}
      PROVE  TombsSound(tombs'[s])
  <2>1. p.key \in Keys /\ TombsIndexed(t)
    BY <1>7, ConstantFacts DEF TombsSound
  <2>2. TombsSound(insert(t, p.key))
    BY <2>1, InsertSound
  <2> QED
    BY <1>7, <2>2, Zenon
<1>8. ASSUME NEW p \in Packets(s), NEW g, NEW fed, NEW gone, NEW V,
             ServeLive(s, p, g, fed, gone, V) \/ ServeNew(s, p, g, fed, gone, V)
      PROVE  TombsSound(tombs'[s])
  <2>1. \E t \in {tombs[s], remove(tombs[s], p.key)} : tombs'[s] \in {t, insert(t, p.key)}
    BY <1>8, Zenon DEF ServeLive, ServeNew
  <2> QED
    BY <1>3, <1>4, <1>7, <2>1, Zenon
<1> QED
  BY <1>1, <1>2, <1>5, <1>6, <1>8 DEF Retire, Serve, Open

(* A tombstone and its entry age together.                                 *)
LEMMA TombsTick ==
    ASSUME Shapes, \A x \in Shards : TombsSound(tombs[x]), Tick, NEW s \in Shards
    PROVE  TombsSound(tombs'[s])
<1> DEFINE t == tombs[s]
           u == tombs'[s]
           aged == [k \in DOMAIN t.by_key |-> Down(t.by_key[k])]
           queue == [i \in DOMAIN t.order |-> [t.order[i] EXCEPT !.left = Down(@)]]
<1>1. u = [by_key |-> aged, order |-> queue]
  BY Zenon DEF Tick
<1>2. t.order \in Seq(Entries) /\ IsFiniteSet(DOMAIN t.by_key)
      /\ Cardinality(DOMAIN t.by_key) <= TombstoneMax
      /\ \A k \in DOMAIN t.by_key : \E i \in DOMAIN t.order : t.order[i] = EntryOf(t, k)
  BY DEF TombsSound, TombsIndexed, Entries
<1> HIDE DEF t
<1>3. /\ DOMAIN aged = DOMAIN t.by_key /\ \A k \in DOMAIN t.by_key : aged[k] = Down(t.by_key[k])
      /\ DOMAIN queue = DOMAIN t.order
      /\ \A i \in DOMAIN t.order : queue[i] = [t.order[i] EXCEPT !.left = Down(@)]
  OBVIOUS
<1>4. queue \in Seq(Entries)
  <2>1. /\ Len(t.order) \in Nat /\ DOMAIN t.order = 1 .. Len(t.order)
        /\ \A i \in DOMAIN t.order : t.order[i] \in Entries
    BY <1>2
  <2>2. \A i \in DOMAIN t.order : [t.order[i] EXCEPT !.left = Down(@)] \in Entries
    BY <2>1 DEF Entries, Down
  <2>3. queue \in [1 .. Len(t.order) -> Entries]
    BY <2>1, <2>2
  <2> HIDE DEF queue
  <2> QED
    BY <2>1, <2>3
<1> HIDE DEF aged, queue, u
<1>5. u.by_key = aged /\ u.order = queue /\ DOMAIN u = {"by_key", "order"}
  BY <1>1
<1>6. ASSUME NEW k \in DOMAIN u.by_key PROVE \E i \in DOMAIN u.order : u.order[i] = EntryOf(u, k)
  <2>1. PICK i \in DOMAIN t.order : t.order[i] = EntryOf(t, k)
    BY <1>2, <1>3, <1>5
  <2>2. u.by_key[k] = Down(t.by_key[k])
    BY <1>3, <1>5
  <2>3. t.order[i] = [left |-> t.by_key[k], key |-> k]
    BY <2>1 DEF EntryOf
  <2>4. queue[i] = [left |-> Down(t.by_key[k]), key |-> k]
    BY <1>3, <2>3
  <2> QED
    BY <1>3, <1>5, <2>2, <2>4 DEF EntryOf
<1>7. TombsSound(u)
  BY <1>2, <1>3, <1>4, <1>5, <1>6 DEF TombsSound, TombsIndexed, Entries
<1> QED
  BY <1>7 DEF u

-----------------------------------------------------------------------------
(* The shared budget.                                                      *)

(* The ids of the flows of all the tables F.                               *)
AllIds(F) == UNION {IdsOf(F[s], DOMAIN F[s]) : s \in Shards}

(* A table has as many ids as flows, and they tell its shard.              *)
LEMMA IdsOfTable ==
    ASSUME NEW s, NEW fs, IsTable(fs, s)
    PROVE  /\ IsFiniteSet(IdsOf(fs, DOMAIN fs))
           /\ Cardinality(IdsOf(fs, DOMAIN fs)) = Cardinality(DOMAIN fs)
           /\ Cardinality(DOMAIN fs) \in Nat
           /\ \A i \in IdsOf(fs, DOMAIN fs) : ShardOf[i[1]] = s /\ i[1] \in DOMAIN fs
<1> DEFINE D == DOMAIN fs
           f == [k \in D |-> fs[k].id]
<1>1. IsFiniteSet(D)
  BY DEF IsTable
<1>2. \A k \in D : f[k] = fs[k].id /\ fs[k].id[1] = k /\ ShardOf[k] = s
  BY DEF IsTable
<1>3. IdsOf(fs, D) = {f[k] : k \in D}
  BY DEF IdsOf
<1>4. \A x, y \in D : f[x] = f[y] => x = y
  BY <1>2
<1>5. DOMAIN f = D /\ f = [k \in D |-> f[k]]
  OBVIOUS
<1>6. Cardinality(D) \in Nat
  BY <1>1, FS_CardinalityType
<1>7. \A i \in {f[k] : k \in D} : ShardOf[i[1]] = s /\ i[1] \in D
  BY <1>2
<1> HIDE DEF f, D
<1>8. IsFiniteSet({f[k] : k \in D}) /\ Cardinality({f[k] : k \in D}) = Cardinality(D)
  BY <1>1, <1>4, <1>5, ImageCardinality
<1> QED
  BY <1>3, <1>6, <1>7, <1>8 DEF D

(* When the table of one shard changes, the number of live ids changes by  *)
(* as much as the number of its flows.                                     *)
LEMMA AllIdsChange ==
    ASSUME NEW F, NEW G, NEW s \in Shards,
           \A x \in Shards : IsTable(F[x], x), IsTable(G[s], s),
           \A x \in Shards \ {s} : G[x] = F[x], IsFiniteSet(AllIds(F))
    PROVE  /\ IsFiniteSet(AllIds(G))
           /\ Cardinality(AllIds(F)) \in Nat
           /\ Cardinality(DOMAIN F[s]) \in Nat /\ Cardinality(DOMAIN G[s]) \in Nat
           /\ Cardinality(AllIds(G)) =
                (Cardinality(AllIds(F)) - Cardinality(DOMAIN F[s])) + Cardinality(DOMAIN G[s])
<1> DEFINE O == UNION {IdsOf(F[x], DOMAIN F[x]) : x \in Shards \ {s}}
           A == IdsOf(F[s], DOMAIN F[s])
           B == IdsOf(G[s], DOMAIN G[s])
<1>1. AllIds(F) = O \cup A /\ AllIds(G) = O \cup B
  BY DEF AllIds
<1>2. /\ IsFiniteSet(A) /\ Cardinality(A) = Cardinality(DOMAIN F[s])
      /\ Cardinality(DOMAIN F[s]) \in Nat /\ \A i \in A : ShardOf[i[1]] = s
  BY IdsOfTable
<1>3. /\ IsFiniteSet(B) /\ Cardinality(B) = Cardinality(DOMAIN G[s])
      /\ Cardinality(DOMAIN G[s]) \in Nat /\ \A i \in B : ShardOf[i[1]] = s
  BY IdsOfTable
<1>4. \A i \in O : ShardOf[i[1]] # s
  <2>1. ASSUME NEW x \in Shards \ {s}, NEW i \in IdsOf(F[x], DOMAIN F[x])
        PROVE  ShardOf[i[1]] = x
    BY IdsOfTable
  <2> QED
    BY <2>1
<1> HIDE DEF O, A, B
<1>5. O \cap A = {} /\ O \cap B = {}
  BY <1>2, <1>3, <1>4
<1>6. IsFiniteSet(O)
  BY <1>1, FS_Subset
<1>7. /\ Cardinality(O \cup A) = Cardinality(O) + Cardinality(A) /\ Cardinality(O) \in Nat
      /\ Cardinality(O \cup B) = Cardinality(O) + Cardinality(B) /\ IsFiniteSet(O \cup B)
  BY <1>2, <1>3, <1>5, <1>6, CardinalityPlus
<1> QED
  BY <1>1, <1>2, <1>3, <1>7

(* A shard enters or leaves its reservation, the others stay.              *)
LEMMA PlacingChange ==
    ASSUME NEW s \in Shards, Frame(s), IsFiniteSet(Placing)
    PROVE  /\ IsFiniteSet(Placing') /\ Cardinality(Placing) \in Nat
           /\ Cardinality(Placing') =
                (Cardinality(Placing) - (IF pc[s].at = "place" THEN 1 ELSE 0))
                  + (IF pc'[s].at = "place" THEN 1 ELSE 0)
<1> DEFINE O == Placing \ {s}
<1>1. /\ Placing = IF pc[s].at = "place" THEN O \cup {s} ELSE O
      /\ Placing' = IF pc'[s].at = "place" THEN O \cup {s} ELSE O
  BY DEF Placing, At, Frame
<1>2. IsFiniteSet(O) /\ s \notin O
  BY FS_Subset
<1> HIDE DEF O
<1>3. /\ Cardinality(O) \in Nat /\ IsFiniteSet(O \cup {s})
      /\ Cardinality(O \cup {s}) = Cardinality(O) + 1
  BY <1>2, FS_AddElement, FS_CardinalityType
<1> QED
  BY <1>1, <1>2, <1>3

(* LiveIds is the union the lemmas above are about.                        *)
LEMMA LiveIdsUnion == LiveIds = AllIds(flows) /\ LiveIds' = AllIds(flows')
BY DEF LiveIds, AllIds, IdsOf, Live

(* The budget after a step of shard s, from what the step does to its      *)
(* table and to its reservation.                                           *)
LEMMA BudgetShard ==
    ASSUME Shapes, Budget, NEW s \in Shards, ShardStep(s)
    PROVE  Budget'
<1>1. Frame(s) /\ (Quiet(s) \/ Retire(s) \/ Serve(s) \/ Open(s))
  BY StepKind
<1>2. Shapes'
  BY ShapesShard
<1>3. /\ \A x \in Shards : IsTable(flows[x], x)
      /\ IsTable(flows'[s], s) /\ \A x \in Shards \ {s} : flows'[x] = flows[x]
  BY <1>1, <1>2 DEF Shapes, ShardShape, Frame
<1> DEFINE D == Live(s)
           E == DOMAIN flows'[s]
           L == Cardinality(LiveIds)
           M == Cardinality(LiveIds')
           P == Cardinality(Placing)
           Q == Cardinality(Placing')
<1>4. /\ IsFiniteSet(LiveIds') /\ L \in Nat /\ Cardinality(D) \in Nat /\ Cardinality(E) \in Nat
      /\ M = (L - Cardinality(D)) + Cardinality(E)
  BY <1>3, LiveIdsUnion, AllIdsChange DEF Budget, Live
<1>5. /\ IsFiniteSet(Placing') /\ P \in Nat
      /\ Q = (P - (IF pc[s].at = "place" THEN 1 ELSE 0)) + (IF pc'[s].at = "place" THEN 1 ELSE 0)
  BY <1>1, PlacingChange DEF Budget
<1>6. active = P + L /\ active <= MaxFlows /\ MaxFlows \in Nat
  BY ConstantFacts DEF Budget
<1>7. IsFiniteSet(D)
  BY <1>3 DEF IsTable, Live
<1>8. SUFFICES active' = Q + M /\ active' <= MaxFlows
  BY <1>4, <1>5 DEF Budget
<1> HIDE DEF D, E, L, M, P, Q
<1>9. CASE Quiet(s)
  <2>1. E = D
    BY <1>9 DEF Quiet, Live, D, E
  <2> QED
    BY <1>4, <1>5, <1>6, <1>9, <2>1 DEF Quiet
<1>10. ASSUME NEW gone, NEW V, RetireOf(s, gone, V)
       PROVE  active' = Q + M /\ active' <= MaxFlows
  <2>1. E = D \ gone
    BY <1>10, RetiredTable DEF D, E
  <2>2. gone \subseteq D /\ active' = active - Cardinality(gone)
        /\ pc[s].at # "place" /\ pc'[s].at # "place"
    <3>1. gone \subseteq D /\ active' = active - Cardinality(gone) /\ pc[s].at \in {"recv", "timers"}
      BY <1>10, Zenon DEF RetireOf, D
    <3>2. \/ pc'[s] \in [at : {"recv", "stopped"}]
          \/ \E p \in Packets(s) : pc'[s] = [at |-> "admit", pkt |-> p]
      BY <1>10, Zenon DEF RetireOf
    <3>3. pc'[s].at # "place"
      <4>1. CASE pc'[s] \in [at : {"recv", "stopped"}]
        BY <4>1
      <4>2. ASSUME NEW p \in Packets(s), pc'[s] = [at |-> "admit", pkt |-> p]
            PROVE  pc'[s].at # "place"
        BY <4>2
      <4> QED
        BY <3>2, <4>1, <4>2
    <3> QED
      BY <3>1, <3>3
  <2>3. Cardinality(E) = Cardinality(D) - Cardinality(gone) /\ Cardinality(gone) \in Nat
    BY <1>7, <2>1, <2>2, CardinalityMinus
  <2> QED
    BY <1>4, <1>5, <1>6, <2>2, <2>3
<1>11. ASSUME NEW p \in Packets(s), NEW g \in FlowRecords, NEW fed, NEW gone, NEW c, NEW V,
              ServeOf(s, p, g, fed, gone, c, V)
       PROVE  /\ E = (D \cup {p.key}) \ gone /\ gone \subseteq {p.key}
              /\ active' = active - Cardinality(gone) /\ pc'[s].at # "place"
              /\ Cardinality(gone) \in Nat
              /\ Cardinality(E) = Cardinality(D \cup {p.key}) - Cardinality(gone)
  <2>1. E = (D \cup {p.key}) \ gone
    BY <1>11, ServedTable DEF D, E
  <2>2. gone \subseteq {p.key} /\ active' = active - Cardinality(gone) /\ pc'[s].at = "timers"
    BY <1>11 DEF ServeOf
  <2>3. IsFiniteSet(D \cup {p.key}) /\ gone \subseteq D \cup {p.key}
    BY <1>7, <2>2, FS_AddElement
  <2>4. Cardinality(gone) \in Nat /\ Cardinality((D \cup {p.key}) \ gone)
                                        = Cardinality(D \cup {p.key}) - Cardinality(gone)
    BY <2>3, CardinalityMinus
  <2> QED
    BY <2>1, <2>2, <2>4
<1>12. ASSUME NEW p \in Packets(s), NEW g \in FlowRecords, NEW fed, NEW gone, NEW V,
              ServeLive(s, p, g, fed, gone, V)
       PROVE  active' = Q + M /\ active' <= MaxFlows
  <2>1. /\ p.key \in D /\ pc[s].at # "place" /\ ServeOf(s, p, g, fed, gone, counts[s], V)
    BY <1>12 DEF ServeLive, D
  <2>2. D \cup {p.key} = D
    BY <2>1
  <2>3. /\ active' = active - Cardinality(gone) /\ pc'[s].at # "place"
        /\ Cardinality(gone) \in Nat /\ Cardinality(E) = Cardinality(D) - Cardinality(gone)
    BY <1>11, <2>1, <2>2
  <2> QED
    BY <1>4, <1>5, <1>6, <2>1, <2>3
<1>13. ASSUME NEW p \in Packets(s), NEW g \in FlowRecords, NEW fed, NEW gone, NEW V,
              ServeNew(s, p, g, fed, gone, V)
       PROVE  active' = Q + M /\ active' <= MaxFlows
  <2> DEFINE c == Put(counts[s], g.prefix, CountOf(s, g.prefix) + 1)
  <2>1. /\ p.key \notin D /\ pc[s].at = "place" /\ ServeOf(s, p, g, fed, gone, c, V)
    BY <1>13, Zenon DEF ServeNew, D
  <2> HIDE DEF c
  <2>2. Cardinality(D \cup {p.key}) = Cardinality(D) + 1
    BY <1>7, <2>1, FS_AddElement
  <2>3. /\ active' = active - Cardinality(gone) /\ pc'[s].at # "place"
        /\ Cardinality(gone) \in Nat
        /\ Cardinality(E) = Cardinality(D \cup {p.key}) - Cardinality(gone)
    BY <1>11, <2>1
  <2> QED
    BY <1>4, <1>5, <1>6, <2>1, <2>2, <2>3
<1> QED
  BY <1>1, <1>9, <1>10, <1>12, <1>13 DEF Retire, Serve, Open

(* Time changes neither the flows nor the reservations.                    *)
LEMMA BudgetTick ==
    ASSUME Shapes, Budget, Tick
    PROVE  Budget' /\ LiveIds' = LiveIds
<1>1. \A s \in Shards : /\ DOMAIN flows'[s] = DOMAIN flows[s]
                        /\ \A k \in DOMAIN flows[s] : flows'[s][k].id = flows[s][k].id
  BY TickedTable DEF Live
<1>2. \A s \in Shards : IdsOf(flows'[s], DOMAIN flows'[s]) = IdsOf(flows[s], DOMAIN flows[s])
  BY <1>1 DEF IdsOf
<1>3. LiveIds' = LiveIds
  BY <1>2, LiveIdsUnion DEF AllIds
<1>4. Placing' = Placing /\ active' = active
  BY DEF Tick, Placing, At
<1> QED
  BY <1>3, <1>4 DEF Budget

(* A flow the L7 stage knows of has been made visible, so its end will be  *)
(* reported (the snapshot in shard_loop, close_flow).                      *)
LEMMA VisibleShard ==
    ASSUME Shapes, OpenIsVisible, NEW s \in Shards, ShardStep(s)
    PROVE  OpenIsVisible'
<1>1. Frame(s) /\ (Quiet(s) \/ Retire(s) \/ Serve(s) \/ Open(s))
  BY StepKind
<1>2. \A i \in l7' : i \in l7 \/ (i \in FlowIds /\ ShardOf[i[1]] = s)
  BY <1>1, OpenedBelongs
<1>3. ASSUME NEW x \in Shards, x # s, NEW k \in DOMAIN flows'[x], flows'[x][k].id \in l7'
      PROVE  flows'[x][k].visible
  <2>1. flows'[x] = flows[x] /\ k \in Live(x)
    BY <1>1, <1>3 DEF Frame, Live
  <2>2. ShardOf[flows[x][k].id[1]] = x
    BY <2>1 DEF Shapes, ShardShape, IsTable, Live
  <2>3. flows[x][k].id \in l7
    BY <1>2, <1>3, <2>1, <2>2
  <2> QED
    BY <2>1, <2>3 DEF OpenIsVisible
<1>4. CASE Quiet(s)
  BY <1>3, <1>4 DEF Quiet, OpenIsVisible, Live
<1>5. ASSUME NEW gone, NEW V, RetireOf(s, gone, V), NEW k \in DOMAIN flows'[s], flows'[s][k].id \in l7'
      PROVE  flows'[s][k].visible
  <2>1. k \in Live(s) /\ flows'[s][k] = flows[s][k]
    BY <1>5, RetiredTable
  <2>2. l7' \subseteq l7
    BY <1>5 DEF RetireOf
  <2> QED
    BY <1>5, <2>1, <2>2 DEF OpenIsVisible
<1>6. ASSUME NEW p \in Packets(s), NEW g \in FlowRecords, NEW fed, NEW gone, NEW c, NEW V,
             ServeOf(s, p, g, fed, gone, c, V), g.id \in l7 => g.visible,
             NEW k \in DOMAIN flows'[s], flows'[s][k].id \in l7'
      PROVE  flows'[s][k].visible
  <2>1. k \in Live(s) \cup {p.key} /\ flows'[s][k] = IF k = p.key THEN g ELSE flows[s][k]
    BY <1>6, ServedTable
  <2>2. /\ l7' \subseteq l7 \cup fed /\ fed \subseteq {g.id} /\ (fed # {} => g.visible)
        /\ g.id[1] = p.key
    BY <1>6, Zenon DEF ServeOf
  <2>3. CASE k = p.key
    BY <1>6, <2>1, <2>2, <2>3
  <2>4. CASE k # p.key
    <3>1. k \in Live(s) /\ flows[s][k].id[1] = k
      BY <2>1, <2>4 DEF Shapes, ShardShape, IsTable, Live
    <3> QED
      BY <1>6, <2>1, <2>2, <2>4, <3>1 DEF OpenIsVisible
  <2> QED
    BY <2>3, <2>4
<1>7. ASSUME NEW p \in Packets(s), NEW g \in FlowRecords, NEW fed, NEW gone, NEW V,
             ServeLive(s, p, g, fed, gone, V),
             NEW k \in DOMAIN flows'[s], flows'[s][k].id \in l7'
      PROVE  flows'[s][k].visible
  <2>1. /\ p.key \in Live(s) /\ g.id = flows[s][p.key].id
        /\ (flows[s][p.key].visible => g.visible) /\ ServeOf(s, p, g, fed, gone, counts[s], V)
    BY <1>7, Zenon DEF ServeLive
  <2>2. g.id \in l7 => g.visible
    BY <2>1 DEF OpenIsVisible
  <2> QED
    BY <1>6, <1>7, <2>1, <2>2
<1>8. ASSUME NEW p \in Packets(s), NEW g \in FlowRecords, NEW fed, NEW gone, NEW V,
             ServeNew(s, p, g, fed, gone, V),
             NEW k \in DOMAIN flows'[s], flows'[s][k].id \in l7'
      PROVE  flows'[s][k].visible
  <2> DEFINE c == Put(counts[s], g.prefix, CountOf(s, g.prefix) + 1)
  <2>1. g.id[2] \in FreeGens(s, p.key) /\ ServeOf(s, p, g, fed, gone, c, V)
    BY <1>8, Zenon DEF ServeNew
  <2> HIDE DEF c
  <2>2. g.id = <<p.key, g.id[2]>>
    BY <2>1 DEF ServeOf, FlowRecords, FlowIds
  <2>3. g.id \notin l7
    BY <2>1, <2>2 DEF FreeGens
  <2> QED
    BY <1>6, <1>8, <2>1, <2>3
<1> QED
  BY <1>1, <1>3, <1>4, <1>5, <1>7, <1>8 DEF Retire, Serve, Open, OpenIsVisible, Live

(* Time does not touch what the L7 stage knows of.                         *)
LEMMA VisibleTick ==
    ASSUME Shapes, OpenIsVisible, Tick
    PROVE  OpenIsVisible'
<1>1. l7' = l7
  BY DEF Tick
<1> QED
  BY <1>1, TickedTable DEF OpenIsVisible, Live

-----------------------------------------------------------------------------
(* The invariant holds.                                                    *)

(* An empty table has nothing to keep consistent.                          *)
LEMMA FlowInit == Init => FlowInv
<1> SUFFICES ASSUME Init PROVE FlowInv
  OBVIOUS
<1>1. /\ DOMAIN flows = Shards /\ DOMAIN timers = Shards /\ DOMAIN tombs = Shards
      /\ DOMAIN counts = Shards /\ DOMAIN pc = Shards /\ active = 0 /\ l7 = {}
      /\ \A s \in Shards : /\ DOMAIN flows[s] = {} /\ timers[s] = {}
                           /\ DOMAIN counts[s] = {} /\ pc[s] = [at |-> "recv"]
                           /\ tombs[s] = NoTombs
  BY DEF Init
<1>2. ASSUME NEW s \in Shards PROVE ShardShape(s)
  BY <1>1, FS_EmptySet DEF ShardShape, IsTable, PcStates, Live
<1>3. ASSUME NEW s \in Shards PROVE TimersSound(timers[s], flows[s])
  BY <1>1 DEF TimersSound
<1>4. ASSUME NEW s \in Shards PROVE CountsMatch(counts[s], flows[s])
  BY <1>1 DEF CountsMatch, OfPrefix
<1>5. ASSUME NEW s \in Shards PROVE TombsSound(tombs[s])
  <2>1. tombs[s] = [by_key |-> <<>>, order |-> <<>>]
    BY <1>1 DEF NoTombs
  <2>2. /\ DOMAIN tombs[s] = {"by_key", "order"} /\ DOMAIN tombs[s].by_key = {}
        /\ tombs[s].order \in Seq([left : Nat, key : Keys])
    BY <2>1
  <2> QED
    BY <2>2, FS_EmptySet, ConstantFacts DEF TombsSound, TombsIndexed
<1>6. Budget
  <2>1. LiveIds = {} /\ Placing = {}
    BY <1>1 DEF LiveIds, Live, Placing, At
  <2> QED
    BY <1>1, <2>1, FS_EmptySet, ConstantFacts DEF Budget
<1>7. OpenIsVisible
  BY <1>1 DEF OpenIsVisible
<1>8. Shapes
  BY <1>1, <1>2 DEF Shapes
<1> QED
  BY <1>3, <1>4, <1>5, <1>6, <1>7, <1>8 DEF FlowInv

(* Every step of every shard, and of time, keeps the invariant.            *)
LEMMA FlowStep == FlowInv /\ [Next]_vars => FlowInv'
<1> SUFFICES ASSUME FlowInv, [Next]_vars PROVE FlowInv'
  OBVIOUS
<1>1. /\ Shapes /\ Budget /\ OpenIsVisible
      /\ \A s \in Shards : TimersSound(timers[s], flows[s])
      /\ \A s \in Shards : CountsMatch(counts[s], flows[s])
      /\ \A s \in Shards : TombsSound(tombs[s])
  BY DEF FlowInv
<1>2. ASSUME NEW s \in Shards, ShardStep(s) PROVE FlowInv'
  <2>1. Shapes' /\ Budget' /\ OpenIsVisible'
    BY <1>1, <1>2, ShapesShard, BudgetShard, VisibleShard
  <2>2. /\ \A x \in Shards : TimersSound(timers'[x], flows'[x])
        /\ \A x \in Shards : CountsMatch(counts'[x], flows'[x])
        /\ \A x \in Shards : TombsSound(tombs'[x])
    BY <1>1, <1>2, TimersShard, CountsShard, TombsShard
  <2> QED
    BY <2>1, <2>2 DEF FlowInv
<1>3. CASE Tick
  <2>1. Shapes' /\ Budget' /\ OpenIsVisible'
    BY <1>1, <1>3, ShapesTick, BudgetTick, VisibleTick
  <2>2. /\ \A x \in Shards : TimersSound(timers'[x], flows'[x])
        /\ \A x \in Shards : CountsMatch(counts'[x], flows'[x])
        /\ \A x \in Shards : TombsSound(tombs'[x])
    BY <1>1, <1>3, TimersTick, CountsTick, TombsTick
  <2> QED
    BY <2>1, <2>2 DEF FlowInv
<1>4. CASE UNCHANGED vars
  <2>1. /\ flows' = flows /\ timers' = timers /\ tombs' = tombs /\ counts' = counts
        /\ active' = active /\ pc' = pc /\ l7' = l7
    BY <1>4 DEF vars
  <2>2. LiveIds' = LiveIds /\ Placing' = Placing
    BY <2>1 DEF LiveIds, Live, Placing, At
  <2>3. Budget' /\ OpenIsVisible'
    BY <1>1, <2>1, <2>2 DEF Budget, OpenIsVisible, Live
  <2>4. ASSUME NEW s \in Shards PROVE ShardShape(s)'
    <3>1. ShardShape(s)
      BY <1>1 DEF Shapes
    <3> QED
      BY <2>1, <3>1 DEF ShardShape, PcStates, FreeGens, Live
  <2>5. Shapes'
    BY <1>1, <2>1, <2>4 DEF Shapes
  <2> QED
    BY <1>1, <2>1, <2>3, <2>5 DEF FlowInv
<1> QED
  BY <1>2, <1>3, <1>4 DEF Next

(* The tables of the shards keep their form and agree with one another and *)
(* with the shared budget, however the steps of the shards interleave.     *)
THEOREM FlowInvariant == Spec => []FlowInv
<1>1. Init => FlowInv
  BY FlowInit
<1>2. FlowInv /\ [Next]_vars => FlowInv'
  BY FlowStep
<1> QED
  BY <1>1, <1>2, PTL DEF Spec

(* The flow of a live id is the one of its key.                            *)
LEMMA FlowInvType == FlowInv => TypeOK
<1> SUFFICES ASSUME FlowInv PROVE TypeOK
  OBVIOUS
<1>1. /\ Shapes /\ Budget
      /\ \A s \in Shards : TimersSound(timers[s], flows[s])
      /\ \A s \in Shards : CountsMatch(counts[s], flows[s])
  BY DEF FlowInv
<1>2. ASSUME NEW s \in Shards
      PROVE  /\ Live(s) \subseteq {k \in Keys : ShardOf[k] = s}
             /\ \A k \in Live(s) : flows[s][k] \in FlowRecords /\ flows[s][k].id[1] = k
  BY <1>1 DEF Shapes, ShardShape, IsTable, Live
<1>3. ASSUME NEW s \in Shards, NEW t \in timers[s]
      PROVE  t.id[1] = t.key /\ t.left \in 0 .. Timeout(t.key)
  <2>1. t \in TimerRecords /\ t.id[1] = t.key /\ t.left <= Timeout(t.key)
    BY <1>1 DEF TimersSound
  <2>2. t.left \in Nat /\ Timeout(t.key) \in Nat
    BY <2>1, ConstantFacts DEF TimerRecords
  <2> QED
    BY <2>1, <2>2
<1>4. ASSUME NEW s \in Shards
      PROVE  DOMAIN counts[s] \subseteq SourcePrefixes
  BY <1>1 DEF CountsMatch
<1>5. ASSUME NEW s \in Shards
      PROVE  /\ pc[s].at \in PcAt /\ ("pkt" \in DOMAIN pc[s] => pc[s].pkt \in Packets(s))
             /\ pc[s].at \in {"admit", "place"} => pc[s].pkt.key \notin Live(s)
  <2>1. /\ pc[s] \in PcStates(s)
        /\ pc[s].at \in {"admit", "place"} => pc[s].pkt.key \notin Live(s)
    BY <1>1, Zenon DEF Shapes, ShardShape
  <2>2. CASE pc[s] \in [at : {"recv", "timers", "stopped"}]
    <3>1. DOMAIN pc[s] = {"at"} /\ pc[s].at \in {"recv", "timers", "stopped"}
      BY <2>2
    <3> QED
      BY <2>1, <3>1 DEF PcAt
  <2>3. CASE pc[s] \in [at : {"admit", "place"}, pkt : Packets(s)]
    <3>1. pc[s].at \in {"admit", "place"} /\ pc[s].pkt \in Packets(s)
      BY <2>3
    <3> QED
      BY <2>1, <3>1 DEF PcAt
  <2> QED
    BY <2>1, <2>2, <2>3 DEF PcStates
<1>6. active \in 0 .. MaxFlows /\ l7 \subseteq FlowIds
  <2>1. Cardinality(Placing) \in Nat /\ Cardinality(LiveIds) \in Nat
    BY <1>1, FS_CardinalityType DEF Budget
  <2> QED
    BY <1>1, <2>1, ConstantFacts DEF Budget, Shapes
<1> QED
  BY <1>2, <1>3, <1>4, <1>5, <1>6 DEF TypeOK

(* A prefix without flows has no count, one with flows their number.       *)
LEMMA FlowInvCounts == FlowInv => PrefixCountsExact
<1> SUFFICES ASSUME FlowInv, NEW s \in Shards, NEW x \in SourcePrefixes
             PROVE  LET n == Cardinality({k \in Live(s) : flows[s][k].prefix = x})
                    IN  /\ n <= MaxPerPrefix
                        /\ CountOf(s, x) = n
                        /\ x \in DOMAIN counts[s] <=> n > 0
  BY DEF PrefixCountsExact
<1> DEFINE S == {k \in Live(s) : flows[s][k].prefix = x}
<1>1. S = OfPrefix(flows[s], x)
  BY DEF OfPrefix, Live
<1>2. IsFiniteSet(S)
  <2>1. IsFiniteSet(Live(s)) /\ S \in SUBSET Live(s)
    BY DEF FlowInv, Shapes, ShardShape, IsTable, Live
  <2> QED
    BY <2>1, FS_Subset
<1>3. CountsMatch(counts[s], flows[s])
  BY DEF FlowInv
<1> HIDE DEF S
<1>4. Cardinality(S) \in Nat /\ (Cardinality(S) = 0 <=> S = {})
  BY <1>2, FS_CardinalityType, FS_EmptySet
<1>5. x \in DOMAIN counts[s] <=> S # {}
  BY <1>1, <1>3 DEF CountsMatch
<1>6. x \in DOMAIN counts[s] => counts[s][x] = Cardinality(S) /\ counts[s][x] <= MaxPerPrefix
  BY <1>1, <1>3 DEF CountsMatch
<1>7. /\ Cardinality(S) <= MaxPerPrefix /\ CountOf(s, x) = Cardinality(S)
      /\ x \in DOMAIN counts[s] <=> Cardinality(S) > 0
  BY <1>4, <1>5, <1>6, ConstantFacts DEF CountOf
<1> QED
  BY <1>7 DEF S

(* The tables of the shards agree with one another and with the counter    *)
(* they share (try_admit_flow, close_flow, source_counts): no slot of the  *)
(* budget is lost or given back twice, and no prefix is over its quota.    *)
THEOREM FlowTablesConsistent == Spec => []TablesConsistent
<1>1. FlowInv => BudgetExact
  BY DEF FlowInv, Budget, BudgetExact, Reserved, Placing
<1>2. FlowInv => TablesConsistent
  BY <1>1, FlowInvType, FlowInvCounts DEF TablesConsistent
<1> QED
  BY <1>2, FlowInvariant, PTL

(* A live flow has exactly one timer, not due after its idle time ends, so *)
(* that no flow is forgotten (the lazy timers of shard_loop, their         *)
(* rescheduling and their compaction).                                     *)
THEOREM FlowTimers == Spec => []OneTimerPerFlow
<1>1. ASSUME FlowInv, NEW s \in Shards, NEW k \in Live(s)
      PROVE  LET mine == {t \in timers[s] : t.id = flows[s][k].id}
             IN  /\ Cardinality(mine) = 1
                 /\ \A t \in mine : t.left <= Timeout(k) - flows[s][k].idle
  <2>1. TimersSound(timers[s], flows[s])
    BY <1>1 DEF FlowInv
  <2>2. PICK t \in timers[s] : t.id = flows[s][k].id /\ t.left <= Timeout(k) - flows[s][k].idle
    BY <2>1 DEF TimersSound, Live
  <2>3. {u \in timers[s] : u.id = flows[s][k].id} = {t}
    BY <2>1, <2>2 DEF TimersSound
  <2> QED
    BY <2>2, <2>3, FS_Singleton
<1>2. FlowInv => OneTimerPerFlow
  BY <1>1 DEF OneTimerPerFlow
<1> QED
  BY <1>2, FlowInvariant, PTL

(* A tombstone can always be found by the queue that expires it, and there *)
(* are at most TCP_TOMBSTONE_MAX (TcpTombstones).                          *)
THEOREM FlowTombstones == Spec => []TombstonesExpire
<1>1. FlowInv => TombstonesExpire
  BY DEF FlowInv, TombsSound, TombsIndexed, TombstonesExpire, EntryOf
<1> QED
  BY <1>1, FlowInvariant, PTL

-----------------------------------------------------------------------------
(* The shards implement the contract.                                      *)

(* The live ids before and after a step: those of the other shards, which  *)
(* stay, and those of the shard.                                           *)
LEMMA LiveIdsSplit ==
    ASSUME FlowInv, NEW s \in Shards, ShardStep(s)
    PROVE  \E O \in SUBSET FlowIds :
             /\ LiveIds = O \cup IdsOf(flows[s], Live(s))
             /\ LiveIds' = O \cup IdsOf(flows'[s], DOMAIN flows'[s])
             /\ \A i \in O : ShardOf[i[1]] # s
<1> DEFINE O == UNION {IdsOf(flows[x], DOMAIN flows[x]) : x \in Shards \ {s}}
<1>1. Shapes /\ Frame(s)
  BY StepKind DEF FlowInv
<1>2. \A x \in Shards : IsTable(flows[x], x)
  BY <1>1 DEF Shapes, ShardShape
<1>3. \A x \in Shards \ {s} : flows'[x] = flows[x]
  BY <1>1 DEF Frame
<1>4. /\ LiveIds = O \cup IdsOf(flows[s], Live(s))
      /\ LiveIds' = O \cup IdsOf(flows'[s], DOMAIN flows'[s])
  BY <1>3, LiveIdsUnion DEF AllIds, Live
<1>5. ASSUME NEW x \in Shards \ {s}, NEW i \in IdsOf(flows[x], DOMAIN flows[x])
      PROVE  ShardOf[i[1]] # s /\ i \in FlowIds
  <2>1. ShardOf[i[1]] = x
    BY <1>2, IdsOfTable
  <2>2. i \in FlowIds
    BY <1>2 DEF IdsOf, IsTable, FlowRecords
  <2> QED
    BY <2>1, <2>2
<1>6. O \in SUBSET FlowIds /\ \A i \in O : ShardOf[i[1]] # s
  BY <1>5
<1> QED
  BY <1>4, <1>6

(* Flows that end leave the live ids and the L7 stage together.            *)
LEMMA RetireRefines ==
    ASSUME FlowInv, NEW s \in Shards, ShardStep(s), NEW gone, NEW V, RetireOf(s, gone, V)
    PROVE  \E S \in SUBSET LiveIds : LiveIds' = LiveIds \ S /\ l7' = l7 \ S
<1> DEFINE S == IdsOf(flows[s], gone)
<1>1. PICK O \in SUBSET FlowIds :
             /\ LiveIds = O \cup IdsOf(flows[s], Live(s))
             /\ LiveIds' = O \cup IdsOf(flows'[s], DOMAIN flows'[s])
             /\ \A i \in O : ShardOf[i[1]] # s
  BY LiveIdsSplit
<1>2. Shapes /\ OpenIsVisible
  BY DEF FlowInv
<1>3. /\ DOMAIN flows'[s] = Live(s) \ gone
      /\ \A k \in DOMAIN flows'[s] : flows'[s][k] = flows[s][k]
  BY <1>2, RetiredTable
<1>4. /\ V \subseteq gone /\ gone \subseteq Live(s) /\ l7' = l7 \ IdsOf(flows[s], V)
      /\ \A k \in gone : flows[s][k].visible => k \in V
  BY Zenon DEF RetireOf
<1>5. \A k \in Live(s) : flows[s][k].id[1] = k /\ ShardOf[k] = s
  BY <1>2 DEF Shapes, ShardShape, IsTable, Live
<1>6. S \subseteq LiveIds
  BY <1>1, <1>4 DEF IdsOf
<1>7. LiveIds' = LiveIds \ S
  <2>1. IdsOf(flows'[s], DOMAIN flows'[s]) = IdsOf(flows[s], Live(s)) \ S
    BY <1>3, <1>4, <1>5 DEF IdsOf
  <2>2. O \cap S = {}
    BY <1>1, <1>4, <1>5 DEF IdsOf
  <2> QED
    BY <1>1, <2>1, <2>2
<1>8. l7' = l7 \ S
  <2>1. ASSUME NEW i \in l7, i \in S PROVE i \in IdsOf(flows[s], V)
    <3>1. PICK k \in gone : i = flows[s][k].id
      BY <2>1 DEF IdsOf
    <3>2. k \in V
      BY <1>2, <1>4, <2>1, <3>1 DEF OpenIsVisible
    <3> QED
      BY <3>1, <3>2 DEF IdsOf
  <2>2. IdsOf(flows[s], V) \subseteq S
    BY <1>4 DEF IdsOf
  <2> QED
    BY <1>4, <2>1, <2>2
<1> QED
  BY <1>6, <1>7, <1>8

(* What a packet does to the live ids and to the L7 stage.                 *)
LEMMA ServeEffect ==
    ASSUME FlowInv, NEW s \in Shards, ShardStep(s), NEW p \in Packets(s), NEW g \in FlowRecords,
           NEW fed, NEW gone, NEW c, NEW V, ServeOf(s, p, g, fed, gone, c, V),
           p.key \in Live(s) => g.id = flows[s][p.key].id,
           g.id \in l7 => g.visible
    PROVE  /\ fed \subseteq {g.id}
           /\ p.key \in Live(s) <=> g.id \in LiveIds
           /\ gone = {} => LiveIds' = LiveIds \cup {g.id} /\ l7' = l7 \cup fed
           /\ gone # {} => LiveIds' = LiveIds \ {g.id} /\ l7' = l7 \ {g.id}
<1>1. PICK O \in SUBSET FlowIds :
             /\ LiveIds = O \cup IdsOf(flows[s], Live(s))
             /\ LiveIds' = O \cup IdsOf(flows'[s], DOMAIN flows'[s])
             /\ \A i \in O : ShardOf[i[1]] # s
  BY LiveIdsSplit
<1>2. Shapes
  BY DEF FlowInv
<1>3. /\ DOMAIN flows'[s] = (Live(s) \cup {p.key}) \ gone
      /\ \A k \in DOMAIN flows'[s] : flows'[s][k] = IF k = p.key THEN g ELSE flows[s][k]
  BY <1>2, ServedTable
<1> DEFINE fs == Put(flows[s], p.key, g)
<1>4. /\ fed \subseteq {g.id} /\ (fed # {} => g.visible) /\ gone \subseteq {p.key}
      /\ V \subseteq gone /\ (\A k \in gone : fs[k].visible => k \in V)
      /\ l7' = (l7 \cup fed) \ IdsOf(fs, V) /\ g.id[1] = p.key /\ ShardOf[p.key] = s
  BY Zenon DEF ServeOf
<1>5. fs[p.key] = g
  BY DEF Put
<1> HIDE DEF fs
<1>6. \A k \in Live(s) : flows[s][k].id[1] = k /\ ShardOf[k] = s
  BY <1>2 DEF Shapes, ShardShape, IsTable, Live
<1>7. p.key \in Live(s) <=> g.id \in IdsOf(flows[s], Live(s))
  BY <1>4, <1>6 DEF IdsOf
<1>8. g.id \notin O
  BY <1>1, <1>4
<1>9. CASE gone = {}
  <2>1. IdsOf(flows'[s], DOMAIN flows'[s]) = IdsOf(flows[s], Live(s)) \cup {g.id}
    BY <1>3, <1>6, <1>9 DEF IdsOf
  <2>2. IdsOf(fs, V) = {}
    BY <1>4, <1>9 DEF IdsOf
  <2> QED
    BY <1>1, <1>4, <1>7, <1>8, <1>9, <2>1, <2>2
<1>10. CASE gone # {}
  <2>1. gone = {p.key}
    BY <1>4, <1>10
  <2>2. IdsOf(flows'[s], DOMAIN flows'[s]) = IdsOf(flows[s], Live(s)) \ {g.id}
    <3>1. ASSUME NEW k \in DOMAIN flows'[s]
          PROVE  k \in Live(s) /\ flows'[s][k].id = flows[s][k].id /\ flows[s][k].id # g.id
      BY <1>3, <1>4, <1>6, <2>1
    <3>2. ASSUME NEW k \in Live(s), flows[s][k].id # g.id
          PROVE  k \in DOMAIN flows'[s] /\ flows'[s][k].id = flows[s][k].id
      BY <1>3, <2>1, <3>2
    <3> QED
      BY <3>1, <3>2 DEF IdsOf
  <2>3. l7' = l7 \ {g.id}
    <3>1. CASE V = {p.key}
      <4>1. IdsOf(fs, V) = {g.id}
        BY <1>5, <3>1 DEF IdsOf
      <4> QED
        BY <1>4, <4>1
    <3>2. CASE V = {}
      <4>1. ~g.visible
        BY <1>4, <1>5, <2>1, <3>2
      <4>2. IdsOf(fs, V) = {}
        BY <3>2 DEF IdsOf
      <4> QED
        BY <1>4, <4>1, <4>2
    <3> QED
      BY <1>4, <2>1, <3>1, <3>2
  <2> QED
    BY <1>1, <1>4, <1>7, <1>8, <1>10, <2>2, <2>3
<1> QED
  BY <1>9, <1>10

(* Every step of a shard is a step of the contract or leaves what the      *)
(* contract speaks of alone.                                               *)
LEMMA ShardRefines ==
    ASSUME FlowInv, NEW s \in Shards, ShardStep(s)
    PROVE  Contract!ContractNext \/ (LiveIds' = LiveIds /\ l7' = l7)
<1>1. Shapes /\ Budget /\ OpenIsVisible
  BY DEF FlowInv
<1>2. Frame(s) /\ (Quiet(s) \/ Retire(s) \/ Serve(s) \/ Open(s))
  BY <1>1, StepKind
<1>3. CASE Quiet(s)
  <2>1. flows'[s] = flows[s] /\ l7' = l7
    BY <1>3 DEF Quiet
  <2>2. LiveIds' = LiveIds
    BY <2>1, LiveIdsSplit DEF Live
  <2> QED
    BY <2>1, <2>2
<1>4. ASSUME NEW gone, NEW V, RetireOf(s, gone, V) PROVE Contract!ContractNext
  BY <1>4, RetireRefines DEF Contract!ContractNext, Contract!Retire
<1>5. ASSUME NEW p \in Packets(s), NEW g \in FlowRecords, NEW fed, NEW gone, NEW V,
             ServeLive(s, p, g, fed, gone, V)
      PROVE  Contract!ContractNext \/ (LiveIds' = LiveIds /\ l7' = l7)
  <2>1. /\ p.key \in Live(s) /\ g.id = flows[s][p.key].id
        /\ (flows[s][p.key].visible => g.visible) /\ ServeOf(s, p, g, fed, gone, counts[s], V)
    BY <1>5, Zenon DEF ServeLive
  <2>2. g.id \in l7 => g.visible
    BY <1>1, <2>1 DEF OpenIsVisible
  <2>3. /\ fed \subseteq {g.id} /\ g.id \in LiveIds
        /\ gone = {} => LiveIds' = LiveIds \cup {g.id} /\ l7' = l7 \cup fed
        /\ gone # {} => LiveIds' = LiveIds \ {g.id} /\ l7' = l7 \ {g.id}
    BY <2>1, <2>2, ServeEffect
  <2>4. g.id \in FlowIds
    BY DEF FlowRecords
  <2>5. CASE gone = {} /\ fed = {}
    BY <2>3, <2>5
  <2>6. CASE gone = {} /\ fed # {}
    <3>1. LiveIds' = LiveIds /\ l7' = l7 \cup {g.id}
      BY <2>3, <2>6
    <3> QED
      BY <2>3, <2>4, <3>1 DEF Contract!ContractNext, Contract!Deliver
  <2>7. CASE gone # {}
    <3>1. {g.id} \in SUBSET LiveIds /\ LiveIds' = LiveIds \ {g.id} /\ l7' = l7 \ {g.id}
      BY <2>3, <2>7
    <3> QED
      BY <3>1 DEF Contract!ContractNext, Contract!Retire
  <2> QED
    BY <2>5, <2>6, <2>7
<1>6. ASSUME NEW p \in Packets(s), NEW g \in FlowRecords, NEW fed, NEW gone, NEW V,
             ServeNew(s, p, g, fed, gone, V)
      PROVE  Contract!ContractNext \/ (LiveIds' = LiveIds /\ l7' = l7)
  <2> DEFINE c == Put(counts[s], g.prefix, CountOf(s, g.prefix) + 1)
  <2>1. /\ p.key \notin Live(s) /\ pc[s].at = "place" /\ g.id[2] \in FreeGens(s, p.key)
        /\ ServeOf(s, p, g, fed, gone, c, V)
    BY <1>6, Zenon DEF ServeNew
  <2> HIDE DEF c
  <2>2. g.id = <<p.key, g.id[2]>> /\ g.id \in FlowIds
    BY <2>1 DEF ServeOf, FlowRecords, FlowIds
  <2>3. g.id \notin l7
    BY <2>1, <2>2 DEF FreeGens
  <2>4. /\ fed \subseteq {g.id} /\ g.id \notin LiveIds
        /\ gone = {} => LiveIds' = LiveIds \cup {g.id} /\ l7' = l7 \cup fed
        /\ gone # {} => LiveIds' = LiveIds \ {g.id} /\ l7' = l7 \ {g.id}
    BY <2>1, <2>3, ServeEffect
  <2>5. Cardinality(LiveIds) < MaxFlows
    <3>1. s \in Placing /\ IsFiniteSet(Placing) /\ IsFiniteSet(LiveIds)
          /\ active = Cardinality(Placing) + Cardinality(LiveIds) /\ active <= MaxFlows
      BY <1>1, <2>1 DEF Budget, Placing, At
    <3>2. Cardinality(Placing) \in Nat /\ Cardinality(Placing) # 0 /\ Cardinality(LiveIds) \in Nat
      BY <3>1, FS_CardinalityType, FS_EmptySet
    <3> QED
      BY <3>1, <3>2, ConstantFacts
  <2>6. CASE gone = {}
    <3>1. LiveIds' = LiveIds \cup {g.id} /\ l7' \in {l7, l7 \cup {g.id}}
      BY <2>4, <2>6
    <3>2. Contract!Admit(g.id)
      BY <2>4, <2>5, <3>1 DEF Contract!Admit, Contract!Cardinality, Cardinality
    <3>3. Contract!ContractNext
      BY <2>2, <3>2, Zenon DEF Contract!ContractNext
    <3> QED
      BY <3>3
  <2>7. CASE gone # {}
    BY <2>3, <2>4, <2>7
  <2> QED
    BY <2>6, <2>7
<1> QED
  BY <1>2, <1>3, <1>4, <1>5, <1>6 DEF Retire, Serve, Open

(* The shards together implement the contract of the flow table: no more   *)
(* than MaxFlows flows over all shards, bytes of live flows only, and an   *)
(* end that reaches the L7 stage with the flow's own.                      *)
THEOREM FlowTableImplementsContract == Spec => ImplementsContract
<1>1. Init => Contract!ContractInit
  BY DEF Init, Contract!ContractInit, LiveIds, Live
<1>2. FlowInv /\ [Next]_vars => [Contract!ContractNext]_(Contract!contractVars)
  <2> SUFFICES ASSUME FlowInv, [Next]_vars
               PROVE  Contract!ContractNext \/ (LiveIds' = LiveIds /\ l7' = l7)
    BY DEF Contract!contractVars
  <2>1. ASSUME NEW s \in Shards, ShardStep(s)
        PROVE  Contract!ContractNext \/ (LiveIds' = LiveIds /\ l7' = l7)
    BY <2>1, ShardRefines
  <2>2. CASE Tick
    <3>1. LiveIds' = LiveIds
      BY <2>2, BudgetTick DEF FlowInv
    <3> QED
      BY <2>2, <3>1 DEF Tick
  <2>3. CASE UNCHANGED vars
    BY <2>3 DEF vars, LiveIds, Live
  <2> QED
    BY <2>1, <2>2, <2>3 DEF Next
<1> QED
  BY <1>1, <1>2, FlowInvariant, PTL DEF Spec, ImplementsContract, Contract!ContractSpec
=============================================================================
