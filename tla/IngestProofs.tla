---------------------------- MODULE IngestProofs ----------------------------
(***************************************************************************)
(* The service registry, the filters of the capture workers, the flow keys *)
(* of the decoder, the source topology and the fragment cache are right    *)
(* for any ports, operators, workers, frames and limits.                   *)
(***************************************************************************)
EXTENDS Ingest, FiniteSetTheorems, TLAPS

-----------------------------------------------------------------------------
(* Facts about numbers, finite sets and sequences.                         *)

(* A non-empty set of natural numbers has a least element: induction is by *)
(* a least counterexample.                                                 *)
LEMMA LeastNatural ==
    ASSUME NEW S \in SUBSET Nat, S # {}
    PROVE  \E n \in S : \A m \in S : n <= m
<1> DEFINE R == OpToRel(<, Nat)
<1>1. IsWellFoundedOn(R, Nat)
  BY NatLessThanWellFounded
<1>2. \A m, n \in Nat : m < n => <<m, n>> \in R
  BY DEF OpToRel
<1> HIDE DEF R
<1>3. PICK n \in S : \A m \in S : ~(<<m, n>> \in R)
  BY <1>1, WFMin
<1>4. \A m \in S : ~(m < n)
  BY <1>2, <1>3
<1>5. \A m \in S : n <= m
  BY <1>4
<1> QED
  BY <1>5

(* Induction over a finite set: a family of subsets that has the empty one *)
(* and is closed under adding an element has the whole set.                *)
LEMMA FiniteSetInduction ==
    ASSUME NEW S, IsFiniteSet(S), NEW G, {} \in G,
           \A T \in SUBSET S : \A x \in S : T \in G => T \cup {x} \in G
    PROVE  S \in G
<1> DEFINE R == StrictSubsetOrdering(S)
           B == (SUBSET S) \ G
<1>1. IsWellFoundedOn(R, FiniteSubsetsOf(S))
  BY FS_StrictSubsetOrderingWellFounded
<1>2. \A T \in SUBSET S : IsFiniteSet(T)
  BY FS_Subset
<1>3. B \subseteq FiniteSubsetsOf(S)
  BY <1>2 DEF FiniteSubsetsOf
<1>4. \A T \in SUBSET S, U \in SUBSET S : T \subseteq U /\ T # U => <<T, U>> \in R
  BY DEF StrictSubsetOrdering
<1> HIDE DEF R
<1>5. SUFFICES ASSUME B # {} PROVE FALSE
  OBVIOUS
<1>6. PICK U \in B : \A T \in B : ~(<<T, U>> \in R)
  BY <1>1, <1>3, <1>5, WFMin
<1>7. PICK x \in U : TRUE
  OBVIOUS
<1>8. U \ {x} \in G
  BY <1>4, <1>6, <1>7
<1>9. U = (U \ {x}) \cup {x}
  BY <1>7
<1> QED
  BY <1>8, <1>9

(* The sizes of two disjoint finite sets add up.                           *)
LEMMA CardinalityPlus ==
    ASSUME NEW S, IsFiniteSet(S), NEW T, IsFiniteSet(T), S \cap T = {}
    PROVE  /\ IsFiniteSet(S \cup T)
           /\ Cardinality(S) \in Nat /\ Cardinality(T) \in Nat
           /\ Cardinality(S \cup T) = Cardinality(S) + Cardinality(T)
BY FS_Union, FS_EmptySet, FS_CardinalityType

(* A sequence, of whatever elements.                                       *)
IsSequence(q) == q \in Seq({q[i] : i \in DOMAIN q})

(* What is numbered from 1 is a sequence.                                  *)
LEMMA NumberedIsSequence ==
    ASSUME NEW n \in Nat, NEW q, q = [i \in 1 .. n |-> q[i]]
    PROVE  IsSequence(q) /\ Len(q) = n
<1> DEFINE T == {q[i] : i \in DOMAIN q}
<1>1. q \in [1 .. n -> T]
  OBVIOUS
<1> HIDE DEF T
<1>2. q \in Seq(T) /\ Len(q) = n
  BY <1>1
<1> QED
  BY <1>2 DEF IsSequence, T

(* A sequence is numbered from 1.                                          *)
LEMMA SequenceIsNumbered ==
    ASSUME NEW q, IsSequence(q)
    PROVE  Len(q) \in Nat /\ DOMAIN q = 1 .. Len(q) /\ q = [i \in 1 .. Len(q) |-> q[i]]
<1> DEFINE T == {q[i] : i \in DOMAIN q}
<1>1. q \in Seq(T)
  BY DEF IsSequence
<1> HIDE DEF T
<1> QED
  BY <1>1

(* No elements make a sequence.                                            *)
LEMMA EmptySequence == IsSequence(<<>>) /\ Len(<<>>) = 0 /\ DOMAIN <<>> = {}
BY DEF IsSequence

(* Putting a sequence behind another leaves the elements of both.          *)
LEMMA ConcatOfSequences ==
    ASSUME NEW q, IsSequence(q), NEW s, IsSequence(s)
    PROVE  /\ IsSequence(q \o s) /\ Len(q) \in Nat /\ Len(s) \in Nat /\ Len(q \o s) = Len(q) + Len(s)
           /\ DOMAIN q = 1 .. Len(q) /\ DOMAIN s = 1 .. Len(s)
           /\ DOMAIN (q \o s) = 1 .. Len(q) + Len(s)
           /\ \A i \in 1 .. Len(q) + Len(s) : (q \o s)[i] = IF i <= Len(q) THEN q[i] ELSE s[i - Len(q)]
<1> DEFINE T == {q[i] : i \in DOMAIN q} \cup {s[i] : i \in DOMAIN s}
           r == q \o s
<1>1. q \in Seq(T) /\ s \in Seq(T)
  BY DEF IsSequence
<1> HIDE DEF T
<1>2. /\ r \in Seq(T) /\ Len(q) \in Nat /\ Len(s) \in Nat /\ Len(r) = Len(q) + Len(s)
      /\ DOMAIN q = 1 .. Len(q) /\ DOMAIN s = 1 .. Len(s) /\ DOMAIN r = 1 .. Len(q) + Len(s)
      /\ \A i \in 1 .. Len(q) + Len(s) : r[i] = IF i <= Len(q) THEN q[i] ELSE s[i - Len(q)]
  BY <1>1
<1> HIDE DEF r
<1>3. r = [i \in 1 .. Len(q) + Len(s) |-> r[i]] /\ Len(q) + Len(s) \in Nat
  BY <1>2
<1>4. IsSequence(r)
  BY <1>2, <1>3, NumberedIsSequence
<1> QED
  BY <1>2, <1>4 DEF r

-----------------------------------------------------------------------------
(* The inductive invariant.                                                *)

Kinds == {"create", "update", "delete"}
OpStates ==
    [at : {"idle"}]
    \cup [at : {"db", "load"}, kind : Kinds, port : Ports]
    \cup [at : {"store", "bump"}, map : SUBSET Ports]

RegistryShape ==
    /\ database \subseteq Ports /\ services \subseteq Ports
    /\ generation \in Nat /\ overlapped \in BOOLEAN
    /\ op \in [Operators -> OpStates]

(* Where the registry and the database stand while o's request, the only   *)
(* one, is at work.                                                        *)
InFlight(o) ==
    /\ op[o].at \in {"db", "bump"} => services = database
    /\ op[o].at = "load" => database = Edited(op[o].kind, op[o].port, services)
    /\ op[o].at = "store" => op[o].map = database

OneAtATime ==
    /\ \A o, x \in Operators : ~OpIdle(o) /\ ~OpIdle(x) => o = x
    /\ \A o \in Operators : InFlight(o)
    /\ (\A o \in Operators : OpIdle(o)) => services = database

RegistryInv == RegistryShape /\ (~overlapped => OneAtATime)

(* Ports that were read under the generation gen are the current ones,     *)
(* unless it has been raised or is about to be.                            *)
Fresh(gen, ports) ==
    /\ gen \in Nat /\ gen <= generation
    /\ (gen = generation /\ \A o \in Operators : op[o].at # "bump") => ports = services

WorkerSound(w) ==
    /\ Fresh(filter[w].gen, filter[w].ports)
    /\ WAt(w, "ports") => worker[w].read \in Nat /\ worker[w].read <= generation
    /\ WAt(w, "install") => Fresh(worker[w].read, worker[w].ports)
    /\ WAt(w, "gate") => worker[w].frame \in Frames

WorkersInv ==
    /\ DOMAIN worker = Workers /\ DOMAIN filter = Workers
    /\ \A w \in Workers : WorkerSound(w)

IngestInv == RegistryInv /\ WorkersInv

-----------------------------------------------------------------------------
(* The registry.                                                           *)

(* The steps of one request, without what they leave alone.                *)
RegistryStep(o) ==
    \/ \E kind \in Kinds, port \in Ports : Request(o, kind, port)
    \/ Database(o) \/ Load(o) \/ Store(o) \/ Bump(o)

(* The steps of a request keep the form of the registry.                   *)
LEMMA RegistryShapeStep ==
    ASSUME RegistryShape, NEW o \in Operators, RegistryStep(o)
    PROVE  RegistryShape'
<1>1. op[o] \in OpStates
  BY DEF RegistryShape
<1>2. ASSUME NEW s \in OpStates, OpGoto(o, s) PROVE op' \in [Operators -> OpStates]
  BY <1>2 DEF OpGoto, RegistryShape
<1>3. [at |-> "idle"] \in OpStates
  BY DEF OpStates
<1>4. ASSUME NEW kind \in Kinds, NEW port \in Ports, Request(o, kind, port) PROVE RegistryShape'
  <2>1. [at |-> "db", kind |-> kind, port |-> port] \in OpStates
    BY DEF OpStates
  <2>2. op' \in [Operators -> OpStates]
    BY <1>2, <1>4, <2>1 DEF Request
  <2>3. overlapped' \in BOOLEAN
    BY <1>4, Zenon DEF Request
  <2> QED
    BY <1>4, <2>2, <2>3 DEF Request, RegistryShape
<1>5. CASE Database(o)
  <2>1. op[o].kind \in Kinds /\ op[o].port \in Ports /\ op[o] \in [at : {"db", "load"}, kind : Kinds, port : Ports]
    BY <1>1, <1>5 DEF Database, OpStates
  <2>2. [op[o] EXCEPT !.at = "load"] \in OpStates
    BY <2>1 DEF OpStates
  <2>3. op' \in [Operators -> OpStates]
    BY <1>2, <1>3, <1>5, <2>2 DEF Database
  <2> QED
    BY <1>5, <2>1, <2>3 DEF Database, RegistryShape
<1>6. CASE Load(o)
  <2>1. op[o].kind \in Kinds /\ op[o].port \in Ports
    BY <1>1, <1>6 DEF Load, OpStates
  <2>2. Edited(op[o].kind, op[o].port, services) \in SUBSET Ports
    BY <2>1 DEF Edited, RegistryShape
  <2>3. [at |-> "store", map |-> Edited(op[o].kind, op[o].port, services)] \in OpStates
    BY <2>2 DEF OpStates
  <2>4. op' \in [Operators -> OpStates]
    BY <1>2, <1>3, <1>6, <2>3 DEF Load
  <2> QED
    BY <1>6, <2>4 DEF Load, RegistryShape
<1>7. CASE Store(o)
  <2>1. op[o] \in [at : {"store", "bump"}, map : SUBSET Ports]
    BY <1>1, <1>7 DEF Store, OpStates
  <2>2. [op[o] EXCEPT !.at = "bump"] \in OpStates
    BY <2>1 DEF OpStates
  <2>3. op' \in [Operators -> OpStates]
    BY <1>2, <1>7, <2>2 DEF Store
  <2> QED
    BY <1>7, <2>1, <2>3 DEF Store, RegistryShape
<1>8. CASE Bump(o)
  <2>1. op' \in [Operators -> OpStates]
    BY <1>2, <1>3, <1>8 DEF Bump
  <2> QED
    BY <1>8, <2>1 DEF Bump, RegistryShape
<1> QED
  BY <1>4, <1>5, <1>6, <1>7, <1>8 DEF RegistryStep

(* Requests that do not overlap carry each change of the database into the *)
(* registry (ServiceRegistry::upsert and remove: load, clone, store).      *)
LEMMA OneAtATimeStep ==
    ASSUME RegistryInv, NEW o \in Operators, RegistryStep(o), ~overlapped'
    PROVE  OneAtATime'
<1>1. RegistryShape /\ op \in [Operators -> OpStates]
  BY DEF RegistryInv, RegistryShape
<1>2. ~overlapped
  BY DEF RegistryStep, Request, Database, Load, Store, Bump
<1>3. OneAtATime
  BY <1>2 DEF RegistryInv
<1>4. \A x \in Operators \ {o} : OpIdle(x)
  <2>1. ASSUME NEW kind \in Kinds, NEW port \in Ports, Request(o, kind, port)
        PROVE  \A x \in Operators \ {o} : OpIdle(x)
    BY <1>2, <2>1 DEF Request
  <2>2. CASE ~OpIdle(o)
    BY <1>3, <2>2 DEF OneAtATime
  <2>3. Database(o) \/ Load(o) \/ Store(o) \/ Bump(o) => ~OpIdle(o)
    BY DEF Database, Load, Store, Bump, OpIdle
  <2> QED
    BY <2>1, <2>2, <2>3 DEF RegistryStep
<1>5. SUFFICES ASSUME DOMAIN op' = Operators, \A x \in Operators \ {o} : op'[x] = op[x]
               PROVE  InFlight(o)' /\ (OpIdle(o)' => services' = database')
  <2>1. DOMAIN op' = Operators /\ \A x \in Operators \ {o} : op'[x] = op[x]
    BY <1>1 DEF RegistryStep, Request, Database, Load, Store, Bump, OpGoto
  <2>2. ASSUME InFlight(o)' /\ (OpIdle(o)' => services' = database') PROVE OneAtATime'
    <3>1. \A x \in Operators \ {o} : op'[x].at = "idle"
      BY <1>4, <2>1 DEF OpIdle
    <3>2. \A x \in Operators : InFlight(x)'
      BY <2>2, <3>1 DEF InFlight
    <3> QED
      BY <2>2, <3>1, <3>2 DEF OneAtATime, OpIdle
  <2> QED
    BY <1>5, <2>1, <2>2
<1>6. ASSUME NEW kind \in Kinds, NEW port \in Ports, Request(o, kind, port)
      PROVE  InFlight(o)' /\ (OpIdle(o)' => services' = database')
  <2>1. services = database
    BY <1>3, <1>4, <1>6 DEF OneAtATime, Request
  <2>2. op'[o].at = "db" /\ services' = services /\ database' = database
    BY <1>1, <1>6 DEF Request, OpGoto
  <2> QED
    BY <2>1, <2>2 DEF InFlight, OpIdle
<1>7. CASE Database(o)
  <2>1. services = database
    BY <1>3, <1>7 DEF OneAtATime, InFlight, Database
  <2>2. op'[o] = IF op[o].kind # "delete" \/ op[o].port \in database
                 THEN [op[o] EXCEPT !.at = "load"] ELSE [at |-> "idle"]
    BY <1>1, <1>7 DEF Database, OpGoto
  <2>3. services' = services /\ database' = Edited(op[o].kind, op[o].port, database)
    BY <1>7 DEF Database, Edited
  <2>4. op[o] \in [at : {"db", "load"}, kind : Kinds, port : Ports]
    BY <1>1, <1>7 DEF Database, OpStates
  <2>5. CASE op[o].kind # "delete" \/ op[o].port \in database
    <3>1. op'[o].at = "load" /\ op'[o].kind = op[o].kind /\ op'[o].port = op[o].port
      BY <2>2, <2>4, <2>5
    <3> QED
      BY <2>1, <2>3, <3>1 DEF InFlight, OpIdle
  <2>6. CASE ~(op[o].kind # "delete" \/ op[o].port \in database)
    <3>1. op'[o].at = "idle"
      BY <2>2, <2>6
    <3>2. database' = database
      BY <2>3, <2>6 DEF Edited
    <3> QED
      BY <2>1, <2>3, <3>1, <3>2 DEF InFlight, OpIdle
  <2> QED
    BY <2>5, <2>6
<1>8. CASE Load(o)
  <2>1. database = Edited(op[o].kind, op[o].port, services) /\ services' = services /\ database' = database
    BY <1>3, <1>8 DEF OneAtATime, InFlight, Load
  <2>2. op'[o] = IF op[o].kind = "delete" /\ op[o].port \notin services THEN [at |-> "idle"]
                 ELSE [at |-> "store", map |-> Edited(op[o].kind, op[o].port, services)]
    BY <1>1, <1>8 DEF Load, OpGoto
  <2>3. CASE op[o].kind = "delete" /\ op[o].port \notin services
    BY <2>1, <2>2, <2>3 DEF InFlight, OpIdle, Edited
  <2>4. CASE ~(op[o].kind = "delete" /\ op[o].port \notin services)
    <3>1. op'[o].at = "store" /\ op'[o].map = database'
      BY <2>1, <2>2, <2>4
    <3> QED
      BY <3>1 DEF InFlight, OpIdle
  <2> QED
    BY <2>3, <2>4
<1>9. CASE Store(o)
  <2>1. op[o].map = database /\ services' = op[o].map /\ database' = database
    BY <1>3, <1>9 DEF OneAtATime, InFlight, Store
  <2>2. op[o] \in [at : {"store", "bump"}, map : SUBSET Ports]
    BY <1>1, <1>9 DEF Store, OpStates
  <2>3. op'[o].at = "bump"
    BY <1>1, <1>9, <2>2 DEF Store, OpGoto
  <2> QED
    BY <2>1, <2>3 DEF InFlight, OpIdle
<1>10. CASE Bump(o)
  <2>1. services = database /\ services' = services /\ database' = database
    BY <1>3, <1>10 DEF OneAtATime, InFlight, Bump
  <2>2. op'[o].at = "idle"
    BY <1>1, <1>10 DEF Bump, OpGoto
  <2> QED
    BY <2>1, <2>2 DEF InFlight, OpIdle
<1> QED
  BY <1>6, <1>7, <1>8, <1>9, <1>10 DEF RegistryStep

(* A start holds what the database held.                                   *)
LEMMA IngestInit == Init => IngestInv
<1> SUFFICES ASSUME Init PROVE IngestInv
  OBVIOUS
<1>1. RegistryShape
  BY PortsAssumption DEF Init, RegistryShape, OpStates
<1>2. OneAtATime
  BY DEF Init, OneAtATime, InFlight, OpIdle
<1>3. WorkersInv
  BY DEF Init, WorkersInv, WorkerSound, Fresh, WAt, Top
<1> QED
  BY <1>1, <1>2, <1>3 DEF IngestInv, RegistryInv

-----------------------------------------------------------------------------
(* The filters.                                                            *)

(* Ports stay fresh, or their generation is outdated, through every step   *)
(* of a request: the map is stored before the generation is raised.        *)
LEMMA FreshStep ==
    ASSUME RegistryShape, NEW o \in Operators, RegistryStep(o), NEW gen, NEW ports, Fresh(gen, ports)
    PROVE  Fresh(gen, ports)'
<1>1. op \in [Operators -> OpStates] /\ generation \in Nat
  BY DEF RegistryShape
<1>2. gen \in Nat /\ gen <= generation
  BY DEF Fresh
<1>3. CASE Bump(o)
  <2>1. generation' = generation + 1
    BY <1>3 DEF Bump
  <2> QED
    BY <1>1, <1>2, <2>1 DEF Fresh
<1>4. CASE Store(o)
  <2>1. op[o] \in [at : {"store", "bump"}, map : SUBSET Ports]
    BY <1>1, <1>4 DEF Store, OpStates
  <2>2. op'[o].at = "bump" /\ generation' = generation
    BY <1>1, <1>4, <2>1 DEF Store, OpGoto
  <2> QED
    BY <1>2, <2>2 DEF Fresh
<1>5. CASE Database(o) \/ Load(o) \/ \E kind \in Kinds, port \in Ports : Request(o, kind, port)
  <2>1. /\ services' = services /\ generation' = generation /\ op[o].at # "bump"
        /\ \A x \in Operators \ {o} : op'[x] = op[x]
    BY <1>1, <1>5 DEF Database, Load, Request, OpGoto, OpIdle
  <2> QED
    BY <2>1 DEF Fresh
<1> QED
  BY <1>3, <1>4, <1>5 DEF RegistryStep

(* A request does not touch the workers, and a worker does not touch the   *)
(* registry.                                                               *)
LEMMA WorkersDuringRequest ==
    ASSUME RegistryShape, WorkersInv, NEW o \in Operators, RegistryStep(o), UNCHANGED workerVars
    PROVE  WorkersInv'
<1>1. worker' = worker /\ filter' = filter
  BY DEF workerVars
<1>2. generation' \in Nat /\ generation <= generation' /\ generation \in Nat
  <2>1. generation' \in {generation, generation + 1}
    BY Zenon DEF RegistryStep, Request, Database, Load, Store, Bump
  <2>2. generation \in Nat
    BY DEF RegistryShape
  <2> QED
    BY <2>1, <2>2
<1>3. ASSUME NEW w \in Workers PROVE WorkerSound(w)'
  <2>1. WorkerSound(w)
    BY DEF WorkersInv
  <2>2. ASSUME NEW g, NEW P, Fresh(g, P) PROVE Fresh(g, P)'
    BY <2>2, FreshStep
  <2>3. Fresh(filter[w].gen, filter[w].ports)'
    <3> DEFINE g == filter[w].gen
               P == filter[w].ports
    <3>1. Fresh(g, P)
      BY <2>1 DEF WorkerSound
    <3>2. g' = g /\ P' = P
      BY <1>1
    <3>3. \A h, Q : h = g /\ Q = P => Fresh(h, Q)'
      BY <2>2, <3>1
    <3> QED
      BY <3>2, <3>3
  <2> QED
    BY <1>1, <1>2, <2>1, <2>2, <2>3 DEF WorkerSound, WAt
<1> QED
  BY <1>1, <1>3 DEF WorkersInv

(* The loop of a worker reads the generation before the ports and installs *)
(* both, so what it installs is fresh; a packet comes from a frame.        *)
LEMMA WorkersStep ==
    ASSUME RegistryShape, WorkersInv, NEW w \in Workers, WorkerStep(w)
    PROVE  WorkersInv' /\ UNCHANGED registryVars
<1> USE DEF WorkersInv
<1>1. ASSUME UNCHANGED registryVars, NEW s, WGoto(w, s),
             s.at = "ports" => s.read \in Nat /\ s.read <= generation,
             s.at = "install" => Fresh(s.read, s.ports),
             s.at = "gate" => s.frame \in Frames
      PROVE  WorkersInv'
  <2>1. /\ filter' = filter /\ DOMAIN worker' = Workers /\ worker'[w] = s
        /\ \A x \in Workers \ {w} : worker'[x] = worker[x]
    BY <1>1 DEF WGoto
  <2>2. services' = services /\ generation' = generation /\ op' = op
    BY <1>1 DEF registryVars
  <2>3. ASSUME NEW x \in Workers PROVE WorkerSound(x)'
    <3>1. WorkerSound(x)
      OBVIOUS
    <3>2. Fresh(filter[x].gen, filter[x].ports)'
      BY <2>1, <2>2, <3>1 DEF WorkerSound, Fresh
    <3>3. CASE x = w
      BY <1>1, <2>1, <2>2, <3>2, <3>3 DEF WorkerSound, WAt, Fresh
    <3>4. CASE x # w
      BY <2>1, <2>2, <3>1, <3>2, <3>4 DEF WorkerSound, WAt, Fresh
    <3> QED
      BY <3>3, <3>4
  <2> QED
    BY <2>1, <2>3
<1>2. WorkerSound(w)
  OBVIOUS
<1>3. generation \in Nat
  BY DEF RegistryShape
<1>4. ASSUME UNCHANGED registryVars, NEW at \in {"top", "recv", "stopped"}, WGoto(w, [at |-> at])
      PROVE  WorkersInv'
  BY <1>1, <1>4
<1>5. CASE CheckGeneration(w)
  <2>1. /\ UNCHANGED registryVars
        /\ WGoto(w, [at |-> "recv"]) \/ WGoto(w, [at |-> "ports", read |-> generation])
    BY <1>5 DEF CheckGeneration, Rest
  <2> QED
    BY <1>1, <1>3, <1>4, <2>1
<1>6. CASE ReadPorts(w)
  <2> DEFINE s == [at |-> "install", read |-> worker[w].read, ports |-> services]
  <2>1. UNCHANGED registryVars /\ WGoto(w, s) /\ WAt(w, "ports")
    BY <1>6 DEF ReadPorts, Rest
  <2>2. Fresh(s.read, s.ports) /\ s.at = "install"
    BY <1>2, <2>1 DEF WorkerSound, Fresh
  <2> HIDE DEF s
  <2> QED
    BY <1>1, <2>1, <2>2
<1>7. CASE InstallFilter(w)
  <2>1. PICK open \in BOOLEAN : filter' = [filter EXCEPT ![w] =
                [gen |-> worker[w].read, open |-> open, ports |-> worker[w].ports]]
    BY <1>7 DEF InstallFilter
  <2>2. /\ UNCHANGED registryVars /\ WAt(w, "install")
        /\ worker' = [worker EXCEPT ![w] = [at |-> "recv"]]
    BY <1>7 DEF InstallFilter, Rest
  <2>3. services' = services /\ generation' = generation /\ op' = op
    BY <2>2 DEF registryVars
  <2>4. Fresh(worker[w].read, worker[w].ports)
    BY <1>2, <2>2 DEF WorkerSound
  <2>5. ASSUME NEW x \in Workers PROVE WorkerSound(x)'
    <3>1. WorkerSound(x)
      OBVIOUS
    <3>2. CASE x = w
      <4>1. filter'[x].gen = worker[w].read /\ filter'[x].ports = worker[w].ports /\ worker'[x].at = "recv"
        BY <2>1, <2>2, <3>2
      <4> QED
        BY <2>3, <2>4, <4>1 DEF WorkerSound, WAt, Fresh
    <3>3. CASE x # w
      <4>1. filter'[x] = filter[x] /\ worker'[x] = worker[x]
        BY <2>1, <2>2, <3>3
      <4> QED
        BY <2>3, <3>1, <4>1 DEF WorkerSound, WAt, Fresh
    <3> QED
      BY <3>2, <3>3
  <2> QED
    BY <2>1, <2>2, <2>5
<1>8. CASE InstallFails(w) \/ NoFrame(w) \/ Send(w)
  <2>1. UNCHANGED registryVars /\ (WGoto(w, [at |-> "stopped"]) \/ WGoto(w, [at |-> "top"]))
    BY <1>8, Zenon DEF InstallFails, NoFrame, Send, Top
  <2> QED
    BY <1>4, <2>1
<1>9. ASSUME NEW f \in Frames, Receive(w, f) PROVE WorkersInv' /\ UNCHANGED registryVars
  <2>1. /\ UNCHANGED registryVars
        /\ \/ WGoto(w, [at |-> "top"])
           \/ \E p : WGoto(w, IF p.kind = "packet" THEN [at |-> "gate", pkt |-> p, frame |-> f]
                              ELSE [at |-> "top"])
    BY <1>9, Zenon DEF Receive, Top
  <2>2. WGoto(w, [at |-> "top"]) \/ \E p : WGoto(w, [at |-> "gate", pkt |-> p, frame |-> f])
    BY <2>1
  <2>3. ASSUME NEW p, WGoto(w, [at |-> "gate", pkt |-> p, frame |-> f]) PROVE WorkersInv'
    BY <1>1, <2>1, <2>3
  <2> QED
    BY <1>4, <2>1, <2>2, <2>3
<1>10. CASE Gate(w)
  <2>1. /\ UNCHANGED registryVars
        /\ \E p, e : WGoto(w, IF service_flow_visible(p, services, e)
                               THEN [at |-> "send", pkt |-> p] ELSE [at |-> "top"])
    BY <1>10, Zenon DEF Gate, Top
  <2>2. WGoto(w, [at |-> "top"]) \/ \E p : WGoto(w, [at |-> "send", pkt |-> p])
    BY <2>1
  <2>3. ASSUME NEW p, WGoto(w, [at |-> "send", pkt |-> p]) PROVE WorkersInv'
    BY <1>1, <2>1, <2>3
  <2> QED
    BY <1>4, <2>1, <2>2, <2>3
<1>11. UNCHANGED registryVars
  BY <1>5, <1>6, <1>7, <1>8, <1>9, <1>10, Zenon DEF WorkerStep, CheckGeneration, ReadPorts, InstallFilter, Rest
<1> QED
  BY <1>5, <1>6, <1>7, <1>8, <1>9, <1>10, <1>11, Zenon DEF WorkerStep

(* What only looks at the registry keeps its invariant.                    *)
LEMMA RegistryUnchanged ==
    ASSUME RegistryInv, UNCHANGED registryVars
    PROVE  RegistryInv'
<1>1. /\ database' = database /\ services' = services /\ generation' = generation
      /\ op' = op /\ overlapped' = overlapped
  BY DEF registryVars
<1> QED
  BY <1>1 DEF RegistryInv, RegistryShape, OneAtATime, InFlight, OpIdle

(* Neither requests nor workers, in whatever order they come, break the    *)
(* invariant.                                                              *)
LEMMA IngestStep == IngestInv /\ [Next]_vars => IngestInv'
<1> SUFFICES ASSUME IngestInv, [Next]_vars PROVE IngestInv'
  OBVIOUS
<1>1. RegistryInv /\ RegistryShape /\ WorkersInv
  BY DEF IngestInv, RegistryInv
<1>2. ASSUME NEW o \in Operators, OperatorStep(o) PROVE IngestInv'
  <2>1. RegistryStep(o) /\ UNCHANGED workerVars
    BY <1>2 DEF OperatorStep, RegistryStep, Kinds
  <2>2. WorkersInv' /\ RegistryShape'
    BY <1>1, <2>1, WorkersDuringRequest, RegistryShapeStep
  <2>3. ~overlapped' => OneAtATime'
    BY <1>1, <2>1, OneAtATimeStep
  <2> QED
    BY <2>2, <2>3 DEF IngestInv, RegistryInv
<1>3. ASSUME NEW w \in Workers, WorkerStep(w) PROVE IngestInv'
  <2>1. WorkersInv' /\ UNCHANGED registryVars
    BY <1>1, <1>3, WorkersStep
  <2> QED
    BY <1>1, <2>1, RegistryUnchanged DEF IngestInv
<1>4. CASE Dequeue \/ Snapshot \/ Tick \/ UNCHANGED vars
  <2>1. UNCHANGED registryVars /\ worker' = worker /\ filter' = filter
    BY <1>4, Zenon DEF Dequeue, Snapshot, Tick, vars, workerVars
  <2>2. services' = services /\ generation' = generation /\ op' = op
    BY <2>1 DEF registryVars
  <2>3. WorkersInv'
    BY <1>1, <2>1, <2>2 DEF WorkersInv, WorkerSound, Fresh, WAt
  <2> QED
    BY <1>1, <2>1, <2>3, RegistryUnchanged DEF IngestInv
<1> QED
  BY <1>2, <1>3, <1>4 DEF Next

(* The registry, and the freshness of what the workers installed from it,  *)
(* are invariant.                                                          *)
THEOREM IngestInvariant == Spec => []IngestInv
<1>1. Init => IngestInv
  BY IngestInit
<1>2. IngestInv /\ [Next]_vars => IngestInv'
  BY IngestStep
<1> QED
  BY <1>1, <1>2, PTL DEF Spec

(* With no request in flight, and none that overlapped another, the        *)
(* registry holds what the database holds (create_service, update_service, *)
(* delete_service).                                                        *)
THEOREM RegistryCorrect == Spec => []RegistryFollowsDatabase
<1>1. IngestInv => RegistryFollowsDatabase
  BY DEF IngestInv, RegistryInv, OneAtATime, RegistryFollowsDatabase
<1> QED
  BY <1>1, IngestInvariant, PTL

-----------------------------------------------------------------------------
(* The decoder goes through the headers one by one.                        *)

(* d is what the decoder makes of the headers, starting from s: one value  *)
(* per header that it has behind it.                                       *)
IsDecoding(d, s, layers, n) ==
    /\ DOMAIN d = 0 .. n /\ d[0] = s
    /\ \A i \in 1 .. n : d[i] = DecodeLayer(d[i - 1], layers[i])

(* For any number of headers there is such a d.                            *)
LEMMA DecodingExists ==
    ASSUME NEW s, NEW layers, NEW n \in Nat
    PROVE  \E d : IsDecoding(d, s, layers, n)
<1> DEFINE Bad == {m \in Nat : ~\E d : IsDecoding(d, s, layers, m)}
<1>1. ASSUME Bad # {} PROVE FALSE
  <2>1. PICK m \in Bad : \A k \in Bad : m <= k
    BY <1>1, LeastNatural
  <2>2. CASE m = 0
    <3> DEFINE d == [i \in {0} |-> s]
    <3>1. DOMAIN d = 0 .. 0 /\ d[0] = s
      OBVIOUS
    <3>2. IsDecoding(d, s, layers, 0)
      BY <3>1 DEF IsDecoding
    <3> QED
      BY <2>1, <2>2, <3>2
  <2>3. CASE m # 0
    <3>1. m \in Nat /\ m - 1 \in Nat /\ m - 1 \notin Bad
      BY <2>1, <2>3
    <3>2. PICK d : IsDecoding(d, s, layers, m - 1)
      BY <3>1
    <3>3. /\ DOMAIN d = 0 .. m - 1 /\ d[0] = s
          /\ \A i \in 1 .. m - 1 : d[i] = DecodeLayer(d[i - 1], layers[i])
      BY <3>2 DEF IsDecoding
    <3> DEFINE e == [i \in 0 .. m |-> IF i = m THEN DecodeLayer(d[m - 1], layers[m]) ELSE d[i]]
    <3>4. /\ DOMAIN e = 0 .. m /\ e[0] = s /\ e[m] = DecodeLayer(d[m - 1], layers[m])
          /\ \A i \in 0 .. m - 1 : e[i] = d[i]
      BY <2>3, <3>1, <3>3
    <3> HIDE DEF e
    <3>5. ASSUME NEW i \in 1 .. m PROVE e[i] = DecodeLayer(e[i - 1], layers[i])
      <4>1. i - 1 \in 0 .. m - 1 /\ e[i - 1] = d[i - 1]
        BY <3>1, <3>4
      <4>2. CASE i = m
        BY <3>4, <4>1, <4>2
      <4>3. CASE i # m
        <5>1. i \in 1 .. m - 1 /\ i \in 0 .. m - 1
          BY <3>1, <4>3
        <5> QED
          BY <3>3, <3>4, <4>1, <5>1
      <4> QED
        BY <4>2, <4>3
    <3>6. IsDecoding(e, s, layers, m)
      BY <3>4, <3>5 DEF IsDecoding
    <3> QED
      BY <2>1, <3>6
  <2> QED
    BY <2>2, <2>3
<1> QED
  BY <1>1

(* decode gives the last of those values.                                  *)
LEMMA DecodeSteps ==
    ASSUME NEW s, NEW layers, Len(layers) \in Nat
    PROVE  \E d : IsDecoding(d, s, layers, Len(layers)) /\ decode(s, layers) = d[Len(layers)]
<1> DEFINE n == Len(layers)
           Def(d) == [i \in 0 .. n |-> IF i = 0 THEN s ELSE DecodeLayer(d[i - 1], layers[i])]
           after == CHOOSE d : d = Def(d)
<1>1. decode(s, layers) = after[n]
  BY DEF decode
<1> HIDE DEF n
<1>2. PICK d : IsDecoding(d, s, layers, n)
  BY DecodingExists DEF n
<1>3. /\ DOMAIN d = 0 .. n /\ d[0] = s
      /\ \A i \in 1 .. n : d[i] = DecodeLayer(d[i - 1], layers[i])
  BY <1>2 DEF IsDecoding
<1>4. n \in Nat
  BY DEF n
<1> DEFINE e == [i \in 0 .. n |-> d[i]]
<1>5. e = Def(e)
  <2>1. \A i \in 0 .. n : i # 0 => i - 1 \in 0 .. n /\ i \in 1 .. n
    BY <1>4
  <2> QED
    BY <1>3, <2>1
<1> HIDE DEF e
<1>6. after = Def(after)
  <2> HIDE DEF Def
  <2> QED
    BY <1>5
<1> HIDE DEF after
<1>7. DOMAIN after = 0 .. n /\ \A i \in 0 .. n : after[i] = IF i = 0 THEN s ELSE DecodeLayer(after[i - 1], layers[i])
  BY <1>6
<1>8. IsDecoding(after, s, layers, n)
  <2>1. 0 \in 0 .. n /\ \A i \in 1 .. n : i \in 0 .. n /\ i # 0
    BY <1>4
  <2> QED
    BY <1>7, <2>1 DEF IsDecoding
<1> QED
  BY <1>1, <1>8 DEF n

(* Once the decoder has come to a verdict the rest of the headers cannot   *)
(* change it.                                                              *)
LEMMA VerdictStays ==
    ASSUME NEW s, NEW layers, NEW n \in Nat, NEW d, IsDecoding(d, s, layers, n),
           NEW i \in 0 .. n, d[i].res # Going
    PROVE  d[n] = d[i]
<1> DEFINE Bad == {m \in Nat : i <= m /\ m <= n /\ d[m] # d[i]}
<1>1. ASSUME Bad # {} PROVE FALSE
  <2>1. PICK m \in Bad : \A k \in Bad : m <= k
    BY <1>1, LeastNatural
  <2>2. m # i /\ m \in 1 .. n
    BY <2>1
  <2>3. m - 1 \in Nat /\ m - 1 \notin Bad /\ i <= m - 1 /\ m - 1 <= n
    BY <2>1, <2>2
  <2>4. d[m - 1] = d[i]
    BY <2>3
  <2>5. d[m] = DecodeLayer(d[m - 1], layers[m])
    BY <2>2 DEF IsDecoding
  <2>6. d[m] = d[m - 1]
    BY <2>4, <2>5, Zenon DEF DecodeLayer
  <2> QED
    BY <2>1, <2>4, <2>6
<1> QED
  BY <1>1

-----------------------------------------------------------------------------
(* No frame of a service is filtered away.                                 *)

DecoderFields == {"inside", "depth", "domain", "src", "dst", "v4", "res"}

(* A decoder at work, inside a link or an IP header, depth tunnels deep.   *)
Decoding(d, inside) ==
    DOMAIN d = DecoderFields /\ d.res = Going /\ d.inside = inside /\ d.depth = 0

(* A header that is cut short is an error.                                 *)
LEMMA ShortHeader ==
    ASSUME NEW d, NEW inside, Decoding(d, inside), NEW l, "short" \in DOMAIN l
    PROVE  DecodeLayer(d, l).res.kind = "error"
<1> DEFINE v == [kind |-> "error"]
<1>1. DecodeLayer(d, l) = Finish(d, v)
  BY Zenon DEF DecodeLayer, Decoding
<1>2. v.kind = "error"
  OBVIOUS
<1> HIDE DEF v
<1>3. Finish(d, v).res = v
  BY DEF Finish, Decoding, DecoderFields
<1> QED
  BY <1>1, <1>2, <1>3, Zenon

(* The verdict that the decoder comes to with the second or third header   *)
(* of a frame, when it is not to be discarded.                             *)
LEMMA FrameVerdict ==
    ASSUME NEW f \in Frames, NEW r, r = decode(Start, f.layers).res, r.kind \in {"fragment", "packet"}
    PROVE  /\ "short" \notin DOMAIN Second(f)
           /\ Second(f).t \in {"ip4", "ip6"}
           /\ \/ IsFragment(f) /\ r.kind = "fragment"
              \/ /\ ~IsFragment(f) /\ "short" \notin DOMAIN Third(f)
                 /\ \/ IsTunnel(f) /\ Decap
                    \/ Third(f).t = "vxlan" /\ Decap
                    \/ /\ HasPorts(f) /\ r.kind = "packet"
                       /\ r.sport = Third(f).sport /\ r.dport = Third(f).dport
<1> DEFINE n == Len(f.layers)
<1>1. n \in Nat /\ n >= 3
  BY FramesAssumption
<1>2. PICK d : IsDecoding(d, Start, f.layers, n) /\ decode(Start, f.layers) = d[n]
  BY <1>1, DecodeSteps
<1> HIDE DEF n
<1>3. /\ d[0] = Start /\ d[1] = DecodeLayer(d[0], Outer(f))
      /\ d[2] = DecodeLayer(d[1], Second(f)) /\ d[3] = DecodeLayer(d[2], Third(f))
  <2>1. 1 \in 1 .. n /\ 2 \in 1 .. n /\ 3 \in 1 .. n /\ 1 - 1 = 0 /\ 2 - 1 = 1 /\ 3 - 1 = 2
    BY <1>1
  <2> QED
    BY <1>2, <2>1 DEF IsDecoding, Outer, Second, Third
<1>4. ASSUME NEW i \in {1, 2, 3}, d[i].res.kind # "going" PROVE r = d[i].res
  <2>1. i \in 0 .. n
    BY <1>1
  <2>2. d[i].res # Going
    BY <1>4 DEF Going
  <2>3. d[n] = d[i]
    BY <1>1, <1>2, <2>1, <2>2, VerdictStays
  <2> QED
    BY <1>2, <2>3
<1>5. Decoding(d[1], "link")
  <2>1. Decoding(d[0], "link")
    <3>1. Start.res = Going /\ Start.inside = "link" /\ Start.depth = 0
      BY Zenon DEF Start
    <3>2. DOMAIN Start = DecoderFields
      BY DEF Start, DecoderFields
    <3> QED
      BY <1>3, <3>1, <3>2 DEF Decoding
  <2>2. "short" \notin DOMAIN Outer(f)
    <3>1. ASSUME "short" \in DOMAIN Outer(f) PROVE d[1].res.kind = "error"
      BY <1>3, <2>1, <3>1, ShortHeader
    <3> QED
      BY <1>4, <3>1
  <2>3. d[1] = decode_ethernet(d[0], Outer(f))
    BY <1>3, <2>1, <2>2, FramesAssumption DEF DecodeLayer, Decoding
  <2>4. d[1] # Ignored(d[0])
    <3>1. Ignored(d[0]).res.kind = "ignored"
      BY <2>1 DEF Ignored, Finish, Decoding, DecoderFields
    <3> QED
      BY <1>4, <3>1
  <2>5. d[1] = [d[0] EXCEPT !.domain = @ \o Outer(f).tags]
    BY <2>3, <2>4, Zenon DEF decode_ethernet
  <2> QED
    BY <2>1, <2>5 DEF Decoding, DecoderFields
<1>6. "short" \notin DOMAIN Second(f)
  <2>1. ASSUME "short" \in DOMAIN Second(f) PROVE d[2].res.kind = "error"
    BY <1>3, <1>5, <2>1, ShortHeader
  <2> QED
    BY <1>4, <2>1
<1>7. Second(f).t \in {"ip4", "ip6"}
  <2>1. ASSUME Second(f).t \notin {"ip4", "ip6"} PROVE d[2].res.kind = "ignored"
    <3>1. d[2] = Ignored(d[1])
      BY <1>3, <1>5, <1>6, <2>1, FramesAssumption DEF DecodeLayer, Decoding
    <3> QED
      BY <1>5, <3>1 DEF Ignored, Finish, Decoding, DecoderFields
  <2> QED
    BY <1>4, <2>1
<1>8. d[2] = decode_ip(d[1], Second(f))
  BY <1>3, <1>5, <1>6, <1>7 DEF DecodeLayer, Decoding
<1> DEFINE e == [d[1] EXCEPT !.inside = "ip", !.src = Second(f).src, !.dst = Second(f).dst,
                             !.v4 = (Second(f).t = "ip4")]
<1>9. Decoding(e, "ip")
  BY <1>5 DEF Decoding, DecoderFields
<1>10. d[1].inside # "ip"
  BY <1>5 DEF Decoding
<1>11. CASE IsFragment(f)
  <2>1. d[2].res.kind = "fragment"
    <3> DEFINE v == [kind |-> "fragment", frag |-> Second(f).frag,
                     key |-> <<Second(f).t, e.domain, Second(f).src, Second(f).dst, Second(f).frag.id>>]
    <3>1. d[2] = Finish(e, v)
      BY <1>8, <1>10, <1>11, Zenon DEF decode_ip, IsFragment
    <3>2. v.kind = "fragment"
      OBVIOUS
    <3> HIDE DEF v, e
    <3> QED
      BY <1>9, <3>1, <3>2 DEF Finish, Decoding, DecoderFields
  <2> QED
    BY <1>4, <1>6, <1>7, <1>11, <2>1
<1>12. CASE ~IsFragment(f)
  <2>1. d[2] = e
    BY <1>8, <1>10, <1>12, Zenon DEF decode_ip, IsFragment
  <2>2. Decoding(d[2], "ip")
    BY <1>9, <2>1
  <2> HIDE DEF e
  <2> DEFINE l == Third(f)
  <2>3. "short" \notin DOMAIN l
    <3>1. ASSUME "short" \in DOMAIN l PROVE d[3].res.kind = "error"
      BY <1>3, <2>2, <3>1, ShortHeader
    <3> QED
      BY <1>4, <3>1
  <2>4. d[3] # Ignored(d[2])
    <3>1. Ignored(d[2]).res.kind = "ignored"
      BY <2>2 DEF Ignored, Finish, Decoding, DecoderFields
    <3> QED
      BY <1>4, <3>1
  <2>5. l.t # "eth"
    BY FramesAssumption
  <2>6. ASSUME d[3] = Finish(d[2], ParsedPacket(d[2], l))
        PROVE  r.kind = "packet" /\ r.sport = l.sport /\ r.dport = l.dport
    <3> DEFINE v == ParsedPacket(d[2], l)
    <3>1. v.kind = "packet" /\ v.sport = l.sport /\ v.dport = l.dport
      BY Zenon DEF ParsedPacket
    <3> HIDE DEF v
    <3>2. d[3].res = v
      BY <2>2, <2>6 DEF Finish, Decoding, DecoderFields, v
    <3> QED
      BY <1>4, <3>1, <3>2
  <2>7. CASE l.t \in {"tcp", "udp"}
    <3>1. d[3] = Finish(d[2], ParsedPacket(d[2], l))
      BY <1>3, <2>2, <2>3, <2>7 DEF DecodeLayer, Decoding
    <3> QED
      BY <1>6, <1>7, <1>12, <2>3, <2>6, <2>7, <3>1 DEF HasPorts
  <2>8. CASE l.t = "vxlan"
    <3>1. d[3] = decode_vxlan(d[2], l)
      BY <1>3, <2>2, <2>3, <2>8 DEF DecodeLayer, Decoding
    <3>2. Decap \/ d[3] = Finish(d[2], ParsedPacket(d[2], l))
      BY <3>1, Zenon DEF decode_vxlan, MayDecap
    <3> QED
      BY <1>6, <1>7, <1>12, <2>3, <2>6, <2>8, <3>2 DEF HasPorts
  <2>9. CASE l.t \in {"gre", "ip4", "ip6"}
    <3>1. d[3] = IF l.t = "gre" THEN decode_gre(d[2], l) ELSE decode_ip(d[2], l)
      BY <1>3, <2>2, <2>3, <2>9 DEF DecodeLayer, Decoding
    <3>2. d[2].inside = "ip"
      BY <2>2 DEF Decoding
    <3>3. Decap
      BY <2>4, <3>1, <3>2, Zenon DEF decode_gre, decode_ip, MayDecap
    <3> QED
      BY <1>6, <1>7, <1>12, <2>3, <2>9, <3>3 DEF IsTunnel
  <2>10. l.t \in {"tcp", "udp", "vxlan", "gre", "ip4", "ip6"}
    <3>1. ASSUME l.t \notin {"tcp", "udp", "vxlan", "gre", "ip4", "ip6"} PROVE d[3] = Ignored(d[2])
      BY <1>3, <2>2, <2>3, <2>5, <3>1 DEF DecodeLayer, Decoding
    <3> QED
      BY <2>4, <3>1
  <2> QED
    BY <2>7, <2>8, <2>9, <2>10
<1> QED
  BY <1>11, <1>12

(* Both filters let a frame of a service through, when they are made from  *)
(* the ports that are configured (live_port_filter_expression,             *)
(* frame_may_belong_to_service).                                           *)
LEMMA WantedPasses ==
    ASSUME NEW f \in Frames, f \notin Excluded, Wanted(f), services # {}, NEW kf, kf.ports = services
    PROVE  KernelPasses(kf, f) /\ frame_may_belong_to_service(f, services)
<1> DEFINE r == decode(Start, f.layers).res
<1>1. \/ r.kind = "fragment"
      \/ /\ r.kind = "packet" /\ service_flow_visible(r, services, f.egress)
         /\ f.egress => r.sport \in services
  BY Zenon DEF Wanted
<1> HIDE DEF r
<1>2. /\ "short" \notin DOMAIN Second(f)
      /\ Second(f).t \in {"ip4", "ip6"}
      /\ \/ IsFragment(f) /\ r.kind = "fragment"
         \/ /\ ~IsFragment(f) /\ "short" \notin DOMAIN Third(f)
            /\ \/ IsTunnel(f) /\ Decap
               \/ Third(f).t = "vxlan" /\ Decap
               \/ /\ HasPorts(f) /\ r.kind = "packet"
                  /\ r.sport = Third(f).sport /\ r.dport = Third(f).dport
  BY <1>1, FrameVerdict DEF r
<1>3. f.egress \in BOOLEAN
  BY FramesAssumption
<1>4. \/ IsFragment(f)
      \/ IsTunnel(f) /\ Decap
      \/ Third(f).t = "vxlan" /\ Decap
      \/ /\ HasPorts(f)
         /\ (Third(f).dport \in services \/ (f.egress /\ Third(f).sport \in services))
         /\ f.egress => Third(f).sport \in services
  BY <1>1, <1>2, Zenon DEF service_flow_visible
<1>5. Third(f).t = "vxlan" => HasPorts(f)
  BY DEF HasPorts
<1>6. KernelPasses(kf, f)
  BY <1>2, <1>4, <1>5, Zenon DEF KernelPasses
<1>7. frame_may_belong_to_service(f, services)
  BY <1>3, <1>4, <1>5 DEF frame_may_belong_to_service
<1> QED
  BY <1>6, <1>7

(* A worker about to receive that has seen the current generation, while   *)
(* no change is half published, lets every frame of a configured service   *)
(* through (spawn_capture_workers, configure_port_filter): no order of     *)
(* registry edits and filter installations leaves a blind spot.            *)
THEOREM FiltersCorrect == Spec => []NoBlindSpot
<1>1. IngestInv => NoBlindSpot
  <2> SUFFICES ASSUME IngestInv, NEW w \in Workers, services # {}, filter[w].gen = generation,
                      \A o \in Operators : op[o].at # "bump", NEW f \in Frames \ Excluded, Wanted(f)
               PROVE  KernelPasses(filter[w], f) /\ frame_may_belong_to_service(f, services)
    BY DEF NoBlindSpot
  <2>1. filter[w].ports = services
    BY DEF IngestInv, WorkersInv, WorkerSound, Fresh
  <2> QED
    BY <2>1, WantedPasses
<1> QED
  BY <1>1, IngestInvariant, PTL

-----------------------------------------------------------------------------
(* Both directions of a connection have one key.                           *)

(* What FramesAssumption says of a header.                                 *)
IsHeader(l) ==
    /\ "t" \in DOMAIN l
    /\ l.t \in {"ip4", "ip6"} => {"src", "dst"} \subseteq DOMAIN l
    /\ l.t \in {"tcp", "udp"} => {"sport", "dport"} \subseteq DOMAIN l
    /\ l.t = "eth" => "tags" \in DOMAIN l
    /\ l.t \in {"gre", "vxlan"} => "id" \in DOMAIN l

(* A header of the other direction: the same, but for its ends.            *)
LEMMA TurnedHeader ==
    ASSUME NEW l, IsHeader(l), NEW m, m = Turned(l)
    PROVE  /\ DOMAIN m = DOMAIN l /\ m.t = l.t
           /\ l.t = "eth" => m.tags = l.tags
           /\ l.t \in {"gre", "vxlan"} => m.id = l.id
           /\ "frag" \in DOMAIN l => m.frag = l.frag
           /\ l.t \in {"ip4", "ip6"} => m.src = l.dst /\ m.dst = l.src
           /\ l.t \in {"tcp", "udp"} => m.sport = l.dport /\ m.dport = l.sport
<1> DEFINE a == IF "src" \in DOMAIN l THEN [l EXCEPT !.src = l.dst, !.dst = l.src] ELSE l
<1>1. m = IF l.t \in {"tcp", "udp"} THEN [a EXCEPT !.sport = l.dport, !.dport = l.sport] ELSE a
  BY Zenon DEF Turned
<1>2. /\ DOMAIN a = DOMAIN l /\ \A x \in DOMAIN l \ {"src", "dst"} : a[x] = l[x]
      /\ l.t \in {"ip4", "ip6"} => a.src = l.dst /\ a.dst = l.src
  BY DEF IsHeader
<1> HIDE DEF a
<1>3. /\ DOMAIN m = DOMAIN l /\ \A x \in DOMAIN l \ {"sport", "dport"} : m[x] = a[x]
      /\ l.t \in {"tcp", "udp"} => m.sport = l.dport /\ m.dport = l.sport
  BY <1>1, <1>2 DEF IsHeader
<1>4. \A x \in DOMAIN l \ {"src", "dst", "sport", "dport"} : m[x] = l[x]
  BY <1>2, <1>3
<1> QED
  BY <1>2, <1>3, <1>4 DEF IsHeader

(* The verdicts on a frame and on one of the other direction.              *)
SameVerdict(u, v) ==
    \/ u = Going /\ v = Going
    \/ u # Going /\ v # Going /\ u.kind # "packet"
    \/ /\ u.kind = "packet" /\ v.kind = "packet"
       /\ u.key.proto # "vxlan" =>
             v.key = u.key /\ ((\E a, b \in u.key.ends : a # b) => v.from # u.from)

(* Two decoders that have the same headers of both directions behind them. *)
Mirror(d, e) ==
    /\ DOMAIN d = DecoderFields /\ DOMAIN e = DecoderFields
    /\ e.inside = d.inside /\ e.depth = d.depth /\ e.domain = d.domain
    /\ e.src = d.dst /\ e.dst = d.src
    /\ SameVerdict(d.res, e.res)

(* They may finish together, *)
LEMMA MirrorFinish ==
    ASSUME NEW d, NEW e, Mirror(d, e), NEW u, NEW v, SameVerdict(u, v)
    PROVE  Mirror(Finish(d, u), Finish(e, v))
BY DEF Mirror, Finish, DecoderFields

(* ignore what follows, *)
LEMMA MirrorIgnored ==
    ASSUME NEW d, NEW e, Mirror(d, e)
    PROVE  Mirror(Ignored(d), Ignored(e))
<1> DEFINE v == [kind |-> "ignored"]
<1>1. SameVerdict(v, v)
  BY DEF SameVerdict, Going
<1> HIDE DEF v
<1>2. Mirror(Finish(d, v), Finish(e, v))
  BY <1>1, MirrorFinish
<1> QED
  BY <1>2 DEF Ignored, v

(* or go into a tunnel, which has the same name from both ends             *)
(* (mix_tunnel_domain).                                                    *)
LEMMA MirrorTunnel ==
    ASSUME NEW d, NEW e, Mirror(d, e), NEW id
    PROVE  Mirror(IntoTunnel(d, id), IntoTunnel(e, id))
<1>1. {e.src, e.dst} = {d.src, d.dst}
  BY DEF Mirror
<1> DEFINE name == <<{d.src, d.dst}, id>>
<1>2. /\ IntoTunnel(d, id) = [d EXCEPT !.depth = @ + 1, !.domain = Append(@, name)]
      /\ IntoTunnel(e, id) = [e EXCEPT !.depth = @ + 1, !.domain = Append(@, name)]
  BY <1>1, Zenon DEF IntoTunnel
<1> HIDE DEF name
<1> QED
  BY <1>2 DEF Mirror, DecoderFields

(* A packet has one key in both directions, and they are told apart        *)
(* (FlowKey::canonical_with_domain).                                       *)
LEMMA MirrorPacket ==
    ASSUME NEW d, NEW e, Mirror(d, e), NEW l, NEW m, m.t = l.t,
           l.t # "vxlan" => m.sport = l.dport /\ m.dport = l.sport
    PROVE  Mirror(Finish(d, ParsedPacket(d, l)), Finish(e, ParsedPacket(e, m)))
<1> DEFINE u == ParsedPacket(d, l)
           v == ParsedPacket(e, m)
           A == {<<d.src, l.sport>>, <<d.dst, l.dport>>}
           B == {<<e.src, m.sport>>, <<e.dst, m.dport>>}
<1>1. /\ u.kind = "packet" /\ u.from = <<d.src, l.sport>>
      /\ u.key = [ends |-> A, proto |-> l.t, domain |-> d.domain]
      /\ v.kind = "packet" /\ v.from = <<e.src, m.sport>>
      /\ v.key = [ends |-> B, proto |-> m.t, domain |-> e.domain]
  BY Zenon DEF ParsedPacket
<1> HIDE DEF u, v, A, B
<1>2. u.key.proto = l.t /\ u.key.ends = A
  BY <1>1
<1>3. ASSUME l.t # "vxlan"
      PROVE  v.key = u.key /\ ((\E a, b \in u.key.ends : a # b) => v.from # u.from)
  <2>1. <<e.src, m.sport>> = <<d.dst, l.dport>> /\ <<e.dst, m.dport>> = <<d.src, l.sport>>
    BY <1>3 DEF Mirror
  <2>2. B = A /\ e.domain = d.domain
    BY <2>1 DEF Mirror, A, B
  <2>3. v.key = u.key
    BY <1>1, <2>2
  <2>4. (\E a, b \in A : a # b) => v.from # u.from
    BY <1>1, <2>1 DEF A
  <2> QED
    BY <1>2, <2>3, <2>4
<1>4. SameVerdict(u, v)
  BY <1>1, <1>2, <1>3 DEF SameVerdict
<1> QED
  BY <1>4, MirrorFinish DEF u, v

(* Every header takes the two decoders the same way.                       *)
LEMMA MirrorLayer ==
    ASSUME NEW d, NEW e, Mirror(d, e), NEW l, IsHeader(l), NEW m, m = Turned(l)
    PROVE  Mirror(DecodeLayer(d, l), DecodeLayer(e, m))
<1>1. /\ DOMAIN m = DOMAIN l /\ m.t = l.t
      /\ l.t = "eth" => m.tags = l.tags
      /\ l.t \in {"gre", "vxlan"} => m.id = l.id
      /\ "frag" \in DOMAIN l => m.frag = l.frag
      /\ l.t \in {"ip4", "ip6"} => m.src = l.dst /\ m.dst = l.src
      /\ l.t \in {"tcp", "udp"} => m.sport = l.dport /\ m.dport = l.sport
  BY TurnedHeader
<1>2. SameVerdict(d.res, e.res) /\ e.depth = d.depth /\ e.inside = d.inside
  BY DEF Mirror
<1>3. MayDecap(e) <=> MayDecap(d)
  BY <1>2, Zenon DEF MayDecap
<1>4. CASE d.res # Going
  <2>1. e.res # Going
    BY <1>2, <1>4 DEF SameVerdict, Going
  <2> QED
    BY <1>4, <2>1, Zenon DEF DecodeLayer
<1>5. CASE d.res = Going /\ "short" \in DOMAIN l
  <2> DEFINE v == [kind |-> "error"]
  <2>1. e.res = Going
    BY <1>2, <1>5 DEF SameVerdict, Going
  <2>2. DecodeLayer(d, l) = Finish(d, v) /\ DecodeLayer(e, m) = Finish(e, v)
    BY <1>1, <1>5, <2>1, Zenon DEF DecodeLayer
  <2>3. SameVerdict(v, v)
    BY DEF SameVerdict, Going
  <2> HIDE DEF v
  <2> QED
    BY <2>2, <2>3, MirrorFinish
<1>6. CASE d.res = Going /\ "short" \notin DOMAIN l
  <2>1. e.res = Going
    BY <1>2, <1>6 DEF SameVerdict, Going
  <2>2. CASE l.t = "eth"
    <3>1. DecodeLayer(d, l) = decode_ethernet(d, l) /\ DecodeLayer(e, m) = decode_ethernet(e, m)
      BY <1>1, <1>6, <2>1, <2>2 DEF DecodeLayer
    <3>2. Mirror([d EXCEPT !.domain = @ \o l.tags], [e EXCEPT !.domain = @ \o l.tags])
      BY DEF Mirror, DecoderFields
    <3>3. m.tags = l.tags
      BY <1>1, <2>2
    <3>4. \/ decode_ethernet(d, l) = Ignored(d) /\ decode_ethernet(e, m) = Ignored(e)
          \/ /\ decode_ethernet(d, l) = [d EXCEPT !.domain = @ \o l.tags]
             /\ decode_ethernet(e, m) = [e EXCEPT !.domain = @ \o l.tags]
      BY <1>2, <3>3, Zenon DEF decode_ethernet
    <3> QED
      BY <3>1, <3>2, <3>4, MirrorIgnored
  <2>3. CASE l.t \in {"ip4", "ip6"}
    <3>1. DecodeLayer(d, l) = decode_ip(d, l) /\ DecodeLayer(e, m) = decode_ip(e, m)
      BY <1>1, <1>6, <2>1, <2>3 DEF DecodeLayer
    <3> DEFINE enter(x, h) == IF x.inside = "ip" THEN IntoTunnel(x, h.t) ELSE x
               inner(x, h) == [x EXCEPT !.inside = "ip", !.src = h.src, !.dst = h.dst,
                                        !.v4 = (h.t = "ip4")]
               verdict(x, h) == [kind |-> "fragment", frag |-> h.frag,
                                 key |-> <<h.t, x.domain, h.src, h.dst, h.frag.id>>]
    <3>2. /\ decode_ip(d, l) = IF d.inside = "ip" /\ ~MayDecap(d) THEN Ignored(d)
                               ELSE IF "frag" \in DOMAIN l
                               THEN Finish(inner(enter(d, l), l), verdict(inner(enter(d, l), l), l))
                               ELSE inner(enter(d, l), l)
          /\ decode_ip(e, m) = IF e.inside = "ip" /\ ~MayDecap(e) THEN Ignored(e)
                               ELSE IF "frag" \in DOMAIN m
                               THEN Finish(inner(enter(e, m), m), verdict(inner(enter(e, m), m), m))
                               ELSE inner(enter(e, m), m)
      BY Zenon DEF decode_ip
    <3>3. Mirror(enter(d, l), enter(e, m))
      BY <1>1, <1>2, MirrorTunnel
    <3>4. ASSUME NEW x, NEW y, Mirror(x, y) PROVE Mirror(inner(x, l), inner(y, m))
      BY <1>1, <2>3, <3>4 DEF Mirror, DecoderFields
    <3>5. ASSUME NEW x, NEW y PROVE SameVerdict(verdict(x, l), verdict(y, m))
      <4>1. verdict(x, l).kind = "fragment" /\ verdict(y, m).kind = "fragment"
        BY Zenon
      <4> HIDE DEF verdict
      <4> QED
        BY <4>1 DEF SameVerdict, Going
    <3> HIDE DEF enter, inner, verdict
    <3>6. Mirror(inner(enter(d, l), l), inner(enter(e, m), m))
      BY <3>3, <3>4
    <3>7. Mirror(Finish(inner(enter(d, l), l), verdict(inner(enter(d, l), l), l)),
                 Finish(inner(enter(e, m), m), verdict(inner(enter(e, m), m), m)))
      BY <3>5, <3>6, MirrorFinish
    <3> QED
      BY <1>1, <1>2, <1>3, <3>1, <3>2, <3>6, <3>7, MirrorIgnored
  <2>4. CASE l.t \in {"gre", "vxlan"}
    <3>1. Mirror([IntoTunnel(d, l.id) EXCEPT !.inside = "link"],
                 [IntoTunnel(e, m.id) EXCEPT !.inside = "link"])
      <4>1. Mirror(IntoTunnel(d, l.id), IntoTunnel(e, m.id))
        BY <1>1, <2>4, MirrorTunnel
      <4> QED
        BY <4>1 DEF Mirror, DecoderFields
    <3>2. CASE l.t = "gre"
      <4>1. DecodeLayer(d, l) = decode_gre(d, l) /\ DecodeLayer(e, m) = decode_gre(e, m)
        BY <1>1, <1>6, <2>1, <3>2 DEF DecodeLayer
      <4> QED
        BY <1>3, <3>1, <4>1, MirrorIgnored DEF decode_gre
    <3>3. CASE l.t = "vxlan"
      <4>1. DecodeLayer(d, l) = decode_vxlan(d, l) /\ DecodeLayer(e, m) = decode_vxlan(e, m)
        BY <1>1, <1>6, <2>1, <3>3 DEF DecodeLayer
      <4>2. Mirror(Finish(d, ParsedPacket(d, l)), Finish(e, ParsedPacket(e, m)))
        BY <1>1, <3>3, MirrorPacket
      <4> QED
        BY <1>3, <3>1, <4>1, <4>2 DEF decode_vxlan
    <3> QED
      BY <2>4, <3>2, <3>3
  <2>5. CASE l.t \in {"tcp", "udp"}
    <3>1. /\ DecodeLayer(d, l) = Finish(d, ParsedPacket(d, l))
          /\ DecodeLayer(e, m) = Finish(e, ParsedPacket(e, m))
      BY <1>1, <1>6, <2>1, <2>5 DEF DecodeLayer
    <3> QED
      BY <1>1, <2>5, <3>1, MirrorPacket
  <2>6. CASE l.t \notin {"eth", "ip4", "ip6", "gre", "vxlan", "tcp", "udp"}
    <3>1. DecodeLayer(d, l) = Ignored(d) /\ DecodeLayer(e, m) = Ignored(e)
      BY <1>1, <1>6, <2>1, <2>6 DEF DecodeLayer
    <3> QED
      BY <3>1, MirrorIgnored
  <2> QED
    BY <2>2, <2>3, <2>4, <2>5, <2>6
<1> QED
  BY <1>4, <1>5, <1>6

(* The decoder comes to the same verdict on both directions of a frame.    *)
LEMMA SameVerdicts ==
    ASSUME NEW f \in Frames
    PROVE  SameVerdict(decode(Start, f.layers).res, decode(Start, Reversed(f.layers)).res)
<1> DEFINE L == f.layers
           R == Reversed(f.layers)
           n == Len(f.layers)
<1>1. L \in Seq(Range(L)) /\ n \in Nat /\ \A l \in Range(L) : IsHeader(l)
  <2>1. L \in Seq(Range(L))
    BY FramesAssumption
  <2>2. \A l \in Range(L) : IsHeader(l)
    BY FramesAssumption, Zenon DEF IsHeader
  <2> QED
    BY <2>1, <2>2
<1>2. /\ DOMAIN L = 1 .. n
      /\ \A i \in 1 .. n : L[i] \in Range(L)
  BY <1>1
<1>3. R = [i \in 1 .. n |-> Turned(L[i])]
  BY <1>2, Zenon DEF Reversed
<1> HIDE DEF R
<1>4. Len(R) = n /\ \A i \in 1 .. n : R[i] = Turned(L[i])
  <2> DEFINE T == {Turned(L[i]) : i \in 1 .. n}
  <2>1. R \in [1 .. n -> T]
    BY <1>3
  <2> HIDE DEF T
  <2>2. R \in Seq(T) /\ Len(R) = n
    BY <1>1, <2>1
  <2> QED
    BY <1>3, <2>2
<1>5. PICK d : IsDecoding(d, Start, L, n) /\ decode(Start, L) = d[n]
  BY <1>1, DecodeSteps
<1>6. PICK e : IsDecoding(e, Start, R, n) /\ decode(Start, R) = e[n]
  BY <1>1, <1>4, DecodeSteps
<1> DEFINE Bad == {i \in Nat : i <= n /\ ~Mirror(d[i], e[i])}
<1>7. ASSUME Bad # {} PROVE FALSE
  <2>1. PICK m \in Bad : \A k \in Bad : m <= k
    BY <1>7, LeastNatural
  <2>2. CASE m = 0
    <3>1. d[0] = Start /\ e[0] = Start
      BY <1>5, <1>6 DEF IsDecoding
    <3>2. Mirror(Start, Start)
      BY DEF Mirror, Start, DecoderFields, SameVerdict
    <3> QED
      BY <2>1, <2>2, <3>1, <3>2
  <2>3. CASE m # 0
    <3>1. m \in 1 .. n /\ m - 1 \in Nat /\ m - 1 \notin Bad /\ m - 1 <= n
      BY <1>1, <2>1, <2>3
    <3>2. Mirror(d[m - 1], e[m - 1])
      BY <3>1
    <3>3. d[m] = DecodeLayer(d[m - 1], L[m]) /\ e[m] = DecodeLayer(e[m - 1], R[m])
      BY <1>5, <1>6, <3>1 DEF IsDecoding
    <3>4. IsHeader(L[m]) /\ R[m] = Turned(L[m])
      BY <1>1, <1>2, <1>4, <3>1
    <3> HIDE DEF L
    <3>5. Mirror(d[m], e[m])
      BY <3>2, <3>3, <3>4, MirrorLayer
    <3> QED
      BY <2>1, <3>5
  <2> QED
    BY <2>2, <2>3
<1>8. Mirror(d[n], e[n])
  BY <1>1, <1>7
<1> QED
  BY <1>5, <1>6, <1>8 DEF Mirror, R

(* Both directions of a connection have one flow key, however its frames   *)
(* are tagged and tunnelled, and they are told apart                       *)
(* (FlowKey::canonical_with_domain, mix_tunnel_domain).                    *)
THEOREM KeysCorrect == Spec => []KeysSymmetric
<1>1. IngestInv => KeysSymmetric
  <2> SUFFICES ASSUME IngestInv, NEW w \in Workers, WAt(w, "gate")
               PROVE  LET r == decode(Start, worker[w].frame.layers).res
                          s == decode(Start, Reversed(worker[w].frame.layers)).res
                      IN  r.kind = "packet" /\ r.key.proto # "vxlan" =>
                              /\ s.kind = "packet" /\ s.key = r.key
                              /\ (\E a, b \in r.key.ends : a # b) => s.from # r.from
    BY DEF KeysSymmetric
  <2> DEFINE r == decode(Start, worker[w].frame.layers).res
             s == decode(Start, Reversed(worker[w].frame.layers)).res
  <2>1. worker[w].frame \in Frames
    BY DEF IngestInv, WorkersInv, WorkerSound
  <2>2. SameVerdict(r, s)
    BY <2>1, SameVerdicts
  <2> HIDE DEF r, s
  <2>3. r.kind = "packet" /\ r.key.proto # "vxlan" =>
          /\ s.kind = "packet" /\ s.key = r.key
          /\ (\E a, b \in r.key.ends : a # b) => s.from # r.from
    <3>1. r.kind = "packet" => r # Going
      BY DEF Going
    <3> QED
      BY <2>2, <3>1 DEF SameVerdict
  <2> QED
    BY <2>3 DEF r, s
<1> QED
  BY <1>1, IngestInvariant, PTL

-----------------------------------------------------------------------------
(* Sums.                                                                   *)

(* A count for each of finitely many things, and their units.              *)
IsTally(f) == IsFiniteSet(DOMAIN f) /\ f \in [DOMAIN f -> Nat]
Units(f) == UNION {{x} \X (1 .. f[x]) : x \in DOMAIN f}

(* The units of a tally are finitely many, so its sum is a number.         *)
LEMMA SumOfTally ==
    ASSUME NEW f, IsTally(f)
    PROVE  /\ IsFiniteSet(Units(f)) /\ SumOf(f) = Cardinality(Units(f)) /\ SumOf(f) \in Nat
           /\ DOMAIN f = {} => SumOf(f) = 0
<1> DEFINE D == DOMAIN f
           U == {{x} \X (1 .. f[x]) : x \in D}
           g == [x \in D |-> {x} \X (1 .. f[x])]
<1>1. IsFiniteSet(D) /\ \A x \in D : f[x] \in Nat
  BY DEF IsTally
<1>2. \A x \in D : IsFiniteSet({x} \X (1 .. f[x]))
  <2> TAKE x \in D
  <2>1. f[x] \in Int /\ 1 \in Int
    BY <1>1
  <2>2. IsFiniteSet(1 .. f[x])
    BY <2>1, FS_Interval
  <2>3. IsFiniteSet({x})
    BY FS_Singleton
  <2> QED
    BY <2>2, <2>3, FS_Product
<1>3. g \in Surjection(D, U)
  BY DEF Surjection
<1>4. IsFiniteSet(U)
  BY <1>1, <1>3, FS_Surjection
<1>5. IsFiniteSet(UNION U)
  BY <1>2, <1>4, FS_UNION
<1>6. SumOf(f) = Cardinality(Units(f)) /\ UNION U = Units(f)
  BY DEF SumOf, Units
<1>7. D = {} => UNION U = {}
  OBVIOUS
<1> QED
  BY <1>5, <1>6, <1>7, FS_CardinalityType, FS_EmptySet

(* The units of one part of a tally and those of the rest are apart.       *)
LEMMA SumOfParts ==
    ASSUME NEW f, IsTally(f), NEW A, NEW B, DOMAIN f = A \cup B, A \cap B = {}
    PROVE  /\ IsTally([x \in A |-> f[x]]) /\ IsTally([x \in B |-> f[x]])
           /\ SumOf(f) = SumOf([x \in A |-> f[x]]) + SumOf([x \in B |-> f[x]])
<1> DEFINE a == [x \in A |-> f[x]]
           b == [x \in B |-> f[x]]
<1>1. IsFiniteSet(A) /\ IsFiniteSet(B)
  BY FS_Subset DEF IsTally
<1>2. IsTally(a) /\ IsTally(b)
  BY <1>1 DEF IsTally
<1>3. /\ IsFiniteSet(Units(f)) /\ IsFiniteSet(Units(a)) /\ IsFiniteSet(Units(b))
      /\ SumOf(f) = Cardinality(Units(f)) /\ SumOf(a) = Cardinality(Units(a))
      /\ SumOf(b) = Cardinality(Units(b)) /\ SumOf(a) \in Nat /\ SumOf(b) \in Nat
  BY <1>2, SumOfTally
<1>4. Units(f) = Units(a) \cup Units(b)
  BY DEF Units
<1>5. Units(a) \cap Units(b) = {}
  BY DEF Units
<1> HIDE DEF a, b
<1>6. Cardinality(Units(a) \cup Units(b)) = Cardinality(Units(a)) + Cardinality(Units(b))
  BY <1>3, <1>5, CardinalityPlus
<1>7. SumOf(f) = SumOf(a) + SumOf(b)
  BY <1>3, <1>4, <1>6
<1> QED
  BY <1>2, <1>7 DEF a, b

(* A tally of one thing.                                                   *)
LEMMA SumOfOne ==
    ASSUME NEW a, NEW n \in Nat
    PROVE  IsTally([x \in {a} |-> n]) /\ SumOf([x \in {a} |-> n]) = n
<1> DEFINE f == [x \in {a} |-> n]
<1>1. IsTally(f)
  BY FS_Singleton DEF IsTally
<1>2. Units(f) = {a} \X (1 .. n)
  BY DEF Units
<1>3. IsFiniteSet(1 .. n) /\ Cardinality(1 .. n) = n
  BY FS_Interval
<1>4. IsFiniteSet({a}) /\ Cardinality({a}) = 1
  BY FS_Singleton
<1>5. Cardinality({a} \X (1 .. n)) = n
  BY <1>3, <1>4, FS_Product
<1>6. SumOf(f) = n
  <2> HIDE DEF f
  <2> QED
    BY <1>1, <1>2, <1>5, SumOfTally
<1> QED
  BY <1>1, <1>6

(* One thing's count apart.                                                *)
LEMMA SumAt ==
    ASSUME NEW f, IsTally(f), NEW a \in DOMAIN f
    PROVE  /\ IsTally([x \in DOMAIN f \ {a} |-> f[x]])
           /\ f[a] \in Nat
           /\ SumOf(f) = SumOf([x \in DOMAIN f \ {a} |-> f[x]]) + f[a]
<1> DEFINE R == DOMAIN f \ {a}
<1>1. DOMAIN f = R \cup {a} /\ R \cap {a} = {}
  OBVIOUS
<1>2. /\ IsTally([x \in R |-> f[x]])
      /\ SumOf(f) = SumOf([x \in R |-> f[x]]) + SumOf([x \in {a} |-> f[x]])
  BY <1>1, SumOfParts
<1>3. f[a] \in Nat
  BY DEF IsTally
<1>4. [x \in {a} |-> f[x]] = [x \in {a} |-> f[a]]
  OBVIOUS
<1> QED
  BY <1>2, <1>3, <1>4, SumOfOne

(* A count that is set, or set anew.                                       *)
LEMMA SumOfPut ==
    ASSUME NEW f, IsTally(f), NEW a, NEW n \in Nat
    PROVE  /\ IsTally(Put(f, a, n))
           /\ a \in DOMAIN f => SumOf(Put(f, a, n)) = SumOf(f) - f[a] + n
           /\ a \notin DOMAIN f => SumOf(Put(f, a, n)) = SumOf(f) + n
<1> DEFINE g == Put(f, a, n)
           D == DOMAIN f \ {a}
<1>1. DOMAIN g = DOMAIN f \cup {a} /\ g[a] = n /\ \A x \in D : g[x] = f[x]
  BY DEF Put
<1>2. IsFiniteSet(DOMAIN g)
  BY <1>1, FS_AddElement DEF IsTally
<1>3. IsTally(g)
  BY <1>2 DEF IsTally, Put
<1> HIDE DEF g
<1>4. DOMAIN g \ {a} = D /\ [x \in D |-> g[x]] = [x \in D |-> f[x]]
  BY <1>1
<1>5. SumOf(g) = SumOf([x \in D |-> f[x]]) + n
  BY <1>1, <1>3, <1>4, SumAt
<1>6. SumOf(f) \in Nat /\ IsTally([x \in D |-> f[x]])
  <2>1. D \in SUBSET DOMAIN f
    OBVIOUS
  <2> QED
    BY <2>1, SumOfTally, FS_Subset DEF IsTally
<1>7. a \in DOMAIN f => SumOf(f) = SumOf([x \in D |-> f[x]]) + f[a] /\ f[a] \in Nat
  BY SumAt
<1>8. a \notin DOMAIN f => [x \in D |-> f[x]] = f
  <2> HAVE a \notin DOMAIN f
  <2>1. D = DOMAIN f
    OBVIOUS
  <2> QED
    BY <2>1 DEF IsTally
<1>9. SumOf([x \in D |-> f[x]]) \in Nat
  BY <1>6, SumOfTally
<1> QED
  BY <1>3, <1>5, <1>6, <1>7, <1>8, <1>9 DEF g

(* Two counts of each thing.                                               *)
LEMMA SumOfBoth ==
    ASSUME NEW D, IsFiniteSet(D), NEW f \in [D -> Nat], NEW g \in [D -> Nat]
    PROVE  SumOf([x \in D |-> f[x] + g[x]]) = SumOf(f) + SumOf(g)
<1> DEFINE s(T) == [x \in T |-> f[x] + g[x]]
           p(T) == [x \in T |-> f[x]]
           q(T) == [x \in T |-> g[x]]
           G == {T \in SUBSET D : SumOf(s(T)) = SumOf(p(T)) + SumOf(q(T))}
<1>1. \A T \in SUBSET D : IsTally(s(T)) /\ IsTally(p(T)) /\ IsTally(q(T))
  BY FS_Subset DEF IsTally
<1>2. {} \in G
  <2>1. SumOf(s({})) = 0 /\ SumOf(p({})) = 0 /\ SumOf(q({})) = 0
    <3>1. DOMAIN s({}) = {} /\ DOMAIN p({}) = {} /\ DOMAIN q({}) = {}
      OBVIOUS
    <3>2. IsTally(s({})) /\ IsTally(p({})) /\ IsTally(q({}))
      BY <1>1
    <3> HIDE DEF s, p, q
    <3> QED
      BY <3>1, <3>2, SumOfTally
  <2> HIDE DEF s, p, q
  <2> QED
    BY <2>1
<1>3. ASSUME NEW T \in SUBSET D, NEW x \in D, T \in G, x \notin T
      PROVE  T \cup {x} \in G
  <2> DEFINE V == T \cup {x}
  <2>1. V \in SUBSET D /\ V \ {x} = T /\ x \in V
    BY <1>3
  <2>2. /\ DOMAIN s(V) = V /\ DOMAIN p(V) = V /\ DOMAIN q(V) = V
        /\ s(V)[x] = f[x] + g[x] /\ p(V)[x] = f[x] /\ q(V)[x] = g[x]
    OBVIOUS
  <2>3. /\ [y \in V \ {x} |-> s(V)[y]] = s(T)
        /\ [y \in V \ {x} |-> p(V)[y]] = p(T)
        /\ [y \in V \ {x} |-> q(V)[y]] = q(T)
    BY <2>1
  <2>4. IsTally(s(V)) /\ IsTally(p(V)) /\ IsTally(q(V))
    BY <1>1, <2>1
  <2>5. IsTally(s(T)) /\ IsTally(p(T)) /\ IsTally(q(T))
    BY <1>1
  <2>6. SumOf(s(T)) = SumOf(p(T)) + SumOf(q(T))
    BY <1>3
  <2> HIDE DEF V, s, p, q
  <2>7. /\ SumOf(s(V)) = SumOf(s(T)) + (f[x] + g[x])
        /\ SumOf(p(V)) = SumOf(p(T)) + f[x]
        /\ SumOf(q(V)) = SumOf(q(T)) + g[x]
    BY <2>1, <2>2, <2>3, <2>4, SumAt
  <2>8. SumOf(p(T)) \in Nat /\ SumOf(q(T)) \in Nat /\ f[x] \in Nat /\ g[x] \in Nat
    BY <2>5, SumOfTally
  <2>9. SumOf(s(V)) = SumOf(p(V)) + SumOf(q(V))
    BY <2>6, <2>7, <2>8
  <2> QED
    BY <2>1, <2>9 DEF V
<1>4. ASSUME NEW T \in SUBSET D, NEW x \in D, T \in G
      PROVE  T \cup {x} \in G
  <2>1. CASE x \in T
    <3>1. T \cup {x} = T
      BY <2>1
    <3> HIDE DEF G
    <3> QED
      BY <1>4, <3>1
  <2> QED
    BY <1>3, <1>4, <2>1
<1> HIDE DEF G
<1>5. D \in G
  BY <1>2, <1>4, FiniteSetInduction
<1>6. p(D) = f /\ q(D) = g
  OBVIOUS
<1> QED
  BY <1>5, <1>6 DEF G

-----------------------------------------------------------------------------
(* The topology loses and doubles no packet.                               *)

(* Nothing is counted anywhere.                                            *)
LEMMA SumOfNothing ==
    ASSUME NEW f, IsTally(f), \A x \in DOMAIN f : f[x] = 0
    PROVE  SumOf(f) = 0
<1>1. Units(f) = {}
  BY DEF Units
<1> QED
  BY <1>1, SumOfTally, FS_EmptySet

(* What a tally counts of some things, which it may not have.              *)
LEMMA SumOfCounts ==
    ASSUME NEW f, IsTally(f), NEW K, IsFiniteSet(K)
    PROVE  /\ [x \in K |-> Count(f, x)] \in [K -> Nat]
           /\ IsTally([x \in K |-> Count(f, x)])
           /\ SumOf([x \in K |-> Count(f, x)]) = SumOf([x \in K \cap DOMAIN f |-> f[x]])
           /\ SumOf([x \in K \cap DOMAIN f |-> f[x]]) \in Nat
<1> DEFINE c == [x \in K |-> Count(f, x)]
           A == K \cap DOMAIN f
           B == K \ DOMAIN f
<1>1. c \in [K -> Nat] /\ DOMAIN c = K
  BY DEF Count, IsTally
<1>2. IsTally(c)
  BY <1>1 DEF IsTally
<1>3. [x \in A |-> c[x]] = [x \in A |-> f[x]] /\ \A x \in B : c[x] = 0
  BY DEF Count
<1> HIDE DEF c
<1>4. DOMAIN c = A \cup B /\ A \cap B = {}
  BY <1>1
<1>5. /\ SumOf(c) = SumOf([x \in A |-> c[x]]) + SumOf([x \in B |-> c[x]])
      /\ IsTally([x \in A |-> c[x]]) /\ IsTally([x \in B |-> c[x]])
  BY <1>2, <1>4, SumOfParts
<1>6. SumOf([x \in B |-> c[x]]) = 0
  <2> DEFINE z == [x \in B |-> c[x]]
  <2>1. \A x \in DOMAIN z : z[x] = 0
    BY <1>3
  <2> HIDE DEF z
  <2>2. IsTally(z) => SumOf(z) = 0
    BY <2>1, SumOfNothing
  <2> QED
    BY <1>5, <2>2 DEF z
<1>7. SumOf([x \in A |-> c[x]]) \in Nat
  BY <1>5, SumOfTally
<1>8. SumOf(c) = SumOf([x \in A |-> f[x]]) /\ SumOf([x \in A |-> f[x]]) \in Nat
  BY <1>3, <1>5, <1>6, <1>7
<1> QED
  BY <1>1, <1>2, <1>8 DEF c

(* The table of the topology, and the packets counted in it.               *)
IsTable(t) ==
    /\ DOMAIN t = {"sources", "overflow"} /\ t.overflow \in Nat
    /\ IsFiniteSet(DOMAIN t.sources)
    /\ t.sources \in [DOMAIN t.sources -> [packets : Nat, age : Nat]]

InTable(t) == Packets(t.sources, DOMAIN t.sources)

(* Of a table, each source's packets are a tally.                          *)
LEMMA TableTally ==
    ASSUME NEW t, IsTable(t), NEW S, S \subseteq DOMAIN t.sources
    PROVE  /\ IsTally([x \in S |-> t.sources[x].packets])
           /\ Packets(t.sources, S) = SumOf([x \in S |-> t.sources[x].packets])
           /\ Packets(t.sources, S) \in Nat
<1>1. IsFiniteSet(S)
  BY FS_Subset DEF IsTable
<1>2. IsTally([x \in S |-> t.sources[x].packets])
  BY <1>1 DEF IsTally, IsTable
<1> QED
  BY <1>2, SumOfTally DEF Packets

(* A merge puts every packet of the batch in the table or in the overflow  *)
(* (merge_batch), whoever enters.                                          *)
LEMMA MergeKeeps ==
    ASSUME NEW t, IsTable(t), NEW batch, IsTally(batch), NEW m \in Merged(t, batch)
    PROVE  /\ IsTable(m)
           /\ m.overflow + InTable(m) = t.overflow + InTable(t) + SumOf(batch)
<1> DEFINE known == DOMAIN t.sources
           new == DOMAIN batch \ known
           was == [y \in known |-> t.sources[y].packets]
           rows(in) == [x \in known \cup in |->
                          [packets |-> Count(was, x) + Count(batch, x),
                           age |-> IF x \in DOMAIN batch THEN 0 ELSE t.sources[x].age]]
<1>1. PICK in \in SUBSET new :
        m = [sources |-> rows(in), overflow |-> t.overflow + SumOf(Restrict(batch, new \ in))]
  BY Zenon DEF Merged
<1> DEFINE K == known \cup in
           over == [x \in new \ in |-> batch[x]]
<1>2. IsFiniteSet(known) /\ IsFiniteSet(in) /\ IsFiniteSet(K)
  <2>1. IsFiniteSet(known) /\ IsFiniteSet(DOMAIN batch)
    BY DEF IsTable, IsTally
  <2>2. in \in SUBSET DOMAIN batch
    OBVIOUS
  <2>3. IsFiniteSet(in)
    BY <2>1, <2>2, FS_Subset
  <2> QED
    BY <2>1, <2>3, FS_Union
<1>3. Restrict(batch, new \ in) = over
  BY DEF Restrict
<1>4. /\ IsTally(was) /\ InTable(t) = SumOf(was) /\ InTable(t) \in Nat
  BY TableTally DEF InTable
<1>5. DOMAIN was = known
  OBVIOUS
<1>6. /\ m.sources = rows(in) /\ m.overflow = t.overflow + SumOf(over)
      /\ DOMAIN m = {"sources", "overflow"}
  BY <1>1, <1>3
<1> HIDE DEF was
<1> DEFINE f == [x \in K |-> Count(was, x)]
           g == [x \in K |-> Count(batch, x)]
<1>7. /\ f \in [K -> Nat] /\ g \in [K -> Nat]
      /\ SumOf(f) = SumOf([x \in K \cap known |-> was[x]])
      /\ SumOf(g) = SumOf([x \in K \cap DOMAIN batch |-> batch[x]])
      /\ SumOf([x \in K \cap DOMAIN batch |-> batch[x]]) \in Nat
  BY <1>2, <1>4, <1>5, SumOfCounts
<1>8. [x \in K \cap known |-> was[x]] = was
  <2>1. K \cap known = known
    OBVIOUS
  <2> QED
    BY <1>4, <1>5, <2>1 DEF IsTally
<1>9. /\ IsTally(over)
      /\ SumOf(batch) = SumOf([x \in K \cap DOMAIN batch |-> batch[x]]) + SumOf(over)
  <2>1. /\ DOMAIN batch = (K \cap DOMAIN batch) \cup (new \ in)
        /\ (K \cap DOMAIN batch) \cap (new \ in) = {}
    OBVIOUS
  <2> QED
    BY <2>1, SumOfParts
<1>10. SumOf(over) \in Nat
  BY <1>9, SumOfTally
<1>11. DOMAIN rows(in) = K /\ \A x \in K : rows(in)[x] \in [packets : Nat, age : Nat]
                                      /\ rows(in)[x].packets = f[x] + g[x]
  <2> SUFFICES ASSUME NEW x \in K
               PROVE  rows(in)[x] \in [packets : Nat, age : Nat] /\ rows(in)[x].packets = f[x] + g[x]
    OBVIOUS
  <2>1. f[x] \in Nat /\ g[x] \in Nat
    BY <1>7
  <2>2. x \notin DOMAIN batch => t.sources[x].age \in Nat
    BY DEF IsTable
  <2>3. rows(in)[x] = [packets |-> f[x] + g[x],
                       age |-> IF x \in DOMAIN batch THEN 0 ELSE t.sources[x].age]
    OBVIOUS
  <2> HIDE DEF rows, f, g
  <2> QED
    BY <2>1, <2>2, <2>3
<1> HIDE DEF rows, f, g
<1>12. IsTable(m)
  <2>1. m.overflow \in Nat
    BY <1>6, <1>10 DEF IsTable
  <2>2. IsFiniteSet(DOMAIN m.sources)
    BY <1>2, <1>6, <1>11
  <2>3. m.sources \in [DOMAIN m.sources -> [packets : Nat, age : Nat]]
    <3>1. rows(in) = [x \in K |-> rows(in)[x]]
      BY DEF rows
    <3> QED
      BY <1>6, <1>11, <3>1
  <2> QED
    BY <1>6, <2>1, <2>2, <2>3 DEF IsTable
<1>13. InTable(m) = SumOf(f) + SumOf(g)
  <2>1. [x \in K |-> rows(in)[x].packets] = [x \in K |-> f[x] + g[x]]
    BY <1>11
  <2>2. InTable(m) = SumOf([x \in K |-> f[x] + g[x]])
    BY <1>6, <1>11, <2>1 DEF InTable, Packets
  <2> QED
    BY <1>2, <1>7, <2>2, SumOfBoth
<1>14. t.overflow \in Nat
  BY DEF IsTable
<1> QED
  BY <1>4, <1>6, <1>7, <1>8, <1>9, <1>10, <1>12, <1>13, <1>14

(* The packets of the sources that a collection would take.                *)
Gone(t) == Packets(t.sources, DOMAIN t.sources \ Alive(t.sources))

(* Collection takes exactly those.                                         *)
LEMMA CollectKeeps ==
    ASSUME NEW t, IsTable(t)
    PROVE  /\ IsTable(Collected(t)) /\ Collected(t).overflow = t.overflow
           /\ InTable(t) = InTable(Collected(t)) + Gone(t)
           /\ InTable(Collected(t)) \in Nat /\ Gone(t) \in Nat
<1> DEFINE D == DOMAIN t.sources
           A == Alive(t.sources)
           f == [x \in D |-> t.sources[x].packets]
           c == Collected(t)
<1>1. A \subseteq D
  BY DEF Alive
<1> HIDE DEF A
<1>2. /\ DOMAIN c = {"sources", "overflow"} /\ c.overflow = t.overflow
      /\ c.sources = [x \in A |-> t.sources[x]]
  BY DEF Collected, IsTable, Restrict, A
<1> HIDE DEF c
<1>3. DOMAIN c.sources = A
  BY <1>2
<1>4. IsFiniteSet(A)
  BY <1>1, FS_Subset DEF IsTable
<1>5. IsTable(c)
  BY <1>1, <1>2, <1>3, <1>4 DEF IsTable
<1>6. IsTally(f) /\ InTable(t) = SumOf(f)
  BY TableTally DEF InTable
<1>7. /\ [x \in A |-> f[x]] = [x \in A |-> c.sources[x].packets]
      /\ [x \in D \ A |-> f[x]] = [x \in D \ A |-> t.sources[x].packets]
  BY <1>1, <1>2
<1>8. DOMAIN f = A \cup (D \ A) /\ A \cap (D \ A) = {}
  BY <1>1
<1> HIDE DEF f
<1>9. SumOf(f) = SumOf([x \in A |-> f[x]]) + SumOf([x \in D \ A |-> f[x]])
  BY <1>6, <1>8, SumOfParts
<1>10. InTable(c) = SumOf([x \in A |-> f[x]]) /\ Gone(t) = SumOf([x \in D \ A |-> f[x]])
  BY <1>3, <1>7 DEF InTable, Packets, Gone, A
<1>11. InTable(c) \in Nat
  BY <1>5, TableTally DEF InTable
<1>12. Gone(t) \in Nat
  BY TableTally DEF Gone
<1> QED
  BY <1>2, <1>5, <1>6, <1>9, <1>10, <1>11, <1>12 DEF c

-----------------------------------------------------------------------------
(* The inductive invariant of the topology.                                *)

InHands(p) == SumOf([w \in Workers |-> SumOf(p[w])])

TopologyInv ==
    /\ DOMAIN worker = Workers
    /\ DOMAIN pending = Workers /\ pending = [w \in Workers |-> pending[w]]
    /\ \A w \in Workers : IsTally(pending[w])
    /\ IsTable(topo) /\ observed \in Nat /\ forgotten \in Nat
    /\ observed = forgotten + topo.overflow + InTable(topo) + InHands(pending)
    /\ \A w \in Workers : WAt(w, "stopped") => pending[w] = <<>>

(* The batches of all workers when w's becomes b.                          *)
LEMMA HandsChange ==
    ASSUME NEW p, DOMAIN p = Workers, \A v \in Workers : IsTally(p[v]),
           NEW w \in Workers, NEW b, IsTally(b), NEW q, q = [p EXCEPT ![w] = b]
    PROVE  /\ InHands(p) \in Nat /\ InHands(q) \in Nat /\ SumOf(b) \in Nat /\ SumOf(p[w]) \in Nat
           /\ InHands(q) + SumOf(p[w]) = InHands(p) + SumOf(b)
<1> DEFINE f == [v \in Workers |-> SumOf(p[v])]
           g == [v \in Workers |-> SumOf(q[v])]
<1>1. /\ \A v \in Workers : SumOf(p[v]) \in Nat
      /\ SumOf(b) \in Nat
  BY SumOfTally
<1>2. IsTally(f)
  BY <1>1, WorkersAssumption DEF IsTally
<1>3. q[w] = b /\ \A v \in Workers \ {w} : q[v] = p[v]
  OBVIOUS
<1>4. g = Put(f, w, SumOf(b))
  BY <1>3 DEF Put
<1>5. w \in DOMAIN f /\ f[w] = SumOf(p[w])
  OBVIOUS
<1>6. InHands(p) = SumOf(f) /\ InHands(q) = SumOf(g)
  BY DEF InHands
<1> HIDE DEF f, g
<1>7. SumOf(g) = SumOf(f) - f[w] + SumOf(b) /\ IsTally(g)
  BY <1>1, <1>2, <1>4, <1>5, SumOfPut
<1>8. SumOf(f) \in Nat /\ SumOf(g) \in Nat
  BY <1>2, <1>7, SumOfTally
<1> QED
  BY <1>1, <1>5, <1>6, <1>7, <1>8

(* The empty batch.                                                        *)
LEMMA EmptyTally == IsTally(<<>>) /\ SumOf(<<>>) = 0
<1>1. <<>> \in [{} -> Nat] /\ DOMAIN <<>> = {}
  OBVIOUS
<1>2. IsTally(<<>>)
  BY <1>1, FS_EmptySet DEF IsTally
<1> QED
  BY <1>1, <1>2, SumOfTally

(* A flush of b takes its packets to the table, the overflow or, for       *)
(* sources that go, to the forgotten ones (LocalTopologyObserver::flush).  *)
LEMMA FlushKeeps ==
    ASSUME TopologyInv, NEW w \in Workers, NEW b, IsTally(b), Flush(w, b)
    PROVE  /\ pending' = [pending EXCEPT ![w] = <<>>]
           /\ IsTable(topo') /\ forgotten' \in Nat
           /\ forgotten' + topo'.overflow + InTable(topo')
                = forgotten + topo.overflow + InTable(topo) + SumOf(b)
<1>1. PICK gc \in BOOLEAN :
        LET t == IF gc THEN Collected(topo) ELSE topo
        IN  IF b = <<>> THEN UNCHANGED <<topo, forgotten>>
            ELSE /\ topo' \in Merged(t, b)
                 /\ forgotten' = forgotten +
                      IF gc THEN Packets(topo.sources, DOMAIN topo.sources \ Alive(topo.sources))
                      ELSE 0
  BY DEF Flush
<1>2. pending' = [pending EXCEPT ![w] = <<>>]
  BY DEF Flush
<1>3. IsTable(topo) /\ forgotten \in Nat /\ topo.overflow \in Nat /\ InTable(topo) \in Nat
  BY TableTally DEF TopologyInv, InTable, IsTable
<1>4. CASE b = <<>>
  <2>1. topo' = topo /\ forgotten' = forgotten
    BY <1>1, <1>4
  <2>2. InTable(topo') = InTable(topo)
    BY <2>1 DEF InTable
  <2> QED
    BY <1>2, <1>3, <1>4, <2>1, <2>2, EmptyTally
<1>5. CASE b # <<>>
  <2> DEFINE t == IF gc THEN Collected(topo) ELSE topo
             gone == IF gc THEN Gone(topo) ELSE 0
  <2>1. topo' \in Merged(t, b) /\ forgotten' = forgotten + gone
    BY <1>1, <1>5 DEF Gone
  <2>2. /\ IsTable(t) /\ t.overflow = topo.overflow /\ gone \in Nat /\ InTable(t) \in Nat
        /\ InTable(topo) = InTable(t) + gone
    BY <1>3, CollectKeeps
  <2> HIDE DEF t, gone
  <2>3. PICK m : m = topo'
    OBVIOUS
  <2>4. IsTable(m) /\ m.overflow + InTable(m) = t.overflow + InTable(t) + SumOf(b)
    BY <2>1, <2>2, <2>3, MergeKeeps
  <2>5. InTable(m) \in Nat /\ m.overflow \in Nat /\ SumOf(b) \in Nat
    BY <2>4, TableTally, SumOfTally DEF InTable, IsTable
  <2>6. forgotten' + m.overflow + InTable(m) = forgotten + topo.overflow + InTable(topo) + SumOf(b)
    BY <1>3, <2>1, <2>2, <2>4, <2>5
  <2> QED
    BY <1>2, <1>3, <2>1, <2>2, <2>3, <2>4, <2>6 DEF InTable
<1> QED
  BY <1>4, <1>5

(* A worker's step that leaves the topology alone, or no worker's step.    *)
LEMMA TopologyRests ==
    ASSUME TopologyInv, UNCHANGED topoVars, DOMAIN worker' = Workers,
           \A w \in Workers : worker'[w].at = "stopped" => worker[w].at = "stopped"
    PROVE  TopologyInv'
<1>1. pending' = pending /\ topo' = topo /\ observed' = observed /\ forgotten' = forgotten
  BY DEF topoVars
<1> QED
  BY <1>1 DEF TopologyInv, InTable, InHands, WAt

(* A worker's step that counts k packets, so that its batch becomes b, and *)
(* that flushes or keeps the batch.                                        *)
LEMMA TopologyMoves ==
    ASSUME TopologyInv, NEW w \in Workers, NEW b, IsTally(b), NEW k \in Nat,
           SumOf(b) = SumOf(pending[w]) + k, observed' = observed + k,
           DOMAIN worker' = Workers, \A v \in Workers \ {w} : worker'[v] = worker[v],
           Flush(w, b) \/ (KeepPending(w, b) /\ worker'[w].at # "stopped")
    PROVE  TopologyInv'
<1>1. /\ DOMAIN pending = Workers /\ \A v \in Workers : IsTally(pending[v])
      /\ IsTable(topo) /\ observed \in Nat /\ forgotten \in Nat
      /\ observed = forgotten + topo.overflow + InTable(topo) + InHands(pending)
      /\ \A v \in Workers : worker[v].at = "stopped" => pending[v] = <<>>
      /\ pending = [v \in Workers |-> pending[v]]
  BY DEF TopologyInv, WAt
<1>2. topo.overflow \in Nat /\ InTable(topo) \in Nat
  BY <1>1, TableTally DEF InTable, IsTable
<1>3. PICK q, m, n : q = pending' /\ m = topo' /\ n = forgotten'
  OBVIOUS
<1>4. PICK e : /\ IsTally(e) /\ q = [pending EXCEPT ![w] = e]
               /\ e = <<>> \/ worker'[w].at # "stopped"
               /\ IsTable(m) /\ n \in Nat
               /\ n + m.overflow + InTable(m) + SumOf(e)
                    = forgotten + topo.overflow + InTable(topo) + SumOf(b)
  <2>1. CASE Flush(w, b)
    <3>1. /\ q = [pending EXCEPT ![w] = <<>>] /\ IsTable(m) /\ n \in Nat
          /\ n + m.overflow + InTable(m) = forgotten + topo.overflow + InTable(topo) + SumOf(b)
      <4>1. /\ pending' = [pending EXCEPT ![w] = <<>>]
            /\ IsTable(topo') /\ forgotten' \in Nat
            /\ forgotten' + topo'.overflow + InTable(topo')
                 = forgotten + topo.overflow + InTable(topo) + SumOf(b)
        BY <2>1, FlushKeeps
      <4> QED
        BY <1>3, <4>1
    <3>2. m.overflow \in Nat /\ InTable(m) \in Nat
      BY <3>1, TableTally DEF InTable, IsTable
    <3>3. n + m.overflow + InTable(m) + SumOf(<<>>)
            = forgotten + topo.overflow + InTable(topo) + SumOf(b)
      BY <3>1, <3>2, EmptyTally
    <3> QED
      BY <3>1, <3>3, EmptyTally
  <2>2. CASE KeepPending(w, b) /\ worker'[w].at # "stopped"
    <3>1. q = [pending EXCEPT ![w] = b] /\ m = topo /\ n = forgotten
      BY <1>3, <2>2 DEF KeepPending
    <3> QED
      BY <1>1, <2>2, <3>1
  <2> QED
    BY <2>1, <2>2
<1>5. /\ InHands(pending) \in Nat /\ InHands(q) \in Nat /\ SumOf(e) \in Nat
      /\ SumOf(pending[w]) \in Nat
      /\ InHands(q) + SumOf(pending[w]) = InHands(pending) + SumOf(e)
  BY <1>1, <1>4, HandsChange
<1>6. m.overflow \in Nat /\ InTable(m) \in Nat
  BY <1>4, TableTally DEF InTable, IsTable
<1>7. observed' = n + m.overflow + InTable(m) + InHands(q) /\ observed' \in Nat
  <2>1. PICK in, out, over, on :
          in = InTable(topo) /\ out = InTable(m) /\ over = m.overflow /\ on = InHands(q)
    OBVIOUS
  <2>2. PICK was, sb, sp, se, o :
          /\ was = InHands(pending) /\ sb = SumOf(b) /\ sp = SumOf(pending[w]) /\ se = SumOf(e)
          /\ o = topo.overflow
    OBVIOUS
  <2>3. /\ on + sp = was + se /\ sb = sp + k
        /\ observed = forgotten + o + in + was
        /\ n + over + out + se = forgotten + o + in + sb
    BY <1>1, <1>4, <1>5, <2>1, <2>2
  <2>4. /\ in \in Nat /\ out \in Nat /\ on \in Nat /\ was \in Nat /\ sp \in Nat /\ se \in Nat
        /\ n \in Nat /\ over \in Nat /\ forgotten \in Nat /\ o \in Nat /\ observed \in Nat
    BY <1>1, <1>2, <1>4, <1>5, <1>6, <2>1, <2>2
  <2>5. observed + k = n + over + out + on /\ observed + k \in Nat
    BY <2>3, <2>4
  <2> QED
    BY <2>1, <2>5
<1>8. /\ DOMAIN q = Workers /\ q = [v \in Workers |-> q[v]]
      /\ \A v \in Workers : IsTally(q[v])
      /\ \A v \in Workers : worker'[v].at = "stopped" => q[v] = <<>>
  BY <1>1, <1>4
<1>9. /\ observed' = forgotten' + topo'.overflow + InTable(topo') + InHands(pending')
      /\ IsTable(topo') /\ forgotten' \in Nat /\ observed' \in Nat
      /\ DOMAIN pending' = Workers /\ pending' = [v \in Workers |-> pending'[v]]
      /\ \A v \in Workers : IsTally(pending'[v])
      /\ \A v \in Workers : worker'[v].at = "stopped" => pending'[v] = <<>>
  BY <1>3, <1>4, <1>7, <1>8
<1> QED
  BY <1>9 DEF TopologyInv, InTable, InHands, WAt

(* A packet more in a batch.                                               *)
LEMMA BatchGrows ==
    ASSUME NEW f, IsTally(f), NEW x
    PROVE  /\ IsTally(Put(f, x, Count(f, x) + 1))
           /\ SumOf(Put(f, x, Count(f, x) + 1)) = SumOf(f) + 1
<1>1. Count(f, x) \in Nat /\ SumOf(f) \in Nat
  BY SumOfTally DEF Count, IsTally
<1>2. /\ x \in DOMAIN f => Count(f, x) = f[x]
      /\ x \notin DOMAIN f => Count(f, x) = 0
  BY DEF Count
<1>3. /\ IsTally(Put(f, x, Count(f, x) + 1))
      /\ x \in DOMAIN f => SumOf(Put(f, x, Count(f, x) + 1)) = SumOf(f) - f[x] + (Count(f, x) + 1)
      /\ x \notin DOMAIN f => SumOf(Put(f, x, Count(f, x) + 1)) = SumOf(f) + (Count(f, x) + 1)
  BY <1>1, SumOfPut
<1> QED
  BY <1>1, <1>2, <1>3

(* The steps of a worker.                                                  *)
LEMMA TopologyWorkers ==
    ASSUME TopologyInv, NEW w \in Workers, WorkerStep(w)
    PROVE  TopologyInv'
<1>1. DOMAIN worker = Workers /\ IsTally(pending[w])
  BY DEF TopologyInv
<1>2. SumOf(pending[w]) \in Nat /\ observed \in Nat
  BY <1>1, SumOfTally DEF TopologyInv
<1>3. CASE InstallFails(w)
  <2>1. /\ Flush(w, pending[w]) /\ observed' = observed + 0
        /\ DOMAIN worker' = Workers /\ \A v \in Workers \ {w} : worker'[v] = worker[v]
    BY <1>1, <1>2, <1>3 DEF InstallFails, WGoto
  <2> QED
    BY <1>1, <1>2, <2>1, TopologyMoves
<1>4. CASE NoFrame(w)
  <2>1. /\ Flush(w, pending[w]) \/ KeepPending(w, pending[w])
        /\ observed' = observed + 0
        /\ DOMAIN worker' = Workers /\ \A v \in Workers \ {w} : worker'[v] = worker[v]
        /\ worker'[w].at # "stopped"
    BY <1>1, <1>2, <1>4 DEF NoFrame, WGoto, Top
  <2> QED
    BY <1>1, <1>2, <2>1, TopologyMoves
<1>5. CASE Gate(w)
  <2> DEFINE p == worker[w].pkt
             b == Put(pending[w], p.src, Count(pending[w], p.src) + 1)
  <2>1. /\ DOMAIN worker' = Workers /\ \A v \in Workers \ {w} : worker'[v] = worker[v]
        /\ worker'[w].at # "stopped"
    <3>1. PICK s : s.at # "stopped" /\ worker' = [worker EXCEPT ![w] = s]
      <4> DEFINE u == [at |-> "send", pkt |-> p]
      <4>1. worker' = [worker EXCEPT ![w] = u] \/ worker' = [worker EXCEPT ![w] = Top]
        BY <1>5 DEF Gate, WGoto
      <4>2. u.at # "stopped" /\ Top.at # "stopped"
        BY DEF Top
      <4> HIDE DEF u
      <4> QED
        BY <4>1, <4>2
    <3> QED
      BY <1>1, <3>1
  <2>2. \/ UNCHANGED topoVars
        \/ observed' = observed + 1 /\ (Flush(w, b) \/ KeepPending(w, b))
    BY <1>5, Zenon DEF Gate
  <2>3. IsTally(b) /\ SumOf(b) = SumOf(pending[w]) + 1
    BY <1>1, BatchGrows
  <2> HIDE DEF b
  <2>4. CASE UNCHANGED topoVars
    <3>1. \A v \in Workers : worker'[v].at = "stopped" => worker[v].at = "stopped"
      BY <2>1
    <3> QED
      BY <2>1, <2>4, <3>1, TopologyRests
  <2>5. CASE observed' = observed + 1 /\ (Flush(w, b) \/ KeepPending(w, b))
    BY <2>1, <2>3, <2>5, TopologyMoves
  <2> QED
    BY <2>2, <2>4, <2>5
<1>6. CASE \/ CheckGeneration(w) \/ ReadPorts(w) \/ InstallFilter(w) \/ Send(w)
           \/ \E f \in Frames : Receive(w, f)
  <2>1. UNCHANGED topoVars
    BY <1>6 DEF CheckGeneration, ReadPorts, InstallFilter, Send, Receive, Rest
  <2>2. PICK s : s.at # "stopped" /\ worker' = [worker EXCEPT ![w] = s]
    <3>1. CASE CheckGeneration(w)
      <4> DEFINE u == [at |-> "ports", read |-> generation]
                 v == [at |-> "recv"]
      <4>1. worker' = [worker EXCEPT ![w] = u] \/ worker' = [worker EXCEPT ![w] = v]
        BY <3>1 DEF CheckGeneration, WGoto
      <4>2. u.at # "stopped" /\ v.at # "stopped"
        OBVIOUS
      <4> HIDE DEF u, v
      <4> QED
        BY <4>1, <4>2
    <3>2. CASE ReadPorts(w)
      <4> DEFINE u == [at |-> "install", read |-> worker[w].read, ports |-> services]
      <4>1. worker' = [worker EXCEPT ![w] = u]
        BY <3>2 DEF ReadPorts, WGoto
      <4>2. u.at # "stopped"
        OBVIOUS
      <4> HIDE DEF u
      <4> QED
        BY <4>1, <4>2
    <3>3. CASE InstallFilter(w)
      <4> DEFINE u == [at |-> "recv"]
      <4>1. worker' = [worker EXCEPT ![w] = u]
        BY <3>3 DEF InstallFilter
      <4>2. u.at # "stopped"
        OBVIOUS
      <4> HIDE DEF u
      <4> QED
        BY <4>1, <4>2
    <3>4. CASE Send(w)
      <4>1. worker' = [worker EXCEPT ![w] = Top]
        BY <3>4 DEF Send, WGoto
      <4>2. Top.at # "stopped"
        BY DEF Top
      <4> QED
        BY <4>1, <4>2
    <3>5. ASSUME NEW f \in Frames, Receive(w, f) 
          PROVE  \E s : s.at # "stopped" /\ worker' = [worker EXCEPT ![w] = s]
      <4> DEFINE u(p) == [at |-> "gate", pkt |-> p, frame |-> f]
      <4>1. worker' = [worker EXCEPT ![w] = Top] \/ \E p : worker' = [worker EXCEPT ![w] = u(p)]
        BY <3>5, Zenon DEF Receive, WGoto
      <4>2. Top.at # "stopped" /\ \A p : u(p).at # "stopped"
        BY DEF Top
      <4> HIDE DEF u
      <4> QED
        BY <4>1, <4>2
    <3> QED
      BY <1>6, <3>1, <3>2, <3>3, <3>4, <3>5
  <2>3. /\ DOMAIN worker' = Workers
        /\ \A v \in Workers : worker'[v].at = "stopped" => worker[v].at = "stopped"
    BY <1>1, <2>2
  <2> QED
    BY <2>1, <2>3, TopologyRests
<1> QED
  BY <1>3, <1>4, <1>5, <1>6 DEF WorkerStep

(* A snapshot collects first (TopologyTracker::snapshot).                  *)
LEMMA TopologyCollects == TopologyInv /\ Snapshot => TopologyInv'
<1> SUFFICES ASSUME TopologyInv, Snapshot PROVE TopologyInv'
  OBVIOUS
<1>1. PICK m : m = topo'
  OBVIOUS
<1>2. /\ m = Collected(topo) /\ forgotten' = forgotten + Gone(topo)
      /\ pending' = pending /\ observed' = observed /\ worker' = worker
  BY <1>1 DEF Snapshot, Gone, workerVars
<1>3. /\ IsTable(m) /\ m.overflow = topo.overflow /\ InTable(topo) = InTable(m) + Gone(topo)
      /\ InTable(m) \in Nat /\ Gone(topo) \in Nat
  BY <1>2, CollectKeeps DEF TopologyInv
<1>4. InHands(pending) \in Nat
  <2> DEFINE f == [v \in Workers |-> SumOf(pending[v])]
  <2>1. IsTally(f)
    BY SumOfTally, WorkersAssumption DEF IsTally, TopologyInv
  <2> QED
    BY <2>1, SumOfTally DEF InHands
<1>5. /\ observed \in Nat /\ forgotten \in Nat /\ topo.overflow \in Nat
      /\ observed = forgotten + topo.overflow + InTable(topo) + InHands(pending)
  BY DEF TopologyInv, IsTable
<1>6. /\ forgotten' \in Nat
      /\ observed' = forgotten' + m.overflow + InTable(m) + InHands(pending)
  BY <1>2, <1>3, <1>4, <1>5
<1>7. IsTable(topo') /\ observed' = forgotten' + topo'.overflow + InTable(topo') + InHands(pending')
  BY <1>1, <1>2, <1>3, <1>6
<1> QED
  BY <1>2, <1>5, <1>6, <1>7 DEF TopologyInv, InTable, InHands, WAt

(* Time changes no count.                                                  *)
LEMMA TopologyAges == TopologyInv /\ Tick => TopologyInv'
<1> SUFFICES ASSUME TopologyInv, Tick PROVE TopologyInv'
  OBVIOUS
<1>1. PICK m : m = topo'
  OBVIOUS
<1> DEFINE D == DOMAIN topo.sources
           older(x) == [packets |-> topo.sources[x].packets,
                        age |-> IF topo.sources[x].age <= SourceTtl THEN topo.sources[x].age + 1
                                ELSE topo.sources[x].age]
<1>2. /\ m = [topo EXCEPT !.sources = [x \in D |-> older(x)]]
      /\ forgotten' = forgotten /\ pending' = pending /\ observed' = observed /\ worker' = worker
  BY <1>1 DEF Tick, workerVars
<1>3. \A x \in D : /\ older(x) \in [packets : Nat, age : Nat]
                   /\ older(x).packets = topo.sources[x].packets
  BY DEF TopologyInv, IsTable
<1> HIDE DEF older
<1>4. /\ DOMAIN m = {"sources", "overflow"} /\ m.overflow = topo.overflow
      /\ m.sources = [x \in D |-> older(x)]
  BY <1>2 DEF TopologyInv, IsTable
<1>5. IsTable(m)
  BY <1>3, <1>4 DEF TopologyInv, IsTable
<1>6. InTable(m) = InTable(topo)
  <2>1. DOMAIN m.sources = D /\ [x \in D |-> m.sources[x].packets] = [x \in D |-> topo.sources[x].packets]
    BY <1>3, <1>4
  <2> QED
    BY <2>1 DEF InTable, Packets
<1>7. IsTable(topo') /\ topo'.overflow = topo.overflow /\ InTable(topo') = InTable(topo)
  BY <1>1, <1>4, <1>5, <1>6
<1> QED
  BY <1>2, <1>7 DEF TopologyInv, InTable, InHands, WAt

(* The initial table and batches are empty.                                *)
LEMMA TopologyInit == Init => TopologyInv
<1> SUFFICES ASSUME Init PROVE TopologyInv
  OBVIOUS
<1>1. /\ DOMAIN worker = Workers /\ pending = [w \in Workers |-> <<>>]
      /\ topo = [sources |-> <<>>, overflow |-> 0] /\ observed = 0 /\ forgotten = 0
      /\ \A w \in Workers : worker[w].at = "top"
  BY DEF Init, Top
<1>2. DOMAIN topo = {"sources", "overflow"} /\ topo.sources = <<>> /\ topo.overflow = 0
  BY <1>1
<1>3. IsTable(topo) /\ InTable(topo) = 0
  <2>1. DOMAIN topo.sources = {} /\ <<>> \in [{} -> [packets : Nat, age : Nat]]
    BY <1>2
  <2>2. IsTable(topo)
    BY <1>2, <2>1, FS_EmptySet DEF IsTable
  <2>3. IsTally([x \in {} |-> topo.sources[x].packets])
    BY <2>1, <2>2, TableTally
  <2>4. InTable(topo) = SumOf([x \in {} |-> topo.sources[x].packets])
    BY <2>1 DEF InTable, Packets
  <2> QED
    BY <2>2, <2>3, <2>4, SumOfTally
<1>4. InHands(pending) = 0
  <2> DEFINE f == [w \in Workers |-> SumOf(pending[w])]
  <2>1. \A w \in Workers : f[w] = 0
    BY <1>1, EmptyTally
  <2>2. IsTally(f)
    BY <2>1, WorkersAssumption DEF IsTally
  <2>3. InHands(pending) = SumOf(f) /\ DOMAIN f = Workers
    BY DEF InHands
  <2> HIDE DEF f
  <2> QED
    BY <2>1, <2>2, <2>3, SumOfNothing
<1>5. \A w \in Workers : IsTally(pending[w])
  BY <1>1, EmptyTally
<1> QED
  BY <1>1, <1>2, <1>3, <1>4, <1>5 DEF TopologyInv, WAt

(* Every step keeps the topology's invariant.                             *)
LEMMA TopologyStep == TopologyInv /\ [Next]_vars => TopologyInv'
<1> SUFFICES ASSUME TopologyInv, [Next]_vars PROVE TopologyInv'
  OBVIOUS
<1>1. ASSUME NEW o \in Operators, OperatorStep(o) PROVE UNCHANGED <<worker, topoVars>>
  BY <1>1 DEF OperatorStep, workerVars
<1>2. CASE Dequeue \/ UNCHANGED vars
  BY <1>2, TopologyRests DEF Dequeue, vars, workerVars, TopologyInv
<1>3. CASE UNCHANGED <<worker, topoVars>>
  BY <1>3, TopologyRests DEF TopologyInv
<1> QED
  BY <1>1, <1>2, <1>3, TopologyWorkers, TopologyCollects, TopologyAges DEF Next

(* Packets counted for the topology are conserved from the workers'        *)
(* batches through merges, collections and overflow, and a worker that     *)
(* ends leaves none behind (merge_batch, LocalTopologyObserver::flush).    *)
THEOREM TopologyCorrect == Spec => []TopologyConserved
<1>1. TopologyInv => TopologyConserved
  BY DEF TopologyInv, TopologyConserved, InTable, InHands
<1> QED
  BY <1>1, TopologyInit, TopologyStep, PTL DEF Spec

-----------------------------------------------------------------------------
(* What try_complete puts together.                                        *)

(* p is the payload after each of the first n offsets.                     *)
Joined(st, before, i) ==
    IF i - 1 \in DOMAIN st.pieces THEN before \o st.pieces[i - 1].data ELSE before
IsJoining(p, st, n) ==
    /\ DOMAIN p = 0 .. n /\ p[0] = <<>>
    /\ \A i \in 1 .. n : p[i] = Joined(st, p[i - 1], i)

(* For any number of offsets there is such a p.                            *)
LEMMA JoiningExists ==
    ASSUME NEW st, NEW n \in Nat
    PROVE  \E p : IsJoining(p, st, n)
<1> DEFINE Bad == {m \in Nat : ~\E p : IsJoining(p, st, m)}
<1>1. ASSUME Bad # {} PROVE FALSE
  <2>1. PICK m \in Bad : \A k \in Bad : m <= k
    BY <1>1, LeastNatural
  <2>2. CASE m = 0
    <3> DEFINE p == [i \in {0} |-> <<>>]
    <3>1. DOMAIN p = 0 .. 0 /\ p[0] = <<>>
      OBVIOUS
    <3>2. IsJoining(p, st, 0)
      BY <3>1 DEF IsJoining
    <3> QED
      BY <2>1, <2>2, <3>2
  <2>3. CASE m # 0
    <3>1. m \in Nat /\ m - 1 \in Nat /\ m - 1 \notin Bad
      BY <2>1, <2>3
    <3>2. PICK p : IsJoining(p, st, m - 1)
      BY <3>1
    <3>3. /\ DOMAIN p = 0 .. m - 1 /\ p[0] = <<>>
          /\ \A i \in 1 .. m - 1 : p[i] = Joined(st, p[i - 1], i)
      BY <3>2 DEF IsJoining
    <3> DEFINE e == [i \in 0 .. m |-> IF i = m THEN Joined(st, p[m - 1], m) ELSE p[i]]
    <3>4. /\ DOMAIN e = 0 .. m /\ e[0] = <<>> /\ e[m] = Joined(st, p[m - 1], m)
          /\ \A i \in 0 .. m - 1 : e[i] = p[i]
      BY <2>3, <3>1, <3>3
    <3> HIDE DEF e
    <3>5. ASSUME NEW i \in 1 .. m PROVE e[i] = Joined(st, e[i - 1], i)
      <4>1. i - 1 \in 0 .. m - 1 /\ e[i - 1] = p[i - 1]
        BY <3>1, <3>4
      <4>2. CASE i = m
        BY <3>4, <4>1, <4>2
      <4>3. CASE i # m
        <5>1. i \in 1 .. m - 1 /\ i \in 0 .. m - 1
          BY <3>1, <4>3
        <5> QED
          BY <3>3, <3>4, <4>1, <5>1
      <4> QED
        BY <4>2, <4>3
    <3>6. IsJoining(e, st, m)
      BY <3>4, <3>5 DEF IsJoining
    <3> QED
      BY <2>1, <3>6
  <2> QED
    BY <2>2, <2>3
<1> QED
  BY <1>1

(* Payload is the last of those values.                                    *)
LEMMA PayloadSteps ==
    ASSUME NEW st
    PROVE  \E p : IsJoining(p, st, MaxDatagram + 1) /\ Payload(st) = p[MaxDatagram + 1]
<1> DEFINE n == MaxDatagram + 1
           Def(p) == [i \in 0 .. n |-> IF i = 0 THEN <<>>
                                       ELSE IF i - 1 \in DOMAIN st.pieces
                                       THEN p[i - 1] \o st.pieces[i - 1].data ELSE p[i - 1]]
           upTo == CHOOSE p : p = Def(p)
<1>1. Payload(st) = upTo[n]
  BY DEF Payload
<1>2. n \in Nat
  BY FragmentLimitsAssumption
<1> HIDE DEF n
<1>3. PICK p : IsJoining(p, st, n)
  BY <1>2, JoiningExists
<1>4. /\ DOMAIN p = 0 .. n /\ p[0] = <<>>
      /\ \A i \in 1 .. n : p[i] = IF i - 1 \in DOMAIN st.pieces
                                  THEN p[i - 1] \o st.pieces[i - 1].data ELSE p[i - 1]
  BY <1>3 DEF IsJoining, Joined
<1> DEFINE e == [i \in 0 .. n |-> p[i]]
<1>5. e = Def(e)
  <2>1. \A i \in 0 .. n : i # 0 => i - 1 \in 0 .. n /\ i \in 1 .. n
    BY <1>2
  <2> QED
    BY <1>4, <2>1
<1> HIDE DEF e
<1>6. upTo = Def(upTo)
  <2> HIDE DEF Def
  <2> QED
    BY <1>5
<1> HIDE DEF upTo
<1>7. DOMAIN upTo = 0 .. n /\ \A i \in 0 .. n :
        upTo[i] = IF i = 0 THEN <<>>
                  ELSE IF i - 1 \in DOMAIN st.pieces
                  THEN upTo[i - 1] \o st.pieces[i - 1].data ELSE upTo[i - 1]
  BY <1>6
<1>8. IsJoining(upTo, st, n)
  <2>1. 0 \in 0 .. n /\ \A i \in 1 .. n : i \in 0 .. n /\ i # 0
    BY <1>2
  <2> QED
    BY <1>7, <2>1 DEF IsJoining, Joined
<1> QED
  BY <1>1, <1>8 DEF n

(* Data cut from a datagram at the offset off.                             *)
CutAt(data, off) == IsSequence(data) /\ \A i \in DOMAIN data : data[i][1] = off + i - 1

(* The pieces of a datagram: where they start, and that they are apart.    *)
PiecesTrue(st) ==
    /\ IsFiniteSet(DOMAIN st.pieces) /\ DOMAIN st.pieces \subseteq Nat
    /\ \A s \in DOMAIN st.pieces : CutAt(st.pieces[s].data, s)
    /\ \A s, r \in DOMAIN st.pieces : r > s => End(st, s) <= r

(* When every piece starts where another ends, what has been joined before *)
(* an offset ends at the last piece before it, so the next piece carries   *)
(* on where it ends.                                                       *)
LEMMA PayloadTrue ==
    ASSUME NEW st, PiecesTrue(st),
           \A s \in DOMAIN st.pieces : s = 0 \/ \E r \in DOMAIN st.pieces \ {s} : End(st, r) = s
    PROVE  \A i \in DOMAIN Payload(st) : Payload(st)[i][1] = i - 1
<1> DEFINE D == DOMAIN st.pieces
           n == MaxDatagram + 1
<1>1. PICK p : IsJoining(p, st, n) /\ Payload(st) = p[n]
  BY PayloadSteps
<1>2. n \in Nat
  BY FragmentLimitsAssumption
<1> HIDE DEF n
<1> DEFINE L(m) == Len(p[m])
           Good(m) == /\ CutAt(p[m], 0)
                      /\ \A s \in D : s < m => End(st, s) <= L(m)
                      /\ L(m) = 0 \/ \E s \in D : s < m /\ End(st, s) = L(m)
           Bad == {m \in Nat : m <= n /\ ~Good(m)}
<1>3. \A s \in D : s \in Nat /\ IsSequence(st.pieces[s].data) /\ CutAt(st.pieces[s].data, s)
  BY DEF PiecesTrue, CutAt
<1>4. \A s \in D : Len(st.pieces[s].data) \in Nat /\ End(st, s) = s + Len(st.pieces[s].data)
  BY <1>3, SequenceIsNumbered DEF End
<1>5. ASSUME Bad # {} PROVE FALSE
  <2>1. PICK m \in Bad : \A k \in Bad : m <= k
    BY <1>5, LeastNatural
  <2>2. CASE m = 0
    <3>1. p[0] = <<>>
      BY <1>1 DEF IsJoining
    <3>2. CutAt(p[0], 0) /\ L(0) = 0
      BY <3>1, EmptySequence DEF CutAt
    <3>3. \A s \in D : ~(s < 0)
      BY <1>3
    <3> QED
      BY <2>1, <2>2, <3>2, <3>3
  <2>3. CASE m # 0
    <3>1. m \in 1 .. n /\ m - 1 \in Nat /\ m - 1 \notin Bad /\ m - 1 <= n /\ m \in Nat
      BY <1>2, <2>1, <2>3
    <3>2. Good(m - 1)
      BY <3>1
    <3>3. p[m] = Joined(st, p[m - 1], m)
      BY <1>1, <3>1 DEF IsJoining
    <3>4. L(m - 1) \in Nat
      BY <3>2, SequenceIsNumbered DEF CutAt
    <3>5. CASE m - 1 \notin D
      <4>1. p[m] = p[m - 1]
        BY <3>3, <3>5 DEF Joined
      <4>2. \A s \in D : s < m <=> s < m - 1
        BY <1>3, <3>1, <3>5
      <4>3. Good(m)
        BY <3>2, <4>1, <4>2
      <4> QED
        BY <2>1, <4>3
    <3>6. CASE m - 1 \in D
      <4> DEFINE a == p[m - 1]
                 b == st.pieces[m - 1].data
                 c == a \o b
      <4>1. p[m] = c
        BY <3>3, <3>6 DEF Joined
      <4>2. \A s \in D : s < m - 1 => End(st, s) <= m - 1
        BY <3>1, <3>6, <1>3 DEF PiecesTrue
      <4>3. Len(a) = m - 1
        <5>1. Len(a) <= m - 1
          BY <3>1, <3>2, <4>2
        <5>2. CASE m - 1 = 0
          BY <3>4, <5>1, <5>2
        <5>3. CASE m - 1 # 0
          <6>1. PICK r \in D \ {m - 1} : End(st, r) = m - 1
            BY <3>6, <5>3
          <6>2. r < m - 1
            BY <1>3, <1>4, <3>1, <6>1
          <6>3. m - 1 <= Len(a)
            BY <3>2, <6>1, <6>2
          <6> QED
            BY <3>1, <3>4, <5>1, <6>3
        <5> QED
          BY <5>2, <5>3
      <4>4. IsSequence(a) /\ IsSequence(b) /\ CutAt(a, 0) /\ CutAt(b, m - 1)
        BY <1>3, <3>2, <3>6 DEF CutAt
      <4> HIDE DEF a, b
      <4>5. /\ IsSequence(c) /\ Len(b) \in Nat /\ Len(c) = Len(a) + Len(b)
            /\ DOMAIN a = 1 .. Len(a) /\ DOMAIN b = 1 .. Len(b)
            /\ DOMAIN c = 1 .. Len(a) + Len(b)
            /\ \A i \in 1 .. Len(a) + Len(b) : c[i] = IF i <= Len(a) THEN a[i] ELSE b[i - Len(a)]
        BY <4>4, ConcatOfSequences
      <4> HIDE DEF c
      <4>6. ASSUME NEW i \in DOMAIN c PROVE c[i][1] = 0 + i - 1
        <5>1. i \in 1 .. Len(a) + Len(b) /\ i \in Nat
          BY <3>1, <4>3, <4>5
        <5>2. CASE i <= Len(a)
          <6>1. i \in DOMAIN a /\ c[i] = a[i]
            BY <3>1, <4>3, <4>5, <5>1, <5>2
          <6> QED
            BY <4>4, <6>1 DEF CutAt
        <5>3. CASE ~(i <= Len(a))
          <6>1. i - Len(a) \in DOMAIN b /\ c[i] = b[i - Len(a)]
            BY <3>1, <4>3, <4>5, <5>1, <5>3
          <6>2. c[i][1] = (m - 1) + (i - Len(a)) - 1
            BY <4>4, <6>1 DEF CutAt
          <6> QED
            BY <3>1, <4>3, <5>1, <6>2
        <5> QED
          BY <5>2, <5>3
      <4>7. CutAt(c, 0)
        BY <4>5, <4>6 DEF CutAt
      <4>8. End(st, m - 1) = Len(c)
        BY <1>4, <3>1, <3>6, <4>3, <4>5 DEF b
      <4>9. \A s \in D : s < m => End(st, s) <= Len(c)
        <5> SUFFICES ASSUME NEW s \in D, s < m PROVE End(st, s) <= Len(c)
          OBVIOUS
        <5>1. CASE s = m - 1
          BY <3>1, <4>3, <4>5, <4>8, <5>1
        <5>2. CASE s # m - 1
          <6>1. s < m - 1
            BY <1>3, <3>1, <5>2
          <6>2. End(st, s) <= m - 1 /\ End(st, s) \in Nat
            BY <1>3, <1>4, <4>2, <6>1
          <6> QED
            BY <3>1, <4>3, <4>5, <6>2
        <5> QED
          BY <5>1, <5>2
      <4>10. m - 1 < m
        BY <3>1
      <4>11. Good(m)
        BY <3>6, <4>1, <4>7, <4>8, <4>9, <4>10
      <4> QED
        BY <2>1, <4>11
    <3> QED
      BY <3>5, <3>6
  <2> QED
    BY <2>2, <2>3
<1>6. Good(n)
  BY <1>2, <1>5
<1>7. \A i \in DOMAIN p[n] : p[n][i][1] = 0 + i - 1 /\ i \in Int
  BY <1>6, SequenceIsNumbered DEF CutAt
<1> QED
  BY <1>1, <1>7

-----------------------------------------------------------------------------
(* The cache between two calls.                                            *)

IsState(st) ==
    /\ st = [pieces |-> st.pieces, bytes |-> st.bytes, total |-> st.total, age |-> st.age]
    /\ st.pieces = [s \in DOMAIN st.pieces |-> st.pieces[s]]
    /\ st.total \in Nat \cup {Unknown}

Costs(st) == [s \in DOMAIN st.pieces |-> Len(st.pieces[s].data) + PieceOverhead]

(* A datagram is charged for its pieces, and none lies beyond its end.     *)
StateTrue(st) ==
    /\ IsState(st) /\ PiecesTrue(st)
    /\ st.bytes = DatagramOverhead + SumOf(Costs(st))
    /\ st.total # Unknown => \A s \in DOMAIN st.pieces : End(st, s) <= st.total

Charges(c) == [k \in DOMAIN c.states |-> c.states[k].bytes]

CacheTrue(c) ==
    /\ c = [states |-> c.states, bytes |-> c.bytes, since |-> c.since]
    /\ c.states = [k \in DOMAIN c.states |-> c.states[k]]
    /\ IsFiniteSet(DOMAIN c.states)
    /\ \A k \in DOMAIN c.states : StateTrue(c.states[k])
    /\ c.bytes = SumOf(Charges(c))

(* What a datagram is charged is a number, and so are the ends of its      *)
(* pieces.                                                                 *)
LEMMA StateCharged ==
    ASSUME NEW st, StateTrue(st)
    PROVE  /\ IsTally(Costs(st)) /\ st.bytes \in Nat
           /\ \A s \in DOMAIN st.pieces :
                 /\ s \in Nat /\ Len(st.pieces[s].data) \in Nat
                 /\ End(st, s) = s + Len(st.pieces[s].data) /\ End(st, s) \in Nat
<1>1. \A s \in DOMAIN st.pieces : s \in Nat /\ Len(st.pieces[s].data) \in Nat
  BY SequenceIsNumbered DEF StateTrue, PiecesTrue, CutAt
<1>2. DatagramOverhead \in Nat /\ PieceOverhead \in Nat
  BY FragmentLimitsAssumption
<1>3. Costs(st) \in [DOMAIN st.pieces -> Nat]
  BY <1>1, <1>2 DEF Costs
<1>4. IsTally(Costs(st))
  BY <1>3 DEF IsTally, StateTrue, PiecesTrue
<1>5. SumOf(Costs(st)) \in Nat
  BY <1>4, SumOfTally
<1>6. st.bytes \in Nat
  BY <1>2, <1>5 DEF StateTrue
<1> QED
  BY <1>1, <1>4, <1>6 DEF End

(* The charges of the datagrams are a tally.                               *)
LEMMA CacheCharged ==
    ASSUME NEW c, CacheTrue(c)
    PROVE  IsTally(Charges(c)) /\ c.bytes \in Nat /\ DOMAIN Charges(c) = DOMAIN c.states
<1>1. Charges(c) \in [DOMAIN c.states -> Nat]
  BY StateCharged DEF Charges, CacheTrue
<1>2. IsTally(Charges(c))
  BY <1>1 DEF IsTally, CacheTrue
<1> QED
  BY <1>1, <1>2, SumOfTally DEF CacheTrue

(* Removal keeps all that, and gives the cache room.                       *)
LEMMA RemovalTrue ==
    ASSUME NEW c, CacheTrue(c), NEW keys, keys \subseteq DOMAIN c.states
    PROVE  /\ CacheTrue(RemoveAll(c, keys))
           /\ ~OverLimits(c) => ~OverLimits(RemoveAll(c, keys))
           /\ keys = DOMAIN c.states => ~OverLimits(RemoveAll(c, keys))
           /\ RemoveAll(c, keys).states = [k \in DOMAIN c.states \ keys |-> c.states[k]]
<1> DEFINE D == DOMAIN c.states
           S == D \ keys
           f == Charges(c)
           out == [k \in keys |-> c.states[k].bytes]
           d == RemoveAll(c, keys)
<1>1. c = [states |-> c.states, bytes |-> c.bytes, since |-> c.since]
  BY DEF CacheTrue
<1>2. /\ d.states = [k \in S |-> c.states[k]] /\ d.bytes = c.bytes - SumOf(out)
      /\ d = [states |-> d.states, bytes |-> d.bytes, since |-> d.since]
  <2> DEFINE a == [k \in S |-> c.states[k]]
             n == c.bytes - SumOf(out)
  <2>1. d = [c EXCEPT !.states = a, !.bytes = n]
    BY DEF RemoveAll, Restrict
  <2> HIDE DEF a, n, d
  <2>2. d.states = a /\ d.bytes = n /\ d = [states |-> d.states, bytes |-> d.bytes, since |-> d.since]
    BY <1>1, <2>1
  <2> QED
    BY <2>2 DEF a, n
<1>3. /\ IsTally(f) /\ c.bytes = SumOf(f) /\ c.bytes \in Nat /\ DOMAIN f = D
  BY CacheCharged DEF CacheTrue
<1>4. out = [k \in keys |-> f[k]]
  BY DEF Charges
<1>5. Charges(d) = [k \in S |-> f[k]] /\ DOMAIN d.states = S
  BY <1>2 DEF Charges
<1> HIDE DEF d, out, f
<1>6. D = S \cup keys /\ S \cap keys = {}
  OBVIOUS
<1>7. /\ IsTally(Charges(d)) /\ IsTally(out)
      /\ SumOf(f) = SumOf(Charges(d)) + SumOf(out)
  BY <1>3, <1>4, <1>5, <1>6, SumOfParts
<1>8. SumOf(Charges(d)) \in Nat /\ SumOf(out) \in Nat
  BY <1>7, SumOfTally
<1>9. d.bytes = SumOf(Charges(d)) /\ d.bytes \in Nat /\ d.bytes <= c.bytes
  BY <1>2, <1>3, <1>7, <1>8
<1>10. IsFiniteSet(D) /\ IsFiniteSet(S) /\ Cardinality(S) <= Cardinality(D)
       /\ Cardinality(S) \in Nat /\ Cardinality(D) \in Nat
  <2>1. IsFiniteSet(D) /\ S \in SUBSET D
    BY DEF CacheTrue
  <2> QED
    BY <2>1, FS_Subset, FS_CardinalityType
<1>11. CacheTrue(d)
  <2>1. \A k \in S : d.states[k] = c.states[k]
    BY <1>2
  <2>2. \A k \in S : StateTrue(d.states[k])
    BY <2>1 DEF CacheTrue
  <2>3. d.states = [k \in DOMAIN d.states |-> d.states[k]]
    BY <1>2
  <2> QED
    BY <1>2, <1>5, <1>9, <1>10, <2>2, <2>3 DEF CacheTrue
<1>12. MaxBytes \in Nat /\ MaxDatagrams \in Nat
  BY FragmentLimitsAssumption
<1>13. ~OverLimits(c) => ~OverLimits(d)
  BY <1>3, <1>5, <1>9, <1>10, <1>12 DEF OverLimits
<1>14. keys = D => ~OverLimits(d)
  <2> SUFFICES ASSUME keys = D PROVE ~OverLimits(d)
    OBVIOUS
  <2>1. S = {} /\ DOMAIN Charges(d) = {}
    BY <1>5
  <2>2. d.bytes = 0 /\ Cardinality(S) = 0
    BY <1>7, <1>9, <2>1, SumOfTally, FS_EmptySet
  <2> QED
    BY <1>5, <1>12, <2>2 DEF OverLimits
<1> QED
  BY <1>2, <1>11, <1>13, <1>14 DEF d

(* The same of one key, which may not be there (remove_key).               *)
LEMMA RemoveKeyTrue ==
    ASSUME NEW c, CacheTrue(c), NEW key
    PROVE  /\ CacheTrue(remove_key(c, key))
           /\ ~OverLimits(c) => ~OverLimits(remove_key(c, key))
<1>1. CASE key \notin DOMAIN c.states
  BY <1>1 DEF remove_key
<1>2. CASE key \in DOMAIN c.states
  <2> DEFINE n == c.states[key].bytes
  <2>1. n \in Nat
    BY <1>2, StateCharged DEF CacheTrue
  <2>2. [k \in {key} |-> c.states[k].bytes] = [k \in {key} |-> n]
    OBVIOUS
  <2>3. SumOf([k \in {key} |-> c.states[k].bytes]) = n
    BY <2>1, <2>2, SumOfOne
  <2>4. remove_key(c, key) = RemoveAll(c, {key})
    BY <1>2, <2>3 DEF remove_key, RemoveAll
  <2>5. {key} \subseteq DOMAIN c.states
    BY <1>2
  <2>6. /\ CacheTrue(RemoveAll(c, {key}))
        /\ ~OverLimits(c) => ~OverLimits(RemoveAll(c, {key}))
    BY <2>5, RemovalTrue
  <2> QED
    BY <2>4, <2>6
<1> QED
  BY <1>1, <1>2

(* Expiry.                                                                 *)
LEMMA MaintenanceTrue ==
    ASSUME NEW c, CacheTrue(c), ~OverLimits(c)
    PROVE  CacheTrue(maintenance(c)) /\ ~OverLimits(maintenance(c))
<1> DEFINE keys == {k \in DOMAIN c.states : c.states[k].age >= FragmentTimeout}
           d == RemoveAll(c, keys)
           e == [d EXCEPT !.since = 0]
<1>1. maintenance(c) = IF c.since < CleanupInterval THEN c ELSE e
  BY DEF maintenance
<1>2. CacheTrue(d) /\ ~OverLimits(d)
  BY RemovalTrue
<1> HIDE DEF d
<1>3. d = [states |-> d.states, bytes |-> d.bytes, since |-> d.since]
  BY <1>2 DEF CacheTrue
<1>4. /\ e.states = d.states /\ e.bytes = d.bytes
      /\ e = [states |-> e.states, bytes |-> e.bytes, since |-> e.since]
  BY <1>3
<1> HIDE DEF e
<1>5. CacheTrue(e) /\ ~OverLimits(e)
  BY <1>2, <1>4 DEF CacheTrue, OverLimits, Charges
<1> QED
  BY <1>1, <1>5

(* What evict_oldest leaves, called until both limits hold.                *)
LEMMA EvictionTrue ==
    ASSUME NEW c, CacheTrue(c), NEW e \in Evicted(c)
    PROVE  CacheTrue(e) /\ ~OverLimits(e)
<1>1. CASE ~OverLimits(c)
  BY <1>1 DEF Evicted
<1>2. CASE OverLimits(c)
  <2>1. PICK old \in SUBSET DOMAIN c.states :
          /\ ~OverLimits(RemoveAll(c, old)) \/ old = DOMAIN c.states
          /\ e = RemoveAll(c, old)
    BY <1>2, Zenon DEF Evicted
  <2> QED
    BY <2>1, RemovalTrue
<1> QED
  BY <1>1, <1>2

(* A datagram that comes in or changes.                                    *)
LEMMA PutTrue ==
    ASSUME NEW c, CacheTrue(c), NEW key, NEW st, StateTrue(st), NEW n,
           n = (IF key \in DOMAIN c.states THEN c.bytes - c.states[key].bytes ELSE c.bytes) + st.bytes,
           NEW a, a = Put(c.states, key, st),
           NEW d, d = [states |-> a, bytes |-> n, since |-> c.since]
    PROVE  /\ CacheTrue(d)
           /\ key \in DOMAIN d.states /\ d.states[key] = st
           /\ remove_key(d, key) = remove_key(c, key)
<1> DEFINE f == Charges(c)
<1>1. /\ c = [states |-> c.states, bytes |-> c.bytes, since |-> c.since]
      /\ c.states = [k \in DOMAIN c.states |-> c.states[k]]
  BY DEF CacheTrue
<1>2. /\ DOMAIN a = DOMAIN c.states \cup {key} /\ a[key] = st
      /\ \A k \in DOMAIN c.states \ {key} : a[k] = c.states[k]
      /\ a = [k \in DOMAIN a |-> a[k]]
  BY DEF Put
<1>3. d.states = a /\ d.bytes = n /\ d.since = c.since
  OBVIOUS
<1>6. /\ IsTally(f) /\ DOMAIN f = DOMAIN c.states /\ c.bytes = SumOf(f)
      /\ \A k \in DOMAIN c.states : f[k] = c.states[k].bytes
  BY CacheCharged DEF CacheTrue, Charges
<1>7. st.bytes \in Nat /\ \A k \in DOMAIN c.states : c.states[k].bytes \in Nat
  BY StateCharged DEF CacheTrue
<1>8. Charges(d) = Put(f, key, st.bytes)
  BY <1>2, <1>3, <1>6 DEF Charges, Put
<1> HIDE DEF f
<1>9. SumOf(Put(f, key, st.bytes)) = n
  BY <1>6, <1>7, SumOfPut
<1>10. IsFiniteSet(DOMAIN a)
  BY <1>2, FS_AddElement DEF CacheTrue
<1>11. \A k \in DOMAIN a : StateTrue(a[k])
  BY <1>2 DEF CacheTrue
<1>12. CacheTrue(d)
  BY <1>2, <1>3, <1>8, <1>9, <1>10, <1>11 DEF CacheTrue
<1>13. remove_key(d, key) = remove_key(c, key)
  <2> DEFINE S == DOMAIN c.states \ {key}
             rest == [k \in S |-> c.states[k]]
  <2>1. DOMAIN a \ {key} = S /\ [k \in S |-> a[k]] = rest
    BY <1>2
  <2>2. remove_key(d, key) = [d EXCEPT !.states = rest, !.bytes = n - st.bytes]
    <3>1. key \in DOMAIN d.states /\ d.states[key].bytes = st.bytes
      BY <1>2, <1>3
    <3>2. Restrict(d.states, DOMAIN d.states \ {key}) = rest
      BY <1>3, <2>1 DEF Restrict
    <3>3. remove_key(d, key) = [d EXCEPT !.states = Restrict(d.states, DOMAIN d.states \ {key}),
                                         !.bytes = d.bytes - d.states[key].bytes]
      BY <3>1 DEF remove_key
    <3> QED
      BY <1>3, <3>1, <3>2, <3>3
  <2>3. c.bytes \in Nat
    BY CacheCharged
  <2> HIDE DEF rest
  <2>4. remove_key(d, key) = [states |-> rest, bytes |-> n - st.bytes, since |-> c.since]
    <3> DEFINE m == n - st.bytes
    <3>1. remove_key(d, key) = [d EXCEPT !.states = rest, !.bytes = m]
      BY <2>2
    <3> HIDE DEF m
    <3>2. remove_key(d, key) = [states |-> rest, bytes |-> m, since |-> c.since]
      BY <3>1
    <3> QED
      BY <3>2 DEF m
  <2>5. CASE key \in DOMAIN c.states
    <3>1. n - st.bytes = c.bytes - c.states[key].bytes
      BY <1>7, <2>3, <2>5
    <3>2. remove_key(c, key) = [c EXCEPT !.states = rest, !.bytes = c.bytes - c.states[key].bytes]
      BY <2>5 DEF remove_key, Restrict, rest
    <3>3. remove_key(c, key) = [states |-> rest, bytes |-> c.bytes - c.states[key].bytes, since |-> c.since]
      BY <1>1, <3>2
    <3> QED
      BY <2>4, <3>1, <3>3
  <2>6. CASE key \notin DOMAIN c.states
    <3>1. n - st.bytes = c.bytes
      BY <1>7, <2>3, <2>6
    <3>2. rest = c.states
      <4>1. S = DOMAIN c.states
        BY <2>6
      <4> QED
        BY <1>1, <4>1 DEF rest
    <3>3. remove_key(c, key) = c
      BY <2>6 DEF remove_key
    <3> QED
      BY <1>1, <2>4, <3>1, <3>2, <3>3
  <2> QED
    BY <2>5, <2>6
<1> QED
  BY <1>2, <1>3, <1>12, <1>13

(* The time it was last seen is of no account.                             *)
LEMMA SeenTrue ==
    ASSUME NEW st, StateTrue(st), NEW age, NEW u, u = [st EXCEPT !.age = age]
    PROVE  StateTrue(u) /\ u.pieces = st.pieces /\ u.bytes = st.bytes /\ u.total = st.total
<1>1. st = [pieces |-> st.pieces, bytes |-> st.bytes, total |-> st.total, age |-> st.age]
  BY DEF StateTrue, IsState
<1>2. u = [pieces |-> st.pieces, bytes |-> st.bytes, total |-> st.total, age |-> age]
  BY <1>1
<1>3. u.pieces = st.pieces /\ u.bytes = st.bytes /\ u.total = st.total /\ u.age = age
  BY <1>2
<1>4. IsState(u)
  BY <1>2, <1>3 DEF StateTrue, IsState
<1>5. PiecesTrue(u) /\ Costs(u) = Costs(st) /\ \A s \in DOMAIN st.pieces : End(u, s) = End(st, s)
  BY <1>3 DEF StateTrue, PiecesTrue, Costs, End
<1> QED
  BY <1>3, <1>4, <1>5 DEF StateTrue

(* A datagram without pieces (FragmentState::new).                         *)
LEMMA NewStateTrue ==
    StateTrue(NewState) /\ NewState.bytes = DatagramOverhead /\ DOMAIN NewState.pieces = {}
<1>1. /\ NewState.pieces = <<>> /\ NewState.bytes = DatagramOverhead /\ NewState.total = Unknown
      /\ NewState.age = 0
  BY DEF NewState
<1>2. <<>> = [s \in {} |-> <<>>[s]] /\ DOMAIN <<>> = {}
  OBVIOUS
<1>3. IsState(NewState)
  BY <1>1, <1>2 DEF IsState, NewState
<1>4. PiecesTrue(NewState)
  BY <1>1, <1>2, FS_EmptySet DEF PiecesTrue
<1>5. DOMAIN Costs(NewState) = {} /\ Costs(NewState) \in [{} -> Nat]
  BY <1>1, <1>2 DEF Costs
<1>6. SumOf(Costs(NewState)) = 0
  BY <1>5, SumOfTally, FS_EmptySet DEF IsTally
<1> QED
  BY <1>1, <1>2, <1>3, <1>4, <1>6, FragmentLimitsAssumption DEF StateTrue

(* A fragment that does not contradict the others may declare the end.     *)
LEMMA EndTrue ==
    ASSUME NEW old, StateTrue(old), NEW off \in Nat, NEW end \in Nat, NEW more,
           ~Invalid(old, off, end, more),
           NEW t, (more /\ t = old.total) \/ (~more /\ t = end),
           NEW st, st = [pieces |-> old.pieces, bytes |-> old.bytes, total |-> t, age |-> old.age]
    PROVE  /\ StateTrue(st) /\ st.pieces = old.pieces /\ st.bytes = old.bytes
           /\ st.total # Unknown => end <= st.total
<1>2. t \in Nat \cup {Unknown}
  BY DEF StateTrue, IsState
<1>4. t # Unknown => end <= t
  BY DEF Invalid, StateTrue, IsState
<1>5. ~more => \A s \in DOMAIN old.pieces : ~(End(old, s) > end)
  BY DEF Invalid
<1>6. \A s \in DOMAIN old.pieces : End(old, s) \in Nat
  BY StateCharged
<1>7. t # Unknown => \A s \in DOMAIN old.pieces : End(old, s) <= t
  BY <1>5, <1>6 DEF StateTrue
<1>9. st.pieces = old.pieces /\ st.bytes = old.bytes /\ st.total = t /\ st.age = old.age
  OBVIOUS
<1>10. IsState(st)
  BY <1>2, <1>9 DEF StateTrue, IsState
<1>11. PiecesTrue(st) /\ Costs(st) = Costs(old) /\ \A s \in DOMAIN old.pieces : End(st, s) = End(old, s)
  BY <1>9 DEF StateTrue, PiecesTrue, Costs, End
<1> QED
  BY <1>4, <1>7, <1>9, <1>10, <1>11 DEF StateTrue

(* A piece that overlaps none of the others.                               *)
LEMMA PieceTrue ==
    ASSUME NEW st, StateTrue(st), NEW off \in Nat, NEW data, CutAt(data, off), NEW more,
           ~Overlaps(st, off, off + Len(data)), st.total # Unknown => off + Len(data) <= st.total,
           NEW a, a = Put(st.pieces, off, [data |-> data, more |-> more]),
           NEW n, n = st.bytes + (Len(data) + PieceOverhead),
           NEW g, g = [pieces |-> a, bytes |-> n, total |-> st.total, age |-> st.age]
    PROVE  StateTrue(g) /\ g.bytes = n
<1> DEFINE D == DOMAIN st.pieces
           piece == [data |-> data, more |-> more]
           end == off + Len(data)
<1>1. piece.data = data
  OBVIOUS
<1>2. a = Put(st.pieces, off, piece)
  OBVIOUS
<1> HIDE DEF piece
<1>3. /\ DOMAIN a = D \cup {off} /\ a[off] = piece
      /\ \A s \in D \ {off} : a[s] = st.pieces[s]
      /\ a = [s \in DOMAIN a |-> a[s]]
  BY <1>2 DEF Put
<1>5. Len(data) \in Nat /\ PieceOverhead \in Nat /\ DatagramOverhead \in Nat /\ end \in Nat
  BY SequenceIsNumbered, FragmentLimitsAssumption DEF CutAt
<1>6. /\ IsTally(Costs(st)) /\ st.bytes \in Nat
      /\ \A s \in D : s \in Nat /\ End(st, s) \in Nat
      /\ st.bytes = DatagramOverhead + SumOf(Costs(st))
      /\ st.total \in Nat \cup {Unknown}
  BY StateCharged DEF StateTrue, IsState
<1>7. /\ off \notin D
      /\ \A s \in D : s < off => End(st, s) <= off
      /\ \A s \in D : s > off => end <= s
  BY <1>5, <1>6 DEF Overlaps
<1>9. g.pieces = a /\ g.bytes = n /\ g.total = st.total /\ g.age = st.age
  OBVIOUS
<1>10. IsState(g)
  BY <1>3, <1>6, <1>9 DEF IsState
<1>11. End(g, off) = end /\ \A s \in D : End(g, s) = End(st, s)
  BY <1>1, <1>3, <1>7, <1>9 DEF End
<1>12. PiecesTrue(g)
  <2>1. IsFiniteSet(D) /\ D \subseteq Nat
    BY DEF StateTrue, PiecesTrue
  <2>2. IsFiniteSet(DOMAIN g.pieces) /\ DOMAIN g.pieces \subseteq Nat
    BY <1>3, <1>9, <2>1, FS_AddElement
  <2>3. \A s \in DOMAIN g.pieces : CutAt(g.pieces[s].data, s)
    BY <1>1, <1>3, <1>7, <1>9 DEF StateTrue, PiecesTrue
  <2>4. \A s, r \in D : r > s => End(st, s) <= r
    BY DEF StateTrue, PiecesTrue
  <2>5. ASSUME NEW s \in DOMAIN g.pieces, NEW r \in DOMAIN g.pieces, r > s
        PROVE  End(g, s) <= r
    <3>1. s \in D \cup {off} /\ r \in D \cup {off} /\ s # r
      BY <1>3, <1>9, <2>2, <2>5
    <3>2. CASE s = off
      BY <1>7, <1>11, <2>5, <3>1, <3>2
    <3>3. CASE r = off
      <4>1. s \in D /\ s < off
        BY <1>6, <2>5, <3>1, <3>3
      <4> QED
        BY <1>7, <1>11, <3>3, <4>1
    <3>4. CASE s \in D /\ r \in D
      BY <1>11, <2>4, <2>5, <3>4
    <3> QED
      BY <3>1, <3>2, <3>3, <3>4
  <2> QED
    BY <2>2, <2>3, <2>5 DEF PiecesTrue
<1>13. g.total # Unknown => \A s \in DOMAIN g.pieces : End(g, s) <= g.total
  BY <1>3, <1>9, <1>11 DEF StateTrue
<1>14. g.bytes = DatagramOverhead + SumOf(Costs(g))
  <2> DEFINE f == Costs(st)
             m == Len(data) + PieceOverhead
  <2>1. DOMAIN f = D
    BY DEF Costs
  <2>2. Costs(g) = Put(f, off, m)
    BY <1>1, <1>3, <1>7, <1>9 DEF Costs, Put
  <2>3. m \in Nat /\ n = st.bytes + m
    BY <1>5
  <2> HIDE DEF f, m
  <2>4. SumOf(Put(f, off, m)) = SumOf(f) + m /\ SumOf(f) \in Nat
    BY <1>6, <1>7, <2>1, <2>3, SumOfPut, SumOfTally DEF f
  <2> QED
    BY <1>5, <1>6, <1>9, <2>2, <2>3, <2>4 DEF f
<1> QED
  BY <1>9, <1>10, <1>12, <1>13, <1>14 DEF StateTrue

(* One call of insert: the cache is true and within its limits after it,   *)
(* and a datagram that it completes is whole.                              *)
LEMMA InsertTrue ==
    ASSUME NEW c0, CacheTrue(c0), ~OverLimits(c0), NEW key, NEW off \in Nat,
           NEW more \in BOOLEAN, NEW ragged, NEW data, CutAt(data, off),
           NEW r \in insert(c0, key, off, more, ragged, data)
    PROVE  /\ CacheTrue(r.cache) /\ ~OverLimits(r.cache)
           /\ r.out = "complete" => \A i \in DOMAIN r.payload : r.payload[i][1] = i - 1
<1> DEFINE c == maintenance(c0)
           end == off + Len(data)
           known == key \in DOMAIN c.states
           old == IF known THEN [c.states[key] EXCEPT !.age = 0] ELSE NewState
           charged == IF known THEN c.bytes ELSE c.bytes + DatagramOverhead
           st == [old EXCEPT !.total = IF more THEN @ ELSE end]
           dup == Duplicate(old, off, more, data)
           cost == Len(data) + PieceOverhead
           grown == IF dup THEN st
                    ELSE [st EXCEPT !.pieces = Put(@, off, [data |-> data, more |-> more]),
                                    !.bytes = @ + cost]
           n == IF dup THEN charged ELSE charged + cost
           d == [c EXCEPT !.states = Put(@, key, grown), !.bytes = n]
           rejected == \/ end > MaxDatagram \/ (more /\ (data = <<>> \/ ragged))
                       \/ Invalid(old, off, end, more) \/ (~dup /\ Overlaps(old, off, end))
           gone == [cache |-> remove_key(c, key), out |-> "dropped", payload |-> <<>>]
           done == [cache |-> remove_key(d, key), out |-> "complete", payload |-> Payload(grown)]
           left(e) == [cache |-> e, out |-> "pending", payload |-> <<>>]
<1>1. r \in IF rejected THEN {gone}
            ELSE IF Complete(grown) THEN {done}
            ELSE {left(e) : e \in IF dup THEN {d} ELSE Evicted(d)}
  BY Zenon DEF insert
<1>2. CacheTrue(c) /\ ~OverLimits(c)
  BY MaintenanceTrue
<1> HIDE DEF c
<1>3. CacheTrue(remove_key(c, key)) /\ ~OverLimits(remove_key(c, key))
  BY <1>2, RemoveKeyTrue
<1>4. CASE rejected
  <2>1. r = gone
    BY <1>1, <1>4
  <2>2. gone.cache = remove_key(c, key) /\ gone.out = "dropped"
    OBVIOUS
  <2> HIDE DEF gone
  <2> QED
    BY <1>3, <2>1, <2>2
<1>5. CASE ~rejected
  <2>1. ~Invalid(old, off, end, more) /\ (dup \/ ~Overlaps(old, off, end))
    BY <1>5
  <2>2. /\ r \in IF Complete(grown) THEN {done}
                 ELSE {left(e) : e \in IF dup THEN {d} ELSE Evicted(d)}
    BY <1>1, <1>5
  <2> HIDE DEF rejected
  <2>3. Len(data) \in Nat /\ end \in Nat /\ PieceOverhead \in Nat /\ DatagramOverhead \in Nat
    BY SequenceIsNumbered, FragmentLimitsAssumption DEF CutAt
  <2>4. /\ StateTrue(old)
        /\ known => old.bytes = c.states[key].bytes
        /\ ~known => old.bytes = DatagramOverhead /\ DOMAIN old.pieces = {}
    <3>1. CASE known
      <4>1. StateTrue(c.states[key])
        BY <1>2, <3>1 DEF CacheTrue
      <4>2. old = [c.states[key] EXCEPT !.age = 0]
        BY <3>1
      <4> HIDE DEF old
      <4> QED
        BY <3>1, <4>1, <4>2, SeenTrue
    <3>2. CASE ~known
      <4>1. old = NewState
        BY <3>2
      <4> HIDE DEF old, known
      <4> QED
        BY <3>2, <4>1, NewStateTrue
    <3> QED
      BY <3>1, <3>2
  <2>5. dup => known
    BY <2>4 DEF Duplicate
  <2>6. dup \in BOOLEAN
    BY DEF Duplicate
  <2> HIDE DEF old, dup, known
  <2>7. /\ StateTrue(st) /\ st.pieces = old.pieces /\ st.bytes = old.bytes
        /\ st.total # Unknown => end <= st.total
    <3> DEFINE t == IF more THEN old.total ELSE end
    <3>1. st = [old EXCEPT !.total = t]
      OBVIOUS
    <3> HIDE DEF st
    <3>2. (more /\ t = old.total) \/ (~more /\ t = end)
      OBVIOUS
    <3>3. end \in Nat /\ ~Invalid(old, off, end, more) /\ StateTrue(old)
      BY <2>1, <2>3, <2>4
    <3> HIDE DEF t, end
    <3>4. old = [pieces |-> old.pieces, bytes |-> old.bytes, total |-> old.total, age |-> old.age]
      BY <2>4 DEF StateTrue, IsState
    <3>5. st = [pieces |-> old.pieces, bytes |-> old.bytes, total |-> t, age |-> old.age]
      BY <3>1, <3>4
    <3> QED
      BY <3>2, <3>3, <3>5, EndTrue
  <2> HIDE DEF st
  <2>8. ~dup => ~Overlaps(st, off, end)
    BY <2>1, <2>7 DEF Overlaps, End
  <2>9. /\ StateTrue(grown)
        /\ grown.bytes = IF dup THEN st.bytes ELSE st.bytes + cost
    <3>1. CASE dup
      BY <2>7, <3>1
    <3>2. CASE ~dup
      <4> DEFINE a == Put(st.pieces, off, [data |-> data, more |-> more])
                 b == st.bytes + cost
      <4>1. grown = [st EXCEPT !.pieces = a, !.bytes = b]
        BY <3>2
      <4>2. st = [pieces |-> st.pieces, bytes |-> st.bytes, total |-> st.total, age |-> st.age]
        BY <2>7 DEF StateTrue, IsState
      <4>3. grown = [pieces |-> a, bytes |-> b, total |-> st.total, age |-> st.age]
        <5> HIDE DEF a, b, grown
        <5> QED
          BY <4>1, <4>2
      <4>4. StateTrue(grown) /\ grown.bytes = b
        <5> HIDE DEF grown
        <5>1. /\ a = Put(st.pieces, off, [data |-> data, more |-> more])
              /\ b = st.bytes + (Len(data) + PieceOverhead)
          OBVIOUS
        <5> HIDE DEF a, b
        <5> QED
          BY <2>7, <2>8, <3>2, <4>3, <5>1, PieceTrue
      <4> QED
        BY <3>2, <4>4
    <3> QED
      BY <3>1, <3>2
  <2> HIDE DEF grown
  <2>10. c.bytes \in Nat /\ st.bytes \in Nat /\ cost \in Nat
         /\ (known => c.states[key].bytes \in Nat)
    BY <1>2, <2>3, <2>7, CacheCharged, StateCharged DEF CacheTrue, known
  <2> HIDE DEF cost
  <2>11. n = (IF key \in DOMAIN c.states THEN c.bytes - c.states[key].bytes ELSE c.bytes) + grown.bytes
    BY <2>3, <2>4, <2>5, <2>7, <2>9, <2>10 DEF known
  <2>12. dup => n = c.bytes
    BY <2>5
  <2> HIDE DEF n
  <2> DEFINE a == Put(c.states, key, grown)
  <2>13. d = [c EXCEPT !.states = a, !.bytes = n]
    OBVIOUS
  <2>14. a = Put(c.states, key, grown) /\ DOMAIN a = DOMAIN c.states \cup {key}
    BY DEF Put
  <2>15. c = [states |-> c.states, bytes |-> c.bytes, since |-> c.since]
    BY <1>2 DEF CacheTrue
  <2> HIDE DEF a, d
  <2>16. d = [states |-> a, bytes |-> n, since |-> c.since]
    BY <2>13, <2>15
  <2>17. CacheTrue(d) /\ remove_key(d, key) = remove_key(c, key)
    BY <1>2, <2>9, <2>11, <2>14, <2>16, PutTrue
  <2>18. CASE Complete(grown)
    <3>1. r = done
      BY <2>2, <2>18
    <3>2. done.cache = remove_key(c, key) /\ done.payload = Payload(grown)
      BY <2>17
    <3> HIDE DEF done
    <3>3. \A i \in DOMAIN Payload(grown) : Payload(grown)[i][1] = i - 1
      BY <2>9, <2>18, PayloadTrue DEF StateTrue, Complete
    <3> QED
      BY <1>3, <3>1, <3>2, <3>3
  <2>19. CASE ~Complete(grown)
    <3>1. PICK e \in (IF dup THEN {d} ELSE Evicted(d)) : r = left(e)
      BY <2>2, <2>19
    <3>2. left(e).cache = e /\ left(e).out = "pending"
      OBVIOUS
    <3> HIDE DEF left
    <3>3. CASE dup
      <4>1. DOMAIN a = DOMAIN c.states
        BY <2>5, <2>14, <3>3 DEF known
      <4>2. d.states = a /\ d.bytes = c.bytes
        BY <2>12, <2>16, <3>3
      <4>3. ~OverLimits(d)
        BY <1>2, <4>1, <4>2 DEF OverLimits
      <4> QED
        BY <2>17, <3>1, <3>2, <3>3, <4>3
    <3>4. CASE ~dup
      BY <2>17, <3>1, <3>2, <3>4, EvictionTrue
    <3> QED
      BY <3>3, <3>4
  <2> QED
    BY <2>18, <2>19
<1> QED
  BY <1>4, <1>5

(* Time passes over the cache.                                             *)
LEMMA AgingTrue ==
    ASSUME NEW c, CacheTrue(c), ~OverLimits(c)
    PROVE  CacheTrue(AgeCache(c)) /\ ~OverLimits(AgeCache(c))
<1> DEFINE D == DOMAIN c.states
           age(k) == IF c.states[k].age < FragmentTimeout + CleanupInterval
                     THEN c.states[k].age + 1 ELSE c.states[k].age
           a == [k \in D |-> [c.states[k] EXCEPT !.age = age(k)]]
           n == IF c.since < CleanupInterval THEN c.since + 1 ELSE c.since
           d == AgeCache(c)
<1>1. c = [states |-> c.states, bytes |-> c.bytes, since |-> c.since]
  BY DEF CacheTrue
<1>2. d = [c EXCEPT !.states = a, !.since = n]
  BY DEF AgeCache
<1>3. /\ DOMAIN a = D /\ a = [k \in DOMAIN a |-> a[k]]
      /\ \A k \in D : a[k] = [c.states[k] EXCEPT !.age = age(k)]
  OBVIOUS
<1> HIDE DEF a, n, d, age
<1>4. d = [states |-> a, bytes |-> c.bytes, since |-> n]
  BY <1>1, <1>2
<1>5. d.states = a /\ d.bytes = c.bytes /\ d.since = n
  BY <1>4
<1>6. \A k \in D : StateTrue(a[k]) /\ a[k].bytes = c.states[k].bytes
  <2> TAKE k \in D
  <2>1. PICK st, u, m : st = c.states[k] /\ u = a[k] /\ m = age(k)
    OBVIOUS
  <2>2. StateTrue(st) /\ u = [st EXCEPT !.age = m]
    BY <1>3, <2>1 DEF CacheTrue
  <2>3. StateTrue(u) /\ u.bytes = st.bytes
    BY <2>2, SeenTrue
  <2> QED
    BY <2>1, <2>3
<1>7. Charges(d) = Charges(c)
  BY <1>3, <1>5, <1>6 DEF Charges
<1>8. CacheTrue(d)
  BY <1>3, <1>4, <1>5, <1>6, <1>7 DEF CacheTrue
<1>9. ~OverLimits(d)
  BY <1>3, <1>5 DEF OverLimits
<1> QED
  BY <1>8, <1>9 DEF d

(* A verdict that hands a fragment to the cache is about one of the frame's*)
(* headers.                                                                *)
FromHeader(d, layers) ==
    /\ DOMAIN d = DecoderFields
    /\ d.res.kind = "fragment" =>
          \E l \in Range(layers) : "frag" \in DOMAIN l /\ d.res.frag = l.frag

(* Every header keeps it so.                                               *)
LEMMA FromHeaderStep ==
    ASSUME NEW layers, NEW l \in Range(layers), NEW d, FromHeader(d, layers), NEW e,
           e = DecodeLayer(d, l)
    PROVE  FromHeader(e, layers)
<1>1. ASSUME NEW x, DOMAIN x = DecoderFields, NEW v,
             v.kind = "fragment" => "frag" \in DOMAIN l /\ v.frag = l.frag
      PROVE  FromHeader(Finish(x, v), layers)
  BY <1>1 DEF FromHeader, Finish, DecoderFields
<1>2. DOMAIN d = DecoderFields
  BY DEF FromHeader
<1>3. FromHeader(Ignored(d), layers)
  <2> DEFINE v == [kind |-> "ignored"]
  <2>1. v.kind = "ignored"
    OBVIOUS
  <2> HIDE DEF v
  <2>2. FromHeader(Finish(d, v), layers)
    BY <1>1, <1>2, <2>1
  <2> QED
    BY <2>2 DEF Ignored, v
<1>4. ASSUME NEW x, DOMAIN x = DecoderFields PROVE FromHeader(Finish(x, ParsedPacket(x, l)), layers)
  <2> DEFINE v == ParsedPacket(x, l)
  <2>1. v.kind = "packet"
    BY DEF ParsedPacket
  <2> HIDE DEF v
  <2> QED
    BY <1>1, <1>4, <2>1 DEF v
<1>5. ASSUME NEW id PROVE DOMAIN IntoTunnel(d, id) = DecoderFields /\ IntoTunnel(d, id).res = d.res
  BY <1>2 DEF IntoTunnel, DecoderFields
<1>6. CASE d.res # Going
  BY <1>6, Zenon DEF DecodeLayer
<1>7. CASE d.res = Going /\ "short" \in DOMAIN l
  <2> DEFINE v == [kind |-> "error"]
  <2>1. e = Finish(d, v)
    BY <1>7, Zenon DEF DecodeLayer
  <2>2. v.kind = "error"
    OBVIOUS
  <2> HIDE DEF v
  <2> QED
    BY <1>1, <1>2, <2>1, <2>2
<1>8. CASE d.res = Going /\ "short" \notin DOMAIN l
  <2>1. d.res.kind = "going"
    BY <1>8 DEF Going
  <2>2. ASSUME NEW x, DOMAIN x = DecoderFields, x.res = d.res PROVE FromHeader(x, layers)
    BY <2>1, <2>2 DEF FromHeader
  <2>3. CASE l.t = "eth"
    <3>1. e = decode_ethernet(d, l)
      BY <1>8, <2>3 DEF DecodeLayer
    <3>2. FromHeader([d EXCEPT !.domain = @ \o l.tags], layers)
      <4> DEFINE x == [d EXCEPT !.domain = @ \o l.tags]
      <4>1. DOMAIN x = DecoderFields /\ x.res = d.res
        BY <1>2 DEF DecoderFields
      <4> HIDE DEF x
      <4> QED
        BY <2>2, <4>1 DEF x
    <3> QED
      BY <1>3, <3>1, <3>2, Zenon DEF decode_ethernet
  <2>4. CASE l.t \in {"ip4", "ip6"}
    <3>1. e = decode_ip(d, l)
      BY <1>8, <2>4 DEF DecodeLayer
    <3> DEFINE t == IF d.inside = "ip" THEN IntoTunnel(d, l.t) ELSE d
               x == [t EXCEPT !.inside = "ip", !.src = l.src, !.dst = l.dst, !.v4 = (l.t = "ip4")]
               v == [kind |-> "fragment", frag |-> l.frag,
                     key |-> <<l.t, x.domain, l.src, l.dst, l.frag.id>>]
    <3>2. decode_ip(d, l) = IF d.inside = "ip" /\ ~MayDecap(d) THEN Ignored(d)
                            ELSE IF "frag" \in DOMAIN l THEN Finish(x, v) ELSE x
      BY Zenon DEF decode_ip
    <3>3. DOMAIN t = DecoderFields /\ t.res = d.res
      BY <1>2, <1>5
    <3> HIDE DEF t
    <3>4. DOMAIN x = DecoderFields /\ x.res = d.res
      BY <3>3 DEF DecoderFields
    <3> HIDE DEF x
    <3>5. FromHeader(x, layers)
      BY <2>2, <3>4
    <3>6. v.frag = l.frag
      OBVIOUS
    <3> HIDE DEF v
    <3>7. "frag" \in DOMAIN l => FromHeader(Finish(x, v), layers)
      BY <1>1, <3>4, <3>6
    <3> QED
      BY <1>3, <3>1, <3>2, <3>5, <3>7
  <2>5. ASSUME NEW id PROVE FromHeader([IntoTunnel(d, id) EXCEPT !.inside = "link"], layers)
    <3> DEFINE y == IntoTunnel(d, id)
               x == [y EXCEPT !.inside = "link"]
    <3>1. DOMAIN y = DecoderFields /\ y.res = d.res
      BY <1>5
    <3> HIDE DEF y
    <3>2. DOMAIN x = DecoderFields /\ x.res = d.res
      BY <3>1 DEF DecoderFields
    <3> HIDE DEF x
    <3>3. FromHeader(x, layers)
      BY <2>2, <3>2
    <3> QED
      BY <3>3 DEF x, y
  <2>6. CASE l.t = "gre"
    <3>1. e = decode_gre(d, l)
      BY <1>8, <2>6 DEF DecodeLayer
    <3> QED
      BY <1>3, <2>5, <3>1 DEF decode_gre
  <2>7. CASE l.t = "vxlan"
    <3>1. e = decode_vxlan(d, l)
      BY <1>8, <2>7 DEF DecodeLayer
    <3> QED
      BY <1>2, <1>4, <2>5, <3>1 DEF decode_vxlan
  <2>8. CASE l.t \in {"tcp", "udp"}
    <3>1. e = Finish(d, ParsedPacket(d, l))
      BY <1>8, <2>8 DEF DecodeLayer
    <3> QED
      BY <1>2, <1>4, <3>1
  <2>9. CASE l.t \notin {"eth", "ip4", "ip6", "gre", "vxlan", "tcp", "udp"}
    <3>1. e = Ignored(d)
      BY <1>8, <2>9 DEF DecodeLayer
    <3> QED
      BY <1>3, <3>1
  <2> QED
    BY <2>3, <2>4, <2>6, <2>7, <2>8, <2>9
<1> QED
  BY <1>6, <1>7, <1>8

(* What the decoder hands to the cache is cut from a datagram.             *)
LEMMA FragmentIsCut ==
    ASSUME NEW f \in Frames, NEW r, r = decode(Start, f.layers).res, r.kind = "fragment"
    PROVE  IsCut(r.frag)
<1> DEFINE L == f.layers
           n == Len(f.layers)
<1>1. L \in Seq(Range(L)) /\ n \in Nat /\ \A l \in Range(L) : "frag" \in DOMAIN l => IsCut(l.frag)
  <2>1. L \in Seq(Range(L))
    BY FramesAssumption
  <2>2. \A l \in Range(L) : "frag" \in DOMAIN l => IsCut(l.frag)
    BY FramesAssumption, Zenon
  <2> QED
    BY <2>1, <2>2
<1>2. \A i \in 1 .. n : L[i] \in Range(L)
  BY <1>1
<1>3. PICK d : IsDecoding(d, Start, L, n) /\ decode(Start, L) = d[n]
  BY <1>1, DecodeSteps
<1> DEFINE Bad == {i \in Nat : i <= n /\ ~FromHeader(d[i], L)}
<1>4. ASSUME Bad # {} PROVE FALSE
  <2>1. PICK m \in Bad : \A k \in Bad : m <= k
    BY <1>4, LeastNatural
  <2>2. CASE m = 0
    <3>1. d[0] = Start
      BY <1>3 DEF IsDecoding
    <3>2. FromHeader(Start, L)
      BY DEF FromHeader, Start, DecoderFields, Going
    <3> QED
      BY <2>1, <2>2, <3>1, <3>2
  <2>3. CASE m # 0
    <3>1. m \in 1 .. n /\ m - 1 \in Nat /\ m - 1 \notin Bad /\ m - 1 <= n
      BY <1>1, <2>1, <2>3
    <3>2. FromHeader(d[m - 1], L)
      BY <3>1
    <3>3. d[m] = DecodeLayer(d[m - 1], L[m]) /\ L[m] \in Range(L)
      BY <1>2, <1>3, <3>1 DEF IsDecoding
    <3> HIDE DEF L
    <3>4. FromHeader(d[m], L)
      BY <3>2, <3>3, FromHeaderStep
    <3> QED
      BY <2>1, <3>4
  <2> QED
    BY <2>2, <2>3
<1>5. FromHeader(d[n], L)
  BY <1>1, <1>4
<1>6. PICK l \in Range(L) : "frag" \in DOMAIN l /\ r.frag = l.frag
  BY <1>3, <1>5 DEF FromHeader
<1> QED
  BY <1>1, <1>6

-----------------------------------------------------------------------------
(* The inductive invariant of the fragment cache while workers use it.     *)

FragmentsInv ==
    /\ CacheTrue(cache) /\ ~OverLimits(cache)
    /\ \A p \in reassembled : \A i \in DOMAIN p : p[i][1] = i - 1

(* The cache starts empty.                                                 *)
LEMMA FragmentsInit == Init => FragmentsInv
<1> SUFFICES ASSUME Init PROVE FragmentsInv
  OBVIOUS
<1>1. cache = EmptyCache /\ reassembled = {}
  BY DEF Init
<1>2. EmptyCache.states = <<>> /\ EmptyCache.bytes = 0 /\ EmptyCache.since = 0
  BY DEF EmptyCache
<1>3. DOMAIN EmptyCache.states = {} /\ <<>> = [k \in {} |-> <<>>[k]]
  BY <1>2
<1>4. SumOf(Charges(EmptyCache)) = 0
  <2>1. DOMAIN Charges(EmptyCache) = {} /\ Charges(EmptyCache) \in [{} -> Nat]
    BY <1>3 DEF Charges
  <2> QED
    BY <2>1, SumOfTally, FS_EmptySet DEF IsTally
<1>5. CacheTrue(EmptyCache)
  BY <1>2, <1>3, <1>4, FS_EmptySet DEF CacheTrue, EmptyCache
<1>6. ~OverLimits(EmptyCache)
  BY <1>2, <1>3, FS_EmptySet, FragmentLimitsAssumption DEF OverLimits
<1> QED
  BY <1>1, <1>5, <1>6 DEF FragmentsInv

(* A fragment that arrives.                                                *)
LEMMA FragmentArrives ==
    ASSUME FragmentsInv, NEW w, NEW f \in Frames, Receive(w, f)
    PROVE  FragmentsInv'
<1> DEFINE d == decode(Start, f.layers)
<1>1. CASE UNCHANGED <<cache, reassembled>>
  BY <1>1 DEF FragmentsInv
<1>2. CASE ~UNCHANGED <<cache, reassembled>>
  <2>1. /\ d.res.kind = "fragment"
        /\ \E r \in insert(cache, d.res.key, d.res.frag.off, d.res.frag.more,
                           d.res.frag.ragged, d.res.frag.data) :
             /\ cache' = r.cache
             /\ \/ r.out = "complete" /\ reassembled' = reassembled \cup {r.payload}
                \/ reassembled' = reassembled
    BY <1>2, Zenon DEF Receive
  <2>2. PICK g : g = d.res.frag
    OBVIOUS
  <2>3. PICK key : key = d.res.key
    OBVIOUS
  <2>4. IsCut(g)
    BY <2>1, <2>2, FragmentIsCut
  <2>5. g.off \in Nat /\ g.more \in BOOLEAN /\ CutAt(g.data, g.off)
    BY <2>4 DEF IsCut, CutAt, IsSequence, Range
  <2> HIDE DEF d
  <2>6. PICK r \in insert(cache, key, g.off, g.more, g.ragged, g.data) :
             /\ cache' = r.cache
             /\ \/ r.out = "complete" /\ reassembled' = reassembled \cup {r.payload}
                \/ reassembled' = reassembled
    BY <2>1, <2>2, <2>3
  <2>7. /\ CacheTrue(r.cache) /\ ~OverLimits(r.cache)
        /\ r.out = "complete" => \A i \in DOMAIN r.payload : r.payload[i][1] = i - 1
    BY <2>5, <2>6, InsertTrue DEF FragmentsInv
  <2>8. PICK c, q : c = cache' /\ q = reassembled'
    OBVIOUS
  <2>9. /\ CacheTrue(c) /\ ~OverLimits(c)
        /\ \A p \in q : \A i \in DOMAIN p : p[i][1] = i - 1
    BY <2>6, <2>7, <2>8 DEF FragmentsInv
  <2>10. /\ CacheTrue(cache') /\ ~OverLimits(cache')
         /\ \A p \in reassembled' : \A i \in DOMAIN p : p[i][1] = i - 1
    BY <2>8, <2>9
  <2> QED
    BY <2>10 DEF FragmentsInv, CacheTrue, OverLimits, Charges, StateTrue, IsState, PiecesTrue,
                 CutAt, Costs, End
<1> QED
  BY <1>1, <1>2

(* Every step keeps the invariant of the cache.                            *)
LEMMA FragmentsStep == FragmentsInv /\ [Next]_vars => FragmentsInv'
<1> SUFFICES ASSUME FragmentsInv, [Next]_vars PROVE FragmentsInv'
  OBVIOUS
<1>1. CASE UNCHANGED <<cache, reassembled>>
  BY <1>1 DEF FragmentsInv
<1>2. CASE Tick
  <2>1. cache' = AgeCache(cache) /\ reassembled' = reassembled
    BY <1>2 DEF Tick
  <2>2. PICK c : c = cache'
    OBVIOUS
  <2>3. CacheTrue(c) /\ ~OverLimits(c)
    BY <2>1, <2>2, AgingTrue DEF FragmentsInv
  <2>4. CacheTrue(cache') /\ ~OverLimits(cache')
    BY <2>2, <2>3
  <2> QED
    BY <2>1, <2>4 DEF FragmentsInv, CacheTrue, OverLimits, Charges, StateTrue, IsState, PiecesTrue,
                      CutAt, Costs, End
<1>3. ASSUME NEW o \in Operators, OperatorStep(o) PROVE UNCHANGED <<cache, reassembled>>
  BY <1>3 DEF OperatorStep
<1>4. ASSUME NEW w \in Workers, WorkerStep(w)
      PROVE  UNCHANGED <<cache, reassembled>> \/ \E f \in Frames : Receive(w, f)
  BY <1>4 DEF WorkerStep, CheckGeneration, ReadPorts, InstallFilter, InstallFails, NoFrame,
              Gate, Send, Rest
<1>5. Dequeue \/ Snapshot \/ UNCHANGED vars => UNCHANGED <<cache, reassembled>>
  BY DEF Dequeue, Snapshot, vars
<1> QED
  BY <1>1, <1>2, <1>3, <1>4, <1>5, FragmentArrives DEF Next

(* Through completion, rejection, expiry and eviction the fragment cache   *)
(* charges what it holds and stays within its limits, stored fragments do  *)
(* not overlap, and a datagram it completes has no hole and no repetition  *)
(* (FragmentCache::insert, try_complete, evict_oldest).                    *)
THEOREM FragmentsCorrect == Spec => []FragmentsSound
<1>1. FragmentsInv => FragmentsSound
  <2> SUFFICES ASSUME FragmentsInv PROVE FragmentsSound
    OBVIOUS
  <2>1. CacheAccounted(cache)
    BY DEF FragmentsInv, CacheTrue, CacheAccounted, Charges, StateTrue, Costs
  <2>2. CacheDisjoint(cache)
    BY DEF FragmentsInv, CacheTrue, CacheDisjoint, StateTrue, PiecesTrue
  <2> QED
    BY <2>1, <2>2 DEF FragmentsInv, FragmentsSound
<1> QED
  BY <1>1, FragmentsInit, FragmentsStep, PTL DEF Spec
=============================================================================
