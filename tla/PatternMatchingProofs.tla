----------------------- MODULE PatternMatchingProofs -----------------------
(***************************************************************************)
(* The compiled set follows the table of patterns, a revision reaches      *)
(* every record, live or in history, and hits do not depend on how a       *)
(* stream is cut into records: for any streams, patterns, requests,        *)
(* traffic and limits.                                                     *)
(***************************************************************************)
EXTENDS PatternMatching, FiniteSetTheorems, TLAPS, WellFoundedInduction

-----------------------------------------------------------------------------
(* Facts about sequences.                                                  *)

(* What is numbered from 1 is a sequence.                                  *)
LEMMA NumberedIsSequence ==
    ASSUME NEW n \in Nat, NEW q, q = [i \in 1 .. n |-> q[i]]
    PROVE  IsSequence(q) /\ Len(q) = n
<1> DEFINE T == {q[i] : i \in DOMAIN q}
<1>1. q \in [1 .. n -> T]
  OBVIOUS
<1> HIDE DEF T
<1>2. q \in Seq(T) /\ Len(q) = n
  BY <1>1
<1> QED
  BY <1>2 DEF IsSequence, T

(* A sequence is numbered from 1.                                          *)
LEMMA SequenceIsNumbered ==
    ASSUME NEW q, IsSequence(q)
    PROVE  Len(q) \in Nat /\ DOMAIN q = 1 .. Len(q) /\ q = [i \in 1 .. Len(q) |-> q[i]]
<1> DEFINE T == {q[i] : i \in DOMAIN q}
<1>1. q \in Seq(T)
  BY DEF IsSequence
<1> HIDE DEF T
<1> QED
  BY <1>1

(* No elements make a sequence.                                            *)
LEMMA EmptySequence == IsSequence(<<>>) /\ Len(<<>>) = 0 /\ DOMAIN <<>> = {}
BY DEF IsSequence

(* Appending to a sequence leaves what it has, and adds one element.       *)
LEMMA AppendToSequence ==
    ASSUME NEW q, IsSequence(q), NEW x
    PROVE  /\ IsSequence(Append(q, x)) /\ Len(q) \in Nat /\ Len(Append(q, x)) = Len(q) + 1
           /\ DOMAIN q = 1 .. Len(q) /\ DOMAIN Append(q, x) = 1 .. Len(q) + 1
           /\ \A i \in DOMAIN q : Append(q, x)[i] = q[i]
           /\ Append(q, x)[Len(q) + 1] = x
<1> DEFINE T == {q[i] : i \in DOMAIN q}
           U == T \cup {x}
           r == Append(q, x)
<1>1. q \in Seq(T) /\ q \in Seq(U) /\ x \in U
  BY DEF IsSequence
<1> HIDE DEF T, U
<1>2. /\ r \in Seq(U) /\ Len(q) \in Nat /\ Len(r) = Len(q) + 1
      /\ DOMAIN q = 1 .. Len(q) /\ DOMAIN r = 1 .. Len(q) + 1
      /\ \A i \in DOMAIN q : r[i] = q[i]
      /\ r[Len(q) + 1] = x
  BY <1>1
<1> HIDE DEF r
<1>3. r = [i \in 1 .. Len(q) + 1 |-> r[i]]
  BY <1>2
<1>4. IsSequence(r)
  BY <1>2, <1>3, NumberedIsSequence
<1> QED
  BY <1>2, <1>4 DEF r

(* Taking the first element of a sequence moves the others up.             *)
LEMMA TailOfSequence ==
    ASSUME NEW q, IsSequence(q), q # <<>>
    PROVE  /\ IsSequence(Tail(q)) /\ Len(q) \in Nat \ {0} /\ DOMAIN q = 1 .. Len(q)
           /\ Head(q) = q[1] /\ Len(Tail(q)) = Len(q) - 1 /\ DOMAIN Tail(q) = 1 .. Len(q) - 1
           /\ \A i \in DOMAIN Tail(q) : i + 1 \in DOMAIN q /\ Tail(q)[i] = q[i + 1]
<1> DEFINE T == {q[i] : i \in DOMAIN q}
           r == Tail(q)
<1>1. q \in Seq(T)
  BY DEF IsSequence
<1> HIDE DEF T
<1>2. /\ r \in Seq(T) /\ Len(q) \in Nat \ {0} /\ DOMAIN q = 1 .. Len(q)
      /\ Head(q) = q[1] /\ Len(r) = Len(q) - 1 /\ DOMAIN r = 1 .. Len(q) - 1
      /\ \A i \in DOMAIN r : i + 1 \in DOMAIN q /\ r[i] = q[i + 1]
  BY <1>1
<1> HIDE DEF r
<1>3. r = [i \in 1 .. Len(q) - 1 |-> r[i]]
  BY <1>2
<1>4. IsSequence(r)
  BY <1>2, <1>3, NumberedIsSequence
<1> QED
  BY <1>2, <1>4 DEF r

-----------------------------------------------------------------------------
(* The inductive invariant.                                                *)

Listed == {"listed", "stored", "masked", "installed"}
OpFields == {"pc", "p", "enabled", "set"}

OpShape(o) ==
    /\ ops[o].pc \in {"idle", "ended", "read", "written"} \cup Listed
    /\ ops[o].pc = "idle" => ops[o].request.id \in Ids
    /\ ops[o].pc = "read" => ops[o].id \in Ids
    /\ ops[o].pc \in Listed => DOMAIN ops[o] = OpFields /\ ops[o].set \subseteq Revisions

RegistryShape ==
    /\ DOMAIN patterns = Ids /\ \A id \in Ids : IsSequence(patterns[id])
    /\ DOMAIN ops = Ops /\ \A o \in Ops : OpShape(o)
    /\ active \subseteq Revisions

(* From the insertion of its revision to its historical scan a request is  *)
(* alone, unless requests overlapped: what it has listed is what the table *)
(* asks for, and so is the set that it has installed.                      *)
Writing(o) == ops[o].pc = "written" \/ ops[o].pc \in Listed
Serial ==
    /\ \A o, x \in Ops : Writing(o) /\ Writing(x) => o = x
    /\ \A o \in Ops : ops[o].pc \in Listed => ops[o].set = list_enabled_patterns
    /\ \A o \in Ops : ops[o].pc \in Listed \ {"listed"} => active = list_enabled_patterns
    /\ ~failed /\ (\A o \in Ops : ~Writing(o)) => active = list_enabled_patterns

(* One request installs at a time; between its first two stores the mask   *)
(* is behind the set, at any other time it is the mask of the set.         *)
MaskFollows ==
    /\ \A o, x \in Ops : Installing(o) /\ Installing(x) => o = x
    /\ \A o \in Ops : ops[o].pc = "stored" => ops[o].set = active
    /\ (\A o \in Ops : ops[o].pc # "stored") => interest_mask = MaskOf(active)

RegistryInv == RegistryShape /\ (~overlapped => Serial) /\ MaskFollows

RecordFields == {"s", "offset", "data", "view", "service", "fate", "seen", "snapshot",
                 "generation", "limited"}
Handled == {"accepted", "prepared"}

(* A record on its way: a mask without its view was no mask of a set with  *)
(* a rule for it, and only a record that is wanted gets to the queue.      *)
IngressInv ==
    /\ IsSequence(accepted) /\ \A k \in DOMAIN accepted : DOMAIN accepted[k] = RecordFields
    /\ IsSequence(queue)
    /\ l7.pc = "read" =>
         /\ l7.copied \in BOOLEAN /\ l7.seen \subseteq Revisions
         /\ ~l7.copied => \A p \in l7.seen :
               StreamOf[l7.piece.s].view \notin views_for_pattern(ExprOf(p))
    /\ l7.pc \in Handled => Last \in DOMAIN accepted /\ accepted[Last].fate = "pending"
    /\ \A i \in DOMAIN queue : queue[i].kind = "content" =>
         /\ queue[i].k \in DOMAIN accepted
         /\ accepted[queue[i].k].fate # "skipped"
         /\ l7.pc \in Handled => queue[i].k # Last

Reached(p, k) ==
    Applies(p, accepted[k]) =>
        \/ p \in accepted[k].snapshot
        \/ k = Last /\ l7.pc = "accepted"
        \/ accepted[k].fate = "skipped" /\ p \notin accepted[k].seen
ReachInv ==
    \A p \in DOMAIN sealed \ removed :
        /\ p \in active /\ sealed[p] \in Nat
        /\ \A k \in sealed[p] + 1 .. Len(accepted) : Reached(p, k)

MatchingInv == RegistryInv /\ IngressInv /\ ReachInv

-----------------------------------------------------------------------------
(* What the steps of requests have in common.                              *)

(* The table only grows: revisions are inserted, and none is changed.      *)
Grown ==
    /\ DOMAIN patterns' = Ids /\ \A id \in Ids : IsSequence(patterns'[id])
    /\ \A id \in Ids : \A n \in DOMAIN patterns[id] :
          n \in DOMAIN patterns'[id] /\ patterns'[id][n] = patterns[id][n]

(* Revisions stay in the table, with their expressions.                    *)
LEMMA RevisionsStay ==
    ASSUME Grown
    PROVE  /\ Revisions \subseteq Revisions'
           /\ \A p \in Revisions : patterns'[p.id][p.rev] = patterns[p.id][p.rev]
<1>1. ASSUME NEW p \in Revisions
      PROVE  /\ p.id \in Ids /\ p.rev \in DOMAIN patterns[p.id]
             /\ p \in Revisions'
  <2>0. PICK id \in Ids : p \in {Rev(id, n) : n \in DOMAIN patterns[id]}
    BY DEF Revisions
  <2>1. PICK n \in DOMAIN patterns[id] : p = Rev(id, n)
    BY <2>0
  <2>2. p.id = id /\ p.rev = n
    BY <2>1 DEF Rev
  <2>3. n \in DOMAIN patterns'[id]
    BY DEF Grown
  <2> QED
    BY <2>1, <2>2, <2>3 DEF Revisions, Rev
<1> QED
  BY <1>1 DEF Grown

(* A table that stays as it is has grown by nothing.                       *)
LEMMA SameTable ==
    ASSUME RegistryShape, patterns' = patterns
    PROVE  /\ Grown /\ Revisions' = Revisions
           /\ list_enabled_patterns' = list_enabled_patterns
BY DEF RegistryShape, Grown, Revisions, list_enabled_patterns, LatestRev, Latest, Rev

(* The mask of a set of revisions does not depend on what was inserted.    *)
LEMMA MaskStays ==
    ASSUME Grown, NEW S, S \subseteq Revisions
    PROVE  UNION {views_for_pattern(patterns'[p.id][p.rev].expr) : p \in S} = MaskOf(S)
<1>1. \A p \in S : patterns'[p.id][p.rev] = patterns[p.id][p.rev]
  BY RevisionsStay
<1> QED
  BY <1>1, Zenon DEF MaskOf, ExprOf

(* A request goes on and leaves the others where they are.                 *)
LEMMA OneMoves ==
    ASSUME RegistryShape, NEW o \in Ops, NEW v, Set(o, v)
    PROVE  DOMAIN ops' = Ops /\ ops'[o] = v /\ \A x \in Ops \ {o} : ops'[x] = ops[x]
BY DEF RegistryShape, Set

(* What a request has listed is still in a table that has grown.           *)
LEMMA ShapeOfOthers ==
    ASSUME RegistryShape, Grown, NEW o \in Ops, NEW v, Set(o, v),
           OpShape(o)', active' \subseteq Revisions'
    PROVE  RegistryShape'
<1>1. DOMAIN ops' = Ops /\ ops'[o] = v /\ \A x \in Ops \ {o} : ops'[x] = ops[x]
  BY OneMoves
<1>2. Revisions \subseteq Revisions'
  BY RevisionsStay
<1>3. ASSUME NEW x \in Ops PROVE OpShape(x)'
  <2>1. CASE x = o
    BY <2>1
  <2>2. CASE x # o
    <3>1. ops'[x] = ops[x] /\ OpShape(x)
      BY <1>1, <2>2 DEF RegistryShape
    <3> QED
      BY <1>2, <3>1 DEF OpShape
  <2> QED
    BY <2>1, <2>2
<1> QED
  BY <1>1, <1>3 DEF RegistryShape, Grown

(* A request that is not between the first two stores of an installation,  *)
(* before and after its step, leaves the mask where it was.                *)
LEMMA MaskOfOthers ==
    ASSUME RegistryShape, MaskFollows, Grown, NEW o \in Ops, NEW v, Set(o, v),
           active' = active, interest_mask' = interest_mask,
           ops[o].pc # "stored", v.pc \notin {"stored", "masked"}
    PROVE  MaskFollows'
<1>1. DOMAIN ops' = Ops /\ ops'[o] = v /\ \A x \in Ops \ {o} : ops'[x] = ops[x]
  BY OneMoves
<1>2. MaskOf(active)' = MaskOf(active)
  <2>1. active \subseteq Revisions
    BY DEF RegistryShape
  <2>2. MaskOf(active)' = UNION {views_for_pattern(patterns'[p.id][p.rev].expr) : p \in active'}
    BY Zenon DEF MaskOf, ExprOf
  <2> QED
    BY <2>1, <2>2, MaskStays
<1>3. \A x \in Ops : (Installing(x)' => Installing(x) /\ x # o) /\ (ops'[x].pc = "stored" <=> ops[x].pc = "stored")
  BY <1>1 DEF Installing
<1>4. \A x \in Ops : ops'[x].pc = "stored" => ops'[x].set = active'
  BY <1>1, <1>3 DEF MaskFollows
<1> QED
  BY <1>2, <1>3, <1>4 DEF MaskFollows

-----------------------------------------------------------------------------
(* The steps of a request, one by one.                                     *)

(* A request that is taken, refused or done: the table and the set stay.   *)
LEMMA QuietMove ==
    ASSUME RegistryInv, NEW o \in Ops, NEW v, Set(o, v),
           patterns' = patterns, active' = active, interest_mask' = interest_mask,
           overlapped' = overlapped, failed' = failed,
           ops[o].pc \in {"idle", "read", "installed"},
           v.pc \in {"read", "ended"}, v.pc = "read" => v.id \in Ids
    PROVE  RegistryInv'
<1>1. RegistryShape /\ MaskFollows /\ Grown /\ Revisions' = Revisions
      /\ list_enabled_patterns' = list_enabled_patterns
  BY SameTable DEF RegistryInv
<1>2. DOMAIN ops' = Ops /\ ops'[o] = v /\ \A x \in Ops \ {o} : ops'[x] = ops[x]
  BY <1>1, OneMoves
<1>3. RegistryShape'
  <2>1. OpShape(o)'
    BY <1>2 DEF OpShape, Listed
  <2> QED
    BY <1>1, <2>1, ShapeOfOthers DEF RegistryShape
<1>4. MaskFollows'
  BY <1>1, MaskOfOthers
<1>5. ASSUME Serial PROVE Serial'
  <2>1. \A x \in Ops : Writing(x)' => Writing(x) /\ x # o /\ ops'[x] = ops[x]
    BY <1>2 DEF Writing, Listed
  <2>2. \A x \in Ops : ops'[x].pc \in Listed => ops[x].pc \in Listed /\ ops'[x] = ops[x]
    BY <1>2 DEF Listed
  <2>3. CASE ops[o].pc = "installed"
    BY <1>1, <1>5, <2>1, <2>2, <2>3 DEF Serial, Listed
  <2>4. CASE ops[o].pc # "installed"
    <3>1. \A x \in Ops : Writing(x) <=> Writing(x)'
      BY <1>2, <2>4 DEF Writing, Listed
    <3> QED
      BY <1>1, <1>5, <2>1, <2>2, <3>1 DEF Serial
  <2> QED
    BY <2>3, <2>4
<1> QED
  BY <1>3, <1>4, <1>5 DEF RegistryInv

(* insert_pattern_revision of a revision that does not exist.              *)
LEMMA InsertStep ==
    ASSUME RegistryInv, NEW o \in Ops, NEW row, NEW v, ops[o].pc = "read",
           patterns' = [patterns EXCEPT ![ops[o].id] = Append(@, row)],
           Set(o, v), v.pc = "written",
           overlapped' = (overlapped \/ \E x \in Ops \ {o} : Busy(x) /\ ops[x].pc # "read"),
           active' = active, interest_mask' = interest_mask, failed' = failed
    PROVE  RegistryInv' /\ Grown
<1> DEFINE id == ops[o].id
<1>1. RegistryShape /\ MaskFollows /\ id \in Ids
  BY DEF RegistryInv, RegistryShape, OpShape
<1>2. DOMAIN ops' = Ops /\ ops'[o] = v /\ \A x \in Ops \ {o} : ops'[x] = ops[x]
  BY <1>1, OneMoves
<1>3. Grown
  <2>1. /\ DOMAIN patterns' = Ids /\ patterns'[id] = Append(patterns[id], row)
        /\ \A i \in Ids \ {id} : patterns'[i] = patterns[i]
        /\ \A i \in Ids : IsSequence(patterns[i])
    BY <1>1 DEF RegistryShape
  <2>2. /\ IsSequence(patterns'[id])
        /\ \A n \in DOMAIN patterns[id] :
             n \in DOMAIN patterns'[id] /\ patterns'[id][n] = patterns[id][n]
    <3>1. IsSequence(patterns[id])
      BY <1>1, <2>1
    <3> HIDE DEF id
    <3>2. /\ IsSequence(Append(patterns[id], row)) /\ Len(patterns[id]) \in Nat
          /\ DOMAIN patterns[id] = 1 .. Len(patterns[id])
          /\ DOMAIN Append(patterns[id], row) = 1 .. Len(patterns[id]) + 1
          /\ \A n \in DOMAIN patterns[id] : Append(patterns[id], row)[n] = patterns[id][n]
      BY <3>1, AppendToSequence
    <3> QED
      BY <2>1, <3>2
  <2> QED
    BY <2>1, <2>2 DEF Grown
<1>4. RegistryShape'
  <2>1. OpShape(o)'
    BY <1>2 DEF OpShape, Listed
  <2>2. active' \subseteq Revisions'
    BY <1>1, <1>3, RevisionsStay DEF RegistryShape
  <2> QED
    BY <1>1, <1>3, <2>1, <2>2, ShapeOfOthers
<1>5. MaskFollows'
  BY <1>1, <1>3, MaskOfOthers
<1>6. ASSUME ~overlapped' PROVE Serial'
  <2>1. \A x \in Ops \ {o} : ~Writing(x)
    BY <1>6 DEF Busy, Writing, Listed
  <2>2. \A x \in Ops : Writing(x)' => x = o
    BY <1>2, <2>1 DEF Writing
  <2>3. Writing(o)' /\ \A x \in Ops : ops'[x].pc \notin Listed
    BY <1>2, <2>1 DEF Writing, Listed
  <2> QED
    BY <2>2, <2>3 DEF Serial
<1> QED
  BY <1>3, <1>4, <1>5, <1>6 DEF RegistryInv

(* prepare_rebuild and its failure.                                        *)
LEMMA RebuildStep ==
    ASSUME RegistryInv, NEW o \in Ops, prepare_rebuild(o) \/ RebuildFails(o)
    PROVE  RegistryInv'
<1>1. /\ RegistryShape /\ MaskFollows /\ Grown /\ Revisions' = Revisions
      /\ list_enabled_patterns' = list_enabled_patterns
      /\ ops[o].pc = "written" /\ active' = active /\ interest_mask' = interest_mask
      /\ overlapped' = overlapped
  BY SameTable DEF RegistryInv, prepare_rebuild, RebuildFails
<1>2. PICK v : /\ Set(o, v)
               /\ \/ /\ v.pc = "listed" /\ DOMAIN v = OpFields
                     /\ v.set = list_enabled_patterns /\ failed' = failed
                  \/ v.pc = "ended" /\ failed'
  <2>1. CASE prepare_rebuild(o)
    <3> DEFINE v == [pc |-> "listed", p |-> ops[o].p, enabled |-> ops[o].enabled,
                     set |-> list_enabled_patterns]
    <3>1. Set(o, v) /\ failed' = failed
      BY <2>1 DEF prepare_rebuild
    <3>2. v.pc = "listed" /\ DOMAIN v = OpFields /\ v.set = list_enabled_patterns
      BY DEF OpFields
    <3> QED
      BY <3>1, <3>2
  <2>2. CASE RebuildFails(o)
    <3> DEFINE v == [pc |-> "ended"]
    <3>1. Set(o, v) /\ failed' /\ v.pc = "ended"
      BY <2>2, Zenon DEF RebuildFails, End
    <3> HIDE DEF v
    <3> QED
      BY <3>1
  <2> QED
    BY <2>1, <2>2
<1>3. DOMAIN ops' = Ops /\ ops'[o] = v /\ \A x \in Ops \ {o} : ops'[x] = ops[x]
  BY <1>1, <1>2, OneMoves
<1>4. list_enabled_patterns \subseteq Revisions
  <2>1. ASSUME NEW id \in Ids, patterns[id] # <<>> PROVE LatestRev(id) \in Revisions
    <3>1. IsSequence(patterns[id])
      BY <1>1 DEF RegistryShape
    <3>2. Len(patterns[id]) \in DOMAIN patterns[id]
      <4> DEFINE q == patterns[id]
      <4>1. IsSequence(q) /\ q # <<>>
        BY <2>1, <3>1
      <4> HIDE DEF q
      <4>2. Len(q) \in Nat \ {0} /\ DOMAIN q = 1 .. Len(q)
        BY <4>1, TailOfSequence
      <4> QED
        BY <4>2 DEF q
    <3> QED
      BY <3>2 DEF LatestRev, Revisions
  <2> QED
    BY <2>1 DEF list_enabled_patterns
<1>5. RegistryShape'
  <2>1. OpShape(o)'
    BY <1>1, <1>2, <1>3, <1>4 DEF OpShape, Listed
  <2> QED
    BY <1>1, <1>2, <2>1, ShapeOfOthers DEF RegistryShape
<1>6. MaskFollows'
  BY <1>1, <1>2, MaskOfOthers
<1>7. ASSUME Serial PROVE Serial'
  <2>1. \A x \in Ops \ {o} : ~Writing(x) /\ ops'[x] = ops[x]
    BY <1>1, <1>3, <1>7 DEF Serial, Writing
  <2>2. \A x \in Ops \ {o} : ~Writing(x)' /\ ops'[x].pc \notin Listed
    BY <2>1 DEF Writing
  <2>3. CASE v.pc = "listed"
    BY <1>1, <1>2, <1>3, <2>2, <2>3 DEF Serial, Writing, Listed
  <2>4. CASE v.pc = "ended" /\ failed'
    BY <1>1, <1>3, <2>2, <2>4 DEF Serial, Writing, Listed
  <2> QED
    BY <1>2, <2>3, <2>4
<1> QED
  BY <1>1, <1>5, <1>6, <1>7 DEF RegistryInv

(* A step of an installation moves the request and keeps what it listed.   *)
LEMMA InstallMove ==
    ASSUME RegistryShape, NEW o \in Ops, ops[o].pc \in Listed, NEW pc \in Listed,
           Set(o, [ops[o] EXCEPT !.pc = pc])
    PROVE  /\ DOMAIN ops' = Ops /\ \A x \in Ops \ {o} : ops'[x] = ops[x]
           /\ ops'[o].pc = pc /\ ops'[o].set = ops[o].set /\ DOMAIN ops'[o] = OpFields
           /\ patterns' = patterns => OpShape(o)'
<1> DEFINE v == [ops[o] EXCEPT !.pc = pc]
<1>1. DOMAIN ops[o] = OpFields /\ ops[o].set \subseteq Revisions
  BY DEF RegistryShape, OpShape
<1>2. v.pc = pc /\ v.set = ops[o].set /\ DOMAIN v = OpFields
  BY <1>1 DEF OpFields
<1> HIDE DEF v
<1>3. DOMAIN ops' = Ops /\ ops'[o] = v /\ \A x \in Ops \ {o} : ops'[x] = ops[x]
  BY OneMoves DEF v
<1>4. patterns' = patterns => OpShape(o)'
  <2>1. patterns' = patterns => Revisions' = Revisions
    BY SameTable
  <2> QED
    BY <1>1, <1>2, <1>3, <2>1 DEF OpShape, Listed
<1> QED
  BY <1>2, <1>3, <1>4

(* The first store: the compiled set.                                      *)
LEMMA StoreActiveStep ==
    ASSUME RegistryInv, NEW o \in Ops, StoreActive(o)
    PROVE  RegistryInv'
<1>1. /\ RegistryShape /\ MaskFollows /\ Grown /\ Revisions' = Revisions
      /\ list_enabled_patterns' = list_enabled_patterns
      /\ ops[o].pc = "listed" /\ ops[o].pc \in Listed /\ "stored" \in Listed
      /\ active' = ops[o].set /\ patterns' = patterns
      /\ overlapped' = overlapped /\ failed' = failed
      /\ Set(o, [ops[o] EXCEPT !.pc = "stored"])
      /\ \A x \in Ops : ~Installing(x)
  BY SameTable DEF RegistryInv, StoreActive, Listed
<1>2. /\ DOMAIN ops' = Ops /\ \A x \in Ops \ {o} : ops'[x] = ops[x]
      /\ ops'[o].pc = "stored" /\ ops'[o].set = ops[o].set /\ OpShape(o)'
  BY <1>1, InstallMove
<1>3. RegistryShape'
  <2>1. active' \subseteq Revisions'
    BY <1>1 DEF RegistryShape, OpShape
  <2> QED
    BY <1>1, <1>2, <2>1, ShapeOfOthers
<1>4. MaskFollows'
  <2>1. \A x \in Ops : Installing(x)' => x = o
    BY <1>1, <1>2 DEF Installing
  <2>2. \A x \in Ops \ {o} : ops'[x].pc # "stored"
    BY <1>1, <1>2 DEF Installing
  <2> QED
    BY <1>1, <1>2, <2>1, <2>2 DEF MaskFollows
<1>5. ASSUME Serial PROVE Serial'
  <2>1. \A x \in Ops \ {o} : ~Writing(x) /\ ops'[x] = ops[x]
    BY <1>1, <1>2, <1>5 DEF Serial, Writing
  <2>2. \A x \in Ops \ {o} : ~Writing(x)' /\ ops'[x].pc \notin Listed
    BY <2>1 DEF Writing
  <2> QED
    BY <1>1, <1>2, <1>5, <2>2 DEF Serial, Writing, Listed
<1> QED
  BY <1>1, <1>3, <1>4, <1>5 DEF RegistryInv

(* The second store: the mask.                                             *)
LEMMA StoreMaskStep ==
    ASSUME RegistryInv, NEW o \in Ops, StoreMask(o)
    PROVE  RegistryInv'
<1>1. /\ RegistryShape /\ MaskFollows /\ Grown /\ Revisions' = Revisions
      /\ list_enabled_patterns' = list_enabled_patterns
      /\ ops[o].pc = "stored" /\ ops[o].pc \in Listed /\ "masked" \in Listed
      /\ active' = active /\ patterns' = patterns
      /\ interest_mask' = MaskOf(ops[o].set)
      /\ overlapped' = overlapped /\ failed' = failed
      /\ Set(o, [ops[o] EXCEPT !.pc = "masked"])
  BY SameTable DEF RegistryInv, StoreMask, Listed
<1>2. /\ DOMAIN ops' = Ops /\ \A x \in Ops \ {o} : ops'[x] = ops[x]
      /\ ops'[o].pc = "masked" /\ ops'[o].set = ops[o].set /\ OpShape(o)'
  BY <1>1, InstallMove
<1>3. RegistryShape'
  <2>1. active' \subseteq Revisions'
    BY <1>1 DEF RegistryShape
  <2> QED
    BY <1>1, <1>2, <2>1, ShapeOfOthers
<1>4. MaskFollows'
  <2>1. Installing(o) /\ \A x \in Ops \ {o} : ~Installing(x) /\ ~Installing(x)'
    BY <1>1, <1>2 DEF MaskFollows, Installing
  <2>2. \A x \in Ops : ops'[x].pc # "stored"
    BY <1>2, <2>1 DEF Installing
  <2>3. interest_mask' = MaskOf(active)'
    <3>1. interest_mask' = MaskOf(active)
      BY <1>1 DEF MaskFollows
    <3>2. MaskOf(active)' = MaskOf(active)
      BY <1>1, Zenon DEF MaskOf, ExprOf
    <3> QED
      BY <3>1, <3>2
  <2> QED
    BY <1>1, <1>2, <2>1, <2>2, <2>3 DEF MaskFollows
<1>5. ASSUME Serial PROVE Serial'
  <2>1. \A x \in Ops \ {o} : ~Writing(x) /\ ops'[x] = ops[x]
    BY <1>1, <1>2, <1>5 DEF Serial, Writing
  <2>2. \A x \in Ops \ {o} : ~Writing(x)' /\ ops'[x].pc \notin Listed
    BY <2>1 DEF Writing
  <2> QED
    BY <1>1, <1>2, <1>5, <2>2 DEF Serial, Writing, Listed
<1> QED
  BY <1>1, <1>3, <1>4, <1>5 DEF RegistryInv

(* The third store: the generation.                                        *)
LEMMA StoreGenerationStep ==
    ASSUME RegistryInv, NEW o \in Ops, StoreGeneration(o)
    PROVE  RegistryInv'
<1>1. /\ RegistryShape /\ MaskFollows /\ Grown /\ Revisions' = Revisions
      /\ list_enabled_patterns' = list_enabled_patterns
      /\ ops[o].pc = "masked" /\ ops[o].pc \in Listed /\ "installed" \in Listed
      /\ active' = active /\ patterns' = patterns /\ interest_mask' = interest_mask
      /\ overlapped' = overlapped
  BY SameTable DEF RegistryInv, StoreGeneration, Listed
<1>2. PICK v : /\ Set(o, v) /\ OpShape(o)' /\ v.pc \in {"installed", "ended"}
               /\ v.pc = "installed" => v.set = ops[o].set
  <2>1. CASE Set(o, [ops[o] EXCEPT !.pc = "installed"])
    <3>1. /\ ops'[o].pc = "installed" /\ ops'[o].set = ops[o].set /\ OpShape(o)'
      BY <1>1, <2>1, InstallMove
    <3> DEFINE v == [ops[o] EXCEPT !.pc = "installed"]
    <3>2. ops'[o] = v
      BY <1>1, <2>1, OneMoves
    <3> HIDE DEF v
    <3> QED
      BY <2>1, <3>1, <3>2 DEF v
  <2>2. CASE End(o)
    <3> DEFINE v == [pc |-> "ended"]
    <3>1. Set(o, v) /\ v.pc = "ended"
      BY <2>2, Zenon DEF End
    <3> HIDE DEF v
    <3>2. ops'[o] = v
      BY <1>1, <3>1, OneMoves
    <3> QED
      BY <3>1, <3>2 DEF OpShape, Listed
  <2> QED
    BY <2>1, <2>2 DEF StoreGeneration
<1>3. DOMAIN ops' = Ops /\ ops'[o] = v /\ \A x \in Ops \ {o} : ops'[x] = ops[x]
  BY <1>1, <1>2, OneMoves
<1>4. RegistryShape'
  BY <1>1, <1>2, ShapeOfOthers DEF RegistryShape
<1>5. MaskFollows'
  BY <1>1, <1>2, MaskOfOthers
<1>6. ASSUME Serial PROVE Serial'
  <2>1. \A x \in Ops \ {o} : ~Writing(x) /\ ops'[x] = ops[x]
    BY <1>1, <1>3, <1>6 DEF Serial, Writing
  <2>2. \A x \in Ops \ {o} : ~Writing(x)' /\ ops'[x].pc \notin Listed
    BY <2>1 DEF Writing
  <2> QED
    BY <1>1, <1>2, <1>3, <1>6, <2>2 DEF Serial, Writing, Listed
<1> QED
  BY <1>1, <1>4, <1>5, <1>6 DEF RegistryInv

RequestStep(o) ==
    \/ create_or_update_pattern(o) \/ set_pattern_enabled(o)
    \/ delete_pattern(o) \/ lookback_pattern(o)
    \/ insert_pattern_revision(o)
    \/ prepare_rebuild(o) \/ RebuildFails(o) \/ StoreActive(o)
    \/ StoreMask(o) \/ StoreGeneration(o) \/ enqueue(o)

(* What a step of a request leaves to the records: they stay, the table    *)
(* has grown, and a revision that leaves the set is remembered.            *)
RecordsStay ==
    /\ UNCHANGED <<accepted, queue, l7, sealed>>
    /\ removed \subseteq removed' /\ \A p \in active : p \in active' \/ p \in removed'

(* Every step of a request keeps the registry sound.                       *)
LEMMA RegistryStep ==
    ASSUME RegistryInv, NEW o \in Ops, RequestStep(o)
    PROVE  RegistryInv' /\ Grown /\ RecordsStay
<1>1. RegistryShape
  BY DEF RegistryInv
<1>2. CASE \/ create_or_update_pattern(o) \/ set_pattern_enabled(o)
           \/ delete_pattern(o) \/ lookback_pattern(o) \/ enqueue(o)
  <2>1. /\ patterns' = patterns /\ active' = active /\ interest_mask' = interest_mask
        /\ overlapped' = overlapped /\ failed' = failed
        /\ ops[o].pc \in {"idle", "installed"}
        /\ UNCHANGED <<accepted, queue, l7, sealed, removed>>
    BY <1>2 DEF create_or_update_pattern, set_pattern_enabled, delete_pattern,
                lookback_pattern, enqueue, UnchangedBySubmit, Submitted
  <2>2. \/ End(o)
        \/ ops[o].pc = "idle" /\ \E expr, enabled : Take(o, expr, enabled)
    BY <1>2, Zenon DEF create_or_update_pattern, set_pattern_enabled, delete_pattern,
                       lookback_pattern, enqueue, Submitted
  <2>3. \E v : Set(o, v) /\ v.pc \in {"read", "ended"} /\ (v.pc = "read" => v.id \in Ids)
    <3>1. CASE End(o)
      <4> DEFINE v == [pc |-> "ended"]
      <4>1. Set(o, v) /\ v.pc = "ended"
        BY <3>1, Zenon DEF End
      <4> HIDE DEF v
      <4> QED
        BY <4>1
    <3>2. ASSUME ops[o].pc = "idle", NEW expr, NEW enabled, Take(o, expr, enabled)
          PROVE  \E v : Set(o, v) /\ v.pc \in {"read", "ended"} /\ (v.pc = "read" => v.id \in Ids)
      <4> DEFINE v == [pc |-> "read", id |-> Request(o).id,
                       rev |-> Len(patterns[Request(o).id]) + 1,
                       expr |-> expr, enabled |-> enabled]
      <4>1. Set(o, v)
        BY <3>2, Zenon DEF Take
      <4>2. v.pc = "read" /\ v.id = Request(o).id
        OBVIOUS
      <4> HIDE DEF v
      <4>3. Request(o).id \in Ids
        BY <1>1, <3>2 DEF Request, RegistryShape, OpShape
      <4> QED
        BY <4>1, <4>2, <4>3
    <3> QED
      BY <2>2, <3>1, <3>2
  <2>4. RegistryInv'
    BY <2>1, <2>3, QuietMove
  <2> QED
    BY <1>1, <2>1, <2>4, SameTable DEF RecordsStay
<1>3. CASE insert_pattern_revision(o)
  <2>1. /\ active' = active /\ interest_mask' = interest_mask /\ failed' = failed
        /\ ops[o].pc = "read" /\ UNCHANGED <<accepted, queue, l7, sealed, removed>>
    BY <1>3 DEF insert_pattern_revision
  <2>2. CASE ops[o].rev = Len(patterns[ops[o].id]) + 1
    <3> DEFINE row == [expr |-> ops[o].expr, enabled |-> ops[o].enabled]
               v == [pc |-> "written", p |-> Rev(ops[o].id, ops[o].rev), enabled |-> ops[o].enabled]
    <3>1. /\ patterns' = [patterns EXCEPT ![ops[o].id] = Append(@, row)] /\ Set(o, v)
          /\ overlapped' = (overlapped \/ \E x \in Ops \ {o} : Busy(x) /\ ops[x].pc # "read")
      BY <1>3, <2>2, Zenon DEF insert_pattern_revision
    <3>2. v.pc = "written"
      OBVIOUS
    <3> HIDE DEF v, row
    <3>3. RegistryInv' /\ Grown
      BY <2>1, <3>1, <3>2, InsertStep
    <3> QED
      BY <2>1, <3>3 DEF RecordsStay
  <2>3. CASE ops[o].rev # Len(patterns[ops[o].id]) + 1
    <3> DEFINE v == [pc |-> "ended"]
    <3>1. Set(o, v) /\ v.pc = "ended" /\ patterns' = patterns /\ overlapped' = overlapped
      BY <1>3, <2>3, Zenon DEF insert_pattern_revision, End
    <3> HIDE DEF v
    <3>2. RegistryInv'
      BY <2>1, <3>1, QuietMove
    <3> QED
      BY <1>1, <2>1, <3>1, <3>2, SameTable DEF RecordsStay
  <2> QED
    BY <2>2, <2>3
<1>4. CASE \/ prepare_rebuild(o) \/ RebuildFails(o) \/ StoreActive(o)
           \/ StoreMask(o) \/ StoreGeneration(o)
  <2>1. RegistryInv'
    BY <1>4, RebuildStep, StoreActiveStep, StoreMaskStep, StoreGenerationStep
  <2>2. patterns' = patterns /\ UNCHANGED <<accepted, queue, l7, sealed>>
    BY <1>4 DEF prepare_rebuild, RebuildFails, StoreActive, StoreMask, StoreGeneration
  <2>3. \/ active' = active /\ removed' = removed
        \/ removed' = removed \cup (active \ active')
    BY <1>4 DEF prepare_rebuild, RebuildFails, StoreActive, StoreMask, StoreGeneration
  <2> QED
    BY <1>1, <2>1, <2>2, <2>3, SameTable DEF RecordsStay
<1> QED
  BY <1>2, <1>3, <1>4 DEF RequestStep

-----------------------------------------------------------------------------
(* Records.                                                                *)

(* Which records a pattern applies to.                                     *)
Suits(e, r) ==
    /\ r.view \in views_for_pattern(e)
    /\ e.service = None \/ (r.service # None /\ e.service = r.service)

(* Only its expression decides, now and after a step.                      *)
LEMMA AppliesSuits ==
    ASSUME NEW p, NEW k
    PROVE  /\ Applies(p, accepted[k]) <=> Suits(patterns[p.id][p.rev].expr, accepted[k])
           /\ Applies(p, accepted[k])' <=> Suits(patterns'[p.id][p.rev].expr, accepted'[k])
<1>1. Applies(p, accepted[k]) <=> Suits(patterns[p.id][p.rev].expr, accepted[k])
  BY DEF Applies, Suits, GlobalGroup, ServiceGroup, Group, ExprOf, None
<1>2. Applies(p, accepted[k])' <=> Suits(patterns'[p.id][p.rev].expr, accepted'[k])
  BY DEF Applies, Suits, GlobalGroup, ServiceGroup, Group, ExprOf, None
<1> QED
  BY <1>1, <1>2

(* A record that a revision has reached stays reached, when it stays as it *)
(* is or has only gone on after it was wanted.                             *)
LEMMA ReachedStays ==
    ASSUME NEW p, patterns'[p.id][p.rev] = patterns[p.id][p.rev], NEW k,
           Reached(p, k),
           accepted'[k].view = accepted[k].view, accepted'[k].service = accepted[k].service,
           accepted'[k].seen = accepted[k].seen,
           accepted'[k].snapshot = accepted[k].snapshot,
           accepted[k].fate = "skipped" => accepted'[k].fate = "skipped",
           k = Last /\ l7.pc = "accepted" => k = Last' /\ l7'.pc = "accepted"
    PROVE  Reached(p, k)'
<1>1. Suits(patterns'[p.id][p.rev].expr, accepted'[k]) <=> Suits(patterns[p.id][p.rev].expr, accepted[k])
  BY DEF Suits
<1>2. Applies(p, accepted[k])' <=> Applies(p, accepted[k])
  BY <1>1, AppliesSuits
<1> QED
  BY <1>2 DEF Reached

(* A step of a request leaves the records where they are.                  *)
LEMMA RequestKeepsRecords ==
    ASSUME MatchingInv, Grown, RecordsStay
    PROVE  IngressInv' /\ ReachInv'
<1>1. /\ Revisions \subseteq Revisions'
      /\ \A p \in Revisions : patterns'[p.id][p.rev] = patterns[p.id][p.rev]
  BY RevisionsStay
<1>2. accepted' = accepted /\ queue' = queue /\ l7' = l7 /\ sealed' = sealed
  BY DEF RecordsStay
<1>3. active \subseteq Revisions
  BY DEF MatchingInv, RegistryInv, RegistryShape
<1>4. IngressInv'
  <2>1. ASSUME l7.pc = "read", ~l7.copied, NEW p \in l7.seen
        PROVE  StreamOf[l7.piece.s].view \notin views_for_pattern(ExprOf(p)')
    <3>1. p \in Revisions /\ StreamOf[l7.piece.s].view \notin views_for_pattern(ExprOf(p))
      BY <2>1 DEF MatchingInv, IngressInv
    <3> QED
      BY <1>1, <3>1 DEF ExprOf
  <2> QED
    BY <1>1, <1>2, <2>1 DEF MatchingInv, IngressInv, Last
<1>5. ReachInv'
  <2> SUFFICES ASSUME NEW p \in DOMAIN sealed \ removed'
               PROVE  /\ p \in active' /\ sealed[p] \in Nat
                      /\ \A k \in sealed[p] + 1 .. Len(accepted) : Reached(p, k)'
    BY <1>2 DEF ReachInv
  <2>1. /\ p \in active /\ sealed[p] \in Nat
        /\ \A k \in sealed[p] + 1 .. Len(accepted) : Reached(p, k)
    BY DEF MatchingInv, ReachInv, RecordsStay
  <2>2. p \in active'
    BY <2>1 DEF RecordsStay
  <2>3. \A k \in sealed[p] + 1 .. Len(accepted) : Reached(p, k)'
    <3> TAKE k \in sealed[p] + 1 .. Len(accepted)
    <3>1. Reached(p, k) /\ patterns'[p.id][p.rev] = patterns[p.id][p.rev]
      BY <1>1, <1>3, <2>1
    <3>2. Last' = Last
      BY <1>2 DEF Last
    <3> QED
      BY <1>2, <3>1, <3>2, ReachedStays
  <2> QED
    BY <2>1, <2>2, <2>3
<1> QED
  BY <1>4, <1>5

(* The registry does not depend on the records.                            *)
LEMMA RegistryUnchanged ==
    ASSUME RegistryInv, UNCHANGED registry
    PROVE  RegistryInv'
<1>1. /\ patterns' = patterns /\ active' = active /\ interest_mask' = interest_mask
      /\ ops' = ops /\ overlapped' = overlapped /\ failed' = failed
  BY DEF registry
<1>2. /\ RegistryShape /\ MaskFollows /\ Grown /\ Revisions' = Revisions
      /\ list_enabled_patterns' = list_enabled_patterns
  BY <1>1, SameTable DEF RegistryInv
<1>3. RegistryShape'
  BY <1>1, <1>2 DEF RegistryShape, OpShape
<1>4. MaskFollows'
  <2>1. MaskOf(active)' = MaskOf(active)
    BY <1>1, Zenon DEF MaskOf, ExprOf
  <2> QED
    BY <1>1, <1>2, <2>1 DEF MaskFollows, Installing
<1>5. Serial => Serial'
  BY <1>1, <1>2 DEF Serial, Writing
<1> QED
  BY <1>1, <1>3, <1>4, <1>5 DEF RegistryInv

(* Where no record comes and none that was reached is lost, revisions have *)
(* reached what they had.                                                  *)
LEMMA ReachKept ==
    ASSUME MatchingInv, UNCHANGED registry, sealed' = sealed, Len(accepted') = Len(accepted),
           \A p \in active : \A k \in DOMAIN accepted : Reached(p, k) => Reached(p, k)'
    PROVE  ReachInv'
<1>1. active' = active /\ removed' = removed
  BY DEF registry
<1>2. Len(accepted) \in Nat /\ DOMAIN accepted = 1 .. Len(accepted)
  BY SequenceIsNumbered DEF MatchingInv, IngressInv
<1> SUFFICES ASSUME NEW p \in DOMAIN sealed \ removed
             PROVE  /\ p \in active /\ sealed[p] \in Nat
                    /\ \A k \in sealed[p] + 1 .. Len(accepted) : Reached(p, k)'
  BY <1>1 DEF ReachInv
<1>3. /\ p \in active /\ sealed[p] \in Nat
      /\ \A k \in sealed[p] + 1 .. Len(accepted) : Reached(p, k)
  BY DEF MatchingInv, ReachInv
<1>4. \A k \in sealed[p] + 1 .. Len(accepted) : k \in DOMAIN accepted
  BY <1>2, <1>3
<1> QED
  BY <1>3, <1>4

(* fanout_content reads the mask: when it shows no interest in a view, no  *)
(* revision that was in force has a rule for it.                           *)
LEMMA ReadMaskStep ==
    ASSUME MatchingInv, ReadMask
    PROVE  IngressInv' /\ ReachInv'
<1> DEFINE piece == Head(traffic)
           copied == StreamOf[Head(traffic).s].view \in interest_mask
           seen == {p \in active : ~\E o \in Ops : ops[o].pc = "stored"}
<1>1. /\ l7.pc \in {"idle", "closed"} /\ UNCHANGED registry /\ sealed' = sealed
      /\ accepted' = accepted /\ queue' = queue
      /\ l7' = [pc |-> "read", piece |-> piece, copied |-> copied, seen |-> seen]
  BY DEF ReadMask
<1>2. l7'.pc = "read" /\ l7'.piece = piece /\ l7'.seen = seen /\ l7'.copied = copied
      /\ l7'.copied \in BOOLEAN
  <2>1. copied \in BOOLEAN
    OBVIOUS
  <2> HIDE DEF copied, seen, piece
  <2> QED
    BY <1>1, <2>1
<1>3. patterns' = patterns /\ active \subseteq Revisions /\ RegistryShape
  BY <1>1 DEF registry, MatchingInv, RegistryInv, RegistryShape
<1>4. ASSUME NEW p \in seen, ~copied
      PROVE  StreamOf[piece.s].view \notin views_for_pattern(ExprOf(p))
  <2>1. p \in active /\ interest_mask = MaskOf(active)
    BY <1>4 DEF MatchingInv, RegistryInv, MaskFollows
  <2>2. StreamOf[piece.s].view \notin MaskOf(active)
    BY <1>4, <2>1
  <2> HIDE DEF piece
  <2> QED
    BY <2>1, <2>2 DEF MaskOf
<1>5. seen \subseteq Revisions'
  BY <1>3, SameTable
<1> HIDE DEF piece, copied, seen
<1>6. IngressInv'
  <2>1. \A p \in seen : ~copied => StreamOf[piece.s].view \notin views_for_pattern(ExprOf(p)')
    BY <1>3, <1>4 DEF ExprOf
  <2> QED
    BY <1>1, <1>2, <1>5, <2>1 DEF MatchingInv, IngressInv, Handled
<1>7. ReachInv'
  <2>1. ASSUME NEW p \in active, NEW k \in DOMAIN accepted, Reached(p, k) PROVE Reached(p, k)'
    BY <1>1, <1>3, <2>1, ReachedStays
  <2> QED
    BY <1>1, <2>1, ReachKept
<1> QED
  BY <1>6, <1>7

(* segments.append: the record that comes is one the fan-out will offer to *)
(* the matcher, or one that no revision it had seen has a rule for.        *)
LEMMA AcceptStep ==
    ASSUME MatchingInv, Accept
    PROVE  IngressInv' /\ ReachInv'
<1> DEFINE r == RecordOf(l7.piece)
<1>1. /\ l7.pc = "read" /\ UNCHANGED registry /\ sealed' = sealed /\ queue' = queue
      /\ accepted' = Append(accepted, r)
      /\ l7' = [pc |-> IF l7.copied THEN "accepted" ELSE "idle"]
  BY DEF Accept
<1>2. /\ DOMAIN r = RecordFields /\ r.seen = l7.seen
      /\ r.view = StreamOf[l7.piece.s].view
      /\ r.fate = IF l7.copied THEN "pending" ELSE "skipped"
  BY DEF RecordOf, RecordFields
<1> HIDE DEF r
<1>3. /\ IsSequence(accepted') /\ Len(accepted) \in Nat /\ Len(accepted') = Len(accepted) + 1
      /\ DOMAIN accepted = 1 .. Len(accepted) /\ DOMAIN accepted' = 1 .. Len(accepted) + 1
      /\ \A k \in DOMAIN accepted : accepted'[k] = accepted[k]
      /\ accepted'[Len(accepted) + 1] = r
  BY <1>1, AppendToSequence DEF MatchingInv, IngressInv
<1>4. l7.copied \in BOOLEAN /\ l7'.pc = IF l7.copied THEN "accepted" ELSE "idle"
  BY <1>1 DEF MatchingInv, IngressInv
<1>5. patterns' = patterns /\ active \subseteq Revisions /\ active' = active /\ removed' = removed
  BY <1>1 DEF registry, MatchingInv, RegistryInv, RegistryShape
<1>6. IngressInv'
  <2>1. \A k \in DOMAIN accepted' : DOMAIN accepted'[k] = RecordFields
    <3>1. \A k \in DOMAIN accepted' : k \in DOMAIN accepted \/ k = Len(accepted) + 1
      BY <1>3
    <3> QED
      BY <1>2, <1>3, <3>1 DEF MatchingInv, IngressInv
  <2>2. l7'.pc \in Handled => Last' \in DOMAIN accepted' /\ accepted'[Last'].fate = "pending"
    BY <1>2, <1>3, <1>4 DEF Last, Handled
  <2>3. ASSUME NEW i \in DOMAIN queue, queue[i].kind = "content"
        PROVE  /\ queue[i].k \in DOMAIN accepted'
               /\ accepted'[queue[i].k].fate # "skipped"
               /\ queue[i].k # Last'
    <3>1. queue[i].k \in DOMAIN accepted /\ accepted[queue[i].k].fate # "skipped"
      BY <2>3 DEF MatchingInv, IngressInv
    <3> QED
      BY <1>3, <3>1 DEF Last
  <2>4. l7'.pc # "read" /\ IsSequence(queue)
    BY <1>4 DEF MatchingInv, IngressInv
  <2> QED
    BY <1>1, <1>3, <2>1, <2>2, <2>3, <2>4 DEF IngressInv
<1>7. ReachInv'
  <2> SUFFICES ASSUME NEW p \in DOMAIN sealed \ removed
               PROVE  /\ p \in active /\ sealed[p] \in Nat
                      /\ \A k \in sealed[p] + 1 .. Len(accepted) + 1 : Reached(p, k)'
    BY <1>1, <1>3, <1>5 DEF ReachInv
  <2>1. /\ p \in active /\ sealed[p] \in Nat
        /\ \A k \in sealed[p] + 1 .. Len(accepted) : Reached(p, k)
    BY DEF MatchingInv, ReachInv
  <2>2. ASSUME NEW k \in sealed[p] + 1 .. Len(accepted) PROVE Reached(p, k)'
    <3>1. k \in DOMAIN accepted /\ accepted'[k] = accepted[k]
      BY <1>3, <2>1
    <3> QED
      BY <1>1, <1>5, <2>1, <3>1, ReachedStays
  <2>3. ASSUME NEW k, k = Len(accepted) + 1 PROVE Reached(p, k)'
    <3>1. CASE l7.copied
      BY <1>3, <1>4, <2>3, <3>1 DEF Reached, Last
    <3>2. CASE ~l7.copied
      <4>1. accepted'[k].fate = "skipped" /\ accepted'[k].seen = l7.seen
            /\ accepted'[k].view = StreamOf[l7.piece.s].view
        BY <1>2, <1>3, <2>3, <3>2
      <4>2. CASE p \in l7.seen
        <5>1. StreamOf[l7.piece.s].view \notin views_for_pattern(ExprOf(p))
          BY <1>1, <3>2, <4>2 DEF MatchingInv, IngressInv
        <5>2. ~Suits(patterns'[p.id][p.rev].expr, accepted'[k])
          BY <1>5, <4>1, <5>1 DEF Suits, ExprOf
        <5>3. ~Applies(p, accepted[k])'
          BY <5>2, AppliesSuits
        <5> QED
          BY <5>3 DEF Reached
      <4>3. CASE p \notin l7.seen
        BY <4>1, <4>3 DEF Reached
      <4> QED
        BY <4>2, <4>3
    <3> QED
      BY <1>4, <3>1, <3>2
  <2>4. \A k \in sealed[p] + 1 .. Len(accepted) + 1 :
          k \in sealed[p] + 1 .. Len(accepted) \/ k = Len(accepted) + 1
    BY <1>3, <2>1
  <2> QED
    BY <2>1, <2>2, <2>3, <2>4
<1> QED
  BY <1>6, <1>7

(* A record of the sequence is replaced by one with the same fields.       *)
LEMMA RecordChanges ==
    ASSUME IngressInv, NEW n \in DOMAIN accepted, NEW r, DOMAIN r = RecordFields,
           accepted' = [accepted EXCEPT ![n] = r]
    PROVE  /\ IsSequence(accepted') /\ Len(accepted') = Len(accepted)
           /\ DOMAIN accepted' = DOMAIN accepted /\ Last' = Last
           /\ accepted'[n] = r /\ \A k \in DOMAIN accepted \ {n} : accepted'[k] = accepted[k]
           /\ \A k \in DOMAIN accepted' : DOMAIN accepted'[k] = RecordFields
<1>1. Len(accepted) \in Nat /\ DOMAIN accepted = 1 .. Len(accepted)
  BY SequenceIsNumbered DEF IngressInv
<1>2. /\ DOMAIN accepted' = 1 .. Len(accepted) /\ accepted'[n] = r
      /\ \A k \in DOMAIN accepted \ {n} : accepted'[k] = accepted[k]
      /\ accepted' = [i \in 1 .. Len(accepted) |-> accepted'[i]]
  BY <1>1
<1>3. IsSequence(accepted') /\ Len(accepted') = Len(accepted)
  BY <1>1, <1>2, NumberedIsSequence
<1>4. \A k \in DOMAIN accepted' : DOMAIN accepted'[k] = RecordFields
  BY <1>1, <1>2 DEF IngressInv
<1> QED
  BY <1>1, <1>2, <1>3, <1>4 DEF Last

(* prepare_content takes the compiled set in force, whether the record is  *)
(* wanted or not.                                                          *)
LEMMA TakeSnapshotStep ==
    ASSUME MatchingInv, TakeSnapshot
    PROVE  IngressInv' /\ ReachInv'
<1> DEFINE wanted == /\ accepted[Last].view \in interest_mask
                     /\ is_interested(active, accepted[Last])
           fate == IF wanted THEN accepted[Last].fate ELSE "skipped"
           r == [accepted[Last] EXCEPT !.snapshot = active, !.fate = fate]
<1>1. /\ l7.pc = "accepted" /\ UNCHANGED registry /\ sealed' = sealed /\ queue' = queue
      /\ l7' = [pc |-> IF wanted THEN "prepared" ELSE "idle"]
  BY DEF TakeSnapshot
<1>2. /\ IngressInv /\ Last \in DOMAIN accepted /\ accepted[Last].fate = "pending"
      /\ DOMAIN accepted[Last] = RecordFields
  BY <1>1 DEF MatchingInv, IngressInv, Handled
<1>3. accepted' = [accepted EXCEPT ![Last] = r]
  <2>1. accepted' = [accepted EXCEPT ![Last].snapshot = active,
                                     ![Last].fate = IF wanted THEN @ ELSE "skipped"]
    BY DEF TakeSnapshot
  <2> HIDE DEF wanted
  <2> QED
    BY <1>2, <2>1 DEF RecordFields
<1>4. l7'.pc = IF wanted THEN "prepared" ELSE "idle"
  BY <1>1
<1> HIDE DEF wanted
<1>5. /\ DOMAIN r = RecordFields /\ r.snapshot = active /\ r.fate = fate
      /\ r.view = accepted[Last].view /\ r.service = accepted[Last].service
      /\ r.seen = accepted[Last].seen
  BY <1>2 DEF RecordFields
<1> HIDE DEF r
<1>6. /\ IsSequence(accepted') /\ Len(accepted') = Len(accepted)
      /\ DOMAIN accepted' = DOMAIN accepted /\ Last' = Last
      /\ accepted'[Last] = r /\ \A k \in DOMAIN accepted \ {Last} : accepted'[k] = accepted[k]
      /\ \A k \in DOMAIN accepted' : DOMAIN accepted'[k] = RecordFields
  BY <1>2, <1>3, <1>5, RecordChanges
<1>7. IngressInv'
  <2>1. l7'.pc \in Handled => Last' \in DOMAIN accepted' /\ accepted'[Last'].fate = "pending"
    BY <1>2, <1>4, <1>5, <1>6 DEF Handled
  <2>2. ASSUME NEW i \in DOMAIN queue, queue[i].kind = "content"
        PROVE  /\ queue[i].k \in DOMAIN accepted'
               /\ accepted'[queue[i].k].fate # "skipped"
               /\ queue[i].k # Last'
    <3>1. /\ queue[i].k \in DOMAIN accepted /\ accepted[queue[i].k].fate # "skipped"
          /\ queue[i].k # Last
      BY <1>1, <1>2, <2>2 DEF IngressInv, Handled
    <3> QED
      BY <1>6, <3>1
  <2>3. l7'.pc # "read" /\ IsSequence(queue)
    BY <1>2, <1>4 DEF IngressInv
  <2> QED
    BY <1>1, <1>6, <2>1, <2>2, <2>3 DEF IngressInv
<1>8. ReachInv'
  <2>1. patterns' = patterns
    BY <1>1 DEF registry
  <2>2. ASSUME NEW p \in active, NEW k \in DOMAIN accepted, Reached(p, k) PROVE Reached(p, k)'
    <3>1. CASE k = Last
      BY <1>5, <1>6, <3>1 DEF Reached
    <3>2. CASE k # Last
      BY <1>6, <2>1, <2>2, <3>2, ReachedStays
    <3> QED
      BY <3>1, <3>2
  <2> QED
    BY <1>1, <1>6, <2>2, ReachKept
<1> QED
  BY <1>7, <1>8

(* send_content queues a record that is wanted.                            *)
LEMMA SendContentStep ==
    ASSUME MatchingInv, send_content
    PROVE  IngressInv' /\ ReachInv'
<1> DEFINE r == [accepted[Last] EXCEPT !.generation = pattern_generation]
           item == [kind |-> "content", k |-> Last]
<1>1. /\ l7.pc = "prepared" /\ UNCHANGED registry /\ sealed' = sealed
      /\ queue' = Append(queue, item) /\ l7' = [pc |-> "idle"]
  BY DEF send_content
<1>2. /\ IngressInv /\ Last \in DOMAIN accepted /\ accepted[Last].fate = "pending"
      /\ DOMAIN accepted[Last] = RecordFields
  BY <1>1 DEF MatchingInv, IngressInv, Handled
<1>3. accepted' = [accepted EXCEPT ![Last] = r]
  BY <1>2 DEF send_content, RecordFields
<1>4. /\ DOMAIN r = RecordFields /\ r.snapshot = accepted[Last].snapshot
      /\ r.fate = accepted[Last].fate
      /\ r.view = accepted[Last].view /\ r.service = accepted[Last].service
      /\ r.seen = accepted[Last].seen
  BY <1>2 DEF RecordFields
<1> HIDE DEF r
<1>5. /\ IsSequence(accepted') /\ Len(accepted') = Len(accepted)
      /\ DOMAIN accepted' = DOMAIN accepted /\ Last' = Last
      /\ accepted'[Last] = r /\ \A k \in DOMAIN accepted \ {Last} : accepted'[k] = accepted[k]
      /\ \A k \in DOMAIN accepted' : DOMAIN accepted'[k] = RecordFields
  BY <1>2, <1>3, <1>4, RecordChanges
<1>6. item.k = Last /\ l7'.pc = "idle"
  BY <1>1
<1> HIDE DEF item
<1>7. IngressInv'
  <2>1. /\ IsSequence(queue') /\ Len(queue) \in Nat /\ DOMAIN queue = 1 .. Len(queue)
        /\ DOMAIN queue' = 1 .. Len(queue) + 1
        /\ \A i \in DOMAIN queue : queue'[i] = queue[i]
        /\ queue'[Len(queue) + 1] = item
    BY <1>1, <1>2, AppendToSequence DEF IngressInv
  <2>2. ASSUME NEW i \in DOMAIN queue', queue'[i].kind = "content"
        PROVE  /\ queue'[i].k \in DOMAIN accepted'
               /\ accepted'[queue'[i].k].fate # "skipped"
    <3>1. CASE i \in DOMAIN queue
      <4>1. queue[i].k \in DOMAIN accepted /\ accepted[queue[i].k].fate # "skipped"
        BY <1>2, <2>1, <2>2, <3>1 DEF IngressInv
      <4> QED
        BY <1>4, <1>5, <2>1, <3>1, <4>1
    <3>2. CASE i = Len(queue) + 1
      BY <1>2, <1>4, <1>5, <1>6, <2>1, <3>2
    <3> QED
      BY <2>1, <3>1, <3>2
  <2> QED
    BY <1>5, <1>6, <2>1, <2>2 DEF IngressInv, Handled
<1>8. ReachInv'
  <2>1. patterns' = patterns
    BY <1>1 DEF registry
  <2>2. ASSUME NEW p \in active, NEW k \in DOMAIN accepted, Reached(p, k) PROVE Reached(p, k)'
    <3>1. /\ accepted'[k].view = accepted[k].view /\ accepted'[k].service = accepted[k].service
          /\ accepted'[k].seen = accepted[k].seen
          /\ accepted'[k].snapshot = accepted[k].snapshot
          /\ accepted'[k].fate = accepted[k].fate
      BY <1>4, <1>5
    <3> QED
      BY <1>1, <2>1, <2>2, <3>1, ReachedStays
  <2> QED
    BY <1>1, <1>5, <2>2, ReachKept
<1> QED
  BY <1>7, <1>8

(* try_flow_closed queues a notice, or drops it.                           *)
LEMMA FlowClosedSent ==
    ASSUME MatchingInv, try_flow_closed
    PROVE  IngressInv' /\ ReachInv'
<1> DEFINE item == [kind |-> "closed", f |-> FlowOf(accepted[Last])]
<1>1. /\ l7.pc = "idle" /\ UNCHANGED registry /\ sealed' = sealed /\ accepted' = accepted
      /\ queue' = Append(queue, item) \/ queue' = queue
      /\ l7' = [pc |-> IF traffic = <<>> THEN "ended" ELSE "closed"]
  BY DEF try_flow_closed
<1>2. item.kind = "closed" /\ l7'.pc \in {"ended", "closed"}
  BY <1>1
<1> HIDE DEF item
<1>3. IngressInv'
  <2>1. IsSequence(queue)
    BY DEF MatchingInv, IngressInv
  <2>2. /\ IsSequence(queue')
        /\ \A i \in DOMAIN queue' : queue'[i].kind = "content" =>
              i \in DOMAIN queue /\ queue'[i] = queue[i]
    <3>1. CASE queue' = Append(queue, item)
      <4>1. /\ IsSequence(queue') /\ Len(queue) \in Nat /\ DOMAIN queue = 1 .. Len(queue)
            /\ DOMAIN queue' = 1 .. Len(queue) + 1
            /\ \A i \in DOMAIN queue : queue'[i] = queue[i]
            /\ queue'[Len(queue) + 1] = item
        BY <2>1, <3>1, AppendToSequence
      <4>2. \A i \in DOMAIN queue' : i \in DOMAIN queue \/ i = Len(queue) + 1
        BY <4>1
      <4> QED
        BY <1>2, <4>1, <4>2
    <3>2. CASE queue' = queue
      BY <2>1, <3>2
    <3> QED
      BY <1>1, <3>1, <3>2
  <2> QED
    BY <1>1, <1>2, <2>2 DEF MatchingInv, IngressInv, Handled
<1>4. ReachInv'
  <2>1. patterns' = patterns
    BY <1>1 DEF registry
  <2>2. ASSUME NEW p \in active, NEW k \in DOMAIN accepted, Reached(p, k) PROVE Reached(p, k)'
    BY <1>1, <2>1, <2>2, ReachedStays
  <2> QED
    BY <1>1, <2>2, ReachKept
<1> QED
  BY <1>3, <1>4

(* Records stay, but that one of them, which was wanted, has been scanned. *)
RecordsGoOn ==
    /\ IsSequence(accepted') /\ Len(accepted') = Len(accepted)
    /\ DOMAIN accepted' = DOMAIN accepted /\ Last' = Last
    /\ \A k \in DOMAIN accepted' : DOMAIN accepted'[k] = RecordFields
    /\ \A k \in DOMAIN accepted :
         /\ accepted'[k].view = accepted[k].view /\ accepted'[k].service = accepted[k].service
         /\ accepted'[k].seen = accepted[k].seen
         /\ accepted'[k].snapshot = accepted[k].snapshot
         /\ \/ accepted'[k].fate = accepted[k].fate
            \/ /\ accepted'[k].fate = "scanned" /\ accepted[k].fate # "skipped"
               /\ l7.pc \in Handled => k # Last

(* The matcher worker takes the first of what is queued; a record that it  *)
(* scans was wanted.                                                       *)
LEMMA MatcherStep ==
    ASSUME MatchingInv, FlowClosed \/ Content
    PROVE  IngressInv' /\ ReachInv'
<1>1. /\ queue # <<>> /\ queue' = Tail(queue) /\ UNCHANGED registry
      /\ sealed' = sealed /\ l7' = l7
      /\ \/ accepted' = accepted
         \/ /\ Head(queue).kind = "content"
            /\ \E limited : accepted' = [accepted EXCEPT ![Head(queue).k].fate = "scanned",
                                                       ![Head(queue).k].limited = limited]
  BY Zenon DEF FlowClosed, Content
<1>2. IngressInv
  BY DEF MatchingInv
<1>3. /\ IsSequence(queue') /\ Len(queue) \in Nat \ {0} /\ DOMAIN queue = 1 .. Len(queue)
      /\ Head(queue) = queue[1]
      /\ \A i \in DOMAIN queue' : i + 1 \in DOMAIN queue /\ queue'[i] = queue[i + 1]
  BY <1>1, <1>2, TailOfSequence DEF IngressInv
<1>4. RecordsGoOn
  <2>1. CASE accepted' = accepted
    BY <1>2, <2>1 DEF IngressInv, Last, RecordsGoOn
  <2>2. ASSUME Head(queue).kind = "content", NEW limited,
               accepted' = [accepted EXCEPT ![Head(queue).k].fate = "scanned",
                                            ![Head(queue).k].limited = limited]
        PROVE  RecordsGoOn
    <3> DEFINE n == Head(queue).k
               r == [accepted[n] EXCEPT !.fate = "scanned", !.limited = limited]
    <3>1. /\ n \in DOMAIN accepted /\ DOMAIN accepted[n] = RecordFields
          /\ accepted[n].fate # "skipped" /\ (l7.pc \in Handled => n # Last)
      <4>1. 1 \in DOMAIN queue
        BY <1>3
      <4> QED
        BY <1>2, <1>3, <2>2, <4>1 DEF IngressInv
    <3> HIDE DEF n
    <3>2. accepted' = [accepted EXCEPT ![n] = r]
      BY <2>2, <3>1 DEF RecordFields, n
    <3>3. /\ DOMAIN r = RecordFields /\ r.fate = "scanned" /\ r.snapshot = accepted[n].snapshot
          /\ r.view = accepted[n].view /\ r.service = accepted[n].service
          /\ r.seen = accepted[n].seen
      BY <3>1 DEF RecordFields
    <3> HIDE DEF r
    <3>4. /\ IsSequence(accepted') /\ Len(accepted') = Len(accepted)
          /\ DOMAIN accepted' = DOMAIN accepted /\ Last' = Last
          /\ accepted'[n] = r /\ \A k \in DOMAIN accepted \ {n} : accepted'[k] = accepted[k]
          /\ \A k \in DOMAIN accepted' : DOMAIN accepted'[k] = RecordFields
      BY <1>2, <3>1, <3>2, <3>3, RecordChanges
    <3> QED
      BY <3>1, <3>3, <3>4 DEF RecordsGoOn
  <2> QED
    BY <1>1, <2>1, <2>2
<1>5. IngressInv'
  <2>1. ASSUME NEW i \in DOMAIN queue', queue'[i].kind = "content"
        PROVE  /\ queue'[i].k \in DOMAIN accepted'
               /\ accepted'[queue'[i].k].fate # "skipped"
               /\ l7'.pc \in Handled => queue'[i].k # Last'
    <3>1. /\ queue[i + 1].k \in DOMAIN accepted /\ accepted[queue[i + 1].k].fate # "skipped"
          /\ l7.pc \in Handled => queue[i + 1].k # Last
      BY <1>2, <1>3, <2>1 DEF IngressInv
    <3> QED
      BY <1>1, <1>3, <1>4, <3>1 DEF RecordsGoOn
  <2>2. l7'.pc \in Handled => Last' \in DOMAIN accepted' /\ accepted'[Last'].fate = "pending"
    BY <1>1, <1>2, <1>4 DEF IngressInv, RecordsGoOn
  <2>3. l7'.pc = "read" =>
         /\ l7'.copied \in BOOLEAN /\ l7'.seen \subseteq Revisions'
         /\ ~l7'.copied => \A p \in l7'.seen :
               StreamOf[l7'.piece.s].view \notin views_for_pattern(ExprOf(p)')
    <3>1. patterns' = patterns /\ Revisions' = Revisions
      BY <1>1, SameTable DEF registry, MatchingInv, RegistryInv
    <3> QED
      BY <1>1, <1>2, <3>1 DEF IngressInv, ExprOf
  <2> QED
    BY <1>3, <1>4, <2>1, <2>2, <2>3 DEF IngressInv, RecordsGoOn
<1>6. ReachInv'
  <2>1. patterns' = patterns
    BY <1>1 DEF registry
  <2>2. ASSUME NEW p \in active, NEW k \in DOMAIN accepted, Reached(p, k) PROVE Reached(p, k)'
    BY <1>1, <1>4, <2>1, <2>2, ReachedStays DEF RecordsGoOn
  <2> QED
    BY <1>1, <1>4, <2>2, ReachKept DEF RecordsGoOn
<1> QED
  BY <1>5, <1>6

(* A historical scan seals the records that there are: what comes later is *)
(* left to the live matcher, of revisions that are installed.              *)
LEMMA ReplayStep ==
    ASSUME MatchingInv, Replay
    PROVE  IngressInv' /\ ReachInv'
<1>1. UNCHANGED <<registry, l7, accepted, queue>>
  BY DEF Replay
<1>2. /\ patterns' = patterns /\ active' = active /\ removed' = removed /\ l7' = l7
      /\ accepted' = accepted /\ queue' = queue
  BY <1>1 DEF registry
<1>3. PICK installed \in SUBSET active :
        sealed' = [p \in DOMAIN sealed \cup installed |->
                     IF p \in installed THEN Len(accepted) ELSE sealed[p]]
  <2> DEFINE set == {p \in {replay[i] : i \in DOMAIN replay} : patterns[p.id][p.rev].enabled}
  <2>1. sealed' = [p \in DOMAIN sealed \cup (set \cap active) |->
                     IF p \in set \cap active THEN Len(accepted) ELSE sealed[p]]
    BY Zenon DEF Replay
  <2> HIDE DEF set
  <2> QED
    BY <2>1
<1>4. IngressInv'
  <2>1. Revisions' = Revisions
    BY <1>2, SameTable DEF MatchingInv, RegistryInv
  <2> QED
    BY <1>2, <2>1 DEF MatchingInv, IngressInv, Last, ExprOf
<1>5. ReachInv'
  <2>1. Len(accepted) \in Nat
    BY SequenceIsNumbered DEF MatchingInv, IngressInv
  <2> SUFFICES ASSUME NEW p \in DOMAIN sealed' \ removed
               PROVE  /\ p \in active /\ sealed'[p] \in Nat
                      /\ \A k \in sealed'[p] + 1 .. Len(accepted) : Reached(p, k)'
    BY <1>2 DEF ReachInv
  <2>2. CASE p \in installed
    <3>1. sealed'[p] = Len(accepted)
      BY <1>3, <2>2
    <3> QED
      BY <2>1, <2>2, <3>1
  <2>3. CASE p \notin installed
    <3>1. p \in DOMAIN sealed /\ sealed'[p] = sealed[p]
      BY <1>3, <2>3
    <3>2. /\ p \in active /\ sealed[p] \in Nat
          /\ \A k \in sealed[p] + 1 .. Len(accepted) : Reached(p, k)
      BY <3>1 DEF MatchingInv, ReachInv
    <3>3. ASSUME NEW k, Reached(p, k) PROVE Reached(p, k)'
      <4>1. Last' = Last
        BY <1>2 DEF Last
      <4> QED
        BY <1>2, <3>3, <4>1, ReachedStays
    <3> QED
      BY <3>1, <3>2, <3>3
  <2> QED
    BY <2>2, <2>3
<1> QED
  BY <1>4, <1>5

-----------------------------------------------------------------------------
(* The invariant holds.                                                    *)

(* At the start the compiled set is the one the table asks for.            *)
LEMMA MatchingInit == Init => MatchingInv
<1> SUFFICES ASSUME Init PROVE MatchingInv
  OBVIOUS
<1>1. PICK sc \in Scenarios : ops = [o \in Ops |-> [pc |-> "idle", request |-> sc.requests[o]]]
  BY DEF Init
<1>2. \A o \in Ops : ops[o].pc = "idle" /\ ops[o].request.id \in Ids
  BY <1>1, MatchingAssumption
<1>3. DOMAIN patterns = Ids
  BY DEF Init
<1>4. ASSUME NEW id \in Ids PROVE IsSequence(patterns[id])
  <2> DEFINE row == [expr |-> Existing[id], enabled |-> TRUE]
  <2>1. patterns[id] = <<>> \/ patterns[id] = <<row>>
    BY DEF Init
  <2> HIDE DEF row
  <2>2. IsSequence(<<row>>)
    BY DEF IsSequence
  <2> QED
    BY <2>1, <2>2, EmptySequence
<1>5. list_enabled_patterns \subseteq Revisions
  <2>1. ASSUME NEW id \in Ids, patterns[id] # <<>> PROVE LatestRev(id) \in Revisions
    <3> DEFINE q == patterns[id]
    <3>1. IsSequence(q) /\ q # <<>>
      BY <1>4, <2>1
    <3> HIDE DEF q
    <3>2. Len(q) \in Nat \ {0} /\ DOMAIN q = 1 .. Len(q)
      BY <3>1, TailOfSequence
    <3>3. Len(patterns[id]) \in DOMAIN patterns[id]
      BY <3>2 DEF q
    <3> QED
      BY <3>3 DEF LatestRev, Revisions
  <2> QED
    BY <2>1 DEF list_enabled_patterns
<1>6. RegistryInv
  <2>1. active = list_enabled_patterns /\ interest_mask = MaskOf(active) /\ DOMAIN ops = Ops
    BY <1>1, Zenon DEF Init
  <2>2. RegistryShape
    BY <1>2, <1>3, <1>4, <1>5, <2>1 DEF RegistryShape, OpShape, Listed
  <2>3. Serial /\ MaskFollows
    BY <1>2, <2>1 DEF Serial, MaskFollows, Writing, Installing, Listed
  <2> QED
    BY <2>2, <2>3 DEF RegistryInv
<1>7. IngressInv
  BY EmptySequence DEF Init, IngressInv, Handled
<1>8. ReachInv
  BY EmptySequence DEF Init, ReachInv
<1> QED
  BY <1>6, <1>7, <1>8 DEF MatchingInv

(* Every step keeps the invariant.                                         *)
LEMMA MatchingStep == MatchingInv /\ [Next]_vars => MatchingInv'
<1> SUFFICES ASSUME MatchingInv, [Next]_vars PROVE MatchingInv'
  OBVIOUS
<1>1. ASSUME NEW o \in Ops, RequestStep(o) PROVE MatchingInv'
  <2>1. RegistryInv' /\ Grown /\ RecordsStay
    BY <1>1, RegistryStep DEF MatchingInv
  <2> QED
    BY <2>1, RequestKeepsRecords DEF MatchingInv
<1>2. ASSUME ReadMask \/ Accept \/ TakeSnapshot \/ send_content \/ try_flow_closed
             \/ FlowClosed \/ Content \/ Replay
      PROVE  MatchingInv'
  <2>1. UNCHANGED registry
    BY <1>2 DEF ReadMask, Accept, TakeSnapshot, send_content, try_flow_closed, FlowClosed,
                Content, Replay
  <2>2. RegistryInv'
    BY <2>1, RegistryUnchanged DEF MatchingInv
  <2>3. IngressInv' /\ ReachInv'
    BY <1>2, ReadMaskStep, AcceptStep, TakeSnapshotStep, SendContentStep, FlowClosedSent,
       MatcherStep, ReplayStep
  <2> QED
    BY <2>2, <2>3 DEF MatchingInv
<1>3. ASSUME UNCHANGED vars PROVE MatchingInv'
  <2>1. UNCHANGED registry /\ UNCHANGED <<sealed, accepted, queue, l7>>
    BY <1>3 DEF vars
  <2>2. RegistryInv'
    BY <2>1, RegistryUnchanged DEF MatchingInv
  <2>3. Grown /\ RecordsStay
    <3>1. patterns' = patterns /\ active' = active /\ removed' = removed
      BY <2>1 DEF registry
    <3> QED
      BY <2>1, <3>1, SameTable DEF RecordsStay, MatchingInv, RegistryInv
  <2> QED
    BY <2>2, <2>3, RequestKeepsRecords DEF MatchingInv
<1> QED
  BY <1>1, <1>2, <1>3 DEF Next, RequestStep

(* The invariant of requests, installations and records on their way is    *)
(* true of every behaviour (PatternManager, fanout_content,                *)
(* MatcherIngress, matcher_worker_loop), whatever the requests, the        *)
(* traffic and the limits are.                                             *)
THEOREM MatchingInvariant == Spec => []MatchingInv
BY MatchingInit, MatchingStep, PTL DEF Spec

(* A revision reaches every record, live or in history: a record that is   *)
(* accepted after the seal of an installed revision is scanned with it     *)
(* (fanout_content, prepare_content, install_prepared).                    *)
THEOREM RevisionsReachRecords == Spec => []LiveOrHistorical
<1>1. MatchingInv => LiveOrHistorical
  BY DEF MatchingInv, ReachInv, Reached, LiveOrHistorical
<1> QED
  BY <1>1, MatchingInvariant, PTL

(* The compiled set in force is the one the table of patterns asks for,    *)
(* once requests that did not overlap are over (list_enabled_patterns,     *)
(* rebuild).                                                               *)
THEOREM ActiveSetCorrect == Spec => []ActiveIsLatest
<1>1. MatchingInv => ActiveIsLatest
  <2> SUFFICES ASSUME MatchingInv, ~overlapped, ~failed, \A o \in Ops : ~Busy(o)
               PROVE  active = {p \in Revisions : p.rev = Len(patterns[p.id]) /\ Latest(p.id).enabled}
    BY DEF ActiveIsLatest
  <2>1. \A o \in Ops : ~Writing(o)
    BY DEF Busy, Writing, Listed
  <2>2. active = list_enabled_patterns
    BY <2>1 DEF MatchingInv, RegistryInv, Serial
  <2>3. active \subseteq Revisions /\ \A id \in Ids : IsSequence(patterns[id])
    BY DEF MatchingInv, RegistryInv, RegistryShape
  <2>4. ASSUME NEW p \in active PROVE p.rev = Len(patterns[p.id]) /\ Latest(p.id).enabled
    <3>1. PICK id \in Ids : p = Rev(id, Len(patterns[id])) /\ Latest(id).enabled
      BY <2>2 DEF list_enabled_patterns, LatestRev
    <3>2. p.id = id /\ p.rev = Len(patterns[id])
      BY <3>1 DEF Rev
    <3> QED
      BY <3>1, <3>2
  <2>5. ASSUME NEW p \in Revisions, p.rev = Len(patterns[p.id]), Latest(p.id).enabled
        PROVE  p \in active
    <3>1. PICK id \in Ids : p \in {Rev(id, n) : n \in DOMAIN patterns[id]}
      BY DEF Revisions
    <3>2. PICK n \in DOMAIN patterns[id] : p = Rev(id, n)
      BY <3>1
    <3>3. p.id = id /\ p.rev = n
      BY <3>2 DEF Rev
    <3>4. p = LatestRev(id) /\ Latest(id).enabled
      BY <2>5, <3>2, <3>3 DEF LatestRev
    <3>5. patterns[id] # <<>>
      BY EmptySequence
    <3> QED
      BY <2>2, <3>4, <3>5 DEF list_enabled_patterns
  <2> QED
    BY <2>3, <2>4, <2>5
<1> QED
  BY <1>1, MatchingInvariant, PTL

-----------------------------------------------------------------------------
(* A non-empty set of natural numbers has a least element.                 *)
LEMMA LeastNatural ==
    ASSUME NEW S \in SUBSET Nat, S # {}
    PROVE  \E n \in S : \A m \in S : n <= m
<1> DEFINE R == OpToRel(<, Nat)
<1>1. IsWellFoundedOn(R, Nat)
  BY NatLessThanWellFounded
<1>2. \A m, n \in Nat : m < n => <<m, n>> \in R
  BY DEF OpToRel
<1> HIDE DEF R
<1>3. PICK n \in S : \A m \in S : ~(<<m, n>> \in R)
  BY <1>1, WFMin
<1>4. \A m \in S : ~(m < n)
  BY <1>2, <1>3
<1>5. \A m \in S : n <= m
  BY <1>4
<1> QED
  BY <1>5

(* The part of a sequence from a, which is left out, to b.                 *)
LEMMA PartOfSequence ==
    ASSUME NEW q, IsSequence(q), NEW a \in Nat, NEW b \in Nat, a <= b, b <= Len(q)
    PROVE  /\ SubSeq(q, a + 1, b) = [i \in 1 .. b - a |-> q[a + i]]
           /\ IsSequence(SubSeq(q, a + 1, b)) /\ Len(SubSeq(q, a + 1, b)) = b - a
<1> DEFINE T == {q[i] : i \in DOMAIN q}
           r == SubSeq(q, a + 1, b)
<1>1. q \in Seq(T)
  BY DEF IsSequence
<1> HIDE DEF T
<1>2. r \in Seq(T) /\ Len(r) = b - a /\ \A i \in 1 .. b - a : r[i] = q[a + i]
  BY <1>1
<1>3. DOMAIN r = 1 .. b - a
  BY <1>2
<1> HIDE DEF r
<1>4. r = [i \in 1 .. b - a |-> r[i]]
  BY <1>2, <1>3
<1>5. r = [i \in 1 .. b - a |-> q[a + i]]
  BY <1>2, <1>4
<1>6. IsSequence(r)
  BY <1>4, NumberedIsSequence
<1> QED
  BY <1>2, <1>5, <1>6 DEF r

(* A part of a part is a part.                                             *)
LEMMA PartOfPart ==
    ASSUME NEW q, IsSequence(q), NEW a \in Nat, NEW b \in Nat, a <= b, b <= Len(q),
           NEW c \in Nat, NEW d \in Nat, c <= d, d <= b - a
    PROVE  SubSeq(SubSeq(q, a + 1, b), c + 1, d) = SubSeq(q, a + c + 1, a + d)
<1> DEFINE r == SubSeq(q, a + 1, b)
<1>0. Len(q) \in Nat
  BY SequenceIsNumbered
<1>1. r = [i \in 1 .. b - a |-> q[a + i]] /\ IsSequence(r) /\ Len(r) = b - a
  BY PartOfSequence
<1> HIDE DEF r
<1>2. SubSeq(r, c + 1, d) = [i \in 1 .. d - c |-> r[c + i]]
  BY <1>1, PartOfSequence
<1>3. \A i \in 1 .. d - c : r[c + i] = q[a + (c + i)] /\ a + (c + i) = (a + c) + i
  BY <1>1
<1>4. a + c \in Nat /\ a + d \in Nat /\ a + c <= a + d /\ a + d <= Len(q)
  BY <1>0
<1>5. SubSeq(q, (a + c) + 1, a + d) = [i \in 1 .. (a + d) - (a + c) |-> q[(a + c) + i]]
  BY <1>4, PartOfSequence
<1>6. (a + d) - (a + c) = d - c
  OBVIOUS
<1> QED
  BY <1>2, <1>3, <1>5, <1>6 DEF r

(* Putting a sequence behind another leaves the elements of both.          *)
LEMMA ConcatOfSequences ==
    ASSUME NEW q, IsSequence(q), NEW s, IsSequence(s)
    PROVE  /\ IsSequence(q \o s) /\ Len(q) \in Nat /\ Len(s) \in Nat /\ Len(q \o s) = Len(q) + Len(s)
           /\ DOMAIN q = 1 .. Len(q) /\ DOMAIN s = 1 .. Len(s)
           /\ DOMAIN (q \o s) = 1 .. Len(q) + Len(s)
           /\ \A i \in 1 .. Len(q) + Len(s) : (q \o s)[i] = IF i <= Len(q) THEN q[i] ELSE s[i - Len(q)]
<1> DEFINE T == {q[i] : i \in DOMAIN q} \cup {s[i] : i \in DOMAIN s}
           r == q \o s
<1>1. q \in Seq(T) /\ s \in Seq(T)
  BY DEF IsSequence
<1> HIDE DEF T
<1>2. /\ r \in Seq(T) /\ Len(q) \in Nat /\ Len(s) \in Nat /\ Len(r) = Len(q) + Len(s)
      /\ DOMAIN q = 1 .. Len(q) /\ DOMAIN s = 1 .. Len(s) /\ DOMAIN r = 1 .. Len(q) + Len(s)
      /\ \A i \in 1 .. Len(q) + Len(s) : r[i] = IF i <= Len(q) THEN q[i] ELSE s[i - Len(q)]
  BY <1>1
<1> HIDE DEF r
<1>3. r = [i \in 1 .. Len(q) + Len(s) |-> r[i]] /\ Len(q) + Len(s) \in Nat
  BY <1>2
<1>4. IsSequence(r)
  BY <1>2, <1>3, NumberedIsSequence
<1> QED
  BY <1>2, <1>4 DEF r

(* Two parts behind one another make one.                                  *)
LEMMA PartsJoin ==
    ASSUME NEW q, IsSequence(q), NEW a \in Nat, NEW b \in Nat, NEW c \in Nat,
           a <= b, b <= c, c <= Len(q)
    PROVE  SubSeq(q, a + 1, b) \o SubSeq(q, b + 1, c) = SubSeq(q, a + 1, c)
<1> DEFINE r == SubSeq(q, a + 1, b)
           s == SubSeq(q, b + 1, c)
<1>0. Len(q) \in Nat
  BY SequenceIsNumbered
<1>1. /\ r = [i \in 1 .. b - a |-> q[a + i]] /\ IsSequence(r) /\ Len(r) = b - a
      /\ s = [i \in 1 .. c - b |-> q[b + i]] /\ IsSequence(s) /\ Len(s) = c - b
      /\ SubSeq(q, a + 1, c) = [i \in 1 .. c - a |-> q[a + i]]
  BY <1>0, PartOfSequence
<1> HIDE DEF r, s
<1>2. r \o s = [i \in 1 .. Len(r) + Len(s) |-> IF i <= Len(r) THEN r[i] ELSE s[i - Len(r)]]
  <2> DEFINE t == r \o s
  <2>1. /\ IsSequence(t) /\ DOMAIN t = 1 .. Len(r) + Len(s) /\ Len(t) = Len(r) + Len(s)
        /\ \A i \in 1 .. Len(r) + Len(s) : t[i] = IF i <= Len(r) THEN r[i] ELSE s[i - Len(r)]
    BY <1>1, ConcatOfSequences
  <2> HIDE DEF t
  <2>2. t = [i \in 1 .. Len(t) |-> t[i]]
    BY <2>1, SequenceIsNumbered
  <2> QED
    BY <2>1, <2>2 DEF t
<1>3. \A i \in 1 .. c - a : (IF i <= Len(r) THEN r[i] ELSE s[i - Len(r)]) = q[a + i]
  BY <1>1
<1>4. Len(r) + Len(s) = c - a
  BY <1>1
<1> QED
  BY <1>1, <1>2, <1>3, <1>4 DEF r, s

(* The end and the beginning of a part.                                    *)
LEMMA EndsOfPart ==
    ASSUME NEW q, IsSequence(q), NEW a \in Nat, NEW b \in Nat, a <= b, b <= Len(q), NEW n \in Nat
    PROVE  /\ LastN(SubSeq(q, a + 1, b), n)
                = SubSeq(q, (IF b - a > n THEN b - n ELSE a) + 1, b)
           /\ FirstN(SubSeq(q, a + 1, b), n)
                = SubSeq(q, a + 1, IF b - a > n THEN a + n ELSE b)
<1> DEFINE r == SubSeq(q, a + 1, b)
<1>0. Len(q) \in Nat
  BY SequenceIsNumbered
<1>1. Len(r) = b - a
  BY PartOfSequence
<1>2. CASE b - a > n
  <2>1. LastN(r, n) = SubSeq(r, (b - a - n) + 1, b - a) /\ FirstN(r, n) = SubSeq(r, 0 + 1, n)
    BY <1>1, <1>2 DEF LastN, FirstN
  <2>2. SubSeq(r, (b - a - n) + 1, b - a) = SubSeq(q, a + (b - a - n) + 1, a + (b - a))
    BY <1>2, PartOfPart
  <2>3. SubSeq(r, 0 + 1, n) = SubSeq(q, a + 0 + 1, a + n)
    BY <1>2, PartOfPart
  <2>4. a + (b - a - n) = b - n /\ a + (b - a) = b /\ a + 0 = a
    OBVIOUS
  <2> QED
    BY <1>2, <2>1, <2>2, <2>3, <2>4
<1>3. CASE ~(b - a > n)
  <2>1. LastN(r, n) = SubSeq(r, 0 + 1, b - a) /\ FirstN(r, n) = SubSeq(r, 0 + 1, b - a)
    BY <1>1, <1>3 DEF LastN, FirstN
  <2>2. SubSeq(r, 0 + 1, b - a) = SubSeq(q, a + 0 + 1, a + (b - a))
    BY PartOfPart
  <2>3. a + (b - a) = b /\ a + 0 = a
    OBVIOUS
  <2> QED
    BY <1>3, <2>1, <2>2, <2>3
<1> QED
  BY <1>2, <1>3

-----------------------------------------------------------------------------
(* Occurrences of words in texts and in parts of them.                     *)

(* Rules as the table has them: numbered, and none with an empty word.     *)
Compiled(group) ==
    \A p \in group : IsExpr(ExprOf(p)) /\ p.id \in Nat /\ p.rev \in Nat /\ p = Rev(p.id, p.rev)
Word(p) == ExprOf(p).word

(* The length of a word.                                                   *)
LEMMA WordLength ==
    ASSUME NEW group, Compiled(group), NEW p \in group
    PROVE  Len(Word(p)) \in Nat \ {0} /\ IsSequence(Word(p))
BY TailOfSequence DEF Compiled, IsExpr, Word

(* What an occurrence in a text is.                                        *)
LEMMA FoundIs ==
    ASSUME NEW group, Compiled(group), NEW text, IsSequence(text), NEW o \in Found(group, text)
    PROVE  /\ o = [p |-> o.p, start |-> o.start, end |-> o.end] /\ o.p \in group
           /\ o.start \in Nat /\ o.end \in Nat /\ o.start < o.end /\ o.end <= Len(text)
           /\ o.end = o.start + Len(Word(o.p)) /\ Len(text) \in Nat
           /\ SubSeq(text, o.start + 1, o.end) = Word(o.p)
<1>0. Len(text) \in Nat
  BY SequenceIsNumbered
<1>1. /\ o \in Occurrences(group, text) /\ o.end <= Len(text)
      /\ SubSeq(text, o.start + 1, o.end) = Word(o.p)
  BY DEF Found, Word
<1>2. PICK p \in group, i \in 0 .. Len(text) : o = [p |-> p, start |-> i, end |-> i + Len(Word(p))]
  BY <1>1 DEF Occurrences, Word
<1>3. Len(Word(p)) \in Nat \ {0}
  BY WordLength
<1>4. o.p = p /\ o.start = i /\ o.end = i + Len(Word(p))
  BY <1>2
<1> QED
  BY <1>0, <1>1, <1>2, <1>3, <1>4

(* And what makes one.                                                     *)
LEMMA IsFound ==
    ASSUME NEW group, Compiled(group), NEW text, IsSequence(text), NEW p \in group, NEW i \in Nat,
           i + Len(Word(p)) <= Len(text),
           SubSeq(text, i + 1, i + Len(Word(p))) = Word(p)
    PROVE  [p |-> p, start |-> i, end |-> i + Len(Word(p))] \in Found(group, text)
<1> DEFINE o == [p |-> p, start |-> i, end |-> i + Len(Word(p))]
<1>0. Len(text) \in Nat /\ Len(Word(p)) \in Nat
  BY SequenceIsNumbered, WordLength
<1>1. i \in 0 .. Len(text)
  BY <1>0
<1>2. o \in Occurrences(group, text)
  BY <1>1 DEF Occurrences, Word
<1>3. o.p = p /\ o.start = i /\ o.end = i + Len(Word(p))
  OBVIOUS
<1> HIDE DEF o
<1>4. o.end <= Len(text) /\ SubSeq(text, o.start + 1, o.end) = ExprOf(o.p).word
  BY <1>3 DEF Word
<1>5. o \in Found(group, text)
  BY <1>2, <1>4 DEF Found
<1> QED
  BY <1>5 DEF o

(* An occurrence in a part of a text is one in the text.                   *)
LEMMA FoundInPart ==
    ASSUME NEW group, Compiled(group), NEW text, IsSequence(text),
           NEW a \in Nat, NEW b \in Nat, a <= b, b <= Len(text),
           NEW o \in Found(group, SubSeq(text, a + 1, b))
    PROVE  /\ Moved(o, a) \in Found(group, text)
           /\ Moved(o, a).start = a + o.start /\ Moved(o, a).end = a + o.end /\ Moved(o, a).p = o.p
           /\ Moved(o, a).end <= b
<1> DEFINE part == SubSeq(text, a + 1, b)
           n == Len(Word(o.p))
<1>0. Len(text) \in Nat
  BY SequenceIsNumbered
<1>1. IsSequence(part) /\ Len(part) = b - a /\ o \in Found(group, part)
  BY PartOfSequence
<1> HIDE DEF part
<1>2. /\ o.p \in group /\ o.start \in Nat /\ o.end \in Nat /\ o.end <= b - a
      /\ o.end = o.start + n /\ o.start < o.end /\ SubSeq(part, o.start + 1, o.end) = Word(o.p)
  BY <1>1, FoundIs
<1>3. SubSeq(part, o.start + 1, o.end) = SubSeq(text, a + o.start + 1, a + o.end)
  <2> HIDE DEF n
  <2>1. \A c, d \in Nat : c <= d /\ d <= b - a
           => SubSeq(part, c + 1, d) = SubSeq(text, a + c + 1, a + d)
    BY PartOfPart DEF part
  <2>2. o.start \in Nat /\ o.end \in Nat /\ o.start <= o.end /\ o.end <= b - a
    BY <1>2
  <2> QED
    BY <2>1, <2>2, Zenon
<1>4. n \in Nat /\ a + o.start \in Nat /\ (a + o.start) + n = a + o.end /\ (a + o.start) + n <= Len(text)
  BY <1>0, <1>2, WordLength
<1>5. SubSeq(text, (a + o.start) + 1, (a + o.start) + n) = Word(o.p)
  BY <1>2, <1>3, <1>4
<1> HIDE DEF n
<1>6. [p |-> o.p, start |-> a + o.start, end |-> (a + o.start) + n] \in Found(group, text)
  BY <1>0, <1>2, <1>4, <1>5, IsFound DEF n
<1> QED
  BY <1>2, <1>4, <1>6 DEF Moved

(* An occurrence within a part of the text is one of the part.             *)
LEMMA FoundWithin ==
    ASSUME NEW group, Compiled(group), NEW text, IsSequence(text),
           NEW a \in Nat, NEW b \in Nat, a <= b, b <= Len(text),
           NEW o \in Found(group, text), a <= o.start, o.end <= b
    PROVE  \E q \in Found(group, SubSeq(text, a + 1, b)) : Moved(q, a) = o
<1> DEFINE part == SubSeq(text, a + 1, b)
           n == Len(Word(o.p))
           i == o.start - a
<1>0. Len(text) \in Nat
  BY SequenceIsNumbered
<1>1. IsSequence(part) /\ Len(part) = b - a
  BY PartOfSequence
<1>2. /\ o = [p |-> o.p, start |-> o.start, end |-> o.end]
      /\ o.p \in group /\ o.start \in Nat /\ o.end \in Nat
      /\ o.end = o.start + n /\ o.start < o.end /\ SubSeq(text, o.start + 1, o.end) = Word(o.p)
  BY FoundIs
<1>3. n \in Nat /\ i \in Nat /\ i + n \in Nat /\ i <= i + n /\ i + n <= b - a /\ a + i = o.start /\ a + (i + n) = o.end
  BY <1>2, WordLength
<1> HIDE DEF i
<1>4. SubSeq(part, i + 1, i + n) = SubSeq(text, a + i + 1, a + (i + n))
  <2> HIDE DEF n
  <2> QED
    BY <1>3, PartOfPart
<1>5. SubSeq(part, i + 1, i + n) = Word(o.p)
  BY <1>2, <1>3, <1>4
<1> DEFINE q == [p |-> o.p, start |-> i, end |-> i + n]
<1>6. q \in Found(group, part)
  <2> HIDE DEF part
  <2> QED
    BY <1>1, <1>2, <1>3, <1>5, IsFound
<1>7. Moved(q, a) = o
  BY <1>2, <1>3 DEF Moved
<1> QED
  BY <1>6, <1>7

-----------------------------------------------------------------------------
(* The iterator over occurrences.                                          *)

(* The states a loop goes through, s being its turn.                       *)
IsTurns(g, H, s, h, N) ==
    g \in [0 .. N -> H] /\ g[0] = h /\ \A i \in 1 .. N : g[i] = s[g[i - 1]]

(* A step that can always be taken can be taken any number of times.       *)
LEMMA TurnsExist ==
    ASSUME NEW H, NEW s \in [H -> H], NEW h \in H, NEW N \in Nat
    PROVE  \E g : IsTurns(g, H, s, h, N)
<1> DEFINE Taken(m) == \E g : IsTurns(g, H, s, h, m)
           Bad == {m \in Nat : ~Taken(m)}
<1>1. ASSUME Bad # {} PROVE FALSE
  <2>1. PICK m \in Bad : \A l \in Bad : m <= l
    BY <1>1, LeastNatural
  <2>2. CASE m = 0
    <3> DEFINE g == [i \in 0 .. 0 |-> h]
    <3>1. g \in [0 .. 0 -> H] /\ g[0] = h /\ \A i \in 1 .. 0 : g[i] = s[g[i - 1]]
      OBVIOUS
    <3>2. Taken(0)
      BY <3>1 DEF IsTurns
    <3> QED
      BY <2>1, <2>2, <3>2
  <2>3. CASE m # 0
    <3>a. Bad \subseteq Nat
      OBVIOUS
    <3>0. m \in Nat /\ m - 1 \in Nat /\ m - 1 \notin Bad
      <4> HIDE DEF Bad
      <4> QED
        BY <2>1, <2>3, <3>a
    <3>1. m \in Nat /\ m - 1 \in Nat /\ Taken(m - 1)
      <4> HIDE DEF Taken
      <4> QED
        BY <3>0
    <3>p. PICK f : IsTurns(f, H, s, h, m - 1)
      BY <3>1
    <3>2. f \in [0 .. m - 1 -> H] /\ f[0] = h /\ \A i \in 1 .. m - 1 : f[i] = s[f[i - 1]]
      BY <3>p DEF IsTurns
    <3> DEFINE g == [i \in 0 .. m |-> IF i = m THEN s[f[m - 1]] ELSE f[i]]
    <3>3. g \in [0 .. m -> H]
      BY <3>1, <3>2
    <3>4. g[0] = h /\ g[m] = s[f[m - 1]] /\ \A i \in 0 .. m - 1 : g[i] = f[i]
      BY <2>3, <3>1, <3>2
    <3> HIDE DEF g
    <3>5. ASSUME NEW i \in 1 .. m PROVE g[i] = s[g[i - 1]]
      <4>1. i - 1 \in 0 .. m - 1 /\ g[i - 1] = f[i - 1]
        BY <3>1, <3>4
      <4>2. CASE i = m
        BY <3>4, <4>1, <4>2
      <4>3. CASE i # m
        <5>1. i \in 1 .. m - 1 /\ i \in 0 .. m - 1
          BY <3>1, <4>3
        <5> QED
          BY <3>2, <3>4, <4>1, <5>1
      <4> QED
        BY <4>2, <4>3
    <3>6. Taken(m)
      BY <3>3, <3>4, <3>5 DEF IsTurns
    <3> QED
      BY <2>1, <3>6
  <2> QED
    BY <2>2, <2>3
<1> QED
  BY <1>1


(* The occurrences behind those that were taken.                           *)
Behind(all, taken) == {o \in all : \A x \in taken : x.end <= o.start}

(* find_iter takes one occurrence after the other.                         *)
LEMMA FindSteps ==
    ASSUME NEW group, NEW text, IsSequence(text)
    PROVE  \E f : /\ f \in [0 .. Len(text) -> SUBSET Found(group, text)] /\ f[0] = {}
                  /\ \A n \in 1 .. Len(text) :
                        f[n] = f[n - 1] \cup First(Behind(Found(group, text), f[n - 1]))
                  /\ find_iter(group, text) = f[Len(text)]
<1> DEFINE all == Found(group, text)
           N == Len(text)
           Def(d) == [n \in 0 .. N |-> IF n = 0 THEN {}
                        ELSE d[n - 1] \cup First({o \in all : \A x \in d[n - 1] : x.end <= o.start})]
           taken == CHOOSE d : d = Def(d)
<1>1. find_iter(group, text) = taken[N]
  BY DEF find_iter
<1> HIDE DEF all
<1>2. N \in Nat
  BY SequenceIsNumbered
<1> HIDE DEF N
<1> DEFINE H == SUBSET all
           s == [t \in H |-> t \cup First(Behind(all, t))]
<1>3. \A t : First(Behind(all, t)) \subseteq all
  BY DEF First, Behind
<1>4. s \in [H -> H] /\ {} \in H
  BY <1>3
<1>5. \A t \in H : s[t] = t \cup First({o \in all : \A x \in t : x.end <= o.start})
  BY DEF Behind
<1> HIDE DEF H, s
<1>6. PICK f : IsTurns(f, H, s, {}, N)
  BY <1>2, <1>4, TurnsExist
<1>7. f \in [0 .. N -> H] /\ f[0] = {} /\ \A i \in 1 .. N : f[i] = s[f[i - 1]]
  BY <1>6 DEF IsTurns
<1>8. f = Def(f)
  <2>1. \A i \in 0 .. N : i # 0 => i - 1 \in 0 .. N /\ i \in 1 .. N
    BY <1>2
  <2>2. \A i \in 0 .. N : i # 0 => f[i] = f[i - 1] \cup First({o \in all : \A x \in f[i - 1] : x.end <= o.start})
    BY <1>5, <1>7, <2>1
  <2>3. \A i \in 0 .. N : f[i] = Def(f)[i]
    BY <1>7, <2>2
  <2> QED
    BY <1>7, <2>3
<1>9. taken = Def(taken)
  <2> HIDE DEF Def
  <2> QED
    BY <1>8
<1> HIDE DEF taken
<1>10. taken[0] = {} /\ DOMAIN taken = 0 .. N
       /\ \A i \in 0 .. N : i # 0 => taken[i] = taken[i - 1] \cup First(Behind(all, taken[i - 1]))
  <2>1. /\ DOMAIN Def(taken) = 0 .. N
        /\ \A i \in 0 .. N : Def(taken)[i] = IF i = 0 THEN {} ELSE taken[i - 1] \cup
              First({o \in all : \A x \in taken[i - 1] : x.end <= o.start})
    OBVIOUS
  <2> HIDE DEF Def
  <2>2. DOMAIN taken = 0 .. N /\ \A i \in 0 .. N : taken[i] = Def(taken)[i]
    BY <1>9, <2>1, Zenon
  <2>3. \A i \in 0 .. N : Behind(all, taken[i - 1])
            = {o \in all : \A x \in taken[i - 1] : x.end <= o.start}
    BY DEF Behind
  <2>4. \A i \in 0 .. N : taken[i] = IF i = 0 THEN {} ELSE taken[i - 1] \cup
              First({o \in all : \A x \in taken[i - 1] : x.end <= o.start})
    BY <2>1, <2>2, Zenon
  <2>5. 0 \in 0 .. N
    BY <1>2
  <2>6. taken[0] = {}
    BY <2>4, <2>5, Zenon
  <2>7. ASSUME NEW i \in 0 .. N, i # 0
        PROVE  taken[i] = taken[i - 1] \cup First(Behind(all, taken[i - 1]))
    BY <2>3, <2>4, <2>7, Zenon
  <2> QED
    BY <2>2, <2>6, <2>7
<1>11. \A i \in 1 .. N : taken[i] = taken[i - 1] \cup First(Behind(all, taken[i - 1]))
  <2>1. \A i \in 1 .. N : i \in 0 .. N /\ i # 0
    BY <1>2
  <2> QED
    BY <1>10, <2>1
<1>12. \A i \in 0 .. N : taken[i] \subseteq all
  <2> DEFINE Bad == {i \in 0 .. N : ~(taken[i] \subseteq all)}
  <2>1. ASSUME Bad # {} PROVE FALSE
    <3>0. Bad \in SUBSET Nat
      BY <1>2
    <3>1. PICK m \in Bad : \A l \in Bad : m <= l
      BY <2>1, <3>0, LeastNatural
    <3>2. m \in 1 .. N /\ m - 1 \in 0 .. N /\ m - 1 < m
      BY <1>2, <1>10, <3>0, <3>1
    <3>3. m - 1 \notin Bad
      <4> HIDE DEF Bad
      <4> QED
        BY <3>0, <3>1, <3>2
    <3>4. taken[m - 1] \subseteq all
      BY <3>2, <3>3
    <3>5. taken[m] \subseteq all
      BY <1>3, <1>11, <3>2, <3>4
    <3> QED
      BY <3>1, <3>5
  <2> QED
    BY <2>1
<1>13. taken \in [0 .. N -> SUBSET all]
  <2>1. taken = [i \in 0 .. N |-> taken[i]]
    <3>1. \E d : taken = [i \in 0 .. N |-> d[i]]
      <4> DEFINE e == Def(taken)
      <4>1. e = [i \in 0 .. N |-> e[i]]
        OBVIOUS
      <4> QED
        BY <1>9, <4>1
    <3> QED
      BY <3>1
  <2> QED
    BY <1>12, <2>1
<1> QED
  BY <1>1, <1>10, <1>11, <1>13 DEF all, N

(* What it takes is there.                                                 *)
LEMMA FindIsFound ==
    ASSUME NEW group, NEW text, IsSequence(text)
    PROVE  find_iter(group, text) \subseteq Found(group, text)
<1>1. Len(text) \in Nat /\ Len(text) \in 0 .. Len(text)
  BY SequenceIsNumbered
<1> QED
  BY <1>1, FindSteps

(* Which of two occurrences comes first.                                   *)
Comes(o, q) ==
    \/ o.end < q.end
    \/ o.end = q.end /\ o.start < q.start
    \/ o.end = q.end /\ o.start = q.start /\ o.p.id < q.p.id
    \/ o.end = q.end /\ o.start = q.start /\ o.p.id = q.p.id /\ o.p.rev < q.p.rev
(* The order of places is the order in which the iterator comes to them.   *)
LEMMA SmallerPlace ==
    ASSUME NEW o, NEW q
    PROVE  Smaller(Place(o), Place(q)) <=> Comes(o, q)
<1> DEFINE a == Place(o)
           b == Place(q)
<1>1. /\ DOMAIN a = 1 .. 4 /\ a[1] = o.end /\ a[2] = o.start /\ a[3] = o.p.id /\ a[4] = o.p.rev
      /\ b[1] = q.end /\ b[2] = q.start /\ b[3] = q.p.id /\ b[4] = q.p.rev
  BY DEF Place
<1> HIDE DEF a, b
<1>2. Smaller(a, b) <=> \E i \in 1 .. 4 : a[i] < b[i] /\ \A k \in 1 .. i - 1 : a[k] = b[k]
  BY <1>1 DEF Smaller
<1>3. 1 .. 4 = {1, 2, 3, 4} /\ 1 .. 1 - 1 = {} /\ 1 .. 2 - 1 = {1} /\ 1 .. 3 - 1 = {1, 2}
      /\ 1 .. 4 - 1 = {1, 2, 3}
  OBVIOUS
<1>4. Smaller(a, b) <=> \/ a[1] < b[1]
                        \/ a[2] < b[2] /\ a[1] = b[1]
                        \/ a[3] < b[3] /\ a[1] = b[1] /\ a[2] = b[2]
                        \/ a[4] < b[4] /\ a[1] = b[1] /\ a[2] = b[2] /\ a[3] = b[3]
  BY <1>2, <1>3
<1> QED
  BY <1>1, <1>4 DEF Comes, a, b

(* One of some occurrences comes before all others.                        *)
LEMMA FirstExists ==
    ASSUME NEW group, Compiled(group), NEW text, IsSequence(text),
           NEW rest, rest \subseteq Found(group, text), rest # {}
    PROVE  First(rest) # {}
<1>1. \A o \in rest : /\ o = [p |-> o.p, start |-> o.start, end |-> o.end] /\ o.p \in group
                      /\ o.start \in Nat /\ o.end \in Nat
  BY FoundIs
<1>2. \A o \in rest : o.p.id \in Nat /\ o.p.rev \in Nat /\ o.p = Rev(o.p.id, o.p.rev)
  BY <1>1 DEF Compiled
<1>3. PICK e \in {o.end : o \in rest} : \A m \in {o.end : o \in rest} : e <= m
  <2> DEFINE S == {o.end : o \in rest}
  <2>1. S \in SUBSET Nat /\ S # {}
    BY <1>1
  <2> HIDE DEF S
  <2>2. \E n \in S : \A m \in S : n <= m
    BY <2>1, LeastNatural
  <2> QED
    BY <2>2 DEF S
<1> DEFINE R2 == {o \in rest : o.end = e}
<1>4. R2 # {}
  BY <1>3
<1>5. PICK s \in {o.start : o \in R2} : \A m \in {o.start : o \in R2} : s <= m
  <2> DEFINE S == {o.start : o \in R2}
  <2>1. S \in SUBSET Nat /\ S # {}
    BY <1>1, <1>4
  <2> HIDE DEF S
  <2>2. \E n \in S : \A m \in S : n <= m
    BY <2>1, LeastNatural
  <2> QED
    BY <2>2 DEF S
<1> DEFINE R3 == {o \in R2 : o.start = s}
<1>6. R3 # {}
  BY <1>5
<1>7. PICK i \in {o.p.id : o \in R3} : \A m \in {o.p.id : o \in R3} : i <= m
  <2> DEFINE S == {o.p.id : o \in R3}
  <2>1. S \in SUBSET Nat /\ S # {}
    BY <1>2, <1>6
  <2> HIDE DEF S
  <2>2. \E n \in S : \A m \in S : n <= m
    BY <2>1, LeastNatural
  <2> QED
    BY <2>2 DEF S
<1> DEFINE R4 == {o \in R3 : o.p.id = i}
<1>8. R4 # {}
  BY <1>7
<1>9. PICK v \in {o.p.rev : o \in R4} : \A m \in {o.p.rev : o \in R4} : v <= m
  <2> DEFINE S == {o.p.rev : o \in R4}
  <2>1. S \in SUBSET Nat /\ S # {}
    BY <1>2, <1>8
  <2> HIDE DEF S
  <2>2. \E n \in S : \A m \in S : n <= m
    BY <2>1, LeastNatural
  <2> QED
    BY <2>2 DEF S
<1>10. PICK o \in R4 : o.p.rev = v
  BY <1>9
<1>11. ASSUME NEW q \in rest, q # o PROVE Comes(o, q)
  <2>0. o \in rest /\ o.end = e /\ o.start = s /\ o.p.id = i /\ o.p.rev = v
    BY <1>10
  <2>1. e <= q.end /\ e \in Nat /\ q.end \in Nat
    BY <1>1, <1>3, <2>0
  <2>2. q.end = e => s <= q.start /\ s \in Nat /\ q.start \in Nat
    BY <1>1, <1>5, <2>0
  <2>3. q.end = e /\ q.start = s => i <= q.p.id /\ i \in Nat /\ q.p.id \in Nat
    BY <1>2, <1>7, <2>0
  <2>4. q.end = e /\ q.start = s /\ q.p.id = i => v <= q.p.rev /\ v \in Nat /\ q.p.rev \in Nat
    BY <1>2, <1>9, <2>0
  <2>5. ~(q.end = e /\ q.start = s /\ q.p.id = i /\ q.p.rev = v)
    <3>1. SUFFICES ASSUME q.end = e, q.start = s, q.p.id = i, q.p.rev = v PROVE FALSE
      OBVIOUS
    <3>2. q.p = o.p
      BY <1>2, <2>0, <3>1
    <3>3. q = o
      BY <1>1, <2>0, <3>1, <3>2
    <3> QED
      BY <1>11, <3>3
  <2> QED
    BY <2>0, <2>1, <2>2, <2>3, <2>4, <2>5 DEF Comes
<1>12. o \in First(rest)
  BY <1>10, <1>11, SmallerPlace DEF First
<1> QED
  BY <1>12

(* An occurrence that no other one overlaps is not passed over.            *)
LEMMA IsolatedIsFound ==
    ASSUME NEW group, Compiled(group), NEW text, IsSequence(text), NEW o \in Found(group, text),
           \A q \in Found(group, text) : q = o \/ q.end <= o.start \/ q.start >= o.end
    PROVE  o \in find_iter(group, text)
<1> DEFINE all == Found(group, text)
           N == Len(text)
<1>1. N \in Nat
  BY SequenceIsNumbered
<1>2. PICK f : /\ f \in [0 .. N -> SUBSET all] /\ f[0] = {}
               /\ \A n \in 1 .. N : f[n] = f[n - 1] \cup First(Behind(all, f[n - 1]))
               /\ find_iter(group, text) = f[N]
  BY FindSteps
<1>3. \A x \in all : x.start \in Nat /\ x.end \in Nat /\ x.start < x.end /\ x.end <= N
  BY FoundIs
<1> HIDE DEF N
<1> DEFINE On(n) == o \in f[n] \/ ((\A x \in f[n] : x.end <= o.start)
                                   /\ (n = 0 \/ \E x \in f[n] : x.end >= n))
           Bad == {n \in 0 .. N : ~On(n)}
<1>4. Bad = {}
  <2> SUFFICES ASSUME Bad # {} PROVE FALSE
    OBVIOUS
  <2>0. Bad \in SUBSET Nat
    BY <1>1
  <2>1. PICK m \in Bad : \A l \in Bad : m <= l
    BY <2>0, LeastNatural
  <2>2. m \in 1 .. N /\ m - 1 \in 0 .. N /\ m - 1 < m /\ ~On(m) /\ m \in Nat
    BY <1>1, <1>2, <2>0, <2>1
  <2>3. On(m - 1)
    <3>1. m - 1 \notin Bad
      <4> HIDE DEF Bad
      <4> QED
        BY <2>0, <2>1, <2>2
    <3> QED
      BY <2>2, <3>1
  <2> DEFINE was == f[m - 1]
             rest == Behind(all, was)
  <2>4. f[m] = was \cup First(rest) /\ was \subseteq all
    BY <1>2, <2>2
  <2>5. o \notin was /\ (\A x \in was : x.end <= o.start) /\ (m = 1 \/ \E x \in was : x.end >= m - 1)
    BY <2>2, <2>3, <2>4
  <2> HIDE DEF was
  <2>6. o \in rest /\ rest \subseteq all
    BY <2>5 DEF Behind
  <2>7. PICK y \in First(rest) : TRUE
    BY <2>6, FirstExists
  <2>8. y \in rest /\ y \in all /\ \A q \in rest \ {y} : Comes(y, q)
    BY <2>6, <2>7, SmallerPlace DEF First
  <2>9. y = o \/ y.end <= o.start
    <3> SUFFICES ASSUME y # o, y.start >= o.end PROVE FALSE
      BY <2>8
    <3>1. Comes(y, o)
      BY <2>6, <2>8
    <3> QED
      BY <1>3, <2>8, <3>1 DEF Comes
  <2>10. y \in f[m]
    BY <2>4, <2>7
  <2>11. y # o
    BY <2>2, <2>10
  <2>12. \A x \in f[m] : x.end <= o.start
    <3> SUFFICES ASSUME NEW x \in First(rest) PROVE x.end <= o.start
      BY <2>4, <2>5
    <3>1. x \in rest /\ x \in all /\ \A q \in rest \ {x} : Comes(x, q)
      BY <2>6, SmallerPlace DEF First
    <3>2. x # o
      BY <2>2, <2>4
    <3>3. Comes(x, o)
      BY <2>6, <3>1, <3>2
    <3> QED
      BY <1>3, <3>1, <3>2, <3>3 DEF Comes
  <2>13. y.end >= m
    <3>1. \A x \in was : x.end <= y.start
      BY <2>8 DEF Behind
    <3> QED
      BY <1>3, <2>2, <2>4, <2>5, <2>8, <3>1
  <2> QED
    BY <2>2, <2>10, <2>12, <2>13
<1>5. N \in 0 .. N
  BY <1>1
<1>6. On(N)
  BY <1>4, <1>5
<1>7. ASSUME o \notin f[N] PROVE FALSE
  <2>1. f[N] \subseteq all
    BY <1>2, <1>5
  <2>2. (\A x \in f[N] : x.end <= o.start) /\ (N = 0 \/ \E x \in f[N] : x.end >= N)
    BY <1>6, <1>7
  <2> HIDE DEF all
  <2> QED
    BY <1>1, <1>3, <2>1, <2>2 DEF all
<1> QED
  BY <1>2, <1>7

-----------------------------------------------------------------------------
(* What a scan of a record yields.                                         *)

(* Induction over a finite set: a family of subsets that has the empty one *)
(* and is closed under adding an element has the whole set.                *)
LEMMA FiniteSetInduction ==
    ASSUME NEW S, IsFiniteSet(S), NEW G, {} \in G,
           \A T \in SUBSET S : \A x \in S : T \in G => T \cup {x} \in G
    PROVE  S \in G
<1> DEFINE R == StrictSubsetOrdering(S)
           B == (SUBSET S) \ G
<1>1. IsWellFoundedOn(R, FiniteSubsetsOf(S))
  BY FS_StrictSubsetOrderingWellFounded
<1>2. \A T \in SUBSET S : IsFiniteSet(T)
  BY FS_Subset
<1>3. B \subseteq FiniteSubsetsOf(S)
  BY <1>2 DEF FiniteSubsetsOf
<1>4. \A T \in SUBSET S, U \in SUBSET S : T \subseteq U /\ T # U => <<T, U>> \in R
  BY DEF StrictSubsetOrdering
<1> HIDE DEF R
<1>5. SUFFICES ASSUME B # {} PROVE FALSE
  OBVIOUS
<1>6. PICK U \in B : \A T \in B : ~(<<T, U>> \in R)
  BY <1>1, <1>3, <1>5, WFMin
<1>7. PICK x \in U : TRUE
  OBVIOUS
<1>8. U \ {x} \in G
  BY <1>4, <1>6, <1>7
<1>9. U = (U \ {x}) \cup {x}
  BY <1>7
<1> QED
  BY <1>8, <1>9

(* What a function takes a finite set to is finite.                        *)
LEMMA FiniteImage ==
    ASSUME NEW S, IsFiniteSet(S), NEW f, f = [x \in S |-> f[x]]
    PROVE  IsFiniteSet({f[x] : x \in S})
<1> DEFINE T == {f[x] : x \in S}
<1>1. f \in Surjection(S, T)
  BY DEF Surjection
<1> QED
  BY <1>1, FS_Surjection

(* The largest of finitely many numbers, or 0 if none is positive.         *)
LEMMA LargestIs ==
    ASSUME NEW S, IsFiniteSet(S), S \subseteq Int
    PROVE  Largest(S) \in Nat /\ Largest(S) \in S \cup {0} /\ \A y \in S : y <= Largest(S)
<1> DEFINE G == {T \in SUBSET S : \E x \in T \cup {0} : \A y \in T \cup {0} : y <= x}
<1>1. {} \in G
  OBVIOUS
<1>2. ASSUME NEW T \in SUBSET S, NEW z \in S, T \in G PROVE T \cup {z} \in G
  <2>1. PICK x \in T \cup {0} : \A y \in T \cup {0} : y <= x
    BY <1>2
  <2>2. x \in Int /\ z \in Int
    OBVIOUS
  <2>3. CASE z <= x
    BY <2>1, <2>3
  <2>4. CASE ~(z <= x)
    <3>1. \A y \in (T \cup {z}) \cup {0} : y <= z
      BY <2>1, <2>2, <2>4
    <3> QED
      BY <3>1
  <2> QED
    BY <2>3, <2>4
<1> HIDE DEF G
<1>3. S \in G
  BY <1>1, <1>2, FiniteSetInduction
<1>4. \E x \in S \cup {0} : \A y \in S \cup {0} : y <= x
  BY <1>3 DEF G
<1> DEFINE m == Largest(S)
<1>5. m \in S \cup {0} /\ \A y \in S \cup {0} : y <= m
  BY <1>4 DEF Largest
<1> HIDE DEF m
<1>6. m \in Int /\ 0 <= m
  BY <1>5
<1> QED
  BY <1>5, <1>6 DEF m

(* The longest literal of a group bounds all of them.                      *)
LEMMA LongestLiteral ==
    ASSUME NEW group, Compiled(group), IsFiniteSet(group)
    PROVE  /\ max_literal_len(group) \in Nat
           /\ \A p \in OfKind(group, "literal") : Len(Word(p)) <= max_literal_len(group)
<1> DEFINE lits == OfKind(group, "literal")
           f == [p \in lits |-> Len(Word(p))]
<1>1. lits \subseteq group /\ IsFiniteSet(lits)
  BY FS_Subset DEF OfKind
<1>2. \A p \in lits : Len(Word(p)) \in Nat
  BY <1>1, WordLength
<1> HIDE DEF lits
<1>3. WordLens(lits) = {Len(Word(p)) : p \in lits}
  BY DEF WordLens, Word
<1>4. IsFiniteSet({Len(Word(p)) : p \in lits})
  <2>1. f = [p \in lits |-> f[p]] /\ {f[p] : p \in lits} = {Len(Word(p)) : p \in lits}
    OBVIOUS
  <2> HIDE DEF f
  <2> QED
    BY <1>1, <2>1, FiniteImage
<1>5. WordLens(lits) \subseteq Int
  BY <1>2, <1>3
<1> QED
  BY <1>3, <1>4, <1>5, LargestIs DEF max_literal_len, lits

(* No other occurrence of the group shares a byte with o.                  *)
Alone(o, group, text) ==
    \A q \in Found(group, text) : q = o \/ q.end <= o.start \/ q.start >= o.end

(* The iterator over a window reports occurrences of the text within the   *)
(* window, and all of those that are alone.                                *)
LEMMA WindowScan ==
    ASSUME NEW group, Compiled(group), NEW text, IsSequence(text),
           NEW a \in Nat, NEW b \in Nat, a <= b, b <= Len(text)
    PROVE  /\ \A o \in Shifted(find_iter(group, SubSeq(text, a + 1, b)), a) :
                 o \in Found(group, text) /\ a <= o.start /\ o.end <= b
           /\ \A o \in Found(group, text) :
                 a <= o.start /\ o.end <= b /\ Alone(o, group, text)
                    => o \in Shifted(find_iter(group, SubSeq(text, a + 1, b)), a)
<1> DEFINE part == SubSeq(text, a + 1, b)
           got == find_iter(group, part)
<1>1. IsSequence(part)
  BY PartOfSequence
<1>2. \A q \in Found(group, part) :
         /\ Moved(q, a) \in Found(group, text) /\ Moved(q, a).start = a + q.start
         /\ Moved(q, a).end = a + q.end /\ Moved(q, a).end <= b /\ Moved(q, a).p = q.p
  BY FoundInPart
<1>3. \A o \in Found(group, text) : a <= o.start /\ o.end <= b
         => \E q \in Found(group, part) : Moved(q, a) = o
  BY FoundWithin
<1> HIDE DEF part
<1>4. Shifted(got, a) = {Moved(q, a) : q \in got}
  BY DEF Shifted
<1>5. \A q \in Found(group, part) :
         /\ q.start \in Nat /\ q.end \in Nat
         /\ q = [p |-> q.p, start |-> q.start, end |-> q.end]
  BY <1>1, FoundIs
<1>6. got \subseteq Found(group, part)
  BY <1>1, FindIsFound
<1>7. \A o \in Shifted(got, a) : o \in Found(group, text) /\ a <= o.start /\ o.end <= b
  <2> SUFFICES ASSUME NEW q \in got
               PROVE  Moved(q, a) \in Found(group, text) /\ a <= Moved(q, a).start /\ Moved(q, a).end <= b
    BY <1>4
  <2> QED
    BY <1>2, <1>5, <1>6
<1>8. ASSUME NEW o \in Found(group, text), a <= o.start, o.end <= b, Alone(o, group, text)
      PROVE  o \in Shifted(got, a)
  <2>1. PICK q \in Found(group, part) : Moved(q, a) = o
    BY <1>3, <1>8
  <2>2. ASSUME NEW x \in Found(group, part), x # q, ~(x.end <= q.start), ~(x.start >= q.end) PROVE FALSE
    <3>1. Moved(x, a) = o \/ Moved(x, a).end <= o.start \/ Moved(x, a).start >= o.end
      BY <1>2, <1>8 DEF Alone
    <3>2. Moved(x, a).end <= o.start => x.end <= q.start
      BY <1>2, <1>5, <2>1
    <3>3. Moved(x, a).start >= o.end => x.start >= q.end
      BY <1>2, <1>5, <2>1
    <3>4. Moved(x, a) = o => x = q
      <4> SUFFICES ASSUME Moved(x, a) = Moved(q, a) PROVE x = q
        BY <2>1
      <4>1. a + x.start = a + q.start /\ a + x.end = a + q.end /\ x.p = q.p
        BY <1>2
      <4>2. x.start = q.start /\ x.end = q.end
        BY <1>5, <4>1
      <4> QED
        BY <1>5, <4>1, <4>2
    <3> QED
      BY <2>2, <3>1, <3>2, <3>3, <3>4
  <2>3. q \in got
    BY <1>1, <2>2, IsolatedIsFound
  <2> QED
    BY <1>4, <2>1, <2>3
<1> QED
  BY <1>7, <1>8 DEF part

(* A record and a prefix that are true of their stream, a verbatim one.    *)
PartTrue(s, data, a, b) ==
    /\ s \in Streams /\ Verbatim(s) /\ a \in Nat /\ b \in Nat /\ a <= b /\ b <= Len(Data(s)) /\ Len(data) = b - a
    /\ data = SubSeq(Data(s), a + 1, b)
RecordTrue(r) == r.offset \in Nat /\ Len(r.data) \in Nat /\ PartTrue(r.s, r.data, r.offset, r.offset + Len(r.data))
PrefixTrue(r, prefix) == Len(prefix) \in Nat /\ PartTrue(r.s, prefix, r.offset - Len(prefix), r.offset)

(* The stream of such a record is a text.                                  *)
LEMMA RecordText ==
    ASSUME NEW r, RecordTrue(r)
    PROVE  /\ r.s \in Streams /\ Verbatim(r.s) /\ IsSequence(Data(r.s)) /\ Len(Data(r.s)) \in Nat
           /\ r.offset \in Nat /\ Len(r.data) \in Nat /\ IsSequence(r.data)
<1>1. /\ r.s \in Streams /\ Verbatim(r.s) /\ r.offset \in Nat /\ Len(r.data) \in Nat
      /\ r.offset + Len(r.data) \in Nat /\ r.offset <= r.offset + Len(r.data)
      /\ r.offset + Len(r.data) <= Len(Data(r.s))
      /\ r.data = SubSeq(Data(r.s), r.offset + 1, r.offset + Len(r.data))
  BY DEF RecordTrue, PartTrue
<1>2. IsSequence(Data(r.s)) /\ Len(Data(r.s)) \in Nat
  BY <1>1, TrafficAssumption, SequenceIsNumbered
<1>3. IsSequence(r.data)
  <2> DEFINE a == r.offset
             b == r.offset + Len(r.data)
             text == Data(r.s)
  <2>1. a \in Nat /\ b \in Nat /\ a <= b /\ b <= Len(text) /\ IsSequence(text) /\ r.data = SubSeq(text, a + 1, b)
    BY <1>1, <1>2
  <2> HIDE DEF a, b, text
  <2> QED
    BY <2>1, PartOfSequence
<1> QED
  BY <1>1, <1>2, <1>3

(* The bridge.                                                             *)
LEMMA BridgeScan ==
    ASSUME NEW group, Compiled(group), IsFiniteSet(group), \A p \in group : ExprOf(p).kind = "literal",
           NEW r, RecordTrue(r), NEW prefix, PrefixTrue(r, prefix)
    PROVE  /\ \A o \in Bridge(group, r, prefix) :
                 /\ o \in Found(group, Data(r.s)) /\ r.offset - Len(prefix) <= o.start
                 /\ o.start < r.offset /\ r.offset < o.end /\ o.end <= r.offset + Len(r.data)
           /\ \A o \in Found(group, Data(r.s)) :
                 (/\ r.offset - Len(prefix) <= o.start /\ o.start < r.offset
                  /\ r.offset < o.end /\ o.end <= r.offset + Len(r.data)
                  /\ Alone(o, group, Data(r.s)))
                 => o \in Bridge(group, r, prefix)
<1> DEFINE text == Data(r.s)
           keep == max_literal_len(group) - 1
           left == LastN(prefix, keep)
           right == FirstN(r.data, keep)
           m == r.offset
           l == Len(prefix)
           n == Len(r.data)
           a == IF l > keep THEN m - keep ELSE m - l
           b == IF n > keep THEN m + keep ELSE m + n
<1>1. /\ r.s \in Streams /\ m \in Nat /\ l \in Nat /\ n \in Nat
      /\ m - l \in Nat /\ m + n <= Len(text) /\ m <= Len(text)
      /\ prefix = SubSeq(text, (m - l) + 1, m)
      /\ r.data = SubSeq(text, m + 1, m + n)
  BY DEF RecordTrue, PrefixTrue, PartTrue
<1>2. IsSequence(text) /\ Len(text) \in Nat
  BY RecordText
<1>3. /\ keep \in Int /\ keep + 1 \in Nat
      /\ \A p \in group : Len(Word(p)) <= keep + 1
  <2>1. OfKind(group, "literal") = group
    BY DEF OfKind
  <2>2. max_literal_len(group) \in Nat /\ \A p \in group : Len(Word(p)) <= max_literal_len(group)
    BY <2>1, LongestLiteral
  <2>3. max_literal_len(group) - 1 + 1 = max_literal_len(group)
    BY <2>2
  <2> QED
    BY <2>2, <2>3
<1>4. \A o \in Found(group, text) :
        /\ o.p \in group /\ o.start \in Nat /\ o.end \in Nat /\ o.start < o.end
        /\ o.end = o.start + Len(Word(o.p)) /\ Len(Word(o.p)) \in Nat
  BY <1>2, FoundIs, WordLength
<1>b. Bridge(group, r, prefix) = IF prefix = <<>> \/ keep <= 0 THEN {}
        ELSE {o \in Shifted(find_iter(group, left \o right), m - Len(left)) : o.start < m /\ o.end > m}
  BY DEF Bridge
<1>c. prefix = <<>> => l = 0
  BY EmptySequence
<1> HIDE DEF text, keep, m, l, n
<1>5. CASE prefix = <<>> \/ keep <= 0
  <2>1. Bridge(group, r, prefix) = {}
    BY <1>5, <1>b
  <2>3. ASSUME NEW o \in Found(group, text), m - l <= o.start, o.start < m, m < o.end PROVE FALSE
    <3>1. Len(Word(o.p)) <= keep + 1
      BY <1>3, <1>4
    <3>2. o.start \in Nat /\ o.end = o.start + Len(Word(o.p)) /\ Len(Word(o.p)) \in Nat
      BY <1>4
    <3>3. CASE l = 0
      BY <1>1, <2>3, <3>2, <3>3
    <3>4. CASE keep <= 0
      BY <1>1, <1>3, <2>3, <3>1, <3>2, <3>4
    <3> QED
      BY <1>5, <1>c, <3>3, <3>4
  <2> QED
    BY <2>1, <2>3 DEF text, m, l
<1>6. CASE ~(prefix = <<>> \/ keep <= 0)
  <2>0. keep \in Nat
    BY <1>3, <1>6
  <2>1. Bridge(group, r, prefix) = {o \in Shifted(find_iter(group, left \o right), m - Len(left)) : o.start < m /\ o.end > m}
    BY <1>6, <1>b
  <2>2. a \in Nat /\ b \in Nat /\ a <= m /\ m <= b /\ b <= Len(text) /\ a <= b
        /\ m - l <= a /\ b <= m + n
    BY <1>1, <1>2, <2>0
  <2>e. \A x, y \in Nat : x <= y /\ y <= Len(text) =>
           /\ LastN(SubSeq(text, x + 1, y), keep) = SubSeq(text, (IF y - x > keep THEN y - keep ELSE x) + 1, y)
           /\ FirstN(SubSeq(text, x + 1, y), keep) = SubSeq(text, x + 1, IF y - x > keep THEN x + keep ELSE y)
    BY <1>2, <2>0, EndsOfPart
  <2>3. left = SubSeq(text, a + 1, m)
    <3>1. m - (m - l) = l /\ m - l <= m
      BY <1>1
    <3>2. LastN(SubSeq(text, (m - l) + 1, m), keep)
            = SubSeq(text, (IF m - (m - l) > keep THEN m - keep ELSE m - l) + 1, m)
      BY <1>1, <2>e, <3>1, Zenon
    <3> QED
      BY <1>1, <3>1, <3>2, Zenon
  <2>4. right = SubSeq(text, m + 1, b)
    <3>1. (m + n) - m = n /\ m <= m + n /\ m + n \in Nat
      BY <1>1
    <3>2. FirstN(SubSeq(text, m + 1, m + n), keep)
            = SubSeq(text, m + 1, IF (m + n) - m > keep THEN m + keep ELSE m + n)
      BY <1>1, <2>e, <3>1, Zenon
    <3> QED
      BY <1>1, <3>1, <3>2, Zenon
  <2> HIDE DEF left, right, a, b
  <2>5. left \o right = SubSeq(text, a + 1, b)
    BY <1>1, <1>2, <2>2, <2>3, <2>4, PartsJoin
  <2>6. m - Len(left) = a
    <3>1. Len(left) = m - a
      BY <1>1, <1>2, <2>2, <2>3, PartOfSequence
    <3> QED
      BY <1>1, <2>2, <3>1
  <2>7. Bridge(group, r, prefix)
          = {o \in Shifted(find_iter(group, SubSeq(text, a + 1, b)), a) : o.start < m /\ o.end > m}
    BY <2>1, <2>5, <2>6
  <2>8. /\ \A o \in Shifted(find_iter(group, SubSeq(text, a + 1, b)), a) :
              o \in Found(group, text) /\ a <= o.start /\ o.end <= b
        /\ \A o \in Found(group, text) :
              a <= o.start /\ o.end <= b /\ Alone(o, group, text)
                 => o \in Shifted(find_iter(group, SubSeq(text, a + 1, b)), a)
    BY <1>2, <2>2, WindowScan
  <2>9. \A o \in Bridge(group, r, prefix) :
           /\ o \in Found(group, text) /\ m - l <= o.start
           /\ o.start < m /\ m < o.end /\ o.end <= m + n
    <3> SUFFICES ASSUME NEW o \in Bridge(group, r, prefix)
                 PROVE  /\ o \in Found(group, text) /\ m - l <= o.start
                        /\ o.start < m /\ m < o.end /\ o.end <= m + n
      OBVIOUS
    <3>1. o \in Found(group, text) /\ a <= o.start /\ o.end <= b /\ o.start < m /\ o.end > m
      BY <2>7, <2>8
    <3> QED
      BY <1>1, <1>4, <2>2, <3>1
  <2>10. ASSUME NEW o \in Found(group, text), m - l <= o.start, o.start < m, m < o.end,
                o.end <= m + n, Alone(o, group, text)
         PROVE  o \in Bridge(group, r, prefix)
    <3>1. Len(Word(o.p)) <= keep + 1
      BY <1>3, <1>4
    <3>2. a <= o.start /\ o.end <= b
      BY <1>1, <1>4, <2>0, <2>10, <3>1 DEF a, b
    <3> QED
      BY <1>1, <1>4, <2>7, <2>8, <2>10, <3>2
  <2> QED
    BY <2>9, <2>10 DEF text, m, l, n
<1> QED
  BY <1>5, <1>6

(* Occurrences of some of the rules.                                       *)
LEMMA FoundOfSome ==
    ASSUME NEW group, Compiled(group), NEW text, IsSequence(text), NEW sub, sub \subseteq group
    PROVE  /\ Compiled(sub)
           /\ Found(sub, text) \subseteq Found(group, text)
           /\ \A o \in Found(group, text) : o.p \in sub => o \in Found(sub, text)
<1>1. Compiled(sub)
  BY DEF Compiled
<1>2. \A o \in Found(sub, text) : o \in Found(group, text)
  BY DEF Found, Occurrences
<1>3. ASSUME NEW o \in Found(group, text), o.p \in sub PROVE o \in Found(sub, text)
  <2>1. /\ o = [p |-> o.p, start |-> o.start, end |-> o.end] /\ o.start \in Nat
        /\ o.end = o.start + Len(Word(o.p)) /\ o.end <= Len(text)
        /\ SubSeq(text, o.start + 1, o.end) = Word(o.p)
    BY FoundIs
  <2>2. [p |-> o.p, start |-> o.start, end |-> o.start + Len(Word(o.p))] \in Found(sub, text)
    BY <1>1, <1>3, <2>1, IsFound
  <2> QED
    BY <2>1, <2>2
<1> QED
  BY <1>1, <1>2, <1>3

(* Where the hits of a record lie: they begin within the prefix or the     *)
(* record and end in the record.                                           *)
InReach(o, r, prefix) ==
    /\ r.offset - Len(prefix) <= o.start
    /\ r.offset < o.end /\ o.end <= r.offset + Len(r.data)

(* A regular expression.                                                   *)
LEMMA RegexScan ==
    ASSUME NEW p, Compiled({p}), NEW r, RecordTrue(r), NEW prefix, PrefixTrue(r, prefix)
    PROVE  /\ \A o \in RegexHits(p, r, prefix) : o \in Found({p}, Data(r.s)) /\ InReach(o, r, prefix)
           /\ \A o \in Found({p}, Data(r.s)) :
                 InReach(o, r, prefix) /\ Alone(o, {p}, Data(r.s)) => o \in RegexHits(p, r, prefix)
<1> DEFINE text == Data(r.s)
           m == r.offset
           l == Len(prefix)
           n == Len(r.data)
<1>1. /\ r.s \in Streams /\ m \in Nat /\ l \in Nat /\ n \in Nat
      /\ m - l \in Nat /\ m + n <= Len(text) /\ m + n \in Nat
      /\ prefix = SubSeq(text, (m - l) + 1, m)
      /\ r.data = SubSeq(text, m + 1, m + n)
  BY DEF RecordTrue, PrefixTrue, PartTrue
<1>2. IsSequence(text) /\ Len(text) \in Nat
  BY RecordText
<1>3. RegexHits(p, r, prefix) = {o \in Shifted(find_iter({p}, prefix \o r.data), m - l) : o.end > m \/ prefix = <<>>}
  BY DEF RegexHits
<1>4. prefix = <<>> => l = 0
  BY EmptySequence
<1>r. \A o : InReach(o, r, prefix) <=> m - l <= o.start /\ m < o.end /\ o.end <= m + n
  BY DEF InReach
<1> HIDE DEF text, m, l, n
<1>5. m - l <= m /\ m <= m + n /\ m - l <= m + n
  BY <1>1
<1>6. prefix \o r.data = SubSeq(text, (m - l) + 1, m + n)
  <2> DEFINE x == m - l
             y == m + n
  <2>1. x \in Nat /\ y \in Nat /\ x <= m /\ m <= y /\ y <= Len(text)
    BY <1>1, <1>5
  <2> HIDE DEF x, y
  <2>2. SubSeq(text, x + 1, m) \o SubSeq(text, m + 1, y) = SubSeq(text, x + 1, y)
    BY <1>1, <1>2, <2>1, PartsJoin
  <2> QED
    BY <1>1, <2>2 DEF x, y
<1>7. /\ \A o \in Shifted(find_iter({p}, prefix \o r.data), m - l) :
            o \in Found({p}, text) /\ m - l <= o.start /\ o.end <= m + n
      /\ \A o \in Found({p}, text) :
            m - l <= o.start /\ o.end <= m + n /\ Alone(o, {p}, text)
               => o \in Shifted(find_iter({p}, prefix \o r.data), m - l)
  <2> DEFINE x == m - l
             y == m + n
  <2>1. x \in Nat /\ y \in Nat /\ x <= y /\ y <= Len(text)
    BY <1>1, <1>5
  <2>2. prefix \o r.data = SubSeq(text, x + 1, y)
    BY <1>6
  <2> HIDE DEF x, y
  <2>3. /\ \A o \in Shifted(find_iter({p}, prefix \o r.data), x) :
              o \in Found({p}, text) /\ x <= o.start /\ o.end <= y
        /\ \A o \in Found({p}, text) :
              x <= o.start /\ o.end <= y /\ Alone(o, {p}, text)
                 => o \in Shifted(find_iter({p}, prefix \o r.data), x)
    BY <1>2, <2>1, <2>2, WindowScan
  <2> QED
    BY <2>3 DEF x, y
<1>8. \A o \in Found({p}, text) : o.start \in Nat /\ o.end \in Nat /\ o.start < o.end
  BY <1>2, FoundIs
<1>9. ASSUME NEW o \in RegexHits(p, r, prefix) PROVE o \in Found({p}, text) /\ InReach(o, r, prefix)
  <2>1. o \in Found({p}, text) /\ m - l <= o.start /\ o.end <= m + n /\ (o.end > m \/ l = 0)
    BY <1>3, <1>4, <1>7
  <2>2. m < o.end
    <3>1. o.start \in Nat /\ o.end \in Nat /\ o.start < o.end
      BY <1>8, <2>1
    <3>2. CASE o.end > m
      BY <1>1, <3>1, <3>2
    <3>3. CASE l = 0
      BY <1>1, <2>1, <3>1, <3>3
    <3> QED
      BY <2>1, <3>2, <3>3
  <2> QED
    BY <1>r, <2>1, <2>2
<1>10. ASSUME NEW o \in Found({p}, text), InReach(o, r, prefix), Alone(o, {p}, text)
       PROVE  o \in RegexHits(p, r, prefix)
  <2>1. m - l <= o.start /\ m < o.end /\ o.end <= m + n
    BY <1>10, <1>r
  <2>2. o.end > m
    BY <1>1, <1>8, <2>1
  <2> QED
    BY <1>3, <1>7, <1>10, <2>1, <2>2
<1> QED
  BY <1>9, <1>10 DEF text

(* The literals within a record.                                           *)
LEMMA RecordScan ==
    ASSUME NEW group, Compiled(group), NEW r, RecordTrue(r), NEW prefix, PrefixTrue(r, prefix)
    PROVE  /\ \A o \in Shifted(find_iter(group, r.data), r.offset) :
                 o \in Found(group, Data(r.s)) /\ InReach(o, r, prefix)
           /\ \A o \in Found(group, Data(r.s)) :
                 InReach(o, r, prefix) /\ r.offset <= o.start /\ Alone(o, group, Data(r.s))
                    => o \in Shifted(find_iter(group, r.data), r.offset)
<1> DEFINE text == Data(r.s)
           m == r.offset
           l == Len(prefix)
           n == Len(r.data)
           y == m + n
<1>1. /\ r.s \in Streams /\ m \in Nat /\ l \in Nat /\ n \in Nat
      /\ m - l \in Nat /\ y <= Len(text) /\ y \in Nat /\ m <= y
      /\ r.data = SubSeq(text, m + 1, y)
  BY DEF RecordTrue, PrefixTrue, PartTrue
<1>2. IsSequence(text) /\ Len(text) \in Nat
  BY RecordText
<1>r. \A o : InReach(o, r, prefix) <=> m - l <= o.start /\ m < o.end /\ o.end <= y
  BY DEF InReach
<1>s. Shifted(find_iter(group, r.data), r.offset) = Shifted(find_iter(group, SubSeq(text, m + 1, y)), m)
  BY <1>1
<1> HIDE DEF text, m, l, n, y
<1>3. /\ \A o \in Shifted(find_iter(group, SubSeq(text, m + 1, y)), m) :
            o \in Found(group, text) /\ m <= o.start /\ o.end <= y
      /\ \A o \in Found(group, text) :
            m <= o.start /\ o.end <= y /\ Alone(o, group, text)
               => o \in Shifted(find_iter(group, SubSeq(text, m + 1, y)), m)
  BY <1>1, <1>2, WindowScan
<1>4. \A o \in Found(group, text) : o.start \in Nat /\ o.end \in Nat /\ o.start < o.end
  BY <1>2, FoundIs
<1>5. ASSUME NEW o \in Shifted(find_iter(group, r.data), r.offset)
      PROVE  o \in Found(group, text) /\ InReach(o, r, prefix)
  <2>1. o \in Found(group, text) /\ m <= o.start /\ o.end <= y
    BY <1>3, <1>s
  <2>2. m - l <= o.start /\ m < o.end
    BY <1>1, <1>4, <2>1
  <2> QED
    BY <1>r, <2>1, <2>2
<1>6. ASSUME NEW o \in Found(group, text), InReach(o, r, prefix), r.offset <= o.start, Alone(o, group, text)
      PROVE  o \in Shifted(find_iter(group, r.data), r.offset)
  <2>1. m <= o.start /\ o.end <= y
    BY <1>6, <1>r DEF m
  <2> QED
    BY <1>3, <1>6, <1>s, <2>1
<1> QED
  BY <1>5, <1>6 DEF text

(* A group of rules: its hits are occurrences in reach, and an isolated    *)
(* occurrence in reach is one of them.                                     *)
LEMMA GroupScan ==
    ASSUME NEW group, Compiled(group), IsFiniteSet(group), NEW r, RecordTrue(r),
           NEW prefix, PrefixTrue(r, prefix)
    PROVE  /\ \A o \in scan_into(group, r, prefix) :
                 o \in Found(group, Data(r.s)) /\ InReach(o, r, prefix)
           /\ \A o \in Found(group, Data(r.s)) :
                 InReach(o, r, prefix) /\ Isolated(o, Data(r.s), group) => o \in scan_into(group, r, prefix)
<1> DEFINE text == Data(r.s)
           lits == OfKind(group, "literal")
           regs == OfKind(group, "regex")
<1>0. IsSequence(text)
  BY RecordText
<1>1. lits \subseteq group /\ regs \subseteq group /\ IsFiniteSet(lits)
      /\ (\A p \in lits : ExprOf(p).kind = "literal") /\ (\A p \in regs : ExprOf(p).kind = "regex")
  BY FS_Subset DEF OfKind
<1>k. \A p \in group : p \in lits \/ p \in regs
  BY DEF OfKind, Compiled, IsExpr
<1>2. scan_into(group, r, prefix)
        = Bridge(lits, r, prefix) \cup Shifted(find_iter(lits, r.data), r.offset)
          \cup UNION {RegexHits(p, r, prefix) : p \in regs}
  BY DEF scan_into
<1> HIDE DEF lits, regs
<1>3. /\ Compiled(lits) /\ Found(lits, text) \subseteq Found(group, text)
      /\ \A o \in Found(group, text) : o.p \in lits => o \in Found(lits, text)
  BY <1>0, <1>1, FoundOfSome
<1>4. \A p \in regs : /\ Compiled({p}) /\ Found({p}, text) \subseteq Found(group, text)
                      /\ \A o \in Found(group, text) : o.p = p => o \in Found({p}, text)
  <2> SUFFICES ASSUME NEW p \in regs
               PROVE  /\ Compiled({p}) /\ Found({p}, text) \subseteq Found(group, text)
                      /\ \A o \in Found(group, text) : o.p = p => o \in Found({p}, text)
    OBVIOUS
  <2>1. {p} \subseteq group
    BY <1>1
  <2>2. /\ Compiled({p}) /\ Found({p}, text) \subseteq Found(group, text)
        /\ \A o \in Found(group, text) : o.p \in {p} => o \in Found({p}, text)
    BY <1>0, <2>1, FoundOfSome
  <2> QED
    BY <2>2
<1>5. /\ \A o \in Bridge(lits, r, prefix) : o \in Found(lits, text) /\ InReach(o, r, prefix)
      /\ \A o \in Found(lits, text) :
            InReach(o, r, prefix) /\ o.start < r.offset /\ Alone(o, lits, text)
               => o \in Bridge(lits, r, prefix)
  BY <1>1, <1>3, BridgeScan DEF InReach
<1>6. /\ \A o \in Shifted(find_iter(lits, r.data), r.offset) :
            o \in Found(lits, text) /\ InReach(o, r, prefix)
      /\ \A o \in Found(lits, text) :
            InReach(o, r, prefix) /\ r.offset <= o.start /\ Alone(o, lits, text)
               => o \in Shifted(find_iter(lits, r.data), r.offset)
  BY <1>3, RecordScan
<1>7. \A p \in regs :
         /\ \A o \in RegexHits(p, r, prefix) : o \in Found({p}, text) /\ InReach(o, r, prefix)
         /\ \A o \in Found({p}, text) :
               InReach(o, r, prefix) /\ Alone(o, {p}, text) => o \in RegexHits(p, r, prefix)
  BY <1>4, RegexScan
<1>8. ASSUME NEW o \in scan_into(group, r, prefix)
      PROVE  o \in Found(group, text) /\ InReach(o, r, prefix)
  <2>1. CASE o \in Bridge(lits, r, prefix) \/ o \in Shifted(find_iter(lits, r.data), r.offset)
    BY <1>3, <1>5, <1>6, <2>1
  <2>2. CASE \E p \in regs : o \in RegexHits(p, r, prefix)
    BY <1>4, <1>7, <2>2
  <2> QED
    BY <1>2, <2>1, <2>2
<1>9. ASSUME NEW o \in Found(group, text), InReach(o, r, prefix), Isolated(o, Data(r.s), group)
      PROVE  o \in scan_into(group, r, prefix)
  <2>0. o.p \in group /\ o.start \in Nat /\ r.offset \in Nat
    BY <1>0, FoundIs DEF RecordTrue
  <2>1. CASE o.p \in lits
    <3>1. Alone(o, lits, text)
      BY <1>1, <1>9, <2>1 DEF Isolated, Alone, lits
    <3>2. o \in Found(lits, text)
      BY <1>3, <2>1
    <3>3. o.start < r.offset \/ r.offset <= o.start
      BY <2>0
    <3> QED
      BY <1>2, <1>5, <1>6, <1>9, <3>1, <3>2, <3>3
  <2>2. CASE o.p \in regs
    <3>1. Alone(o, {o.p}, text)
      BY <1>1, <1>9, <2>2 DEF Isolated, Alone
    <3>2. o \in Found({o.p}, text)
      BY <1>4, <2>2
    <3>3. o \in RegexHits(o.p, r, prefix)
      BY <1>7, <1>9, <2>2, <3>1, <3>2
    <3> QED
      BY <1>2, <2>2, <3>3
  <2> QED
    BY <1>k, <2>0, <2>1, <2>2
<1> QED
  BY <1>8, <1>9

(* The two groups of a set, together.                                      *)
LEMMA SetScan ==
    ASSUME NEW set, Compiled(set), IsFiniteSet(set), NEW r, RecordTrue(r),
           NEW prefix, PrefixTrue(r, prefix)
    PROVE  /\ \A o \in scan_bounded(set, r, prefix).hits :
                 o \in Found(set, Data(r.s)) /\ InReach(o, r, prefix)
           /\ ~scan_bounded(set, r, prefix).limited =>
                 \A group \in {GlobalGroup(set, r), ServiceGroup(set, r)} :
                    \A o \in Found(group, Data(r.s)) :
                       InReach(o, r, prefix) /\ Isolated(o, Data(r.s), group)
                          => o \in scan_bounded(set, r, prefix).hits
<1> DEFINE text == Data(r.s)
           g1 == GlobalGroup(set, r)
           g2 == ServiceGroup(set, r)
           c == scan_into(g1, r, prefix) \cup scan_into(g2, r, prefix)
<1>0. IsSequence(text)
  BY RecordText
<1>1. g1 \subseteq set /\ g2 \subseteq set
  BY DEF GlobalGroup, ServiceGroup, Group
<1> DEFINE twice == \/ Doubled(g1, r, prefix) \/ Doubled(g2, r, prefix)
                    \/ scan_into(g1, r, prefix) \cap scan_into(g2, r, prefix) # {}
<1>2. scan_bounded(set, r, prefix)
        = [hits |-> Admitted(c, r), limited |-> Admitted(c, r) # c, twice |-> twice]
  BY DEF scan_bounded
<1> HIDE DEF twice
<1> HIDE DEF g1, g2
<1>3. Compiled(g1) /\ Compiled(g2) /\ IsFiniteSet(g1) /\ IsFiniteSet(g2)
      /\ Found(g1, text) \subseteq Found(set, text) /\ Found(g2, text) \subseteq Found(set, text)
  BY <1>0, <1>1, FoundOfSome, FS_Subset
<1>4. /\ \A o \in scan_into(g1, r, prefix) : o \in Found(g1, text) /\ InReach(o, r, prefix)
      /\ \A o \in Found(g1, text) :
            InReach(o, r, prefix) /\ Isolated(o, Data(r.s), g1) => o \in scan_into(g1, r, prefix)
  BY <1>3, GroupScan
<1>5. /\ \A o \in scan_into(g2, r, prefix) : o \in Found(g2, text) /\ InReach(o, r, prefix)
      /\ \A o \in Found(g2, text) :
            InReach(o, r, prefix) /\ Isolated(o, Data(r.s), g2) => o \in scan_into(g2, r, prefix)
  BY <1>3, GroupScan
<1>6. Admitted(c, r) \subseteq c
  BY DEF Admitted
<1>7. scan_bounded(set, r, prefix).hits = Admitted(c, r)
      /\ (~scan_bounded(set, r, prefix).limited => Admitted(c, r) = c)
  <2> DEFINE A == Admitted(c, r)
             b == (A # c)
  <2>1. scan_bounded(set, r, prefix) = [hits |-> A, limited |-> b, twice |-> twice]
    BY <1>2
  <2> HIDE DEF A, b
  <2>2. scan_bounded(set, r, prefix).hits = A /\ scan_bounded(set, r, prefix).limited = b
    BY <2>1
  <2> QED
    BY <2>2, Zenon DEF A, b
<1>8. \A o \in c : o \in Found(set, text) /\ InReach(o, r, prefix)
  BY <1>3, <1>4, <1>5
<1>9. \A group \in {g1, g2} : \A o \in Found(group, text) :
        InReach(o, r, prefix) /\ Isolated(o, Data(r.s), group) => o \in c
  BY <1>4, <1>5
<1> HIDE DEF c
<1> QED
  BY <1>6, <1>7, <1>8, <1>9 DEF g1, g2

-----------------------------------------------------------------------------
(* A record that is a text of its own, behind a prefix that may be of      *)
(* another text.                                                           *)

RecordTyped(r) == r.s \in Streams /\ r.offset \in Nat /\ IsSequence(r.data) /\ Len(r.data) \in Nat
(* A hit within the record, and one across its start.                      *)
InBody(o, r) ==
    /\ o.start \in Int /\ o.end \in Int
    /\ r.offset <= o.start /\ o.end <= r.offset + Len(r.data)
    /\ SubSeq(r.data, o.start - r.offset + 1, o.end - r.offset) = Word(o.p)
Crosses(o, r) ==
    /\ o.start \in Int /\ o.end \in Int
    /\ o.start < r.offset /\ r.offset < o.end /\ o.end <= r.offset + Len(r.data)

(* The ends of a sequence.                                                 *)
LEMMA EndsOfSequence ==
    ASSUME NEW q, IsSequence(q), NEW n \in Nat
    PROVE  /\ IsSequence(LastN(q, n)) /\ Len(LastN(q, n)) \in Nat
           /\ IsSequence(FirstN(q, n)) /\ Len(FirstN(q, n)) \in Nat /\ Len(FirstN(q, n)) <= Len(q)
<1> DEFINE L == Len(q)
           a == IF L > n THEN L - n ELSE 0
           b == IF L > n THEN n ELSE L
<1>1. L \in Nat
  BY SequenceIsNumbered
<1>2. LastN(q, n) = SubSeq(q, (IF L > n THEN L - n + 1 ELSE 1), L) /\ FirstN(q, n) = SubSeq(q, 1, b)
  BY DEF LastN, FirstN
<1> HIDE DEF L
<1>3. a \in Nat /\ b \in Nat /\ a <= L /\ b <= L /\ 0 <= b /\ a + 1 = (IF L > n THEN L - n + 1 ELSE 1) /\ 0 + 1 = 1
  BY <1>1
<1> HIDE DEF a, b
<1>4. IsSequence(SubSeq(q, a + 1, L)) /\ Len(SubSeq(q, a + 1, L)) = L - a
  BY <1>1, <1>3, PartOfSequence DEF L
<1>5. IsSequence(SubSeq(q, 0 + 1, b)) /\ Len(SubSeq(q, 0 + 1, b)) = b - 0
  BY <1>1, <1>3, PartOfSequence DEF L
<1>6. L - a \in Nat /\ b - 0 = b
  BY <1>1, <1>3
<1> QED
  BY <1>2, <1>3, <1>4, <1>5, <1>6 DEF L

(* The second of two sequences is the end of both together.                *)
LEMMA EndOfConcat ==
    ASSUME NEW q, IsSequence(q), NEW s, IsSequence(s)
    PROVE  SubSeq(q \o s, Len(q) + 1, Len(q) + Len(s)) = s
<1> DEFINE t == q \o s
           l == Len(q)
           n == Len(s)
           e == SubSeq(t, l + 1, l + n)
<1>1. /\ IsSequence(t) /\ l \in Nat /\ n \in Nat /\ Len(t) = l + n /\ DOMAIN s = 1 .. n
      /\ \A i \in 1 .. l + n : t[i] = IF i <= l THEN q[i] ELSE s[i - l]
  BY ConcatOfSequences
<1>2. s = [i \in 1 .. n |-> s[i]]
  BY SequenceIsNumbered
<1> HIDE DEF t, l, n
<1>3. l + n \in Nat /\ l <= l + n /\ (l + n) - l = n
  BY <1>1
<1>4. e = [i \in 1 .. (l + n) - l |-> t[l + i]]
  BY <1>1, <1>3, PartOfSequence
<1>5. \A i \in 1 .. n : t[l + i] = s[i]
  <2> SUFFICES ASSUME NEW i \in 1 .. n PROVE t[l + i] = s[i]
    OBVIOUS
  <2>1. l + i \in 1 .. l + n /\ ~(l + i <= l) /\ (l + i) - l = i
    BY <1>1
  <2> QED
    BY <1>1, <2>1
<1> QED
  BY <1>2, <1>3, <1>4, <1>5 DEF t, l, n

(* What the iterator reports, at another place.                            *)
LEMMA ShiftedIs ==
    ASSUME NEW group, Compiled(group), NEW text, IsSequence(text), NEW base \in Int
    PROVE  \A o \in Shifted(find_iter(group, text), base) :
              \E q \in Found(group, text) :
                 o.p = q.p /\ o.start = base + q.start /\ o.end = base + q.end
<1> SUFFICES ASSUME NEW q \in find_iter(group, text)
             PROVE  /\ q \in Found(group, text)
                    /\ Moved(q, base).p = q.p /\ Moved(q, base).start = base + q.start
                    /\ Moved(q, base).end = base + q.end
  BY DEF Shifted
<1>1. q \in Found(group, text)
  BY FindIsFound
<1> QED
  BY <1>1 DEF Moved

(* The bridge over the start of such a record.                             *)
LEMMA BodyBridge ==
    ASSUME NEW group, Compiled(group), IsFiniteSet(group), \A p \in group : ExprOf(p).kind = "literal",
           NEW r, RecordTyped(r), NEW prefix, IsSequence(prefix), NEW o \in Bridge(group, r, prefix)
    PROVE  o.p \in group /\ Crosses(o, r) /\ prefix # <<>>
<1> DEFINE keep == max_literal_len(group) - 1
           left == LastN(prefix, keep)
           right == FirstN(r.data, keep)
<1>1. keep \in Int
  <2>1. OfKind(group, "literal") = group
    BY DEF OfKind
  <2> QED
    BY <2>1, LongestLiteral
<1>2. Bridge(group, r, prefix) = IF prefix = <<>> \/ keep <= 0 THEN {}
        ELSE {x \in Shifted(find_iter(group, left \o right), r.offset - Len(left)) :
                 x.start < r.offset /\ x.end > r.offset}
  BY DEF Bridge
<1> HIDE DEF keep
<1>3. ~(prefix = <<>> \/ keep <= 0)
  BY <1>2
<1>4. /\ keep \in Nat /\ o \in Shifted(find_iter(group, left \o right), r.offset - Len(left))
      /\ o.start < r.offset /\ o.end > r.offset
  BY <1>1, <1>2, <1>3
<1>5. IsSequence(left) /\ Len(left) \in Nat /\ IsSequence(right) /\ Len(right) \in Nat /\ Len(right) <= Len(r.data)
  BY <1>4, EndsOfSequence DEF RecordTyped
<1> HIDE DEF left, right
<1>6. IsSequence(left \o right) /\ Len(left \o right) = Len(left) + Len(right)
  BY <1>5, ConcatOfSequences
<1>7. r.offset \in Nat /\ Len(r.data) \in Nat /\ r.offset - Len(left) \in Int
  BY <1>5 DEF RecordTyped
<1>8. PICK q \in Found(group, left \o right) :
         o.p = q.p /\ o.start = (r.offset - Len(left)) + q.start /\ o.end = (r.offset - Len(left)) + q.end
  BY <1>4, <1>6, <1>7, ShiftedIs
<1>9. q.p \in group /\ q.start \in Nat /\ q.end \in Nat /\ q.end <= Len(left) + Len(right)
  BY <1>6, FoundIs
<1>10. /\ o.start \in Int /\ o.end \in Int /\ o.start < r.offset /\ r.offset < o.end
       /\ o.end <= r.offset + Len(r.data)
  BY <1>4, <1>5, <1>7, <1>8, <1>9
<1> QED
  BY <1>3, <1>8, <1>9, <1>10 DEF Crosses

(* An occurrence in the record, seen from the start of a window.           *)
LEMMA InRecord ==
    ASSUME NEW group, Compiled(group), NEW r, RecordTyped(r), NEW q \in Found(group, r.data),
           NEW o, o.p = q.p, o.start = r.offset + q.start, o.end = r.offset + q.end
    PROVE  o.p \in group /\ InBody(o, r)
<1>1. /\ q.p \in group /\ q.start \in Nat /\ q.end \in Nat /\ q.end <= Len(r.data)
      /\ SubSeq(r.data, q.start + 1, q.end) = Word(q.p)
  BY FoundIs DEF RecordTyped
<1>2. r.offset \in Nat /\ Len(r.data) \in Nat
  BY DEF RecordTyped
<1>3. o.start - r.offset + 1 = q.start + 1 /\ o.end - r.offset = q.end
  BY <1>1, <1>2
<1> QED
  BY <1>1, <1>2, <1>3 DEF InBody

(* A regular expression over such a record.                                *)
LEMMA BodyRegex ==
    ASSUME NEW p, Compiled({p}), NEW r, RecordTyped(r), NEW prefix, IsSequence(prefix),
           NEW o \in RegexHits(p, r, prefix)
    PROVE  o.p = p /\ (InBody(o, r) \/ (prefix # <<>> /\ Crosses(o, r)))
<1> DEFINE m == r.offset
           l == Len(prefix)
           n == Len(r.data)
           text == prefix \o r.data
<1>1. /\ IsSequence(text) /\ l \in Nat /\ n \in Nat /\ Len(text) = l + n /\ m \in Nat
      /\ SubSeq(text, l + 1, l + n) = r.data /\ (prefix = <<>> => l = 0)
  BY ConcatOfSequences, EndOfConcat, EmptySequence DEF RecordTyped
<1>2. o \in Shifted(find_iter({p}, text), m - l) /\ (o.end > m \/ prefix = <<>>)
  BY DEF RegexHits
<1> HIDE DEF text, m, l, n
<1>3. PICK q \in Found({p}, text) : o.p = q.p /\ o.start = (m - l) + q.start /\ o.end = (m - l) + q.end
  BY <1>1, <1>2, ShiftedIs
<1>4. q.p = p /\ q.start \in Nat /\ q.end \in Nat /\ q.start < q.end /\ q.end <= l + n
  BY <1>1, FoundIs
<1>5. CASE l <= q.start
  <2>1. l <= l + n /\ l + n \in Nat /\ l + n <= Len(text)
    BY <1>1
  <2>2. PICK x \in Found({p}, SubSeq(text, l + 1, l + n)) : Moved(x, l) = q
    BY <1>1, <1>4, <1>5, <2>1, FoundWithin
  <2>3. x \in Found({p}, r.data) /\ q.start = l + x.start /\ q.end = l + x.end /\ q.p = x.p
    BY <1>1, <2>2 DEF Moved
  <2>4. x.start \in Nat /\ x.end \in Nat
    BY <2>3, FoundIs DEF RecordTyped
  <2>5. o.p = x.p /\ o.start = m + x.start /\ o.end = m + x.end
    BY <1>1, <1>3, <2>3, <2>4
  <2>6. InBody(o, r)
    BY <2>3, <2>5, InRecord DEF m
  <2> QED
    BY <1>3, <1>4, <2>6
<1>6. CASE q.start < l
  <2>1. prefix # <<>> /\ o.end > m
    BY <1>1, <1>2, <1>4, <1>6
  <2>2. /\ o.start \in Int /\ o.end \in Int /\ o.start < m /\ m < o.end /\ o.end <= m + n
    BY <1>1, <1>3, <1>4, <1>6, <2>1
  <2> QED
    BY <1>3, <1>4, <2>1, <2>2 DEF Crosses, m, n
<1> QED
  BY <1>1, <1>4, <1>5, <1>6

(* A group of rules over such a record: hits within it or, behind a        *)
(* prefix, across its start; an isolated occurrence in it is one of them,  *)
(* of literals always, of regular expressions if nothing stands before it; *)
(* and no hit comes up twice.                                              *)
LEMMA BodyScan ==
    ASSUME NEW group, Compiled(group), IsFiniteSet(group), NEW r, RecordTyped(r),
           NEW prefix, IsSequence(prefix)
    PROVE  /\ \A o \in scan_into(group, r, prefix) :
                 o.p \in group /\ (InBody(o, r) \/ (prefix # <<>> /\ Crosses(o, r)))
           /\ \A o \in Found(group, r.data) :
                 Isolated(o, r.data, group) /\ (ExprOf(o.p).kind = "literal" \/ prefix = <<>>)
                    => Moved(o, r.offset) \in scan_into(group, r, prefix)
           /\ ~Doubled(group, r, prefix)
<1> DEFINE lits == OfKind(group, "literal")
           regs == OfKind(group, "regex")
           within == Shifted(find_iter(lits, r.data), r.offset)
<1>0. IsSequence(r.data) /\ r.offset \in Nat /\ Len(r.data) \in Nat
  BY DEF RecordTyped
<1>1. lits \subseteq group /\ regs \subseteq group /\ IsFiniteSet(lits)
      /\ (\A p \in lits : ExprOf(p).kind = "literal") /\ (\A p \in regs : ExprOf(p).kind = "regex")
  BY FS_Subset DEF OfKind
<1>k. \A p \in group : p \in lits \/ p \in regs
  BY DEF OfKind, Compiled, IsExpr
<1>2. scan_into(group, r, prefix)
        = Bridge(lits, r, prefix) \cup within \cup UNION {RegexHits(p, r, prefix) : p \in regs}
  BY DEF scan_into
<1>d. Doubled(group, r, prefix) <=> Bridge(lits, r, prefix) \cap within # {}
  BY DEF Doubled
<1>w. within = {Moved(q, r.offset) : q \in find_iter(lits, r.data)}
  BY DEF Shifted
<1> HIDE DEF lits, regs
<1>3. Compiled(lits) /\ \A p \in regs : Compiled({p})
  BY <1>1 DEF Compiled
<1>4. \A o \in Bridge(lits, r, prefix) : o.p \in lits /\ Crosses(o, r) /\ prefix # <<>>
  BY <1>1, <1>3, BodyBridge
<1>5. \A o \in within : o.p \in lits /\ InBody(o, r)
  <2> SUFFICES ASSUME NEW o \in within PROVE o.p \in lits /\ InBody(o, r)
    OBVIOUS
  <2>1. r.offset \in Int
    BY <1>0
  <2>2. PICK q \in Found(lits, r.data) : o.p = q.p /\ o.start = r.offset + q.start /\ o.end = r.offset + q.end
    BY <1>0, <1>3, <2>1, ShiftedIs
  <2> HIDE DEF within
  <2> QED
    BY <1>3, <2>2, InRecord
<1>6. \A p \in regs : \A o \in RegexHits(p, r, prefix) :
         o.p = p /\ (InBody(o, r) \/ (prefix # <<>> /\ Crosses(o, r)))
  BY <1>3, BodyRegex
<1>7. ~Doubled(group, r, prefix)
  <2>1. ASSUME NEW o \in Bridge(lits, r, prefix), o \in within PROVE FALSE
    <3>1. o.start \in Int /\ o.start < r.offset /\ r.offset <= o.start
      BY <1>4, <1>5, <2>1 DEF Crosses, InBody
    <3> QED
      BY <1>0, <3>1
  <2> QED
    BY <1>d, <2>1
<1>8. ASSUME NEW o \in scan_into(group, r, prefix)
      PROVE  o.p \in group /\ (InBody(o, r) \/ (prefix # <<>> /\ Crosses(o, r)))
  <2>1. CASE o \in Bridge(lits, r, prefix)
    BY <1>1, <1>4, <2>1
  <2>2. CASE o \in within
    BY <1>1, <1>5, <2>2
  <2>3. CASE \E p \in regs : o \in RegexHits(p, r, prefix)
    BY <1>1, <1>6, <2>3
  <2> HIDE DEF within
  <2> QED
    BY <1>2, <2>1, <2>2, <2>3
<1>9. ASSUME NEW o \in Found(group, r.data), Isolated(o, r.data, group),
             ExprOf(o.p).kind = "literal" \/ prefix = <<>>
      PROVE  Moved(o, r.offset) \in scan_into(group, r, prefix)
  <2>0. o.p \in group
    BY <1>0, FoundIs
  <2>1. CASE o.p \in lits
    <3>1. \A q \in Found(lits, r.data) : q = o \/ q.end <= o.start \/ q.start >= o.end
      BY <1>1, <1>9, <2>1 DEF Isolated, lits
    <3>2. o \in Found(lits, r.data)
      BY <1>0, <1>1, <2>1, FoundOfSome
    <3>3. o \in find_iter(lits, r.data)
      BY <1>0, <1>3, <3>1, <3>2, IsolatedIsFound
    <3> HIDE DEF within
    <3> QED
      BY <1>2, <1>w, <3>3
  <2>2. CASE o.p \in regs
    <3>0. prefix = <<>> /\ ExprOf(o.p).kind = "regex" /\ ExprOf(o.p).kind # "literal"
      BY <1>1, <1>9, <2>2
    <3>1. \A q \in Found({o.p}, r.data) : q = o \/ q.end <= o.start \/ q.start >= o.end
      BY <1>9, <3>0 DEF Isolated
    <3>2. o \in Found({o.p}, r.data)
      <4>1. {o.p} \subseteq group /\ o.p \in {o.p}
        BY <2>0
      <4> QED
        BY <1>0, <4>1, FoundOfSome
    <3>3. o \in find_iter({o.p}, r.data)
      BY <1>0, <1>3, <2>2, <3>1, <3>2, IsolatedIsFound
    <3>4. prefix \o r.data = r.data /\ r.offset - Len(prefix) = r.offset
      <4>1. r.data \in Seq({r.data[i] : i \in DOMAIN r.data})
        BY <1>0 DEF IsSequence
      <4> QED
        BY <1>0, <3>0, <4>1, EmptySequence
    <3>5. Moved(o, r.offset) \in Shifted(find_iter({o.p}, prefix \o r.data), r.offset - Len(prefix))
      BY <3>3, <3>4 DEF Shifted
    <3>6. Moved(o, r.offset) \in RegexHits(o.p, r, prefix)
      BY <3>0, <3>5 DEF RegexHits
    <3> QED
      BY <1>2, <2>2, <3>6
  <2> QED
    BY <1>k, <2>0, <2>1, <2>2
<1> QED
  BY <1>7, <1>8, <1>9

(* A set of rules over such a record.                                      *)
LEMMA SetBody ==
    ASSUME NEW set, Compiled(set), IsFiniteSet(set), NEW r, RecordTyped(r),
           NEW prefix, IsSequence(prefix)
    PROVE  /\ \A o \in scan_bounded(set, r, prefix).hits :
                 o.p \in set /\ (InBody(o, r) \/ (prefix # <<>> /\ Crosses(o, r)))
           /\ ~scan_bounded(set, r, prefix).limited =>
                 \A group \in {GlobalGroup(set, r), ServiceGroup(set, r)} :
                    \A o \in Found(group, r.data) :
                       Isolated(o, r.data, group) /\ (ExprOf(o.p).kind = "literal" \/ prefix = <<>>)
                          => Moved(o, r.offset) \in scan_bounded(set, r, prefix).hits
           /\ scan_bounded(set, r, prefix).twice = FALSE
<1> DEFINE g1 == GlobalGroup(set, r)
           g2 == ServiceGroup(set, r)
           s1 == scan_into(g1, r, prefix)
           s2 == scan_into(g2, r, prefix)
           c == s1 \cup s2
           A == Admitted(c, r)
           b == (A # c)
           t == (Doubled(g1, r, prefix) \/ Doubled(g2, r, prefix) \/ s1 \cap s2 # {})
<1>1. /\ g1 \subseteq set /\ g2 \subseteq set
      /\ \A p \in g1 : ExprOf(p).service = None
      /\ \A p \in g2 : ExprOf(p).service # None
  BY DEF GlobalGroup, ServiceGroup, Group
<1>2. scan_bounded(set, r, prefix) = [hits |-> A, limited |-> b, twice |-> t]
  BY DEF scan_bounded
<1> HIDE DEF g1, g2
<1>3. Compiled(g1) /\ Compiled(g2) /\ IsFiniteSet(g1) /\ IsFiniteSet(g2)
  BY <1>1, FS_Subset DEF Compiled
<1>4. /\ \A o \in s1 : o.p \in g1 /\ (InBody(o, r) \/ (prefix # <<>> /\ Crosses(o, r)))
      /\ \A o \in Found(g1, r.data) :
            Isolated(o, r.data, g1) /\ (ExprOf(o.p).kind = "literal" \/ prefix = <<>>)
               => Moved(o, r.offset) \in s1
      /\ ~Doubled(g1, r, prefix)
  BY <1>3, BodyScan
<1>5. /\ \A o \in s2 : o.p \in g2 /\ (InBody(o, r) \/ (prefix # <<>> /\ Crosses(o, r)))
      /\ \A o \in Found(g2, r.data) :
            Isolated(o, r.data, g2) /\ (ExprOf(o.p).kind = "literal" \/ prefix = <<>>)
               => Moved(o, r.offset) \in s2
      /\ ~Doubled(g2, r, prefix)
  BY <1>3, BodyScan
<1>6. A \subseteq c
  BY DEF Admitted
<1>7. t = FALSE
  BY <1>1, <1>4, <1>5
<1> HIDE DEF A, b, t, s1, s2
<1>8. scan_bounded(set, r, prefix).hits = A /\ scan_bounded(set, r, prefix).limited = b
      /\ scan_bounded(set, r, prefix).twice = t
  BY <1>2
<1>9. ~scan_bounded(set, r, prefix).limited => A = c
  BY <1>8, Zenon DEF b
<1>10. \A o \in c : o.p \in set /\ (InBody(o, r) \/ (prefix # <<>> /\ Crosses(o, r)))
  BY <1>1, <1>4, <1>5
<1>11. \A group \in {g1, g2} : \A o \in Found(group, r.data) :
         Isolated(o, r.data, group) /\ (ExprOf(o.p).kind = "literal" \/ prefix = <<>>)
            => Moved(o, r.offset) \in c
  BY <1>4, <1>5
<1> HIDE DEF c
<1> QED
  BY <1>6, <1>7, <1>8, <1>9, <1>10, <1>11 DEF g1, g2

-----------------------------------------------------------------------------
(* What a group needs of the stream before a record.                       *)
LEMMA OverlapOfGroup ==
    ASSUME NEW group, Compiled(group), IsFiniteSet(group)
    PROVE  /\ GroupOverlap(group) \in Nat
           /\ \A p \in group : (ExprOf(p).kind = "regex" => Len(Word(p)) - 1 <= OverlapLimit)
                 => Len(Word(p)) - 1 <= GroupOverlap(group)
<1> DEFINE m == max_literal_len(group)
           R == IF OfKind(group, "regex") = {} THEN {} ELSE {OverlapLimit}
           S == {m - 1} \cup R
<1>1. m \in Nat /\ \A p \in OfKind(group, "literal") : Len(Word(p)) <= m
  BY LongestLiteral
<1> HIDE DEF m
<1>2. IsFiniteSet(S) /\ S \subseteq Int
  <2>1. R \subseteq Int /\ IsFiniteSet(R)
    <3>1. OverlapLimit \in Int /\ IsFiniteSet({OverlapLimit})
      <4>1. OverlapLimit \in Nat
        BY MatchingAssumption
      <4>2. IsFiniteSet({OverlapLimit})
        BY FS_Singleton
      <4> QED
        BY <4>1, <4>2
    <3>2. {} \subseteq Int /\ IsFiniteSet({})
      BY FS_EmptySet
    <3> QED
      BY <3>1, <3>2
  <2>2. IsFiniteSet({m - 1}) /\ {m - 1} \subseteq Int
    <3>1. m - 1 \in Int
      BY <1>1
    <3> QED
      BY <3>1, FS_Singleton
  <2> HIDE DEF R
  <2>3. IsFiniteSet({m - 1} \cup R)
    BY <2>1, <2>2, FS_Union
  <2> QED
    BY <2>1, <2>2, <2>3
<1>3. GroupOverlap(group) = Largest(S)
  BY DEF GroupOverlap, m
<1>4. Largest(S) \in Nat /\ \A y \in S : y <= Largest(S)
  BY <1>2, LargestIs
<1>5. ASSUME NEW p \in group, ExprOf(p).kind = "regex" => Len(Word(p)) - 1 <= OverlapLimit
      PROVE  Len(Word(p)) - 1 <= Largest(S)
  <2>0. Len(Word(p)) \in Nat /\ ExprOf(p).kind \in {"literal", "regex"}
    BY WordLength DEF Compiled, IsExpr
  <2> DEFINE L == Largest(S)
  <2>1. CASE ExprOf(p).kind = "literal"
    <3>1. p \in OfKind(group, "literal")
      BY <2>1 DEF OfKind
    <3>2. m - 1 <= L /\ L \in Nat
      BY <1>4
    <3> HIDE DEF L
    <3>3. Len(Word(p)) <= m
      BY <1>1, <3>1
    <3> QED
      BY <1>1, <2>0, <3>2, <3>3 DEF L
  <2>2. CASE ExprOf(p).kind = "regex"
    <3>1. OfKind(group, "regex") # {}
      BY <2>2 DEF OfKind
    <3>2. OverlapLimit <= L /\ L \in Nat
      BY <1>4, <3>1
    <3> HIDE DEF L
    <3> QED
      BY <1>5, <2>0, <2>2, <3>2, MatchingAssumption DEF L
  <2> QED
    BY <2>0, <2>1, <2>2
<1> QED
  BY <1>3, <1>4, <1>5

(* And a set: the tail that is kept is long enough for its words.          *)
LEMMA OverlapOfSet ==
    ASSUME NEW set, Compiled(set), IsFiniteSet(set), NEW r
    PROVE  /\ required_overlap(set, r) \in Nat
           /\ \A group \in {GlobalGroup(set, r), ServiceGroup(set, r)} : \A p \in group :
                (ExprOf(p).kind = "regex" => Len(Word(p)) - 1 <= OverlapLimit)
                   => Len(Word(p)) - 1 <= required_overlap(set, r)
<1> DEFINE g1 == GlobalGroup(set, r)
           g2 == ServiceGroup(set, r)
           S == {GroupOverlap(g1), GroupOverlap(g2)}
<1>1. g1 \subseteq set /\ g2 \subseteq set
  BY DEF GlobalGroup, ServiceGroup, Group
<1>2. required_overlap(set, r) = Largest(S)
  BY DEF required_overlap
<1> HIDE DEF g1, g2
<1>3. Compiled(g1) /\ Compiled(g2) /\ IsFiniteSet(g1) /\ IsFiniteSet(g2)
  BY <1>1, FS_Subset DEF Compiled
<1>4. /\ GroupOverlap(g1) \in Nat /\ GroupOverlap(g2) \in Nat
      /\ \A g \in {g1, g2} : \A p \in g : (ExprOf(p).kind = "regex" => Len(Word(p)) - 1 <= OverlapLimit)
            => Len(Word(p)) - 1 <= GroupOverlap(g)
  BY <1>3, OverlapOfGroup
<1>5. IsFiniteSet(S) /\ S \subseteq Int
  <2>1. S = {GroupOverlap(g1)} \cup {GroupOverlap(g2)}
    OBVIOUS
  <2>2. IsFiniteSet({GroupOverlap(g1)}) /\ IsFiniteSet({GroupOverlap(g2)})
    BY FS_Singleton
  <2>3. IsFiniteSet({GroupOverlap(g1)} \cup {GroupOverlap(g2)})
    BY <2>2, FS_Union
  <2>4. S \subseteq Int
    BY <1>4, <2>1
  <2>5. IsFiniteSet(S)
    BY <2>1, <2>3
  <2> QED
    BY <2>4, <2>5
<1>6. Largest(S) \in Nat /\ \A y \in S : y <= Largest(S)
  BY <1>5, LargestIs
<1>7. ASSUME NEW g \in {g1, g2}, NEW p \in g,
             ExprOf(p).kind = "regex" => Len(Word(p)) - 1 <= OverlapLimit
      PROVE  Len(Word(p)) - 1 <= Largest(S)
  <2> DEFINE L == Largest(S)
             n == Len(Word(p))
             x == GroupOverlap(g)
  <2>1. n \in Nat
    BY <1>3, WordLength
  <2>2. n - 1 <= x /\ x \in Nat
    BY <1>4, <1>7
  <2>3. x <= L /\ L \in Nat
    BY <1>6
  <2> HIDE DEF L, n, x
  <2>4. n - 1 <= L
    BY <2>1, <2>2, <2>3
  <2> QED
    BY <2>4 DEF L, n
<1> QED
  BY <1>2, <1>6, <1>7 DEF g1, g2

-----------------------------------------------------------------------------
(* A record through a scanner.                                             *)

TailTrue(s, t) ==
    /\ Len(t.data) \in Nat
    /\ PartTrue(s, t.data, t.end_offset - Len(t.data), t.end_offset)
    /\ Whole(s, t.end_offset - Len(t.data), t.end_offset)
(* The tail of a decoded stream: if there is one, some body ends with it.  *)
TailBody(s, t) ==
    /\ IsSequence(t.data)
    /\ t.data # <<>> => \E j \in DOMAIN accepted :
          accepted[j].s = s /\ accepted[j].offset + Len(accepted[j].data) = t.end_offset
TailsTrue(ts) ==
    /\ DOMAIN ts \subseteq Streams
    /\ \A s \in DOMAIN ts : IF Verbatim(s) THEN TailTrue(s, ts[s]) ELSE TailBody(s, ts[s])

(* Bytes that were accepted on both sides of a place were accepted.        *)
LEMMA WholeParts ==
    ASSUME NEW s, NEW a \in Int, NEW b \in Int, NEW c \in Int, NEW d \in Int, NEW e \in Int,
           Whole(s, a, b), Whole(s, b, c), a <= d, e <= c
    PROVE  Whole(s, d, e)
<1> SUFFICES ASSUME NEW x \in d .. e - 1 PROVE Holding(s, x, x + 1) # {}
  BY DEF Whole
<1>1. x \in a .. b - 1 \/ x \in b .. c - 1
  OBVIOUS
<1> QED
  BY <1>1 DEF Whole

(* The bytes of an accepted record were accepted.                          *)
LEMMA WholeRecord ==
    ASSUME NEW k \in DOMAIN accepted, RecordTrue(accepted[k])
    PROVE  Whole(accepted[k].s, accepted[k].offset, accepted[k].offset + Len(accepted[k].data))
<1> DEFINE m == accepted[k].offset
           n == Len(accepted[k].data)
<1>1. m \in Nat /\ n \in Nat
  BY DEF RecordTrue
<1>2. ASSUME NEW x \in m .. (m + n) - 1 PROVE k \in Holding(accepted[k].s, x, x + 1)
  <2>1. m < x + 1 /\ m + n > x
    BY <1>1
  <2> QED
    BY <2>1 DEF Holding
<1> QED
  BY <1>2 DEF Whole

(* No bytes.                                                               *)
LEMMA WholeNothing ==
    ASSUME NEW s, NEW a \in Int
    PROVE  Whole(s, a, a)
<1>1. a .. a - 1 = {}
  OBVIOUS
<1> QED
  BY <1>1 DEF Whole

(* The tail of a stream, when it fits a record, is the stream before it.   *)
LEMMA PrefixIsTrue ==
    ASSUME NEW ts, TailsTrue(ts), NEW r, RecordTrue(r), NEW g
    PROVE  LET prefix == prefix_for(TailOf(ts, r.s), r, g) IN
           /\ PrefixTrue(r, prefix) /\ IsSequence(prefix)
           /\ Whole(r.s, r.offset - Len(prefix), r.offset)
           /\ r.s \in DOMAIN ts /\ ts[r.s].generation = g /\ ts[r.s].end_offset = r.offset
                 => prefix = ts[r.s].data
<1> DEFINE prefix == prefix_for(TailOf(ts, r.s), r, g)
<1>0. /\ r.offset \in Nat /\ r.s \in Streams /\ Verbatim(r.s)
      /\ r.offset <= Len(Data(r.s)) /\ IsSequence(Data(r.s))
  <2>1. /\ r.offset \in Nat /\ r.s \in Streams /\ Verbatim(r.s) /\ Len(r.data) \in Nat
        /\ r.offset + Len(r.data) <= Len(Data(r.s))
    BY DEF RecordTrue, PartTrue
  <2>2. IsSequence(Data(r.s)) /\ Len(Data(r.s)) \in Nat
    BY RecordText
  <2> QED
    BY <2>1, <2>2
<1>1. CASE r.s \in DOMAIN ts /\ ts[r.s].generation = g /\ ts[r.s].end_offset = r.offset
  <2>1. prefix = ts[r.s].data
    BY <1>1 DEF prefix_for, TailOf
  <2>2. TailTrue(r.s, ts[r.s])
    BY <1>0, <1>1 DEF TailsTrue
  <2> HIDE DEF prefix
  <2>3. PrefixTrue(r, prefix) /\ Whole(r.s, r.offset - Len(prefix), r.offset)
    BY <1>1, <2>1, <2>2 DEF TailTrue, PrefixTrue
  <2>4. IsSequence(prefix)
    <3> DEFINE a == r.offset - Len(prefix)
               b == r.offset
               text == Data(r.s)
    <3>1. a \in Nat /\ b \in Nat /\ a <= b /\ b <= Len(text) /\ IsSequence(text) /\ prefix = SubSeq(text, a + 1, b)
      BY <1>0, <2>3 DEF PrefixTrue, PartTrue
    <3> HIDE DEF a, b, text
    <3> QED
      BY <3>1, PartOfSequence
  <2> QED
    BY <2>1, <2>3, <2>4 DEF prefix
<1>2. CASE ~(r.s \in DOMAIN ts /\ ts[r.s].generation = g /\ ts[r.s].end_offset = r.offset)
  <2>1. prefix = <<>>
    BY <1>2 DEF prefix_for, TailOf, NoTail
  <2>2. Len(<<>>) = 0 /\ r.offset - 0 = r.offset
    BY <1>0, EmptySequence
  <2>3. SubSeq(Data(r.s), r.offset + 1, r.offset) = <<>>
    <3> DEFINE m == r.offset
               q == SubSeq(Data(r.s), m + 1, m)
    <3>1. m \in Nat /\ m <= m /\ m <= Len(Data(r.s)) /\ IsSequence(Data(r.s))
      BY <1>0
    <3> HIDE DEF m
    <3>2. IsSequence(q) /\ Len(q) = m - m
      BY <3>1, PartOfSequence
    <3> HIDE DEF q
    <3>3. q = <<>>
      BY <3>1, <3>2, TailOfSequence
    <3> QED
      BY <3>3 DEF q, m
  <2>4. PrefixTrue(r, <<>>)
    BY <1>0, <2>2, <2>3 DEF PrefixTrue, PartTrue
  <2>5. Whole(r.s, r.offset - Len(<<>>), r.offset)
    BY <1>0, <2>2, WholeNothing
  <2> HIDE DEF prefix
  <2> QED
    BY <1>2, <2>1, <2>4, <2>5, EmptySequence DEF prefix
<1> QED
  BY <1>1, <1>2

(* The tail behind a record.                                               *)
LEMMA NextTailTrue ==
    ASSUME NEW k \in DOMAIN accepted, NEW r, r = accepted[k], RecordTrue(r),
           NEW prefix, PrefixTrue(r, prefix), Whole(r.s, r.offset - Len(prefix), r.offset),
           NEW keep \in Nat, NEW g
    PROVE  LET t == [data |-> build_tail(prefix, r.data, keep),
                     end_offset |-> r.offset + Len(r.data), generation |-> g] IN
           /\ TailTrue(r.s, t)
           /\ Len(t.data) = IF Len(prefix) + Len(r.data) > keep THEN keep ELSE Len(prefix) + Len(r.data)
<1> DEFINE text == Data(r.s)
           m == r.offset
           l == Len(prefix)
           n == Len(r.data)
           x == m - l
           y == m + n
           d == build_tail(prefix, r.data, keep)
           a == IF y - x > keep THEN y - keep ELSE x
<1>1. /\ r.s \in Streams /\ Verbatim(r.s) /\ m \in Nat /\ l \in Nat /\ n \in Nat
      /\ x \in Nat /\ y \in Nat /\ y <= Len(text)
      /\ prefix = SubSeq(text, x + 1, m)
      /\ r.data = SubSeq(text, m + 1, y)
  BY DEF RecordTrue, PrefixTrue, PartTrue
<1>2. IsSequence(text) /\ Len(text) \in Nat
  BY RecordText
<1>3. x <= m /\ m <= y /\ x <= y /\ y - x = l + n
  <2>1. m \in Nat /\ l \in Nat /\ n \in Nat
    BY <1>1
  <2> HIDE DEF m, l, n
  <2> QED
    BY <2>1
<1>w. Whole(r.s, x, m) /\ Whole(r.s, m, y)
  BY WholeRecord
<1>d. d = LastN(prefix \o r.data, keep)
  BY DEF build_tail
<1>g. TailTrue(r.s, [data |-> d, end_offset |-> y, generation |-> g])
        <=> /\ Len(d) \in Nat /\ PartTrue(r.s, d, y - Len(d), y) /\ Whole(r.s, y - Len(d), y)
  <2> DEFINE t == [data |-> d, end_offset |-> y, generation |-> g]
  <2>1. t.data = d /\ t.end_offset = y
    OBVIOUS
  <2> HIDE DEF t, d, y
  <2> QED
    BY <2>1 DEF TailTrue, t
<1> HIDE DEF text, m, l, n, x, y, d
<1>4. prefix \o r.data = SubSeq(text, x + 1, y)
  <2>1. x \in Nat /\ m \in Nat /\ y \in Nat /\ x <= m /\ m <= y /\ y <= Len(text) /\ IsSequence(text)
    BY <1>1, <1>2, <1>3
  <2>2. SubSeq(text, x + 1, m) \o SubSeq(text, m + 1, y) = SubSeq(text, x + 1, y)
    BY <2>1, PartsJoin
  <2> QED
    BY <1>1, <2>2, Zenon
<1>5. d = SubSeq(text, a + 1, y)
  <2>1. x \in Nat /\ y \in Nat /\ x <= y /\ y <= Len(text) /\ IsSequence(text)
    BY <1>1, <1>2, <1>3
  <2>2. LastN(SubSeq(text, x + 1, y), keep) = SubSeq(text, a + 1, y)
    BY <2>1, EndsOfPart
  <2> HIDE DEF a
  <2> QED
    BY <1>4, <1>d, <2>2, Zenon
<1>6. a \in Nat /\ x <= a /\ a <= y /\ y - a = IF l + n > keep THEN keep ELSE l + n
  BY <1>1, <1>3
<1> HIDE DEF a
<1>7. Len(d) = y - a
  BY <1>1, <1>2, <1>5, <1>6, PartOfSequence
<1>8. y - Len(d) = a /\ Len(d) \in Nat
  BY <1>1, <1>6, <1>7
<1>9. PartTrue(r.s, d, y - Len(d), y)
  BY <1>1, <1>5, <1>6, <1>7, <1>8 DEF PartTrue, text
<1>10. Whole(r.s, y - Len(d), y)
  BY <1>1, <1>6, <1>8, <1>w, WholeParts
<1>11. TailTrue(r.s, [data |-> d, end_offset |-> y, generation |-> g])
  BY <1>8, <1>9, <1>10, <1>g
<1> QED
  BY <1>6, <1>7, <1>11 DEF d, y, m, l, n

-----------------------------------------------------------------------------
(* What a scanner puts before a record.                                    *)
PrefixOf(ts, r, g) == prefix_for(TailOf(ts, r.s), r, g)

(* A record through a scanner: its stream has the next tail or none, the   *)
(* other streams keep theirs, and its hits are those of the two groups.    *)
NextTail(prefix, r, keep, g) ==
    [data |-> build_tail(prefix, r.data, keep),
     end_offset |-> r.offset + Len(r.data), generation |-> g]
Leaves(scan, set, ts, r, next, keep, both) ==
    /\ DOMAIN scan.tails \subseteq DOMAIN ts \cup {r.s}
    /\ \A s \in DOMAIN ts \ {r.s} : s \in DOMAIN scan.tails /\ scan.tails[s] = ts[s]
    /\ r.s \in DOMAIN scan.tails => scan.tails[r.s] = next
    /\ is_interested(set, r) /\ keep > 0 => r.s \in DOMAIN scan.tails
    /\ \A o \in scan.hits : o \in both.hits
    /\ is_interested(set, r) => scan.hits = both.hits /\ scan.limited = both.limited
    /\ scan.twice = FALSE \/ scan.twice = both.twice

(* That is what scanning a record leaves.                                  *)
LEMMA ScanShape ==
    ASSUME NEW set, NEW ts, NEW r, NEW g, NEW prefix, prefix = PrefixOf(ts, r, g),
           NEW keep \in Nat, keep = required_overlap(set, r)
    PROVE  Leaves(ScanRecord(set, ts, r, g), set, ts, r, NextTail(prefix, r, keep, g), keep,
                  scan_bounded(set, r, prefix))
<1> DEFINE scan == ScanRecord(set, ts, r, g)
           next == NextTail(prefix, r, keep, g)
           both == scan_bounded(set, r, prefix)
           put == [s \in DOMAIN ts \cup {r.s} |-> IF s = r.s THEN next ELSE ts[s]]
           gone == Without(ts, {r.s})
<1>3. scan = IF ~is_interested(set, r)
             THEN [tails |-> gone, hits |-> {}, limited |-> FALSE, twice |-> FALSE]
             ELSE [tails |-> IF keep = 0 THEN gone ELSE put,
                   hits |-> both.hits, limited |-> both.limited, twice |-> both.twice]
  BY DEF ScanRecord, PrefixOf, NextTail
<1>6. DOMAIN put = DOMAIN ts \cup {r.s} /\ put[r.s] = next /\ \A s \in DOMAIN ts \ {r.s} : put[s] = ts[s]
  OBVIOUS
<1>7. DOMAIN gone = DOMAIN ts \ {r.s} /\ \A s \in DOMAIN ts \ {r.s} : gone[s] = ts[s]
  BY DEF Without
<1> HIDE DEF scan, next, both, put, gone
<1>9. /\ scan.tails = put \/ scan.tails = gone
      /\ is_interested(set, r) /\ keep > 0 => scan.tails = put
  BY <1>3
<1>10. /\ \A o \in scan.hits : o \in both.hits
       /\ is_interested(set, r) => scan.hits = both.hits /\ scan.limited = both.limited
       /\ scan.twice = FALSE \/ scan.twice = both.twice
  <2>1. CASE is_interested(set, r)
    <3>1. scan = [tails |-> IF keep = 0 THEN gone ELSE put,
                  hits |-> both.hits, limited |-> both.limited, twice |-> both.twice]
      BY <1>3, <2>1
    <3> QED
      BY <3>1
  <2>2. CASE ~is_interested(set, r)
    <3>1. scan = [tails |-> gone, hits |-> {}, limited |-> FALSE, twice |-> FALSE]
      BY <1>3, <2>2
    <3>2. scan.hits = {} /\ scan.twice = FALSE
      BY <3>1
    <3> QED
      BY <2>2, <3>2, Zenon
  <2> QED
    BY <2>1, <2>2
<1> QED
  BY <1>6, <1>7, <1>9, <1>10 DEF Leaves, scan, next, both

(* A record through a scanner: the tails it leaves are true, those of the  *)
(* other streams stay, and its hits are occurrences in reach.              *)
LEMMA ScanRecordIs ==
    ASSUME NEW set, Compiled(set), IsFiniteSet(set), NEW ts, TailsTrue(ts),
           NEW k \in DOMAIN accepted, NEW r, r = accepted[k], RecordTrue(r), NEW g,
           NEW scan, scan = ScanRecord(set, ts, r, g),
           NEW prefix, prefix = PrefixOf(ts, r, g),
           NEW keep, keep = required_overlap(set, r)
    PROVE  /\ TailsTrue(scan.tails)
           /\ DOMAIN scan.tails \subseteq DOMAIN ts \cup {r.s}
           /\ \A s \in DOMAIN ts \ {r.s} : s \in DOMAIN scan.tails /\ scan.tails[s] = ts[s]
           /\ is_interested(set, r) /\ keep > 0 =>
                /\ r.s \in DOMAIN scan.tails /\ scan.tails[r.s].generation = g
                /\ scan.tails[r.s].end_offset = r.offset + Len(r.data)
                /\ Len(scan.tails[r.s].data)
                     = IF Len(prefix) + Len(r.data) > keep THEN keep ELSE Len(prefix) + Len(r.data)
           /\ \A o \in scan.hits : /\ o \in Found(set, Data(r.s)) /\ InReach(o, r, prefix)
                                   /\ Whole(r.s, o.start, o.end)
           /\ is_interested(set, r) /\ ~scan.limited =>
                \A group \in {GlobalGroup(set, r), ServiceGroup(set, r)} :
                   \A o \in Found(group, Data(r.s)) :
                      InReach(o, r, prefix) /\ Isolated(o, Data(r.s), group) => o \in scan.hits
           /\ ~scan.twice
<1> DEFINE next == NextTail(prefix, r, keep, g)
           both == scan_bounded(set, r, prefix)
<1>0. r.s \in Streams /\ r.offset \in Nat /\ Len(r.data) \in Nat /\ Verbatim(r.s) /\ RecordTyped(r)
  BY RecordText DEF RecordTyped
<1>1. PrefixTrue(r, prefix) /\ Whole(r.s, r.offset - Len(prefix), r.offset) /\ IsSequence(prefix)
  BY PrefixIsTrue DEF PrefixOf
<1>2. keep \in Nat
  BY OverlapOfSet
<1>s. Leaves(scan, set, ts, r, next, keep, both)
  BY <1>2, ScanShape
<1> HIDE DEF next, both
<1>3. /\ DOMAIN scan.tails \subseteq DOMAIN ts \cup {r.s}
      /\ \A s \in DOMAIN ts \ {r.s} : s \in DOMAIN scan.tails /\ scan.tails[s] = ts[s]
      /\ r.s \in DOMAIN scan.tails => scan.tails[r.s] = next
      /\ is_interested(set, r) /\ keep > 0 => r.s \in DOMAIN scan.tails
      /\ \A o \in scan.hits : o \in both.hits
      /\ is_interested(set, r) => scan.hits = both.hits /\ scan.limited = both.limited
      /\ scan.twice = FALSE \/ scan.twice = both.twice
  BY <1>s DEF Leaves
<1> USE DEF next, both
<1>4. /\ TailTrue(r.s, next)
      /\ Len(next.data) = IF Len(prefix) + Len(r.data) > keep THEN keep ELSE Len(prefix) + Len(r.data)
  BY <1>1, <1>2, NextTailTrue DEF NextTail
<1>5. next.generation = g /\ next.end_offset = r.offset + Len(r.data)
  BY DEF NextTail
<1>6. both.twice = FALSE
  BY <1>0, <1>1, SetBody
<1> HIDE DEF next, both
<1>8. TailsTrue(scan.tails)
  <2>1. ASSUME NEW s \in DOMAIN scan.tails
        PROVE  s \in Streams /\ IF Verbatim(s) THEN TailTrue(s, scan.tails[s]) ELSE TailBody(s, scan.tails[s])
    <3>1. CASE s = r.s
      BY <1>0, <1>3, <1>4, <3>1
    <3>2. CASE s # r.s
      <4>1. s \in DOMAIN ts /\ scan.tails[s] = ts[s]
        BY <1>3, <3>2
      <4> QED
        BY <4>1 DEF TailsTrue
    <3> QED
      BY <3>1, <3>2
  <2> QED
    BY <2>1 DEF TailsTrue
<1>10. /\ \A o \in scan.hits : o \in both.hits
       /\ is_interested(set, r) => scan.hits = both.hits /\ scan.limited = both.limited
  BY <1>3
<1>11. /\ \A o \in both.hits : o \in Found(set, Data(r.s)) /\ InReach(o, r, prefix)
       /\ ~both.limited =>
             \A group \in {GlobalGroup(set, r), ServiceGroup(set, r)} :
                \A o \in Found(group, Data(r.s)) :
                   InReach(o, r, prefix) /\ Isolated(o, Data(r.s), group) => o \in both.hits
  BY <1>1, SetScan DEF both
<1>12. ASSUME NEW o \in scan.hits PROVE Whole(r.s, o.start, o.end)
  <2> DEFINE a == r.offset - Len(prefix)
             b == r.offset
             c == r.offset + Len(r.data)
             d == o.start
             e == o.end
  <2>1. o \in Found(set, Data(r.s)) /\ InReach(o, r, prefix)
    BY <1>10, <1>11
  <2>2. d \in Int /\ e \in Int
    BY <2>1, FoundIs, RecordText
  <2>3. a \in Int /\ b \in Int /\ c \in Int /\ a <= d /\ e <= c
    BY <1>0, <1>1, <2>1 DEF InReach, PrefixTrue, PartTrue
  <2>4. Whole(r.s, a, b) /\ Whole(r.s, b, c)
    BY <1>1, WholeRecord
  <2> HIDE DEF a, b, c, d, e
  <2>5. Whole(r.s, d, e)
    BY <2>2, <2>3, <2>4, WholeParts
  <2> QED
    BY <2>5 DEF d, e
<1>15. is_interested(set, r) /\ keep > 0 =>
                /\ r.s \in DOMAIN scan.tails /\ scan.tails[r.s].generation = g
                /\ scan.tails[r.s].end_offset = r.offset + Len(r.data)
                /\ Len(scan.tails[r.s].data)
                     = IF Len(prefix) + Len(r.data) > keep THEN keep ELSE Len(prefix) + Len(r.data)
  BY <1>3, <1>4, <1>5
<1>16. \A o \in scan.hits : o \in Found(set, Data(r.s)) /\ InReach(o, r, prefix)
  BY <1>10, <1>11
<1>17. is_interested(set, r) /\ ~scan.limited =>
                \A group \in {GlobalGroup(set, r), ServiceGroup(set, r)} :
                   \A o \in Found(group, Data(r.s)) :
                      InReach(o, r, prefix) /\ Isolated(o, Data(r.s), group) => o \in scan.hits
  BY <1>10, <1>11
<1> QED
  BY <1>3, <1>6, <1>8, <1>12, <1>15, <1>16, <1>17

(* What stands before a body: if anything, the tail of one that seems to   *)
(* meet it.                                                                *)
LEMMA PrefixOfBody ==
    ASSUME NEW ts, TailsTrue(ts), NEW k \in DOMAIN accepted, NEW r, r = accepted[k],
           r.s \in Streams, ~Verbatim(r.s), NEW g
    PROVE  IsSequence(PrefixOf(ts, r, g)) /\ (PrefixOf(ts, r, g) # <<>> => Meets(k))
<1>1. CASE r.s \in DOMAIN ts /\ ts[r.s].generation = g /\ ts[r.s].end_offset = r.offset
  <2>1. PrefixOf(ts, r, g) = ts[r.s].data
    BY <1>1 DEF PrefixOf, prefix_for, TailOf
  <2>2. TailBody(r.s, ts[r.s])
    BY <1>1 DEF TailsTrue
  <2> QED
    BY <1>1, <2>1, <2>2 DEF TailBody, Meets
<1>2. CASE ~(r.s \in DOMAIN ts /\ ts[r.s].generation = g /\ ts[r.s].end_offset = r.offset)
  <2>1. PrefixOf(ts, r, g) = <<>>
    BY <1>2 DEF PrefixOf, prefix_for, TailOf, NoTail
  <2> QED
    BY <2>1, EmptySequence
<1> QED
  BY <1>1, <1>2

(* A body through a scanner.                                               *)
LEMMA ScanBodyIs ==
    ASSUME NEW set, Compiled(set), IsFiniteSet(set), NEW ts, TailsTrue(ts),
           NEW k \in DOMAIN accepted, NEW r, r = accepted[k], RecordTyped(r), ~Verbatim(r.s), NEW g,
           NEW scan, scan = ScanRecord(set, ts, r, g)
    PROVE  /\ TailsTrue(scan.tails)
           /\ DOMAIN scan.tails \subseteq DOMAIN ts \cup {r.s}
           /\ \A s \in DOMAIN ts \ {r.s} : s \in DOMAIN scan.tails /\ scan.tails[s] = ts[s]
           /\ \A o \in scan.hits : o.p \in set /\ (InBody(o, r) \/ (Meets(k) /\ Crosses(o, r)))
           /\ is_interested(set, r) /\ ~scan.limited =>
                \A group \in {GlobalGroup(set, r), ServiceGroup(set, r)} :
                   \A o \in Found(group, r.data) :
                      Isolated(o, r.data, group) /\ (ExprOf(o.p).kind = "literal" \/ ~Meets(k))
                         => Moved(o, r.offset) \in scan.hits
           /\ ~scan.twice
<1> DEFINE prefix == PrefixOf(ts, r, g)
           keep == required_overlap(set, r)
           next == NextTail(prefix, r, keep, g)
           both == scan_bounded(set, r, prefix)
<1>0. r.s \in Streams /\ IsSequence(r.data)
  BY DEF RecordTyped
<1>1. IsSequence(prefix) /\ (prefix # <<>> => Meets(k))
  BY <1>0, PrefixOfBody
<1>2. keep \in Nat
  BY OverlapOfSet
<1>q. prefix = PrefixOf(ts, r, g) /\ keep = required_overlap(set, r)
  OBVIOUS
<1> HIDE DEF prefix, keep
<1>s. Leaves(scan, set, ts, r, next, keep, both)
  BY <1>2, <1>q, ScanShape
<1> HIDE DEF next, both
<1>3. /\ DOMAIN scan.tails \subseteq DOMAIN ts \cup {r.s}
      /\ \A s \in DOMAIN ts \ {r.s} : s \in DOMAIN scan.tails /\ scan.tails[s] = ts[s]
      /\ r.s \in DOMAIN scan.tails => scan.tails[r.s] = next
      /\ \A o \in scan.hits : o \in both.hits
      /\ is_interested(set, r) => scan.hits = both.hits /\ scan.limited = both.limited
      /\ scan.twice = FALSE \/ scan.twice = both.twice
  BY <1>s DEF Leaves
<1> USE DEF next, both
<1> USE DEF prefix, keep
<1>4. TailBody(r.s, next)
  <2>1. next.data = LastN(prefix \o r.data, keep) /\ next.end_offset = accepted[k].offset + Len(accepted[k].data)
    BY DEF build_tail, NextTail
  <2> HIDE DEF next, prefix, keep
  <2>2. IsSequence(prefix \o r.data)
    BY <1>0, <1>1, ConcatOfSequences
  <2>3. IsSequence(next.data)
    BY <1>2, <2>1, <2>2, EndsOfSequence
  <2> QED
    BY <2>1, <2>3 DEF TailBody
<1>5. /\ \A o \in both.hits : o.p \in set /\ (InBody(o, r) \/ (prefix # <<>> /\ Crosses(o, r)))
      /\ ~both.limited =>
            \A group \in {GlobalGroup(set, r), ServiceGroup(set, r)} :
               \A o \in Found(group, r.data) :
                  Isolated(o, r.data, group) /\ (ExprOf(o.p).kind = "literal" \/ prefix = <<>>)
                     => Moved(o, r.offset) \in both.hits
      /\ both.twice = FALSE
  BY <1>1, SetBody
<1> HIDE DEF next, both, prefix, keep
<1>6. TailsTrue(scan.tails)
  <2>1. ASSUME NEW s \in DOMAIN scan.tails
        PROVE  s \in Streams /\ IF Verbatim(s) THEN TailTrue(s, scan.tails[s]) ELSE TailBody(s, scan.tails[s])
    <3>1. CASE s = r.s
      BY <1>0, <1>3, <1>4, <3>1
    <3>2. CASE s # r.s
      <4>1. s \in DOMAIN ts /\ scan.tails[s] = ts[s]
        BY <1>3, <3>2
      <4> QED
        BY <4>1 DEF TailsTrue
    <3> QED
      BY <3>1, <3>2
  <2> QED
    BY <2>1 DEF TailsTrue
<1>7. \A o \in scan.hits : o.p \in set /\ (InBody(o, r) \/ (Meets(k) /\ Crosses(o, r)))
  BY <1>1, <1>3, <1>5
<1>8. is_interested(set, r) /\ ~scan.limited =>
                \A group \in {GlobalGroup(set, r), ServiceGroup(set, r)} :
                   \A o \in Found(group, r.data) :
                      Isolated(o, r.data, group) /\ (ExprOf(o.p).kind = "literal" \/ ~Meets(k))
                         => Moved(o, r.offset) \in scan.hits
  BY <1>1, <1>3, <1>5
<1> QED
  BY <1>3, <1>5, <1>6, <1>7, <1>8

-----------------------------------------------------------------------------
(* Expressions and revisions.                                              *)

(* A request has an expression with a word, and what it has written is a   *)
(* revision of the table.                                                  *)
OpWords(o) ==
    /\ ops[o].pc = "idle" /\ ops[o].request.kind \in {"create", "update"}
         => IsExpr(ops[o].request.expr)
    /\ ops[o].pc = "read" => IsExpr(ops[o].expr)
    /\ Writing(o) => ops[o].p \in Revisions
Waiting == IsSequence(replay) /\ \A i \in DOMAIN replay : replay[i] \in Revisions
WordsInv ==
    /\ \A p \in Revisions : IsExpr(ExprOf(p))
    /\ \A o \in Ops : OpWords(o)
    /\ Waiting
    /\ interest_mask \subseteq Views

(* What a revision is.                                                     *)
LEMMA RevisionIs ==
    ASSUME NEW p \in Revisions
    PROVE  p.id \in Ids /\ p.rev \in DOMAIN patterns[p.id] /\ p = Rev(p.id, p.rev)
<1>1. PICK id \in Ids : p \in {Rev(id, n) : n \in DOMAIN patterns[id]}
  BY DEF Revisions
<1>2. PICK n \in DOMAIN patterns[id] : p = Rev(id, n)
  BY <1>1
<1>3. p.id = id /\ p.rev = n
  BY <1>2 DEF Rev
<1> QED
  BY <1>2, <1>3

(* The table has finitely many revisions, fit to be compiled.              *)
LEMMA RevisionsCompiled ==
    ASSUME RegistryShape, WordsInv, NEW set, set \subseteq Revisions
    PROVE  Compiled(set) /\ IsFiniteSet(set)
<1>1. ASSUME NEW p \in set PROVE IsExpr(ExprOf(p)) /\ p.id \in Nat /\ p.rev \in Nat /\ p = Rev(p.id, p.rev)
  <2>1. p.id \in Ids /\ p.rev \in DOMAIN patterns[p.id] /\ p = Rev(p.id, p.rev) /\ IsExpr(ExprOf(p))
    BY RevisionIs DEF WordsInv
  <2> DEFINE q == patterns[p.id]
  <2>2. IsSequence(q)
    BY <2>1 DEF RegistryShape
  <2> HIDE DEF q
  <2>3. DOMAIN q = 1 .. Len(q) /\ Len(q) \in Nat
    BY <2>2, SequenceIsNumbered
  <2>4. p.rev \in Nat
    BY <2>1, <2>3 DEF q
  <2> QED
    BY <2>1, <2>4, PatternsAssumption
<1>2. IsFiniteSet(Revisions)
  <2> DEFINE F(id) == {Rev(id, n) : n \in DOMAIN patterns[id]}
             f == [id \in Ids |-> F(id)]
  <2>1. ASSUME NEW id \in Ids PROVE IsFiniteSet(F(id))
    <3> DEFINE q == patterns[id]
               g == [n \in DOMAIN q |-> Rev(id, n)]
    <3>1. IsSequence(q)
      BY DEF RegistryShape
    <3> HIDE DEF q
    <3>2. DOMAIN q = 1 .. Len(q) /\ Len(q) \in Nat
      BY <3>1, SequenceIsNumbered
    <3>3. IsFiniteSet(DOMAIN q)
      BY <3>2, FS_Interval
    <3>4. g = [n \in DOMAIN q |-> g[n]] /\ {g[n] : n \in DOMAIN q} = {Rev(id, n) : n \in DOMAIN q}
      OBVIOUS
    <3> HIDE DEF g
    <3>5. IsFiniteSet({g[n] : n \in DOMAIN q})
      BY <3>3, <3>4, FiniteImage
    <3> QED
      BY <3>4, <3>5 DEF q
  <2>2. f = [id \in Ids |-> f[id]] /\ {f[id] : id \in Ids} = {F(id) : id \in Ids}
    OBVIOUS
  <2>3. Revisions = UNION {F(id) : id \in Ids}
    BY DEF Revisions
  <2> HIDE DEF f, F
  <2>4. IsFiniteSet({f[id] : id \in Ids})
    BY <2>2, FiniteImage, PatternsAssumption
  <2>5. \A S \in {F(id) : id \in Ids} : IsFiniteSet(S)
    BY <2>1
  <2>6. IsFiniteSet(UNION {F(id) : id \in Ids})
    BY <2>2, <2>4, <2>5, FS_UNION
  <2> QED
    BY <2>3, <2>6
<1>3. IsFiniteSet(set)
  BY <1>2, FS_Subset
<1> QED
  BY <1>1, <1>3 DEF Compiled

(* The mask of a set of revisions is a set of views.                       *)
LEMMA MaskIsViews ==
    ASSUME NEW set, \A p \in set : IsExpr(ExprOf(p))
    PROVE  MaskOf(set) \subseteq Views
<1>1. ASSUME NEW p \in set PROVE views_for_pattern(ExprOf(p)) \subseteq Views
  <2> DEFINE e == ExprOf(p)
  <2>1. e.direction \in {"both", "input", "output"}
    BY DEF IsExpr
  <2> HIDE DEF e
  <2>2. views_for_pattern(e) \subseteq Views
    <3>1. CASE e.direction = "both"
      BY <3>1 DEF views_for_pattern, Views
    <3>2. CASE e.direction = "input"
      BY <3>2 DEF views_for_pattern, Views, Requests
    <3>3. CASE e.direction = "output"
      BY <3>3 DEF views_for_pattern, Views, Responses
    <3> QED
      BY <2>1, <3>1, <3>2, <3>3
  <2> QED
    BY <2>2 DEF e
<1> QED
  BY <1>1 DEF MaskOf

(* One request moves.                                                      *)
LEMMA WordsMove ==
    ASSUME RegistryInv, WordsInv, Grown, NEW o \in Ops, NEW v, Set(o, v), OpWords(o)',
           \A p \in Revisions' : IsExpr(ExprOf(p)'), Waiting', interest_mask' \subseteq Views
    PROVE  WordsInv'
<1>1. DOMAIN ops' = Ops /\ ops'[o] = v /\ \A x \in Ops \ {o} : ops'[x] = ops[x]
  BY OneMoves DEF RegistryInv
<1>2. Revisions \subseteq Revisions'
  BY RevisionsStay
<1>3. ASSUME NEW x \in Ops PROVE OpWords(x)'
  <2>1. CASE x = o
    BY <2>1
  <2>2. CASE x # o
    <3>1. ops'[x] = ops[x] /\ OpWords(x)
      BY <1>1, <2>2 DEF WordsInv
    <3> QED
      BY <1>2, <3>1 DEF OpWords, Writing
  <2> QED
    BY <2>1, <2>2
<1> QED
  BY <1>3 DEF WordsInv

(* The latest revision of a pattern that is stored.                        *)
LEMMA LatestIsRevision ==
    ASSUME RegistryShape, NEW id \in Ids, Stored(id)
    PROVE  LatestRev(id) \in Revisions /\ ExprOf(LatestRev(id)) = Latest(id).expr
<1> DEFINE q == patterns[id]
<1>1. IsSequence(q) /\ q # <<>>
  BY DEF RegistryShape, Stored
<1> HIDE DEF q
<1>2. Len(q) \in DOMAIN q
  BY <1>1, TailOfSequence
<1>3. LatestRev(id) = Rev(id, Len(patterns[id])) /\ Len(patterns[id]) \in DOMAIN patterns[id]
  BY <1>2 DEF q, LatestRev
<1>4. LatestRev(id).id = id /\ LatestRev(id).rev = Len(patterns[id])
  BY <1>3 DEF Rev
<1> QED
  BY <1>3, <1>4 DEF Revisions, ExprOf, Latest

(* A table that stays.                                                     *)
LEMMA WordsOfTable ==
    ASSUME RegistryShape, WordsInv, patterns' = patterns
    PROVE  /\ Grown /\ Revisions' = Revisions /\ \A p \in Revisions' : IsExpr(ExprOf(p)')
           /\ replay' = replay => Waiting'
<1>1. Grown /\ Revisions' = Revisions
  BY SameTable
<1>2. \A p \in Revisions' : IsExpr(ExprOf(p)')
  <2>1. \A p : ExprOf(p)' = ExprOf(p)
    BY DEF ExprOf
  <2> QED
    BY <1>1, <2>1 DEF WordsInv
<1> QED
  BY <1>1, <1>2 DEF WordsInv, Waiting

(* A request that is taken, refused or done.                               *)
LEMMA WordsSubmit ==
    ASSUME RegistryInv, WordsInv, NEW o \in Ops,
           \/ create_or_update_pattern(o) \/ set_pattern_enabled(o)
           \/ delete_pattern(o) \/ lookback_pattern(o) \/ enqueue(o)
    PROVE  WordsInv'
<1>1. RegistryShape
  BY DEF RegistryInv
<1>2. patterns' = patterns /\ interest_mask' = interest_mask /\ ops[o].pc \in {"idle", "installed"}
  BY DEF create_or_update_pattern, set_pattern_enabled, delete_pattern, lookback_pattern, enqueue,
         UnchangedBySubmit, Submitted
<1>3. /\ Grown /\ Revisions' = Revisions /\ \A p \in Revisions' : IsExpr(ExprOf(p)')
      /\ replay' = replay => Waiting'
  BY <1>1, <1>2, WordsOfTable
<1>4. ops[o].pc = "idle" => Request(o).id \in Ids
  BY <1>1 DEF RegistryShape, OpShape, Request
<1>5. ASSUME NEW id \in Ids, Stored(id) PROVE LatestRev(id) \in Revisions /\ IsExpr(Latest(id).expr)
  <2>1. LatestRev(id) \in Revisions /\ ExprOf(LatestRev(id)) = Latest(id).expr
    BY <1>1, <1>5, LatestIsRevision
  <2>2. IsExpr(ExprOf(LatestRev(id)))
    BY <2>1 DEF WordsInv
  <2> QED
    BY <2>1, <2>2
<1>6. \/ End(o)
      \/ \E expr, enabled : IsExpr(expr) /\ Take(o, expr, enabled)
  <2>1. CASE create_or_update_pattern(o)
    <3>1. /\ ops[o].pc = "idle" /\ Request(o).kind \in {"create", "update"}
          /\ Take(o, Request(o).expr, Request(o).kind = "update" => Request(o).enabled)
      BY <2>1 DEF create_or_update_pattern, Submitted
    <3>2. IsExpr(Request(o).expr)
      BY <3>1 DEF WordsInv, OpWords, Request
    <3> QED
      BY <3>1, <3>2, Zenon
  <2>2. CASE set_pattern_enabled(o)
    <3>1. ops[o].pc = "idle"
      BY <2>2 DEF set_pattern_enabled, Submitted
    <3>2. CASE Stored(Request(o).id)
      <4>1. Take(o, Latest(Request(o).id).expr, Request(o).kind = "enable")
        BY <2>2, <3>2, Zenon DEF set_pattern_enabled
      <4>2. IsExpr(Latest(Request(o).id).expr)
        BY <1>4, <1>5, <3>1, <3>2
      <4> QED
        BY <4>1, <4>2, Zenon
    <3>3. CASE ~Stored(Request(o).id)
      BY <2>2, <3>3, Zenon DEF set_pattern_enabled
    <3> QED
      BY <3>2, <3>3
  <2>3. CASE delete_pattern(o)
    <3>1. ops[o].pc = "idle"
      BY <2>3 DEF delete_pattern, Submitted
    <3>2. CASE Stored(Request(o).id) /\ Latest(Request(o).id).enabled
      <4>1. Take(o, Latest(Request(o).id).expr, FALSE)
        BY <2>3, <3>2, Zenon DEF delete_pattern
      <4>2. IsExpr(Latest(Request(o).id).expr)
        BY <1>4, <1>5, <3>1, <3>2
      <4> QED
        BY <4>1, <4>2, Zenon
    <3>3. CASE ~(Stored(Request(o).id) /\ Latest(Request(o).id).enabled)
      BY <2>3, <3>3, Zenon DEF delete_pattern
    <3> QED
      BY <3>2, <3>3
  <2>4. CASE lookback_pattern(o) \/ enqueue(o)
    BY <2>4 DEF lookback_pattern, enqueue
  <2> QED
    BY <2>1, <2>2, <2>3, <2>4
<1>7. PICK v : Set(o, v) /\ v.pc \in {"read", "ended"} /\ (v.pc = "read" => IsExpr(v.expr))
  <2>1. CASE End(o)
    <3> DEFINE v == [pc |-> "ended"]
    <3>1. Set(o, v) /\ v.pc = "ended"
      BY <2>1, Zenon DEF End
    <3> HIDE DEF v
    <3> QED
      BY <3>1
  <2>2. ASSUME NEW expr, NEW enabled, IsExpr(expr), Take(o, expr, enabled)
        PROVE  \E v : Set(o, v) /\ v.pc \in {"read", "ended"} /\ (v.pc = "read" => IsExpr(v.expr))
    <3> DEFINE v == [pc |-> "read", id |-> Request(o).id,
                     rev |-> Len(patterns[Request(o).id]) + 1,
                     expr |-> expr, enabled |-> enabled]
    <3>1. Set(o, v)
      BY <2>2, Zenon DEF Take
    <3>2. v.pc = "read" /\ v.expr = expr
      OBVIOUS
    <3> HIDE DEF v
    <3> QED
      BY <2>2, <3>1, <3>2
  <2> QED
    BY <1>6, <2>1, <2>2
<1>8. ops'[o] = v
  BY <1>1, <1>7, OneMoves
<1>9. OpWords(o)'
  BY <1>7, <1>8 DEF OpWords, Writing, Listed
<1>10. Waiting'
  <2>1. replay' = replay \/ \E p \in Revisions : replay' = Append(replay, p)
    <3>1. CASE lookback_pattern(o)
      <4>1. ops[o].pc = "idle"
        BY <3>1 DEF lookback_pattern, Submitted
      <4>2. replay' = IF Stored(Request(o).id) THEN Append(replay, LatestRev(Request(o).id)) ELSE replay
        BY <3>1, Zenon DEF lookback_pattern
      <4> QED
        BY <1>4, <1>5, <4>1, <4>2
    <3>2. CASE enqueue(o)
      <4>1. replay' = Append(replay, ops[o].p) /\ Writing(o)
        BY <3>2 DEF enqueue, Writing, Listed
      <4> QED
        BY <4>1 DEF WordsInv, OpWords
    <3>3. CASE create_or_update_pattern(o) \/ set_pattern_enabled(o) \/ delete_pattern(o)
      BY <3>3 DEF create_or_update_pattern, set_pattern_enabled, delete_pattern
    <3> QED
      BY <3>1, <3>2, <3>3
  <2>2. ASSUME NEW p \in Revisions, replay' = Append(replay, p) PROVE Waiting'
    <3>1. IsSequence(replay) /\ \A i \in DOMAIN replay : replay[i] \in Revisions
      BY DEF WordsInv, Waiting
    <3>2. /\ IsSequence(Append(replay, p)) /\ Len(replay) \in Nat
          /\ DOMAIN replay = 1 .. Len(replay) /\ DOMAIN Append(replay, p) = 1 .. Len(replay) + 1
          /\ \A i \in DOMAIN replay : Append(replay, p)[i] = replay[i]
          /\ Append(replay, p)[Len(replay) + 1] = p
      BY <3>1, AppendToSequence
    <3>3. \A i \in 1 .. Len(replay) + 1 : i \in DOMAIN replay \/ i = Len(replay) + 1
      BY <3>2
    <3>4. \A i \in DOMAIN replay' : replay'[i] \in Revisions
      BY <2>2, <3>1, <3>2, <3>3
    <3> QED
      BY <1>3, <2>2, <3>2, <3>4 DEF Waiting
  <2> QED
    BY <1>3, <2>1, <2>2
<1> QED
  BY <1>2, <1>3, <1>7, <1>9, <1>10, WordsMove DEF WordsInv

(* A revision is inserted: its expression is that of the request.          *)
LEMMA WordsInsert ==
    ASSUME RegistryInv, WordsInv, NEW o \in Ops, insert_pattern_revision(o), Grown
    PROVE  WordsInv'
<1>1. RegistryShape /\ ops[o].pc = "read" /\ ops[o].id \in Ids /\ IsExpr(ops[o].expr)
  BY DEF RegistryInv, RegistryShape, OpShape, WordsInv, OpWords, insert_pattern_revision
<1>2. replay' = replay /\ interest_mask' = interest_mask
  BY DEF insert_pattern_revision
<1>3. Waiting'
  BY <1>2, RevisionsStay DEF WordsInv, Waiting
<1>4. CASE ops[o].rev = Len(patterns[ops[o].id]) + 1
  <2> DEFINE id == ops[o].id
             n == ops[o].rev
             row == [expr |-> ops[o].expr, enabled |-> ops[o].enabled]
             v == [pc |-> "written", p |-> Rev(id, n), enabled |-> ops[o].enabled]
             q == patterns[id]
  <2>1. patterns' = [patterns EXCEPT ![id] = Append(@, row)] /\ Set(o, v)
    BY <1>4, Zenon DEF insert_pattern_revision
  <2>2. v.pc = "written" /\ v.p = Rev(id, n) /\ row.expr = ops[o].expr
    OBVIOUS
  <2> HIDE DEF v, row
  <2>3. ops'[o] = v
    BY <1>1, <2>1, OneMoves
  <2>4. IsSequence(q) /\ id \in Ids /\ n = Len(q) + 1 /\ DOMAIN patterns = Ids
    BY <1>1, <1>4 DEF RegistryShape
  <2>5. patterns'[id] = Append(q, row) /\ \A i \in Ids \ {id} : patterns'[i] = patterns[i]
    BY <2>1, <2>4
  <2> HIDE DEF q, id, n
  <2>6. /\ DOMAIN q = 1 .. Len(q) /\ DOMAIN Append(q, row) = 1 .. Len(q) + 1 /\ Len(q) \in Nat
        /\ \A i \in DOMAIN q : Append(q, row)[i] = q[i]
        /\ Append(q, row)[Len(q) + 1] = row
    BY <2>4, AppendToSequence
  <2>7. n \in DOMAIN patterns'[id] /\ patterns'[id][n] = row
    BY <2>4, <2>5, <2>6
  <2>8. Rev(id, n) \in Revisions'
    BY <2>4, <2>7 DEF Revisions, Rev
  <2>9. OpWords(o)'
    BY <2>2, <2>3, <2>8 DEF OpWords, Writing, Listed
  <2>10. ASSUME NEW p \in Revisions' PROVE IsExpr(ExprOf(p)')
    <3>1. PICK i \in Ids : p \in {[id |-> i, rev |-> m] : m \in DOMAIN patterns'[i]}
      BY DEF Revisions, Rev
    <3>2. PICK m \in DOMAIN patterns'[i] : p = [id |-> i, rev |-> m]
      BY <3>1
    <3>3. p.id = i /\ p.rev = m /\ ExprOf(p)' = patterns'[i][m].expr
      BY <3>2 DEF ExprOf
    <3>4. CASE i = id /\ m = n
      BY <1>1, <2>2, <2>7, <3>3, <3>4
    <3>5. CASE ~(i = id /\ m = n)
      <4>1. m \in DOMAIN patterns[i] /\ patterns'[i][m] = patterns[i][m]
        BY <2>4, <2>5, <2>6, <3>5 DEF q
      <4>2. p \in Revisions /\ ExprOf(p) = patterns[i][m].expr
        BY <3>2, <3>3, <4>1 DEF Revisions, Rev, ExprOf
      <4> QED
        BY <3>3, <4>1, <4>2 DEF WordsInv
    <3> QED
      BY <3>4, <3>5
  <2> QED
    BY <1>2, <1>3, <2>1, <2>9, <2>10, WordsMove DEF WordsInv
<1>5. CASE ops[o].rev # Len(patterns[ops[o].id]) + 1
  <2> DEFINE v == [pc |-> "ended"]
  <2>1. Set(o, v) /\ v.pc = "ended" /\ patterns' = patterns
    BY <1>5, Zenon DEF insert_pattern_revision, End
  <2> HIDE DEF v
  <2>2. ops'[o] = v
    BY <1>1, <2>1, OneMoves
  <2>3. OpWords(o)'
    BY <2>1, <2>2 DEF OpWords, Writing, Listed
  <2> QED
    BY <1>1, <1>2, <1>3, <2>1, <2>3, WordsMove, WordsOfTable DEF WordsInv
<1> QED
  BY <1>4, <1>5

(* A set is listed, compiled and installed.                                *)
LEMMA WordsInstall ==
    ASSUME RegistryInv, WordsInv, NEW o \in Ops,
           \/ prepare_rebuild(o) \/ RebuildFails(o) \/ StoreActive(o)
           \/ StoreMask(o) \/ StoreGeneration(o)
    PROVE  WordsInv'
<1>1. RegistryShape
  BY DEF RegistryInv
<1>2. patterns' = patterns /\ replay' = replay /\ Writing(o)
  BY DEF prepare_rebuild, RebuildFails, StoreActive, StoreMask, StoreGeneration, Writing, Listed
<1>3. /\ Grown /\ Revisions' = Revisions /\ Waiting' /\ \A p \in Revisions' : IsExpr(ExprOf(p)')
  BY <1>1, <1>2, WordsOfTable
<1>4. ops[o].p \in Revisions /\ (ops[o].pc \in Listed => DOMAIN ops[o] = OpFields /\ ops[o].set \subseteq Revisions)
  BY <1>1, <1>2 DEF WordsInv, OpWords, RegistryShape, OpShape
<1>5. PICK v : Set(o, v) /\ (v.pc = "ended" \/ (v.p = ops[o].p /\ v.pc \in Listed))
  <2>1. CASE prepare_rebuild(o)
    <3> DEFINE v == [pc |-> "listed", p |-> ops[o].p, enabled |-> ops[o].enabled, set |-> list_enabled_patterns]
    <3>1. Set(o, v) /\ v.p = ops[o].p /\ v.pc = "listed"
      BY <2>1, Zenon DEF prepare_rebuild
    <3> HIDE DEF v
    <3> QED
      BY <3>1 DEF Listed
  <2>2. ASSUME End(o) PROVE \E v : Set(o, v) /\ (v.pc = "ended" \/ (v.p = ops[o].p /\ v.pc \in Listed))
    <3> DEFINE v == [pc |-> "ended"]
    <3>1. Set(o, v) /\ v.pc = "ended"
      BY <2>2, Zenon DEF End
    <3> HIDE DEF v
    <3> QED
      BY <3>1
  <2>3. ASSUME ops[o].pc \in Listed, NEW x \in Listed, Set(o, [ops[o] EXCEPT !.pc = x])
        PROVE  \E v : Set(o, v) /\ (v.pc = "ended" \/ (v.p = ops[o].p /\ v.pc \in Listed))
    <3> DEFINE v == [ops[o] EXCEPT !.pc = x]
    <3>1. v.p = ops[o].p /\ v.pc = x
      BY <1>4, <2>3 DEF OpFields
    <3>2. Set(o, v)
      BY <2>3
    <3> HIDE DEF v
    <3> QED
      BY <3>1, <3>2
  <2>4. CASE RebuildFails(o)
    BY <2>2, <2>4 DEF RebuildFails
  <2>5. CASE StoreActive(o)
    <3>1. ops[o].pc = "listed" /\ Set(o, [ops[o] EXCEPT !.pc = "stored"])
      BY <2>5, Zenon DEF StoreActive
    <3> QED
      BY <2>3, <3>1 DEF Listed
  <2>6. CASE StoreMask(o)
    <3>1. ops[o].pc = "stored" /\ Set(o, [ops[o] EXCEPT !.pc = "masked"])
      BY <2>6, Zenon DEF StoreMask
    <3> QED
      BY <2>3, <3>1 DEF Listed
  <2>7. CASE StoreGeneration(o)
    <3>1. ops[o].pc = "masked" /\ (End(o) \/ Set(o, [ops[o] EXCEPT !.pc = "installed"]))
      BY <2>7, Zenon DEF StoreGeneration
    <3> QED
      BY <2>2, <2>3, <3>1 DEF Listed
  <2> QED
    BY <2>1, <2>4, <2>5, <2>6, <2>7
<1>6. ops'[o] = v
  BY <1>1, <1>5, OneMoves
<1>7. OpWords(o)'
  BY <1>3, <1>4, <1>5, <1>6 DEF OpWords, Writing, Listed
<1>8. interest_mask' \subseteq Views
  <2>1. CASE StoreMask(o)
    <3>1. ops[o].set \subseteq Revisions /\ interest_mask' = MaskOf(ops[o].set)
      BY <1>4, <2>1 DEF StoreMask, Listed
    <3> QED
      BY <3>1, MaskIsViews DEF WordsInv
  <2>2. CASE ~StoreMask(o)
    <3>1. interest_mask' = interest_mask
      BY <2>2 DEF prepare_rebuild, RebuildFails, StoreActive, StoreGeneration
    <3> QED
      BY <3>1 DEF WordsInv
  <2> QED
    BY <2>1, <2>2
<1> QED
  BY <1>3, <1>5, <1>7, <1>8, WordsMove

(* Words stay words when the registry stays, and what waits is scanned.    *)
LEMMA WordsUnchanged ==
    ASSUME RegistryInv, WordsInv, UNCHANGED registry, replay' = replay \/ replay' = <<>>
    PROVE  WordsInv'
<1>1. patterns' = patterns /\ ops' = ops /\ interest_mask' = interest_mask /\ RegistryShape
  BY DEF registry, RegistryInv
<1>2. /\ Revisions' = Revisions /\ \A p \in Revisions' : IsExpr(ExprOf(p)')
      /\ replay' = replay => Waiting'
  BY <1>1, WordsOfTable
<1>3. Waiting'
  <2>1. CASE replay' = <<>>
    BY <2>1, EmptySequence DEF Waiting
  <2> QED
    BY <1>2, <2>1
<1>4. \A o \in Ops : OpWords(o)'
  BY <1>1, <1>2 DEF WordsInv, OpWords, Writing
<1> QED
  BY <1>1, <1>2, <1>3, <1>4 DEF WordsInv

-----------------------------------------------------------------------------
(* Records and the streams they are cut from.                              *)

RecEnd(r) == r.offset + Len(r.data)
(* A piece has a text; that of a verbatim stream is a part of the stream.  *)
Piece(x) == RecordTyped(x) /\ (Verbatim(x.s) => RecordTrue(x))

(* What is to come is behind what is here, in every verbatim stream.       *)
TrafficInv ==
    /\ IsSequence(traffic) /\ \A i \in DOMAIN traffic : Piece(traffic[i])
    /\ \A i, k \in DOMAIN traffic : i < k /\ traffic[i].s = traffic[k].s /\ Verbatim(traffic[i].s)
          => RecEnd(traffic[i]) <= traffic[k].offset
    /\ l7.pc = "read" =>
         /\ Piece(l7.piece)
         /\ \A i \in DOMAIN traffic : traffic[i].s = l7.piece.s /\ Verbatim(l7.piece.s)
               => RecEnd(l7.piece) <= traffic[i].offset
RecordSound(r) ==
    /\ Piece(r) /\ r.view = StreamOf[r.s].view /\ r.service = StreamOf[r.s].service
    /\ \A i \in DOMAIN traffic : traffic[i].s = r.s /\ Verbatim(r.s) => RecEnd(r) <= traffic[i].offset
    /\ l7.pc = "read" /\ l7.piece.s = r.s /\ Verbatim(r.s) => RecEnd(r) <= l7.piece.offset
RecordsInv ==
    /\ \A k \in DOMAIN accepted : RecordSound(accepted[k]) /\ accepted[k].snapshot \subseteq Revisions
    /\ \A i, k \in DOMAIN accepted : i < k /\ accepted[i].s = accepted[k].s /\ Verbatim(accepted[i].s)
          => RecEnd(accepted[i]) <= accepted[k].offset

(* The records that there are keep their bytes.                            *)
BytesKept(k) ==
    /\ accepted'[k].s = accepted[k].s /\ accepted'[k].offset = accepted[k].offset
    /\ accepted'[k].data = accepted[k].data
    /\ accepted'[k].view = accepted[k].view /\ accepted'[k].service = accepted[k].service

(* A step that takes no record from the traffic.                           *)
LEMMA RecordsKept ==
    ASSUME TrafficInv, RecordsInv, DOMAIN accepted' = DOMAIN accepted,
           \A k \in DOMAIN accepted : BytesKept(k) /\ accepted'[k].snapshot \subseteq Revisions',
           traffic' = traffic, l7' = l7 \/ l7'.pc # "read"
    PROVE  TrafficInv' /\ RecordsInv'
<1>1. TrafficInv'
  BY DEF TrafficInv
<1>2. ASSUME NEW k \in DOMAIN accepted PROVE RecordSound(accepted[k])'
  <2>1. RecordSound(accepted[k]) /\ BytesKept(k)
    BY DEF RecordsInv
  <2> QED
    BY <2>1 DEF RecordSound, BytesKept, RecEnd, RecordTrue, Piece, RecordTyped
<1>3. ASSUME NEW i \in DOMAIN accepted, NEW k \in DOMAIN accepted, i < k,
             accepted'[i].s = accepted'[k].s, Verbatim(accepted'[i].s)
      PROVE  RecEnd(accepted'[i]) <= accepted'[k].offset
  <2>1. /\ BytesKept(i) /\ BytesKept(k)
        /\ accepted[i].s = accepted[k].s /\ Verbatim(accepted[i].s) => RecEnd(accepted[i]) <= accepted[k].offset
    BY <1>3 DEF RecordsInv
  <2> QED
    BY <1>3, <2>1 DEF BytesKept, RecEnd
<1> QED
  BY <1>1, <1>2, <1>3 DEF RecordsInv

(* The L7 worker takes the next piece.                                     *)
LEMMA RecordsReadMask ==
    ASSUME TrafficInv, RecordsInv, ReadMask, Revisions \subseteq Revisions'
    PROVE  TrafficInv' /\ RecordsInv'
<1> DEFINE piece == Head(traffic)
<1>1. /\ traffic # <<>> /\ traffic' = Tail(traffic) /\ accepted' = accepted
      /\ l7'.pc = "read" /\ l7'.piece = piece /\ l7.pc # "read"
  BY DEF ReadMask
<1>2. /\ IsSequence(Tail(traffic)) /\ Len(traffic) \in Nat \ {0} /\ DOMAIN traffic = 1 .. Len(traffic)
      /\ piece = traffic[1]
      /\ \A i \in DOMAIN Tail(traffic) : i + 1 \in DOMAIN traffic /\ Tail(traffic)[i] = traffic[i + 1]
      /\ DOMAIN Tail(traffic) = 1 .. Len(traffic) - 1
  BY <1>1, TailOfSequence DEF TrafficInv
<1> HIDE DEF piece
<1>3. 1 \in DOMAIN traffic
  BY <1>2
<1>4. \A i \in DOMAIN traffic' : /\ i \in Nat /\ i + 1 \in DOMAIN traffic /\ traffic'[i] = traffic[i + 1] /\ 1 < i + 1
  BY <1>1, <1>2
<1>5. TrafficInv'
  <2>1. IsSequence(traffic') /\ \A i \in DOMAIN traffic' : Piece(traffic'[i])
    BY <1>1, <1>2, <1>4 DEF TrafficInv
  <2>2. ASSUME NEW i \in DOMAIN traffic', NEW k \in DOMAIN traffic', i < k, traffic'[i].s = traffic'[k].s,
               Verbatim(traffic'[i].s)
        PROVE  RecEnd(traffic'[i]) <= traffic'[k].offset
    <3>1. i + 1 < k + 1 /\ i + 1 \in DOMAIN traffic /\ k + 1 \in DOMAIN traffic
      BY <1>4, <2>2
    <3> QED
      BY <1>4, <2>2, <3>1 DEF TrafficInv
  <2>3. Piece(piece)
    BY <1>2, <1>3 DEF TrafficInv
  <2>4. ASSUME NEW i \in DOMAIN traffic', traffic'[i].s = piece.s, Verbatim(piece.s)
        PROVE  RecEnd(piece) <= traffic'[i].offset
    <3>1. i + 1 \in DOMAIN traffic /\ traffic'[i] = traffic[i + 1] /\ 1 < i + 1
      BY <1>4
    <3> QED
      BY <1>2, <1>3, <2>4, <3>1 DEF TrafficInv
  <2> QED
    BY <1>1, <2>1, <2>2, <2>3, <2>4 DEF TrafficInv
<1>6. ASSUME NEW k \in DOMAIN accepted PROVE RecordSound(accepted[k])'
  <2>1. RecordSound(accepted[k])
    BY DEF RecordsInv
  <2>2. \A i \in DOMAIN traffic' : traffic'[i].s = accepted[k].s /\ Verbatim(accepted[k].s)
           => RecEnd(accepted[k]) <= traffic'[i].offset
    BY <1>4, <2>1 DEF RecordSound
  <2>3. piece.s = accepted[k].s /\ Verbatim(accepted[k].s) => RecEnd(accepted[k]) <= piece.offset
    BY <1>2, <1>3, <2>1 DEF RecordSound
  <2> QED
    BY <1>1, <2>1, <2>2, <2>3 DEF RecordSound
<1> QED
  BY <1>1, <1>5, <1>6 DEF RecordsInv

(* A piece becomes a record.                                               *)
LEMMA PieceIsRecord ==
    ASSUME NEW x, Piece(x)
    PROVE  LET r == RecordOf(x) IN
           /\ Piece(r) /\ r.s = x.s /\ r.offset = x.offset /\ RecEnd(r) = RecEnd(x)
           /\ r.view = StreamOf[x.s].view /\ r.service = StreamOf[x.s].service /\ r.snapshot = {}
           /\ r.fate = IF l7.copied THEN "pending" ELSE "skipped"
<1> DEFINE r == RecordOf(x)
<1>1. /\ r.s = x.s /\ r.offset = x.offset /\ r.data = x.data /\ r.view = StreamOf[x.s].view
      /\ r.service = StreamOf[x.s].service /\ r.snapshot = {}
      /\ r.fate = IF l7.copied THEN "pending" ELSE "skipped"
  BY DEF RecordOf
<1> HIDE DEF r
<1>2. Piece(r) /\ RecEnd(r) = RecEnd(x)
  BY <1>1 DEF Piece, RecordTyped, RecordTrue, RecEnd
<1> QED
  BY <1>1, <1>2 DEF r

(* The segment store takes the piece.                                      *)
LEMMA RecordsAccept ==
    ASSUME TrafficInv, RecordsInv, IsSequence(accepted), Accept, Revisions \subseteq Revisions'
    PROVE  /\ TrafficInv' /\ RecordsInv'
           /\ Len(accepted) \in Nat /\ DOMAIN accepted = 1 .. Len(accepted)
           /\ DOMAIN accepted' = 1 .. Len(accepted) + 1
           /\ \A k \in DOMAIN accepted : accepted'[k] = accepted[k]
           /\ accepted'[Len(accepted) + 1].s = l7.piece.s
           /\ accepted'[Len(accepted) + 1].fate # "scanned"
<1> DEFINE r == RecordOf(l7.piece)
           n == Len(accepted) + 1
<1>1. /\ l7.pc = "read" /\ accepted' = Append(accepted, r) /\ traffic' = traffic
      /\ l7'.pc # "read"
  BY DEF Accept
<1>2. /\ Len(accepted) \in Nat /\ DOMAIN accepted = 1 .. Len(accepted)
      /\ DOMAIN accepted' = 1 .. n
      /\ \A k \in DOMAIN accepted : accepted'[k] = accepted[k]
      /\ accepted'[n] = r
  BY <1>1, AppendToSequence
<1>3. /\ Piece(l7.piece)
      /\ \A i \in DOMAIN traffic : traffic[i].s = l7.piece.s /\ Verbatim(l7.piece.s)
            => RecEnd(l7.piece) <= traffic[i].offset
  BY <1>1 DEF TrafficInv
<1>4. /\ Piece(r) /\ r.s = l7.piece.s /\ r.offset = l7.piece.offset /\ RecEnd(r) = RecEnd(l7.piece)
      /\ r.view = StreamOf[r.s].view /\ r.service = StreamOf[r.s].service /\ r.snapshot = {}
      /\ r.fate = IF l7.copied THEN "pending" ELSE "skipped"
  BY <1>3, PieceIsRecord
<1> HIDE DEF r
<1>5. \A k \in DOMAIN accepted' : k \in DOMAIN accepted \/ k = n
  BY <1>2
<1>6. \A k \in DOMAIN accepted : k < n /\ k \in Int
  BY <1>2
<1>n. n \in Int
  BY <1>2
<1> HIDE DEF n
<1>7. TrafficInv'
  BY <1>1 DEF TrafficInv
<1>8. ASSUME NEW k \in DOMAIN accepted' PROVE RecordSound(accepted[k])' /\ accepted'[k].snapshot \subseteq Revisions'
  <2>1. CASE k \in DOMAIN accepted
    <3>1. accepted'[k] = accepted[k] /\ RecordSound(accepted[k]) /\ accepted[k].snapshot \subseteq Revisions
      BY <1>2, <2>1 DEF RecordsInv
    <3> QED
      BY <1>1, <3>1 DEF RecordSound
  <2>2. CASE k = n
    BY <1>1, <1>2, <1>3, <1>4, <2>2 DEF RecordSound
  <2> QED
    BY <1>5, <2>1, <2>2
<1>9. ASSUME NEW i \in DOMAIN accepted', NEW k \in DOMAIN accepted', i < k,
             accepted'[i].s = accepted'[k].s, Verbatim(accepted'[i].s)
      PROVE  RecEnd(accepted'[i]) <= accepted'[k].offset
  <2>1. i \in DOMAIN accepted
    BY <1>5, <1>6, <1>9, <1>n
  <2>2. CASE k \in DOMAIN accepted
    BY <1>2, <1>9, <2>1, <2>2 DEF RecordsInv
  <2>3. CASE k = n
    <3>1. RecordSound(accepted[i]) /\ accepted'[i] = accepted[i]
      BY <1>2, <2>1 DEF RecordsInv
    <3> QED
      BY <1>1, <1>2, <1>4, <1>9, <2>3, <3>1 DEF RecordSound
  <2> QED
    BY <1>5, <2>2, <2>3
<1> QED
  BY <1>2, <1>4, <1>7, <1>8, <1>9 DEF RecordsInv, n

-----------------------------------------------------------------------------
(* What is said about revisions does not depend on what is inserted later. *)

(* Expressions, groups and occurrences.                                    *)
LEMMA SetStays ==
    ASSUME Grown, NEW set, set \subseteq Revisions, NEW r, NEW text
    PROVE  /\ \A p \in set : ExprOf(p)' = ExprOf(p)
           /\ GlobalGroup(set, r)' = GlobalGroup(set, r)
           /\ ServiceGroup(set, r)' = ServiceGroup(set, r)
           /\ Found(set, text)' = Found(set, text)
           /\ \A kind : OfKind(set, kind)' = OfKind(set, kind)
<1>1. \A p \in set : ExprOf(p)' = ExprOf(p)
  BY RevisionsStay DEF ExprOf
<1>2. ASSUME NEW service PROVE Group(set, r, service)' = Group(set, r, service)
  BY <1>1, Zenon DEF Group
<1>3. GlobalGroup(set, r)' = GlobalGroup(set, r) /\ ServiceGroup(set, r)' = ServiceGroup(set, r)
  BY <1>2 DEF GlobalGroup, ServiceGroup
<1>4. Occurrences(set, text)' = Occurrences(set, text)
  BY <1>1 DEF Occurrences
<1>5. \A o \in Occurrences(set, text) : o.p \in set
  BY DEF Occurrences
<1>6. Found(set, text)' = Found(set, text)
  BY <1>1, <1>4, <1>5, Zenon DEF Found
<1>7. \A kind : OfKind(set, kind)' = OfKind(set, kind)
  BY <1>1, Zenon DEF OfKind
<1> QED
  BY <1>1, <1>3, <1>6, <1>7

(* The overlap a group needs.                                              *)
LEMMA OverlapStays ==
    ASSUME Grown, NEW set, set \subseteq Revisions, NEW r
    PROVE  /\ required_overlap(set, r)' = required_overlap(set, r)
           /\ is_interested(set, r)' <=> is_interested(set, r)
<1>1. ASSUME NEW group, group \subseteq Revisions PROVE GroupOverlap(group)' = GroupOverlap(group)
  <2>1. \A kind : OfKind(group, kind)' = OfKind(group, kind)
    BY <1>1, SetStays
  <2> DEFINE lits == OfKind(group, "literal")
  <2>2. lits \subseteq Revisions
    BY <1>1 DEF OfKind
  <2>3. \A p \in lits : ExprOf(p)' = ExprOf(p)
    BY <2>2, RevisionsStay DEF ExprOf
  <2>4. WordLens(OfKind(group, "literal"))' = WordLens(lits)
    <3>1. WordLens(OfKind(group, "literal"))' = {Len(ExprOf(p)'.word) : p \in lits}
      BY <2>1 DEF WordLens
    <3> HIDE DEF lits
    <3> QED
      BY <2>3, <3>1 DEF WordLens
  <2>5. max_literal_len(group)' = max_literal_len(group)
    BY <2>4 DEF max_literal_len, Largest
  <2>6. OfKind(group, "regex")' = OfKind(group, "regex")
    BY <2>1
  <2> DEFINE R == IF OfKind(group, "regex") = {} THEN {} ELSE {OverlapLimit}
  <2>7. R' = R
    BY <2>6
  <2>8. GroupOverlap(group) = Largest({max_literal_len(group) - 1} \cup R)
    BY DEF GroupOverlap
  <2>9. GroupOverlap(group)' = Largest({max_literal_len(group)' - 1} \cup R')
    BY DEF GroupOverlap, Largest
  <2> HIDE DEF R
  <2> QED
    BY <2>5, <2>7, <2>8, <2>9, Zenon
<1>2. GlobalGroup(set, r)' = GlobalGroup(set, r) /\ ServiceGroup(set, r)' = ServiceGroup(set, r)
  BY SetStays
<1>3. GlobalGroup(set, r) \subseteq Revisions /\ ServiceGroup(set, r) \subseteq Revisions
  BY DEF GlobalGroup, ServiceGroup, Group
<1>4. is_interested(set, r)' <=> is_interested(set, r)
  BY <1>2 DEF is_interested
<1>5. /\ GroupOverlap(GlobalGroup(set, r))' = GroupOverlap(GlobalGroup(set, r))
      /\ GroupOverlap(ServiceGroup(set, r))' = GroupOverlap(ServiceGroup(set, r))
  BY <1>1, <1>2, <1>3
<1> QED
  BY <1>4, <1>5, Zenon DEF required_overlap, Largest

-----------------------------------------------------------------------------
(* The queue of the matcher worker.                                        *)

(* A record of flow f is behind place i of the queue, or on its way to it. *)
Awaited(f, i) ==
    \/ \E j \in DOMAIN queue : j > i /\ queue[j].kind = "content" /\ FlowOf(accepted[queue[j].k]) = f
    \/ l7.pc \in Handled /\ FlowOf(accepted[Last]) = f
    \/ l7.pc = "read" /\ FlowOf(l7.piece) = f
    \/ \E j \in DOMAIN traffic : FlowOf(traffic[j]) = f

(* Records are scanned in the order they were accepted, and a flow that    *)
(* closes has no record behind the notice.                                 *)
QueueInv ==
    /\ Len(queue) <= QueueCap
    /\ \A i \in DOMAIN queue : queue[i].kind = "content" =>
         /\ \A j \in DOMAIN accepted : accepted[j].fate = "scanned" => j < queue[i].k
         /\ \A j \in DOMAIN queue : j < i /\ queue[j].kind = "content" => queue[j].k < queue[i].k
    /\ \A i \in DOMAIN queue : queue[i].kind = "closed" => ~Awaited(queue[i].f, i)

(* Records that were scanned stay as they are, and no other becomes one.   *)
Kept ==
    /\ DOMAIN accepted \subseteq DOMAIN accepted'
    /\ \A k \in DOMAIN accepted :
         /\ BytesKept(k)
         /\ accepted[k].fate = "scanned" => accepted'[k] = accepted[k]
         /\ accepted'[k].fate = "scanned" => accepted[k].fate = "scanned"
    /\ \A k \in DOMAIN accepted' \ DOMAIN accepted :
         accepted'[k].fate # "scanned" /\ \A j \in DOMAIN accepted : j < k

(* What the L7 worker does to the records.                                 *)
LEMMA KeptByAll ==
    ASSUME accepted' = accepted
    PROVE  Kept
BY DEF Kept, BytesKept

(* The record that is on its way changes, and no other.                    *)
LEMMA KeptByLast ==
    ASSUME IngressInv, l7.pc \in Handled, NEW r, DOMAIN r = RecordFields,
           accepted' = [accepted EXCEPT ![Last] = r],
           r.s = accepted[Last].s, r.offset = accepted[Last].offset, r.data = accepted[Last].data,
           r.view = accepted[Last].view, r.service = accepted[Last].service, r.fate # "scanned"
    PROVE  /\ Kept /\ DOMAIN accepted' = DOMAIN accepted /\ Last' = Last /\ accepted'[Last] = r
           /\ \A k \in DOMAIN accepted \ {Last} : accepted'[k] = accepted[k]
<1>1. Last \in DOMAIN accepted /\ accepted[Last].fate = "pending"
  BY DEF IngressInv
<1>2. /\ DOMAIN accepted' = DOMAIN accepted /\ Last' = Last
      /\ accepted'[Last] = r /\ \A k \in DOMAIN accepted \ {Last} : accepted'[k] = accepted[k]
  BY <1>1, RecordChanges
<1> QED
  BY <1>1, <1>2 DEF Kept, BytesKept

(* The set is taken, or the record is skipped.                             *)
LEMMA TakeSnapshotIs ==
    ASSUME IngressInv, TakeSnapshot
    PROVE  /\ Kept /\ DOMAIN accepted' = DOMAIN accepted /\ Last' = Last
           /\ \A k \in DOMAIN accepted \ {Last} : accepted'[k] = accepted[k]
           /\ accepted'[Last].snapshot = active /\ l7.pc = "accepted" /\ l7'.pc \in {"prepared", "idle"}
           /\ queue' = queue /\ traffic' = traffic
<1> DEFINE wanted == /\ accepted[Last].view \in interest_mask
                     /\ is_interested(active, accepted[Last])
           fate == IF wanted THEN accepted[Last].fate ELSE "skipped"
           r == [accepted[Last] EXCEPT !.snapshot = active, !.fate = fate]
<1>1. /\ l7.pc = "accepted" /\ queue' = queue /\ traffic' = traffic
      /\ l7' = [pc |-> IF wanted THEN "prepared" ELSE "idle"]
  BY DEF TakeSnapshot
<1>2. /\ Last \in DOMAIN accepted /\ accepted[Last].fate = "pending"
      /\ DOMAIN accepted[Last] = RecordFields /\ l7.pc \in Handled
  BY <1>1 DEF IngressInv, Handled
<1>3. accepted' = [accepted EXCEPT ![Last] = r]
  <2>1. accepted' = [accepted EXCEPT ![Last].snapshot = active,
                                     ![Last].fate = IF wanted THEN @ ELSE "skipped"]
    BY DEF TakeSnapshot
  <2> HIDE DEF wanted
  <2> QED
    BY <1>2, <2>1 DEF RecordFields
<1>4. l7'.pc \in {"prepared", "idle"}
  BY <1>1
<1> HIDE DEF wanted
<1>5. /\ DOMAIN r = RecordFields /\ r.snapshot = active /\ r.fate = fate /\ fate # "scanned"
      /\ r.view = accepted[Last].view /\ r.service = accepted[Last].service
      /\ r.s = accepted[Last].s /\ r.offset = accepted[Last].offset /\ r.data = accepted[Last].data
  BY <1>2 DEF RecordFields
<1> HIDE DEF r
<1> QED
  BY <1>1, <1>2, <1>3, <1>4, <1>5, KeptByLast

(* The generation is taken, and the record is queued.                      *)
LEMMA SendContentIs ==
    ASSUME IngressInv, send_content
    PROVE  /\ Kept /\ DOMAIN accepted' = DOMAIN accepted /\ Last' = Last
           /\ \A k \in DOMAIN accepted \ {Last} : accepted'[k] = accepted[k]
           /\ accepted'[Last].snapshot = accepted[Last].snapshot
           /\ Last \in DOMAIN accepted /\ accepted[Last].fate = "pending"
           /\ l7.pc = "prepared" /\ l7'.pc = "idle" /\ traffic' = traffic
           /\ Len(queue) < QueueCap
           /\ \E item : queue' = Append(queue, item) /\ item.kind = "content" /\ item.k = Last
<1> DEFINE r == [accepted[Last] EXCEPT !.generation = pattern_generation]
           item == [kind |-> "content", k |-> Last]
<1>1. /\ l7.pc = "prepared" /\ traffic' = traffic /\ Len(queue) < QueueCap
      /\ queue' = Append(queue, item) /\ l7'.pc = "idle"
  BY DEF send_content
<1>2. /\ Last \in DOMAIN accepted /\ accepted[Last].fate = "pending"
      /\ DOMAIN accepted[Last] = RecordFields /\ l7.pc \in Handled
  BY <1>1 DEF IngressInv, Handled
<1>3. accepted' = [accepted EXCEPT ![Last] = r]
  BY <1>2 DEF send_content, RecordFields
<1>4. /\ DOMAIN r = RecordFields /\ r.snapshot = accepted[Last].snapshot /\ r.fate = "pending"
      /\ r.view = accepted[Last].view /\ r.service = accepted[Last].service
      /\ r.s = accepted[Last].s /\ r.offset = accepted[Last].offset /\ r.data = accepted[Last].data
  BY <1>2 DEF RecordFields
<1> HIDE DEF r
<1>5. /\ Kept /\ DOMAIN accepted' = DOMAIN accepted /\ Last' = Last /\ accepted'[Last] = r
      /\ \A k \in DOMAIN accepted \ {Last} : accepted'[k] = accepted[k]
  BY <1>2, <1>3, <1>4, KeptByLast
<1>6. item.kind = "content" /\ item.k = Last
  OBVIOUS
<1> HIDE DEF item
<1>7. accepted'[Last].snapshot = accepted[Last].snapshot
  BY <1>4, <1>5
<1> QED
  BY <1>1, <1>2, <1>5, <1>6, <1>7

(* Where the queue stays and nothing new is on its way, it stays sound.    *)
LEMMA QueueKept ==
    ASSUME IngressInv, QueueInv, Kept, queue' = queue,
           \A f : \A i \in DOMAIN queue : Awaited(f, i)' => Awaited(f, i)
    PROVE  QueueInv'
<1>1. Len(queue') <= QueueCap
  BY DEF QueueInv
<1>2. ASSUME NEW i \in DOMAIN queue, queue[i].kind = "content"
      PROVE  /\ \A j \in DOMAIN accepted' : accepted'[j].fate = "scanned" => j < queue[i].k
             /\ \A j \in DOMAIN queue : j < i /\ queue[j].kind = "content" => queue[j].k < queue[i].k
  BY <1>2 DEF QueueInv, Kept
<1>3. ASSUME NEW i \in DOMAIN queue, queue[i].kind = "closed" PROVE ~Awaited(queue[i].f, i)'
  <2>1. ~Awaited(queue[i].f, i)
    BY <1>3 DEF QueueInv
  <2> QED
    BY <2>1
<1> QED
  BY <1>1, <1>2, <1>3 DEF QueueInv

(* What is awaited after a step of the L7 worker was awaited before.       *)
LEMMA AwaitedReadMask ==
    ASSUME IngressInv, TrafficInv, ReadMask, NEW f, NEW i, Awaited(f, i)'
    PROVE  Awaited(f, i)
<1>1. /\ traffic # <<>> /\ traffic' = Tail(traffic) /\ accepted' = accepted /\ queue' = queue
      /\ l7'.pc = "read" /\ l7'.piece = Head(traffic)
  BY DEF ReadMask
<1>2. /\ Len(traffic) \in Nat \ {0} /\ DOMAIN traffic = 1 .. Len(traffic) /\ Head(traffic) = traffic[1]
      /\ \A j \in DOMAIN Tail(traffic) : j + 1 \in DOMAIN traffic /\ Tail(traffic)[j] = traffic[j + 1]
  BY <1>1, TailOfSequence DEF TrafficInv
<1>3. 1 \in DOMAIN traffic
  BY <1>2
<1>4. CASE \E j \in DOMAIN traffic' : FlowOf(traffic'[j]) = f
  <2>1. PICK j \in DOMAIN traffic' : FlowOf(traffic'[j]) = f
    BY <1>4
  <2>2. j + 1 \in DOMAIN traffic /\ traffic'[j] = traffic[j + 1]
    BY <1>1, <1>2
  <2> QED
    BY <2>1, <2>2 DEF Awaited
<1>5. CASE FlowOf(l7'.piece) = f
  BY <1>1, <1>2, <1>3, <1>5 DEF Awaited
<1>6. CASE \E j \in DOMAIN queue : j > i /\ queue[j].kind = "content" /\ FlowOf(accepted[queue[j].k]) = f
  BY <1>6 DEF Awaited
<1> QED
  BY <1>1, <1>4, <1>5, <1>6 DEF Awaited, Handled

(* The piece that was read becomes a record.                               *)
LEMMA AwaitedAccept ==
    ASSUME IngressInv, TrafficInv, RecordsInv, Accept, Revisions \subseteq Revisions', NEW f, NEW i, Awaited(f, i)'
    PROVE  Awaited(f, i)
<1>1. /\ Len(accepted) \in Nat /\ DOMAIN accepted = 1 .. Len(accepted)
      /\ DOMAIN accepted' = 1 .. Len(accepted) + 1
      /\ \A k \in DOMAIN accepted : accepted'[k] = accepted[k]
      /\ accepted'[Len(accepted) + 1].s = l7.piece.s
  BY RecordsAccept DEF IngressInv
<1>2. l7.pc = "read" /\ l7'.pc \in {"accepted", "idle"} /\ queue' = queue /\ traffic' = traffic
  BY DEF Accept
<1>3. Last' = Len(accepted) + 1
  BY AppendToSequence DEF IngressInv, Accept, Last
<1>4. CASE FlowOf(accepted[Last])' = f
  <2>1. FlowOf(l7.piece) = f
    BY <1>1, <1>3, <1>4 DEF FlowOf
  <2> QED
    BY <1>2, <2>1 DEF Awaited
<1>5. CASE \E j \in DOMAIN queue' : j > i /\ queue'[j].kind = "content" /\ FlowOf(accepted'[queue'[j].k]) = f
  <2>1. PICK j \in DOMAIN queue : j > i /\ queue[j].kind = "content" /\ FlowOf(accepted'[queue[j].k]) = f
    BY <1>2, <1>5
  <2>2. queue[j].k \in DOMAIN accepted
    BY <2>1 DEF IngressInv
  <2> QED
    BY <1>1, <2>1, <2>2 DEF Awaited
<1>6. CASE \E j \in DOMAIN traffic' : FlowOf(traffic'[j]) = f
  BY <1>2, <1>6 DEF Awaited
<1> QED
  BY <1>2, <1>4, <1>5, <1>6 DEF Awaited

(* The record stays on its way, or is skipped.                             *)
LEMMA AwaitedTakeSnapshot ==
    ASSUME IngressInv, TakeSnapshot, NEW f, NEW i, Awaited(f, i)'
    PROVE  Awaited(f, i)
<1>1. /\ Kept /\ Last' = Last /\ l7.pc = "accepted" /\ l7'.pc \in {"prepared", "idle"}
      /\ queue' = queue /\ traffic' = traffic
  BY TakeSnapshotIs
<1>2. Last \in DOMAIN accepted
  BY <1>1 DEF IngressInv, Handled
<1>3. \A k \in DOMAIN accepted : FlowOf(accepted'[k]) = FlowOf(accepted[k])
  BY <1>1 DEF Kept, BytesKept, FlowOf
<1>4. CASE FlowOf(accepted[Last])' = f
  BY <1>1, <1>2, <1>3, <1>4 DEF Awaited, Handled
<1>5. CASE \E j \in DOMAIN queue' : j > i /\ queue'[j].kind = "content" /\ FlowOf(accepted'[queue'[j].k]) = f
  <2>1. PICK j \in DOMAIN queue : j > i /\ queue[j].kind = "content" /\ FlowOf(accepted'[queue[j].k]) = f
    BY <1>1, <1>5
  <2>2. queue[j].k \in DOMAIN accepted
    BY <2>1 DEF IngressInv
  <2> QED
    BY <1>3, <2>1, <2>2 DEF Awaited
<1>6. CASE \E j \in DOMAIN traffic' : FlowOf(traffic'[j]) = f
  BY <1>1, <1>6 DEF Awaited
<1> QED
  BY <1>1, <1>4, <1>5, <1>6 DEF Awaited

(* The record is in the queue instead of on its way.                       *)
LEMMA AwaitedSend ==
    ASSUME IngressInv, send_content, NEW f, NEW i, Awaited(f, i)'
    PROVE  Awaited(f, i)
<1>1. /\ Kept /\ Last' = Last /\ l7.pc = "prepared" /\ l7'.pc = "idle" /\ Last \in DOMAIN accepted
      /\ traffic' = traffic
  BY SendContentIs
<1>2. PICK item : queue' = Append(queue, item) /\ item.kind = "content" /\ item.k = Last
  BY SendContentIs
<1>3. \A k \in DOMAIN accepted : FlowOf(accepted'[k]) = FlowOf(accepted[k])
  BY <1>1 DEF Kept, BytesKept, FlowOf
<1>4. /\ Len(queue) \in Nat /\ DOMAIN queue = 1 .. Len(queue) /\ DOMAIN queue' = 1 .. Len(queue) + 1
      /\ \A j \in DOMAIN queue : queue'[j] = queue[j]
      /\ queue'[Len(queue) + 1] = item
  BY <1>2, AppendToSequence DEF IngressInv
<1>5. CASE \E j \in DOMAIN queue' : j > i /\ queue'[j].kind = "content" /\ FlowOf(accepted'[queue'[j].k]) = f
  <2>1. PICK j \in DOMAIN queue' : j > i /\ queue'[j].kind = "content" /\ FlowOf(accepted'[queue'[j].k]) = f
    BY <1>5
  <2>2. CASE j \in DOMAIN queue
    <3>1. queue[j].k \in DOMAIN accepted /\ queue'[j] = queue[j]
      BY <1>4, <2>1, <2>2 DEF IngressInv
    <3> QED
      BY <1>3, <2>1, <2>2, <3>1 DEF Awaited
  <2>3. CASE j = Len(queue) + 1
    BY <1>1, <1>2, <1>3, <1>4, <2>1, <2>3 DEF Awaited, Handled
  <2> QED
    BY <1>4, <2>2, <2>3
<1>6. CASE \E j \in DOMAIN traffic' : FlowOf(traffic'[j]) = f
  BY <1>1, <1>6 DEF Awaited
<1> QED
  BY <1>1, <1>5, <1>6 DEF Awaited, Handled

(* The notice that a flow has closed.                                      *)
LEMMA ClosedIs ==
    ASSUME IngressInv, try_flow_closed
    PROVE  /\ l7'.pc \in {"ended", "closed"} /\ accepted' = accepted /\ traffic' = traffic
           /\ \/ queue' = queue
              \/ \E item : /\ queue' = Append(queue, item) /\ item.kind = "closed" /\ Len(queue) < QueueCap
                           /\ \A j \in DOMAIN traffic : FlowOf(traffic[j]) # item.f
<1> DEFINE item == [kind |-> "closed", f |-> FlowOf(accepted[Last])]
<1>1. /\ accepted' = accepted /\ traffic' = traffic
      /\ ~\E j \in DOMAIN traffic : FlowOf(traffic[j]) = FlowOf(accepted[Last])
      /\ (Len(queue) < QueueCap /\ queue' = Append(queue, item)) \/ queue' = queue
      /\ l7' = [pc |-> IF traffic = <<>> THEN "ended" ELSE "closed"]
  BY DEF try_flow_closed
<1>2. item.kind = "closed" /\ item.f = FlowOf(accepted[Last]) /\ l7'.pc \in {"ended", "closed"}
  BY <1>1
<1> HIDE DEF item
<1> QED
  BY <1>1, <1>2
(* A notice in the queue is no record.                                     *)
LEMMA AwaitedClosed ==
    ASSUME IngressInv, try_flow_closed, NEW f, NEW i, Awaited(f, i)'
    PROVE  Awaited(f, i)
<1>1. l7'.pc \in {"ended", "closed"} /\ accepted' = accepted /\ traffic' = traffic
  BY ClosedIs
<1>2. \A j \in DOMAIN queue' : queue'[j].kind = "content" => j \in DOMAIN queue /\ queue'[j] = queue[j]
  <2>1. ASSUME NEW item, queue' = Append(queue, item), item.kind = "closed"
        PROVE  \A j \in DOMAIN queue' : queue'[j].kind = "content" => j \in DOMAIN queue /\ queue'[j] = queue[j]
    <3>1. /\ Len(queue) \in Nat /\ DOMAIN queue = 1 .. Len(queue) /\ DOMAIN queue' = 1 .. Len(queue) + 1
          /\ \A j \in DOMAIN queue : queue'[j] = queue[j]
          /\ queue'[Len(queue) + 1] = item
      BY <2>1, AppendToSequence DEF IngressInv
    <3>2. \A j \in DOMAIN queue' : j \in DOMAIN queue \/ j = Len(queue) + 1
      BY <3>1
    <3> QED
      BY <2>1, <3>1, <3>2
  <2> QED
    BY <2>1, ClosedIs
<1> QED
  BY <1>1, <1>2 DEF Awaited, Handled

(* The queue after each of these steps.                                    *)
LEMMA QueueSend ==
    ASSUME IngressInv, QueueInv, send_content
    PROVE  QueueInv'
<1>1. /\ Kept /\ DOMAIN accepted' = DOMAIN accepted /\ l7.pc = "prepared" /\ Last \in DOMAIN accepted
      /\ accepted[Last].fate = "pending" /\ Len(queue) < QueueCap
  BY SendContentIs
<1>2. PICK item : queue' = Append(queue, item) /\ item.kind = "content" /\ item.k = Last
  BY SendContentIs
<1>3. /\ Len(queue) \in Nat /\ DOMAIN queue = 1 .. Len(queue) /\ DOMAIN queue' = 1 .. Len(queue) + 1
      /\ \A j \in DOMAIN queue : queue'[j] = queue[j]
      /\ queue'[Len(queue) + 1] = item /\ Len(queue') = Len(queue) + 1
  BY <1>2, AppendToSequence DEF IngressInv
<1>4. Len(accepted) \in Nat /\ DOMAIN accepted = 1 .. Len(accepted) /\ Last = Len(accepted)
  BY SequenceIsNumbered DEF IngressInv, Last
<1>5. Len(queue') <= QueueCap
  BY <1>1, <1>3, MatchingAssumption
<1>6. \A j \in DOMAIN accepted : accepted'[j].fate = "scanned" => accepted[j].fate = "scanned" /\ j < Last
  BY <1>1, <1>4 DEF Kept
<1>7. \A j \in DOMAIN queue : queue[j].kind = "content" => queue[j].k < Last
  <2> SUFFICES ASSUME NEW j \in DOMAIN queue, queue[j].kind = "content" PROVE queue[j].k < Last
    OBVIOUS
  <2>1. queue[j].k \in DOMAIN accepted /\ queue[j].k # Last
    BY <1>1 DEF IngressInv, Handled
  <2> QED
    BY <1>4, <2>1
<1>8. ASSUME NEW i \in DOMAIN queue', queue'[i].kind = "content"
      PROVE  /\ \A j \in DOMAIN accepted' : accepted'[j].fate = "scanned" => j < queue'[i].k
             /\ \A j \in DOMAIN queue' : j < i /\ queue'[j].kind = "content" => queue'[j].k < queue'[i].k
  <2>1. CASE i \in DOMAIN queue
    <3>1. \A j \in DOMAIN queue' : j < i => j \in DOMAIN queue
      BY <1>3, <2>1
    <3> QED
      BY <1>1, <1>3, <1>6, <1>8, <2>1, <3>1 DEF QueueInv
  <2>2. CASE i = Len(queue) + 1
    <3>1. \A j \in DOMAIN queue' : j < i => j \in DOMAIN queue
      BY <1>3, <2>2
    <3> QED
      BY <1>1, <1>2, <1>3, <1>6, <1>7, <2>2, <3>1
  <2> QED
    BY <1>3, <2>1, <2>2
<1>9. ASSUME NEW i \in DOMAIN queue', queue'[i].kind = "closed", NEW f, f = queue'[i].f PROVE ~Awaited(f, i)'
  <2>1. i \in DOMAIN queue /\ queue'[i] = queue[i]
    BY <1>2, <1>3, <1>9
  <2>2. ~Awaited(f, i)
    BY <1>9, <2>1 DEF QueueInv
  <2> QED
    BY <2>2, AwaitedSend
<1> QED
  BY <1>5, <1>8, <1>9 DEF QueueInv

(* A notice is queued behind all the records of its flow.                  *)
LEMMA QueueClosed ==
    ASSUME IngressInv, QueueInv, try_flow_closed
    PROVE  QueueInv'
<1>1. l7'.pc \in {"ended", "closed"} /\ accepted' = accepted /\ traffic' = traffic
  BY ClosedIs
<1>2. CASE queue' = queue
  BY <1>1, <1>2, AwaitedClosed, QueueKept, KeptByAll
<1>3. ASSUME NEW item, queue' = Append(queue, item), item.kind = "closed", Len(queue) < QueueCap,
             \A j \in DOMAIN traffic : FlowOf(traffic[j]) # item.f
      PROVE  QueueInv'
  <2>3. /\ Len(queue) \in Nat /\ DOMAIN queue = 1 .. Len(queue) /\ DOMAIN queue' = 1 .. Len(queue) + 1
        /\ \A j \in DOMAIN queue : queue'[j] = queue[j]
        /\ queue'[Len(queue) + 1] = item /\ Len(queue') = Len(queue) + 1
    BY <1>3, AppendToSequence DEF IngressInv
  <2>4. Len(queue') <= QueueCap
    BY <1>3, <2>3, MatchingAssumption
  <2>5. \A j \in DOMAIN queue' : j \in DOMAIN queue \/ j = Len(queue) + 1
    BY <2>3
  <2>6. ASSUME NEW i \in DOMAIN queue', queue'[i].kind = "content"
        PROVE  /\ \A j \in DOMAIN accepted' : accepted'[j].fate = "scanned" => j < queue'[i].k
               /\ \A j \in DOMAIN queue' : j < i /\ queue'[j].kind = "content" => queue'[j].k < queue'[i].k
    BY <1>1, <1>3, <2>3, <2>5, <2>6 DEF QueueInv
  <2>7. ASSUME NEW i \in DOMAIN queue', queue'[i].kind = "closed", NEW f, f = queue'[i].f PROVE ~Awaited(f, i)'
    <3>1. CASE i \in DOMAIN queue
      <4>1. ~Awaited(f, i)
        BY <2>3, <2>7, <3>1 DEF QueueInv
      <4> QED
        BY <4>1, AwaitedClosed
    <3>2. CASE i = Len(queue) + 1
      <4>1. \A j \in DOMAIN queue' : ~(j > i)
        BY <2>3, <3>2
      <4>2. \A j \in DOMAIN traffic' : FlowOf(traffic'[j]) # f
        BY <1>1, <1>3, <2>3, <2>7, <3>2
      <4> QED
        BY <1>1, <4>1, <4>2 DEF Awaited, Handled
    <3> QED
      BY <2>5, <3>1, <3>2
  <2> QED
    BY <2>4, <2>6, <2>7 DEF QueueInv
<1> QED
  BY <1>2, <1>3, ClosedIs

(* The matcher worker takes the first; what becomes a scanned record, if   *)
(* anything, is what it took.                                              *)
LEMMA QueueTaken ==
    ASSUME IngressInv, QueueInv, queue # <<>>, queue' = Tail(queue), l7' = l7, traffic' = traffic,
           DOMAIN accepted' = DOMAIN accepted, Last' = Last,
           \A k \in DOMAIN accepted :
              /\ accepted'[k].s = accepted[k].s
              /\ accepted'[k].fate = "scanned"
                    => accepted[k].fate = "scanned" \/ (Head(queue).kind = "content" /\ k = Head(queue).k)
    PROVE  /\ QueueInv'
           /\ \A f : \A i \in Nat : Awaited(f, i)' => Awaited(f, i + 1) /\ Awaited(f, i)
<1>1. /\ IsSequence(queue') /\ Len(queue) \in Nat \ {0} /\ DOMAIN queue = 1 .. Len(queue)
      /\ Head(queue) = queue[1] /\ Len(queue') = Len(queue) - 1
      /\ DOMAIN queue' = 1 .. Len(queue) - 1
      /\ \A i \in DOMAIN queue' : i + 1 \in DOMAIN queue /\ queue'[i] = queue[i + 1]
  BY TailOfSequence DEF IngressInv
<1>2. \A k \in DOMAIN accepted : FlowOf(accepted'[k]) = FlowOf(accepted[k])
  BY DEF FlowOf
<1>3. ASSUME NEW f, NEW i \in Nat, Awaited(f, i)' PROVE Awaited(f, i + 1) /\ Awaited(f, i)
  <2>1. CASE \E j \in DOMAIN queue' : j > i /\ queue'[j].kind = "content" /\ FlowOf(accepted'[queue'[j].k]) = f
    <3>1. PICK j \in DOMAIN queue' : j > i /\ queue'[j].kind = "content" /\ FlowOf(accepted'[queue'[j].k]) = f
      BY <2>1
    <3>2. j + 1 \in DOMAIN queue /\ queue'[j] = queue[j + 1] /\ j + 1 > i + 1 /\ j + 1 > i
      BY <1>1, <3>1
    <3>3. queue[j + 1].k \in DOMAIN accepted
      BY <3>1, <3>2 DEF IngressInv
    <3>4. FlowOf(accepted[queue[j + 1].k]) = f /\ queue[j + 1].kind = "content"
      BY <1>2, <3>1, <3>2, <3>3
    <3> QED
      BY <3>2, <3>4 DEF Awaited
  <2>2. CASE l7'.pc \in Handled /\ FlowOf(accepted[Last])' = f
    <3>1. Last \in DOMAIN accepted
      BY <2>2 DEF IngressInv
    <3> QED
      BY <1>2, <2>2, <3>1 DEF Awaited
  <2>3. CASE (l7'.pc = "read" /\ FlowOf(l7'.piece) = f) \/ \E j \in DOMAIN traffic' : FlowOf(traffic'[j]) = f
    BY <2>3 DEF Awaited
  <2> QED
    BY <1>3, <2>1, <2>2, <2>3 DEF Awaited
<1>4. Len(queue') <= QueueCap
  BY <1>1, MatchingAssumption DEF QueueInv
<1>5. ASSUME NEW i \in DOMAIN queue', queue'[i].kind = "content"
      PROVE  /\ \A j \in DOMAIN accepted' : accepted'[j].fate = "scanned" => j < queue'[i].k
             /\ \A j \in DOMAIN queue' : j < i /\ queue'[j].kind = "content" => queue'[j].k < queue'[i].k
  <2>1. /\ i + 1 \in DOMAIN queue /\ queue'[i] = queue[i + 1] /\ queue[i + 1].kind = "content"
        /\ 1 < i + 1 /\ 1 \in DOMAIN queue /\ i \in Nat
    BY <1>1, <1>5
  <2>2. /\ \A j \in DOMAIN accepted : accepted[j].fate = "scanned" => j < queue[i + 1].k
        /\ \A j \in DOMAIN queue : j < i + 1 /\ queue[j].kind = "content" => queue[j].k < queue[i + 1].k
    BY <2>1 DEF QueueInv
  <2>3. Head(queue).kind = "content" => Head(queue).k < queue[i + 1].k
    BY <1>1, <2>1, <2>2
  <2>4. ASSUME NEW j \in DOMAIN queue', j < i, queue'[j].kind = "content" PROVE queue'[j].k < queue'[i].k
    <3>1. j + 1 \in DOMAIN queue /\ queue'[j] = queue[j + 1] /\ j + 1 < i + 1
      BY <1>1, <2>1, <2>4
    <3> QED
      BY <2>1, <2>2, <2>4, <3>1
  <2> QED
    BY <2>1, <2>2, <2>3, <2>4
<1>6. ASSUME NEW i \in DOMAIN queue', queue'[i].kind = "closed", NEW f, f = queue'[i].f PROVE ~Awaited(f, i)'
  <2>1. i + 1 \in DOMAIN queue /\ queue'[i] = queue[i + 1] /\ i \in Nat
    BY <1>1
  <2>2. ~Awaited(f, i + 1)
    BY <1>6, <2>1 DEF QueueInv
  <2> QED
    BY <1>3, <2>1, <2>2
<1> QED
  BY <1>3, <1>4, <1>5, <1>6 DEF QueueInv

-----------------------------------------------------------------------------
(* Tails and hits.                                                         *)

(* Hits on a verbatim stream are occurrences, in bytes that were accepted; *)
(* a live one ends in a record that was scanned. Hits on a decoded stream  *)
(* lie in a body, or across the start of one that another seems to meet.   *)
EndsIn(k, s, end) ==
    /\ accepted[k].fate = "scanned" /\ accepted[k].s = s
    /\ accepted[k].offset < end /\ end <= RecEnd(accepted[k])
HitOfStream(h) ==
    /\ SubSeq(Data(h.s), h.start + 1, h.end) = Word(h.p)
    /\ Whole(h.s, h.start, h.end)
    /\ h.historical = FALSE => \E k \in DOMAIN accepted : EndsIn(k, h.s, h.end)
HitOfBody(h) == \E k \in DOMAIN accepted : Inside(h, accepted[k]) \/ Bridged(h, k)
HitGenuine(h) == h.p \in Revisions /\ (IF Verbatim(h.s) THEN HitOfStream(h) ELSE HitOfBody(h))
HitsInv == ~repeated /\ \A h \in hits : HitGenuine(h)

(* Every tail is true of its stream and registered for clean-up.           *)
TailsInv == TailsTrue(tails) /\ DOMAIN tails \subseteq flow_tail_keys /\ flow_tail_keys \subseteq Streams

(* The bytes from b to the end of record k, scanned with one set.          *)
SameScan(j, k) ==
    /\ accepted[j].fate = "scanned" /\ accepted[j].snapshot = accepted[k].snapshot
    /\ accepted[j].generation = accepted[k].generation
Covers(j, s, x) == accepted[j].s = s /\ accepted[j].offset <= x /\ x < RecEnd(accepted[j])
Run(k, b) ==
    /\ \A j \in DOMAIN accepted :
         j <= k /\ accepted[j].s = accepted[k].s /\ RecEnd(accepted[j]) > b => SameScan(j, k)
    /\ \A x \in b .. RecEnd(accepted[k]) - 1 :
         \E j \in DOMAIN accepted : j <= k /\ Covers(j, accepted[k].s, x)

(* The tail behind the latest scanned record of a verbatim stream from     *)
(* which more is to come reaches back as far as a rule can need.                      *)
Latest1(k) ==
    /\ accepted[k].fate = "scanned"
    /\ \A j \in DOMAIN accepted : j > k /\ accepted[j].s = accepted[k].s => accepted[j].fate # "scanned"
TailHolds(k, b) ==
    LET r == accepted[k] IN
    /\ r.s \in DOMAIN tails /\ tails[r.s].generation = r.generation
    /\ tails[r.s].end_offset = RecEnd(r) /\ RecEnd(r) - b <= Len(tails[r.s].data)
TailReaches(k) ==
    LET r == accepted[k] IN
    /\ Verbatim(r.s) /\ Latest1(k) /\ FlowOf(r) \notin purged /\ Awaited(FlowOf(r), 0) /\ is_interested(r.snapshot, r)
    => \A b \in Nat : /\ b < RecEnd(r) /\ RecEnd(r) - b <= required_overlap(r.snapshot, r) /\ Run(k, b)
                      => TailHolds(k, b)
ReachesInv == \A k \in DOMAIN accepted : TailReaches(k)

(* An occurrence that the scan of record k, the last that holds a byte of  *)
(* it, must have reported.                                                 *)
Due(s, p, o, k) ==
    LET ks == Holding(s, o.start, o.end)
        group == GroupWith(p, accepted[k].snapshot, accepted[k])
    IN  /\ Verbatim(s) /\ Whole(s, o.start, o.end) /\ InWindow(p) /\ StreamOf[s].flow \notin purged
        /\ k \in ks /\ \A q \in ks : q <= k /\ SameScan(q, k) /\ ~accepted[q].limited
        /\ p \in group /\ Isolated(o, Data(s), group)
PublishedInv ==
    \A s \in Streams, p \in Revisions, k \in DOMAIN accepted :
        \A o \in Found({p}, Data(s)) : Due(s, p, o, k) => Hit(o, s, FALSE) \in hits

(* An occurrence in a body that its scan must have reported.               *)
BodyDue(k, p, o) ==
    LET r == accepted[k]
        group == GroupWith(p, r.snapshot, r)
    IN  /\ p \in group /\ Isolated(o, r.data, group)
        /\ ExprOf(p).kind = "literal" \/ ~Meets(k)
BodyDone(k) ==
    LET r == accepted[k] IN
    ~Verbatim(r.s) /\ r.fate = "scanned" /\ ~r.limited =>
        \A p \in Revisions : \A o \in Found({p}, r.data) :
            BodyDue(k, p, o) => Hit(Moved(o, r.offset), r.s, FALSE) \in hits
BodiesInv == \A k \in DOMAIN accepted : BodyDone(k)

HitsExactInv ==
    /\ WordsInv /\ TrafficInv /\ RecordsInv /\ QueueInv /\ HitsInv /\ TailsInv /\ ReachesInv
    /\ PublishedInv /\ BodiesInv

(* Bytes that were accepted stay accepted.                                 *)
LEMMA HoldingStays ==
    ASSUME DOMAIN accepted \subseteq DOMAIN accepted', \A k \in DOMAIN accepted : BytesKept(k),
           NEW s, NEW i, NEW j
    PROVE  /\ \A k \in DOMAIN accepted : k \in Holding(s, i, j)' <=> k \in Holding(s, i, j)
           /\ Whole(s, i, j) => Whole(s, i, j)'
<1>1. \A b, e : \A k \in DOMAIN accepted : k \in Holding(s, b, e)' <=> k \in Holding(s, b, e)
  BY DEF Holding, BytesKept
<1>2. ASSUME Whole(s, i, j), NEW b \in i .. j - 1 PROVE Holding(s, b, b + 1)' # {}
  <2>1. PICK k \in Holding(s, b, b + 1) : TRUE
    BY <1>2 DEF Whole
  <2>2. k \in DOMAIN accepted
    BY <2>1 DEF Holding
  <2> QED
    BY <1>1, <2>1, <2>2
<1> QED
  BY <1>1, <1>2 DEF Whole

(* Bodies that seem to meet go on to.                                      *)
LEMMA MeetsStays ==
    ASSUME DOMAIN accepted \subseteq DOMAIN accepted', \A k \in DOMAIN accepted : BytesKept(k),
           NEW k \in DOMAIN accepted, Meets(k)
    PROVE  Meets(k)'
<1>1. PICK j \in DOMAIN accepted :
         accepted[j].s = accepted[k].s /\ accepted[j].offset + Len(accepted[j].data) = accepted[k].offset
  BY DEF Meets
<1>2. BytesKept(j) /\ BytesKept(k) /\ j \in DOMAIN accepted'
  OBVIOUS
<1> QED
  BY <1>1, <1>2 DEF Meets, BytesKept

(* Hits and tails stay true.                                               *)
LEMMA GenuineStays ==
    ASSUME Grown, DOMAIN accepted \subseteq DOMAIN accepted',
           \A k \in DOMAIN accepted :
              BytesKept(k) /\ (accepted[k].fate = "scanned" => accepted'[k].fate = "scanned"),
           NEW h, HitGenuine(h)
    PROVE  HitGenuine(h)'
<1>1. h.p \in Revisions' /\ ExprOf(h.p)' = ExprOf(h.p)
  BY RevisionsStay DEF HitGenuine, ExprOf
<1>2. ASSUME HitOfStream(h) PROVE HitOfStream(h)'
  <2>1. Whole(h.s, h.start, h.end)'
    BY <1>2, HoldingStays DEF HitOfStream
  <2>2. ASSUME NEW k \in DOMAIN accepted, EndsIn(k, h.s, h.end) PROVE EndsIn(k, h.s, h.end)'
    BY <2>2 DEF EndsIn, BytesKept, RecEnd
  <2>3. SubSeq(Data(h.s), h.start + 1, h.end) = Word(h.p)'
    BY <1>1, <1>2 DEF HitOfStream, Word
  <2> QED
    BY <1>2, <2>1, <2>2, <2>3 DEF HitOfStream
<1>3. ASSUME HitOfBody(h) PROVE HitOfBody(h)'
  <2>1. PICK k \in DOMAIN accepted : Inside(h, accepted[k]) \/ Bridged(h, k)
    BY <1>3 DEF HitOfBody
  <2>2. BytesKept(k) /\ k \in DOMAIN accepted'
    OBVIOUS
  <2>3. CASE Inside(h, accepted[k])
    <3>1. Inside(h, accepted[k])'
      BY <1>1, <2>2, <2>3 DEF Inside, BytesKept
    <3> QED
      BY <2>2, <3>1 DEF HitOfBody
  <2>4. CASE Bridged(h, k)
    <3>1. Meets(k)'
      BY <2>4, MeetsStays DEF Bridged
    <3>2. Bridged(h, k)'
      BY <2>2, <2>4, <3>1 DEF Bridged, BytesKept
    <3> QED
      BY <2>2, <3>2 DEF HitOfBody
  <2> QED
    BY <2>1, <2>3, <2>4
<1> QED
  BY <1>1, <1>2, <1>3 DEF HitGenuine

(* And tails.                                                              *)
LEMMA TailsStayTrue ==
    ASSUME DOMAIN accepted \subseteq DOMAIN accepted', \A k \in DOMAIN accepted : BytesKept(k),
           NEW ts, TailsTrue(ts)
    PROVE  TailsTrue(ts)'
<1>1. ASSUME NEW s \in DOMAIN ts, Verbatim(s) PROVE TailTrue(s, ts[s])'
  <2>1. TailTrue(s, ts[s])
    BY <1>1 DEF TailsTrue
  <2>2. Whole(s, ts[s].end_offset - Len(ts[s].data), ts[s].end_offset)'
    BY <2>1, HoldingStays DEF TailTrue
  <2> QED
    BY <2>1, <2>2 DEF TailTrue
<1>2. ASSUME NEW s \in DOMAIN ts, ~Verbatim(s) PROVE TailBody(s, ts[s])'
  <2>1. TailBody(s, ts[s])
    BY <1>2 DEF TailsTrue
  <2>2. ASSUME NEW j \in DOMAIN accepted, accepted[j].s = s,
               accepted[j].offset + Len(accepted[j].data) = ts[s].end_offset
        PROVE  /\ j \in DOMAIN accepted' /\ accepted'[j].s = s
               /\ accepted'[j].offset + Len(accepted'[j].data) = ts[s].end_offset
    <3>1. BytesKept(j)
      OBVIOUS
    <3> QED
      BY <2>2, <3>1 DEF BytesKept
  <2> QED
    BY <2>1, <2>2 DEF TailBody
<1> QED
  BY <1>1, <1>2 DEF TailsTrue

(* How far a tail reaches does not change when its stream is left alone.   *)
LEMMA TailReachesKept ==
    ASSUME NEW k \in DOMAIN accepted, TailReaches(k), Grown, accepted[k].snapshot \subseteq Revisions,
           DOMAIN accepted \subseteq DOMAIN accepted',
           \A n \in DOMAIN accepted' \ DOMAIN accepted : \A j \in DOMAIN accepted : j < n,
           DOMAIN accepted' \subseteq Int,
           \A j \in DOMAIN accepted :
              /\ BytesKept(j)
              /\ accepted[j].s = accepted[k].s =>
                    /\ accepted'[j].fate = "scanned" => accepted[j].fate = "scanned"
                    /\ accepted[j].fate = "scanned" => accepted'[j] = accepted[j],
           NEW f, f = FlowOf(accepted[k]), Awaited(f, 0)' => Awaited(f, 0), purged \subseteq purged',
           Awaited(f, 0)' /\ f \notin purged' /\ accepted[k].s \in DOMAIN tails =>
              accepted[k].s \in DOMAIN tails' /\ tails'[accepted[k].s] = tails[accepted[k].s]
    PROVE  TailReaches(k)'
<1> DEFINE r == accepted[k]
<1> SUFFICES ASSUME Verbatim(r.s)', Latest1(k)', FlowOf(r)' \notin purged', Awaited(f, 0)',
                    is_interested(r.snapshot, r)',
                    NEW b \in Nat, b < RecEnd(r'), RecEnd(r') - b <= required_overlap(r.snapshot, r)',
                    Run(k, b)'
             PROVE  TailHolds(k, b)'
  <2>1. FlowOf(r)' = f
    BY DEF FlowOf, BytesKept
  <2> QED
    BY <2>1 DEF TailReaches, RecEnd
<1>1. r.fate = "scanned" /\ r' = r
  BY DEF Latest1
<1>2. FlowOf(r) = f /\ f \notin purged
  BY <1>1 DEF FlowOf
<1>3. Latest1(k)
  <2>1. ASSUME NEW j \in DOMAIN accepted, j > k, accepted[j].s = r.s PROVE accepted[j].fate # "scanned"
    <3>1. BytesKept(j) /\ (accepted[j].fate = "scanned" => accepted'[j] = accepted[j])
      BY <2>1
    <3> QED
      BY <1>1, <2>1, <3>1 DEF Latest1, BytesKept
  <2> QED
    BY <1>1, <2>1 DEF Latest1
<1>4. /\ is_interested(r.snapshot, r) /\ b < RecEnd(r) /\ RecEnd(r) - b <= required_overlap(r.snapshot, r)
  <2>1. ASSUME NEW set, NEW x, set = r.snapshot, x = r
        PROVE  /\ required_overlap(set, x)' = required_overlap(set, x)
               /\ is_interested(set, x)' <=> is_interested(set, x)
    BY <2>1, OverlapStays
  <2>2. /\ required_overlap(r.snapshot, r)' = required_overlap(r.snapshot, r)
        /\ is_interested(r.snapshot, r)' <=> is_interested(r.snapshot, r)
    BY <1>1, <2>1
  <2> QED
    BY <1>1, <2>2
<1>5. Run(k, b)
  <2>1. ASSUME NEW j \in DOMAIN accepted, j <= k, accepted[j].s = r.s, RecEnd(accepted[j]) > b
        PROVE  SameScan(j, k)
    <3>1. BytesKept(j)
      OBVIOUS
    <3>2. accepted'[j].s = r'.s /\ RecEnd(accepted'[j]) > b
      BY <1>1, <2>1, <3>1 DEF BytesKept, RecEnd
    <3>3. SameScan(j, k)'
      BY <2>1, <3>2 DEF Run
    <3>4. accepted[j].fate = "scanned" /\ accepted'[j] = accepted[j]
      BY <2>1, <3>3 DEF SameScan
    <3> QED
      BY <1>1, <3>3, <3>4 DEF SameScan
  <2>2. ASSUME NEW x \in b .. RecEnd(r) - 1
        PROVE  \E j \in DOMAIN accepted : j <= k /\ Covers(j, r.s, x)
    <3>1. PICK j \in DOMAIN accepted' : j <= k /\ Covers(j, r.s, x)'
      BY <1>1, <2>2 DEF Run
    <3>2. j \in DOMAIN accepted
      <4>1. CASE j \notin DOMAIN accepted
        <5>1. k < j /\ k \in Int /\ j \in Int
          BY <4>1
        <5> QED
          BY <3>1, <5>1
      <4> QED
        BY <4>1
    <3>3. Covers(j, r.s, x)
      BY <1>1, <3>1, <3>2 DEF Covers, BytesKept, RecEnd
    <3> QED
      BY <3>1, <3>2, <3>3
  <2> QED
    BY <2>1, <2>2 DEF Run
<1>6. TailHolds(k, b)
  BY <1>1, <1>2, <1>3, <1>4, <1>5 DEF TailReaches
<1> QED
  BY <1>1, <1>2, <1>6 DEF TailHolds

(* What competes with an occurrence.                                       *)
LEMMA IsolatedStays ==
    ASSUME Grown, NEW group, group \subseteq Revisions, NEW o, o.p \in group, NEW text
    PROVE  Isolated(o, text, group)' <=> Isolated(o, text, group)
<1> DEFINE rivals == IF ExprOf(o.p).kind = "literal" THEN OfKind(group, "literal") ELSE {o.p}
<1>1. ExprOf(o.p)' = ExprOf(o.p) /\ OfKind(group, "literal")' = OfKind(group, "literal")
  BY SetStays
<1>2. rivals' = rivals /\ rivals \subseteq Revisions
  BY <1>1 DEF OfKind
<1>3. ASSUME NEW set, set \subseteq Revisions PROVE Found(set, text)' = Found(set, text)
  BY <1>3, SetStays
<1>4. Found(rivals, text)' = Found(rivals, text)
  BY <1>2, <1>3
<1>5. /\ Isolated(o, text, group) <=> \A q \in Found(rivals, text) : q = o \/ q.end <= o.start \/ q.start >= o.end
      /\ Isolated(o, text, group)' <=> \A q \in Found(rivals, text)' : q = o \/ q.end <= o.start \/ q.start >= o.end
  BY DEF Isolated
<1> HIDE DEF rivals
<1> QED
  BY <1>4, <1>5

(* An occurrence whose records are left alone was due before.              *)
LEMMA DueKept ==
    ASSUME RegistryShape, WordsInv, RecordsInv, RecordsInv', Grown,
           DOMAIN accepted \subseteq DOMAIN accepted', \A j \in DOMAIN accepted : BytesKept(j),
           purged \subseteq purged', NEW s \in Streams, NEW p \in Revisions', NEW k \in DOMAIN accepted',
           NEW o \in Found({p}, Data(s))', Due(s, p, o, k)',
           \A q \in Holding(s, o.start, o.end)' :
              q \in DOMAIN accepted /\ accepted[q].fate = "scanned" /\ accepted'[q] = accepted[q]
    PROVE  /\ p \in Revisions /\ k \in DOMAIN accepted /\ o \in Found({p}, Data(s))
           /\ Due(s, p, o, k)
<1>1. /\ Verbatim(s) /\ Whole(s, o.start, o.end)' /\ InWindow(p)' /\ StreamOf[s].flow \notin purged'
      /\ k \in Holding(s, o.start, o.end)'
      /\ \A q \in Holding(s, o.start, o.end)' : q <= k /\ SameScan(q, k)' /\ ~accepted'[q].limited
      /\ p \in GroupWith(p, accepted[k].snapshot, accepted[k])'
      /\ Isolated(o, Data(s), GroupWith(p, accepted[k].snapshot, accepted[k]))'
  BY DEF Due
<1>2. PICK r : r = accepted[k]
  OBVIOUS
<1>3. k \in DOMAIN accepted /\ accepted'[k] = r /\ r.snapshot \subseteq Revisions
  BY <1>1, <1>2 DEF RecordsInv
<1>4. PICK set : set = r.snapshot
  OBVIOUS
<1>5. /\ GlobalGroup(set, r)' = GlobalGroup(set, r) /\ ServiceGroup(set, r)' = ServiceGroup(set, r)
      /\ GlobalGroup(set, r) \subseteq set /\ ServiceGroup(set, r) \subseteq set
  <2>1. GlobalGroup(set, r)' = GlobalGroup(set, r) /\ ServiceGroup(set, r)' = ServiceGroup(set, r)
    BY <1>3, <1>4, SetStays
  <2> QED
    BY <2>1 DEF GlobalGroup, ServiceGroup, Group
<1>6. GroupWith(p, accepted[k].snapshot, accepted[k])' = GroupWith(p, set, r)
  <2>1. GroupWith(p, accepted[k].snapshot, accepted[k])' = GroupWith(p, set, r)'
    BY <1>3, <1>4 DEF GroupWith
  <2> QED
    BY <1>5, <2>1 DEF GroupWith
<1>7. GroupWith(p, set, r) \subseteq set
  BY <1>5 DEF GroupWith
<1>8. PICK group : group = GroupWith(p, set, r)
  OBVIOUS
<1>9. p \in group /\ group \subseteq Revisions /\ p \in Revisions
  BY <1>1, <1>3, <1>4, <1>6, <1>7, <1>8
<1>10. /\ Found({p}, Data(s))' = Found({p}, Data(s)) /\ ExprOf(p)' = ExprOf(p)
       /\ Compiled({p})
  <2>1. {p} \subseteq Revisions
    BY <1>9
  <2> QED
    BY <2>1, SetStays, RevisionsCompiled
<1>11. /\ o \in Found({p}, Data(s)) /\ o.p = p /\ o.start \in Nat /\ o.end \in Nat
  BY <1>1, <1>10, FoundIs, TrafficAssumption
<1>12. Isolated(o, Data(s), group)
  <2>1. Isolated(o, Data(s), GroupWith(p, accepted[k].snapshot, accepted[k]))' <=> Isolated(o, Data(s), group)'
    BY <1>6, <1>8 DEF Isolated
  <2> QED
    BY <1>1, <1>9, <1>11, <2>1, IsolatedStays
<1>13. InWindow(p) /\ StreamOf[s].flow \notin purged
  BY <1>1, <1>10 DEF InWindow
<1>14. \A q : q \in Holding(s, o.start, o.end)' <=> q \in Holding(s, o.start, o.end)
  <2>1. \A q \in Holding(s, o.start, o.end) : q \in DOMAIN accepted
    BY DEF Holding
  <2> QED
    BY <2>1, HoldingStays
<1>15. Whole(s, o.start, o.end)
  <2> SUFFICES ASSUME NEW b \in o.start .. o.end - 1 PROVE Holding(s, b, b + 1) # {}
    BY DEF Whole
  <2>1. PICK q \in Holding(s, b, b + 1)' : TRUE
    BY <1>1 DEF Whole
  <2>2. /\ q \in DOMAIN accepted' /\ accepted'[q].s = s /\ accepted'[q].offset < b + 1
        /\ RecEnd(accepted'[q]) > b
    BY <2>1 DEF Holding, RecEnd
  <2>3. accepted'[q].offset \in Nat /\ RecEnd(accepted'[q]) \in Nat
    BY <2>2 DEF RecordsInv, RecordSound, Piece, RecordTyped, RecEnd
  <2>4. accepted'[q].offset < o.end /\ RecEnd(accepted'[q]) > o.start
    BY <1>11, <2>2, <2>3
  <2>5. q \in Holding(s, o.start, o.end)'
    BY <2>2, <2>4 DEF Holding, RecEnd
  <2>6. q \in DOMAIN accepted
    BY <2>5
  <2> QED
    BY <2>1, <2>6, HoldingStays
<1>16. \A q \in Holding(s, o.start, o.end) : q <= k /\ SameScan(q, k) /\ ~accepted[q].limited
  BY <1>1, <1>14 DEF SameScan
<1> QED
  BY <1>1, <1>2, <1>3, <1>4, <1>8, <1>9, <1>11, <1>12, <1>13, <1>14, <1>15, <1>16 DEF Due

(* And a body that is left alone.                                          *)
LEMMA BodyKept ==
    ASSUME RegistryShape, WordsInv, RecordsInv, Grown,
           DOMAIN accepted \subseteq DOMAIN accepted', \A j \in DOMAIN accepted : BytesKept(j),
           hits \subseteq hits', NEW k \in DOMAIN accepted, BodyDone(k),
           accepted'[k].fate = "scanned" => accepted'[k] = accepted[k]
    PROVE  BodyDone(k)'
<1>1. PICK r : r = accepted[k]
  OBVIOUS
<1> SUFFICES ASSUME ~Verbatim(accepted'[k].s), accepted'[k].fate = "scanned", ~accepted'[k].limited,
                    NEW p \in Revisions', NEW o \in Found({p}, accepted[k].data)', BodyDue(k, p, o)'
             PROVE  Hit(Moved(o, accepted'[k].offset), accepted'[k].s, FALSE) \in hits'
  BY DEF BodyDone, Moved, Hit
<1>2. accepted'[k] = r /\ r.snapshot \subseteq Revisions /\ IsSequence(r.data)
  BY <1>1 DEF RecordsInv, RecordSound, Piece, RecordTyped
<1>3. PICK set, text : set = r.snapshot /\ text = r.data
  OBVIOUS
<1>4. /\ p \in GroupWith(p, accepted[k].snapshot, accepted[k])'
      /\ Isolated(o, accepted[k].data, GroupWith(p, accepted[k].snapshot, accepted[k]))'
      /\ (ExprOf(p).kind)' = "literal" \/ ~Meets(k)'
  BY DEF BodyDue
<1>5. /\ GlobalGroup(set, r)' = GlobalGroup(set, r) /\ ServiceGroup(set, r)' = ServiceGroup(set, r)
      /\ GlobalGroup(set, r) \subseteq set /\ ServiceGroup(set, r) \subseteq set
  <2>1. GlobalGroup(set, r)' = GlobalGroup(set, r) /\ ServiceGroup(set, r)' = ServiceGroup(set, r)
    BY <1>2, <1>3, SetStays
  <2> QED
    BY <2>1 DEF GlobalGroup, ServiceGroup, Group
<1>6. GroupWith(p, accepted[k].snapshot, accepted[k])' = GroupWith(p, set, r)
  <2>1. GroupWith(p, accepted[k].snapshot, accepted[k])' = GroupWith(p, set, r)'
    BY <1>2, <1>3 DEF GroupWith
  <2> QED
    BY <1>5, <2>1 DEF GroupWith
<1>7. PICK group : group = GroupWith(p, set, r)
  OBVIOUS
<1>8. p \in group /\ group \subseteq Revisions /\ p \in Revisions
  BY <1>2, <1>3, <1>4, <1>5, <1>6, <1>7 DEF GroupWith
<1>9. Found({p}, text)' = Found({p}, text) /\ ExprOf(p)' = ExprOf(p) /\ Compiled({p})
  <2>1. {p} \subseteq Revisions
    BY <1>8
  <2> QED
    BY <2>1, SetStays, RevisionsCompiled
<1>10. o \in Found({p}, text) /\ o.p = p
  <2>1. o \in Found({p}, text)
    BY <1>2, <1>3, <1>9 DEF Found, Occurrences
  <2> QED
    BY <1>2, <1>3, <1>9, <2>1, FoundIs
<1>11. Isolated(o, text, group)
  <2>1. Isolated(o, accepted[k].data, GroupWith(p, accepted[k].snapshot, accepted[k]))' <=> Isolated(o, text, group)'
    BY <1>2, <1>3, <1>6, <1>7 DEF Isolated, Found, Occurrences
  <2> QED
    BY <1>4, <1>8, <1>10, <2>1, IsolatedStays
<1>12. ExprOf(p).kind = "literal" \/ ~Meets(k)
  BY <1>4, <1>9, MeetsStays
<1>13. BodyDue(k, p, o)
  BY <1>1, <1>3, <1>7, <1>8, <1>11, <1>12 DEF BodyDue
<1>14. Hit(Moved(o, r.offset), r.s, FALSE) \in hits
  BY <1>1, <1>2, <1>3, <1>8, <1>10, <1>13 DEF BodyDone
<1> QED
  BY <1>2, <1>14

(* A step that scans no record.                                            *)
LEMMA ExactKept ==
    ASSUME RegistryShape, HitsExactInv, RecordsInv', Grown, Kept, DOMAIN accepted' \subseteq Int,
           hits \subseteq hits', repeated' = repeated, \A h \in hits' \ hits : HitGenuine(h)',
           purged \subseteq purged', \A f : Awaited(f, 0)' => Awaited(f, 0),
           DOMAIN tails' \subseteq DOMAIN tails, \A s \in DOMAIN tails' : tails'[s] = tails[s],
           \A s \in DOMAIN tails : Awaited(StreamOf[s].flow, 0)' => s \in DOMAIN tails',
           DOMAIN tails' \subseteq flow_tail_keys', flow_tail_keys' \subseteq flow_tail_keys
    PROVE  HitsInv' /\ TailsInv' /\ ReachesInv' /\ PublishedInv' /\ BodiesInv'
<1>1. /\ DOMAIN accepted \subseteq DOMAIN accepted' /\ \A k \in DOMAIN accepted : BytesKept(k)
      /\ \A k \in DOMAIN accepted : accepted[k].fate = "scanned" => accepted'[k] = accepted[k]
      /\ \A k \in DOMAIN accepted : accepted'[k].fate = "scanned" => accepted[k].fate = "scanned"
      /\ \A k \in DOMAIN accepted' \ DOMAIN accepted :
            accepted'[k].fate # "scanned" /\ \A j \in DOMAIN accepted : j < k
  BY DEF Kept
<1>2. WordsInv /\ RecordsInv /\ HitsInv /\ TailsInv /\ ReachesInv /\ PublishedInv /\ BodiesInv
  BY DEF HitsExactInv
<1>3. HitsInv'
  <2>1. \A k \in DOMAIN accepted : accepted[k].fate = "scanned" => accepted'[k].fate = "scanned"
    BY <1>1
  <2>2. \A h \in hits : HitGenuine(h)'
    BY <1>1, <1>2, <2>1, GenuineStays DEF HitsInv
  <2> QED
    BY <1>2, <2>2 DEF HitsInv
<1>4. TailsInv'
  <2>1. PICK ts : ts = tails
    OBVIOUS
  <2>2. TailsTrue(ts)'
    BY <1>1, <1>2, <2>1, TailsStayTrue DEF TailsInv
  <2>3. DOMAIN tails' \subseteq DOMAIN ts /\ \A s \in DOMAIN tails' : tails'[s] = ts[s]
    BY <2>1
  <2>4. TailsTrue(tails)'
    BY <2>2, <2>3 DEF TailsTrue, TailTrue, TailBody
  <2> QED
    BY <1>2, <2>4 DEF TailsInv
<1>5. ASSUME NEW k \in DOMAIN accepted' PROVE TailReaches(k)'
  <2>1. CASE k \notin DOMAIN accepted
    <3>1. ~Latest1(k)'
      BY <1>1, <2>1 DEF Latest1
    <3> QED
      BY <3>1 DEF TailReaches
  <2>2. CASE k \in DOMAIN accepted
    <3>1. PICK f : f = FlowOf(accepted[k])
      OBVIOUS
    <3>2. TailReaches(k) /\ accepted[k].snapshot \subseteq Revisions
      BY <1>2, <2>2 DEF ReachesInv, RecordsInv
    <3>3. Awaited(f, 0)' /\ f \notin purged' /\ accepted[k].s \in DOMAIN tails =>
             accepted[k].s \in DOMAIN tails' /\ tails'[accepted[k].s] = tails[accepted[k].s]
      <4>1. PICK s : s = accepted[k].s
        OBVIOUS
      <4>2. f = StreamOf[s].flow
        BY <3>1, <4>1 DEF FlowOf
      <4> QED
        BY <4>1, <4>2
    <3>4. Awaited(f, 0)' => Awaited(f, 0)
      OBVIOUS
    <3> QED
      BY <1>1, <2>2, <3>1, <3>2, <3>3, <3>4, TailReachesKept
  <2> QED
    BY <2>1, <2>2
<1>6. ASSUME NEW s \in Streams, NEW p \in Revisions', NEW k \in DOMAIN accepted',
             NEW o \in Found({p}, Data(s))', Due(s, p, o, k)'
      PROVE  Hit(o, s, FALSE) \in hits'
  <2>1. \A q \in Holding(s, o.start, o.end)' :
           q \in DOMAIN accepted /\ accepted[q].fate = "scanned" /\ accepted'[q] = accepted[q]
    <3> SUFFICES ASSUME NEW q \in Holding(s, o.start, o.end)'
                 PROVE  q \in DOMAIN accepted /\ accepted[q].fate = "scanned" /\ accepted'[q] = accepted[q]
      OBVIOUS
    <3>1. q \in DOMAIN accepted' /\ accepted'[q].fate = "scanned"
      BY <1>6 DEF Due, SameScan, Holding
    <3> QED
      BY <1>1, <3>1
  <2>2. p \in Revisions /\ k \in DOMAIN accepted /\ o \in Found({p}, Data(s)) /\ Due(s, p, o, k)
    BY <1>1, <1>2, <1>6, <2>1, DueKept
  <2>3. Hit(o, s, FALSE) \in hits
    BY <1>2, <2>2 DEF PublishedInv
  <2> QED
    BY <2>3
<1>7. ASSUME NEW k \in DOMAIN accepted' PROVE BodyDone(k)'
  <2>1. CASE k \notin DOMAIN accepted
    BY <1>1, <2>1 DEF BodyDone
  <2>2. CASE k \in DOMAIN accepted
    BY <1>1, <1>2, <2>2, BodyKept DEF BodiesInv
  <2> QED
    BY <2>1, <2>2
<1> QED
  BY <1>3, <1>4, <1>5, <1>6, <1>7 DEF ReachesInv, PublishedInv, BodiesInv

-----------------------------------------------------------------------------
(* The steps, one by one.                                                  *)

(* Nothing of the records and the matcher changes.                         *)
LEMMA ExactUntouched ==
    ASSUME MatchingInv, HitsExactInv, Grown, WordsInv',
           UNCHANGED <<accepted, queue, l7, traffic, matcher>>
    PROVE  HitsExactInv'
<1>1. /\ accepted' = accepted /\ queue' = queue /\ l7' = l7 /\ traffic' = traffic /\ tails' = tails
      /\ flow_tail_keys' = flow_tail_keys /\ hits' = hits /\ repeated' = repeated /\ purged' = purged
  BY DEF matcher
<1>2. IngressInv /\ RegistryShape /\ TrafficInv /\ RecordsInv /\ QueueInv /\ TailsInv
  BY DEF MatchingInv, RegistryInv, HitsExactInv
<1>3. Kept /\ DOMAIN accepted' \subseteq Int
  BY <1>1, <1>2, KeptByAll, SequenceIsNumbered DEF IngressInv
<1>4. TrafficInv' /\ RecordsInv'
  <2>1. \A k \in DOMAIN accepted : BytesKept(k) /\ accepted'[k].snapshot \subseteq Revisions'
    BY <1>1, <1>2, RevisionsStay DEF BytesKept, RecordsInv
  <2> QED
    BY <1>1, <1>2, <2>1, RecordsKept
<1>5. \A f, i : Awaited(f, i)' => Awaited(f, i)
  BY <1>1 DEF Awaited, Last
<1>6. QueueInv'
  BY <1>1, <1>2, <1>3, <1>5, QueueKept
<1>7. HitsInv' /\ TailsInv' /\ ReachesInv' /\ PublishedInv' /\ BodiesInv'
  BY <1>1, <1>2, <1>3, <1>4, <1>5, ExactKept DEF TailsInv
<1> QED
  BY <1>4, <1>6, <1>7 DEF HitsExactInv

(* A step of a request.                                                    *)
LEMMA ExactRequest ==
    ASSUME MatchingInv, HitsExactInv, NEW o \in Ops, RequestStep(o)
    PROVE  HitsExactInv'
<1>1. RegistryInv /\ WordsInv
  BY DEF MatchingInv, HitsExactInv
<1>2. Grown /\ RecordsStay
  BY <1>1, RegistryStep
<1>3. WordsInv'
  BY <1>1, <1>2, WordsSubmit, WordsInsert, WordsInstall DEF RequestStep
<1>4. UNCHANGED <<traffic, matcher>>
  BY DEF RequestStep, create_or_update_pattern, set_pattern_enabled, delete_pattern,
         lookback_pattern, insert_pattern_revision, prepare_rebuild, RebuildFails, StoreActive,
         StoreMask, StoreGeneration, enqueue, UnchangedBySubmit
<1> QED
  BY <1>2, <1>3, <1>4, ExactUntouched DEF RecordsStay

(* A step of the L7 worker.                                                *)
LEMMA ExactIngress ==
    ASSUME MatchingInv, HitsExactInv,
           ReadMask \/ Accept \/ TakeSnapshot \/ send_content \/ try_flow_closed
    PROVE  HitsExactInv'
<1>1. UNCHANGED <<registry, replay, matcher>>
  BY DEF ReadMask, Accept, TakeSnapshot, send_content, try_flow_closed
<1>2. /\ tails' = tails /\ flow_tail_keys' = flow_tail_keys /\ hits' = hits /\ repeated' = repeated
      /\ purged' = purged /\ patterns' = patterns /\ active' = active
  BY <1>1 DEF matcher, registry
<1>3. IngressInv /\ RegistryShape /\ RegistryInv /\ WordsInv /\ TrafficInv /\ RecordsInv /\ QueueInv /\ TailsInv
  BY DEF MatchingInv, RegistryInv, HitsExactInv
<1>4. Grown /\ Revisions' = Revisions /\ active \subseteq Revisions
  BY <1>2, <1>3, SameTable DEF RegistryShape
<1>5. WordsInv'
  BY <1>1, <1>3, WordsUnchanged
<1>6. IsSequence(accepted) /\ Len(accepted) \in Nat /\ DOMAIN accepted = 1 .. Len(accepted) /\ Last = Len(accepted)
  BY <1>3, SequenceIsNumbered DEF IngressInv, Last
<1>7. /\ TrafficInv' /\ RecordsInv' /\ QueueInv' /\ Kept /\ DOMAIN accepted' \subseteq Int
      /\ \A f : Awaited(f, 0)' => Awaited(f, 0)
  <2>1. CASE ReadMask
    <3>1. accepted' = accepted /\ queue' = queue
      BY <2>1 DEF ReadMask
    <3>2. \A f, i : Awaited(f, i)' => Awaited(f, i)
      BY <1>3, <2>1, AwaitedReadMask
    <3> QED
      BY <1>3, <1>4, <1>6, <2>1, <3>1, <3>2, RecordsReadMask, KeptByAll, QueueKept
  <2>2. CASE Accept
    <3>1. /\ TrafficInv' /\ RecordsInv' /\ DOMAIN accepted' = 1 .. Len(accepted) + 1
          /\ \A k \in DOMAIN accepted : accepted'[k] = accepted[k]
          /\ accepted'[Len(accepted) + 1].fate # "scanned"
      BY <1>3, <1>4, <1>6, <2>2, RecordsAccept
    <3>2. \A k \in DOMAIN accepted' : k \in DOMAIN accepted \/ k = Len(accepted) + 1
      BY <1>6, <3>1
    <3>3. \A j \in DOMAIN accepted : j < Len(accepted) + 1 /\ j \in DOMAIN accepted'
      BY <1>6, <3>1
    <3>4. Kept
      BY <3>1, <3>2, <3>3 DEF Kept, BytesKept
    <3>5. queue' = queue
      BY <2>2 DEF Accept
    <3>6. \A f, i : Awaited(f, i)' => Awaited(f, i)
      BY <1>3, <1>4, <2>2, AwaitedAccept
    <3>7. QueueInv'
      BY <1>3, <3>4, <3>5, <3>6, QueueKept
    <3>8. DOMAIN accepted' \subseteq Int
      BY <1>6, <3>1
    <3> QED
      BY <3>1, <3>4, <3>6, <3>7, <3>8
  <2>3. CASE TakeSnapshot
    <3>1. /\ Kept /\ DOMAIN accepted' = DOMAIN accepted /\ accepted'[Last].snapshot = active
          /\ \A k \in DOMAIN accepted \ {Last} : accepted'[k] = accepted[k]
          /\ queue' = queue /\ traffic' = traffic /\ l7'.pc # "read"
      BY <1>3, <2>3, TakeSnapshotIs
    <3>2. \A f, i : Awaited(f, i)' => Awaited(f, i)
      BY <1>3, <2>3, AwaitedTakeSnapshot
    <3>3. \A k \in DOMAIN accepted : BytesKept(k) /\ accepted'[k].snapshot \subseteq Revisions'
      BY <1>3, <1>4, <3>1 DEF Kept, RecordsInv
    <3>4. TrafficInv' /\ RecordsInv'
      BY <1>3, <3>1, <3>3, RecordsKept
    <3>5. QueueInv'
      BY <1>3, <3>1, <3>2, QueueKept
    <3> QED
      BY <1>6, <3>1, <3>2, <3>4, <3>5
  <2>4. CASE send_content
    <3>1. /\ Kept /\ DOMAIN accepted' = DOMAIN accepted
          /\ accepted'[Last].snapshot = accepted[Last].snapshot
          /\ \A k \in DOMAIN accepted \ {Last} : accepted'[k] = accepted[k]
          /\ traffic' = traffic /\ l7'.pc # "read"
      BY <1>3, <2>4, SendContentIs
    <3>2. \A f, i : Awaited(f, i)' => Awaited(f, i)
      BY <1>3, <2>4, AwaitedSend
    <3>3. \A k \in DOMAIN accepted : BytesKept(k) /\ accepted'[k].snapshot \subseteq Revisions'
      BY <1>3, <1>4, <3>1 DEF Kept, RecordsInv
    <3>4. TrafficInv' /\ RecordsInv'
      BY <1>3, <3>1, <3>3, RecordsKept
    <3>5. QueueInv'
      BY <1>3, <2>4, QueueSend
    <3> QED
      BY <1>6, <3>1, <3>2, <3>4, <3>5
  <2>5. CASE try_flow_closed
    <3>1. l7'.pc # "read" /\ accepted' = accepted /\ traffic' = traffic
      BY <1>3, <2>5, ClosedIs
    <3>2. \A f, i : Awaited(f, i)' => Awaited(f, i)
      BY <1>3, <2>5, AwaitedClosed
    <3>3. \A k \in DOMAIN accepted : BytesKept(k) /\ accepted'[k].snapshot \subseteq Revisions'
      BY <1>3, <1>4, <3>1 DEF BytesKept, RecordsInv
    <3>4. TrafficInv' /\ RecordsInv'
      BY <1>3, <3>1, <3>3, RecordsKept
    <3>5. QueueInv'
      BY <1>3, <2>5, QueueClosed
    <3> QED
      BY <1>6, <3>1, <3>2, <3>4, <3>5, KeptByAll
  <2> QED
    BY <2>1, <2>2, <2>3, <2>4, <2>5
<1>8. HitsInv' /\ TailsInv' /\ ReachesInv' /\ PublishedInv' /\ BodiesInv'
  BY <1>2, <1>3, <1>4, <1>7, ExactKept DEF TailsInv
<1> QED
  BY <1>5, <1>7, <1>8 DEF HitsExactInv

(* The matcher worker drops the tails of a flow from which nothing comes.  *)
LEMMA ExactFlowClosed ==
    ASSUME MatchingInv, HitsExactInv, FlowClosed
    PROVE  HitsExactInv'
<1> DEFINE keys == flow_tail_keys \cap OfFlow(Head(queue).f)
<1>1. /\ UNCHANGED <<registry, replay>> /\ queue # <<>> /\ Head(queue).kind = "closed"
      /\ queue' = Tail(queue) /\ traffic' = traffic /\ l7' = l7 /\ accepted' = accepted
      /\ hits' = hits /\ repeated' = repeated /\ purged' = purged
      /\ tails' = Without(tails, keys) /\ flow_tail_keys' = flow_tail_keys \ keys
  BY DEF FlowClosed
<1>2. IngressInv /\ RegistryShape /\ RegistryInv /\ WordsInv /\ TrafficInv /\ RecordsInv /\ QueueInv /\ TailsInv
  BY DEF MatchingInv, RegistryInv, HitsExactInv
<1>3. patterns' = patterns
  BY <1>1 DEF registry
<1>4. Grown /\ Revisions' = Revisions
  BY <1>2, <1>3, SameTable
<1>5. WordsInv'
  BY <1>1, <1>2, WordsUnchanged
<1>6. TrafficInv' /\ RecordsInv'
  <2>1. \A k \in DOMAIN accepted : BytesKept(k) /\ accepted'[k].snapshot \subseteq Revisions'
    BY <1>1, <1>2, <1>4 DEF BytesKept, RecordsInv
  <2> QED
    BY <1>1, <1>2, <2>1, RecordsKept
<1>7. QueueInv' /\ \A f : \A i \in Nat : Awaited(f, i)' => Awaited(f, i + 1) /\ Awaited(f, i)
  <2>1. Last' = Last
    BY <1>1 DEF Last
  <2> QED
    BY <1>1, <1>2, <2>1, QueueTaken
<1>8. DOMAIN tails' = DOMAIN tails \ keys /\ \A s \in DOMAIN tails \ keys : tails'[s] = tails[s]
  BY <1>1 DEF Without
<1>9. PICK f : f = Head(queue).f
  OBVIOUS
<1>10. ~Awaited(f, 0)'
  <2>1. Head(queue) = queue[1] /\ 1 \in DOMAIN queue
    BY <1>1, <1>2, TailOfSequence DEF IngressInv
  <2>2. ~Awaited(f, 1)
    BY <1>1, <1>2, <1>9, <2>1 DEF QueueInv
  <2>3. Awaited(f, 0)' => Awaited(f, 0 + 1)
    BY <1>7
  <2> QED
    BY <2>2, <2>3
<1>11. \A s \in DOMAIN tails : Awaited(StreamOf[s].flow, 0)' => s \in DOMAIN tails'
  <2> SUFFICES ASSUME NEW s \in DOMAIN tails, s \notin DOMAIN tails'
               PROVE  ~Awaited(StreamOf[s].flow, 0)'
    OBVIOUS
  <2>1. StreamOf[s].flow = f
    BY <1>8, <1>9 DEF OfFlow
  <2> QED
    BY <1>10, <2>1
<1>12. Kept /\ DOMAIN accepted' \subseteq Int
  BY <1>1, <1>2, KeptByAll, SequenceIsNumbered DEF IngressInv
<1>13. DOMAIN tails' \subseteq flow_tail_keys' /\ flow_tail_keys' \subseteq flow_tail_keys
  BY <1>1, <1>2, <1>8 DEF TailsInv
<1>14. \A f1 : Awaited(f1, 0)' => Awaited(f1, 0)
  BY <1>7
<1> HIDE DEF keys
<1>15. HitsInv' /\ TailsInv' /\ ReachesInv' /\ PublishedInv' /\ BodiesInv'
  BY <1>1, <1>2, <1>4, <1>6, <1>8, <1>11, <1>12, <1>13, <1>14, ExactKept
<1> QED
  BY <1>5, <1>6, <1>7, <1>15 DEF HitsExactInv

-----------------------------------------------------------------------------
(* The historical scan.                                                    *)

(* One record, with what the scanner has so far.                           *)
ScanOne(set, before, i) ==
    LET scan == ScanRecord(set, before.tails, accepted[i], 0)
    IN  [tails |-> scan.tails,
         hits |-> before.hits \cup {Hit(o, accepted[i].s, TRUE) : o \in scan.hits}]
NothingYet == [tails |-> <<>>, hits |-> {}]
IsReplay(f, set, n) ==
    /\ f = [i \in 0 .. n |-> f[i]] /\ f[0] = NothingYet
    /\ \A i \in 1 .. n : f[i] = ScanOne(set, f[i - 1], i)

(* Any number of records can be scanned.                                   *)
LEMMA ReplayExists ==
    ASSUME NEW set, NEW N \in Nat
    PROVE  \E g : IsReplay(g, set, N)
<1> DEFINE Done(m) == \E g : IsReplay(g, set, m)
           Bad == {m \in Nat : ~Done(m)}
<1>1. ASSUME Bad # {} PROVE FALSE
  <2>1. PICK m \in Bad : \A l \in Bad : m <= l
    BY <1>1, LeastNatural
  <2>2. CASE m = 0
    <3> DEFINE g == [i \in 0 .. 0 |-> NothingYet]
    <3>1. g = [i \in 0 .. 0 |-> g[i]] /\ g[0] = NothingYet
      OBVIOUS
    <3>2. \A i \in 1 .. 0 : FALSE
      OBVIOUS
    <3> HIDE DEF g
    <3>3. IsReplay(g, set, 0)
      BY <3>1, <3>2 DEF IsReplay
    <3> QED
      BY <2>1, <2>2, <3>3
  <2>3. CASE m # 0
    <3>1. m \in Nat \ {0} /\ m - 1 \in Nat /\ m - 1 < m
      BY <2>1, <2>3
    <3>2. Done(m - 1)
      <4>1. m - 1 \notin Bad
        <5> HIDE DEF Bad
        <5> QED
          BY <2>1, <3>1
      <4> QED
        BY <3>1, <4>1
    <3>3. PICK f : IsReplay(f, set, m - 1)
      BY <3>2
    <3> DEFINE x == ScanOne(set, f[m - 1], m)
               g == [i \in 0 .. m |-> IF i = m THEN x ELSE f[i]]
    <3>4. g = [i \in 0 .. m |-> g[i]] /\ g[m] = x /\ \A i \in 0 .. m - 1 : g[i] = f[i]
      BY <3>1
    <3>5. g[0] = NothingYet
      BY <3>1, <3>3, <3>4 DEF IsReplay
    <3> HIDE DEF g
    <3>6. ASSUME NEW i \in 1 .. m PROVE g[i] = ScanOne(set, g[i - 1], i)
      <4>0. i - 1 \in 0 .. m - 1
        BY <3>1
      <4>1. i - 1 \in 0 .. m - 1 /\ g[i - 1] = f[i - 1]
        BY <3>4, <4>0
      <4>2. CASE i = m
        BY <3>4, <4>1, <4>2
      <4>3. CASE i # m
        <5>1. i \in 1 .. m - 1 /\ i \in 0 .. m - 1
          BY <3>1, <4>3
        <5> QED
          BY <3>3, <3>4, <4>1, <5>1 DEF IsReplay
      <4> QED
        BY <4>2, <4>3
    <3>7. IsReplay(g, set, m)
      BY <3>4, <3>5, <3>6 DEF IsReplay
    <3> QED
      BY <2>1, <3>7
  <2> QED
    BY <2>2, <2>3
<1> QED
  BY <1>1

(* What the historical scan computes.                                      *)
LEMMA ReplaySteps ==
    ASSUME NEW set, NEW N \in Nat
    PROVE  \E f : IsReplay(f, set, N) /\ ReplayScan(set, N) = f[N].hits
<1> DEFINE Def(d) == [i \in 0 .. N |->
              IF i = 0 THEN [tails |-> <<>>, hits |-> {}]
              ELSE [tails |-> ScanRecord(set, d[i - 1].tails, accepted[i], 0).tails,
                    hits |-> d[i - 1].hits \cup {Hit(o, accepted[i].s, TRUE) :
                                o \in ScanRecord(set, d[i - 1].tails, accepted[i], 0).hits}]]
           f == CHOOSE d : d = Def(d)
<1>1. ReplayScan(set, N) = f[N].hits
  BY DEF ReplayScan
<1>2. ASSUME NEW d PROVE Def(d) = [i \in 0 .. N |-> IF i = 0 THEN NothingYet ELSE ScanOne(set, d[i - 1], i)]
  BY DEF NothingYet, ScanOne
<1> HIDE DEF Def
<1>3. PICK g : IsReplay(g, set, N)
  BY ReplayExists
<1>4. g = Def(g)
  <2>1. \A i \in 0 .. N : i # 0 => i \in 1 .. N
    OBVIOUS
  <2>2. \A i \in 0 .. N : g[i] = IF i = 0 THEN NothingYet ELSE ScanOne(set, g[i - 1], i)
    BY <1>3, <2>1 DEF IsReplay
  <2>3. g = [i \in 0 .. N |-> g[i]]
    BY <1>3 DEF IsReplay
  <2>4. [i \in 0 .. N |-> g[i]] = [i \in 0 .. N |-> IF i = 0 THEN NothingYet ELSE ScanOne(set, g[i - 1], i)]
    BY <2>2
  <2> QED
    BY <1>2, <2>3, <2>4
<1>5. f = Def(f)
  BY <1>4
<1> HIDE DEF f
<1>6. f = [i \in 0 .. N |-> IF i = 0 THEN NothingYet ELSE ScanOne(set, f[i - 1], i)]
  BY <1>2, <1>5
<1> DEFINE e == [i \in 0 .. N |-> IF i = 0 THEN NothingYet ELSE ScanOne(set, f[i - 1], i)]
<1>7. /\ e = [i \in 0 .. N |-> e[i]] /\ e[0] = NothingYet
      /\ \A i \in 1 .. N : e[i] = ScanOne(set, f[i - 1], i)
  OBVIOUS
<1>8. e = f
  BY <1>6
<1> HIDE DEF e
<1>9. IsReplay(f, set, N)
  BY <1>7, <1>8 DEF IsReplay
<1> QED
  BY <1>1, <1>9

(* A hit of the scan of a body.                                            *)
LEMMA BodyHit ==
    ASSUME NEW k \in DOMAIN accepted, NEW r, r = accepted[k], ~Verbatim(r.s), NEW o, o.p \in Revisions,
           InBody(o, r) \/ (Meets(k) /\ Crosses(o, r)), NEW historical
    PROVE  HitGenuine(Hit(o, r.s, historical))
<1>1. PICK e : e = Hit(o, r.s, historical)
  OBVIOUS
<1>2. e.p = o.p /\ e.s = r.s /\ e.start = o.start /\ e.end = o.end
  BY <1>1 DEF Hit
<1>3. InBody(o, r) => Inside(e, r)
  BY <1>2 DEF InBody, Inside, Word
<1>4. Meets(k) /\ Crosses(o, r) => Bridged(e, k)
  BY <1>2 DEF Crosses, Bridged
<1>5. HitGenuine(e)
  BY <1>2, <1>3, <1>4 DEF HitGenuine, HitOfBody
<1> QED
  BY <1>1, <1>5

(* The hits of a historical scan are genuine.                              *)
LEMMA ReplayGenuine ==
    ASSUME RegistryShape, WordsInv, RecordsInv, IsSequence(accepted), NEW set, set \subseteq Revisions,
           NEW h \in ReplayScan(set, Len(accepted))
    PROVE  HitGenuine(h)
<1>1. Len(accepted) \in Nat /\ DOMAIN accepted = 1 .. Len(accepted)
  BY SequenceIsNumbered
<1>2. PICK N \in Nat : N = Len(accepted)
  BY <1>1
<1>3. PICK f : IsReplay(f, set, N) /\ ReplayScan(set, N) = f[N].hits
  BY ReplaySteps
<1>4. Compiled(set) /\ IsFiniteSet(set)
  BY RevisionsCompiled
<1> DEFINE Good(x) == TailsTrue(x.tails) /\ \A e \in x.hits : HitGenuine(e)
<1>5. Good(NothingYet)
  <2>1. NothingYet.tails = <<>> /\ NothingYet.hits = {}
    BY DEF NothingYet
  <2>2. DOMAIN << >> = {}
    OBVIOUS
  <2> QED
    BY <2>1, <2>2 DEF TailsTrue
<1>6. ASSUME NEW i \in 1 .. N, NEW x, Good(x) PROVE Good(ScanOne(set, x, i))
  <2>1. PICK r, ts, scan : r = accepted[i] /\ ts = x.tails /\ scan = ScanRecord(set, ts, r, 0)
    OBVIOUS
  <2>2. /\ ScanOne(set, x, i).tails = scan.tails
        /\ ScanOne(set, x, i).hits = x.hits \cup {Hit(o, r.s, TRUE) : o \in scan.hits}
    BY <2>1 DEF ScanOne
  <2>3. i \in DOMAIN accepted /\ RecordTyped(r) /\ (Verbatim(r.s) => RecordTrue(r)) /\ TailsTrue(ts)
    BY <1>1, <1>2, <1>6, <2>1 DEF RecordsInv, RecordSound, Piece
  <2>4. PICK prefix : prefix = PrefixOf(ts, r, 0)
    OBVIOUS
  <2>5. CASE Verbatim(r.s)
    <3>1. PICK keep : keep = required_overlap(set, r)
      OBVIOUS
    <3>2. /\ TailsTrue(scan.tails)
          /\ \A o \in scan.hits : o \in Found(set, Data(r.s)) /\ Whole(r.s, o.start, o.end)
      BY <1>4, <2>1, <2>3, <2>4, <2>5, <3>1, ScanRecordIs
    <3>3. ASSUME NEW o \in scan.hits PROVE HitGenuine(Hit(o, r.s, TRUE))
      <4>1. IsSequence(Data(r.s))
        BY <2>3, <2>5, RecordText
      <4>2. o.p \in set /\ SubSeq(Data(r.s), o.start + 1, o.end) = Word(o.p) /\ Whole(r.s, o.start, o.end)
        BY <1>4, <3>2, <4>1, FoundIs
      <4>3. PICK e : e = Hit(o, r.s, TRUE)
        OBVIOUS
      <4>4. e.p = o.p /\ e.s = r.s /\ e.start = o.start /\ e.end = o.end /\ e.historical = TRUE
        BY <4>3 DEF Hit
      <4>5. HitGenuine(e)
        BY <2>5, <4>2, <4>4 DEF HitGenuine, HitOfStream
      <4> QED
        BY <4>3, <4>5
    <3> QED
      BY <1>6, <2>2, <3>2, <3>3
  <2>6. CASE ~Verbatim(r.s)
    <3>1. /\ TailsTrue(scan.tails)
          /\ \A o \in scan.hits : o.p \in set /\ (InBody(o, r) \/ (Meets(i) /\ Crosses(o, r)))
      BY <1>4, <2>1, <2>3, <2>6, ScanBodyIs
    <3>2. ASSUME NEW o \in scan.hits PROVE HitGenuine(Hit(o, r.s, TRUE))
      BY <2>1, <2>3, <2>6, <3>1, BodyHit
    <3> QED
      BY <1>6, <2>2, <3>1, <3>2
  <2> QED
    BY <2>5, <2>6
<1> HIDE DEF Good
<1>7. \A i \in 0 .. N : Good(f[i])
  <2> DEFINE Bad == {i \in 0 .. N : ~Good(f[i])}
  <2>1. ASSUME Bad # {} PROVE FALSE
    <3>0. Bad \in SUBSET Nat
      OBVIOUS
    <3>1. PICK m \in Bad : \A l \in Bad : m <= l
      BY <2>1, <3>0, LeastNatural
    <3>2. m # 0
      BY <1>3, <1>5, <3>1 DEF IsReplay
    <3>3. m \in 1 .. N /\ m - 1 \in 0 .. N /\ m - 1 < m
      BY <3>1, <3>2
    <3>4. m - 1 \notin Bad
      <4> HIDE DEF Bad
      <4> QED
        BY <3>0, <3>1, <3>3
    <3>5. Good(f[m - 1])
      BY <3>3, <3>4
    <3>6. f[m] = ScanOne(set, f[m - 1], m)
      BY <1>3, <3>3 DEF IsReplay
    <3>7. Good(f[m])
      BY <1>6, <3>3, <3>5, <3>6
    <3> QED
      BY <3>1, <3>7
  <2> QED
    BY <2>1
<1>8. Good(f[N])
  BY <1>7
<1> QED
  BY <1>2, <1>3, <1>8 DEF Good

(* The historical scan only adds hits.                                     *)
LEMMA ExactReplay ==
    ASSUME MatchingInv, HitsExactInv, Replay
    PROVE  HitsExactInv'
<1>1. PICK set : set = {p \in {replay[i] : i \in DOMAIN replay} : patterns[p.id][p.rev].enabled}
  OBVIOUS
<1>2. /\ UNCHANGED registry /\ replay' = <<>> /\ queue' = queue /\ traffic' = traffic /\ l7' = l7
      /\ accepted' = accepted /\ repeated' = repeated /\ purged' = purged /\ tails' = tails
      /\ flow_tail_keys' = flow_tail_keys /\ hits' = hits \cup ReplayScan(set, Len(accepted))
  BY <1>1 DEF Replay
<1>3. IngressInv /\ RegistryShape /\ RegistryInv /\ WordsInv /\ TrafficInv /\ RecordsInv /\ QueueInv /\ TailsInv
  BY DEF MatchingInv, RegistryInv, HitsExactInv
<1>4. patterns' = patterns
  BY <1>2 DEF registry
<1>5. Grown /\ Revisions' = Revisions
  BY <1>3, <1>4, SameTable
<1>6. WordsInv'
  BY <1>2, <1>3, WordsUnchanged
<1>7. TrafficInv' /\ RecordsInv' /\ \A k \in DOMAIN accepted : BytesKept(k)
  <2>1. \A k \in DOMAIN accepted : BytesKept(k) /\ accepted'[k].snapshot \subseteq Revisions'
    BY <1>2, <1>3, <1>5 DEF BytesKept, RecordsInv
  <2> QED
    BY <1>2, <1>3, <2>1, RecordsKept
<1>8. Kept /\ DOMAIN accepted' \subseteq Int
  BY <1>2, <1>3, KeptByAll, SequenceIsNumbered DEF IngressInv
<1>9. \A f, i : Awaited(f, i)' => Awaited(f, i)
  BY <1>2 DEF Awaited, Last
<1>10. QueueInv'
  BY <1>2, <1>3, <1>8, <1>9, QueueKept
<1>11. \A h \in hits' \ hits : HitGenuine(h)'
  <2> SUFFICES ASSUME NEW h \in ReplayScan(set, Len(accepted)) PROVE HitGenuine(h)'
    BY <1>2
  <2>1. set \subseteq Revisions
    BY <1>1, <1>3 DEF WordsInv, Waiting
  <2>2. HitGenuine(h)
    BY <1>3, <2>1, ReplayGenuine DEF IngressInv
  <2> QED
    BY <1>2, <1>5, <1>7, <2>2, GenuineStays
<1>12. HitsInv' /\ TailsInv' /\ ReachesInv' /\ PublishedInv' /\ BodiesInv'
  <2>1. hits \subseteq hits'
    BY <1>2
  <2> QED
    BY <1>2, <1>3, <1>5, <1>7, <1>8, <1>9, <1>11, <2>1, ExactKept DEF TailsInv
<1> QED
  BY <1>6, <1>7, <1>10, <1>12 DEF HitsExactInv

-----------------------------------------------------------------------------
(* The scan of a record by the matcher worker.                             *)

(* What the matcher worker does with record k.                             *)
Found1(r, scan) == {Hit(o, r.s, FALSE) : o \in scan.hits}
Scanned(k, r, stale, old, ts, scan) ==
    /\ queue # <<>> /\ Head(queue).kind = "content" /\ k = Head(queue).k /\ queue' = Tail(queue)
    /\ k \in DOMAIN accepted /\ r = accepted[k] /\ FlowOf(r) \notin stale
    /\ old = flow_tail_keys \cap UNION {OfFlow(f) : f \in stale}
    /\ ts = Without(tails, old) /\ scan = ScanRecord(r.snapshot, ts, r, r.generation)
    /\ purged' = purged \cup stale /\ tails' = scan.tails
    /\ flow_tail_keys' = (flow_tail_keys \ old) \cup (DOMAIN scan.tails \cap {r.s})
    /\ repeated' = (repeated \/ scan.twice \/ (Verbatim(r.s) /\ Found1(r, scan) \cap hits # {}))
    /\ hits' = hits \cup Found1(r, scan)
    /\ DOMAIN accepted' = DOMAIN accepted /\ Last' = Last
    /\ accepted'[k].fate = "scanned" /\ accepted'[k].limited = scan.limited
    /\ accepted'[k].snapshot = r.snapshot /\ accepted'[k].generation = r.generation
    /\ \A j \in DOMAIN accepted : BytesKept(j) /\ (j # k => accepted'[j] = accepted[j])
    /\ UNCHANGED <<registry, replay, traffic, l7>>
(* Content is such a scan.                                                 *)
LEMMA ContentIs ==
    ASSUME IngressInv, Content
    PROVE  \E k, r, stale, old, ts, scan : Scanned(k, r, stale, old, ts, scan)
<1>1. queue # <<>> /\ Head(queue).kind = "content" /\ queue' = Tail(queue) /\ UNCHANGED <<registry, replay, traffic, l7>>
  BY DEF Content
<1>2. PICK k : k = Head(queue).k
  OBVIOUS
<1>3. k \in DOMAIN accepted
  <2>1. Head(queue) = queue[1] /\ 1 \in DOMAIN queue
    BY <1>1, TailOfSequence DEF IngressInv
  <2> QED
    BY <1>1, <1>2, <2>1 DEF IngressInv
<1>4. PICK stale \in SUBSET (Flows \ {FlowOf(accepted[Head(queue).k])}) :
         LET r == accepted[Head(queue).k]
             old == flow_tail_keys \cap UNION {OfFlow(f) : f \in stale}
             scan == ScanRecord(r.snapshot, Without(tails, old), r, r.generation)
         IN  /\ purged' = purged \cup stale
             /\ tails' = scan.tails
             /\ flow_tail_keys' = (flow_tail_keys \ old) \cup (DOMAIN scan.tails \cap {r.s})
             /\ Publish(r.s, {Hit(o, r.s, FALSE) : o \in scan.hits}, scan.twice)
             /\ accepted' = [accepted EXCEPT ![Head(queue).k].fate = "scanned",
                                             ![Head(queue).k].limited = scan.limited]
  BY Zenon DEF Content
<1>5. PICK r, old, ts, scan :
         /\ r = accepted[k] /\ old = flow_tail_keys \cap UNION {OfFlow(f) : f \in stale}
         /\ ts = Without(tails, old) /\ scan = ScanRecord(r.snapshot, ts, r, r.generation)
  OBVIOUS
<1>6. /\ purged' = purged \cup stale /\ tails' = scan.tails
      /\ flow_tail_keys' = (flow_tail_keys \ old) \cup (DOMAIN scan.tails \cap {r.s})
      /\ Publish(r.s, {Hit(o, r.s, FALSE) : o \in scan.hits}, scan.twice)
      /\ accepted' = [accepted EXCEPT ![k].fate = "scanned", ![k].limited = scan.limited]
  BY <1>2, <1>4, <1>5
<1>7. DOMAIN r = RecordFields
  BY <1>3, <1>5 DEF IngressInv
<1> DEFINE q == [r EXCEPT !.fate = "scanned", !.limited = scan.limited]
<1>8. accepted' = [accepted EXCEPT ![k] = q]
  BY <1>3, <1>5, <1>6, <1>7 DEF RecordFields
<1>9. /\ DOMAIN q = RecordFields /\ q.fate = "scanned" /\ q.limited = scan.limited
      /\ q.snapshot = r.snapshot /\ q.generation = r.generation
      /\ q.s = r.s /\ q.offset = r.offset /\ q.data = r.data /\ q.view = r.view /\ q.service = r.service
  BY <1>7 DEF RecordFields
<1> HIDE DEF q
<1>10. /\ DOMAIN accepted' = DOMAIN accepted /\ Last' = Last
       /\ accepted'[k] = q /\ \A j \in DOMAIN accepted \ {k} : accepted'[j] = accepted[j]
  BY <1>3, <1>8, <1>9, RecordChanges
<1>11. \A j \in DOMAIN accepted : BytesKept(j) /\ (j # k => accepted'[j] = accepted[j])
  BY <1>5, <1>9, <1>10 DEF BytesKept
<1>12. /\ repeated' = (repeated \/ scan.twice \/ (Verbatim(r.s) /\ Found1(r, scan) \cap hits # {}))
       /\ hits' = hits \cup Found1(r, scan)
  BY <1>6 DEF Publish, Found1
<1>13. FlowOf(r) \notin stale
  BY <1>2, <1>4, <1>5
<1>14. Scanned(k, r, stale, old, ts, scan)
  BY <1>1, <1>2, <1>3, <1>5, <1>6, <1>9, <1>10, <1>11, <1>12, <1>13 DEF Scanned
<1> QED
  BY <1>14

(* Records of one view and service are scanned with the same rules.        *)
LEMMA SameRules ==
    ASSUME NEW r, NEW q, r.view = q.view, r.service = q.service, NEW set
    PROVE  /\ GlobalGroup(set, r) = GlobalGroup(set, q) /\ ServiceGroup(set, r) = ServiceGroup(set, q)
           /\ is_interested(set, r) <=> is_interested(set, q)
           /\ required_overlap(set, r) = required_overlap(set, q)
<1>1. \A service : Group(set, r, service) = Group(set, q, service)
  BY DEF Group
<1>2. GlobalGroup(set, r) = GlobalGroup(set, q) /\ ServiceGroup(set, r) = ServiceGroup(set, q)
  BY <1>1 DEF GlobalGroup, ServiceGroup
<1> QED
  BY <1>2, Zenon DEF is_interested, required_overlap

(* The latest record of a stream before record k.                          *)
LEMMA LatestBefore ==
    ASSUME DOMAIN accepted \subseteq Int, NEW k \in DOMAIN accepted, NEW s,
           NEW j0 \in DOMAIN accepted, j0 < k, accepted[j0].s = s
    PROVE  \E j \in DOMAIN accepted :
              /\ j < k /\ accepted[j].s = s
              /\ \A i \in DOMAIN accepted : i < k /\ accepted[i].s = s => i <= j
<1> DEFINE S == {m \in Nat : \E j \in DOMAIN accepted : j < k /\ accepted[j].s = s /\ m = k - j}
<1>1. ASSUME NEW j \in DOMAIN accepted, j < k, accepted[j].s = s PROVE k - j \in S
  <2>1. k - j \in Nat
    BY <1>1
  <2> QED
    BY <1>1, <2>1
<1>2. S # {} /\ S \in SUBSET Nat
  BY <1>1
<1>3. PICK m \in S : \A n \in S : m <= n
  BY <1>2, LeastNatural
<1>4. PICK j \in DOMAIN accepted : j < k /\ accepted[j].s = s /\ m = k - j
  BY <1>3
<1>5. ASSUME NEW i \in DOMAIN accepted, i < k, accepted[i].s = s PROVE i <= j
  <2>1. k - i \in S
    BY <1>1, <1>5
  <2>2. k - j <= k - i
    BY <1>3, <1>4, <2>1
  <2>3. k \in Int /\ i \in Int /\ j \in Int
    OBVIOUS
  <2> HIDE DEF S
  <2> QED
    BY <2>2, <2>3
<1> QED
  BY <1>4, <1>5

(* The tail before a record reaches back over the bytes that were scanned  *)
(* with its set, as far as a rule can need.                                *)
LEMMA PrefixReaches ==
    ASSUME RecordsInv, ReachesInv, DOMAIN accepted \subseteq Int,
           NEW k \in DOMAIN accepted, NEW r, r = accepted[k], Verbatim(r.s),
           \A j \in DOMAIN accepted : accepted[j].fate = "scanned" => j < k,
           Awaited(FlowOf(r), 0), FlowOf(r) \notin purged, is_interested(r.snapshot, r),
           NEW b \in Nat, b < r.offset, r.offset - b <= required_overlap(r.snapshot, r),
           \A j \in DOMAIN accepted : j < k /\ accepted[j].s = r.s /\ RecEnd(accepted[j]) > b => SameScan(j, k),
           \A x \in b .. r.offset - 1 : \E j \in DOMAIN accepted : j < k /\ Covers(j, r.s, x)
    PROVE  /\ r.s \in DOMAIN tails /\ tails[r.s].generation = r.generation
           /\ tails[r.s].end_offset = r.offset /\ r.offset - b <= Len(tails[r.s].data)
<1>1. \A j \in DOMAIN accepted : accepted[j].offset \in Nat /\ RecEnd(accepted[j]) \in Nat
                                 /\ accepted[j].offset <= RecEnd(accepted[j])
  BY DEF RecordsInv, RecordSound, Piece, RecordTyped, RecEnd
<1>2. r.offset \in Nat /\ r.offset - 1 \in b .. r.offset - 1
  BY <1>1
<1>3. PICK j0 \in DOMAIN accepted : j0 < k /\ Covers(j0, r.s, r.offset - 1)
  BY <1>2
<1>4. accepted[j0].s = r.s /\ RecEnd(accepted[j0]) >= r.offset
  BY <1>1, <1>2, <1>3 DEF Covers
<1>5. PICK j \in DOMAIN accepted :
         /\ j < k /\ accepted[j].s = r.s
         /\ \A i \in DOMAIN accepted : i < k /\ accepted[i].s = r.s => i <= j
  <2>1. \E j \in DOMAIN accepted :
         /\ j < k /\ accepted[j].s = r.s
         /\ \A i \in DOMAIN accepted : i < k /\ accepted[i].s = r.s => i <= j
    BY <1>3, <1>4, LatestBefore
  <2> QED
    BY <2>1
<1>6. RecEnd(accepted[j]) = r.offset
  <2>1. RecEnd(accepted[j]) <= r.offset
    BY <1>5 DEF RecordsInv
  <2>2. j0 <= j
    BY <1>3, <1>4, <1>5
  <2>3. j0 # j => RecEnd(accepted[j0]) <= accepted[j].offset
    <3>1. j0 # j => j0 < j
      BY <2>2
    <3> QED
      BY <1>4, <1>5, <3>1 DEF RecordsInv
  <2> QED
    BY <1>1, <1>2, <1>4, <2>1, <2>3
<1>7. SameScan(j, k)
  BY <1>5, <1>6
<1>8. PICK q : q = accepted[j]
  OBVIOUS
<1>9. /\ q.fate = "scanned" /\ q.snapshot = r.snapshot /\ q.generation = r.generation /\ q.s = r.s
      /\ RecEnd(q) = r.offset
  BY <1>5, <1>6, <1>7, <1>8 DEF SameScan
<1>10. Latest1(j)
  <2>1. ASSUME NEW i \in DOMAIN accepted, i > j, accepted[i].s = q.s PROVE accepted[i].fate # "scanned"
    <3>1. i < k => i <= j
      BY <1>5, <1>9, <2>1
    <3> QED
      BY <2>1, <3>1
  <2> QED
    BY <1>8, <1>9, <2>1 DEF Latest1
<1>11. FlowOf(q) = FlowOf(r)
  BY <1>9 DEF FlowOf
<1>12. is_interested(q.snapshot, q) /\ RecEnd(q) - b <= required_overlap(q.snapshot, q)
  <2>1. q.view = r.view /\ q.service = r.service
    BY <1>8, <1>9 DEF RecordsInv, RecordSound
  <2>2. (is_interested(r.snapshot, r) <=> is_interested(r.snapshot, q)) /\ required_overlap(r.snapshot, r) = required_overlap(r.snapshot, q)
    BY <2>1, SameRules
  <2> QED
    BY <1>9, <2>2
<1>13. Run(j, b)
  <2>1. ASSUME NEW i \in DOMAIN accepted, i <= j, accepted[i].s = q.s, RecEnd(accepted[i]) > b PROVE SameScan(i, j)
    <3>1. i < k
      BY <1>5, <2>1
    <3>2. SameScan(i, k)
      BY <1>9, <2>1, <3>1
    <3> QED
      BY <1>7, <3>2 DEF SameScan
  <2>2. ASSUME NEW x \in b .. RecEnd(q) - 1 PROVE \E i \in DOMAIN accepted : i <= j /\ Covers(i, q.s, x)
    <3>1. PICK i \in DOMAIN accepted : i < k /\ Covers(i, r.s, x)
      BY <1>9, <2>2
    <3>2. i <= j
      BY <1>5, <3>1 DEF Covers
    <3> QED
      BY <1>9, <3>1, <3>2
  <2> QED
    BY <1>8, <2>1, <2>2 DEF Run
<1>14. TailHolds(j, b)
  <2>1. TailReaches(j)
    BY DEF ReachesInv
  <2> QED
    BY <1>8, <1>9, <1>10, <1>11, <1>12, <1>13, <2>1 DEF TailReaches
<1> QED
  BY <1>8, <1>9, <1>14 DEF TailHolds

(* What holds when a record is scanned: records are scanned in the order   *)
(* they were accepted, and the rules and tails are fit for the scan.       *)
ScanFit(k, r, ts, scan) ==
    /\ RegistryShape /\ WordsInv /\ RecordsInv /\ TailsInv /\ ReachesInv /\ DOMAIN accepted \subseteq Int
    /\ \A j \in DOMAIN accepted : accepted[j].fate = "scanned" => j < k
    /\ r.snapshot \subseteq Revisions /\ Compiled(r.snapshot) /\ IsFiniteSet(r.snapshot)
    /\ RecordSound(r) /\ TailsTrue(ts)
    /\ (r.s \in DOMAIN tails => r.s \in DOMAIN ts /\ ts[r.s] = tails[r.s])
    /\ Awaited(FlowOf(r), 0)
(* The invariants give it.                                                 *)
LEMMA ScannedFit ==
    ASSUME MatchingInv, HitsExactInv, NEW k, NEW r, NEW stale, NEW old, NEW ts, NEW scan,
           Scanned(k, r, stale, old, ts, scan)
    PROVE  ScanFit(k, r, ts, scan)
<1>1. /\ queue # <<>> /\ Head(queue).kind = "content" /\ k = Head(queue).k
      /\ k \in DOMAIN accepted /\ r = accepted[k] /\ FlowOf(r) \notin stale
      /\ old = flow_tail_keys \cap UNION {OfFlow(f) : f \in stale} /\ ts = Without(tails, old)
  BY DEF Scanned
<1>2. IngressInv /\ RegistryShape /\ WordsInv /\ RecordsInv /\ QueueInv /\ TailsInv /\ ReachesInv
  BY DEF MatchingInv, RegistryInv, HitsExactInv
<1>3. DOMAIN accepted \subseteq Int
  BY <1>2, SequenceIsNumbered DEF IngressInv
<1>4. Head(queue) = queue[1] /\ 1 \in DOMAIN queue
  BY <1>1, <1>2, TailOfSequence DEF IngressInv
<1>5. \A j \in DOMAIN accepted : accepted[j].fate = "scanned" => j < k
  BY <1>1, <1>2, <1>4 DEF QueueInv
<1>6. Awaited(FlowOf(r), 0)
  BY <1>1, <1>4 DEF Awaited
<1>7. r.snapshot \subseteq Revisions /\ RecordSound(r)
  BY <1>1, <1>2 DEF RecordsInv
<1>8. Compiled(r.snapshot) /\ IsFiniteSet(r.snapshot)
  BY <1>2, <1>7, RevisionsCompiled
<1>10. DOMAIN ts = DOMAIN tails \ old /\ \A s \in DOMAIN ts : ts[s] = tails[s]
  BY <1>1 DEF Without
<1>11. TailsTrue(ts)
  BY <1>2, <1>10 DEF TailsTrue, TailsInv
<1>12. r.s \notin old
  BY <1>1 DEF OfFlow, FlowOf
<1> QED
  BY <1>2, <1>3, <1>5, <1>6, <1>7, <1>8, <1>10, <1>11, <1>12 DEF ScanFit

(* What is before a record, for a place from which all was scanned with    *)
(* the set of the record.                                                  *)
LEMMA PrefixLong ==
    ASSUME NEW k \in DOMAIN accepted, NEW r, r = accepted[k], NEW ts, NEW scan, ScanFit(k, r, ts, scan),
           Verbatim(r.s), FlowOf(r) \notin purged, is_interested(r.snapshot, r),
           NEW b \in Nat, b < r.offset => r.offset - b <= required_overlap(r.snapshot, r),
           \A j \in DOMAIN accepted : j < k /\ accepted[j].s = r.s /\ RecEnd(accepted[j]) > b => SameScan(j, k),
           \A x \in b .. r.offset - 1 : \E j \in DOMAIN accepted : j < k /\ Covers(j, r.s, x)
    PROVE  /\ Len(PrefixOf(ts, r, r.generation)) \in Nat
           /\ r.offset - b <= Len(PrefixOf(ts, r, r.generation))
<1>1. PICK prefix : prefix = PrefixOf(ts, r, r.generation)
  OBVIOUS
<1>2. /\ RecordsInv /\ ReachesInv /\ DOMAIN accepted \subseteq Int /\ TailsTrue(ts) /\ RecordTrue(r)
      /\ \A j \in DOMAIN accepted : accepted[j].fate = "scanned" => j < k
      /\ Awaited(FlowOf(r), 0) /\ (r.s \in DOMAIN tails => r.s \in DOMAIN ts /\ ts[r.s] = tails[r.s])
  BY DEF ScanFit, RecordSound, Piece
<1>3. /\ Len(prefix) \in Nat
      /\ r.s \in DOMAIN ts /\ ts[r.s].generation = r.generation /\ ts[r.s].end_offset = r.offset
           => prefix = ts[r.s].data
  BY <1>1, <1>2, PrefixIsTrue DEF PrefixTrue, PrefixOf
<1>4. r.offset \in Nat
  BY <1>2 DEF RecordTrue
<1>5. CASE b < r.offset
  <2>1. /\ r.s \in DOMAIN tails /\ tails[r.s].generation = r.generation
        /\ tails[r.s].end_offset = r.offset /\ r.offset - b <= Len(tails[r.s].data)
    BY <1>2, <1>5, PrefixReaches
  <2> QED
    BY <1>1, <1>2, <1>3, <2>1
<1>6. CASE b >= r.offset
  BY <1>1, <1>3, <1>4, <1>6
<1> QED
  BY <1>4, <1>5, <1>6

(* What the scan of a record of a verbatim stream publishes is genuine and *)
(* new.                                                                    *)
LEMMA StreamScanned ==
    ASSUME HitsInv, patterns' = patterns, Revisions' = Revisions,
           NEW k, NEW r, NEW stale, NEW old, NEW ts, NEW scan,
           Scanned(k, r, stale, old, ts, scan), ScanFit(k, r, ts, scan), Verbatim(r.s)
    PROVE  /\ TailsTrue(scan.tails) /\ DOMAIN scan.tails \subseteq DOMAIN ts \cup {r.s}
           /\ \A h \in Found1(r, scan) : HitGenuine(h)'
           /\ Found1(r, scan) \cap hits = {} /\ ~scan.twice
<1>1. /\ k \in DOMAIN accepted /\ r = accepted[k] /\ DOMAIN accepted' = DOMAIN accepted
      /\ scan = ScanRecord(r.snapshot, ts, r, r.generation) /\ accepted'[k].fate = "scanned"
      /\ \A j \in DOMAIN accepted : BytesKept(j) /\ (j # k => accepted'[j] = accepted[j])
  BY DEF Scanned
<1>2. /\ RecordsInv /\ DOMAIN accepted \subseteq Int
      /\ \A j \in DOMAIN accepted : accepted[j].fate = "scanned" => j < k
      /\ r.snapshot \subseteq Revisions /\ Compiled(r.snapshot) /\ IsFiniteSet(r.snapshot)
      /\ RecordTrue(r) /\ TailsTrue(ts)
  BY DEF ScanFit, RecordSound, Piece
<1>t. IsSequence(Data(r.s))
  BY <1>2, RecordText
<1>3. PICK prefix, keep : prefix = PrefixOf(ts, r, r.generation) /\ keep = required_overlap(r.snapshot, r)
  OBVIOUS
<1>4. /\ TailsTrue(scan.tails) /\ DOMAIN scan.tails \subseteq DOMAIN ts \cup {r.s}
      /\ \A o \in scan.hits : /\ o \in Found(r.snapshot, Data(r.s)) /\ InReach(o, r, prefix)
                              /\ Whole(r.s, o.start, o.end)
      /\ ~scan.twice
  BY <1>1, <1>2, <1>3, ScanRecordIs
<1>5. ASSUME NEW h \in Found1(r, scan)
      PROVE  /\ HitGenuine(h)' /\ h.s = r.s /\ r.offset < h.end /\ h.historical = FALSE
  <2>1. PICK o \in scan.hits : h = Hit(o, r.s, FALSE)
    BY <1>5 DEF Found1
  <2>2. h.p = o.p /\ h.s = r.s /\ h.start = o.start /\ h.end = o.end /\ h.historical = FALSE
    BY <2>1 DEF Hit
  <2>3. /\ o.p \in r.snapshot /\ SubSeq(Data(r.s), o.start + 1, o.end) = Word(o.p)
        /\ Whole(r.s, o.start, o.end) /\ r.offset < o.end /\ o.end <= RecEnd(r)
    BY <1>2, <1>4, <1>t, FoundIs DEF InReach, RecEnd
  <2>4. Whole(r.s, o.start, o.end)'
    BY <1>1, <2>3, HoldingStays
  <2>5. EndsIn(k, r.s, o.end)'
    BY <1>1, <2>3 DEF EndsIn, BytesKept, RecEnd
  <2>6. Word(o.p)' = Word(o.p)
    BY DEF Word, ExprOf
  <2>7. HitOfStream(h)'
    BY <1>1, <2>2, <2>3, <2>4, <2>5, <2>6 DEF HitOfStream
  <2> QED
    BY <1>2, <2>2, <2>3, <2>7 DEF HitGenuine
<1>6. Found1(r, scan) \cap hits = {}
  <2> SUFFICES ASSUME NEW h \in Found1(r, scan), h \in hits PROVE FALSE
    OBVIOUS
  <2>1. HitGenuine(h) /\ h.s = r.s /\ r.offset < h.end /\ h.historical = FALSE
    BY <1>5 DEF HitsInv
  <2>2. PICK j \in DOMAIN accepted : EndsIn(j, r.s, h.end)
    BY <2>1 DEF HitGenuine, HitOfStream
  <2>3. j < k /\ accepted[j].s = r.s /\ accepted[j].offset < h.end /\ h.end <= RecEnd(accepted[j])
    BY <1>2, <2>2 DEF EndsIn
  <2>4. RecEnd(accepted[j]) <= r.offset /\ RecEnd(accepted[j]) \in Nat /\ r.offset \in Nat
    BY <1>1, <1>2, <2>3 DEF RecordsInv, RecordSound, Piece, RecordTyped, RecEnd
  <2>5. PICK o \in scan.hits : h.end = o.end
    BY DEF Found1, Hit
  <2>6. h.end \in Nat
    BY <1>2, <1>4, <1>t, <2>5, FoundIs
  <2> QED
    BY <2>1, <2>3, <2>4, <2>6
<1> QED
  BY <1>4, <1>5, <1>6

(* And what the scan of a body publishes.                                  *)
LEMMA BodyScanned ==
    ASSUME Grown, Revisions' = Revisions,
           NEW k, NEW r, NEW stale, NEW old, NEW ts, NEW scan,
           Scanned(k, r, stale, old, ts, scan), ScanFit(k, r, ts, scan), ~Verbatim(r.s)
    PROVE  /\ TailsTrue(scan.tails) /\ DOMAIN scan.tails \subseteq DOMAIN ts \cup {r.s}
           /\ \A h \in Found1(r, scan) : HitGenuine(h)'
           /\ ~scan.twice
<1>1. /\ k \in DOMAIN accepted /\ r = accepted[k] /\ DOMAIN accepted' = DOMAIN accepted
      /\ scan = ScanRecord(r.snapshot, ts, r, r.generation) /\ accepted'[k].fate = "scanned"
      /\ \A j \in DOMAIN accepted : BytesKept(j) /\ (j # k => accepted'[j] = accepted[j])
  BY DEF Scanned
<1>2. /\ r.snapshot \subseteq Revisions /\ Compiled(r.snapshot) /\ IsFiniteSet(r.snapshot)
      /\ RecordTyped(r) /\ TailsTrue(ts)
  BY DEF ScanFit, RecordSound, Piece
<1>3. /\ TailsTrue(scan.tails) /\ DOMAIN scan.tails \subseteq DOMAIN ts \cup {r.s}
      /\ \A o \in scan.hits : o.p \in r.snapshot /\ (InBody(o, r) \/ (Meets(k) /\ Crosses(o, r)))
      /\ ~scan.twice
  BY <1>1, <1>2, ScanBodyIs
<1>4. ASSUME NEW h \in Found1(r, scan) PROVE HitGenuine(h)'
  <2>1. PICK o \in scan.hits : h = Hit(o, r.s, FALSE)
    BY <1>4 DEF Found1
  <2>2. o.p \in Revisions /\ (InBody(o, r) \/ (Meets(k) /\ Crosses(o, r)))
    BY <1>2, <1>3
  <2>3. HitGenuine(h)
    BY <1>1, <2>1, <2>2, BodyHit
  <2>4. \A j \in DOMAIN accepted :
           BytesKept(j) /\ (accepted[j].fate = "scanned" => accepted'[j].fate = "scanned")
    BY <1>1
  <2> QED
    BY <1>1, <2>3, <2>4, GenuineStays
<1> QED
  BY <1>3, <1>4

(* What the matcher worker publishes is genuine, and tails stay true.      *)
LEMMA HitsScanned ==
    ASSUME HitsInv, Grown, Revisions' = Revisions, patterns' = patterns,
           NEW k, NEW r, NEW stale, NEW old, NEW ts, NEW scan,
           Scanned(k, r, stale, old, ts, scan), ScanFit(k, r, ts, scan)
    PROVE  HitsInv' /\ TailsInv'
<1>1. /\ k \in DOMAIN accepted /\ r = accepted[k] /\ DOMAIN accepted' = DOMAIN accepted
      /\ ts = Without(tails, old) /\ tails' = scan.tails
      /\ flow_tail_keys' = (flow_tail_keys \ old) \cup (DOMAIN scan.tails \cap {r.s})
      /\ repeated' = (repeated \/ scan.twice \/ (Verbatim(r.s) /\ Found1(r, scan) \cap hits # {}))
      /\ hits' = hits \cup Found1(r, scan) /\ accepted'[k].fate = "scanned"
      /\ \A j \in DOMAIN accepted : BytesKept(j) /\ (j # k => accepted'[j] = accepted[j])
  BY DEF Scanned
<1>2. TailsInv /\ r.s \in Streams
  BY DEF ScanFit, RecordSound, Piece, RecordTyped
<1>3. /\ TailsTrue(scan.tails) /\ DOMAIN scan.tails \subseteq DOMAIN ts \cup {r.s}
      /\ \A h \in Found1(r, scan) : HitGenuine(h)'
      /\ Verbatim(r.s) => Found1(r, scan) \cap hits = {}
      /\ ~scan.twice
  BY StreamScanned, BodyScanned
<1>6. \A h \in hits : HitGenuine(h)'
  <2>1. \A j \in DOMAIN accepted : accepted[j].fate = "scanned" => accepted'[j].fate = "scanned"
    BY <1>1
  <2> QED
    BY <1>1, <2>1, GenuineStays DEF HitsInv
<1>7. ~repeated'
  BY <1>1, <1>3, Zenon DEF HitsInv
<1>8. HitsInv'
  BY <1>1, <1>3, <1>6, <1>7 DEF HitsInv
<1>9. TailsTrue(tails)'
  <2>1. PICK tx : tx = scan.tails
    OBVIOUS
  <2>2. TailsTrue(tx)'
    BY <1>1, <1>3, <2>1, TailsStayTrue
  <2> QED
    BY <1>1, <2>1, <2>2 DEF TailsTrue, TailTrue, TailBody
<1>10. DOMAIN tails' \subseteq flow_tail_keys' /\ flow_tail_keys' \subseteq Streams
  <2>1. DOMAIN ts = DOMAIN tails \ old
    BY <1>1 DEF Without
  <2>2. DOMAIN tails \subseteq flow_tail_keys /\ flow_tail_keys \subseteq Streams
    BY <1>2 DEF TailsInv
  <2> QED
    BY <1>1, <1>2, <1>3, <2>1, <2>2
<1> QED
  BY <1>8, <1>9, <1>10 DEF TailsInv

(* The tails reach as far back as they must after the scan.                *)
LEMMA ReachesScanned ==
    ASSUME Grown, patterns' = patterns, \A f : Awaited(f, 0)' => Awaited(f, 0),
           NEW k, NEW r, NEW stale, NEW old, NEW ts, NEW scan,
           Scanned(k, r, stale, old, ts, scan), ScanFit(k, r, ts, scan)
    PROVE  ReachesInv'
<1>1. /\ k \in DOMAIN accepted /\ r = accepted[k] /\ DOMAIN accepted' = DOMAIN accepted
      /\ scan = ScanRecord(r.snapshot, ts, r, r.generation) /\ ts = Without(tails, old) /\ tails' = scan.tails
      /\ old = flow_tail_keys \cap UNION {OfFlow(f) : f \in stale} /\ purged' = purged \cup stale
      /\ accepted'[k].fate = "scanned" /\ accepted'[k].snapshot = r.snapshot /\ accepted'[k].generation = r.generation
      /\ \A j \in DOMAIN accepted : BytesKept(j) /\ (j # k => accepted'[j] = accepted[j])
  BY DEF Scanned
<1>2. /\ RecordsInv /\ ReachesInv /\ DOMAIN accepted \subseteq Int
      /\ \A j \in DOMAIN accepted : accepted[j].fate = "scanned" => j < k
      /\ r.snapshot \subseteq Revisions /\ Compiled(r.snapshot) /\ IsFiniteSet(r.snapshot)
      /\ RecordTyped(r) /\ (Verbatim(r.s) => RecordTrue(r)) /\ TailsTrue(ts)
  BY DEF ScanFit, RecordSound, Piece
<1>3. PICK prefix, keep : prefix = PrefixOf(ts, r, r.generation) /\ keep = required_overlap(r.snapshot, r)
  OBVIOUS
<1>4. /\ \A s \in DOMAIN ts \ {r.s} : s \in DOMAIN scan.tails /\ scan.tails[s] = ts[s]
      /\ Verbatim(r.s) /\ is_interested(r.snapshot, r) /\ keep > 0 =>
           /\ r.s \in DOMAIN scan.tails /\ scan.tails[r.s].generation = r.generation
           /\ scan.tails[r.s].end_offset = r.offset + Len(r.data)
           /\ Len(scan.tails[r.s].data)
                = IF Len(prefix) + Len(r.data) > keep THEN keep ELSE Len(prefix) + Len(r.data)
  <2>1. PICK set, g : set = r.snapshot /\ g = r.generation
    OBVIOUS
  <2>2. /\ \A s \in DOMAIN ts \ {r.s} : s \in DOMAIN scan.tails /\ scan.tails[s] = ts[s]
        /\ Verbatim(r.s) /\ is_interested(set, r) /\ keep > 0 =>
             /\ r.s \in DOMAIN scan.tails /\ scan.tails[r.s].generation = g
             /\ scan.tails[r.s].end_offset = r.offset + Len(r.data)
             /\ Len(scan.tails[r.s].data)
                  = IF Len(prefix) + Len(r.data) > keep THEN keep ELSE Len(prefix) + Len(r.data)
    <3>1. /\ Compiled(set) /\ IsFiniteSet(set) /\ TailsTrue(ts) /\ k \in DOMAIN accepted /\ r = accepted[k]
          /\ scan = ScanRecord(set, ts, r, g) /\ prefix = PrefixOf(ts, r, g)
          /\ keep = required_overlap(set, r)
      BY <1>1, <1>2, <1>3, <2>1
    <3>2. CASE Verbatim(r.s)
      <4>1. RecordTrue(r)
        BY <1>2, <3>2
      <4> QED
        BY <3>1, <4>1, ScanRecordIs
    <3>3. CASE ~Verbatim(r.s)
      <4>1. RecordTyped(r)
        BY <1>2
      <4>2. \A s \in DOMAIN ts \ {r.s} : s \in DOMAIN scan.tails /\ scan.tails[s] = ts[s]
        BY <3>1, <3>3, <4>1, ScanBodyIs
      <4> QED
        BY <3>3, <4>2
    <3> QED
      BY <3>2, <3>3
  <2> QED
    BY <2>1, <2>2
<1>5. DOMAIN ts = DOMAIN tails \ old /\ \A s \in DOMAIN ts : ts[s] = tails[s]
  BY <1>1 DEF Without
<1>6. ASSUME NEW j \in DOMAIN accepted, accepted[j].s # r.s PROVE TailReaches(j)'
  <2>1. PICK f : f = FlowOf(accepted[j])
    OBVIOUS
  <2>2. TailReaches(j) /\ accepted[j].snapshot \subseteq Revisions
    BY <1>2 DEF ReachesInv, RecordsInv
  <2>3. \A i \in DOMAIN accepted :
              /\ BytesKept(i)
              /\ accepted[i].s = accepted[j].s =>
                    /\ accepted'[i].fate = "scanned" => accepted[i].fate = "scanned"
                    /\ accepted[i].fate = "scanned" => accepted'[i] = accepted[i]
    BY <1>1, <1>6
  <2>4. Awaited(f, 0)' /\ f \notin purged' /\ accepted[j].s \in DOMAIN tails =>
           accepted[j].s \in DOMAIN tails' /\ tails'[accepted[j].s] = tails[accepted[j].s]
    <3> SUFFICES ASSUME f \notin purged', accepted[j].s \in DOMAIN tails
                 PROVE  accepted[j].s \in DOMAIN tails' /\ tails'[accepted[j].s] = tails[accepted[j].s]
      OBVIOUS
    <3>1. PICK s : s = accepted[j].s
      OBVIOUS
    <3>2. f \notin stale /\ StreamOf[s].flow = f
      BY <1>1, <2>1, <3>1 DEF FlowOf
    <3>3. s \notin old
      BY <1>1, <3>2 DEF OfFlow
    <3>4. s \in DOMAIN ts \ {r.s} /\ ts[s] = tails[s]
      BY <1>5, <1>6, <3>1, <3>3
    <3> QED
      BY <1>1, <1>4, <3>1, <3>4
  <2>5. purged \subseteq purged' /\ DOMAIN accepted' \subseteq Int
    BY <1>1, <1>2
  <2>6. Awaited(f, 0)' => Awaited(f, 0)
    OBVIOUS
  <2> QED
    BY <1>1, <2>1, <2>2, <2>3, <2>4, <2>5, <2>6, TailReachesKept
<1>7. ASSUME NEW j \in DOMAIN accepted, accepted[j].s = r.s, j # k PROVE TailReaches(j)'
  <2>1. ~Latest1(j)'
    <3>1. CASE accepted[j].fate # "scanned"
      BY <1>1, <1>7, <3>1 DEF Latest1
    <3>2. CASE accepted[j].fate = "scanned"
      <4>1. k > j
        BY <1>2, <3>2
      <4>2. accepted'[k].s = accepted'[j].s
        BY <1>1, <1>7 DEF BytesKept
      <4> QED
        BY <1>1, <4>1, <4>2 DEF Latest1
    <3> QED
      BY <3>1, <3>2
  <2> QED
    BY <2>1 DEF TailReaches
<1>8. TailReaches(k)'
  <2>1. PICK q : q = accepted'[k]
    OBVIOUS
  <2>2. /\ q.s = r.s /\ q.offset = r.offset /\ q.data = r.data /\ q.view = r.view /\ q.service = r.service
        /\ q.snapshot = r.snapshot /\ q.generation = r.generation /\ RecEnd(q) = RecEnd(r)
    BY <1>1, <2>1 DEF BytesKept, RecEnd
  <2> SUFFICES ASSUME Verbatim(q.s), FlowOf(q) \notin purged', is_interested(q.snapshot, q)',
                      NEW b \in Nat, b < RecEnd(q), RecEnd(q) - b <= required_overlap(q.snapshot, q)', Run(k, b)'
               PROVE  TailHolds(k, b)'
    <3>1. FlowOf(accepted'[k]) = FlowOf(accepted[k])' /\ RecEnd(accepted'[k]) = RecEnd(accepted[k])'
      BY DEF FlowOf, RecEnd
    <3> QED
      BY <2>1, <3>1 DEF TailReaches
  <2>3. is_interested(r.snapshot, r) /\ RecEnd(r) - b <= keep
    <3>1. ASSUME NEW set, set \subseteq Revisions
          PROVE  (is_interested(set, q)' <=> is_interested(set, q)) /\ required_overlap(set, q)' = required_overlap(set, q)
      BY <3>1, OverlapStays
    <3>2. (is_interested(r.snapshot, q) <=> is_interested(r.snapshot, r)) /\ required_overlap(r.snapshot, q) = required_overlap(r.snapshot, r)
      BY <2>2, SameRules
    <3>3. PICK set : set = r.snapshot
      OBVIOUS
    <3>4. q.snapshot = set
      BY <2>2, <3>3
    <3>5. is_interested(set, q)' /\ RecEnd(q) - b <= required_overlap(set, q)'
      <4>1. (set = q.snapshot)' => (is_interested(set, q)' <=> is_interested(q.snapshot, q)')
                                  /\ required_overlap(set, q)' = required_overlap(q.snapshot, q)'
        BY Zenon
      <4> QED
        BY <3>4, <4>1
    <3> QED
      BY <1>2, <1>3, <2>2, <3>1, <3>2, <3>3, <3>5
  <2>4. /\ r.offset \in Nat /\ Len(r.data) \in Nat /\ RecEnd(r) = r.offset + Len(r.data) /\ keep \in Nat
    BY <1>2, <1>3, OverlapOfSet DEF RecordTyped, RecEnd
  <2>5. FlowOf(r) \notin purged
    BY <1>1, <2>2 DEF FlowOf
  <2>6. \A j \in DOMAIN accepted : j < k /\ accepted[j].s = r.s /\ RecEnd(accepted[j]) > b => SameScan(j, k)
    <3> SUFFICES ASSUME NEW j \in DOMAIN accepted, j < k, accepted[j].s = r.s, RecEnd(accepted[j]) > b
                 PROVE  SameScan(j, k)
      OBVIOUS
    <3>1. accepted'[j] = accepted[j] /\ j <= k
      BY <1>1, <1>2
    <3>2. SameScan(j, k)'
      BY <1>1, <2>1, <2>2, <3>1 DEF Run, RecEnd
    <3> QED
      BY <1>1, <3>1, <3>2 DEF SameScan
  <2>7. \A x \in b .. r.offset - 1 : \E j \in DOMAIN accepted : j < k /\ Covers(j, r.s, x)
    <3> SUFFICES ASSUME NEW x \in b .. r.offset - 1
                 PROVE  \E j \in DOMAIN accepted : j < k /\ Covers(j, r.s, x)
      OBVIOUS
    <3>1. x \in b .. RecEnd(q) - 1 /\ x < r.offset
      BY <2>2, <2>4
    <3>2. PICK j \in DOMAIN accepted : j <= k /\ Covers(j, q.s, x)'
      <4>1. RecEnd(accepted[k])' = RecEnd(q) /\ accepted[k]'.s = q.s
        BY <2>1 DEF RecEnd
      <4>2. \E j \in DOMAIN accepted' : j <= k /\ Covers(j, accepted[k].s, x)'
        BY <3>1, <4>1 DEF Run
      <4> QED
        BY <1>1, <4>1, <4>2 DEF Covers
    <3>3. accepted'[j].s = q.s /\ accepted'[j].offset <= x /\ x < RecEnd(accepted'[j])
      BY <3>2 DEF Covers, RecEnd
    <3>4. j # k
      BY <2>1, <2>2, <2>4, <3>1, <3>3
    <3>5. j < k /\ accepted'[j] = accepted[j]
      BY <1>1, <1>2, <3>2, <3>4
    <3> QED
      BY <2>2, <3>3, <3>5 DEF Covers
  <2>8. b < r.offset => r.offset - b <= keep
    BY <2>3, <2>4
  <2>9. Len(prefix) \in Nat /\ r.offset - b <= Len(prefix)
    BY <1>1, <1>3, <2>2, <2>3, <2>5, <2>6, <2>7, <2>8, PrefixLong
  <2>10. keep > 0
    BY <2>2, <2>3, <2>4
  <2>11. /\ r.s \in DOMAIN tails' /\ tails'[r.s].generation = r.generation
         /\ tails'[r.s].end_offset = RecEnd(r)
         /\ Len(tails'[r.s].data) = IF Len(prefix) + Len(r.data) > keep THEN keep ELSE Len(prefix) + Len(r.data)
    BY <1>1, <1>4, <2>2, <2>3, <2>4, <2>10
  <2>12. RecEnd(r) - b <= Len(tails'[r.s].data)
    BY <2>3, <2>4, <2>9, <2>11
  <2> QED
    BY <2>1, <2>2, <2>11, <2>12 DEF TailHolds, RecEnd
<1> QED
  BY <1>1, <1>6, <1>7, <1>8 DEF ReachesInv

(* An occurrence that ends with the record that is scanned is published.   *)
LEMMA DueIsFound ==
    ASSUME patterns' = patterns, Revisions' = Revisions,
           NEW k, NEW r, NEW stale, NEW old, NEW ts, NEW scan,
           Scanned(k, r, stale, old, ts, scan), ScanFit(k, r, ts, scan),
           NEW p \in Revisions, NEW o \in Found({p}, Data(r.s)), Due(r.s, p, o, k)'
    PROVE  Hit(o, r.s, FALSE) \in hits'
<1>1. /\ k \in DOMAIN accepted /\ r = accepted[k] /\ DOMAIN accepted' = DOMAIN accepted
      /\ scan = ScanRecord(r.snapshot, ts, r, r.generation) /\ purged' = purged \cup stale
      /\ accepted'[k].fate = "scanned" /\ accepted'[k].limited = scan.limited
      /\ accepted'[k].snapshot = r.snapshot /\ accepted'[k].generation = r.generation
      /\ hits' = hits \cup Found1(r, scan)
      /\ \A j \in DOMAIN accepted : BytesKept(j) /\ (j # k => accepted'[j] = accepted[j])
  BY DEF Scanned
<1>2. /\ RegistryShape /\ WordsInv /\ RecordsInv /\ ReachesInv /\ DOMAIN accepted \subseteq Int
      /\ \A j \in DOMAIN accepted : accepted[j].fate = "scanned" => j < k
      /\ r.snapshot \subseteq Revisions /\ Compiled(r.snapshot) /\ IsFiniteSet(r.snapshot)
      /\ Piece(r) /\ TailsTrue(ts)
  BY DEF ScanFit, RecordSound
<1>v. Verbatim(r.s) /\ RecordTrue(r) /\ IsSequence(Data(r.s))
  <2>1. Verbatim(r.s)
    BY DEF Due
  <2> QED
    BY <1>2, <2>1, RecordText DEF Piece
<1>3. PICK set, g, prefix, keep : /\ set = r.snapshot /\ g = r.generation
                                  /\ prefix = PrefixOf(ts, r, g) /\ keep = required_overlap(set, r)
  OBVIOUS
<1>4. PICK q : q = accepted'[k]
  OBVIOUS
<1>5. q.snapshot = set /\ q.view = r.view /\ q.service = r.service /\ q.limited = scan.limited
  BY <1>1, <1>3, <1>4 DEF BytesKept
<1>6. PICK group : group = GroupWith(p, set, r)
  OBVIOUS
<1>7. GlobalGroup(set, q) = GlobalGroup(set, r) /\ ServiceGroup(set, q) = ServiceGroup(set, r)
  BY <1>5, SameRules
<1>8. /\ GlobalGroup(set, q)' = GlobalGroup(set, q) /\ ServiceGroup(set, q)' = ServiceGroup(set, q)
      /\ \A e, s, c : Isolated(e, s, c)' <=> Isolated(e, s, c)
  <2>1. \A e : ExprOf(e)' = ExprOf(e)
    BY DEF ExprOf
  <2>2. \A service : Group(set, q, service)' = Group(set, q, service)
    BY <2>1 DEF Group
  <2>3. GlobalGroup(set, q)' = GlobalGroup(set, q) /\ ServiceGroup(set, q)' = ServiceGroup(set, q)
    BY <2>2 DEF GlobalGroup, ServiceGroup
  <2>4. \A e, s, c : Isolated(e, s, c)' <=> Isolated(e, s, c)
    BY DEF Isolated, OfKind, Found, Occurrences, ExprOf
  <2> QED
    BY <2>3, <2>4
<1>9. GroupWith(p, accepted[k].snapshot, accepted[k])' = group
  <2>1. GroupWith(p, accepted[k].snapshot, accepted[k])'
          = IF p \in GlobalGroup(q.snapshot, q)' THEN GlobalGroup(q.snapshot, q)' ELSE ServiceGroup(q.snapshot, q)'
    BY <1>4 DEF GroupWith
  <2>2. GlobalGroup(q.snapshot, q)' = GlobalGroup(set, q)' /\ ServiceGroup(q.snapshot, q)' = ServiceGroup(set, q)'
    BY <1>5
  <2> QED
    BY <1>6, <1>7, <1>8, <2>1, <2>2 DEF GroupWith
<1>10. /\ Whole(r.s, o.start, o.end)' /\ InWindow(p)' /\ StreamOf[r.s].flow \notin purged'
       /\ k \in Holding(r.s, o.start, o.end)'
       /\ \A j \in Holding(r.s, o.start, o.end)' : j <= k /\ SameScan(j, k)' /\ ~accepted'[j].limited
       /\ p \in group /\ Isolated(o, Data(r.s), group)
  BY <1>8, <1>9 DEF Due
<1>11. InWindow(p) /\ FlowOf(r) \notin purged /\ ~scan.limited
  <2>1. InWindow(p)' <=> InWindow(p)
    BY DEF InWindow, ExprOf
  <2> QED
    BY <1>1, <1>10, <2>1 DEF FlowOf
<1>12. group \in {GlobalGroup(set, r), ServiceGroup(set, r)} /\ group \subseteq set
  BY <1>6 DEF GroupWith, GlobalGroup, ServiceGroup, Group
<1>13. is_interested(r.snapshot, r)
  BY <1>3, <1>10, <1>12 DEF is_interested
<1>14. Compiled({p}) /\ Compiled(group) /\ p \in set
  BY <1>2, <1>3, <1>10, <1>12 DEF Compiled
<1>15. /\ o.p = p /\ o.start \in Nat /\ o.end \in Nat /\ o.start < o.end
       /\ o.end = o.start + Len(Word(p)) /\ Len(Word(p)) \in Nat
  BY <1>v, <1>14, FoundIs, WordLength
<1>16. o \in Found(group, Data(r.s))
  <2>1. o \in Occurrences({p}, Data(r.s)) /\ o.end <= Len(Data(r.s)) /\ SubSeq(Data(r.s), o.start + 1, o.end) = ExprOf(o.p).word
    BY DEF Found
  <2>2. o \in Occurrences(group, Data(r.s))
    BY <1>10, <2>1 DEF Occurrences
  <2> QED
    BY <2>1, <2>2 DEF Found
<1>17. keep \in Nat /\ Len(Word(p)) - 1 <= keep
  BY <1>2, <1>3, <1>10, <1>11, <1>12, OverlapOfSet DEF InWindow, Word
<1>18. \A j \in DOMAIN accepted : /\ accepted[j].offset \in Nat /\ RecEnd(accepted[j]) \in Nat
                                  /\ accepted[j].offset <= RecEnd(accepted[j])
  BY <1>2 DEF RecordsInv, RecordSound, Piece, RecordTyped, RecEnd
<1>19. ASSUME NEW j \in DOMAIN accepted
       PROVE  j \in Holding(r.s, o.start, o.end)' <=>
                 accepted[j].s = r.s /\ accepted[j].offset < o.end /\ RecEnd(accepted[j]) > o.start
  BY <1>1 DEF Holding, BytesKept, RecEnd
<1>20. r.offset < o.end /\ RecEnd(r) > o.start /\ r.offset \in Nat /\ RecEnd(r) \in Nat /\ r.offset <= RecEnd(r)
  BY <1>1, <1>10, <1>18, <1>19
<1>21. ASSUME NEW x \in o.start .. o.end - 1
       PROVE  \E j \in DOMAIN accepted : j <= k /\ Covers(j, r.s, x)
  <2>1. PICK j \in Holding(r.s, x, x + 1)' : TRUE
    BY <1>10 DEF Whole
  <2>2. j \in DOMAIN accepted /\ accepted[j].s = r.s /\ accepted[j].offset < x + 1 /\ RecEnd(accepted[j]) > x
    BY <1>1, <2>1 DEF Holding, BytesKept, RecEnd
  <2>3. accepted[j].offset <= x /\ accepted[j].offset < o.end /\ RecEnd(accepted[j]) > o.start
    BY <1>15, <1>18, <2>2
  <2>4. j <= k
    BY <1>10, <1>19, <2>2, <2>3
  <2> QED
    BY <2>2, <2>3, <2>4 DEF Covers
<1>22. o.end <= RecEnd(r)
  <2> SUFFICES ASSUME o.end > RecEnd(r) PROVE FALSE
    BY <1>15, <1>20
  <2>1. RecEnd(r) \in o.start .. o.end - 1
    BY <1>15, <1>20
  <2>2. PICK j \in DOMAIN accepted : j <= k /\ Covers(j, r.s, RecEnd(r))
    BY <1>21, <2>1
  <2>3. accepted[j].s = r.s /\ RecEnd(r) < RecEnd(accepted[j])
    BY <2>2 DEF Covers
  <2>4. j # k
    BY <1>1, <1>20, <2>3
  <2>5. j < k
    BY <1>2, <2>2, <2>4, <1>1
  <2>6. RecEnd(accepted[j]) <= r.offset
    BY <1>1, <1>2, <1>v, <2>3, <2>5 DEF RecordsInv
  <2> QED
    BY <1>18, <1>20, <2>3, <2>6
<1>23. Len(prefix) \in Nat /\ r.offset - o.start <= Len(prefix)
  <2>1. o.start < r.offset => r.offset - o.start <= required_overlap(r.snapshot, r)
    BY <1>3, <1>15, <1>17, <1>20
  <2>2. \A j \in DOMAIN accepted : j < k /\ accepted[j].s = r.s /\ RecEnd(accepted[j]) > o.start => SameScan(j, k)
    <3> SUFFICES ASSUME NEW j \in DOMAIN accepted, j < k, accepted[j].s = r.s, RecEnd(accepted[j]) > o.start
                 PROVE  SameScan(j, k)
      OBVIOUS
    <3>1. RecEnd(accepted[j]) <= r.offset
      BY <1>1, <1>2, <1>v DEF RecordsInv
    <3>2. accepted[j].offset < o.end
      BY <1>15, <1>18, <1>20, <3>1
    <3>3. SameScan(j, k)'
      BY <1>10, <1>19, <3>2
    <3>4. accepted'[j] = accepted[j]
      BY <1>1, <1>2
    <3> QED
      BY <1>1, <3>3, <3>4 DEF SameScan
  <2>3. \A x \in o.start .. r.offset - 1 : \E j \in DOMAIN accepted : j < k /\ Covers(j, r.s, x)
    <3> SUFFICES ASSUME NEW x \in o.start .. r.offset - 1
                 PROVE  \E j \in DOMAIN accepted : j < k /\ Covers(j, r.s, x)
      OBVIOUS
    <3>1. x \in o.start .. o.end - 1 /\ x < r.offset /\ x \in Int
      BY <1>15, <1>20
    <3>2. PICK j \in DOMAIN accepted : j <= k /\ Covers(j, r.s, x)
      BY <1>21, <3>1
    <3>3. j # k
      BY <1>1, <1>20, <3>1, <3>2 DEF Covers
    <3>4. j < k
      BY <1>1, <1>2, <3>2, <3>3
    <3> QED
      BY <3>2, <3>4
  <2> QED
    BY <1>1, <1>3, <1>11, <1>13, <1>15, <1>v, <2>1, <2>2, <2>3, PrefixLong
<1>24. InReach(o, r, prefix)
  BY <1>15, <1>20, <1>22, <1>23 DEF InReach, RecEnd
<1>25. o \in scan.hits
  <2>1. /\ Compiled(set) /\ IsFiniteSet(set) /\ TailsTrue(ts) /\ k \in DOMAIN accepted /\ r = accepted[k]
        /\ RecordTrue(r) /\ scan = ScanRecord(set, ts, r, g)
    BY <1>1, <1>2, <1>3, <1>v
  <2>2. is_interested(set, r) /\ ~scan.limited =>
          \A c \in {GlobalGroup(set, r), ServiceGroup(set, r)} : \A e \in Found(c, Data(r.s)) :
             InReach(e, r, prefix) /\ Isolated(e, Data(r.s), c) => e \in scan.hits
    BY <1>3, <2>1, ScanRecordIs
  <2> QED
    BY <1>3, <1>10, <1>11, <1>12, <1>13, <1>16, <1>24, <2>2
<1> QED
  BY <1>1, <1>25 DEF Found1

(* What is due after the scan is published.                                *)
LEMMA PublishedScanned ==
    ASSUME PublishedInv, RecordsInv', Grown, patterns' = patterns, Revisions' = Revisions,
           NEW k, NEW r, NEW stale, NEW old, NEW ts, NEW scan,
           Scanned(k, r, stale, old, ts, scan), ScanFit(k, r, ts, scan)
    PROVE  PublishedInv'
<1>1. /\ k \in DOMAIN accepted /\ r = accepted[k] /\ DOMAIN accepted' = DOMAIN accepted
      /\ purged \subseteq purged' /\ hits \subseteq hits'
      /\ \A j \in DOMAIN accepted : BytesKept(j) /\ (j # k => accepted'[j] = accepted[j])
  BY DEF Scanned
<1>2. /\ RegistryShape /\ WordsInv /\ RecordsInv /\ DOMAIN accepted \subseteq Int
      /\ \A j \in DOMAIN accepted : accepted[j].fate = "scanned" => j < k
  BY DEF ScanFit
<1> SUFFICES ASSUME NEW s \in Streams, NEW p \in Revisions', NEW j \in DOMAIN accepted',
                    NEW o \in Found({p}, Data(s))', Due(s, p, o, j)'
             PROVE  Hit(o, s, FALSE) \in hits'
  BY DEF PublishedInv
<1>3. /\ j \in Holding(s, o.start, o.end)' /\ Holding(s, o.start, o.end)' \subseteq DOMAIN accepted
      /\ \A q \in Holding(s, o.start, o.end)' : q <= j /\ accepted'[q].fate = "scanned"
  BY <1>1 DEF Due, SameScan, Holding
<1>4. CASE k \notin Holding(s, o.start, o.end)'
  <2>1. \A q \in Holding(s, o.start, o.end)' :
           q \in DOMAIN accepted /\ accepted[q].fate = "scanned" /\ accepted'[q] = accepted[q]
    BY <1>1, <1>3, <1>4
  <2>2. p \in Revisions /\ j \in DOMAIN accepted /\ o \in Found({p}, Data(s)) /\ Due(s, p, o, j)
    BY <1>1, <1>2, <2>1, DueKept
  <2> QED
    BY <1>1, <2>2 DEF PublishedInv
<1>5. CASE k \in Holding(s, o.start, o.end)'
  <2>1. s = r.s
    BY <1>1, <1>5 DEF Holding, BytesKept
  <2>2. j = k
    <3>1. k <= j
      BY <1>3, <1>5
    <3>2. j # k => j < k
      BY <1>1, <1>2, <1>3
    <3> QED
      BY <1>1, <1>2, <3>1, <3>2
  <2>3. o \in Found({p}, Data(r.s))
    <3>1. \A c, text : Found(c, text)' = Found(c, text)
      BY DEF Found, Occurrences, ExprOf
    <3> QED
      BY <2>1, <3>1
  <2>4. Due(r.s, p, o, k)'
    <3>1. PICK x : x = r.s
      OBVIOUS
    <3>2. Due(x, p, o, k)'
      BY <2>1, <2>2, <3>1
    <3>3. (x = r.s)' => (Due(x, p, o, k)' <=> Due(r.s, p, o, k)')
      BY Zenon
    <3> QED
      BY <3>1, <3>2, <3>3
  <2> QED
    BY <2>1, <2>3, <2>4, DueIsFound
<1> QED
  BY <1>4, <1>5

(* What a scan finds in a decoded body.                                    *)
LEMMA BodyFound ==
    ASSUME NEW set, Compiled(set), IsFiniteSet(set), NEW ts, TailsTrue(ts),
           NEW k \in DOMAIN accepted, NEW r, r = accepted[k], RecordTyped(r), ~Verbatim(r.s), NEW g,
           NEW scan, scan = ScanRecord(set, ts, r, g), is_interested(set, r), ~scan.limited,
           NEW c \in {GlobalGroup(set, r), ServiceGroup(set, r)}, NEW e \in Found(c, r.data),
           Isolated(e, r.data, c), ExprOf(e.p).kind = "literal" \/ ~Meets(k)
    PROVE  Moved(e, r.offset) \in scan.hits
<1>1. is_interested(set, r) /\ ~scan.limited =>
        \A group \in {GlobalGroup(set, r), ServiceGroup(set, r)} : \A o \in Found(group, r.data) :
           Isolated(o, r.data, group) /\ (ExprOf(o.p).kind = "literal" \/ ~Meets(k))
              => Moved(o, r.offset) \in scan.hits
  BY ScanBodyIs, SMTT(60)
<1> QED
  BY <1>1, Zenon

(* What is due in a decoded body is published when the body is scanned.    *)
LEMMA BodiesScanned ==
    ASSUME BodiesInv, Grown, patterns' = patterns, Revisions' = Revisions,
           NEW k, NEW r, NEW stale, NEW old, NEW ts, NEW scan,
           Scanned(k, r, stale, old, ts, scan), ScanFit(k, r, ts, scan)
    PROVE  BodiesInv'
<1>1. /\ k \in DOMAIN accepted /\ r = accepted[k] /\ DOMAIN accepted' = DOMAIN accepted
      /\ scan = ScanRecord(r.snapshot, ts, r, r.generation)
      /\ accepted'[k].limited = scan.limited /\ accepted'[k].snapshot = r.snapshot
      /\ hits' = hits \cup Found1(r, scan)
      /\ \A j \in DOMAIN accepted : BytesKept(j) /\ (j # k => accepted'[j] = accepted[j])
  BY DEF Scanned
<1>2. /\ RegistryShape /\ WordsInv /\ RecordsInv
      /\ Compiled(r.snapshot) /\ IsFiniteSet(r.snapshot) /\ RecordTyped(r) /\ TailsTrue(ts)
  BY DEF ScanFit, RecordSound, Piece
<1>3. ASSUME NEW j \in DOMAIN accepted, j # k PROVE BodyDone(j)'
  <2>1. BodyDone(j) /\ accepted'[j] = accepted[j] /\ hits \subseteq hits'
    BY <1>1, <1>3 DEF BodiesInv
  <2> QED
    BY <1>1, <1>2, <2>1, BodyKept
<1>4. BodyDone(k)'
  <2>1. PICK q, set, text : q = accepted'[k] /\ set = r.snapshot /\ text = r.data
    OBVIOUS
  <2>2. /\ q.s = r.s /\ q.offset = r.offset /\ q.data = text /\ q.view = r.view /\ q.service = r.service
        /\ q.snapshot = set /\ q.limited = scan.limited
    BY <1>1, <2>1 DEF BytesKept
  <2> SUFFICES ASSUME ~Verbatim(q.s), ~q.limited,
                      NEW p \in Revisions', NEW o \in Found({p}, accepted[k].data)', BodyDue(k, p, o)'
               PROVE  Hit(Moved(o, q.offset), q.s, FALSE) \in hits'
    BY <2>1 DEF BodyDone, Moved, Hit
  <2>3. /\ \A e : ExprOf(e)' = ExprOf(e)
        /\ \A c, x : Found(c, x)' = Found(c, x)
        /\ \A e, x, c : Isolated(e, x, c)' <=> Isolated(e, x, c)
    BY DEF ExprOf, Found, Occurrences, Isolated, OfKind
  <2>4. PICK group : group = GroupWith(p, set, r)
    OBVIOUS
  <2>5. GroupWith(p, accepted[k].snapshot, accepted[k])' = group
    <3>1. GlobalGroup(set, q) = GlobalGroup(set, r) /\ ServiceGroup(set, q) = ServiceGroup(set, r)
      BY <2>2, SameRules
    <3>2. \A service : Group(set, q, service)' = Group(set, q, service)
      BY <2>3 DEF Group
    <3>3. GlobalGroup(set, q)' = GlobalGroup(set, q) /\ ServiceGroup(set, q)' = ServiceGroup(set, q)
      BY <3>2 DEF GlobalGroup, ServiceGroup
    <3>4. GroupWith(p, accepted[k].snapshot, accepted[k])'
            = IF p \in GlobalGroup(q.snapshot, q)' THEN GlobalGroup(q.snapshot, q)' ELSE ServiceGroup(q.snapshot, q)'
      BY <2>1 DEF GroupWith
    <3>5. GlobalGroup(q.snapshot, q)' = GlobalGroup(set, q)' /\ ServiceGroup(q.snapshot, q)' = ServiceGroup(set, q)'
      BY <2>2
    <3> QED
      BY <2>4, <3>1, <3>3, <3>4, <3>5 DEF GroupWith
  <2>6. /\ p \in group /\ Isolated(o, text, group)
        /\ ExprOf(p).kind = "literal" \/ ~Meets(k)'
    <3>1. /\ p \in GroupWith(p, accepted[k].snapshot, accepted[k])'
          /\ Isolated(o, accepted[k].data, GroupWith(p, accepted[k].snapshot, accepted[k]))'
          /\ (ExprOf(p).kind)' = "literal" \/ ~Meets(k)'
      BY DEF BodyDue
    <3>2. accepted'[k].data = text
      BY <2>1, <2>2
    <3>3. Isolated(o, accepted[k].data, GroupWith(p, accepted[k].snapshot, accepted[k]))' <=> Isolated(o, text, group)'
      BY <2>5, <3>2 DEF Isolated, Found, Occurrences
    <3> QED
      BY <2>3, <2>5, <3>1, <3>3
  <2>7. ~Meets(k)' => ~Meets(k)
    BY <1>1, MeetsStays
  <2>8. group \in {GlobalGroup(set, r), ServiceGroup(set, r)} /\ group \subseteq set
    BY <2>4 DEF GroupWith, GlobalGroup, ServiceGroup, Group
  <2>9. is_interested(set, r) /\ Compiled({p})
    BY <1>2, <2>1, <2>6, <2>8 DEF is_interested, Compiled
  <2>10. o \in Found({p}, text)
    <3>1. accepted'[k].data = text
      BY <2>1, <2>2
    <3>2. Found({p}, accepted[k].data)' = Found({p}, text)'
      BY <3>1 DEF Found, Occurrences
    <3> QED
      BY <2>3, <3>2
  <2>11. o.p = p
    BY <1>2, <2>1, <2>9, <2>10, FoundIs DEF RecordTyped
  <2>12. o \in Found(group, text)
    <3>1. o \in Occurrences({p}, text) /\ o.end <= Len(text) /\ SubSeq(text, o.start + 1, o.end) = ExprOf(o.p).word
      BY <2>10 DEF Found
    <3>2. o \in Occurrences(group, text)
      BY <2>6, <3>1 DEF Occurrences
    <3> QED
      BY <3>1, <3>2 DEF Found
  <2>13. PICK g : g = r.generation
    OBVIOUS
  <2>14. Moved(o, r.offset) \in scan.hits
    <3>1. /\ Compiled(set) /\ IsFiniteSet(set) /\ TailsTrue(ts) /\ k \in DOMAIN accepted /\ r = accepted[k]
          /\ RecordTyped(r) /\ ~Verbatim(r.s) /\ scan = ScanRecord(set, ts, r, g) /\ ~scan.limited
      BY <1>1, <1>2, <2>1, <2>2, <2>13
    <3>2. o \in Found(group, r.data) /\ Isolated(o, r.data, group) /\ (ExprOf(o.p).kind = "literal" \/ ~Meets(k))
      BY <2>1, <2>6, <2>7, <2>11, <2>12
    <3> QED
      BY <2>8, <2>9, <3>1, <3>2, BodyFound
  <2> QED
    BY <1>1, <2>2, <2>14 DEF Found1
<1> QED
  BY <1>1, <1>3, <1>4 DEF BodiesInv

(* The matcher worker scans a record.                                      *)
LEMMA ExactContent ==
    ASSUME MatchingInv, HitsExactInv, Content
    PROVE  HitsExactInv'
<1>1. IngressInv /\ RegistryShape /\ RegistryInv /\ WordsInv /\ TrafficInv /\ RecordsInv /\ QueueInv
      /\ HitsInv /\ PublishedInv /\ BodiesInv
  BY DEF MatchingInv, RegistryInv, HitsExactInv
<1>2. PICK k, r, stale, old, ts, scan : Scanned(k, r, stale, old, ts, scan)
  BY <1>1, ContentIs
<1>3. ScanFit(k, r, ts, scan)
  BY <1>2, ScannedFit
<1>4. /\ queue # <<>> /\ Head(queue).kind = "content" /\ k = Head(queue).k /\ queue' = Tail(queue)
      /\ k \in DOMAIN accepted /\ r = accepted[k] /\ DOMAIN accepted' = DOMAIN accepted /\ Last' = Last
      /\ accepted'[k].snapshot = r.snapshot
      /\ \A j \in DOMAIN accepted : BytesKept(j) /\ (j # k => accepted'[j] = accepted[j])
      /\ UNCHANGED <<registry, replay, traffic, l7>>
  BY <1>2 DEF Scanned
<1>5. patterns' = patterns
  BY <1>4 DEF registry
<1>6. Grown /\ Revisions' = Revisions
  BY <1>1, <1>5, SameTable
<1>7. WordsInv'
  BY <1>1, <1>4, WordsUnchanged
<1>8. TrafficInv' /\ RecordsInv'
  <2>1. \A j \in DOMAIN accepted : BytesKept(j) /\ accepted'[j].snapshot \subseteq Revisions'
    BY <1>1, <1>4, <1>6 DEF RecordsInv
  <2> QED
    BY <1>1, <1>4, <2>1, RecordsKept
<1>9. QueueInv' /\ \A f : \A i \in Nat : Awaited(f, i)' => Awaited(f, i + 1) /\ Awaited(f, i)
  <2>1. \A j \in DOMAIN accepted :
           /\ accepted'[j].s = accepted[j].s
           /\ accepted'[j].fate = "scanned"
                 => accepted[j].fate = "scanned" \/ (Head(queue).kind = "content" /\ j = Head(queue).k)
    BY <1>4 DEF BytesKept
  <2> QED
    BY <1>1, <1>4, <2>1, QueueTaken
<1>10. \A f : Awaited(f, 0)' => Awaited(f, 0)
  BY <1>9
<1>11. HitsInv' /\ TailsInv'
  BY <1>1, <1>2, <1>3, <1>5, <1>6, HitsScanned
<1>12. ReachesInv'
  BY <1>2, <1>3, <1>5, <1>6, <1>10, ReachesScanned
<1>13. PublishedInv'
  BY <1>1, <1>2, <1>3, <1>5, <1>6, <1>8, PublishedScanned
<1>14. BodiesInv'
  BY <1>1, <1>2, <1>3, <1>5, <1>6, BodiesScanned
<1> QED
  BY <1>7, <1>8, <1>9, <1>11, <1>12, <1>13, <1>14 DEF HitsExactInv

-----------------------------------------------------------------------------
(* The initial states.                                                     *)

(* At the start nothing has been read, and nothing was found.              *)
LEMMA ExactInit == Init => HitsExactInv
<1> SUFFICES ASSUME Init PROVE HitsExactInv
  OBVIOUS
<1>1. PICK sc \in Scenarios : /\ traffic = sc.traffic
                              /\ ops = [o \in Ops |-> [pc |-> "idle", request |-> sc.requests[o]]]
  BY DEF Init
<1>2. /\ replay = <<>> /\ l7 = [pc |-> "idle"] /\ accepted = <<>> /\ queue = <<>> /\ tails = <<>>
      /\ flow_tail_keys = {} /\ hits = {} /\ repeated = FALSE /\ interest_mask = MaskOf(active)
  BY DEF Init
<1>3. l7.pc # "read"
  BY <1>2
<1>4. DOMAIN accepted = {} /\ DOMAIN tails = {} /\ DOMAIN queue = {} /\ Len(queue) = 0 /\ DOMAIN replay = {}
  BY <1>2, EmptySequence
<1>5. WordsInv
  <2>1. ASSUME NEW p \in Revisions PROVE IsExpr(ExprOf(p))
    <3>1. p.id \in Ids /\ p.rev \in DOMAIN patterns[p.id]
      BY RevisionIs
    <3>2. PICK id \in Ids : id = p.id
      BY <3>1
    <3> DEFINE row == [expr |-> Existing[id], enabled |-> TRUE]
    <3>3. patterns[id] = IF id \notin DOMAIN Existing THEN <<>> ELSE <<row>>
      BY DEF Init
    <3>4. id \in DOMAIN Existing
      BY <3>1, <3>2, <3>3, EmptySequence
    <3>5. patterns[id] = <<row>> /\ row.expr = Existing[id]
      BY <3>3, <3>4
    <3> HIDE DEF row
    <3>6. DOMAIN <<row>> = {1} /\ <<row>>[1] = row
      OBVIOUS
    <3>7. ExprOf(p) = Existing[id]
      BY <3>1, <3>2, <3>5, <3>6 DEF ExprOf
    <3> QED
      BY <3>4, <3>7, PatternsAssumption
  <2>2. ASSUME NEW o \in Ops PROVE OpWords(o)
    <3>1. ops[o].pc = "idle" /\ ops[o].request = sc.requests[o]
      BY <1>1
    <3>2. sc.requests[o].kind \in {"create", "update"} => IsExpr(sc.requests[o].expr)
      BY PatternsAssumption
    <3> QED
      BY <3>1, <3>2 DEF OpWords, Writing, Listed
  <2>3. Waiting
    BY <1>2, EmptySequence DEF Waiting
  <2>4. interest_mask \subseteq Views
    <3>1. active \subseteq Revisions
      BY MatchingInit DEF MatchingInv, RegistryInv, RegistryShape
    <3> QED
      BY <1>2, <2>1, <3>1, MaskIsViews
  <2> QED
    BY <2>1, <2>2, <2>3, <2>4 DEF WordsInv
<1>6. TrafficInv
  <2>1. /\ IsSequence(traffic)
        /\ \A i \in DOMAIN traffic : LET x == traffic[i] IN
             /\ x.s \in Streams /\ x.offset \in Nat /\ IsSequence(x.data)
             /\ Verbatim(x.s) =>
                  /\ x.offset + Len(x.data) <= Len(Data(x.s))
                  /\ x.data = SubSeq(Data(x.s), x.offset + 1, x.offset + Len(x.data))
        /\ \A i, k \in DOMAIN traffic : LET x == traffic[i] y == traffic[k] IN
             i < k /\ x.s = y.s /\ Verbatim(x.s) => x.offset + Len(x.data) <= y.offset
    BY <1>1, TrafficAssumption
  <2>2. ASSUME NEW i \in DOMAIN traffic PROVE Piece(traffic[i])
    <3>1. PICK x : x = traffic[i]
      OBVIOUS
    <3>2. /\ x.s \in Streams /\ x.offset \in Nat /\ IsSequence(x.data)
          /\ Verbatim(x.s) =>
                  /\ x.offset + Len(x.data) <= Len(Data(x.s))
                  /\ x.data = SubSeq(Data(x.s), x.offset + 1, x.offset + Len(x.data))
      BY <2>1, <3>1
    <3>3. Len(x.data) \in Nat
      BY <3>2 DEF IsSequence
    <3>4. RecordTyped(x)
      BY <3>2, <3>3 DEF RecordTyped
    <3>5. Verbatim(x.s) => RecordTrue(x)
      BY <3>2, <3>3 DEF RecordTrue, PartTrue
    <3> QED
      BY <3>1, <3>4, <3>5 DEF Piece
  <2>3. \A i, k \in DOMAIN traffic : i < k /\ traffic[i].s = traffic[k].s /\ Verbatim(traffic[i].s)
           => RecEnd(traffic[i]) <= traffic[k].offset
    BY <2>1 DEF RecEnd
  <2> QED
    BY <1>3, <2>1, <2>2, <2>3 DEF TrafficInv
<1>7. RecordsInv /\ ReachesInv /\ PublishedInv /\ BodiesInv
  BY <1>4 DEF RecordsInv, ReachesInv, PublishedInv, BodiesInv
<1>8. QueueInv
  BY <1>4, MatchingAssumption DEF QueueInv
<1>9. HitsInv /\ TailsInv
  BY <1>2, <1>4 DEF HitsInv, TailsInv, TailsTrue
<1> QED
  BY <1>5, <1>6, <1>7, <1>8, <1>9 DEF HitsExactInv

(* Every step keeps the invariant.                                         *)
LEMMA ExactStep == MatchingInv /\ HitsExactInv /\ [Next]_vars => HitsExactInv'
<1> SUFFICES ASSUME MatchingInv, HitsExactInv, [Next]_vars PROVE HitsExactInv'
  OBVIOUS
<1>1. ASSUME UNCHANGED vars PROVE HitsExactInv'
  <2>1. UNCHANGED registry /\ replay' = replay /\ UNCHANGED <<accepted, queue, l7, traffic, matcher>>
    BY <1>1 DEF vars
  <2>2. Grown
    <3>1. patterns' = patterns
      BY <2>1 DEF registry
    <3> QED
      BY <3>1, SameTable DEF MatchingInv, RegistryInv
  <2>3. WordsInv'
    BY <2>1, WordsUnchanged DEF MatchingInv, HitsExactInv
  <2> QED
    BY <2>1, <2>2, <2>3, ExactUntouched
<1>2. CASE \E o \in Ops : RequestStep(o)
  BY <1>2, ExactRequest
<1>3. CASE ReadMask \/ Accept \/ TakeSnapshot \/ send_content \/ try_flow_closed
  BY <1>3, ExactIngress
<1>4. CASE FlowClosed
  BY <1>4, ExactFlowClosed
<1>5. CASE Content
  BY <1>5, ExactContent
<1>6. CASE Replay
  BY <1>6, ExactReplay
<1> QED
  BY <1>1, <1>2, <1>3, <1>4, <1>5, <1>6 DEF Next, RequestStep

(* A non-empty set of records has a last one.                              *)
LEMMA LastRecord ==
    ASSUME NEW N \in Nat, NEW ks, ks \subseteq 1 .. N, ks # {}
    PROVE  \E k \in ks : \A q \in ks : q <= k
<1> DEFINE S == {m \in Nat : \E k \in ks : m = N - k}
<1>1. ASSUME NEW k \in ks PROVE N - k \in S
  <2>1. k \in 1 .. N
    OBVIOUS
  <2>2. N - k \in Nat
    BY <2>1
  <2> QED
    BY <2>2
<1>2. S # {} /\ S \in SUBSET Nat
  BY <1>1
<1>3. PICK m \in S : \A n \in S : m <= n
  BY <1>2, LeastNatural
<1>4. PICK k \in ks : m = N - k
  BY <1>3
<1>5. ASSUME NEW q \in ks PROVE q <= k
  <2>1. N - k <= N - q
    BY <1>1, <1>3, <1>4
  <2>2. q \in Int /\ k \in Int
    OBVIOUS
  <2> HIDE DEF S
  <2> QED
    BY <2>1, <2>2
<1> QED
  BY <1>5

(* The invariant says what HitsExact says.                                 *)
LEMMA ExactFollows == MatchingInv /\ HitsExactInv => HitsExact
<1> SUFFICES ASSUME MatchingInv, HitsExactInv PROVE HitsExact
  OBVIOUS
<1>1. /\ RegistryShape /\ IngressInv /\ WordsInv /\ RecordsInv /\ QueueInv /\ HitsInv /\ TailsInv /\ PublishedInv
      /\ BodiesInv
  BY DEF MatchingInv, RegistryInv, HitsExactInv
<1>2. TypeOK
  BY <1>1 DEF TypeOK, RegistryShape, WordsInv, TailsInv, QueueInv
<1>3. /\ ~repeated
      /\ \A h \in hits : Verbatim(h.s) =>
           SubSeq(Data(h.s), h.start + 1, h.end) = ExprOf(h.p).word /\ Whole(h.s, h.start, h.end)
  BY <1>1 DEF HitsInv, HitGenuine, HitOfStream, Word
<1>4. ASSUME NEW s \in {x \in Streams : Verbatim(x)}, NEW p \in Revisions, NEW o \in Found({p}, Data(s))
      PROVE  LET ks == Holding(s, o.start, o.end)
                 last == CHOOSE k \in ks : \A q \in ks : q <= k
                 set == accepted[last].snapshot
                 group == GroupWith(p, set, accepted[last])
             IN  (/\ Whole(s, o.start, o.end) /\ InWindow(p)
                  /\ StreamOf[s].flow \notin purged
                  /\ \A k \in ks : /\ accepted[k].fate = "scanned" /\ ~accepted[k].limited
                                   /\ accepted[k].snapshot = set
                                   /\ accepted[k].generation = accepted[last].generation
                  /\ p \in group /\ Isolated(o, Data(s), group))
                 => Hit(o, s, FALSE) \in hits
  <2> DEFINE ks == Holding(s, o.start, o.end)
             last == CHOOSE k \in ks : \A q \in ks : q <= k
             set == accepted[last].snapshot
             group == GroupWith(p, set, accepted[last])
  <2> SUFFICES ASSUME Whole(s, o.start, o.end), InWindow(p), StreamOf[s].flow \notin purged,
                      \A k \in ks : /\ accepted[k].fate = "scanned" /\ ~accepted[k].limited
                                    /\ accepted[k].snapshot = set
                                    /\ accepted[k].generation = accepted[last].generation,
                      p \in group, Isolated(o, Data(s), group)
               PROVE  Hit(o, s, FALSE) \in hits
    OBVIOUS
  <2>1. /\ ks = Holding(s, o.start, o.end)
        /\ (\E k \in ks : \A q \in ks : q <= k) => last \in ks /\ \A q \in ks : q <= last
        /\ set = accepted[last].snapshot /\ group = GroupWith(p, set, accepted[last])
    OBVIOUS
  <2> HIDE DEF ks, last, set, group
  <2>2. Compiled({p})
    <3>1. {p} \subseteq Revisions
      OBVIOUS
    <3> QED
      BY <1>1, <3>1, RevisionsCompiled
  <2>3. o.start \in Nat /\ o.end \in Nat /\ o.start < o.end
    <3>1. IsSequence(Data(s))
      BY TrafficAssumption
    <3> QED
      BY <2>2, <3>1, FoundIs
  <2>4. PICK k0 \in Holding(s, o.start, o.start + 1) : TRUE
    <3>1. o.start \in o.start .. o.end - 1
      BY <2>3
    <3> QED
      BY <2>1, <3>1 DEF Whole
  <2>5. k0 \in ks
    <3>1. k0 \in DOMAIN accepted /\ accepted[k0].s = s /\ accepted[k0].offset < o.start + 1
          /\ accepted[k0].offset + Len(accepted[k0].data) > o.start
      BY <2>4 DEF Holding
    <3>2. accepted[k0].offset \in Nat
      BY <1>1, <3>1 DEF RecordsInv, RecordSound, Piece, RecordTyped
    <3>3. accepted[k0].offset < o.end
      BY <2>3, <3>1, <3>2
    <3> QED
      BY <2>1, <3>1, <3>3 DEF Holding
  <2>6. PICK N \in Nat : DOMAIN accepted = 1 .. N
    BY <1>1, SequenceIsNumbered DEF IngressInv
  <2>7. ks \subseteq 1 .. N
    BY <2>1, <2>6 DEF Holding
  <2>8. \E k \in ks : \A q \in ks : q <= k
    BY <2>5, <2>7, LastRecord
  <2>9. last \in ks /\ \A q \in ks : q <= last
    BY <2>1, <2>8
  <2>10. \A q \in ks : SameScan(q, last)
    BY <2>1 DEF SameScan
  <2>11. Due(s, p, o, last)
    BY <2>1, <2>9, <2>10 DEF Due
  <2>12. last \in DOMAIN accepted
    BY <2>6, <2>7, <2>9
  <2> QED
    BY <1>1, <2>11, <2>12 DEF PublishedInv
<1>5. StreamHitsExact
  BY <1>3, <1>4, Zenon DEF StreamHitsExact
<1>6. \A h \in hits : ~Verbatim(h.s) =>
         \E k \in DOMAIN accepted : Inside(h, accepted[k]) \/ Bridged(h, k)
  BY <1>1 DEF HitsInv, HitGenuine, HitOfBody
<1>7. DecodedHitsExact
  BY <1>1, <1>6, Zenon DEF DecodedHitsExact, BodiesInv, BodyDone, BodyDue
<1> QED
  BY <1>2, <1>3, <1>5, <1>7 DEF HitsExact

(* The invariant of the scans is true of every behaviour: hits are genuine *)
(* and new, the tail of a verbatim stream reaches back as far as a rule    *)
(* can need, and what is due is published, in streams of the wire and in   *)
(* decoded bodies (matcher_worker_loop, prefix_for, build_tail,            *)
(* ReplayScanner).                                                         *)
THEOREM ScansInvariant == Spec => [](MatchingInv /\ HitsExactInv)
<1>1. Init => MatchingInv /\ HitsExactInv
  BY MatchingInit, ExactInit
<1>2. (MatchingInv /\ HitsExactInv) /\ [Next]_vars => (MatchingInv /\ HitsExactInv)'
  BY MatchingStep, ExactStep
<1> QED
  BY <1>1, <1>2, PTL DEF Spec

(* Hits on the bytes of the wire do not depend on how a stream is cut into *)
(* records: each is an occurrence in accepted bytes, none is published     *)
(* twice, and an occurrence whose records were scanned with one set and    *)
(* one generation is published if no rival overlaps it and no limit or     *)
(* purge cut in. Hits on decoded bodies, whose offsets may be any numbers, *)
(* lie within one body or across the start of one whose offset another's   *)
(* end happens to be; and what stands in a body is published, unless a     *)
(* limit or, for regular expressions, such a bridge cut in (scan_into,     *)
(* prefix_for, build_tail, matcher_worker_loop). The rules, the streams,   *)
(* the traffic and the limits are any.                                     *)
THEOREM HitsCorrect == Spec => []HitsExact
BY ScansInvariant, ExactFollows, PTL
=============================================================================
