--------------------------- MODULE FragmentCache ---------------------------
(***************************************************************************)
(* One shard of the IP fragment cache (src/src/capture/fragment.rs) as     *)
(* operations on a record; every caller holds the shard's lock.            *)
(*                                                                         *)
(* Data: lengths and offsets count 8-byte units, `ragged` says that a      *)
(* payload does not end on one.  A unit is <<position, version>>: where it *)
(* belongs in the datagram, and which datagram it was cut from when an     *)
(* identification is used again.  Ages replace instants: age is the time   *)
(* since last_seen, since the time since last_cleanup.                     *)
(***************************************************************************)
EXTENDS Integers, Sequences, FiniteSets, SequencesExt, FiniteSetsExt, Functions

CONSTANTS
    MaxDatagram,       \* 65535 bytes
    MaxBytes, MaxDatagrams,
    DatagramOverhead, PieceOverhead,
    FragmentTimeout,
    CleanupInterval    \* one second

ASSUME FragmentLimitsAssumption ==
    /\ {MaxDatagram, MaxBytes, DatagramOverhead, PieceOverhead} \subseteq Nat
    /\ {MaxDatagrams, FragmentTimeout, CleanupInterval} \subseteq Nat \ {0}

(* The sum of the numbers f[x], as the number of the units in all of them, *)
(* and f with x mapped to v.                                               *)
SumOf(f) == Cardinality(UNION {{x} \X (1 .. f[x]) : x \in DOMAIN f})
Put(f, x, v) == [y \in DOMAIN f \cup {x} |-> IF y = x THEN v ELSE f[y]]

Unknown == -1   \* total_len before the final fragment has been seen

EmptyCache == [states |-> <<>>, bytes |-> 0, since |-> 0]

NewState == [pieces |-> <<>>, bytes |-> DatagramOverhead, total |-> Unknown, age |-> 0]

End(st, start) == start + Len(st.pieces[start].data)

remove_key(c, key) ==
    IF key \notin DOMAIN c.states THEN c
    ELSE [c EXCEPT !.states = Restrict(@, DOMAIN @ \ {key}),
                   !.bytes = @ - c.states[key].bytes]

(* remove_key for each of some keys that are there.                        *)
RemoveAll(c, keys) ==
    [c EXCEPT !.states = Restrict(@, DOMAIN @ \ keys),
              !.bytes = @ - SumOf([k \in keys |-> c.states[k].bytes])]

(* Expiry happens only here, at most once per interval and only when a     *)
(* fragment arrives.                                                       *)
maintenance(c) ==
    IF c.since < CleanupInterval THEN c
    ELSE [RemoveAll(c, {k \in DOMAIN c.states : c.states[k].age >= FragmentTimeout})
             EXCEPT !.since = 0]

(* The declared end contradicts another fragment.                          *)
Invalid(st, off, end, more) ==
    LET total == IF more THEN st.total ELSE end
    IN  \/ ~more /\ st.total \notin {Unknown, end}
        \/ ~more /\ \E s \in DOMAIN st.pieces : End(st, s) > end
        \/ total # Unknown /\ (end > total \/ (more /\ end >= total))

Duplicate(st, off, more, data) ==
    off \in DOMAIN st.pieces /\ st.pieces[off] = [data |-> data, more |-> more]

(* Slip: only the piece that starts at or after the new one is looked at.  *)
OverlapsNext(st, off, end) ==
    \E s \in DOMAIN st.pieces : s = off \/ (s > off /\ s < end)

(* A piece at the same offset, before it and reaching into it, or behind   *)
(* it and starting inside it.                                              *)
Overlaps(st, off, end) ==
    \E s \in DOMAIN st.pieces :
        s = off \/ (s < off /\ End(st, s) > off) \/ (s > off /\ s < end)

(* try_complete: every piece starts at 0 or where another one ends, and    *)
(* the last ends at the total.                                             *)
Complete(st) ==
    /\ st.total # Unknown
    /\ \A s \in DOMAIN st.pieces : s = 0 \/ \E r \in DOMAIN st.pieces \ {s} : End(st, r) = s
    /\ \E s \in DOMAIN st.pieces :
          End(st, s) = st.total /\ \A r \in DOMAIN st.pieces : r <= s

(* Its output: the pieces one after the other, in the order of the offsets *)
(* they start at.                                                          *)
Payload(st) ==
    LET upTo[n \in 0 .. MaxDatagram + 1] ==
            IF n = 0 THEN <<>>
            ELSE IF n - 1 \in DOMAIN st.pieces THEN upTo[n - 1] \o st.pieces[n - 1].data
            ELSE upTo[n - 1]
    IN  upTo[MaxDatagram + 1]

OverLimits(c) == c.bytes > MaxBytes \/ Cardinality(DOMAIN c.states) > MaxDatagrams

(* What evict_oldest, repeated while a limit is exceeded, may leave behind *)
(* (states last seen at the same time are taken in any order).             *)
Evicted(c) ==
    IF ~OverLimits(c) THEN {c}
    ELSE {RemoveAll(c, old) : old \in {r \in SUBSET DOMAIN c.states :
            /\ r # {}
            /\ \A k \in r, l \in DOMAIN c.states \ r : c.states[k].age >= c.states[l].age
            /\ ~OverLimits(RemoveAll(c, r)) \/ r = DOMAIN c.states
            /\ \E last \in r :
                  /\ \A k \in r : c.states[k].age >= c.states[last].age
                  /\ OverLimits(RemoveAll(c, r \ {last}))}}

(* The possible results of insert: the cache after it and, if the datagram *)
(* is complete, its payload.                                               *)
insert(c0, key, off, more, ragged, data) ==
    LET c == maintenance(c0)
        end == off + Len(data)
        known == key \in DOMAIN c.states
        old == IF known THEN [c.states[key] EXCEPT !.age = 0] ELSE NewState
        charged == IF known THEN c.bytes ELSE c.bytes + DatagramOverhead
        st == [old EXCEPT !.total = IF more THEN @ ELSE end]
        dup == Duplicate(old, off, more, data)
        cost == Len(data) + PieceOverhead
        grown == IF dup THEN st
                 ELSE [st EXCEPT !.pieces = Put(@, off, [data |-> data, more |-> more]),
                                 !.bytes = @ + cost]
        d == [c EXCEPT !.states = Put(@, key, grown),
                       !.bytes = IF dup THEN charged ELSE charged + cost]
    IN  IF \/ end > MaxDatagram \/ (more /\ (data = <<>> \/ ragged))
           \/ Invalid(old, off, end, more) \/ (~dup /\ Overlaps(old, off, end))
        THEN {[cache |-> remove_key(c, key), out |-> "dropped", payload |-> <<>>]}
        ELSE IF Complete(grown)
        THEN {[cache |-> remove_key(d, key), out |-> "complete", payload |-> Payload(grown)]}
        ELSE {[cache |-> e, out |-> "pending", payload |-> <<>>] :
                e \in IF dup THEN {d} ELSE Evicted(d)}

(* Time passes; ages are not told apart once everything has run out.       *)
AgeCache(c) ==
    LET older(age) == IF age < FragmentTimeout + CleanupInterval THEN age + 1 ELSE age
    IN  [c EXCEPT !.states = [k \in DOMAIN @ |-> [@[k] EXCEPT !.age = older(c.states[k].age)]],
                  !.since = IF @ < CleanupInterval THEN @ + 1 ELSE @]

-----------------------------------------------------------------------------
(* Properties of a cache at rest                                           *)

(* The byte total is the sum of what the datagrams are charged, each of    *)
(* them is charged for its pieces, and both limits hold.                   *)
CacheAccounted(c) ==
    /\ c.bytes = SumOf([k \in DOMAIN c.states |-> c.states[k].bytes])
    /\ \A k \in DOMAIN c.states : LET st == c.states[k] IN
          st.bytes = DatagramOverhead +
              SumOf([s \in DOMAIN st.pieces |-> Len(st.pieces[s].data) + PieceOverhead])
    /\ ~OverLimits(c)

(* No two pieces of a datagram overlap and none lies beyond its end.       *)
CacheDisjoint(c) ==
    \A k \in DOMAIN c.states : LET st == c.states[k] IN
        \A s \in DOMAIN st.pieces :
            /\ st.total # Unknown => End(st, s) <= st.total
            /\ \A r \in DOMAIN st.pieces : r > s => End(st, s) <= r
=============================================================================
