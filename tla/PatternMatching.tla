-------------------------- MODULE PatternMatching --------------------------
(***************************************************************************)
(* Patterns from the management API to the hits they produce               *)
(* (src/matching/mod.rs, with the fan-out of src/http/mod.rs, the handlers *)
(* of src/api/mod.rs and the pattern table of src/storage/postgres.rs).    *)
(*                                                                         *)
(* An operation reads the revision it replaces, inserts the next one,      *)
(* lists and compiles the enabled patterns, installs the compiled set in   *)
(* three stores and asks for a historical scan. An L7 worker reads the     *)
(* interest mask, has the record accepted by the segment store, takes the  *)
(* compiled set, takes the generation and queues the record. A matcher     *)
(* worker scans it, with the tail of the stream before it. The historical  *)
(* scan, one action here, is taken apart in ReplayJob.                     *)
(*                                                                         *)
(* A stream is a flow, a direction and a view. The records of most views   *)
(* hold what stands at their offset of the wire: their bytes are a         *)
(* constant; how they are cut into records, and which are left out, is the *)
(* traffic, chosen at the start. A decoded body has a text of its own and  *)
(* the offset at which the encoded body ends. A literal is a word; a       *)
(* regular expression is a word too, found with the window regular         *)
(* expressions get.                                                        *)
(***************************************************************************)
EXTENDS Integers, Sequences, FiniteSets

CONSTANTS
    StreamOf,        \* stream |-> [flow, service, view, data], data not of decoded views
    Ids,             \* identifiers of patterns, numbers
    Existing,        \* patterns stored before the start, by identifier
    Ops,             \* requests of the management API, each made once
    Scenarios,       \* [traffic, requests]: the pieces [s, offset, data] of the streams an
                     \* L7 worker hands on, and op |-> [kind, id, expr, enabled]
    QueueCap,        \* capacity of the queue of a matcher worker
    OverlapLimit,    \* matcher_overlap_bytes
    MaxPerPattern, MaxPerRecord      \* limits on hits

None == "none"
Views == {"tcp_raw", "request_headers", "request_body", "request_decoded",
          "response_headers", "response_body", "response_decoded"}
Requests == {"request_headers", "request_body", "request_decoded"}
Responses == {"response_headers", "response_body", "response_decoded"}
Streams == DOMAIN StreamOf
Flows == {StreamOf[s].flow : s \in Streams}
Data(s) == StreamOf[s].data
(* Views whose records hold the bytes of the wire.                         *)
Verbatim(s) == StreamOf[s].view \notin {"request_decoded", "response_decoded"}

ASSUME MatchingAssumption ==
    /\ DOMAIN Existing \subseteq Ids
    /\ \A sc \in Scenarios, o \in Ops :
         /\ sc.requests[o].id \in Ids
         /\ sc.requests[o].kind \in {"create", "update", "enable", "disable", "delete", "lookback"}
         /\ sc.requests[o].kind = "update" => sc.requests[o].enabled \in BOOLEAN
    /\ \A s \in Streams : StreamOf[s].view \in Views
    /\ QueueCap \in Nat \ {0} /\ OverlapLimit \in Nat

IsSequence(q) == q \in Seq({q[i] : i \in DOMAIN q})

(* No expression is empty (validate_new_pattern, decode_binary).           *)
IsExpr(e) == /\ IsSequence(e.word) /\ e.word # <<>>
             /\ e.kind \in {"literal", "regex"} /\ e.direction \in {"both", "input", "output"}
ASSUME PatternsAssumption ==
    /\ IsFiniteSet(Ids) /\ Ids \subseteq Nat
    /\ \A id \in DOMAIN Existing : IsExpr(Existing[id])
    /\ \A sc \in Scenarios, o \in Ops :
         sc.requests[o].kind \in {"create", "update"} => IsExpr(sc.requests[o].expr)

(* The pieces of a verbatim stream are behind one another (reassembly) and *)
(* hold what stands there. A decoded body lies anywhere and holds anything.*)
ASSUME TrafficAssumption ==
    /\ \A s \in Streams : Verbatim(s) => IsSequence(Data(s))
    /\ \A sc \in Scenarios :
         /\ IsSequence(sc.traffic)
         /\ \A i \in DOMAIN sc.traffic : LET x == sc.traffic[i] IN
              /\ x.s \in Streams /\ x.offset \in Nat /\ IsSequence(x.data)
              /\ Verbatim(x.s) =>
                   /\ x.offset + Len(x.data) <= Len(Data(x.s))
                   /\ x.data = SubSeq(Data(x.s), x.offset + 1, x.offset + Len(x.data))
         /\ \A i, k \in DOMAIN sc.traffic : LET x == sc.traffic[i] y == sc.traffic[k] IN
              i < k /\ x.s = y.s /\ Verbatim(x.s) => x.offset + Len(x.data) <= y.offset

VARIABLES
    patterns,     \* table of patterns: identifier |-> revisions, in order
    active,       \* the compiled set: revisions
    interest_mask, pattern_generation,
    ops,          \* requests under way
    replay,       \* revisions waiting for the scheduler of historical scans
    sealed,       \* history: revision |-> records that the last historical scan
                  \* of it covered, of the scans behind its installation
    traffic,      \* records the L7 worker has yet to hand on
    l7,           \* the record it is handling
    accepted,     \* records in the order the segment store took them, each
                  \* with what became of it on its way to the matcher
    queue,        \* work of the matcher worker
    tails,        \* stream |-> the tail kept for it, for some streams
    flow_tail_keys,  \* streams registered for clean-up
    hits,         \* hits published, live and historical
    repeated,     \* history: a hit was published twice, by one scan or two
    purged,       \* history: flows whose tails were dropped by age
    removed,      \* history: revisions a later set left out
    overlapped, failed   \* history: requests overlapped; the last rebuild failed

registry == <<patterns, active, interest_mask, pattern_generation, ops, removed,
              overlapped, failed>>
matcher == <<tails, flow_tail_keys, hits, repeated, purged>>
vars == <<registry, replay, sealed, traffic, l7, accepted, queue, matcher>>

-----------------------------------------------------------------------------
(* Which patterns a record is scanned with.                                *)

Rev(id, n) == [id |-> id, rev |-> n]
ExprOf(p) == patterns[p.id][p.rev].expr

views_for_pattern(e) ==
    LET scope == CASE e.direction = "both" -> Views
                   [] e.direction = "input" -> Requests
                   [] e.direction = "output" -> Responses
    IN  IF e.view # None THEN {e.view} \cap scope
        ELSE IF e.direction = "both"
             THEN {"tcp_raw", "request_decoded", "response_decoded"} ELSE scope

MaskOf(set) == UNION {views_for_pattern(ExprOf(p)) : p \in set}

(* The group of global rules and the group of rules of the service.        *)
Group(set, r, service) ==
    {p \in set : /\ r.view \in views_for_pattern(ExprOf(p))
                 /\ ExprOf(p).service = service}
GlobalGroup(set, r) == Group(set, r, None)
ServiceGroup(set, r) == IF r.service = None THEN {} ELSE Group(set, r, r.service)
is_interested(set, r) == GlobalGroup(set, r) \cup ServiceGroup(set, r) # {}

OfKind(group, kind) == {p \in group : ExprOf(p).kind = kind}
WordLens(group) == {Len(ExprOf(p).word) : p \in group}
Largest(S) == CHOOSE x \in S \cup {0} : \A y \in S \cup {0} : y <= x
max_literal_len(group) == Largest(WordLens(OfKind(group, "literal")))
GroupOverlap(group) ==
    Largest({max_literal_len(group) - 1}
            \cup (IF OfKind(group, "regex") = {} THEN {} ELSE {OverlapLimit}))
required_overlap(set, r) ==
    Largest({GroupOverlap(GlobalGroup(set, r)), GroupOverlap(ServiceGroup(set, r))})

-----------------------------------------------------------------------------
(* Scanning a record behind the tail of its stream.                        *)

(* Occurrences of the patterns in a text, and those an iterator that never *)
(* reports overlapping ones returns: the earliest end first.               *)
Occurrences(group, text) ==
    {[p |-> p, start |-> i, end |-> i + Len(ExprOf(p).word)] :
        p \in group, i \in 0 .. Len(text)}
Found(group, text) ==
    {o \in Occurrences(group, text) :
        o.end <= Len(text) /\ SubSeq(text, o.start + 1, o.end) = ExprOf(o.p).word}
Smaller(a, b) == \E i \in DOMAIN a : a[i] < b[i] /\ \A k \in 1 .. i - 1 : a[k] = b[k]
Place(o) == <<o.end, o.start, o.p.id, o.p.rev>>
First(rest) == {o \in rest : \A q \in rest \ {o} : Smaller(Place(o), Place(q))}
find_iter(group, text) ==
    LET all == Found(group, text)
        taken[n \in 0 .. Len(text)] ==
            IF n = 0 THEN {}
            ELSE LET before == taken[n - 1]
                 IN  before \cup First({o \in all : \A x \in before : x.end <= o.start})
    IN  taken[Len(text)]

Moved(o, base) == [p |-> o.p, start |-> base + o.start, end |-> base + o.end]
Shifted(found, base) == {Moved(o, base) : o \in found}
LastN(s, n) == SubSeq(s, IF Len(s) > n THEN Len(s) - n + 1 ELSE 1, Len(s))
FirstN(s, n) == SubSeq(s, 1, IF Len(s) > n THEN n ELSE Len(s))

(* Slip: the bridge reports what the tail alone holds.                     *)
BridgeAnywhere(group, r, prefix) ==
    LET keep == max_literal_len(group) - 1
        left == LastN(prefix, keep)
    IN  IF prefix = <<>> \/ keep <= 0 THEN {}
        ELSE {o \in Shifted(find_iter(group, left \o FirstN(r.data, keep)), r.offset - Len(left)) :
                o.start < r.offset}
(* Literals that cross the start of the record, found in a bridge.         *)
Bridge(group, r, prefix) ==
    LET keep == max_literal_len(group) - 1
        left == LastN(prefix, keep)
    IN  IF prefix = <<>> \/ keep <= 0 THEN {}
        ELSE {o \in Shifted(find_iter(group, left \o FirstN(r.data, keep)), r.offset - Len(left)) :
                o.start < r.offset /\ o.end > r.offset}
(* One regular expression, found in the whole window.                      *)
RegexHits(p, r, prefix) ==
    {o \in Shifted(find_iter({p}, prefix \o r.data), r.offset - Len(prefix)) :
        o.end > r.offset \/ prefix = <<>>}
scan_into(group, r, prefix) ==
    LET lits == OfKind(group, "literal")
    IN  Bridge(lits, r, prefix) \cup Shifted(find_iter(lits, r.data), r.offset)
        \cup UNION {RegexHits(p, r, prefix) : p \in OfKind(group, "regex")}

(* A candidate comes up in two places of a scan.                           *)
Doubled(group, r, prefix) ==
    LET lits == OfKind(group, "literal")
    IN  Bridge(lits, r, prefix) \cap Shifted(find_iter(lits, r.data), r.offset) # {}

(* The order in which a scan comes to its candidates: the rules of the     *)
(* service last, literals before regular expressions, the bridge before    *)
(* the record; and what the limiter lets through of them.                  *)
Turn(o, r) ==
    LET e == ExprOf(o.p)
    IN  <<IF e.service = None THEN 0 ELSE 1>>
        \o (IF e.kind = "literal" THEN <<0, IF o.start < r.offset THEN 0 ELSE 1, 0>>
            ELSE <<1, o.p.id, o.p.rev>>)
        \o Place(o)
Admitted(c, r) ==
    {o \in c : LET before == {x \in c : Smaller(Turn(x, r), Turn(o, r))} IN
               /\ Cardinality(before) < MaxPerRecord
               /\ Cardinality({x \in before : x.p = o.p}) < MaxPerPattern}
scan_bounded(set, r, prefix) ==
    LET global == GlobalGroup(set, r)
        service == ServiceGroup(set, r)
        c == scan_into(global, r, prefix) \cup scan_into(service, r, prefix)
    IN  [hits |-> Admitted(c, r), limited |-> Admitted(c, r) # c,
         twice |-> \/ Doubled(global, r, prefix) \/ Doubled(service, r, prefix)
                   \/ scan_into(global, r, prefix) \cap scan_into(service, r, prefix) # {}]

prefix_for(tail, r, generation) ==
    IF tail.generation = generation /\ tail.end_offset = r.offset THEN tail.data ELSE <<>>
build_tail(previous, data, keep) == LastN(previous \o data, keep)
NoTail == [data |-> <<>>, end_offset |-> 0, generation |-> 0]
TailOf(ts, s) == IF s \in DOMAIN ts THEN ts[s] ELSE NoTail
Without(ts, gone) == [s \in DOMAIN ts \ gone |-> ts[s]]

(* A record through a scanner: the tails it leaves and what it found.      *)
ScanRecord(set, ts, r, generation) ==
    LET prefix == prefix_for(TailOf(ts, r.s), r, generation)
        keep == required_overlap(set, r)
        next == [data |-> build_tail(prefix, r.data, keep),
                 end_offset |-> r.offset + Len(r.data), generation |-> generation]
        scan == scan_bounded(set, r, prefix)
    IN  IF ~is_interested(set, r)
        THEN [tails |-> Without(ts, {r.s}), hits |-> {}, limited |-> FALSE, twice |-> FALSE]
        ELSE [tails |-> IF keep = 0 THEN Without(ts, {r.s})
                        ELSE [s \in DOMAIN ts \cup {r.s} |->
                                IF s = r.s THEN next ELSE ts[s]],
              hits |-> scan.hits, limited |-> scan.limited, twice |-> scan.twice]

Hit(o, s, historical) == [p |-> o.p, s |-> s, start |-> o.start, end |-> o.end,
                          historical |-> historical]

-----------------------------------------------------------------------------
(* Requests of the management API.                                         *)

Latest(id) == patterns[id][Len(patterns[id])]
LatestRev(id) == Rev(id, Len(patterns[id]))
(* Slip: the latest of the enabled revisions, which brings back a pattern  *)
(* whose latest revision disables it.                                      *)
EnabledThenLatest ==
    UNION {{Rev(id, n) : n \in {m \in DOMAIN patterns[id] :
                /\ patterns[id][m].enabled
                /\ \A k \in DOMAIN patterns[id] : patterns[id][k].enabled => k <= m}} : id \in Ids}
(* list_enabled_patterns: the latest revisions, if they are enabled.       *)
list_enabled_patterns ==
    {LatestRev(id) : id \in {i \in Ids : patterns[i] # <<>> /\ Latest(i).enabled}}

Busy(o) == ops[o].pc \notin {"idle", "ended"}
Set(o, op) == ops' = [ops EXCEPT ![o] = op]
End(o) == Set(o, [pc |-> "ended"])
Request(o) == ops[o].request
Stored(id) == patterns[id] # <<>>

(* A request is taken, and the revision it will replace is read. Enabling  *)
(* and deleting need a pattern, deleting an enabled one.                   *)
Take(o, expr, enabled) ==
    Set(o, [pc |-> "read", id |-> Request(o).id, rev |-> Len(patterns[Request(o).id]) + 1,
            expr |-> expr, enabled |-> enabled])
Submitted(o, kinds) == ops[o].pc = "idle" /\ Request(o).kind \in kinds
UnchangedBySubmit == UNCHANGED <<patterns, active, interest_mask, pattern_generation, removed,
                                 overlapped, failed, sealed, traffic, l7, accepted, queue, matcher>>

create_or_update_pattern(o) ==
    /\ Submitted(o, {"create", "update"})
    /\ Take(o, Request(o).expr, Request(o).kind = "update" => Request(o).enabled)
    /\ UnchangedBySubmit /\ UNCHANGED replay
set_pattern_enabled(o) ==
    /\ Submitted(o, {"enable", "disable"})
    /\ IF Stored(Request(o).id)
       THEN Take(o, Latest(Request(o).id).expr, Request(o).kind = "enable")
       ELSE End(o)
    /\ UnchangedBySubmit /\ UNCHANGED replay
delete_pattern(o) ==
    /\ Submitted(o, {"delete"})
    /\ IF Stored(Request(o).id) /\ Latest(Request(o).id).enabled
       THEN Take(o, Latest(Request(o).id).expr, FALSE)
       ELSE End(o)
    /\ UnchangedBySubmit /\ UNCHANGED replay
(* A request that changes no pattern: a historical scan of what is stored. *)
lookback_pattern(o) ==
    /\ Submitted(o, {"lookback"})
    /\ replay' = IF Stored(Request(o).id) THEN Append(replay, LatestRev(Request(o).id))
                 ELSE replay
    /\ End(o) /\ UnchangedBySubmit

(* The primary key (id, revision) refuses a revision that exists: two      *)
(* requests had read the same one.                                         *)
insert_pattern_revision(o) ==
    /\ ops[o].pc = "read"
    /\ LET op == ops[o] IN
       IF op.rev = Len(patterns[op.id]) + 1
       THEN /\ patterns' = [patterns EXCEPT
                 ![op.id] = Append(@, [expr |-> op.expr, enabled |-> op.enabled])]
            /\ Set(o, [pc |-> "written", p |-> Rev(op.id, op.rev), enabled |-> op.enabled])
            /\ overlapped' = (overlapped \/ \E x \in Ops \ {o} : Busy(x) /\ ops[x].pc # "read")
       ELSE End(o) /\ UNCHANGED <<patterns, overlapped>>
    /\ UNCHANGED <<active, interest_mask, pattern_generation, removed, failed, replay,
                   sealed, traffic, l7, accepted, queue, matcher>>

(* The enabled patterns are read and compiled, outside the lock.           *)
prepare_rebuild(o) ==
    /\ ops[o].pc = "written"
    /\ Set(o, [pc |-> "listed", p |-> ops[o].p, enabled |-> ops[o].enabled,
               set |-> list_enabled_patterns])
    /\ UNCHANGED <<patterns, active, interest_mask, pattern_generation, removed, overlapped,
                   failed, replay, sealed, traffic, l7, accepted, queue, matcher>>

(* The list cannot be read, or the set cannot be compiled: the request     *)
(* fails although its revision is stored.                                  *)
RebuildFails(o) ==
    /\ ops[o].pc = "written"
    /\ End(o) /\ failed' = TRUE
    /\ UNCHANGED <<patterns, active, interest_mask, pattern_generation, removed, overlapped,
                   replay, sealed, traffic, l7, accepted, queue, matcher>>

Installing(o) == ops[o].pc \in {"stored", "masked"}
(* install_prepared, under the write lock of boundary: three stores.       *)
StoreActive(o) ==
    /\ ops[o].pc = "listed" /\ ~\E x \in Ops : Installing(x)
    /\ active' = ops[o].set
    /\ removed' = removed \cup (active \ ops[o].set)
    /\ Set(o, [ops[o] EXCEPT !.pc = "stored"])
    /\ UNCHANGED <<patterns, interest_mask, pattern_generation, overlapped, failed, replay,
                   sealed, traffic, l7, accepted, queue, matcher>>
(* Slip: the mask of the old set stays.                                    *)
StoreMaskForgotten(o) ==
    /\ ops[o].pc = "stored"
    /\ Set(o, [ops[o] EXCEPT !.pc = "masked"])
    /\ UNCHANGED <<patterns, active, interest_mask, pattern_generation, removed, overlapped,
                   failed, replay, sealed, traffic, l7, accepted, queue, matcher>>
StoreMask(o) ==
    /\ ops[o].pc = "stored"
    /\ interest_mask' = MaskOf(ops[o].set)
    /\ Set(o, [ops[o] EXCEPT !.pc = "masked"])
    /\ UNCHANGED <<patterns, active, pattern_generation, removed, overlapped, failed, replay,
                   sealed, traffic, l7, accepted, queue, matcher>>
StoreGeneration(o) ==
    /\ ops[o].pc = "masked"
    /\ pattern_generation' = pattern_generation + 1
    /\ failed' = FALSE
    /\ IF ops[o].enabled THEN Set(o, [ops[o] EXCEPT !.pc = "installed"]) ELSE End(o)
    /\ UNCHANGED <<patterns, active, interest_mask, removed, overlapped, replay,
                   sealed, traffic, l7, accepted, queue, matcher>>

(* The handler asks for the historical scan of an enabled revision.        *)
enqueue(o) ==
    /\ ops[o].pc = "installed"
    /\ replay' = Append(replay, ops[o].p)
    /\ End(o)
    /\ UNCHANGED <<patterns, active, interest_mask, pattern_generation, removed, overlapped,
                   failed, sealed, traffic, l7, accepted, queue, matcher>>

-----------------------------------------------------------------------------
(* Records from an L7 worker to the matcher.                               *)

OfFlow(f) == {s \in Streams : StreamOf[s].flow = f}
FlowOf(r) == StreamOf[r.s].flow

(* fanout_content reads the mask.                                          *)
ReadMask ==
    /\ l7.pc \in {"idle", "closed"} /\ traffic # <<>>
    /\ traffic' = Tail(traffic)
    /\ l7' = [pc |-> "read", piece |-> Head(traffic),
              copied |-> StreamOf[Head(traffic).s].view \in interest_mask,
              seen |-> {p \in active : ~\E o \in Ops : ops[o].pc = "stored"}]
    /\ UNCHANGED <<registry, replay, sealed, accepted, queue, matcher>>

(* segments.append returns: the record is in the queue of the segment      *)
(* writer, before or after a seal.                                         *)
RecordOf(piece) ==
    [s |-> piece.s, offset |-> piece.offset,
     data |-> piece.data, view |-> StreamOf[piece.s].view,
     service |-> StreamOf[piece.s].service,
     fate |-> IF l7.copied THEN "pending" ELSE "skipped", seen |-> l7.seen,
     snapshot |-> {}, generation |-> 0, limited |-> FALSE]
Accept ==
    /\ l7.pc = "read"
    /\ accepted' = Append(accepted, RecordOf(l7.piece))
    /\ l7' = [pc |-> IF l7.copied THEN "accepted" ELSE "idle"]
    /\ UNCHANGED <<registry, replay, sealed, traffic, queue, matcher>>

(* prepare_content: mask again, then the set, ...                          *)
Last == Len(accepted)
TakeSnapshot ==
    /\ l7.pc = "accepted"
    /\ LET r == accepted[Last]
           wanted == r.view \in interest_mask /\ is_interested(active, r)
       IN  /\ accepted' = [accepted EXCEPT ![Last].snapshot = active,
                                           ![Last].fate = IF wanted THEN @ ELSE "skipped"]
           /\ l7' = [pc |-> IF wanted THEN "prepared" ELSE "idle"]
    /\ UNCHANGED <<registry, replay, sealed, traffic, queue, matcher>>

(* ... then the generation, and the record is queued. The wait for a full  *)
(* queue stands before the read of the generation: in between nothing that *)
(* the matcher worker could tell apart happens.                            *)
send_content ==
    /\ l7.pc = "prepared" /\ Len(queue) < QueueCap
    /\ accepted' = [accepted EXCEPT ![Last].generation = pattern_generation]
    /\ queue' = Append(queue, [kind |-> "content", k |-> Last])
    /\ l7' = [pc |-> "idle"]
    /\ UNCHANGED <<registry, replay, sealed, traffic, matcher>>

(* A flow closes behind its last record; a full queue drops the notice.    *)
try_flow_closed ==
    /\ l7.pc = "idle" /\ accepted # <<>>
    /\ ~\E i \in DOMAIN traffic : FlowOf(traffic[i]) = FlowOf(accepted[Last])
    /\ queue' = IF Len(queue) < QueueCap
                THEN Append(queue, [kind |-> "closed", f |-> FlowOf(accepted[Last])]) ELSE queue
    /\ l7' = [pc |-> IF traffic = <<>> THEN "ended" ELSE "closed"]
    /\ UNCHANGED <<registry, replay, sealed, traffic, accepted, matcher>>

-----------------------------------------------------------------------------
(* The matcher worker.                                                     *)

(* Two decoded bodies may have hits at one place: their offsets are not    *)
(* places of their text.                                                   *)
Publish(s, new, twice) ==
    /\ repeated' = (repeated \/ twice \/ (Verbatim(s) /\ new \cap hits # {}))
    /\ hits' = hits \cup new

FlowClosed ==
    /\ queue # <<>> /\ Head(queue).kind = "closed"
    /\ queue' = Tail(queue)
    /\ LET keys == flow_tail_keys \cap OfFlow(Head(queue).f)
       IN  /\ tails' = Without(tails, keys)
           /\ flow_tail_keys' = flow_tail_keys \ keys
    /\ UNCHANGED <<registry, replay, sealed, traffic, l7, accepted, hits, repeated, purged>>

(* A record, after flows without traffic for two minutes are dropped.      *)
Content ==
    /\ queue # <<>> /\ Head(queue).kind = "content"
    /\ queue' = Tail(queue)
    /\ \E stale \in SUBSET (Flows \ {FlowOf(accepted[Head(queue).k])}) :
         LET k == Head(queue).k
             r == accepted[k]
             old == flow_tail_keys \cap UNION {OfFlow(f) : f \in stale}
             scan == ScanRecord(r.snapshot, Without(tails, old), r, r.generation)
         IN  /\ purged' = purged \cup stale
             /\ tails' = scan.tails
             /\ flow_tail_keys' = (flow_tail_keys \ old)
                                  \cup (DOMAIN scan.tails \cap {r.s})
             /\ Publish(r.s, {Hit(o, r.s, FALSE) : o \in scan.hits}, scan.twice)
             /\ accepted' = [accepted EXCEPT ![k].fate = "scanned", ![k].limited = scan.limited]
    /\ UNCHANGED <<registry, replay, sealed, traffic, l7>>

-----------------------------------------------------------------------------
(* A historical scan: what waits is coalesced, disabled revisions are left *)
(* out, the segments are sealed and every record before the seal goes      *)
(* through a ReplayScanner of its own.                                     *)
ReplayScan(set, n) ==
    LET f[i \in 0 .. n] ==
          IF i = 0 THEN [tails |-> <<>>, hits |-> {}]
          ELSE LET scan == ScanRecord(set, f[i - 1].tails, accepted[i], 0)
               IN  [tails |-> scan.tails,
                    hits |-> f[i - 1].hits \cup {Hit(o, accepted[i].s, TRUE) : o \in scan.hits}]
    IN  f[n].hits

Replay ==
    /\ replay # <<>>
    /\ LET set == {p \in {replay[i] : i \in DOMAIN replay} : patterns[p.id][p.rev].enabled}
           n == Len(accepted)
           installed == set \cap active
       IN  /\ replay' = <<>>
           /\ sealed' = [p \in DOMAIN sealed \cup installed |->
                           IF p \in installed THEN n ELSE sealed[p]]
           /\ hits' = hits \cup ReplayScan(set, n)
    /\ UNCHANGED <<registry, traffic, l7, accepted, queue, tails, flow_tail_keys, repeated, purged>>

-----------------------------------------------------------------------------
Init ==
    /\ patterns = [id \in Ids |-> IF id \notin DOMAIN Existing THEN <<>>
                                  ELSE <<[expr |-> Existing[id], enabled |-> TRUE]>>]
    /\ active = list_enabled_patterns
    /\ interest_mask = MaskOf(active)
    /\ pattern_generation = 1
    /\ replay = <<>> /\ sealed = <<>>
    /\ \E sc \in Scenarios :
         /\ traffic = sc.traffic
         /\ ops = [o \in Ops |-> [pc |-> "idle", request |-> sc.requests[o]]]
    /\ l7 = [pc |-> "idle"]
    /\ accepted = <<>> /\ queue = <<>>
    /\ tails = <<>> /\ flow_tail_keys = {}
    /\ hits = {} /\ repeated = FALSE /\ purged = {}
    /\ removed = {} /\ overlapped = FALSE /\ failed = FALSE

Next ==
    \/ \E o \in Ops : \/ create_or_update_pattern(o) \/ set_pattern_enabled(o)
                      \/ delete_pattern(o) \/ lookback_pattern(o)
                      \/ insert_pattern_revision(o)
                      \/ prepare_rebuild(o) \/ RebuildFails(o) \/ StoreActive(o)
                      \/ StoreMask(o) \/ StoreGeneration(o) \/ enqueue(o)
    \/ ReadMask \/ Accept \/ TakeSnapshot \/ send_content \/ try_flow_closed
    \/ FlowClosed \/ Content \/ Replay

Spec == Init /\ [][Next]_vars

-----------------------------------------------------------------------------
Revisions == UNION {{Rev(id, n) : n \in DOMAIN patterns[id]} : id \in Ids}
(* Every live tail is registered for clean-up; revisions, sets and tails   *)
(* are what the code takes them for.                                       *)
TypeOK ==
    /\ active \subseteq Revisions
    /\ interest_mask \subseteq Views
    /\ DOMAIN tails \subseteq flow_tail_keys /\ flow_tail_keys \subseteq Streams
    /\ Len(queue) <= QueueCap

(* Accepted records that hold bytes of an occurrence, and whether they     *)
(* hold all of them.                                                       *)
Holding(s, i, j) == {k \in DOMAIN accepted : /\ accepted[k].s = s
                                             /\ accepted[k].offset < j
                                             /\ accepted[k].offset + Len(accepted[k].data) > i}
Whole(s, i, j) == \A b \in i .. j - 1 : Holding(s, b, b + 1) # {}
(* No occurrence of another pattern it competes with shares a byte with it.*)
Isolated(o, text, group) ==
    LET rivals == IF ExprOf(o.p).kind = "literal" THEN OfKind(group, "literal") ELSE {o.p}
    IN  \A q \in Found(rivals, text) : q = o \/ q.end <= o.start \/ q.start >= o.end
Applies(p, r) == p \in GlobalGroup({p}, r) \cup ServiceGroup({p}, r)
GroupWith(p, set, r) ==
    IF p \in GlobalGroup(set, r) THEN GlobalGroup(set, r) ELSE ServiceGroup(set, r)
InWindow(p) == ExprOf(p).kind = "regex" => Len(ExprOf(p).word) - 1 <= OverlapLimit

(* Hits on verbatim streams do not depend on how a stream is cut: each is  *)
(* an occurrence in bytes that were accepted without a gap; an occurrence  *)
(* whose records were scanned with one set and one generation is           *)
(* published, if no rival overlaps it and no limit or purge cut in.        *)
StreamHitsExact ==
    /\ \A h \in hits : Verbatim(h.s) =>
         SubSeq(Data(h.s), h.start + 1, h.end) = ExprOf(h.p).word /\ Whole(h.s, h.start, h.end)
    /\ \A s \in {x \in Streams : Verbatim(x)}, p \in Revisions : \A o \in Found({p}, Data(s)) :
         LET ks == Holding(s, o.start, o.end)
             last == CHOOSE k \in ks : \A q \in ks : q <= k
             set == accepted[last].snapshot
             group == GroupWith(p, set, accepted[last])
         IN  (/\ Whole(s, o.start, o.end) /\ InWindow(p)
              /\ StreamOf[s].flow \notin purged
              /\ \A k \in ks : /\ accepted[k].fate = "scanned" /\ ~accepted[k].limited
                               /\ accepted[k].snapshot = set
                               /\ accepted[k].generation = accepted[last].generation
              /\ p \in group /\ Isolated(o, Data(s), group))
             => Hit(o, s, FALSE) \in hits

(* A hit within the text of a record.                                      *)
Inside(h, r) ==
    /\ h.s = r.s /\ r.offset <= h.start /\ h.end <= r.offset + Len(r.data)
    /\ SubSeq(r.data, h.start - r.offset + 1, h.end - r.offset) = ExprOf(h.p).word
(* A record of the stream ends at the number at which record k starts.     *)
Meets(k) == \E j \in DOMAIN accepted :
               /\ accepted[j].s = accepted[k].s
               /\ accepted[j].offset + Len(accepted[j].data) = accepted[k].offset
(* A hit that crosses the start of record k, where the stream seems to go  *)
(* on although another message begins.                                     *)
Bridged(h, k) ==
    /\ Meets(k) /\ h.s = accepted[k].s /\ h.start < accepted[k].offset
    /\ accepted[k].offset < h.end /\ h.end <= accepted[k].offset + Len(accepted[k].data)

(* Hits on decoded views: each lies within the text of one body, or across *)
(* the start of a body whose offset is by chance the end of another's; and *)
(* an occurrence in a body that was scanned, that no rival overlaps, is    *)
(* published, unless a limit or, for regular expressions, such a bridge    *)
(* cut in.                                                                 *)
DecodedHitsExact ==
    /\ \A h \in hits : ~Verbatim(h.s) =>
         \E k \in DOMAIN accepted : Inside(h, accepted[k]) \/ Bridged(h, k)
    /\ \A k \in DOMAIN accepted : LET r == accepted[k] IN
         (~Verbatim(r.s) /\ r.fate = "scanned" /\ ~r.limited) =>
            \A p \in Revisions : \A o \in Found({p}, r.data) :
               LET group == GroupWith(p, r.snapshot, r)
               IN  (/\ p \in group /\ Isolated(o, r.data, group)
                    /\ ExprOf(p).kind = "literal" \/ ~Meets(k))
                   => Hit(Moved(o, r.offset), r.s, FALSE) \in hits

(* What the matcher publishes is what there is to be found, and nothing is *)
(* published twice (scan_into, prefix_for, build_tail).                    *)
HitsExact == TypeOK /\ ~repeated /\ StreamHitsExact /\ DecodedHitsExact

(* What the comment at prefix_for says: no hit bridges two messages merely *)
(* because their records share a stream.                                   *)
MessagesApart ==
    \A h \in hits : ~Verbatim(h.s) => \E k \in DOMAIN accepted : Inside(h, accepted[k])

(* A revision reaches every record, live or in history (fanout_content,    *)
(* prepare_content, install_prepared and the seal behind the installation):*)
(* a record accepted after the seal of an installed revision is scanned    *)
(* with it, unless a later set dropped the revision, or its mask was read  *)
(* before the revision was there and showed no interest in the view.       *)
LiveOrHistorical ==
    \A p \in DOMAIN sealed \ removed : \A k \in sealed[p] + 1 .. Len(accepted) :
        LET r == accepted[k] IN
        Applies(p, r) =>
            \/ p \in r.snapshot
            \/ k = Last /\ l7.pc = "accepted"
            \/ r.fate = "skipped" /\ p \notin r.seen

(* The set in force is the set the table asks for (list_enabled_patterns,  *)
(* rebuild): when no request is under way, none overlapped another and the *)
(* last rebuild did not fail.                                              *)
ActiveIsLatest ==
    (~overlapped /\ ~failed /\ \A o \in Ops : ~Busy(o))
        => active = {p \in Revisions : p.rev = Len(patterns[p.id]) /\ Latest(p.id).enabled}

=============================================================================
