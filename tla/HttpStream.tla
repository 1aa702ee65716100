----------------------------- MODULE HttpStream -----------------------------
(***************************************************************************)
(* HttpConnection of src/src/http/mod.rs: the two HttpStreamParsers of a   *)
(* TCP flow, fed chunk by chunk by the L7 worker, and the queue of         *)
(* requests through which they share how a response is framed.             *)
(*                                                                         *)
(* Data: a direction is a sequence of units where the code has bytes.  A   *)
(* unit is the beginning of a start line ("start", with what parse_header  *)
(* reads from the header), a header field, a CRLF ("nl"), a chunk size or  *)
(* a piece of body ("data"); any kind may also be body.  Offsets are       *)
(* positions in the sequence, from 1.  Unit u carries its position u.p,    *)
(* whether it is framing, body or raw tunnel data (u.role) and how much of *)
(* the other direction its sender had seen (u.after): the parser reads     *)
(* none of the three.                                                      *)
(***************************************************************************)
EXTENDS Integers, Sequences, FiniteSets, SequencesExt, FiniteSetsExt

CONSTANTS
    Scenarios,     \* [a, b: the directions, clean, plain: BOOLEAN]
    MaxHeader,     \* http_max_header_bytes
    MaxBody,       \* http_max_body_bytes
    MaxDecode,     \* http_max_decode_bytes
    ResyncSuffix,  \* HTTP_RESYNC_SUFFIX
    PendingLimit,  \* HTTP_PENDING_REQUEST_LIMIT
    MaxChunk,      \* model bound: units of a chunk
    MaxGaps        \* model bound: chunks that the parser misses

ASSUME HttpLimitsAssumption ==
    /\ {MaxHeader, MaxBody, MaxDecode, MaxGaps} \subseteq Nat
    /\ {ResyncSuffix, PendingLimit, MaxChunk} \subseteq Nat \ {0}

(* A direction numbers its units; a header and a chunk size announce how   *)
(* many units follow.                                                      *)
ASSUME ScenariosAssumption ==
    \A x \in Scenarios, d \in {"a", "b"} :
        /\ x[d] \in Seq({x[d][i] : i \in DOMAIN x[d]})
        /\ \A i \in DOMAIN x[d] : LET u == x[d][i] IN
             u.p = i /\ (u.k = "start" => u.msg.len \in Nat) /\ (u.k = "size" => u.n \in Nat)

VARIABLES
    sc,        \* the scenario
    parser,    \* parser[d]: HttpStreamParser of direction d
    conn,      \* [pending, mode] of the HttpConnection
    out,       \* out[d]: emitted <<view, offset, position>>, one per unit; a
               \* decoded record has one per encoded unit that it stands for
    pos,       \* pos[d]: units of d that have been delivered or missed
    gap,       \* gap[d]: units of d before the end of its last gap
    gaps,      \* gaps so far
    early,     \* history: a unit was delivered before what its sender had seen
    overflow,  \* history: the queue of requests was full
    closed     \* the flow is closed

vars == <<sc, parser, conn, out, pos, gap, gaps, early, overflow, closed>>

Dirs == {"a", "b"}
Wire(d) == sc[d]
Other(d) == IF d = "a" THEN "b" ELSE "a"

HeadersState == [t |-> "headers"]
NewParser == [buf |-> <<>>, st |-> HeadersState, off |-> 1, next |-> 0,
              synced |-> TRUE, scan |-> 0]

-----------------------------------------------------------------------------
(* Scanning                                                                *)

(* find_double_crlf_from: the last unit of the first pair of CRLFs that    *)
(* starts behind the first `from` units, 0 if there is none.               *)
find_double_crlf_from(v, from) ==
    LET ends == {i \in 2 .. Len(v) : i - 1 > from /\ v[i - 1].k = "nl" /\ v[i].k = "nl"}
    IN  IF ends = {} THEN 0 ELSE Min(ends)

find_crlf(v) ==
    LET ends == {i \in DOMAIN v : v[i].k = "nl"} IN IF ends = {} THEN 0 ELSE Min(ends)

(* Slip: only the beginning of the buffer is tried.                        *)
StartAtFront(v) == IF v # <<>> /\ v[1].k = "start" THEN 1 ELSE 0

(* A start line at the beginning of the buffer or of a line.               *)
find_plausible_http_start(v) ==
    LET starts == {i \in DOMAIN v : v[i].k = "start" /\ (i = 1 \/ v[i - 1].k = "nl")}
    IN  IF starts = {} THEN 0 ELSE Min(starts)

(* parse_header takes a start line and fields, and refuses contradictory   *)
(* framing.                                                                *)
ParsesHeader(h) ==
    /\ h[1].k = "start" /\ h[1].msg.fr # "bad"
    /\ \A i \in 2 .. Len(h) : h[i].k \in {"nl", "field"}

-----------------------------------------------------------------------------
(* A step of the parser works on s: the parser, the shared part of the     *)
(* connection and what has been emitted.                                   *)

Split(s, n) == [s EXCEPT !.buf = SubSeq(@, n + 1, Len(@)), !.off = @ + n]
Record(view, off, units) == {<<view, off + i - 1, units[i].p>> : i \in DOMAIN units}
Desync(s) == [s EXCEPT !.synced = FALSE, !.pending = <<>>, !.st = HeadersState]

trim_desynced_suffix(s) ==
    IF Len(s.buf) > ResyncSuffix THEN Split(s, Len(s.buf) - ResyncSuffix) ELSE s

(* Encoded pieces are kept for decoding while they fit.                    *)
Compressed(st, data) ==
    IF st.info.msg.enc # "identity" /\ Len(st.comp) + Len(data) <= MaxDecode
    THEN st.comp \o [i \in DOMAIN data |-> data[i].p] ELSE st.comp

(* decoded_record: the codec accepts what carries its own checksum, that   *)
(* is a whole entity, unless it inflates beyond the limit. The record gets *)
(* the offset the parser has reached, behind the body.                     *)
decoded_record(st, entity, off) ==
    IF st.info.msg.enc = "gzip" /\ st.comp # <<>> /\ st.comp = entity[st.info.p]
    THEN {<<"decoded", off, st.comp[i]>> : i \in DOMAIN st.comp} ELSE {}

(* Body units that are handed on, the first `room` of the taken ones.      *)
Captured(data, room) == SubSeq(data, 1, Min({Len(data), room}))

(* The queue of requests after a header.                                   *)
PendingAfter(pending, m) ==
    IF m.req THEN Append(IF Len(pending) >= PendingLimit THEN Tail(pending) ELSE pending, m.kind)
    ELSE IF m.status = "info" \/ pending = <<>> THEN pending ELSE Tail(pending)

Body(t, u, left, room) == [t |-> t, info |-> u, left |-> left, room |-> room,
                           comp |-> <<>>, seen |-> 0, dec |-> "size"]

(* The body state behind a header, from what the header says and the kind  *)
(* of request it answers.                                                  *)
BodyAfter(u, answered) ==
    LET m == u.msg
    IN  IF (~m.req /\ (m.status \in {"info", "nobody"} \/ answered = "head"))
           \/ (m.req /\ m.fr = "none") \/ (m.fr = "len" /\ m.len = 0)
        THEN HeadersState
        ELSE CASE m.fr = "chunked" -> Body("chunked", u, 0, MaxBody)
               [] m.fr = "len" /\ m.len > MaxBody -> Body("skip", u, m.len, MaxBody)
               [] m.fr = "len" /\ m.len <= MaxBody -> Body("fixed", u, m.len, m.len)
               [] OTHER -> Body("close", u, 0, MaxBody)

(* BodyState::Headers with a complete header of n units in the buffer.     *)
HeaderStep(s, n) ==
    LET h == SubSeq(s.buf, 1, n)
        t == [Split(s, n) EXCEPT !.scan = 0]
        u == h[1]
        answered == IF ~u.msg.req /\ s.pending # <<>> THEN s.pending[1] ELSE "none"
        e == [t EXCEPT !.out = @ \cup Record("head", s.off, h),
                       !.pending = PendingAfter(@, u.msg),
                       !.overflow = @ \/ (u.msg.req /\ Len(s.pending) >= PendingLimit)]
        tunnel == ~u.msg.req /\ \/ u.msg.status = "switch"
                                \/ answered = "connect" /\ u.msg.status = "ok"
    IN  IF ~ParsesHeader(h) THEN Desync(t)
        ELSE IF tunnel THEN [e EXCEPT !.mode = "tunnel", !.buf = <<>>]
        ELSE IF u.msg.req /\ u.msg.fr = "te" THEN Desync(e)
        ELSE [e EXCEPT !.st = BodyAfter(u, answered), !.mark = e.out]

(* A fixed body, captured whole or in part.                                *)
FixedStep(s, entity) ==
    LET st == s.st
        data == SubSeq(s.buf, 1, Min({st.left, Len(s.buf)}))
        left == st.left - Len(data)
        kept == Captured(data, st.room)
        n == [st EXCEPT !.left = left, !.room = @ - Len(kept),
                        !.comp = IF st.t = "skip" THEN @ ELSE Compressed(st, data)]
    IN  [Split(s, Len(data)) EXCEPT
            !.st = IF left = 0 THEN HeadersState ELSE n,
            !.out = @ \cup Record("body", s.off, kept)
                      \cup IF left = 0 THEN decoded_record(n, entity, s.off + Len(data))
                           ELSE {}]

(* A body that ends with the connection.                                   *)
CloseStep(s) ==
    LET kept == Captured(s.buf, MaxBody - Min({MaxBody, s.st.seen}))
    IN  [Split(s, Len(s.buf)) EXCEPT
            !.st = [s.st EXCEPT !.comp = Compressed(s.st, kept), !.seen = @ + Len(s.buf)],
            !.out = @ \cup Record("body", s.off, kept)]

(* consume gives an error: what it had collected since it was called goes. *)
ChunkError(s) == Desync([s EXCEPT !.out = s.mark])

(* ChunkState::DataCrlf.                                                   *)
ChunkEnd(s) ==
    IF s.buf[1].k = "nl" THEN [Split(s, 1) EXCEPT !.st = [s.st EXCEPT !.dec = "size"]] ELSE ChunkError(s)

ChunkSize(s) ==
    LET n == find_crlf(s.buf)
        size == s.buf[1].n
    IN  IF n = 2 /\ s.buf[1].k = "size"
        THEN [Split(s, n) EXCEPT
                !.st = [s.st EXCEPT !.dec = IF size = 0 THEN "trailers" ELSE "data",
                                    !.left = size],
                !.scan = 0]
        ELSE ChunkError(Split(s, n))

ChunkData(s) ==
    LET st == s.st
        data == SubSeq(s.buf, 1, Min({st.left, Len(s.buf)}))
        kept == Captured(data, MaxBody - Min({MaxBody, st.seen}))
    IN  [Split(s, Len(data)) EXCEPT
            !.st = [st EXCEPT !.left = @ - Len(data), !.seen = @ + Len(data),
                              !.comp = Compressed(st, kept),
                              !.dec = IF st.left = Len(data) THEN "crlf" ELSE "data"],
            !.out = @ \cup Record("body", s.off, kept)]

ChunkDone(s, n, entity) ==
    [Split(s, n) EXCEPT
        !.st = HeadersState, !.scan = 0,
        !.out = @ \cup IF s.st.seen <= MaxBody THEN decoded_record(s.st, entity, s.off + n)
                       ELSE {}]

TrailerEnd(s) == IF s.buf[1].k = "nl" THEN 1 ELSE find_double_crlf_from(s.buf, s.scan)

(* Slip: the next scan starts behind everything scanned.                   *)
ScanPast(s) == [s EXCEPT !.scan = Len(s.buf)]

(* Nothing found: the next scan starts at the last unit, which may be the  *)
(* first CRLF of a pair.                                                   *)
ScanLater(s) == [s EXCEPT !.scan = Len(s.buf) - 1]

(* resync_to_http_start: the buffer begins with the start line, if there   *)
(* is one.                                                                 *)
Resync(s) ==
    LET start == find_plausible_http_start(s.buf)
    IN  IF s.synced \/ start = 0 THEN s
        ELSE [Split(s, start - 1) EXCEPT !.synced = TRUE, !.scan = 0]

(* The end of the header or of the trailers, 0 if it is not there yet.     *)
HeaderFound(s) == find_double_crlf_from(Resync(s).buf, Resync(s).scan)

(* The loop of feed, or that of consume, breaks.                           *)
Waits(s) ==
    \/ s.mode = "tunnel" \/ s.buf = <<>>
    \/ s.st.t = "headers" /\ (~Resync(s).synced \/ HeaderFound(s) = 0)
    \/ s.st.t = "chunked" /\ Len(s.buf) <= MaxHeader
       /\ \/ s.st.dec = "size" /\ find_crlf(s.buf) = 0
          \/ s.st.dec = "trailers" /\ TrailerEnd(s) = 0

(* A turn of the loop.                                                     *)
Turn(s, entity) ==
    CASE Waits(s) -> s
      [] ~Waits(s) /\ s.st.t = "headers" -> HeaderStep(Resync(s), HeaderFound(s))
      [] ~Waits(s) /\ s.st.t \in {"fixed", "skip"} -> FixedStep(s, entity)
      [] ~Waits(s) /\ s.st.t = "close" -> CloseStep(s)
      [] ~Waits(s) /\ s.st.t = "chunked" /\ s.st.dec = "crlf" -> ChunkEnd(s)
      [] ~Waits(s) /\ s.st.t = "chunked" /\ s.st.dec = "data" -> ChunkData(s)
      [] ~Waits(s) /\ s.st.t = "chunked" /\ s.st.dec = "size" ->
            IF find_crlf(s.buf) # 0 THEN ChunkSize(s) ELSE ChunkError(s)
      [] ~Waits(s) /\ s.st.t = "chunked" /\ s.st.dec = "trailers" ->
            IF TrailerEnd(s) # 0 THEN ChunkDone(s, TrailerEnd(s), entity) ELSE ChunkError(s)

(* What feed leaves when its loop breaks.                                  *)
Rest(s) ==
    LET r == Resync(s)
    IN  IF s.mode = "tunnel" \/ s.buf = <<>> THEN s
        ELSE IF s.st.t = "headers" THEN
             IF ~r.synced THEN trim_desynced_suffix(s)
             ELSE IF Len(r.buf) > MaxHeader
                  THEN trim_desynced_suffix([Desync(r) EXCEPT !.scan = 0])
             ELSE ScanLater(r)
        ELSE IF s.st.t = "chunked" /\ s.st.dec = "trailers" THEN ScanLater(s)
        ELSE s

(* The loop takes no more turns than this: a turn takes units from the     *)
(* buffer, or gives a body up.                                             *)
Turns(s) == 2 * Len(s.buf) + 1
Parse(s, entity) ==
    LET after[n \in 0 .. Turns(s)] == IF n = 0 THEN s ELSE Turn(after[n - 1], entity)
    IN  Rest(after[Turns(s)])

-----------------------------------------------------------------------------
(* The truth about a direction, for the codec and for the properties       *)

(* Messages: the units of the header, and of the payload that belongs to   *)
(* them.                                                                   *)
Starts(d) == {p \in DOMAIN Wire(d) : Wire(d)[p].k = "start" /\ Wire(d)[p].role = "frame"}
NextStart(d, p) == Min({q \in Starts(d) : q > p} \cup {Len(Wire(d)) + 1})
HeaderEnd(d, p) == Min({q \in p + 2 .. Len(Wire(d)) :
                           Wire(d)[q - 1].k = "nl" /\ Wire(d)[q].k = "nl"})
Payload(d, p) ==
    SelectSeq([i \in 1 .. NextStart(d, p) - 1 |-> i], LAMBDA q : q > p /\ Wire(d)[q].role = "body")
Entity(d) == [p \in DOMAIN Wire(d) |-> IF p \in Starts(d) THEN Payload(d, p) ELSE <<>>]

-----------------------------------------------------------------------------
(* Actions                                                                 *)

(* The parser and the connection as one record, and back.                  *)
Open(d, p) == [buf |-> p.buf, st |-> p.st, off |-> p.off, next |-> p.next,
               synced |-> p.synced, scan |-> p.scan, pending |-> conn.pending,
               mode |-> conn.mode, out |-> out[d], mark |-> out[d], overflow |-> overflow]
Put(d, s) ==
    /\ parser' = [parser EXCEPT ![d] = [buf |-> s.buf, st |-> s.st, off |-> s.off, next |-> s.next,
                                          synced |-> s.synced, scan |-> s.scan]]
    /\ conn' = [pending |-> s.pending, mode |-> s.mode]
    /\ out' = [out EXCEPT ![d] = s.out]
    /\ overflow' = s.overflow

(* Slip: an offset that jumps keeps what was buffered before it.           *)
ArriveGluing(d, s, chunk) ==
    LET at == chunk[1].p
        t == CASE s.next = 0 -> [s EXCEPT !.off = at, !.synced = (at = 1)]
               [] s.next \notin {0, at} ->
                     [s EXCEPT !.st = HeadersState, !.off = at, !.synced = FALSE,
                               !.scan = 0, !.pending = <<>>]
               [] OTHER -> s
    IN  [t EXCEPT !.buf = @ \o chunk, !.next = at + Len(chunk)]

(* feed up to its loop: the first chunk, or an offset that jumps.          *)
Arrive(d, s, chunk) ==
    LET at == chunk[1].p
        t == CASE s.next = 0 -> [s EXCEPT !.off = at, !.synced = (at = 1)]
               [] s.next \notin {0, at} ->
                     [s EXCEPT !.buf = <<>>, !.st = HeadersState, !.off = at,
                               !.synced = FALSE, !.scan = 0, !.pending = <<>>]
               [] OTHER -> s
    IN  [t EXCEPT !.buf = @ \o chunk, !.next = at + Len(chunk)]

(* A chunk of n units of direction d reaches the L7 worker.                *)
Feed(d, n) ==
    LET chunk == SubSeq(Wire(d), pos[d] + 1, pos[d] + n)
    IN  /\ ~closed /\ pos[d] + n <= Len(Wire(d))
        /\ pos' = [pos EXCEPT ![d] = @ + n]
        /\ early' = (early \/ \E i \in DOMAIN chunk : chunk[i].after > pos[Other(d)])
        /\ IF conn.mode = "tunnel" THEN UNCHANGED <<parser, conn, out, overflow>>
           ELSE Put(d, Parse(Arrive(d, Open(d, parser[d]), chunk), Entity(d)))
        /\ UNCHANGED <<sc, gap, gaps, closed>>

(* TCP reassembly stepped over n units, or the worker had them while the   *)
(* service was not marked as HTTP.                                         *)
Miss(d, n) ==
    /\ ~closed /\ gaps < MaxGaps /\ pos[d] + n <= Len(Wire(d))
    /\ pos' = [pos EXCEPT ![d] = @ + n]
    /\ gap' = [gap EXCEPT ![d] = pos[d] + n]
    /\ gaps' = gaps + 1
    /\ UNCHANGED <<sc, parser, conn, out, early, overflow, closed>>

(* finish of one direction.  feed leaves nothing of an open body unread    *)
(* that could still be handed on, so that all there is to give is the      *)
(* decoded form of a body that ends with the connection.                   *)
FinishOf(d) ==
    LET st == parser[d].st
    IN  out[d] \cup IF st.t = "close" /\ st.seen <= MaxBody
                    THEN decoded_record(st, Entity(d), parser[d].off) ELSE {}

(* FlowOutput::Closed.                                                     *)
Close ==
    /\ ~closed /\ closed' = TRUE
    /\ out' = IF conn.mode = "tunnel" THEN out ELSE [d \in Dirs |-> FinishOf(d)]
    /\ parser' = [d \in Dirs |-> NewParser]
    /\ UNCHANGED <<sc, conn, pos, gap, gaps, early, overflow>>

Init ==
    /\ sc \in Scenarios
    /\ parser = [d \in Dirs |-> NewParser]
    /\ conn = [pending |-> <<>>, mode |-> "http"]
    /\ out = [d \in Dirs |-> {}]
    /\ pos = [d \in Dirs |-> 0] /\ gap = [d \in Dirs |-> 0] /\ gaps = 0
    /\ early = FALSE /\ overflow = FALSE /\ closed = FALSE

Next ==
    \/ \E d \in Dirs, n \in 1 .. MaxChunk : Feed(d, n) \/ Miss(d, n)
    \/ Close

Spec == Init /\ [][Next]_vars

-----------------------------------------------------------------------------
(* Properties                                                              *)

(* Whatever is lost, skipped or misread, a record of a header or a body    *)
(* holds the units that stand at its offset of the stream, and none spans  *)
(* a gap. A decoded record stands behind every unit it was decoded from,   *)
(* and each of them has been reported as body at its own offset.           *)
RecordsTrue ==
    \A d \in Dirs : \A r \in out[d] :
        IF r[1] = "decoded" THEN r[3] < r[2] /\ <<"body", r[3], r[3]>> \in out[d]
        ELSE r[2] = r[3]

Undisturbed == sc.clean /\ gaps = 0 /\ ~early /\ ~overflow

Headers(d, n) ==
    UNION {{<<"head", q, q>> : q \in p .. HeaderEnd(d, p)} :
              p \in {q \in Starts(d) : HeaderEnd(d, q) <= n}}
Bodies(d, n) ==
    UNION {{<<"body", q, q>> : q \in {x \in ToSet(Captured(Payload(d, p), MaxBody)) : x <= n}}
              : p \in Starts(d)}
UntilClose(d, p) == Wire(d)[p].msg.fr \in {"none", "te"} /\ ~Wire(d)[p].msg.req
Decoded(d, n) ==
    UNION {{<<"decoded", NextStart(d, p), q>> : q \in ToSet(Payload(d, p))} :
        p \in {q \in Starts(d) :
            /\ Wire(d)[q].msg.enc = "gzip"
            /\ Len(Payload(d, q)) <= MaxBody /\ Len(Payload(d, q)) <= MaxDecode
            /\ n >= NextStart(d, q) - 1
            /\ UntilClose(d, q) => closed}}

(* The requests that have been delivered and not yet answered, in order.   *)
Unanswered ==
    LET Seen(d) == {p \in Starts(d) : HeaderEnd(d, p) <= pos[d]}
        final == {p \in Seen("b") : Wire("b")[p].msg.status # "info"}
        kinds == [i \in 1 .. Cardinality(Seen("a")) |->
                     Wire("a")[SetToSortSeq(Seen("a"), <)[i]].msg.kind]
    IN  SubSeq(kinds, Cardinality(final) + 1, Len(kinds))

(* What has been emitted depends on the units delivered and not on how     *)
(* they were cut into chunks or the directions interleaved: every header   *)
(* once, every body unit up to the limit, every whole encoded body in its  *)
(* decoded form at the end of its message, and nothing of a body or a      *)
(* tunnel that looks like a message. The queue that says how the next      *)
(* response is framed holds the unanswered requests.                       *)
FramingExact ==
    Undisturbed =>
        /\ conn.pending = Unanswered
        /\ \A d \in Dirs :
              out[d] = Headers(d, pos[d]) \cup Bodies(d, pos[d]) \cup Decoded(d, pos[d])

(* After a gap the parser is back in step with the first message that      *)
(* starts right there or at the beginning of a line, and misses none from  *)
(* there on.                                                               *)
GapRecovered ==
    (sc.plain /\ ~early) => \A d \in Dirs : \A p \in Starts(d) :
        (/\ p > gap[d] /\ HeaderEnd(d, p) <= pos[d]
         /\ \E q \in Starts(d) : /\ q \in gap[d] + 1 .. p
                                 /\ q = gap[d] + 1 \/ Wire(d)[q - 1].k = "nl")
        => <<"head", p, p>> \in out[d]
=============================================================================
