------------------------------ MODULE TcpHalf ------------------------------
(***************************************************************************)
(* One direction of a TCP flow: TcpHalf (src/src/flow/reassembly.rs).      *)
(*                                                                         *)
(* The capture delivers segments of a stream in any order, any number of   *)
(* times or not at all, possibly with bytes that differ between two copies *)
(* of the same position, and the cumulative ACKs of the peer.  accept,     *)
(* acknowledge and finalize turn them into chunks and explicit gaps.       *)
(*                                                                         *)
(* Data: a byte is <<position, version>>, where position is its true place *)
(* in the 64-bit sequence coordinate and version tells copies apart; only  *)
(* the position modulo SeqSpace (2^32 in the code) is on the wire.  The    *)
(* BTreeMap is a function from the start of a buffered segment to it.      *)
(* None stands for an absent Option; no position and no time is 0.         *)
(***************************************************************************)
EXTENDS Integers, Sequences, FiniteSets, FiniteSetsExt

CONSTANTS
    SeqSpace,       \* size of the wire's sequence space, a power of two
    Isn,            \* position of the first byte of the stream
    StreamLen,      \* model bound: bytes of the stream
    MaxSegment,     \* model bound: bytes of a captured segment
    Versions,       \* the versions of a byte that copies may carry
    Duplicates,     \* whether segments are captured that only repeat old bytes
    Fins,           \* how far from Isn a FIN may be placed
    MaxOoo,         \* max_ooo_bytes
    MaxOooSegments, \* max_ooo_segments
    GapTimeout,     \* gap_timeout_ns
    MaxTs           \* model bound: the capture clock

ASSUME SeqSpaceAssumption == SeqSpace \in Nat /\ SeqSpace % 2 = 0
ASSUME WindowAssumption == StreamLen \in Nat /\ 2 * (StreamLen + 2) < SeqSpace
ASSUME IsnAssumption == Isn \in SeqSpace .. 2 * SeqSpace - 1
ASSUME LimitsAssumption == MaxOoo \in Nat /\ MaxOooSegments \in Nat
ASSUME ClockAssumption == MaxTs \in Nat \ {0} /\ GapTimeout \in Nat
ASSUME SegmentAssumption == MaxSegment \in Nat /\ Versions \subseteq Nat \ {0}

None == 0

VARIABLES
    half,    \* the TcpHalf
    stream,  \* history: what was handed on, one item per byte of the stream
    base,    \* history: position of stream offset 0
    first,   \* history: the first version taken in of each position
    now,     \* capture time of the last packet
    closed   \* finalize has run

vars == <<half, stream, base, first, now, closed>>

Positions == Isn .. Isn + StreamLen - 1
Lost == <<None, None>>

NoSegments == [k \in {} |-> <<>>]

(* TcpHalf::default, with the outcome of the call in progress.             *)
NewHalf ==
    [next_abs |-> None, stream_offset |-> 0, ooo |-> NoSegments, pending_fin |-> None,
     requires_ack |-> FALSE, fin_consumed |-> FALSE, peer_ack |-> None,
     gap_started |-> None, out |-> <<>>]

wire(pos) == pos % SeqSpace

(* Where a direction whose first packet is at pos starts counting.         *)
Epoch(pos) == SeqSpace + (pos % SeqSpace)

(* Slip: the 32-bit distance is taken as unsigned.                         *)
ExtendUnsigned(seq, reference) == reference + ((seq - reference) % SeqSpace)

(* extend_seq: the position congruent to seq that is nearest to reference. *)
extend_seq(seq, reference) ==
    LET delta == (seq - reference) % SeqSpace
    IN  IF delta < SeqSpace \div 2 THEN reference + delta
        ELSE reference - (SeqSpace - delta)

Empty(h) == DOMAIN h.ooo = {}
BufferedBytes(h) == Cardinality(UNION {{k} \X DOMAIN h.ooo[k] : k \in DOMAIN h.ooo})
First(h) == CHOOSE k \in DOMAIN h.ooo : \A l \in DOMAIN h.ooo : k <= l

(* A loop over the buffer: as many turns as there are segments, since a    *)
(* turn that hands none on is the last and leaves nothing to do.           *)
Loop(Turn(_), h) ==
    LET turns == Cardinality(DOMAIN h.ooo)
        after[n \in 0 .. turns] == IF n = 0 THEN h ELSE Turn(after[n - 1])
    IN  after[turns]

FinAcked(h) == h.peer_ack # None /\ h.peer_ack > h.pending_fin

(* The stream has reached its FIN, which must be confirmed if it was first *)
(* seen out of order.                                                      *)
consume_fin_if_ready(h) ==
    IF \/ h.fin_consumed \/ h.pending_fin = None \/ h.pending_fin > h.next_abs
       \/ h.pending_fin = h.next_abs /\ h.requires_ack /\ ~FinAcked(h)
    THEN h
    ELSE [h EXCEPT !.next_abs = IF h.pending_fin = @ THEN @ + 1 ELSE @,
                   !.fin_consumed = TRUE, !.requires_ack = FALSE,
                   !.ooo = NoSegments, !.gap_started = None]

(* Append bytes at the current stream offset.                              *)
Push(h, bytes) ==
    consume_fin_if_ready(
        [h EXCEPT !.out = @ \o [i \in 1..Len(bytes) |->
                                  [offset |-> h.stream_offset + i - 1,
                                   byte |-> bytes[i]]],
                  !.stream_offset = @ + Len(bytes),
                  !.next_abs = @ + Len(bytes)])

emit(h, data) == IF data = <<>> THEN h ELSE Push(h, data)

(* Slip: a gap does not count in the stream offset.                        *)
GapUncounted(h, target) ==
    IF target <= h.next_abs THEN h
    ELSE consume_fin_if_ready([h EXCEPT !.next_abs = target])

(* A gap up to target, never across a FIN.                                 *)
emit_gap_to(h, target) ==
    LET to == IF h.pending_fin # None /\ h.pending_fin < target
              THEN h.pending_fin ELSE target
    IN  IF to <= h.next_abs THEN h
        ELSE Push(h, [i \in 1 .. to - h.next_abs |-> Lost])

Remove(h, k) == [h EXCEPT !.ooo = [l \in DOMAIN h.ooo \ {k} |-> h.ooo[l]]]

(* Hand on the first buffered segment when it is due.                      *)
FlushFirst(h) ==
    IF h.fin_consumed \/ Empty(h) \/ First(h) > h.next_abs THEN h
    ELSE LET k == First(h)
         IN  emit(Remove(h, k), SubSeq(h.ooo[k], h.next_abs - k + 1, Len(h.ooo[k])))

flush_ooo(h) == Loop(FlushFirst, h)

(* Skip the hole before the first buffered segment, then hand it on.       *)
SkipToFirst(h) == flush_ooo(emit_gap_to(h, First(h)))
-----------------------------------------------------------------------------
(* recover_known_ack: what the peer has acknowledged will not come again.  *)
AckTurn(h) ==
    IF h.next_abs >= h.peer_ack \/ Empty(h) THEN h
    ELSE LET gap == emit_gap_to(h, Min({First(h), h.peer_ack}))
         IN  IF gap.next_abs >= h.peer_ack THEN gap ELSE flush_ooo(gap)

recover_known_ack(h) ==
    LET drained == Loop(AckTurn, h)
        fin == drained.pending_fin
    IN  IF h.peer_ack = None THEN h
        ELSE IF /\ Empty(drained) /\ drained.next_abs < h.peer_ack
                /\ fin # None /\ fin > drained.next_abs /\ h.peer_ack > fin
             THEN consume_fin_if_ready(emit_gap_to(drained, fin))
             ELSE drained

(* Slip: only the bytes are limited.                                       *)
OverBytes(h) == BufferedBytes(h) > MaxOoo

OverLimit(h) ==
    BufferedBytes(h) > MaxOoo \/ Cardinality(DOMAIN h.ooo) > MaxOooSegments

(* Slip: the buffer is brought under its limits by evicting segments.      *)
EvictFirst(h) == IF OverLimit(h) /\ ~Empty(h) THEN Remove(h, First(h)) ELSE h

PressureTurn(h) == IF OverLimit(h) /\ ~Empty(h) THEN SkipToFirst(h) ELSE h

recover_ooo_pressure(h) == Loop(PressureTurn, h)

(* recover_ooo_timeout: a hole that stays open for GapTimeout is skipped.  *)
recover_ooo_timeout(h, ts) ==
    IF h.next_abs = None \/ Empty(h) THEN [h EXCEPT !.gap_started = None]
    ELSE IF First(h) <= h.next_abs
         THEN flush_ooo([h EXCEPT !.gap_started = None])
    ELSE IF h.gap_started = None THEN [h EXCEPT !.gap_started = ts]
    ELSE IF ts - h.gap_started < GapTimeout THEN h
    ELSE LET g == SkipToFirst(h)
         IN  [g EXCEPT !.gap_started =
                 IF ~Empty(g) /\ First(g) > g.next_abs THEN ts ELSE None]

(* insert_ooo_first_seen: only the runs of data that no buffered segment   *)
(* covers are stored, each as a segment of its own.                        *)
insert_ooo_first_seen(h, start, data) ==
    LET Covered(p) == \E k \in DOMAIN h.ooo :
                          k <= p /\ p < k + Len(h.ooo[k])
        new == {p \in start .. start + Len(data) - 1 : ~Covered(p)}
        runs == {p \in new : p - 1 \notin new}
        End(p) == CHOOSE q \in new : p <= q /\ q + 1 \notin new /\ p..q \subseteq new
    IN  [h EXCEPT !.ooo = [k \in DOMAIN @ \cup runs |->
            IF k \in runs
            THEN SubSeq(data, k - start + 1, End(k) - start + 1)
            ELSE h.ooo[k]]]
-----------------------------------------------------------------------------
(* observe: the first packet of a direction fixes the expected position.   *)
observe(h, seq, syn) ==
    IF h.next_abs # None THEN h
    ELSE [h EXCEPT !.next_abs = Epoch(seq + (IF syn THEN 1 ELSE 0))]

(* A FIN at end: tentative when it comes ahead of the expected byte.       *)
NoteFin(h, start, end) ==
    IF end < h.next_abs THEN h
    ELSE IF h.pending_fin = None
         THEN [h EXCEPT !.pending_fin = end, !.requires_ack = start > h.next_abs]
    ELSE IF start <= h.next_abs /\ (h.pending_fin = end \/ h.requires_ack)
         THEN [h EXCEPT !.pending_fin = end, !.requires_ack = FALSE]
    ELSE h

(* Data beyond a tentative FIN refutes the FIN, data beyond a validated    *)
(* one is cut off.                                                         *)
Refuted(h, end) ==
    /\ h.pending_fin # None /\ end > h.pending_fin
    /\ h.requires_ack /\ ~FinAcked(h)

ClipToFin(h, start, data) ==
    IF h.pending_fin = None \/ start + Len(data) <= h.pending_fin THEN data
    ELSE SubSeq(data, 1, h.pending_fin - start)

(* How much of a segment that starts at or before the expected byte is     *)
(* skipped: the overlap, but nothing when all of it is a repetition.       *)
Skipped(overlap, len) == IF overlap >= len THEN 0 ELSE overlap

(* Take in data that is not empty.                                         *)
Store(h, start, data) ==
    IF start > h.next_abs
    THEN recover_ooo_pressure(recover_known_ack(
             insert_ooo_first_seen(h, start, data)))
    ELSE LET skip == Skipped(h.next_abs - start, Len(data))
             tail == SubSeq(data, skip + 1, Len(data))
         IN  IF Empty(h) THEN emit(h, tail)
             ELSE recover_ooo_pressure(recover_known_ack(flush_ooo(
                      insert_ooo_first_seen(h, start + skip, tail))))

(* The bytes of a segment that accept takes in: what the FIN leaves of it. *)
TakenIn(h, seq, syn, fin, data) ==
    LET g == observe(h, seq, syn)
        start == extend_seq(seq + (IF syn THEN 1 ELSE 0), g.next_abs)
        end == start + Len(data)
        marked == IF fin THEN NoteFin(g, start, end) ELSE g
        known == IF Refuted(marked, end)
                 THEN [marked EXCEPT !.pending_fin = None, !.requires_ack = FALSE]
                 ELSE marked
    IN  [half |-> known, start |-> start, data |-> ClipToFin(known, start, data)]

accept(h, seq, syn, fin, ts, data) ==
    LET in == TakenIn(h, seq, syn, fin, data)
        stored == IF in.data = <<>> THEN in.half
                  ELSE Store(in.half, in.start, in.data)
        acked == IF stored.pending_fin # None /\ ~stored.fin_consumed
                 THEN recover_known_ack(stored) ELSE stored
    IN  IF h.fin_consumed THEN h
        ELSE consume_fin_if_ready(recover_ooo_timeout(acked, ts))

acknowledge(h, ack, ts) ==
    LET ack_abs == extend_seq(ack, h.next_abs)
        g == IF ack_abs > h.next_abs /\ (h.peer_ack = None \/ ack_abs > h.peer_ack)
             THEN [h EXCEPT !.peer_ack = ack_abs] ELSE h
    IN  IF h.next_abs = None THEN h
        ELSE IF Empty(g) /\ g.pending_fin = None THEN g
        ELSE consume_fin_if_ready(recover_ooo_timeout(recover_known_ack(g), ts))

(* finalize: skip every hole and hand on what is buffered behind it.       *)
FinalTurn(h) == IF Empty(h) THEN h ELSE SkipToFirst(h)

finalize(h) ==
    [consume_fin_if_ready(Loop(FinalTurn, h)) EXCEPT !.gap_started = None]
-----------------------------------------------------------------------------
(* The true position of abs in a direction whose first byte is at b.       *)
TruePos(b, abs) == b + (abs - Epoch(b))

(* The call has produced h: its outcome goes to the consumers.             *)
Return(h) ==
    /\ half' = [h EXCEPT !.out = <<>>]
    /\ stream' = stream \o h.out

(* A captured segment of len bytes from position pos on, all of version v. *)
Segment(pos, len, v, syn, fin) ==
    LET seq == wire(IF syn THEN pos - 1 ELSE pos)
        data == [i \in 1..len |-> <<pos + i - 1, v>>]
        in == TakenIn(half, seq, syn, fin, data)
        Fresh(p) == /\ ~half.fin_consumed
                    /\ p >= TruePos(base', in.half.next_abs)
                    /\ first[p] = None
                    /\ \E i \in DOMAIN in.data : in.data[i] = <<p, v>>
    IN  /\ ~closed
        /\ base' = IF half.next_abs = None THEN pos ELSE base
        /\ Duplicates \/ len = 0 \/ pos + len > TruePos(base', in.half.next_abs)
        /\ \E ts \in now .. now + 1 :
              /\ ts <= MaxTs
              /\ now' = ts
              /\ Return(accept(half, seq, syn, fin, ts, data))
        /\ first' = [p \in Positions |-> IF Fresh(p) THEN v ELSE first[p]]
        /\ UNCHANGED closed

(* The peer acknowledges everything before pos.                            *)
Ack(pos) ==
    /\ ~closed
    /\ \E ts \in now .. now + 1 :
          /\ ts <= MaxTs
          /\ now' = ts
          /\ Return(acknowledge(half, wire(pos), ts))
    /\ UNCHANGED <<base, first, closed>>

(* The flow is closed or expires.                                          *)
Close ==
    /\ ~closed
    /\ closed' = TRUE
    /\ Return(finalize(half))
    /\ UNCHANGED <<base, first, now>>

Init ==
    /\ half = NewHalf /\ stream = <<>> /\ base = None
    /\ first = [p \in Positions |-> None]
    /\ now = 1 /\ closed = FALSE

(* The flow table passes on payload, SYN, FIN, and the first packet of a   *)
(* direction even if it is a pure ACK (flow/mod.rs:531-534).               *)
Next ==
    \/ \E pos \in Positions, len \in 0..MaxSegment, v \in Versions,
          syn, fin \in BOOLEAN :
          /\ pos + len <= Isn + StreamLen
          /\ syn => pos = Isn
          /\ fin => pos + len - Isn \in Fins
          /\ len = 0 => syn \/ fin \/ half.next_abs = None
          /\ Segment(pos, len, v, syn, fin)
    \/ \E pos \in Isn .. Isn + StreamLen + 1 : Ack(pos)
    \/ Close

Spec == Init /\ [][Next]_vars
-----------------------------------------------------------------------------
(* Every field has its type, and buffered segments are disjoint, not       *)
(* empty, and lie beyond the expected byte.                                *)
TypeOK ==
    /\ DOMAIN half = DOMAIN NewHalf
    /\ half.next_abs \in Nat /\ half.stream_offset \in Nat
    /\ half.pending_fin \in Nat /\ half.peer_ack \in Nat
    /\ half.requires_ack \in BOOLEAN /\ half.fin_consumed \in BOOLEAN
    /\ half.gap_started \in 0..MaxTs
    /\ \A k \in DOMAIN half.ooo :
          /\ half.ooo[k] # <<>>
          /\ k > half.next_abs
          /\ \A l \in DOMAIN half.ooo : k < l => k + Len(half.ooo[k]) <= l
    /\ first \in [Positions -> Versions \cup {None}]
    /\ closed \in BOOLEAN

(* Chunks and gaps follow one another without overlap, and a byte at       *)
(* offset o of the stream is the byte o positions after the first one,     *)
(* across reordering, retransmission, gaps and the wrap of the 32-bit      *)
(* sequence space: L7 never sees bytes falsely concatenated                *)
(* (ARCHITECTURE.md:207).                                                  *)
StreamOffsetsExact ==
    \A i \in 1..Len(stream) :
        /\ stream[i].offset = i - 1
        /\ stream[i].byte # Lost => stream[i].byte[1] = base + i - 1

(* Of the copies of a byte the first one taken in is handed on, and a byte *)
(* that was taken in is never declared lost (reassembly.rs:219-222).       *)
FirstSeenWins ==
    \A i \in 1..Len(stream) :
        LET p == base + i - 1 IN
        p \in Positions => first[p] = stream[i].byte[2]

(* The out-of-order buffer stays within both of its limits                 *)
(* (README.md:18).                                                         *)
OooBounded ==
    /\ BufferedBytes(half) <= MaxOoo
    /\ Cardinality(DOMAIN half.ooo) <= MaxOooSegments

(* The buffer keeps its shape and its limits, whatever is inserted, merged,*)
(* split or flushed.                                                       *)
BufferSound == TypeOK /\ OooBounded

(* The byte at p has been handed on, or waits in the buffer.               *)
Kept(p) ==
    \/ p < base + Len(stream)
    \/ \E k \in DOMAIN half.ooo : \E i \in DOMAIN half.ooo[k] :
          half.ooo[k][i][1] = p

FinPos == TruePos(base, half.pending_fin)

(* A byte that was taken in is handed on or still buffered, unless a FIN   *)
(* at or before it has ended the stream: no recovery path, and no order of *)
(* FINs, ACKs and data, loses a byte below the FIN.                        *)
BytesConserved ==
    \A p \in Positions :
        first[p] # None => Kept(p) \/ (half.fin_consumed /\ p >= FinPos)
=============================================================================
