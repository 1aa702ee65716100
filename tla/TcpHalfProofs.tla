--------------------------- MODULE TcpHalfProofs ---------------------------
(***************************************************************************)
(* What TcpHalf guarantees for every stream, segment size, sequence space  *)
(* and buffer limit: the stream it hands on is the one that was sent.      *)
(***************************************************************************)
EXTENDS TcpHalf, FiniteSetTheorems, TLAPS

-----------------------------------------------------------------------------
(* Facts about numbers.                                                    *)

(* A non-empty set of natural numbers has a least element: induction is by *)
(* a least counterexample.                                                 *)
LEMMA LeastNatural ==
    ASSUME NEW S \in SUBSET Nat, S # {}
    PROVE  \E n \in S : \A m \in S : n <= m
<1> DEFINE R == OpToRel(<, Nat)
<1>1. IsWellFoundedOn(R, Nat)
  BY NatLessThanWellFounded
<1>2. \A m, n \in Nat : m < n => <<m, n>> \in R
  BY DEF OpToRel
<1> HIDE DEF R
<1>3. PICK n \in S : \A m \in S : ~(<<m, n>> \in R)
  BY <1>1, WFMin
<1>4. \A m \in S : ~(m < n)
  BY <1>2, <1>3
<1>5. \A m \in S : n <= m
  BY <1>4
<1> QED
  BY <1>5

-----------------------------------------------------------------------------
Octets == Nat \X Nat
Items == [offset : Nat, byte : Octets]
Buffers == UNION {[D -> Seq(Octets)] : D \in SUBSET Nat}
Halves == [next_abs : Nat, stream_offset : Nat, ooo : Buffers, pending_fin : Nat,
           requires_ack : BOOLEAN, fin_consumed : BOOLEAN, peer_ack : Nat,
           gap_started : 0 .. MaxTs, out : Seq(Items)]
Seen == [Positions -> Versions \cup {None}]
Top == Isn + StreamLen

(* The stream offset, when n items came before these.                      *)
Counted(items, offset, n) == offset = n + Len(items)

(* The items say where in the stream they are, a byte is the one of its    *)
(* place, and of its copies the one seen first: n items come before, and   *)
(* offset 0 is position b.                                                 *)
ItemsTrue(items, b, n, fst) ==
    \A i \in 1 .. Len(items) :
        /\ items[i].offset = n + i - 1
        /\ items[i].byte # Lost => items[i].byte[1] = b + n + i - 1
        /\ b + n + i - 1 \in Positions => fst[b + n + i - 1] = items[i].byte[2]

(* The same of bytes that are to go at next.                               *)
BytesTrue(bytes, next, d, fst) ==
    \A i \in 1 .. Len(bytes) :
        /\ bytes[i] # Lost => bytes[i][1] = next + d + i - 1
        /\ next + d + i - 1 \in Positions => fst[next + d + i - 1] = bytes[i][2]

(* Buffered segments are disjoint, not empty, not before next, and hold    *)
(* the bytes seen first; position abs + d is at abs.                       *)
BufferTrue(ooo, next, d, fst) ==
    \A k \in DOMAIN ooo :
        /\ Len(ooo[k]) > 0
        /\ k >= next
        /\ \A l \in DOMAIN ooo : k < l => k + Len(ooo[k]) <= l
        /\ \A i \in 1 .. Len(ooo[k]) :
              /\ k + i - 1 + d \in Positions
              /\ fst[k + i - 1 + d] # None
              /\ ooo[k][i] = <<k + i - 1 + d, fst[k + i - 1 + d]>>

Covers(ooo, a) == \E k \in DOMAIN ooo : k <= a /\ a < k + Len(ooo[k])

(* Every byte that was taken in and is not handed on is buffered.          *)
BufferWhole(ooo, next, d, fst) ==
    \A p \in Positions : p >= next + d /\ fst[p] # None => Covers(ooo, p - d)

Within(h, d) ==
    /\ h.next_abs + d <= Top + 1
    /\ h.pending_fin # None => h.pending_fin + d <= Top
    /\ h.peer_ack # None => h.peer_ack + d <= Top + 1

(* A half in the middle of a call: offset 0 of the stream is at e, n items *)
(* were handed on by earlier calls.                                        *)
Going(h, e, d, n, fst) ==
    /\ Counted(h.out, h.stream_offset, n)
    /\ ItemsTrue(h.out, e + d, n, fst)
    /\ Within(h, d)
    /\ h.fin_consumed =>
          /\ DOMAIN h.ooo = {}
          /\ h.pending_fin # None /\ h.pending_fin <= h.next_abs
          /\ \A p \in Positions :
                fst[p] # None => p < e + d + h.stream_offset \/ p >= h.pending_fin + d
    /\ ~h.fin_consumed =>
          /\ h.next_abs = e + h.stream_offset
          /\ BufferTrue(h.ooo, h.next_abs, d, fst)
          /\ BufferWhole(h.ooo, h.next_abs, d, fst)

Under(e, d, n, fst) == {h \in Halves : Going(h, e, d, n, fst)}

(* A FIN that is pending is ahead, or unconfirmed.                         *)
FinAhead(h) ==
    \/ h.fin_consumed \/ h.pending_fin = None \/ h.pending_fin > h.next_abs
    \/ h.pending_fin = h.next_abs /\ h.requires_ack /\ ~FinAcked(h)

(* What the steps of a call may change.                                    *)
Onward(h, g) ==
    /\ g.pending_fin = h.pending_fin /\ g.peer_ack = h.peer_ack
    /\ g.next_abs >= h.next_abs
    /\ DOMAIN g.ooo \subseteq DOMAIN h.ooo
    /\ \A k \in DOMAIN g.ooo : g.ooo[k] = h.ooo[k]
    /\ h.fin_consumed => g.fin_consumed
    /\ FinAhead(h) => FinAhead(g)

Settled(h) == \A k \in DOMAIN h.ooo : k > h.next_abs

-----------------------------------------------------------------------------
(* The constants are numbers, and the stream is far shorter than half of   *)
(* the sequence space.                                                     *)
LEMMA Numbers ==
    /\ SeqSpace \in Nat /\ SeqSpace > 4 /\ StreamLen \in Nat /\ Isn \in Nat /\ Isn >= SeqSpace
    /\ Isn < 2 * SeqSpace /\ 2 * (StreamLen + 2) < SeqSpace
    /\ Top \in Nat /\ Positions \subseteq Nat /\ \A p \in Int : p \in Positions <=> Isn <= p /\ p < Top
    /\ MaxTs \in Nat /\ 0 \in 0 .. MaxTs
BY SeqSpaceAssumption, WindowAssumption, IsnAssumption, ClockAssumption DEF Top, Positions

(* A buffer maps starts to segments.                                       *)
LEMMA BufferType ==
    ASSUME NEW f
    PROVE  f \in Buffers <=> f \in [DOMAIN f -> Seq(Octets)] /\ DOMAIN f \subseteq Nat
<1>1. ASSUME f \in Buffers PROVE f \in [DOMAIN f -> Seq(Octets)] /\ DOMAIN f \subseteq Nat
  BY <1>1 DEF Buffers
<1>2. ASSUME f \in [DOMAIN f -> Seq(Octets)], DOMAIN f \subseteq Nat PROVE f \in Buffers
  <2>1. [DOMAIN f -> Seq(Octets)] \in {[D -> Seq(Octets)] : D \in SUBSET Nat}
    BY <1>2
  <2> QED
    BY <1>2, <2>1 DEF Buffers
<1> QED
  BY <1>1, <1>2

(* The empty buffer is one.                                                *)
LEMMA NoSegmentsType == NoSegments \in Buffers /\ DOMAIN NoSegments = {}
<1>1. NoSegments \in [DOMAIN NoSegments -> Seq(Octets)] /\ DOMAIN NoSegments = {}
  BY DEF NoSegments
<1> QED
  BY <1>1, BufferType

(* A set of positions that is not empty has a first one: First is the      *)
(* first buffered segment.                                                 *)
LEMMA FirstIsFirst ==
    ASSUME NEW h, h.ooo \in Buffers, ~Empty(h)
    PROVE  First(h) \in DOMAIN h.ooo /\ First(h) \in Nat /\ \A l \in DOMAIN h.ooo : First(h) <= l
<1>1. DOMAIN h.ooo \in SUBSET Nat /\ DOMAIN h.ooo # {}
  BY BufferType DEF Empty
<1>2. \E k \in DOMAIN h.ooo : \A l \in DOMAIN h.ooo : k <= l
  BY <1>1, LeastNatural
<1>3. First(h) \in DOMAIN h.ooo /\ \A l \in DOMAIN h.ooo : First(h) <= l
  BY <1>2 DEF First
<1> QED
  BY <1>1, <1>3

(* What may change in two steps is what may change in one.                 *)
LEMMA OnwardTwice ==
    ASSUME NEW f \in Halves, NEW g \in Halves, NEW h \in Halves, Onward(f, g), Onward(g, h)
    PROVE  Onward(f, h)
BY DEF Onward, Halves

(* A step that changes nothing is one.                                     *)
LEMMA OnwardSame == ASSUME NEW h \in Halves PROVE Onward(h, h)
BY DEF Onward, Halves

-----------------------------------------------------------------------------
(* Taking the FIN ends the stream at its place and drops only what lies    *)
(* behind it.                                                              *)
LEMMA ConsumeGoes ==
    ASSUME NEW e \in Nat, NEW d \in Int, NEW n \in Nat, NEW fst \in Seen,
           NEW h \in Under(e, d, n, fst)
    PROVE  LET g == consume_fin_if_ready(h)
           IN  /\ g \in Under(e, d, n, fst) /\ Onward(h, g) /\ FinAhead(g)
               /\ g = h \/ g.fin_consumed
<1> DEFINE g == consume_fin_if_ready(h)
<1>1. h \in Halves /\ Going(h, e, d, n, fst)
  BY DEF Under
<1>2. CASE \/ h.fin_consumed \/ h.pending_fin = None \/ h.pending_fin > h.next_abs
           \/ h.pending_fin = h.next_abs /\ h.requires_ack /\ ~FinAcked(h)
  <2>1. g = h
    BY <1>2 DEF consume_fin_if_ready
  <2>2. FinAhead(h)
    BY <1>2 DEF FinAhead
  <2> QED
    BY <1>1, <2>1, <2>2, OnwardSame
<1>3. CASE ~(\/ h.fin_consumed \/ h.pending_fin = None \/ h.pending_fin > h.next_abs
             \/ h.pending_fin = h.next_abs /\ h.requires_ack /\ ~FinAcked(h))
  <2> DEFINE nx == IF h.pending_fin = h.next_abs THEN h.next_abs + 1 ELSE h.next_abs
  <2>1. g = [h EXCEPT !.next_abs = nx, !.fin_consumed = TRUE, !.requires_ack = FALSE,
                      !.ooo = NoSegments, !.gap_started = None]
    BY <1>3 DEF consume_fin_if_ready
  <2>2. /\ h.next_abs \in Nat /\ h.pending_fin \in Nat /\ h.stream_offset \in Nat
        /\ h.pending_fin <= h.next_abs /\ h.pending_fin # None /\ ~h.fin_consumed
    BY <1>1, <1>3 DEF Halves
  <2>3. nx \in Nat /\ nx >= h.next_abs /\ nx + d <= Top + 1
    BY <1>1, <2>2, Numbers DEF Going, Within
  <2> HIDE DEF nx
  <2>4. g \in Halves
    BY <1>1, <2>1, <2>3, NoSegmentsType, Numbers DEF Halves, None
  <2>5. /\ g.next_abs = nx /\ g.fin_consumed = TRUE /\ g.ooo = NoSegments
        /\ g.pending_fin = h.pending_fin /\ g.peer_ack = h.peer_ack
        /\ g.stream_offset = h.stream_offset /\ g.out = h.out
    BY <1>1, <2>1 DEF Halves
  <2> HIDE DEF g
  <2>6. \A p \in Positions :
            fst[p] # None => p < e + d + g.stream_offset \/ p >= g.pending_fin + d
    <3> SUFFICES ASSUME NEW p \in Positions, fst[p] # None
                 PROVE  p < e + d + h.stream_offset \/ p >= h.pending_fin + d
      BY <2>5
    <3>1. h.next_abs = e + h.stream_offset
      BY <1>1, <2>2 DEF Going
    <3> QED
      BY <2>2, <3>1, Numbers
  <2>7. Going(g, e, d, n, fst)
    <3>1. Within(g, d)
      BY <1>1, <2>3, <2>5 DEF Going, Within
    <3>2. Counted(g.out, g.stream_offset, n) /\ ItemsTrue(g.out, e + d, n, fst)
      BY <1>1, <2>5 DEF Going
    <3>3. DOMAIN g.ooo = {} /\ g.pending_fin # None /\ g.pending_fin <= g.next_abs
      BY <2>2, <2>3, <2>5, NoSegmentsType
    <3> QED
      BY <2>5, <2>6, <3>1, <3>2, <3>3 DEF Going
  <2>8. Onward(h, g) /\ FinAhead(g)
    BY <2>2, <2>3, <2>5, NoSegmentsType DEF Onward, FinAhead
  <2> QED
    BY <2>4, <2>5, <2>7, <2>8 DEF Under, g
<1> QED
  BY <1>2, <1>3

(* Two sequences, one after the other.                                     *)
LEMMA Joined ==
    ASSUME NEW T, NEW s \in Seq(T), NEW t \in Seq(T)
    PROVE  /\ s \o t \in Seq(T) /\ Len(s) \in Nat /\ Len(t) \in Nat
           /\ Len(s \o t) = Len(s) + Len(t)
           /\ \A i \in 1 .. Len(s) : (s \o t)[i] = s[i]
           /\ \A i \in 1 .. Len(s \o t) : i > Len(s) => /\ i - Len(s) \in 1 .. Len(t)
                                                       /\ (s \o t)[i] = t[i - Len(s)]
OBVIOUS

(* The bytes may be handed on next.                                        *)
Pushable(h, bytes, e, d, n, fst) ==
    /\ h \in Halves /\ ~h.fin_consumed
    /\ Counted(h.out, h.stream_offset, n) /\ ItemsTrue(h.out, e + d, n, fst)
    /\ Within(h, d) /\ h.next_abs = e + h.stream_offset
    /\ bytes \in Seq(Octets) /\ Len(bytes) > 0 /\ h.next_abs + Len(bytes) + d <= Top + 1
    /\ BytesTrue(bytes, h.next_abs, d, fst)
    /\ BufferTrue(h.ooo, h.next_abs + Len(bytes), d, fst)
    /\ BufferWhole(h.ooo, h.next_abs + Len(bytes), d, fst)

(* They are handed on.                                                     *)
Pushed(g, h, bytes, e, d, n, fst) ==
    /\ g \in Under(e, d, n, fst) /\ Onward(h, g) /\ FinAhead(g)
    /\ g.next_abs >= h.next_abs + Len(bytes)
    /\ g.fin_consumed \/ (g.next_abs = h.next_abs + Len(bytes) /\ g.ooo = h.ooo)

(* Handing bytes on, where they are the ones of their places and what      *)
(* stays buffered lies behind them, keeps the half true.                   *)
LEMMA PushGoes ==
    ASSUME NEW e \in Nat, NEW d \in Int, NEW n \in Nat, NEW fst \in Seen,
           NEW h, NEW bytes, Pushable(h, bytes, e, d, n, fst)
    PROVE  Pushed(Push(h, bytes), h, bytes, e, d, n, fst)
<1> DEFINE m == Len(bytes)
           o == h.out
           so == h.stream_offset
           nx == h.next_abs
           items == [i \in 1 .. m |-> [offset |-> so + i - 1, byte |-> bytes[i]]]
           all == o \o items
           f == [h EXCEPT !.out = all, !.stream_offset = so + m, !.next_abs = nx + m]
           g == Push(h, bytes)
<1>a. /\ h \in Halves /\ ~h.fin_consumed
      /\ Counted(h.out, h.stream_offset, n) /\ ItemsTrue(h.out, e + d, n, fst)
      /\ Within(h, d) /\ h.next_abs = e + h.stream_offset
      /\ bytes \in Seq(Octets) /\ Len(bytes) > 0 /\ h.next_abs + Len(bytes) + d <= Top + 1
      /\ BytesTrue(bytes, h.next_abs, d, fst)
      /\ BufferTrue(h.ooo, h.next_abs + Len(bytes), d, fst)
      /\ BufferWhole(h.ooo, h.next_abs + Len(bytes), d, fst)
  BY DEF Pushable
<1>1. /\ m \in Nat /\ m > 0 /\ so \in Nat /\ nx \in Nat /\ o \in Seq(Items)
      /\ \A i \in 1 .. m : bytes[i] \in Octets
  BY <1>a DEF Halves
<1>m. m = Len(bytes) /\ h.out = o /\ h.stream_offset = so /\ h.next_abs = nx
  OBVIOUS
<1>6. g = consume_fin_if_ready(f)
  BY DEF Push
<1> HIDE DEF m, o, so, nx, g
<1>n. so = n + Len(o)
  BY <1>a, <1>m DEF Counted
<1>2. items \in Seq(Items) /\ Len(items) = m
  <2>1. items \in [1 .. m -> Items]
    BY <1>1 DEF Items
  <2> HIDE DEF items
  <2> QED
    BY <1>1, <2>1
<1>3. \A i \in 1 .. m : items[i].offset = so + i - 1 /\ items[i].byte = bytes[i]
  OBVIOUS
<1> HIDE DEF items
<1>p. /\ o \o items \in Seq(Items) /\ Len(o) \in Nat /\ Len(o \o items) = Len(o) + Len(items)
      /\ \A i \in 1 .. Len(o) : (o \o items)[i] = o[i]
      /\ \A i \in 1 .. Len(o \o items) : i > Len(o) =>
            i - Len(o) \in 1 .. Len(items) /\ (o \o items)[i] = items[i - Len(o)]
  BY ONLY <1>1, <1>2, Joined, Zenon
<1>q. all \in Seq(Items) /\ so + m \in Nat /\ nx + m \in Nat /\ nx = e + so
  BY <1>1, <1>a, <1>m, <1>p
<1> HIDE DEF all
<1>4. f \in Halves
  BY <1>a, <1>q DEF Halves
<1>5. /\ f.out = all /\ f.stream_offset = so + m
      /\ f.next_abs = nx + m /\ f.ooo = h.ooo /\ f.pending_fin = h.pending_fin
      /\ f.peer_ack = h.peer_ack /\ f.fin_consumed = h.fin_consumed
      /\ f.requires_ack = h.requires_ack
  BY <1>a DEF Halves
<1> HIDE DEF f
<1>7. ItemsTrue(f.out, e + d, n, fst) /\ Counted(f.out, f.stream_offset, n)
  <2> DEFINE q == f.out
  <2>1. q = o \o items
    BY <1>5 DEF all
  <2> HIDE DEF q
  <2>2. ASSUME NEW i \in 1 .. Len(q)
        PROVE  /\ q[i].offset = n + i - 1
               /\ q[i].byte # Lost => q[i].byte[1] = e + d + n + i - 1
               /\ e + d + n + i - 1 \in Positions => fst[e + d + n + i - 1] = q[i].byte[2]
    <3>1. CASE i <= Len(o)
      <4>1. i \in 1 .. Len(o) /\ q[i] = o[i]
        BY <1>p, <2>1, <3>1
      <4> QED
        BY <1>a, <1>m, <4>1 DEF ItemsTrue
    <3>2. CASE i > Len(o)
      <4> DEFINE j == i - Len(o)
      <4>1. j \in 1 .. m /\ q[i] = items[j]
        BY <1>p, <1>2, <2>1, <3>2
      <4>2. j \in Int /\ i = Len(o) + j
        BY <1>p, <2>2
      <4> HIDE DEF j
      <4>3. n + i - 1 = so + j - 1 /\ e + d + n + i - 1 = h.next_abs + d + j - 1
        BY <1>1, <1>m, <1>n, <1>p, <1>q, <4>2
      <4> QED
        BY <1>a, <1>m, <1>3, <4>1, <4>3 DEF BytesTrue
    <3> QED
      BY <1>p, <3>1, <3>2
  <2>3. Len(q) = Len(o) + m
    BY <1>2, <1>p, <2>1
  <2>4. so + m = n + Len(q)
    BY <1>1, <1>n, <1>p, <2>3
  <2> QED
    BY <1>5, <2>2, <2>4 DEF ItemsTrue, Counted, q
<1>8. Going(f, e, d, n, fst)
  <2>1. Within(f, d)
    BY <1>1, <1>a, <1>m, <1>5 DEF Within
  <2>2. f.next_abs = e + f.stream_offset
    BY <1>1, <1>q, <1>5
  <2> QED
    BY <1>a, <1>m, <1>5, <1>7, <2>1, <2>2 DEF Going
<1>9. f \in Under(e, d, n, fst)
  BY <1>4, <1>8 DEF Under
<1>10. /\ g \in Under(e, d, n, fst) /\ Onward(f, g) /\ FinAhead(g) /\ (g = f \/ g.fin_consumed)
  BY <1>6, <1>9, ConsumeGoes
<1>11. g \in Halves
  BY <1>10 DEF Under
<1>12. Onward(h, g) /\ g.next_abs >= h.next_abs + m
  <2>1. g.next_abs \in Nat /\ g.next_abs >= nx + m
    BY <1>5, <1>10, <1>11 DEF Onward, Halves
  <2>2. g.next_abs >= h.next_abs + m /\ g.next_abs >= h.next_abs
    BY <1>1, <1>m, <2>1
  <2> QED
    BY <1>5, <1>10, <2>2 DEF Onward
<1> QED
  BY <1>m, <1>5, <1>10, <1>12 DEF g, Pushed

(* What is expected may move on as long as no buffered segment is passed.  *)
LEMMA BufferLater ==
    ASSUME NEW ooo, NEW next \in Nat, NEW to \in Nat, next <= to, NEW d \in Int, NEW fst,
           \A k \in DOMAIN ooo : k \in Nat /\ to <= k,
           BufferTrue(ooo, next, d, fst), BufferWhole(ooo, next, d, fst)
    PROVE  BufferTrue(ooo, to, d, fst) /\ BufferWhole(ooo, to, d, fst)
<1>1. BufferTrue(ooo, to, d, fst)
  BY DEF BufferTrue
<1>2. BufferWhole(ooo, to, d, fst)
  <2> SUFFICES ASSUME NEW p \in Positions, p >= to + d, fst[p] # None PROVE Covers(ooo, p - d)
    BY DEF BufferWhole
  <2>1. p >= next + d
    BY Numbers
  <2> QED
    BY <2>1 DEF BufferWhole
<1> QED
  BY <1>1, <1>2

(* A gap up to the first buffered segment covers no byte that was taken    *)
(* in, and stops at a FIN.                                                 *)
LEMMA GapGoes ==
    ASSUME NEW e \in Nat, NEW d \in Int, NEW n \in Nat, NEW fst \in Seen,
           NEW h \in Under(e, d, n, fst), NEW t \in Nat, t + d <= Top + 1,
           \A k \in DOMAIN h.ooo : t <= k
    PROVE  LET g == emit_gap_to(h, t)
           IN  /\ g \in Under(e, d, n, fst) /\ Onward(h, g)
               /\ g.fin_consumed \/ g.ooo = h.ooo
               /\ \/ g.fin_consumed \/ g.next_abs >= t
                  \/ g.pending_fin # None /\ g.next_abs >= g.pending_fin
<1> DEFINE g == emit_gap_to(h, t)
           nx == h.next_abs
           to == IF h.pending_fin # None /\ h.pending_fin < t THEN h.pending_fin ELSE t
<1>1. h \in Halves /\ Going(h, e, d, n, fst)
  BY DEF Under
<1>2. to \in Nat /\ to <= t /\ nx \in Nat /\ h.pending_fin \in Nat
  BY <1>1 DEF Halves
<1>3. to = t \/ (h.pending_fin # None /\ to = h.pending_fin)
  OBVIOUS
<1>4. CASE to <= nx
  <2>1. g = h
    BY <1>4 DEF emit_gap_to
  <2>2. nx >= t \/ (h.pending_fin # None /\ nx >= h.pending_fin)
    BY <1>2, <1>3, <1>4
  <2> QED
    BY <1>1, <2>1, <2>2, OnwardSame
<1>5. CASE to > nx
  <2> DEFINE bytes == [i \in 1 .. to - nx |-> Lost]
  <2>1. g = Push(h, bytes)
    BY <1>2, <1>5 DEF emit_gap_to
  <2>2. ~h.fin_consumed
    <3> SUFFICES ASSUME h.fin_consumed PROVE FALSE
      OBVIOUS
    <3>1. h.pending_fin # None /\ h.pending_fin <= h.next_abs
      BY <1>1 DEF Going
    <3> QED
      BY <1>2, <1>5, <3>1
  <2>3. /\ nx = e + h.stream_offset /\ BufferTrue(h.ooo, nx, d, fst)
        /\ BufferWhole(h.ooo, nx, d, fst) /\ Within(h, d)
        /\ Counted(h.out, h.stream_offset, n) /\ ItemsTrue(h.out, e + d, n, fst)
    BY <1>1, <2>2 DEF Going
  <2>4. \A k \in DOMAIN h.ooo : k \in Nat /\ to <= k
    <3>1. DOMAIN h.ooo \subseteq Nat
      BY <1>1, BufferType DEF Halves
    <3> QED
      BY <1>2, <3>1
  <2> HIDE DEF nx, to
  <2>5. BufferTrue(h.ooo, to, d, fst) /\ BufferWhole(h.ooo, to, d, fst)
    BY <1>2, <1>5, <2>3, <2>4, BufferLater
  <2>6. bytes \in Seq(Octets) /\ Len(bytes) = to - nx /\ to - nx \in Nat
    <3>1. to - nx \in Nat /\ bytes \in [1 .. to - nx -> Octets]
      BY <1>2, <1>5 DEF Octets, Lost, None
    <3> HIDE DEF bytes
    <3> QED
      BY <3>1
  <2>7. BytesTrue(bytes, nx, d, fst)
    <3> SUFFICES ASSUME NEW i \in 1 .. to - nx, nx + d + i - 1 \in Positions,
                        fst[nx + d + i - 1] # Lost[2]
                 PROVE  FALSE
      BY <2>6 DEF BytesTrue
    <3> DEFINE p == nx + d + i - 1
    <3>1. p >= nx + d /\ p - d < to /\ p \in Int
      BY <1>2
    <3>2. fst[p] # None
      BY DEF Lost
    <3> HIDE DEF p
    <3>3. p \in Positions
      BY DEF p
    <3>4. Covers(h.ooo, p - d)
      BY <2>3, <3>1, <3>2, <3>3 DEF BufferWhole
    <3> QED
      BY <1>2, <2>4, <3>1, <3>4 DEF Covers
  <2>8. h.next_abs = nx /\ nx + Len(bytes) = to /\ Len(bytes) > 0 /\ to + d <= Top + 1
    BY <1>2, <1>5, <2>6, Numbers DEF nx
  <2> HIDE DEF bytes, g
  <2>9. /\ g \in Under(e, d, n, fst) /\ Onward(h, g) /\ g.next_abs >= to
        /\ g.fin_consumed \/ (g.next_abs = to /\ g.ooo = h.ooo)
    <3>1. /\ h.next_abs + Len(bytes) + d <= Top + 1 /\ BytesTrue(bytes, h.next_abs, d, fst)
          /\ BufferTrue(h.ooo, h.next_abs + Len(bytes), d, fst)
          /\ BufferWhole(h.ooo, h.next_abs + Len(bytes), d, fst)
          /\ h.next_abs = e + h.stream_offset
      BY <2>3, <2>5, <2>7, <2>8
    <3>2. /\ g \in Under(e, d, n, fst) /\ Onward(h, g) /\ g.next_abs >= h.next_abs + Len(bytes)
          /\ g.fin_consumed \/ (g.next_abs = h.next_abs + Len(bytes) /\ g.ooo = h.ooo)
      <4>1. Pushable(h, bytes, e, d, n, fst)
        BY <1>1, <2>2, <2>3, <2>6, <2>8, <3>1 DEF Pushable
      <4>2. Pushed(Push(h, bytes), h, bytes, e, d, n, fst)
        BY <4>1, PushGoes
      <4>3. Pushed(g, h, bytes, e, d, n, fst)
        BY <2>1, <4>2
      <4> QED
        BY <4>3 DEF Pushed
    <3> QED
      BY <2>8, <3>2
  <2>10. \/ g.next_abs >= t
         \/ g.pending_fin # None /\ g.next_abs >= g.pending_fin
    BY <1>3, <2>9 DEF Onward
  <2> QED
    BY <2>9, <2>10 DEF g
<1> QED
  BY <1>2, <1>4, <1>5

(* A sequence from its first to its last element.                          *)
LEMMA WholeSequence ==
    ASSUME NEW T, NEW s \in Seq(T), NEW a, a = 1
    PROVE  /\ SubSeq(s, a, Len(s)) \in Seq(T) /\ Len(SubSeq(s, a, Len(s))) = Len(s)
           /\ \A i \in 1 .. Len(s) : SubSeq(s, a, Len(s))[i] = s[i]
OBVIOUS

(* The first buffered segment is handed on exactly when it is due, and     *)
(* what it leaves is behind it.                                            *)
LEMMA FlushFirstGoes ==
    ASSUME NEW e \in Nat, NEW d \in Int, NEW n \in Nat, NEW fst \in Seen,
           NEW h \in Under(e, d, n, fst)
    PROVE  LET g == FlushFirst(h)
           IN  /\ g \in Under(e, d, n, fst) /\ Onward(h, g)
               /\ \/ g = h /\ Settled(h)
                  \/ g.fin_consumed
                  \/ \E k \in DOMAIN h.ooo : DOMAIN g.ooo = DOMAIN h.ooo \ {k}
<1> DEFINE g == FlushFirst(h)
           k == First(h)
           nx == h.next_abs
           ooo == h.ooo
           rest == [l \in DOMAIN ooo \ {k} |-> ooo[l]]
           f == Remove(h, k)
<1>1. h \in Halves /\ Going(h, e, d, n, fst)
  BY DEF Under
<1>2. ooo \in Buffers /\ nx \in Nat /\ h.ooo \in Buffers
  BY <1>1 DEF Halves
<1>3. ooo \in [DOMAIN ooo -> Seq(Octets)] /\ DOMAIN ooo \subseteq Nat
  BY <1>2, BufferType
<1>4. ASSUME ~Empty(h)
      PROVE  k \in DOMAIN ooo /\ k \in Nat /\ \A l \in DOMAIN ooo : k <= l
  BY <1>2, <1>4, FirstIsFirst
<1>5. CASE h.fin_consumed \/ Empty(h) \/ k > nx
  <2>1. g = h
    BY <1>5 DEF FlushFirst
  <2>2. Settled(h)
    <3>1. CASE h.fin_consumed
      BY <1>1, <3>1 DEF Going, Settled
    <3>2. CASE Empty(h)
      BY <3>2 DEF Empty, Settled
    <3>3. CASE ~Empty(h) /\ k > nx
      <4> HIDE DEF k
      <4>1. \A l \in DOMAIN ooo : l > nx
        BY <1>2, <1>3, <1>4, <3>3
      <4> QED
        BY <4>1 DEF Settled
    <3> QED
      BY <1>5, <3>1, <3>2, <3>3
  <2> QED
    BY <1>1, <2>1, <2>2, OnwardSame
<1>6. CASE ~(h.fin_consumed \/ Empty(h) \/ k > nx)
  <2> DEFINE seg == ooo[k]
             bytes == SubSeq(seg, nx - k + 1, Len(seg))
  <2>1. g = emit(f, bytes)
    BY <1>6 DEF FlushFirst
  <2>2. f = [h EXCEPT !.ooo = rest]
    BY DEF Remove
  <2>3. ~h.fin_consumed /\ k \in DOMAIN ooo /\ k \in Nat /\ \A l \in DOMAIN ooo : k <= l
    BY <1>4, <1>6
  <2>4. /\ nx = e + h.stream_offset /\ BufferTrue(ooo, nx, d, fst)
        /\ BufferWhole(ooo, nx, d, fst) /\ Within(h, d)
        /\ Counted(h.out, h.stream_offset, n) /\ ItemsTrue(h.out, e + d, n, fst)
    BY <1>1, <2>3 DEF Going
  <2> HIDE DEF nx, ooo, k, f, g
  <2>5. k = nx /\ nx - k + 1 = 1
    BY <1>2, <1>6, <2>3, <2>4 DEF BufferTrue, k, nx
  <2> DEFINE m == Len(seg)
  <2>6. seg \in Seq(Octets) /\ m \in Nat /\ m > 0
    <3>1. seg \in Seq(Octets)
      BY <1>3, <2>3
    <3>2. m > 0
      BY <2>3, <2>4 DEF BufferTrue
    <3> HIDE DEF seg
    <3> QED
      BY <3>1, <3>2
  <2>7. /\ \A l \in DOMAIN ooo : l # k => k + m <= l
        /\ \A i \in 1 .. m : /\ k + i - 1 + d \in Positions
                             /\ seg[i] = <<k + i - 1 + d, fst[k + i - 1 + d]>>
    BY <1>3, <2>3, <2>4 DEF BufferTrue
  <2> HIDE DEF seg, m
  <2>8. /\ bytes \in Seq(Octets) /\ Len(bytes) = m
        /\ \A i \in 1 .. m : bytes[i] = seg[i]
    BY <2>5, <2>6, WholeSequence DEF m
  <2> HIDE DEF bytes
  <2>9. rest \in Buffers /\ DOMAIN rest = DOMAIN ooo \ {k} /\ \A l \in DOMAIN rest : rest[l] = ooo[l]
    <3>1. DOMAIN rest = DOMAIN ooo \ {k} /\ \A l \in DOMAIN rest : rest[l] = ooo[l]
      OBVIOUS
    <3>2. rest \in [DOMAIN rest -> Seq(Octets)] /\ DOMAIN rest \subseteq Nat
      BY <1>3
    <3> QED
      BY <3>1, <3>2, BufferType
  <2> HIDE DEF rest
  <2>10. /\ f \in Halves /\ f.ooo = rest /\ f.next_abs = nx /\ f.stream_offset = h.stream_offset
         /\ f.out = h.out /\ f.pending_fin = h.pending_fin /\ f.peer_ack = h.peer_ack
         /\ f.fin_consumed = h.fin_consumed /\ f.requires_ack = h.requires_ack
    BY <1>1, <2>2, <2>9 DEF Halves, nx
  <2>11. BufferTrue(rest, nx + m, d, fst)
    <3> SUFFICES ASSUME NEW l \in DOMAIN rest
                 PROVE  /\ Len(rest[l]) > 0
                        /\ l >= nx + m
                        /\ \A j \in DOMAIN rest : l < j => l + Len(rest[l]) <= j
                        /\ \A i \in 1 .. Len(rest[l]) :
                              /\ l + i - 1 + d \in Positions
                              /\ fst[l + i - 1 + d] # None
                              /\ rest[l][i] = <<l + i - 1 + d, fst[l + i - 1 + d]>>
      BY DEF BufferTrue
    <3>1. l \in DOMAIN ooo /\ l # k /\ rest[l] = ooo[l]
      BY <2>9
    <3>2. l >= nx + m
      BY <2>5, <2>7, <3>1
    <3>3. DOMAIN rest \subseteq DOMAIN ooo
      BY <2>9
    <3> QED
      BY <2>4, <3>1, <3>2, <3>3 DEF BufferTrue
  <2>12. BufferWhole(rest, nx + m, d, fst)
    <3> SUFFICES ASSUME NEW p \in Positions, p >= nx + m + d, fst[p] # None
                 PROVE  Covers(rest, p - d)
      BY <1>2, <2>6 DEF BufferWhole
    <3>1. p \in Int /\ p >= nx + d /\ ~(p - d < k + m)
      BY <1>2, <2>5, <2>6, Numbers
    <3>2. PICK l \in DOMAIN ooo : l <= p - d /\ p - d < l + Len(ooo[l])
      BY <2>4, <3>1 DEF BufferWhole, Covers
    <3>3. l # k
      BY <3>1, <3>2 DEF m, seg
    <3> QED
      BY <2>9, <3>2, <3>3 DEF Covers
  <2>13. BytesTrue(bytes, nx, d, fst)
    <3> SUFFICES ASSUME NEW i \in 1 .. m
                 PROVE  /\ bytes[i][1] = nx + d + i - 1
                        /\ fst[nx + d + i - 1] = bytes[i][2]
      BY <2>8 DEF BytesTrue
    <3>1. nx + d + i - 1 = k + i - 1 + d
      BY <1>2, <2>5, <2>6
    <3> QED
      BY <2>7, <2>8, <3>1
  <2>14. nx + m + d <= Top + 1
    <3>1. m \in 1 .. m /\ k + m - 1 + d \in Int
      BY <2>3, <2>6
    <3>2. k + m - 1 + d \in Positions
      BY <2>7, <3>1
    <3> QED
      BY <1>2, <2>5, <2>6, <3>1, <3>2, Numbers
  <2>15. Pushable(f, bytes, e, d, n, fst)
    <3>1. /\ f.next_abs + Len(bytes) = nx + m /\ Len(bytes) > 0
      BY <2>6, <2>8, <2>10
    <3>2. Within(f, d)
      BY <2>4, <2>10 DEF Within, nx
    <3> QED
      BY <2>3, <2>4, <2>8, <2>10, <2>11, <2>12, <2>13, <2>14, <3>1, <3>2 DEF Pushable
  <2>16. g = Push(f, bytes)
    <3>1. bytes # <<>>
      BY <2>6, <2>8
    <3> QED
      BY <2>1, <3>1 DEF emit
  <2>17. /\ g \in Under(e, d, n, fst) /\ Onward(f, g) /\ FinAhead(g)
         /\ g.fin_consumed \/ g.ooo = f.ooo
    <3>1. /\ g \in Under(e, d, n, fst) /\ Onward(f, g) /\ FinAhead(g)
          /\ g.next_abs >= f.next_abs + Len(bytes)
          /\ g.fin_consumed \/ (g.next_abs = f.next_abs + Len(bytes) /\ g.ooo = f.ooo)
      <4>1. Pushed(Push(f, bytes), f, bytes, e, d, n, fst)
        BY <2>15, PushGoes
      <4>2. Pushed(g, f, bytes, e, d, n, fst)
        BY <2>16, <4>1
      <4> QED
        BY <4>2 DEF Pushed
    <3> QED
      BY <3>1
  <2>18. Onward(h, g)
    <3>1. DOMAIN g.ooo \subseteq DOMAIN rest /\ \A l \in DOMAIN g.ooo : g.ooo[l] = rest[l]
      BY <2>10, <2>17 DEF Onward
    <3>2. DOMAIN g.ooo \subseteq DOMAIN h.ooo /\ \A l \in DOMAIN g.ooo : g.ooo[l] = h.ooo[l]
      BY <2>9, <3>1 DEF ooo
    <3>3. g.pending_fin = h.pending_fin /\ g.peer_ack = h.peer_ack /\ g.next_abs >= h.next_abs
      BY <2>10, <2>17 DEF Onward, nx
    <3> QED
      BY <2>3, <2>17, <3>2, <3>3 DEF Onward
  <2>19. g.fin_consumed \/ (k \in DOMAIN h.ooo /\ DOMAIN g.ooo = DOMAIN h.ooo \ {k})
    BY <2>3, <2>9, <2>10, <2>17 DEF ooo
  <2> QED
    BY <2>17, <2>18, <2>19 DEF g
<1> QED
  BY <1>5, <1>6

-----------------------------------------------------------------------------
(* The states a loop goes through, s being its turn.                       *)
IsTurns(g, H, s, h, N) ==
    g \in [0 .. N -> H] /\ g[0] = h /\ \A i \in 1 .. N : g[i] = s[g[i - 1]]

(* A step that can always be taken can be taken any number of times.       *)
LEMMA TurnsExist ==
    ASSUME NEW H, NEW s \in [H -> H], NEW h \in H, NEW N \in Nat
    PROVE  \E g : IsTurns(g, H, s, h, N)
<1> DEFINE Taken(m) == \E g : IsTurns(g, H, s, h, m)
           Bad == {m \in Nat : ~Taken(m)}
<1>1. ASSUME Bad # {} PROVE FALSE
  <2>1. PICK m \in Bad : \A l \in Bad : m <= l
    BY <1>1, LeastNatural
  <2>2. CASE m = 0
    <3> DEFINE g == [i \in 0 .. 0 |-> h]
    <3>1. g \in [0 .. 0 -> H] /\ g[0] = h /\ \A i \in 1 .. 0 : g[i] = s[g[i - 1]]
      OBVIOUS
    <3>2. Taken(0)
      BY <3>1 DEF IsTurns
    <3> QED
      BY <2>1, <2>2, <3>2
  <2>3. CASE m # 0
    <3>a. Bad \subseteq Nat
      OBVIOUS
    <3>0. m \in Nat /\ m - 1 \in Nat /\ m - 1 \notin Bad
      <4> HIDE DEF Bad
      <4> QED
        BY <2>1, <2>3, <3>a
    <3>1. m \in Nat /\ m - 1 \in Nat /\ Taken(m - 1)
      <4> HIDE DEF Taken
      <4> QED
        BY <3>0
    <3>p. PICK f : IsTurns(f, H, s, h, m - 1)
      BY <3>1
    <3>2. f \in [0 .. m - 1 -> H] /\ f[0] = h /\ \A i \in 1 .. m - 1 : f[i] = s[f[i - 1]]
      BY <3>p DEF IsTurns
    <3> DEFINE g == [i \in 0 .. m |-> IF i = m THEN s[f[m - 1]] ELSE f[i]]
    <3>3. g \in [0 .. m -> H]
      BY <3>1, <3>2
    <3>4. g[0] = h /\ g[m] = s[f[m - 1]] /\ \A i \in 0 .. m - 1 : g[i] = f[i]
      BY <2>3, <3>1, <3>2
    <3> HIDE DEF g
    <3>5. ASSUME NEW i \in 1 .. m PROVE g[i] = s[g[i - 1]]
      <4>1. i - 1 \in 0 .. m - 1 /\ g[i - 1] = f[i - 1]
        BY <3>1, <3>4
      <4>2. CASE i = m
        BY <3>4, <4>1, <4>2
      <4>3. CASE i # m
        <5>1. i \in 1 .. m - 1 /\ i \in 0 .. m - 1
          BY <3>1, <4>3
        <5> QED
          BY <3>2, <3>4, <4>1, <5>1
      <4> QED
        BY <4>2, <4>3
    <3>6. Taken(m)
      BY <3>3, <3>4, <3>5 DEF IsTurns
    <3> QED
      BY <2>1, <3>6
  <2> QED
    BY <2>2, <2>3
<1> QED
  BY <1>1

(* What every step carries from one index to the next holds in the end.    *)
LEMMA TurnsKeep ==
    ASSUME NEW N \in Nat, NEW a, NEW Q, a[0] \in Q[0],
           \A i \in 1 .. N : a[i - 1] \in Q[i - 1] => a[i] \in Q[i]
    PROVE  a[N] \in Q[N]
<1> DEFINE Bad == {m \in Nat : m <= N /\ a[m] \notin Q[m]}
<1>1. ASSUME Bad # {} PROVE FALSE
  <2>1. PICK m \in Bad : \A l \in Bad : m <= l
    BY <1>1, LeastNatural
  <2>2. m # 0 /\ m \in 1 .. N /\ m - 1 \in Nat /\ m - 1 \notin Bad
    BY <2>1
  <2>3. a[m - 1] \in Q[m - 1]
    BY <2>2
  <2> QED
    BY <2>1, <2>2, <2>3
<1> QED
  BY <1>1

(* Together: a loop whose turn is s on H ends in what the turns lead to.   *)
LEMMA LoopEnds ==
    ASSUME NEW H, NEW s \in [H -> H], NEW h \in H, NEW N \in Nat, NEW Q,
           h \in Q[0], \A i \in 1 .. N : \A x \in H : x \in Q[i - 1] => s[x] \in Q[i],
           NEW a,
           \A g : IsTurns(g, H, s, h, N)
              => (a[0] = h /\ \A i \in 1 .. N : a[i - 1] \in H => a[i] = s[a[i - 1]])
    PROVE  a[N] \in H /\ a[N] \in Q[N]
<1>1. \E g : IsTurns(g, H, s, h, N)
  BY TurnsExist
<1>2. a[0] = h /\ \A i \in 1 .. N : a[i - 1] \in H => a[i] = s[a[i - 1]]
  BY <1>1
<1> DEFINE P == [i \in 0 .. N |-> H \cap Q[i]]
<1>3. \A i \in 0 .. N : P[i] = H \cap Q[i]
  OBVIOUS
<1>4. 0 \in 0 .. N /\ N \in 0 .. N /\ \A i \in 1 .. N : i \in 0 .. N /\ i - 1 \in 0 .. N
  OBVIOUS
<1> HIDE DEF P
<1>5. a[0] \in P[0]
  BY <1>2, <1>3, <1>4
<1>6. ASSUME NEW i \in 1 .. N, a[i - 1] \in P[i - 1] PROVE a[i] \in P[i]
  <2>1. a[i - 1] \in H /\ a[i - 1] \in Q[i - 1]
    BY <1>3, <1>4, <1>6
  <2>2. a[i] = s[a[i - 1]] /\ s[a[i - 1]] \in H /\ s[a[i - 1]] \in Q[i]
    BY <1>2, <2>1
  <2> QED
    BY <1>3, <1>4, <2>2
<1>7. a[N] \in P[N]
  BY <1>5, <1>6, TurnsKeep
<1> QED
  BY <1>3, <1>4, <1>7

(* A buffer is finite.                                                     *)
LEMMA BufferFinite ==
    ASSUME NEW e \in Nat, NEW d \in Int, NEW n \in Nat, NEW fst \in Seen,
           NEW h \in Under(e, d, n, fst)
    PROVE  IsFiniteSet(DOMAIN h.ooo) /\ Cardinality(DOMAIN h.ooo) \in Nat
<1>1. h \in Halves /\ Going(h, e, d, n, fst)
  BY DEF Under
<1>2. IsFiniteSet(DOMAIN h.ooo)
  <2>1. CASE h.fin_consumed
    <3>1. DOMAIN h.ooo = {}
      BY <1>1, <2>1 DEF Going
    <3> QED
      BY <3>1, FS_EmptySet
  <2>2. CASE ~h.fin_consumed
    <3> DEFINE ooo == h.ooo
    <3>1. ooo \in [DOMAIN ooo -> Seq(Octets)] /\ DOMAIN ooo \subseteq Nat
      BY <1>1, BufferType DEF Halves
    <3>2. BufferTrue(ooo, h.next_abs, d, fst)
      BY <1>1, <2>2 DEF Going
    <3> HIDE DEF ooo
    <3>3. Top - d \in Int
      BY Numbers
    <3>4. ASSUME NEW k \in DOMAIN ooo PROVE k \in 0 .. Top - d
      <4> DEFINE m == Len(ooo[k])
      <4>1. m \in Nat /\ m > 0 /\ \A i \in 1 .. m : k + i - 1 + d \in Positions
        BY <3>1, <3>2 DEF BufferTrue
      <4> HIDE DEF m
      <4>2. 1 \in 1 .. m /\ k \in Nat
        BY <3>1, <4>1
      <4>3. k + 1 - 1 + d \in Positions
        BY <4>1, <4>2
      <4> QED
        BY <4>2, <4>3, Numbers
    <3>5. IsFiniteSet(0 .. Top - d)
      BY <3>3, FS_Interval
    <3>6. DOMAIN ooo \subseteq 0 .. Top - d
      BY <3>4
    <3> QED
      BY <3>5, <3>6, FS_Subset DEF ooo
  <2> QED
    BY <2>1, <2>2
<1> QED
  BY <1>2, FS_CardinalityType

(* Nothing is due when everything buffered lies beyond the expected byte.  *)
LEMMA FlushSettled ==
    ASSUME NEW e \in Nat, NEW d \in Int, NEW n \in Nat, NEW fst \in Seen,
           NEW h \in Under(e, d, n, fst), Settled(h)
    PROVE  FlushFirst(h) = h
<1>1. h.ooo \in Buffers
  BY DEF Under, Halves
<1>2. ~Empty(h) => First(h) \in DOMAIN h.ooo
  BY <1>1, FirstIsFirst
<1> QED
  BY <1>2 DEF FlushFirst, Settled

(* flush_ooo hands on all that is due, and only that.                      *)
LEMMA FlushGoes ==
    ASSUME NEW e \in Nat, NEW d \in Int, NEW n \in Nat, NEW fst \in Seen,
           NEW h \in Under(e, d, n, fst)
    PROVE  LET g == flush_ooo(h)
           IN  g \in Under(e, d, n, fst) /\ Onward(h, g) /\ Settled(g)
<1> DEFINE H == Under(e, d, n, fst)
           N == Cardinality(DOMAIN h.ooo)
           s == [x \in H |-> FlushFirst(x)]
           Left(x, i) == Onward(h, x) /\ (Settled(x) \/ Cardinality(DOMAIN x.ooo) <= N - i)
           Q == [i \in 0 .. N |-> {x \in H : Left(x, i)}]
           Def(f) == [i \in 0 .. N |-> IF i = 0 THEN h ELSE FlushFirst(f[i - 1])]
           a == CHOOSE f : f = Def(f)
<1>1. flush_ooo(h) = a[N]
  BY DEF flush_ooo, Loop
<1>2. N \in Nat
  BY BufferFinite
<1> HIDE DEF N
<1>h. h \in H /\ \A x \in H : x \in Halves
  BY DEF Under
<1>3. s \in [H -> H]
  <2> HIDE DEF H
  <2>1. ASSUME NEW x \in H PROVE FlushFirst(x) \in H
    BY FlushFirstGoes DEF H
  <2> QED
    BY <2>1
<1>4. \A x \in H : s[x] = FlushFirst(x)
  OBVIOUS
<1>5. \A i \in 0 .. N : Q[i] = {x \in H : Left(x, i)}
  OBVIOUS
<1>6. h \in Q[0]
  <2>1. Left(h, 0)
    BY <1>2, <1>h, OnwardSame DEF N
  <2> HIDE DEF H, Left, Q
  <2> QED
    BY <1>2, <1>5, <1>h, <2>1
<1> HIDE DEF s, Q
<1>7. ASSUME NEW i \in 1 .. N, NEW x \in H, x \in Q[i - 1] PROVE s[x] \in Q[i]
  <2>1. i \in 0 .. N /\ i - 1 \in 0 .. N
    BY <1>2
  <2>2. Left(x, i - 1) /\ x \in Halves
    <3> HIDE DEF H, Left
    <3> QED
      BY <1>5, <1>7, <1>h, <2>1
  <2> DEFINE y == FlushFirst(x)
  <2>3. /\ y \in H /\ Onward(x, y)
        /\ (y = x /\ Settled(x)) \/ y.fin_consumed \/ \E k \in DOMAIN x.ooo : DOMAIN y.ooo = DOMAIN x.ooo \ {k}
    BY FlushFirstGoes
  <2>4. Settled(x) => y = x
    BY FlushSettled
  <2>5. y \in Halves
    BY <1>h, <2>3
  <2> HIDE DEF y
  <2>6. Onward(h, y)
    BY <1>h, <2>2, <2>3, <2>5, OnwardTwice
  <2>7. Settled(y) \/ Cardinality(DOMAIN y.ooo) <= N - i
    <3>1. CASE y = x /\ Settled(x)
      BY <3>1
    <3>2. CASE y.fin_consumed
      <4>1. DOMAIN y.ooo = {}
        BY <2>3, <3>2 DEF Under, Going
      <4> QED
        BY <4>1 DEF Settled
    <3>3. CASE ~Settled(x) /\ \E k \in DOMAIN x.ooo : DOMAIN y.ooo = DOMAIN x.ooo \ {k}
      <4>1. PICK k \in DOMAIN x.ooo : DOMAIN y.ooo = DOMAIN x.ooo \ {k}
        BY <3>3
      <4>2. IsFiniteSet(DOMAIN x.ooo) /\ Cardinality(DOMAIN x.ooo) \in Nat
        BY BufferFinite
      <4>3. Cardinality(DOMAIN x.ooo \ {k}) = Cardinality(DOMAIN x.ooo) - 1
        BY <4>2, FS_RemoveElement
      <4>4. Cardinality(DOMAIN x.ooo) <= N - (i - 1)
        BY <2>2, <3>3
      <4>5. Cardinality(DOMAIN y.ooo) = Cardinality(DOMAIN x.ooo) - 1
        BY <4>1, <4>3
      <4> QED
        BY <1>2, <4>2, <4>4, <4>5
    <3> QED
      BY <2>3, <2>4, <3>1, <3>2, <3>3
  <2>8. Left(y, i)
    BY <2>6, <2>7
  <2> HIDE DEF Left, H
  <2> QED
    BY <1>4, <1>5, <2>1, <2>3, <2>8 DEF y
<1>8. ASSUME NEW g, IsTurns(g, H, s, h, N)
      PROVE  a[0] = h /\ \A i \in 1 .. N : a[i - 1] \in H => a[i] = s[a[i - 1]]
  <2> HIDE DEF H
  <2>1. g \in [0 .. N -> H] /\ g[0] = h /\ \A i \in 1 .. N : g[i] = s[g[i - 1]]
    BY <1>8 DEF IsTurns
  <2>2. \A i \in 1 .. N : g[i] = FlushFirst(g[i - 1])
    <3>1. \A i \in 1 .. N : g[i - 1] \in H
      BY <1>2, <2>1
    <3> QED
      BY <1>4, <2>1, <3>1
  <2>3. g = Def(g)
    <3>1. \A i \in 0 .. N : i # 0 => i \in 1 .. N
      BY <1>2
    <3> QED
      BY <2>1, <2>2, <3>1
  <2>4. a = Def(a)
    <3> HIDE DEF Def
    <3> QED
      BY <2>3
  <2> HIDE DEF a
  <2>5. \A i \in 0 .. N : a[i] = IF i = 0 THEN h ELSE FlushFirst(a[i - 1])
    BY <2>4
  <2>6. 0 \in 0 .. N /\ \A i \in 1 .. N : i \in 0 .. N /\ i # 0
    BY <1>2
  <2> QED
    BY <1>4, <2>5, <2>6
<1> HIDE DEF H, a
<1>9. a[N] \in H /\ a[N] \in Q[N]
  BY <1>2, <1>3, <1>6, <1>7, <1>8, <1>h, LoopEnds
<1>10. Left(a[N], N)
  <2> HIDE DEF Left
  <2> QED
    BY <1>2, <1>5, <1>9
<1>11. Settled(a[N])
  <2> DEFINE g == a[N]
  <2>1. g \in Under(e, d, n, fst)
    BY <1>9 DEF H
  <2>2. Settled(g) \/ Cardinality(DOMAIN g.ooo) <= N - N
    BY <1>10
  <2> HIDE DEF g
  <2>3. IsFiniteSet(DOMAIN g.ooo) /\ Cardinality(DOMAIN g.ooo) \in Nat
    BY <2>1, BufferFinite
  <2>4. Cardinality(DOMAIN g.ooo) <= N - N => DOMAIN g.ooo = {}
    BY <1>2, <2>3, FS_EmptySet
  <2>5. Settled(g)
    BY <2>2, <2>4 DEF Settled
  <2> QED
    BY <2>5 DEF g
<1> QED
  BY <1>1, <1>9, <1>10, <1>11 DEF H

-----------------------------------------------------------------------------
(* A buffered segment starts within the stream.                            *)
LEMMA StartsWithin ==
    ASSUME NEW e \in Nat, NEW d \in Int, NEW n \in Nat, NEW fst \in Seen,
           NEW h \in Under(e, d, n, fst), NEW k \in DOMAIN h.ooo
    PROVE  k \in Nat /\ k + d < Top /\ Len(h.ooo[k]) \in Nat /\ k + Len(h.ooo[k]) + d <= Top
<1> DEFINE ooo == h.ooo
<1>1. ooo \in [DOMAIN ooo -> Seq(Octets)] /\ DOMAIN ooo \subseteq Nat
  BY BufferType DEF Under, Halves
<1>2. BufferTrue(ooo, h.next_abs, d, fst)
  BY DEF Under, Going
<1> HIDE DEF ooo
<1>k. k \in DOMAIN ooo
  BY DEF ooo
<1> DEFINE m == Len(ooo[k])
<1>3. m \in Nat /\ m > 0 /\ \A i \in 1 .. m : k + i - 1 + d \in Positions
  BY <1>1, <1>2, <1>k DEF BufferTrue
<1>m. Len(h.ooo[k]) = m
  BY DEF ooo
<1> HIDE DEF m
<1>4. m \in 1 .. m /\ k \in Nat
  BY <1>1, <1>3, <1>k
<1>5. k + m - 1 + d \in Positions
  BY <1>3, <1>4
<1>6. k + m + d <= Top /\ k + d < Top
  BY <1>3, <1>4, <1>5, Numbers
<1> QED
  BY <1>3, <1>4, <1>6, <1>m

(* The smaller of two numbers.                                             *)
LEMMA MinOfTwo ==
    ASSUME NEW a \in Nat, NEW b \in Nat
    PROVE  LET m == Min({a, b}) IN m \in Nat /\ m <= a /\ m <= b /\ (m = a \/ m = b)
<1>1. \E x \in {a, b} : \A y \in {a, b} : x <= y
  OBVIOUS
<1>2. Min({a, b}) \in {a, b} /\ \A y \in {a, b} : Min({a, b}) <= y
  BY <1>1 DEF Min
<1> QED
  BY <1>2

(* One turn of recover_known_ack: a gap up to what the peer has            *)
(* acknowledged never covers a buffered byte.                              *)
LEMMA AckTurnGoes ==
    ASSUME NEW e \in Nat, NEW d \in Int, NEW n \in Nat, NEW fst \in Seen,
           NEW h \in Under(e, d, n, fst)
    PROVE  LET g == AckTurn(h) IN g \in Under(e, d, n, fst) /\ Onward(h, g)
<1> DEFINE t == Min({First(h), h.peer_ack})
           gap == emit_gap_to(h, t)
<1>1. h \in Halves /\ Going(h, e, d, n, fst)
  BY DEF Under
<1>2. CASE h.next_abs >= h.peer_ack \/ Empty(h)
  BY <1>1, <1>2, OnwardSame DEF AckTurn
<1>3. CASE ~(h.next_abs >= h.peer_ack \/ Empty(h))
  <2>1. h.ooo \in Buffers /\ h.peer_ack \in Nat /\ h.next_abs \in Nat
    BY <1>1 DEF Halves
  <2>2. First(h) \in DOMAIN h.ooo /\ First(h) \in Nat /\ \A l \in DOMAIN h.ooo : First(h) <= l
    BY <1>3, <2>1, FirstIsFirst
  <2>3. t \in Nat /\ t <= First(h) /\ t <= h.peer_ack
    BY <2>1, <2>2, MinOfTwo
  <2> HIDE DEF t
  <2>4. h.peer_ack # None /\ h.peer_ack + d <= Top + 1
    BY <1>1, <1>3, <2>1 DEF Going, Within, None
  <2>5. t + d <= Top + 1
    BY <2>1, <2>3, <2>4, Numbers
  <2>6. \A k \in DOMAIN h.ooo : t <= k
    <3>1. \A k \in DOMAIN h.ooo : k \in Nat
      BY StartsWithin
    <3> QED
      BY <2>2, <2>3, <3>1
  <2>7. gap \in Under(e, d, n, fst) /\ Onward(h, gap) /\ gap \in Halves
    BY <2>3, <2>5, <2>6, GapGoes DEF Under
  <2> HIDE DEF gap
  <2>8. LET g == flush_ooo(gap) IN g \in Under(e, d, n, fst) /\ Onward(gap, g) /\ g \in Halves
    BY <2>7, FlushGoes DEF Under
  <2>9. Onward(h, flush_ooo(gap))
    BY <1>1, <2>7, <2>8, OnwardTwice
  <2>10. AckTurn(h) = gap \/ AckTurn(h) = flush_ooo(gap)
    BY <1>3 DEF AckTurn, gap, t
  <2> QED
    BY <2>7, <2>8, <2>9, <2>10
<1> QED
  BY <1>2, <1>3

(* recover_known_ack, any number of turns.                                 *)
LEMMA AckLoopGoes ==
    ASSUME NEW e \in Nat, NEW d \in Int, NEW n \in Nat, NEW fst \in Seen,
           NEW h \in Under(e, d, n, fst)
    PROVE  LET g == Loop(AckTurn, h) IN g \in Under(e, d, n, fst) /\ Onward(h, g)
<1> DEFINE H == Under(e, d, n, fst)
           N == Cardinality(DOMAIN h.ooo)
           s == [x \in H |-> AckTurn(x)]
           Left(x, i) == Onward(h, x)
           Q == [i \in 0 .. N |-> {x \in H : Left(x, i)}]
           Def(f) == [i \in 0 .. N |-> IF i = 0 THEN h ELSE AckTurn(f[i - 1])]
           a == CHOOSE f : f = Def(f)
<1>1. Loop(AckTurn, h) = a[N]
  BY DEF Loop
<1>2. N \in Nat
  BY BufferFinite
<1> HIDE DEF N
<1>h. h \in H /\ \A x \in H : x \in Halves
  BY DEF Under
<1>3. s \in [H -> H]
  <2> HIDE DEF H
  <2>1. ASSUME NEW x \in H PROVE AckTurn(x) \in H
    BY AckTurnGoes DEF H
  <2> QED
    BY <2>1
<1>4. \A x \in H : s[x] = AckTurn(x)
  OBVIOUS
<1>5. \A i \in 0 .. N : Q[i] = {x \in H : Left(x, i)}
  OBVIOUS
<1>6. h \in Q[0]
  <2>1. Left(h, 0)
    BY <1>2, <1>h, OnwardSame DEF N
  <2> HIDE DEF H, Left, Q
  <2> QED
    BY <1>2, <1>5, <1>h, <2>1
<1> HIDE DEF s, Q
<1>7. ASSUME NEW i \in 1 .. N, NEW x \in H, x \in Q[i - 1] PROVE s[x] \in Q[i]
  <2>1. i \in 0 .. N /\ i - 1 \in 0 .. N
    BY <1>2
  <2>2. Left(x, i - 1) /\ x \in Halves
    <3> HIDE DEF H, Left
    <3> QED
      BY <1>5, <1>7, <1>h, <2>1
  <2> DEFINE y == AckTurn(x)
  <2>3. y \in H /\ Onward(x, y) /\ y \in Halves
    BY <1>h, AckTurnGoes
  <2> HIDE DEF y
  <2>6. Onward(h, y)
    BY <1>h, <2>2, <2>3, OnwardTwice
  <2>8. Left(y, i)
    BY <2>6
  <2> HIDE DEF Left, H
  <2> QED
    BY <1>4, <1>5, <2>1, <2>3, <2>8 DEF y
<1>8. ASSUME NEW g, IsTurns(g, H, s, h, N)
      PROVE  a[0] = h /\ \A i \in 1 .. N : a[i - 1] \in H => a[i] = s[a[i - 1]]
  <2> HIDE DEF H
  <2>1. g \in [0 .. N -> H] /\ g[0] = h /\ \A i \in 1 .. N : g[i] = s[g[i - 1]]
    BY <1>8 DEF IsTurns
  <2>2. \A i \in 1 .. N : g[i] = AckTurn(g[i - 1])
    <3>1. \A i \in 1 .. N : g[i - 1] \in H
      BY <1>2, <2>1
    <3> QED
      BY <1>4, <2>1, <3>1
  <2>3. g = Def(g)
    <3>1. \A i \in 0 .. N : i # 0 => i \in 1 .. N
      BY <1>2
    <3> QED
      BY <2>1, <2>2, <3>1
  <2>4. a = Def(a)
    <3> HIDE DEF Def
    <3> QED
      BY <2>3
  <2> HIDE DEF a
  <2>5. \A i \in 0 .. N : a[i] = IF i = 0 THEN h ELSE AckTurn(a[i - 1])
    BY <2>4
  <2>6. 0 \in 0 .. N /\ \A i \in 1 .. N : i \in 0 .. N /\ i # 0
    BY <1>2
  <2> QED
    BY <1>4, <2>5, <2>6
<1> HIDE DEF H, a
<1>9. a[N] \in H /\ a[N] \in Q[N]
  BY <1>2, <1>3, <1>6, <1>7, <1>8, <1>h, LoopEnds
<1>10. Left(a[N], N)
  <2> HIDE DEF Left
  <2> QED
    BY <1>2, <1>5, <1>9
<1> QED
  BY <1>1, <1>9, <1>10 DEF H

(* What the peer acknowledged turns into gaps, up to a FIN it confirms.    *)
LEMMA RecoverAckGoes ==
    ASSUME NEW e \in Nat, NEW d \in Int, NEW n \in Nat, NEW fst \in Seen,
           NEW h \in Under(e, d, n, fst)
    PROVE  LET g == recover_known_ack(h) IN g \in Under(e, d, n, fst) /\ Onward(h, g)
<1> DEFINE u == Loop(AckTurn, h)
           fin == u.pending_fin
           gap == emit_gap_to(u, fin)
<1>1. h \in Halves
  BY DEF Under
<1>2. u \in Under(e, d, n, fst) /\ Onward(h, u)
  BY AckLoopGoes
<1>3. CASE h.peer_ack = None
  BY <1>1, <1>3, OnwardSame DEF recover_known_ack
<1>4. CASE h.peer_ack # None
  <2> HIDE DEF u
  <2>1. CASE ~(/\ Empty(u) /\ u.next_abs < h.peer_ack
               /\ fin # None /\ fin > u.next_abs /\ h.peer_ack > fin)
    <3>1. recover_known_ack(h) = u
      BY <1>4, <2>1 DEF recover_known_ack, u
    <3> QED
      BY <1>2, <3>1
  <2>2. CASE /\ Empty(u) /\ u.next_abs < h.peer_ack
             /\ fin # None /\ fin > u.next_abs /\ h.peer_ack > fin
    <3>1. recover_known_ack(h) = consume_fin_if_ready(gap)
      BY <1>4, <2>2 DEF recover_known_ack, u
    <3>2. u \in Halves /\ Within(u, d)
      BY <1>2 DEF Under, Going
    <3>3. fin \in Nat /\ fin + d <= Top + 1 /\ \A k \in DOMAIN u.ooo : fin <= k
      BY <2>2, <3>2, Numbers DEF Halves, Within, Empty
    <3>4. gap \in Under(e, d, n, fst) /\ Onward(u, gap) /\ gap \in Halves
      BY <1>2, <3>3, GapGoes DEF Under
    <3> HIDE DEF gap
    <3>5. LET g == consume_fin_if_ready(gap) IN g \in Under(e, d, n, fst) /\ Onward(gap, g) /\ g \in Halves
      BY <3>4, ConsumeGoes DEF Under
    <3>6. Onward(h, gap)
      BY <1>1, <1>2, <3>2, <3>4, OnwardTwice
    <3>7. Onward(h, consume_fin_if_ready(gap))
      BY <1>1, <3>4, <3>5, <3>6, OnwardTwice
    <3> QED
      BY <3>1, <3>5, <3>7
  <2> QED
    BY <2>1, <2>2
<1> QED
  BY <1>3, <1>4

(* Skipping the hole before the first segment removes that segment, unless *)
(* only segments behind a FIN are left.                                    *)
LEMMA SkipGoes ==
    ASSUME NEW e \in Nat, NEW d \in Int, NEW n \in Nat, NEW fst \in Seen,
           NEW h \in Under(e, d, n, fst), ~Empty(h)
    PROVE  LET g == SkipToFirst(h)
           IN  /\ g \in Under(e, d, n, fst) /\ Onward(h, g) /\ Settled(g)
               /\ First(h) \in DOMAIN h.ooo
               /\ \/ First(h) \notin DOMAIN g.ooo
                  \/ g.pending_fin # None /\ \A k \in DOMAIN g.ooo : k >= g.pending_fin
<1> DEFINE t == First(h)
           gap == emit_gap_to(h, t)
           g == flush_ooo(gap)
<1>1. h \in Halves /\ h.ooo \in Buffers
  BY DEF Under, Halves
<1>2. t \in DOMAIN h.ooo /\ t \in Nat /\ \A l \in DOMAIN h.ooo : t <= l
  BY <1>1, FirstIsFirst
<1>g. SkipToFirst(h) = g
  BY DEF SkipToFirst
<1> HIDE DEF t
<1>3. t + d <= Top + 1
  <2>1. t + d < Top
    BY <1>2, StartsWithin
  <2> QED
    BY <1>2, <2>1, Numbers
<1>4. /\ gap \in Under(e, d, n, fst) /\ Onward(h, gap) /\ gap \in Halves
      /\ gap.fin_consumed \/ gap.next_abs >= t \/ (gap.pending_fin # None /\ gap.next_abs >= gap.pending_fin)
  BY <1>2, <1>3, GapGoes DEF Under
<1> HIDE DEF gap
<1>5. g \in Under(e, d, n, fst) /\ Onward(gap, g) /\ Settled(g) /\ g \in Halves
  BY <1>4, FlushGoes DEF Under
<1> HIDE DEF g
<1>6. Onward(h, g)
  BY <1>1, <1>4, <1>5, OnwardTwice
<1>7. t \notin DOMAIN g.ooo \/ (g.pending_fin # None /\ \A k \in DOMAIN g.ooo : k >= g.pending_fin)
  <2>1. CASE gap.fin_consumed
    <3>1. g.fin_consumed
      BY <1>5, <2>1 DEF Onward
    <3> QED
      BY <1>5, <3>1 DEF Under, Going
  <2>2. CASE gap.next_abs >= t
    <3>1. g.next_abs >= t
      BY <1>2, <1>4, <1>5, <2>2 DEF Onward, Halves
    <3> QED
      BY <1>2, <1>5, <3>1 DEF Settled, Halves
  <2>3. CASE gap.pending_fin # None /\ gap.next_abs >= gap.pending_fin
    <3>1. g.pending_fin # None /\ g.next_abs >= g.pending_fin
      BY <1>4, <1>5, <2>3 DEF Onward, Halves
    <3>2. \A k \in DOMAIN g.ooo : k \in Nat
      BY <1>5, StartsWithin
    <3> QED
      BY <1>5, <3>1, <3>2 DEF Settled, Halves
  <2> QED
    BY <1>4, <2>1, <2>2, <2>3
<1> QED
  BY <1>2, <1>g, <1>5, <1>6, <1>7 DEF t

-----------------------------------------------------------------------------
(* One pair for each buffered byte.                                        *)
Pieces(ooo) == UNION {{k} \X DOMAIN ooo[k] : k \in DOMAIN ooo}

(* The buffered bytes are finitely many.                                   *)
LEMMA PiecesFinite ==
    ASSUME NEW e \in Nat, NEW d \in Int, NEW n \in Nat, NEW fst \in Seen,
           NEW h \in Under(e, d, n, fst)
    PROVE  IsFiniteSet(Pieces(h.ooo))
<1> DEFINE ooo == h.ooo
<1>1. ooo \in [DOMAIN ooo -> Seq(Octets)] /\ DOMAIN ooo \subseteq Nat
  BY BufferType DEF Under, Halves
<1>2. \A k \in DOMAIN ooo : k \in Nat /\ Len(ooo[k]) \in Nat /\ k + Len(ooo[k]) + d <= Top
  BY StartsWithin
<1>d. Top - d \in Int
  BY Numbers
<1> HIDE DEF ooo
<1>3. ASSUME NEW z \in Pieces(ooo) PROVE z \in (0 .. Top - d) \X (0 .. Top - d)
  <2>1. PICK k \in DOMAIN ooo : z \in {k} \X DOMAIN ooo[k]
    BY <1>3 DEF Pieces
  <2> DEFINE q == ooo[k]
  <2>2. q \in Seq(Octets)
    BY <1>1
  <2>3. k \in Nat /\ Len(q) \in Nat /\ k + Len(q) + d <= Top
    BY <1>2
  <2>4. z \in {k} \X DOMAIN q
    BY <2>1
  <2> HIDE DEF q
  <2>5. DOMAIN q = 1 .. Len(q)
    BY <2>2
  <2>6. k \in 0 .. Top - d /\ \A i \in 1 .. Len(q) : i \in 0 .. Top - d
    BY <1>d, <2>3, Numbers
  <2> QED
    BY <2>4, <2>5, <2>6
<1>4. IsFiniteSet(0 .. Top - d)
  BY <1>d, FS_Interval
<1>5. IsFiniteSet((0 .. Top - d) \X (0 .. Top - d))
  BY <1>4, FS_Product
<1>6. Pieces(ooo) \subseteq (0 .. Top - d) \X (0 .. Top - d)
  BY <1>3
<1> QED
  BY <1>5, <1>6, FS_Subset DEF ooo

(* A part of a buffer that is within the limits is within the limits.      *)
LEMMA PartWithinLimits ==
    ASSUME NEW e \in Nat, NEW d \in Int, NEW n \in Nat, NEW fst \in Seen,
           NEW h \in Under(e, d, n, fst), ~OverLimit(h),
           NEW g, DOMAIN g.ooo \subseteq DOMAIN h.ooo, \A k \in DOMAIN g.ooo : g.ooo[k] = h.ooo[k]
    PROVE  ~OverLimit(g)
<1>1. IsFiniteSet(Pieces(h.ooo)) /\ IsFiniteSet(DOMAIN h.ooo)
  BY PiecesFinite, BufferFinite
<1>2. Pieces(g.ooo) \subseteq Pieces(h.ooo)
  <2> SUFFICES ASSUME NEW z \in Pieces(g.ooo) PROVE z \in Pieces(h.ooo)
    OBVIOUS
  <2>1. PICK k \in DOMAIN g.ooo : z \in {k} \X DOMAIN g.ooo[k]
    BY DEF Pieces
  <2>2. k \in DOMAIN h.ooo /\ z \in {k} \X DOMAIN h.ooo[k]
    BY <2>1
  <2> QED
    BY <2>2 DEF Pieces
<1>3. Cardinality(Pieces(g.ooo)) <= Cardinality(Pieces(h.ooo))
  BY <1>1, <1>2, FS_Subset
<1>4. Cardinality(DOMAIN g.ooo) <= Cardinality(DOMAIN h.ooo)
  BY <1>1, FS_Subset
<1>5. /\ Cardinality(Pieces(g.ooo)) \in Nat /\ Cardinality(Pieces(h.ooo)) \in Nat
      /\ Cardinality(DOMAIN g.ooo) \in Nat /\ Cardinality(DOMAIN h.ooo) \in Nat
  BY <1>1, <1>2, FS_Subset, FS_CardinalityType
<1>6. BufferedBytes(g) = Cardinality(Pieces(g.ooo)) /\ BufferedBytes(h) = Cardinality(Pieces(h.ooo))
  BY DEF BufferedBytes, Pieces
<1> QED
  BY <1>3, <1>4, <1>5, <1>6, LimitsAssumption DEF OverLimit

(* An empty buffer is within the limits.                                   *)
LEMMA EmptyWithinLimits ==
    ASSUME NEW g, DOMAIN g.ooo = {}
    PROVE  ~OverLimit(g)
<1>1. Pieces(g.ooo) = {}
  BY DEF Pieces
<1>2. BufferedBytes(g) = Cardinality({}) /\ Cardinality(DOMAIN g.ooo) = Cardinality({})
  BY <1>1 DEF BufferedBytes, Pieces
<1>3. Cardinality({}) = 0
  BY FS_EmptySet
<1> QED
  BY <1>2, <1>3, LimitsAssumption DEF OverLimit

(* What h has buffered behind its FIN, old had too.                        *)
LateFrom(h, old) ==
    \A k \in DOMAIN h.ooo :
        h.pending_fin # None /\ k >= h.pending_fin => k \in DOMAIN old.ooo /\ h.ooo[k] = old.ooo[k]

(* One turn of recover_ooo_pressure.                                       *)
LEMMA PressureTurnGoes ==
    ASSUME NEW e \in Nat, NEW d \in Int, NEW n \in Nat, NEW fst \in Seen,
           NEW h \in Under(e, d, n, fst)
    PROVE  LET g == PressureTurn(h)
           IN  /\ g \in Under(e, d, n, fst) /\ Onward(h, g)
               /\ ~OverLimit(h) => g = h
               /\ \/ ~OverLimit(g)
                  \/ \E k \in DOMAIN h.ooo : k \notin DOMAIN g.ooo
                  \/ g.pending_fin # None /\ \A k \in DOMAIN g.ooo : k >= g.pending_fin
<1>1. h \in Halves
  BY DEF Under
<1>2. CASE ~OverLimit(h)
  BY <1>1, <1>2, OnwardSame DEF PressureTurn
<1>3. CASE OverLimit(h)
  <2>1. ~Empty(h)
    BY <1>3, EmptyWithinLimits DEF Empty
  <2>2. PressureTurn(h) = SkipToFirst(h)
    BY <1>3, <2>1 DEF PressureTurn
  <2> QED
    BY <1>3, <2>1, <2>2, SkipGoes
<1> QED
  BY <1>2, <1>3

(* The pressure loop brings the buffer within its limits, if what lies     *)
(* behind a FIN was within them.                                           *)
LEMMA PressureGoes ==
    ASSUME NEW e \in Nat, NEW d \in Int, NEW n \in Nat, NEW fst \in Seen,
           NEW h \in Under(e, d, n, fst),
           NEW was \in Seen, NEW old \in Under(e, d, n, was), LateFrom(h, old), ~OverLimit(old)
    PROVE  LET g == recover_ooo_pressure(h)
           IN  g \in Under(e, d, n, fst) /\ Onward(h, g) /\ ~OverLimit(g)
<1> DEFINE H == Under(e, d, n, fst)
           N == Cardinality(DOMAIN h.ooo)
           s == [x \in H |-> PressureTurn(x)]
           Left(x, i) == Onward(h, x) /\ (~OverLimit(x) \/ Cardinality(DOMAIN x.ooo) <= N - i)
           Q == [i \in 0 .. N |-> {x \in H : Left(x, i)}]
           Def(f) == [i \in 0 .. N |-> IF i = 0 THEN h ELSE PressureTurn(f[i - 1])]
           a == CHOOSE f : f = Def(f)
<1>1. Loop(PressureTurn, h) = a[N]
  BY DEF Loop
<1>2. N \in Nat
  BY BufferFinite
<1> HIDE DEF N
<1>h. h \in H /\ \A x \in H : x \in Halves
  BY DEF Under
<1>3. s \in [H -> H]
  <2> HIDE DEF H
  <2>1. ASSUME NEW x \in H PROVE PressureTurn(x) \in H
    BY PressureTurnGoes DEF H
  <2> QED
    BY <2>1
<1>4. \A x \in H : s[x] = PressureTurn(x)
  OBVIOUS
<1>5. \A i \in 0 .. N : Q[i] = {x \in H : Left(x, i)}
  OBVIOUS
<1>6. h \in Q[0]
  <2>1. Left(h, 0)
    BY <1>2, <1>h, OnwardSame DEF N
  <2> HIDE DEF H, Left, Q
  <2> QED
    BY <1>2, <1>5, <1>h, <2>1
<1> HIDE DEF s, Q
<1>7. ASSUME NEW i \in 1 .. N, NEW x \in H, x \in Q[i - 1] PROVE s[x] \in Q[i]
  <2>1. i \in 0 .. N /\ i - 1 \in 0 .. N
    BY <1>2
  <2>2. Left(x, i - 1) /\ x \in Halves
    <3> HIDE DEF H, Left
    <3> QED
      BY <1>5, <1>7, <1>h, <2>1
  <2> DEFINE y == PressureTurn(x)
  <2>3. /\ y \in H /\ Onward(x, y) /\ y \in Halves
        /\ ~OverLimit(x) => y = x
        /\ \/ ~OverLimit(y)
           \/ \E k \in DOMAIN x.ooo : k \notin DOMAIN y.ooo
           \/ y.pending_fin # None /\ \A k \in DOMAIN y.ooo : k >= y.pending_fin
    BY <1>h, PressureTurnGoes
  <2> HIDE DEF y
  <2>6. Onward(h, y)
    BY <1>h, <2>2, <2>3, OnwardTwice
  <2>7. ~OverLimit(y) \/ Cardinality(DOMAIN y.ooo) <= N - i
    <3>1. CASE ~OverLimit(x)
      BY <2>3, <3>1
    <3>2. CASE y.pending_fin # None /\ \A k \in DOMAIN y.ooo : k >= y.pending_fin
      <4>1. /\ y.pending_fin = h.pending_fin /\ DOMAIN y.ooo \subseteq DOMAIN h.ooo
            /\ \A k \in DOMAIN y.ooo : y.ooo[k] = h.ooo[k]
        BY <2>6 DEF Onward
      <4>2. /\ DOMAIN y.ooo \subseteq DOMAIN old.ooo
            /\ \A k \in DOMAIN y.ooo : y.ooo[k] = old.ooo[k]
        BY <3>2, <4>1 DEF LateFrom
      <4> QED
        BY <4>2, PartWithinLimits
    <3>3. CASE OverLimit(x) /\ \E k \in DOMAIN x.ooo : k \notin DOMAIN y.ooo
      <4>1. PICK k \in DOMAIN x.ooo : k \notin DOMAIN y.ooo
        BY <3>3
      <4>2. IsFiniteSet(DOMAIN x.ooo) /\ Cardinality(DOMAIN x.ooo) \in Nat
        BY BufferFinite
      <4>3. Cardinality(DOMAIN x.ooo \ {k}) = Cardinality(DOMAIN x.ooo) - 1 /\ IsFiniteSet(DOMAIN x.ooo \ {k})
        BY <4>2, FS_RemoveElement
      <4>4. DOMAIN y.ooo \subseteq DOMAIN x.ooo \ {k}
        BY <2>3, <4>1 DEF Onward
      <4>5. Cardinality(DOMAIN y.ooo) <= Cardinality(DOMAIN x.ooo \ {k}) /\ Cardinality(DOMAIN y.ooo) \in Nat
        BY <4>3, <4>4, FS_Subset, FS_CardinalityType
      <4>6. Cardinality(DOMAIN x.ooo) <= N - (i - 1)
        BY <2>2, <3>3
      <4> QED
        BY <1>2, <4>2, <4>3, <4>5, <4>6
    <3> QED
      BY <2>3, <3>1, <3>2, <3>3
  <2>8. Left(y, i)
    BY <2>6, <2>7
  <2> HIDE DEF Left, H
  <2> QED
    BY <1>4, <1>5, <2>1, <2>3, <2>8 DEF y
<1>8. ASSUME NEW g, IsTurns(g, H, s, h, N)
      PROVE  a[0] = h /\ \A i \in 1 .. N : a[i - 1] \in H => a[i] = s[a[i - 1]]
  <2> HIDE DEF H
  <2>1. g \in [0 .. N -> H] /\ g[0] = h /\ \A i \in 1 .. N : g[i] = s[g[i - 1]]
    BY <1>8 DEF IsTurns
  <2>2. \A i \in 1 .. N : g[i] = PressureTurn(g[i - 1])
    <3>1. \A i \in 1 .. N : g[i - 1] \in H
      BY <1>2, <2>1
    <3> QED
      BY <1>4, <2>1, <3>1
  <2>3. g = Def(g)
    <3>1. \A i \in 0 .. N : i # 0 => i \in 1 .. N
      BY <1>2
    <3> QED
      BY <2>1, <2>2, <3>1
  <2>4. a = Def(a)
    <3> HIDE DEF Def
    <3> QED
      BY <2>3
  <2> HIDE DEF a
  <2>5. \A i \in 0 .. N : a[i] = IF i = 0 THEN h ELSE PressureTurn(a[i - 1])
    BY <2>4
  <2>6. 0 \in 0 .. N /\ \A i \in 1 .. N : i \in 0 .. N /\ i # 0
    BY <1>2
  <2> QED
    BY <1>4, <2>5, <2>6
<1> HIDE DEF H, a
<1>9. a[N] \in H /\ a[N] \in Q[N]
  BY <1>2, <1>3, <1>6, <1>7, <1>8, <1>h, LoopEnds
<1>10. Left(a[N], N)
  <2> HIDE DEF Left
  <2> QED
    BY <1>2, <1>5, <1>9
<1>11. ~OverLimit(a[N])
  <2> DEFINE g == a[N]
  <2>1. g \in Under(e, d, n, fst)
    BY <1>9 DEF H
  <2>2. ~OverLimit(g) \/ Cardinality(DOMAIN g.ooo) <= N - N
    BY <1>10
  <2> HIDE DEF g
  <2>3. IsFiniteSet(DOMAIN g.ooo) /\ Cardinality(DOMAIN g.ooo) \in Nat
    BY <2>1, BufferFinite
  <2>4. Cardinality(DOMAIN g.ooo) <= N - N => DOMAIN g.ooo = {}
    BY <1>2, <2>3, FS_EmptySet
  <2>5. ~OverLimit(g)
    BY <2>2, <2>4, EmptyWithinLimits
  <2> QED
    BY <2>5 DEF g
<1> QED
  BY <1>1, <1>9, <1>10, <1>11 DEF H, recover_ooo_pressure

-----------------------------------------------------------------------------
(* The clock of the open hole has no part in what a half hands on.         *)
LEMMA ClockGoes ==
    ASSUME NEW e \in Nat, NEW d \in Int, NEW n \in Nat, NEW fst \in Seen,
           NEW h \in Under(e, d, n, fst), NEW x \in 0 .. MaxTs
    PROVE  LET g == [h EXCEPT !.gap_started = x]
           IN  /\ g \in Under(e, d, n, fst) /\ Onward(h, g)
               /\ g.ooo = h.ooo /\ g.next_abs = h.next_abs
<1> DEFINE g == [h EXCEPT !.gap_started = x]
<1>1. h \in Halves /\ Going(h, e, d, n, fst)
  BY DEF Under
<1>2. /\ g \in Halves /\ g.ooo = h.ooo /\ g.next_abs = h.next_abs /\ g.out = h.out
      /\ g.stream_offset = h.stream_offset /\ g.pending_fin = h.pending_fin
      /\ g.peer_ack = h.peer_ack /\ g.fin_consumed = h.fin_consumed
      /\ g.requires_ack = h.requires_ack
  BY <1>1 DEF Halves
<1> HIDE DEF g
<1>3. Within(g, d)
  BY <1>1, <1>2 DEF Going, Within
<1>4. Going(g, e, d, n, fst)
  BY <1>1, <1>2, <1>3 DEF Going
<1>5. FinAhead(h) => FinAhead(g)
  BY <1>2 DEF FinAhead, FinAcked
<1>6. Onward(h, g)
  BY <1>1, <1>2, <1>5 DEF Onward, Halves
<1> QED
  BY <1>2, <1>4, <1>6 DEF Under, g

(* recover_ooo_timeout keeps the half true, and leaves nothing that is due.*)
LEMMA TimeoutGoes ==
    ASSUME NEW e \in Nat, NEW d \in Int, NEW n \in Nat, NEW fst \in Seen,
           NEW h \in Under(e, d, n, fst), e > 0, NEW ts \in 0 .. MaxTs
    PROVE  LET g == recover_ooo_timeout(h, ts)
           IN  g \in Under(e, d, n, fst) /\ Onward(h, g) /\ Settled(g)
<1> DEFINE quiet == [h EXCEPT !.gap_started = None]
           begun == [h EXCEPT !.gap_started = ts]
           g == recover_ooo_timeout(h, ts)
<1>1. h \in Halves /\ Going(h, e, d, n, fst) /\ h.ooo \in Buffers
  BY DEF Under, Halves
<1>2. /\ quiet \in Under(e, d, n, fst) /\ Onward(h, quiet) /\ quiet \in Halves
      /\ quiet.ooo = h.ooo /\ quiet.next_abs = h.next_abs
  BY Numbers, ClockGoes DEF None, Under
<1>3. /\ begun \in Under(e, d, n, fst) /\ Onward(h, begun)
      /\ begun.ooo = h.ooo /\ begun.next_abs = h.next_abs
  BY ClockGoes
<1> HIDE DEF quiet, begun
<1>4. CASE h.next_abs = None \/ Empty(h)
  <2>1. g = quiet
    BY <1>4 DEF recover_ooo_timeout, quiet
  <2>2. Settled(h)
    <3>1. CASE Empty(h)
      BY <3>1 DEF Empty, Settled
    <3>2. CASE h.next_abs = None
      <4>1. h.fin_consumed
        <5>1. ~h.fin_consumed => h.next_abs = e + h.stream_offset
          BY <1>1 DEF Going
        <5> QED
          BY <1>1, <3>2, <5>1 DEF Halves, None
      <4> QED
        BY <1>1, <4>1 DEF Going, Settled
    <3> QED
      BY <1>4, <3>1, <3>2
  <2>3. Settled(quiet)
    BY <1>2, <2>2 DEF Settled
  <2> QED
    BY <1>2, <2>1, <2>3
<1>5. CASE ~(h.next_abs = None \/ Empty(h))
  <2>1. First(h) \in DOMAIN h.ooo /\ First(h) \in Nat /\ \A l \in DOMAIN h.ooo : First(h) <= l
    BY <1>1, <1>5, FirstIsFirst
  <2>2. CASE First(h) <= h.next_abs
    <3>1. g = flush_ooo(quiet)
      BY <1>5, <2>2 DEF recover_ooo_timeout, quiet
    <3>2. LET u == flush_ooo(quiet) IN u \in Under(e, d, n, fst) /\ Onward(quiet, u) /\ Settled(u) /\ u \in Halves
      BY <1>2, FlushGoes DEF Under
    <3>3. Onward(h, flush_ooo(quiet))
      BY <1>1, <1>2, <3>2, OnwardTwice
    <3> QED
      BY <3>1, <3>2, <3>3
  <2>3. CASE ~(First(h) <= h.next_abs)
    <3>1. Settled(h) /\ Settled(begun)
      <4>1. \A k \in DOMAIN h.ooo : k \in Nat
        BY StartsWithin
      <4>2. \A k \in DOMAIN h.ooo : k > h.next_abs
        BY <1>1, <2>1, <2>3, <4>1 DEF Halves
      <4> QED
        BY <1>3, <4>2 DEF Settled
    <3>2. CASE h.gap_started = None
      <4>1. g = begun
        BY <1>5, <2>3, <3>2 DEF recover_ooo_timeout, begun
      <4> QED
        BY <1>3, <3>1, <4>1
    <3>3. CASE h.gap_started # None /\ ts - h.gap_started < GapTimeout
      <4>1. g = h
        BY <1>5, <2>3, <3>3 DEF recover_ooo_timeout
      <4> QED
        BY <1>1, <3>1, <4>1, OnwardSame
    <3>4. CASE h.gap_started # None /\ ~(ts - h.gap_started < GapTimeout)
      <4> DEFINE u == SkipToFirst(h)
                 x == IF ~Empty(u) /\ First(u) > u.next_abs THEN ts ELSE None
                 v == [u EXCEPT !.gap_started = x]
      <4>1. g = v
        BY <1>5, <2>3, <3>4 DEF recover_ooo_timeout
      <4>2. u \in Under(e, d, n, fst) /\ Onward(h, u) /\ Settled(u) /\ u \in Halves
        BY <1>5, SkipGoes DEF Under
      <4> HIDE DEF u
      <4>3. x \in 0 .. MaxTs
        BY Numbers DEF None
      <4> HIDE DEF x
      <4>4. /\ v \in Under(e, d, n, fst) /\ Onward(u, v) /\ v \in Halves
            /\ v.ooo = u.ooo /\ v.next_abs = u.next_abs
        BY <4>2, <4>3, ClockGoes DEF Under
      <4> HIDE DEF v
      <4>5. Onward(h, v)
        BY <1>1, <4>2, <4>4, OnwardTwice
      <4>6. Settled(v)
        BY <4>2, <4>4 DEF Settled
      <4> QED
        BY <4>1, <4>4, <4>5, <4>6
    <3> QED
      BY <3>2, <3>3, <3>4
  <2> QED
    BY <2>2, <2>3
<1> QED
  BY <1>4, <1>5

(* One turn of finalize.                                                   *)
LEMMA FinalTurnGoes ==
    ASSUME NEW e \in Nat, NEW d \in Int, NEW n \in Nat, NEW fst \in Seen,
           NEW h \in Under(e, d, n, fst)
    PROVE  LET g == FinalTurn(h)
           IN  g \in Under(e, d, n, fst) /\ Onward(h, g) /\ (Settled(h) => Settled(g))
<1>1. h \in Halves
  BY DEF Under
<1>2. CASE Empty(h)
  BY <1>1, <1>2, OnwardSame DEF FinalTurn
<1>3. CASE ~Empty(h)
  <2>1. FinalTurn(h) = SkipToFirst(h)
    BY <1>3 DEF FinalTurn
  <2> QED
    BY <1>3, <2>1, SkipGoes
<1> QED
  BY <1>2, <1>3

(* finalize, any number of turns.                                          *)
LEMMA FinalLoopGoes ==
    ASSUME NEW e \in Nat, NEW d \in Int, NEW n \in Nat, NEW fst \in Seen,
           NEW h \in Under(e, d, n, fst), Settled(h)
    PROVE  LET g == Loop(FinalTurn, h)
           IN  g \in Under(e, d, n, fst) /\ Onward(h, g) /\ Settled(g)
<1> DEFINE H == Under(e, d, n, fst)
           N == Cardinality(DOMAIN h.ooo)
           s == [x \in H |-> FinalTurn(x)]
           Left(x, i) == Onward(h, x) /\ Settled(x)
           Q == [i \in 0 .. N |-> {x \in H : Left(x, i)}]
           Def(f) == [i \in 0 .. N |-> IF i = 0 THEN h ELSE FinalTurn(f[i - 1])]
           a == CHOOSE f : f = Def(f)
<1>1. Loop(FinalTurn, h) = a[N]
  BY DEF Loop
<1>2. N \in Nat
  BY BufferFinite
<1> HIDE DEF N
<1>h. h \in H /\ \A x \in H : x \in Halves
  BY DEF Under
<1>3. s \in [H -> H]
  <2> HIDE DEF H
  <2>1. ASSUME NEW x \in H PROVE FinalTurn(x) \in H
    BY FinalTurnGoes DEF H
  <2> QED
    BY <2>1
<1>4. \A x \in H : s[x] = FinalTurn(x)
  OBVIOUS
<1>5. \A i \in 0 .. N : Q[i] = {x \in H : Left(x, i)}
  OBVIOUS
<1>6. h \in Q[0]
  <2>1. Left(h, 0)
    BY <1>2, <1>h, OnwardSame DEF N
  <2> HIDE DEF H, Left, Q
  <2> QED
    BY <1>2, <1>5, <1>h, <2>1
<1> HIDE DEF s, Q
<1>7. ASSUME NEW i \in 1 .. N, NEW x \in H, x \in Q[i - 1] PROVE s[x] \in Q[i]
  <2>1. i \in 0 .. N /\ i - 1 \in 0 .. N
    BY <1>2
  <2>2. Left(x, i - 1) /\ x \in Halves
    <3> HIDE DEF H, Left
    <3> QED
      BY <1>5, <1>7, <1>h, <2>1
  <2> DEFINE y == FinalTurn(x)
  <2>3. y \in H /\ Onward(x, y) /\ y \in Halves /\ (Settled(x) => Settled(y))
    BY <1>h, FinalTurnGoes
  <2> HIDE DEF y
  <2>6. Onward(h, y)
    BY <1>h, <2>2, <2>3, OnwardTwice
  <2>7. Settled(y)
    BY <2>2, <2>3
  <2>8. Left(y, i)
    BY <2>6, <2>7
  <2> HIDE DEF Left, H
  <2> QED
    BY <1>4, <1>5, <2>1, <2>3, <2>8 DEF y
<1>8. ASSUME NEW g, IsTurns(g, H, s, h, N)
      PROVE  a[0] = h /\ \A i \in 1 .. N : a[i - 1] \in H => a[i] = s[a[i - 1]]
  <2> HIDE DEF H
  <2>1. g \in [0 .. N -> H] /\ g[0] = h /\ \A i \in 1 .. N : g[i] = s[g[i - 1]]
    BY <1>8 DEF IsTurns
  <2>2. \A i \in 1 .. N : g[i] = FinalTurn(g[i - 1])
    <3>1. \A i \in 1 .. N : g[i - 1] \in H
      BY <1>2, <2>1
    <3> QED
      BY <1>4, <2>1, <3>1
  <2>3. g = Def(g)
    <3>1. \A i \in 0 .. N : i # 0 => i \in 1 .. N
      BY <1>2
    <3> QED
      BY <2>1, <2>2, <3>1
  <2>4. a = Def(a)
    <3> HIDE DEF Def
    <3> QED
      BY <2>3
  <2> HIDE DEF a
  <2>5. \A i \in 0 .. N : a[i] = IF i = 0 THEN h ELSE FinalTurn(a[i - 1])
    BY <2>4
  <2>6. 0 \in 0 .. N /\ \A i \in 1 .. N : i \in 0 .. N /\ i # 0
    BY <1>2
  <2> QED
    BY <1>4, <2>5, <2>6
<1> HIDE DEF H, a
<1>9. a[N] \in H /\ a[N] \in Q[N]
  BY <1>2, <1>3, <1>6, <1>7, <1>8, <1>h, LoopEnds
<1>10. Left(a[N], N)
  <2> HIDE DEF Left
  <2> QED
    BY <1>2, <1>5, <1>9
<1> QED
  BY <1>1, <1>9, <1>10 DEF H

(* Taking the FIN leaves nothing that is due.                              *)
LEMMA ConsumeSettled ==
    ASSUME NEW e \in Nat, NEW d \in Int, NEW n \in Nat, NEW fst \in Seen,
           NEW h \in Under(e, d, n, fst), Settled(h)
    PROVE  Settled(consume_fin_if_ready(h))
<1> DEFINE g == consume_fin_if_ready(h)
<1>1. g \in Under(e, d, n, fst) /\ (g = h \/ g.fin_consumed)
  BY ConsumeGoes
<1> HIDE DEF g
<1>2. g.fin_consumed => DOMAIN g.ooo = {}
  BY <1>1 DEF Under, Going
<1>3. Settled(g)
  BY <1>1, <1>2 DEF Settled
<1> QED
  BY <1>3 DEF g

(* finalize hands on all that is buffered before a FIN.                    *)
LEMMA FinalizeGoes ==
    ASSUME NEW e \in Nat, NEW d \in Int, NEW n \in Nat, NEW fst \in Seen,
           NEW h \in Under(e, d, n, fst), Settled(h)
    PROVE  LET g == finalize(h)
           IN  g \in Under(e, d, n, fst) /\ Onward(h, g) /\ Settled(g) /\ FinAhead(g)
<1> DEFINE u == Loop(FinalTurn, h)
           v == consume_fin_if_ready(u)
           w == [v EXCEPT !.gap_started = None]
<1>1. h \in Halves
  BY DEF Under
<1>2. u \in Under(e, d, n, fst) /\ Onward(h, u) /\ Settled(u) /\ u \in Halves
  BY FinalLoopGoes DEF Under
<1>w. finalize(h) = w
  BY DEF finalize
<1> HIDE DEF u
<1>3. v \in Under(e, d, n, fst) /\ Onward(u, v) /\ FinAhead(v) /\ v \in Halves /\ Settled(v)
  BY <1>2, ConsumeGoes, ConsumeSettled DEF Under
<1> HIDE DEF v
<1>4. /\ w \in Under(e, d, n, fst) /\ Onward(v, w) /\ w \in Halves
      /\ w.ooo = v.ooo /\ w.next_abs = v.next_abs
  BY <1>3, Numbers, ClockGoes DEF Under, None
<1> HIDE DEF w
<1>5. Settled(w) /\ FinAhead(w)
  BY <1>3, <1>4 DEF Settled, Onward
<1>6. Onward(h, v)
  BY <1>1, <1>2, <1>3, OnwardTwice
<1>7. Onward(h, w)
  BY <1>1, <1>3, <1>4, <1>6, OnwardTwice
<1> QED
  BY <1>w, <1>4, <1>5, <1>7

-----------------------------------------------------------------------------
(* In a bounded set of numbers a run that begins at p has an end.          *)
LEMMA RunEnds ==
    ASSUME NEW S \in SUBSET Nat, NEW top \in Nat, \A q \in S : q <= top, NEW p \in S
    PROVE  \E q \in S : p <= q /\ q + 1 \notin S /\ p .. q \subseteq S
<1> DEFINE T == {q \in Nat : p <= q /\ q + 1 \notin S}
<1>1. top \in T
  OBVIOUS
<1>2. T \in SUBSET Nat /\ T # {}
  BY <1>1
<1>3. PICK q \in T : \A r \in T : q <= r
  BY <1>2, LeastNatural
<1>4. q \in Nat /\ p <= q /\ q + 1 \notin S /\ p \in Nat
  BY <1>3
<1>5. ASSUME NEW r \in p .. q PROVE r \in S
  <2>1. CASE r = p
    BY <2>1
  <2>2. CASE r # p
    <3>1. r - 1 \in Nat /\ p <= r - 1 /\ r - 1 < q
      BY <1>4, <2>2
    <3>2. r - 1 \notin T
      <4> HIDE DEF T
      <4> QED
        BY <1>3, <1>4, <3>1
    <3>3. (r - 1) + 1 \in S
      BY <3>1, <3>2
    <3>4. (r - 1) + 1 = r
      BY <1>4
    <3> QED
      BY <3>3, <3>4
  <2> QED
    BY <2>1, <2>2
<1>6. q \in p .. q
  BY <1>4
<1> QED
  BY <1>4, <1>5, <1>6

(* And a number in it belongs to a run, which begins somewhere.            *)
LEMMA RunBegins ==
    ASSUME NEW S \in SUBSET Nat, NEW p \in S
    PROVE  \E q \in S : q <= p /\ q - 1 \notin S /\ q .. p \subseteq S
<1> DEFINE T == {j \in Nat : p - j - 1 \notin S}
<1>1. p \in T
  OBVIOUS
<1>2. T \in SUBSET Nat /\ T # {}
  BY <1>1
<1>3. PICK j \in T : \A r \in T : j <= r
  BY <1>2, LeastNatural
<1>4. j \in Nat /\ p - j - 1 \notin S /\ p \in Nat
  BY <1>3
<1>5. ASSUME NEW r \in p - j .. p PROVE r \in S
  <2>1. CASE r = p
    BY <2>1
  <2>2. CASE r # p
    <3>1. p - r - 1 \in Nat /\ p - r - 1 < j
      BY <1>4, <2>2
    <3>2. p - r - 1 \notin T
      <4> HIDE DEF T
      <4> QED
        BY <1>3, <1>4, <3>1
    <3>3. p - (p - r - 1) - 1 \in S
      BY <3>1, <3>2
    <3>4. p - (p - r - 1) - 1 = r
      BY <1>4
    <3> QED
      BY <3>3, <3>4
  <2> QED
    BY <2>1, <2>2
<1>6. p - j \in p - j .. p /\ p - j <= p
  BY <1>4
<1> QED
  BY <1>4, <1>5, <1>6

(* A part of a sequence.                                                   *)
LEMMA PartOfSequence ==
    ASSUME NEW T, NEW s \in Seq(T), NEW a \in Nat, NEW b \in Nat, 1 <= a, a <= b, b <= Len(s)
    PROVE  /\ SubSeq(s, a, b) \in Seq(T) /\ Len(SubSeq(s, a, b)) = b - a + 1
           /\ \A i \in 1 .. b - a + 1 : SubSeq(s, a, b)[i] = s[a + i - 1]
OBVIOUS

(* The parts of insert_ooo_first_seen.                                     *)
NewIn(ooo, start, m) == {p \in start .. start + m - 1 : ~Covers(ooo, p)}
Runs(new) == {p \in new : p - 1 \notin new}
EndOf(new, p) == CHOOSE q \in new : p <= q /\ q + 1 \notin new /\ p .. q \subseteq new
Inserted(ooo, start, data) ==
    [k \in DOMAIN ooo \cup Runs(NewIn(ooo, start, Len(data))) |->
        IF k \in Runs(NewIn(ooo, start, Len(data)))
        THEN SubSeq(data, k - start + 1, EndOf(NewIn(ooo, start, Len(data)), k) - start + 1)
        ELSE ooo[k]]

(* The bytes of a segment, all of version v.                               *)
DataTrue(data, start, d, v) ==
    \A i \in 1 .. Len(data) :
        start + i - 1 + d \in Positions /\ data[i] = <<start + i - 1 + d, v>>

(* What is seen of the positions from lo on and before hi, v is the first  *)
(* version of unless there was one before.                                 *)
Learned(was, fst, lo, hi, v) ==
    \A p \in Positions :
        fst[p] = IF was[p] = None /\ lo <= p /\ p < hi THEN v ELSE was[p]

(* insert_ooo_first_seen changes the buffer only.                          *)
LEMMA InsertIs ==
    ASSUME NEW h, NEW start, NEW data
    PROVE  insert_ooo_first_seen(h, start, data) = [h EXCEPT !.ooo = Inserted(h.ooo, start, data)]
BY DEF insert_ooo_first_seen, Inserted, NewIn, Runs, EndOf, Covers

(* The new segments are the runs of bytes that were not buffered.          *)
LEMMA InsertedRuns ==
    ASSUME NEW ooo \in Buffers, NEW start \in Nat, NEW data \in Seq(Octets), Len(data) > 0,
           \A k \in DOMAIN ooo : Len(ooo[k]) > 0
    PROVE  LET new == NewIn(ooo, start, Len(data))
               nw == Inserted(ooo, start, data)
           IN  /\ nw \in Buffers /\ DOMAIN nw = DOMAIN ooo \cup Runs(new)
               /\ \A k \in DOMAIN ooo : k \notin Runs(new) /\ nw[k] = ooo[k]
               /\ \A k \in Runs(new) :
                     /\ k \in Nat /\ start <= k /\ k - 1 \notin new
                     /\ Len(nw[k]) \in Nat /\ Len(nw[k]) > 0 /\ k + Len(nw[k]) <= start + Len(data)
                     /\ k + Len(nw[k]) \notin new
                     /\ \A q \in k .. k + Len(nw[k]) - 1 : q \in new
                     /\ \A i \in 1 .. Len(nw[k]) : nw[k][i] = data[k - start + i]
<1> DEFINE m == Len(data)
           new == NewIn(ooo, start, m)
           nw == Inserted(ooo, start, data)
           E(k) == EndOf(new, k)
<1>1. m \in Nat /\ m > 0 /\ start + m - 1 \in Nat
  OBVIOUS
<1>2. ooo \in [DOMAIN ooo -> Seq(Octets)] /\ DOMAIN ooo \subseteq Nat
  BY BufferType
<1>3. nw = [k \in DOMAIN ooo \cup Runs(new) |->
              IF k \in Runs(new) THEN SubSeq(data, k - start + 1, E(k) - start + 1) ELSE ooo[k]]
  BY DEF Inserted
<1>m. m = Len(data)
  OBVIOUS
<1> HIDE DEF m, nw
<1>4. new \in SUBSET Nat /\ \A q \in new : start <= q /\ q <= start + m - 1 /\ ~Covers(ooo, q)
  BY <1>1 DEF NewIn
<1>5. ASSUME NEW k \in DOMAIN ooo PROVE k \notin Runs(new)
  <2>1. k \in Nat /\ Len(ooo[k]) \in Nat /\ Len(ooo[k]) > 0
    BY <1>2
  <2>2. Covers(ooo, k)
    BY <2>1 DEF Covers
  <2> QED
    BY <1>4, <2>2 DEF Runs
<1> HIDE DEF new
<1>6. ASSUME NEW k \in Runs(new)
      PROVE  /\ k \in new /\ k - 1 \notin new /\ E(k) \in new /\ k <= E(k) /\ E(k) + 1 \notin new
             /\ k .. E(k) \subseteq new
  <2>1. k \in new /\ k - 1 \notin new
    BY DEF Runs
  <2>2. \A q \in new : q <= start + m - 1
    BY <1>4
  <2>3. \E q \in new : k <= q /\ q + 1 \notin new /\ k .. q \subseteq new
    BY <1>1, <1>4, <2>1, <2>2, RunEnds
  <2> QED
    BY <2>1, <2>3 DEF EndOf
<1> HIDE DEF E
<1>7. ASSUME NEW k \in Runs(new)
      PROVE  /\ k \in Nat /\ start <= k /\ k - 1 \notin new
             /\ nw[k] \in Seq(Octets) /\ Len(nw[k]) = E(k) - k + 1 /\ E(k) \in Nat /\ E(k) >= k
             /\ E(k) <= start + m - 1 /\ E(k) + 1 \notin new /\ k .. E(k) \subseteq new
             /\ \A i \in 1 .. E(k) - k + 1 : nw[k][i] = data[k - start + i]
  <2>1. /\ k \in Nat /\ start <= k /\ E(k) \in Nat /\ E(k) >= k /\ E(k) <= start + m - 1
    BY <1>4, <1>6
  <2> DEFINE a == k - start + 1
             b == E(k) - start + 1
             q == SubSeq(data, a, b)
  <2>2. a \in Nat /\ b \in Nat /\ 1 <= a /\ a <= b /\ b <= Len(data)
    BY <1>1, <1>m, <2>1
  <2>3. nw[k] = q
    BY <1>3
  <2>4. b - a + 1 = E(k) - k + 1 /\ \A i \in 1 .. b - a + 1 : a + i - 1 = k - start + i
    BY <2>1
  <2> HIDE DEF a, b
  <2>5. /\ q \in Seq(Octets) /\ Len(q) = b - a + 1
        /\ \A i \in 1 .. b - a + 1 : q[i] = data[a + i - 1]
    BY <2>2, PartOfSequence
  <2> HIDE DEF q
  <2>6. \A i \in 1 .. E(k) - k + 1 : q[i] = data[k - start + i]
    BY <2>4, <2>5
  <2> QED
    BY <1>6, <2>1, <2>3, <2>4, <2>5, <2>6
<1>8. DOMAIN nw = DOMAIN ooo \cup Runs(new) /\ \A k \in DOMAIN ooo : nw[k] = ooo[k]
  BY <1>3, <1>5
<1>9. nw \in Buffers
  <2>1. \A k \in DOMAIN nw : nw[k] \in Seq(Octets)
    BY <1>2, <1>7, <1>8
  <2>2. DOMAIN nw \subseteq Nat
    BY <1>2, <1>7, <1>8
  <2>3. nw \in [DOMAIN nw -> Seq(Octets)]
    BY <1>3, <1>8, <2>1
  <2> QED
    BY <2>2, <2>3, BufferType
<1>10. ASSUME NEW k \in Runs(new)
       PROVE  /\ k \in Nat /\ start <= k /\ k - 1 \notin new
              /\ Len(nw[k]) \in Nat /\ Len(nw[k]) > 0 /\ k + Len(nw[k]) <= start + m
              /\ k + Len(nw[k]) \notin new
              /\ \A q \in k .. k + Len(nw[k]) - 1 : q \in new
              /\ \A i \in 1 .. Len(nw[k]) : nw[k][i] = data[k - start + i]
  <2> DEFINE s == nw[k]
             l == Len(s)
  <2>1. l = E(k) - k + 1 /\ E(k) \in Nat /\ E(k) >= k /\ k \in Nat /\ E(k) <= start + m - 1
    BY <1>7
  <2> HIDE DEF l
  <2>2. l \in Nat /\ l > 0 /\ k + l = E(k) + 1 /\ k + l - 1 = E(k) /\ k + l <= start + m
    BY <1>1, <2>1
  <2>3. k + l \notin new /\ (\A q \in k .. k + l - 1 : q \in new)
    BY <1>7, <2>2
  <2>4. \A i \in 1 .. l : s[i] = data[k - start + i]
    BY <1>7, <2>1
  <2> HIDE DEF s
  <2>5. start <= k /\ k - 1 \notin new
    BY <1>7
  <2> QED
    BY <2>1, <2>2, <2>3, <2>4, <2>5 DEF l, s
<1> QED
  BY <1>5, <1>8, <1>9, <1>10 DEF m, new, nw

(* Inserting a segment keeps what was buffered, adds what is new, and the  *)
(* buffer stays disjoint, true and whole.                                  *)
LEMMA InsertedTrue ==
    ASSUME NEW ooo \in Buffers, NEW next \in Nat, NEW d \in Int, NEW was \in Seen, NEW fst \in Seen,
           BufferTrue(ooo, next, d, was), BufferWhole(ooo, next, d, was),
           NEW start \in Nat, start >= next, NEW v \in Versions,
           NEW data \in Seq(Octets), Len(data) > 0, DataTrue(data, start, d, v),
           Learned(was, fst, start + d, start + Len(data) + d, v)
    PROVE  LET nw == Inserted(ooo, start, data)
           IN  /\ nw \in Buffers /\ BufferTrue(nw, next, d, fst) /\ BufferWhole(nw, next, d, fst)
               /\ \A k \in DOMAIN nw :
                     (k \in DOMAIN ooo /\ nw[k] = ooo[k]) \/ (start <= k /\ k < start + Len(data))
<1> DEFINE m == Len(data)
           new == NewIn(ooo, start, m)
           nw == Inserted(ooo, start, data)
<1>1. m \in Nat /\ m > 0 /\ v # None /\ v \in Nat
  BY SegmentAssumption DEF None
<1>2. ooo \in [DOMAIN ooo -> Seq(Octets)] /\ DOMAIN ooo \subseteq Nat
  BY BufferType
<1>3. /\ nw \in Buffers /\ DOMAIN nw = DOMAIN ooo \cup Runs(new)
      /\ \A k \in DOMAIN ooo : k \notin Runs(new) /\ nw[k] = ooo[k]
      /\ \A k \in Runs(new) :
            /\ k \in Nat /\ start <= k /\ k - 1 \notin new
            /\ Len(nw[k]) \in Nat /\ Len(nw[k]) > 0 /\ k + Len(nw[k]) <= start + m
            /\ k + Len(nw[k]) \notin new
            /\ \A q \in k .. k + Len(nw[k]) - 1 : q \in new
            /\ \A i \in 1 .. Len(nw[k]) : nw[k][i] = data[k - start + i]
  <2>1. \A k \in DOMAIN ooo : Len(ooo[k]) > 0
    BY DEF BufferTrue
  <2> QED
    BY <2>1, InsertedRuns
<1> HIDE DEF nw
<1>4. new \in SUBSET Nat /\ \A q : q \in new <=> q \in start .. start + m - 1 /\ ~Covers(ooo, q)
  BY <1>1 DEF NewIn
<1>5. nw \in [DOMAIN nw -> Seq(Octets)] /\ DOMAIN nw \subseteq Nat
  BY <1>3, BufferType
<1>d. /\ \A i \in 1 .. m : start + i - 1 + d \in Positions /\ data[i] = <<start + i - 1 + d, v>>
      /\ \A p \in Positions :
            fst[p] = IF was[p] = None /\ start + d <= p /\ p < start + m + d THEN v ELSE was[p]
  BY DEF DataTrue, Learned
<1> HIDE DEF m, new
<1>6. ASSUME NEW q \in Nat, Covers(ooo, q) PROVE q + d \in Positions /\ was[q + d] # None
  <2>1. PICK k \in DOMAIN ooo : k <= q /\ q < k + Len(ooo[k])
    BY <1>6 DEF Covers
  <2> DEFINE l == Len(ooo[k])
             i == q - k + 1
  <2>2. k \in Nat /\ l \in Nat /\ k <= q /\ q < k + l
    BY <1>2, <2>1
  <2>3. \A j \in 1 .. l : k + j - 1 + d \in Positions /\ was[k + j - 1 + d] # None
    BY DEF BufferTrue
  <2> HIDE DEF l
  <2>4. i \in 1 .. l /\ k + i - 1 + d = q + d
    BY <2>2
  <2> HIDE DEF i
  <2> QED
    BY <2>3, <2>4
<1>7. ASSUME NEW q \in new
      PROVE  q \in Nat /\ start <= q /\ q < start + m /\ q + d \in Positions /\ fst[q + d] = v
  <2>1. q \in Nat /\ start <= q /\ q < start + m /\ ~Covers(ooo, q)
    BY <1>1, <1>4
  <2> DEFINE i == q - start + 1
  <2>2. i \in 1 .. m /\ start + i - 1 + d = q + d
    BY <1>1, <2>1
  <2> HIDE DEF i
  <2>3. q + d \in Positions
    BY <1>d, <2>2
  <2>4. was[q + d] = None
    <3>1. q + d >= next + d /\ (q + d) - d = q
      BY <2>1
    <3> DEFINE p == q + d
    <3>2. p \in Positions /\ p >= next + d /\ p - d = q
      BY <2>3, <3>1
    <3> HIDE DEF p
    <3>3. was[p] = None
      BY <2>1, <3>2 DEF BufferWhole
    <3> QED
      BY <3>3 DEF p
  <2>5. start + d <= q + d /\ q + d < start + m + d
    BY <1>1, <2>1
  <2> QED
    BY <1>d, <2>1, <2>3, <2>4, <2>5
<1>8. BufferTrue(nw, next, d, fst)
  <2>1. ASSUME NEW k \in DOMAIN ooo
        PROVE  /\ Len(nw[k]) > 0 /\ k >= next
               /\ \A l \in DOMAIN nw : k < l => k + Len(nw[k]) <= l
               /\ \A i \in 1 .. Len(nw[k]) :
                     /\ k + i - 1 + d \in Positions
                     /\ fst[k + i - 1 + d] # None
                     /\ nw[k][i] = <<k + i - 1 + d, fst[k + i - 1 + d]>>
    <3> DEFINE s == ooo[k]
               z == Len(s)
    <3>1. nw[k] = s /\ k \in Nat /\ s \in Seq(Octets) /\ z \in Nat
      BY <1>2, <1>3
    <3>2. /\ z > 0 /\ k >= next /\ \A l \in DOMAIN ooo : k < l => k + z <= l
          /\ \A i \in 1 .. z : /\ k + i - 1 + d \in Positions
                               /\ was[k + i - 1 + d] # None
                               /\ s[i] = <<k + i - 1 + d, was[k + i - 1 + d]>>
      BY DEF BufferTrue
    <3>3. \A q \in Nat : k <= q /\ q < k + z => Covers(ooo, q)
      BY DEF Covers
    <3> HIDE DEF s
    <3>z. z = Len(nw[k])
      BY <3>1
    <3> HIDE DEF z
    <3>4. ASSUME NEW l \in DOMAIN nw, k < l PROVE k + z <= l
      <4>1. CASE l \in DOMAIN ooo
        BY <3>2, <3>4, <4>1
      <4>2. CASE l \in Runs(new)
        <5>1. l \in new /\ l \in Nat
          BY <1>3, <4>2 DEF Runs
        <5>2. ~Covers(ooo, l)
          BY <1>4, <5>1
        <5> QED
          BY <3>1, <3>3, <3>4, <5>1, <5>2
      <4> QED
        BY <1>3, <4>1, <4>2
    <3>5. \A i \in 1 .. z : fst[k + i - 1 + d] = was[k + i - 1 + d]
      BY <1>d, <3>2
    <3> QED
      BY <3>1, <3>2, <3>4, <3>5, <3>z
  <2>2. ASSUME NEW k \in Runs(new)
        PROVE  /\ Len(nw[k]) > 0 /\ k >= next
               /\ \A l \in DOMAIN nw : k < l => k + Len(nw[k]) <= l
               /\ \A i \in 1 .. Len(nw[k]) :
                     /\ k + i - 1 + d \in Positions
                     /\ fst[k + i - 1 + d] # None
                     /\ nw[k][i] = <<k + i - 1 + d, fst[k + i - 1 + d]>>
    <3> DEFINE s == nw[k]
               z == Len(s)
    <3>1. /\ k \in Nat /\ start <= k /\ z \in Nat /\ z > 0 /\ k + z <= start + m
          /\ \A q \in k .. k + z - 1 : q \in new
          /\ \A i \in 1 .. z : s[i] = data[k - start + i]
      BY <1>3
    <3>z. z = Len(nw[k]) /\ s = nw[k]
      OBVIOUS
    <3> HIDE DEF z, s
    <3>2. k >= next
      BY <3>1
    <3>3. ASSUME NEW l \in DOMAIN nw, k < l PROVE k + z <= l
      <4> SUFFICES ASSUME ~(k + z <= l) PROVE FALSE
        OBVIOUS
      <4>1. l \in Nat /\ l \in k .. k + z - 1 /\ l - 1 \in k .. k + z - 1
        BY <1>5, <3>1, <3>3
      <4>2. l \in new /\ l - 1 \in new
        BY <3>1, <4>1
      <4>3. CASE l \in DOMAIN ooo
        <5>1. Len(ooo[l]) \in Nat /\ Len(ooo[l]) > 0
          BY <1>2, <4>3 DEF BufferTrue
        <5>2. Covers(ooo, l)
          BY <4>1, <4>3, <5>1 DEF Covers
        <5> QED
          BY <1>4, <4>2, <5>2
      <4>4. CASE l \in Runs(new)
        BY <4>2, <4>4 DEF Runs
      <4> QED
        BY <1>3, <4>3, <4>4
    <3>4. ASSUME NEW i \in 1 .. z
          PROVE  /\ k + i - 1 + d \in Positions
                 /\ fst[k + i - 1 + d] # None
                 /\ s[i] = <<k + i - 1 + d, fst[k + i - 1 + d]>>
      <4> DEFINE q == k + i - 1
                 j == k - start + i
      <4>1. q \in k .. k + z - 1 /\ j \in 1 .. m /\ start + j - 1 + d = q + d
        BY <1>1, <3>1
      <4>2. q \in new /\ s[i] = data[j]
        BY <3>1, <4>1
      <4>q. k + i - 1 + d = q + d
        OBVIOUS
      <4> HIDE DEF q, j
      <4>3. q + d \in Positions /\ fst[q + d] = v
        BY <1>7, <4>2
      <4>4. data[j] = <<q + d, v>>
        BY <1>d, <4>1
      <4> QED
        BY <1>1, <4>2, <4>3, <4>4, <4>q
    <3> QED
      BY <3>1, <3>2, <3>3, <3>4, <3>z
  <2> QED
    BY <1>3, <2>1, <2>2 DEF BufferTrue
<1>9. BufferWhole(nw, next, d, fst)
  <2> SUFFICES ASSUME NEW p \in Positions, p >= next + d, fst[p] # None PROVE Covers(nw, p - d)
    BY DEF BufferWhole
  <2> DEFINE q == p - d
  <2>1. p \in Int /\ q \in Nat
    BY Numbers
  <2>2. CASE was[p] # None
    <3>1. PICK k \in DOMAIN ooo : k <= q /\ q < k + Len(ooo[k])
      BY <2>2 DEF BufferWhole, Covers
    <3> QED
      BY <1>3, <3>1 DEF Covers
  <2>3. CASE was[p] = None
    <3>1. start + d <= p /\ p < start + m + d
      BY <1>d, <2>3
    <3>2. q \in start .. start + m - 1
      BY <1>1, <2>1, <3>1
    <3>3. CASE Covers(ooo, q)
      <4>1. q + d = p
        BY <2>1
      <4> QED
        BY <1>6, <2>1, <2>3, <3>3, <4>1
    <3>4. CASE ~Covers(ooo, q)
      <4> HIDE DEF q
      <4>1. q \in new
        BY <1>4, <3>2, <3>4
      <4>2. PICK r \in new : r <= q /\ r - 1 \notin new /\ r .. q \subseteq new
        BY <1>4, <4>1, RunBegins
      <4>3. r \in Runs(new) /\ r \in Nat
        BY <1>4, <4>2 DEF Runs
      <4> DEFINE z == Len(nw[r])
      <4>4. z \in Nat /\ r + z \notin new
        BY <1>3, <4>3
      <4>5. r + z \notin r .. q
        BY <4>2, <4>4
      <4>z. z = Len(nw[r])
        OBVIOUS
      <4> HIDE DEF z
      <4>6. r <= q /\ q < r + z
        BY <2>1, <4>2, <4>3, <4>4, <4>5
      <4>7. r \in DOMAIN nw
        BY <1>3, <4>3
      <4>8. Covers(nw, q)
        BY <4>6, <4>7, <4>z DEF Covers
      <4> QED
        BY <4>8 DEF q
    <3> QED
      BY <3>3, <3>4
  <2> QED
    BY <2>2, <2>3
<1>10. \A k \in DOMAIN nw :
          (k \in DOMAIN ooo /\ nw[k] = ooo[k]) \/ (start <= k /\ k < start + m)
  <2>1. ASSUME NEW k \in Runs(new) PROVE start <= k /\ k < start + m
    <3>1. k \in new
      BY DEF Runs
    <3> QED
      BY <1>7, <3>1
  <2> QED
    BY <1>3, <2>1
<1> QED
  BY <1>3, <1>8, <1>9, <1>10 DEF nw, m


-----------------------------------------------------------------------------
(* A segment whose data, not empty, is to be taken in from start on:       *)
(* nothing of it is handed on yet, and fst is what is seen with it.        *)
Arrives(start, data, next, d, v, was, fst) ==
    /\ start \in Nat /\ start >= next /\ v \in Versions
    /\ data \in Seq(Octets) /\ Len(data) > 0 /\ DataTrue(data, start, d, v)
    /\ Learned(was, fst, start + d, start + Len(data) + d, v)

(* What is handed on stays true when later positions are seen.             *)
LEMMA ItemsStay ==
    ASSUME NEW T, NEW items \in Seq(T), NEW b \in Int, NEW n \in Nat, NEW was \in Seen, NEW fst \in Seen,
           ItemsTrue(items, b, n, was), NEW lo \in Int, NEW hi \in Int, NEW v, Learned(was, fst, lo, hi, v),
           b + n + Len(items) <= lo
    PROVE  ItemsTrue(items, b, n, fst)
<1> DEFINE m == Len(items)
<1>1. m \in Nat
  OBVIOUS
<1> SUFFICES ASSUME NEW i \in 1 .. m
             PROVE  /\ items[i].offset = n + i - 1
                    /\ items[i].byte # Lost => items[i].byte[1] = b + n + i - 1
                    /\ b + n + i - 1 \in Positions => fst[b + n + i - 1] = items[i].byte[2]
  BY DEF ItemsTrue
<1>2. /\ items[i].offset = n + i - 1
      /\ items[i].byte # Lost => items[i].byte[1] = b + n + i - 1
      /\ b + n + i - 1 \in Positions => was[b + n + i - 1] = items[i].byte[2]
  BY DEF ItemsTrue
<1> DEFINE p == b + n + i - 1
<1>3. p \in Int /\ p < lo
  BY <1>1
<1> HIDE DEF p
<1>4. p \in Positions => fst[p] = was[p]
  BY <1>3 DEF Learned
<1> QED
  BY <1>2, <1>4 DEF p

(* insert_ooo_first_seen keeps the half true of what is seen with the      *)
(* segment, and what it adds lies within the segment.                      *)
LEMMA InsertGoes ==
    ASSUME NEW e \in Nat, NEW d \in Int, NEW n \in Nat, NEW was \in Seen, NEW fst \in Seen,
           NEW h \in Under(e, d, n, was), ~h.fin_consumed,
           NEW start, NEW data, NEW v, Arrives(start, data, h.next_abs, d, v, was, fst)
    PROVE  LET g == insert_ooo_first_seen(h, start, data)
           IN  /\ g \in Under(e, d, n, fst)
               /\ g.pending_fin = h.pending_fin /\ g.peer_ack = h.peer_ack /\ g.next_abs = h.next_abs
               /\ \A k \in DOMAIN g.ooo :
                     \/ k \in DOMAIN h.ooo /\ g.ooo[k] = h.ooo[k]
                     \/ start <= k /\ k < start + Len(data)
<1> DEFINE nw == Inserted(h.ooo, start, data)
           g == insert_ooo_first_seen(h, start, data)
           ol == h.ooo
           nx == h.next_abs
           ou == h.out
           so == h.stream_offset
<1>1. h \in Halves /\ Going(h, e, d, n, was)
  BY DEF Under
<1>2. /\ ol \in Buffers /\ nx \in Nat /\ ou \in Seq(Items) /\ so \in Nat
      /\ nx = e + so /\ Counted(ou, so, n) /\ ItemsTrue(ou, e + d, n, was)
      /\ BufferTrue(ol, nx, d, was) /\ BufferWhole(ol, nx, d, was)
  BY <1>1 DEF Halves, Going
<1>3. /\ start \in Nat /\ start >= nx /\ v \in Versions
      /\ data \in Seq(Octets) /\ Len(data) > 0 /\ DataTrue(data, start, d, v)
      /\ Learned(was, fst, start + d, start + Len(data) + d, v)
  BY DEF Arrives
<1>4. g = [h EXCEPT !.ooo = nw]
  BY InsertIs
<1>5. nw = Inserted(ol, start, data) /\ ol = h.ooo /\ nx = h.next_abs /\ ou = h.out /\ so = h.stream_offset
  OBVIOUS
<1> HIDE DEF nw, g, ol, nx, ou, so
<1>6. /\ nw \in Buffers /\ BufferTrue(nw, nx, d, fst) /\ BufferWhole(nw, nx, d, fst)
      /\ \A k \in DOMAIN nw :
            (k \in DOMAIN ol /\ nw[k] = ol[k]) \/ (start <= k /\ k < start + Len(data))
  <2>1. LET x == Inserted(ol, start, data)
        IN  /\ x \in Buffers /\ BufferTrue(x, nx, d, fst) /\ BufferWhole(x, nx, d, fst)
            /\ \A k \in DOMAIN x :
                  (k \in DOMAIN ol /\ x[k] = ol[k]) \/ (start <= k /\ k < start + Len(data))
    BY ONLY <1>2, <1>3, InsertedTrue, e \in Nat, d \in Int, was \in Seen, fst \in Seen, Zenon
  <2> QED
    BY <1>5, <2>1
<1>7. g \in Halves /\ g.ooo = nw /\ g.next_abs = nx /\ g.out = ou /\ g.stream_offset = so
  BY <1>1, <1>4, <1>5, <1>6 DEF Halves
<1>8. /\ g.pending_fin = h.pending_fin /\ g.peer_ack = h.peer_ack
      /\ g.fin_consumed = h.fin_consumed
  BY <1>1, <1>4, <1>6 DEF Halves
<1>9. ItemsTrue(ou, e + d, n, fst)
  <2>1. Len(ou) \in Nat /\ Len(data) \in Nat
    BY <1>2, <1>3
  <2>2. e + d + n + Len(ou) <= start + d
    BY <1>2, <1>3, <2>1 DEF Counted
  <2>3. e + d \in Int /\ start + d \in Int /\ start + Len(data) + d \in Int
    BY <1>3, <2>1
  <2> QED
    BY ONLY <1>2, <1>3, <2>2, <2>3, ItemsStay, n \in Nat, was \in Seen, fst \in Seen, Zenon
<1>10. Within(g, d)
  BY <1>1, <1>5, <1>7, <1>8 DEF Going, Within
<1>11. Going(g, e, d, n, fst)
  BY <1>2, <1>6, <1>7, <1>8, <1>9, <1>10 DEF Going
<1> QED
  BY <1>5, <1>6, <1>7, <1>8, <1>11 DEF Under, g

(* A segment that is due, with nothing buffered, is handed on at once.     *)
LEMMA DirectGoes ==
    ASSUME NEW e \in Nat, NEW d \in Int, NEW n \in Nat, NEW was \in Seen, NEW fst \in Seen,
           NEW h \in Under(e, d, n, was), ~h.fin_consumed, Empty(h),
           NEW data, NEW v, Arrives(h.next_abs, data, h.next_abs, d, v, was, fst)
    PROVE  LET g == emit(h, data)
           IN  g \in Under(e, d, n, fst) /\ Onward(h, g)
<1> DEFINE nx == h.next_abs
           so == h.stream_offset
           ou == h.out
           ol == h.ooo
           m == Len(data)
<1>1. h \in Halves /\ Going(h, e, d, n, was)
  BY DEF Under
<1>2. /\ ol \in Buffers /\ DOMAIN ol = {} /\ nx \in Nat /\ ou \in Seq(Items) /\ so \in Nat
      /\ nx = e + so /\ Counted(ou, so, n) /\ ItemsTrue(ou, e + d, n, was)
      /\ BufferWhole(ol, nx, d, was) /\ Within(h, d)
  BY <1>1 DEF Halves, Going, Empty
<1>3. /\ v \in Versions /\ data \in Seq(Octets) /\ m > 0 /\ DataTrue(data, nx, d, v)
      /\ Learned(was, fst, nx + d, nx + m + d, v)
  BY DEF Arrives
<1>4. m \in Nat /\ m = Len(data) /\ ol = h.ooo /\ nx = h.next_abs /\ ou = h.out /\ so = h.stream_offset
  BY <1>3
<1>n. m \in Nat /\ m > 0 /\ nx \in Nat
  BY <1>2, <1>3, <1>4
<1> HIDE DEF ol, nx, ou, so, m
<1>5. ItemsTrue(ou, e + d, n, fst)
  <2>1. Len(ou) \in Nat
    BY <1>2
  <2>2. e + d + n + Len(ou) <= nx + d
    BY <1>2, <2>1 DEF Counted
  <2>3. e + d \in Int /\ nx + d \in Int /\ nx + m + d \in Int
    BY <1>2, <1>4
  <2> QED
    BY ONLY <1>2, <1>3, <2>2, <2>3, ItemsStay, n \in Nat, was \in Seen, fst \in Seen, Zenon
<1>6. \A p \in Positions : p >= nx + d => was[p] = None
  BY <1>2 DEF BufferWhole, Covers
<1>7. ASSUME NEW i \in 1 .. m
      PROVE  /\ nx + i - 1 + d \in Positions /\ data[i] = <<nx + i - 1 + d, v>>
             /\ fst[nx + i - 1 + d] = v
  <2> DEFINE p == nx + i - 1 + d
  <2>1. p \in Positions /\ data[i] = <<p, v>>
    BY <1>3, <1>4 DEF DataTrue
  <2>2. p >= nx + d /\ p < nx + m + d
    BY <1>n
  <2> HIDE DEF p
  <2>3. fst[p] = v
    BY <1>3, <1>6, <2>1, <2>2 DEF Learned
  <2> QED
    BY <2>1, <2>3 DEF p
<1>8. BytesTrue(data, nx, d, fst)
  <2> SUFFICES ASSUME NEW i \in 1 .. m
               PROVE  /\ data[i] # Lost => data[i][1] = nx + d + i - 1
                      /\ nx + d + i - 1 \in Positions => fst[nx + d + i - 1] = data[i][2]
    BY <1>4 DEF BytesTrue
  <2>1. nx + d + i - 1 = nx + i - 1 + d
    BY <1>n
  <2> QED
    BY <1>7, <2>1
<1>9. BufferTrue(ol, nx + m, d, fst) /\ BufferWhole(ol, nx + m, d, fst)
  <2>1. ASSUME NEW p \in Positions, p >= nx + m + d PROVE fst[p] = None
    <3>1. p \in Int /\ p >= nx + d /\ ~(p < nx + m + d)
      BY <1>n, <2>1, Numbers
    <3> QED
      BY <1>3, <1>6, <3>1 DEF Learned
  <2> QED
    BY <1>2, <2>1 DEF BufferTrue, BufferWhole
<1>10. nx + m + d <= Top + 1
  <2>1. nx + m - 1 + d \in Positions
    BY <1>n, <1>7
  <2> QED
    BY <1>n, <2>1, Numbers
<1>11. Pushable(h, data, e, d, n, fst)
  BY <1>1, <1>2, <1>3, <1>4, <1>5, <1>8, <1>9, <1>10 DEF Pushable
<1>12. emit(h, data) = Push(h, data)
  <2>1. data # <<>>
    BY <1>3, <1>4
  <2> QED
    BY <2>1 DEF emit
<1>13. Pushed(Push(h, data), h, data, e, d, n, fst)
  BY <1>11, PushGoes
<1> QED
  BY <1>12, <1>13 DEF Pushed

(* No key of h lies behind its FIN that old has not: the segments that     *)
(* were added end before it.                                               *)
LEMMA PressedGoes ==
    ASSUME NEW e \in Nat, NEW d \in Int, NEW n \in Nat, NEW was \in Seen, NEW fst \in Seen,
           NEW old \in Under(e, d, n, was), ~OverLimit(old),
           NEW h \in Under(e, d, n, fst), LateFrom(h, old)
    PROVE  LET g == recover_ooo_pressure(recover_known_ack(h))
           IN  g \in Under(e, d, n, fst) /\ Onward(h, g) /\ ~OverLimit(g)
<1> DEFINE a == recover_known_ack(h)
<1>1. a \in Under(e, d, n, fst) /\ Onward(h, a)
  BY RecoverAckGoes
<1> HIDE DEF a
<1>2. LateFrom(a, old)
  BY <1>1 DEF Onward, LateFrom
<1>3. LET g == recover_ooo_pressure(a)
      IN  g \in Under(e, d, n, fst) /\ Onward(a, g) /\ ~OverLimit(g)
  BY <1>1, <1>2, PressureGoes
<1> DEFINE g == recover_ooo_pressure(a)
<1>4. g \in Under(e, d, n, fst) /\ Onward(a, g) /\ ~OverLimit(g)
  BY <1>3
<1> HIDE DEF g
<1>5. Onward(h, g)
  BY <1>1, <1>4, OnwardTwice DEF Under
<1> QED
  BY <1>4, <1>5 DEF g, a

(* The data of a segment, not empty and cut at a FIN, brings something that*)
(* is not handed on yet; fst is what is seen with it.                      *)
Taken(h, start, data, d, v, was, fst) ==
    /\ start \in Nat /\ v \in Versions
    /\ data \in Seq(Octets) /\ Len(data) > 0 /\ DataTrue(data, start, d, v)
    /\ start + Len(data) > h.next_abs
    /\ h.pending_fin # None => start + Len(data) <= h.pending_fin
    /\ \E lo \in {start, h.next_abs} :
          /\ lo >= start /\ lo >= h.next_abs
          /\ Learned(was, fst, lo + d, start + Len(data) + d, v)

(* The segment ends before the FIN.                                        *)
BeforeFin(h, start, data) == h.pending_fin # None => start + Len(data) <= h.pending_fin

(* What is inserted ahead of the expected byte leaves no more behind the   *)
(* FIN than there was.                                                     *)
LEMMA InsertLate ==
    ASSUME NEW e \in Nat, NEW d \in Int, NEW n \in Nat, NEW was \in Seen, NEW fst \in Seen,
           NEW h \in Under(e, d, n, was), ~h.fin_consumed,
           NEW start, NEW data, NEW v, Arrives(start, data, h.next_abs, d, v, was, fst),
           BeforeFin(h, start, data)
    PROVE  LET g == insert_ooo_first_seen(h, start, data)
           IN  /\ g \in Under(e, d, n, fst) /\ LateFrom(g, h)
               /\ g.pending_fin = h.pending_fin /\ g.next_abs = h.next_abs
<1> DEFINE g == insert_ooo_first_seen(h, start, data)
<1>1. /\ g \in Under(e, d, n, fst)
      /\ g.pending_fin = h.pending_fin /\ g.peer_ack = h.peer_ack /\ g.next_abs = h.next_abs
      /\ \A k \in DOMAIN g.ooo :
            \/ k \in DOMAIN h.ooo /\ g.ooo[k] = h.ooo[k]
            \/ start <= k /\ k < start + Len(data)
  BY InsertGoes
<1> HIDE DEF g
<1> DEFINE m == Len(data)
           fin == h.pending_fin
<1>2. m \in Nat /\ start \in Nat /\ fin \in Nat /\ (fin # None => start + m <= fin)
  BY DEF Arrives, Under, Halves, BeforeFin
<1>3. DOMAIN g.ooo \subseteq Nat
  BY <1>1, BufferType DEF Under, Halves
<1>4. g.pending_fin = fin /\ \A k \in DOMAIN g.ooo :
            \/ k \in DOMAIN h.ooo /\ g.ooo[k] = h.ooo[k]
            \/ start <= k /\ k < start + m
  BY <1>1
<1> HIDE DEF m, fin
<1>5. LateFrom(g, h)
  BY <1>2, <1>3, <1>4 DEF LateFrom
<1> QED
  BY <1>1, <1>5 DEF g

(* Storing a segment, from an expected byte or ahead of it, keeps the half *)
(* true and the buffer within its limits.                                  *)
LEMMA StoreGoes ==
    ASSUME NEW e \in Nat, NEW d \in Int, NEW n \in Nat, NEW was \in Seen, NEW fst \in Seen,
           NEW h \in Under(e, d, n, was), ~h.fin_consumed, ~OverLimit(h),
           NEW start, NEW data, NEW v, Taken(h, start, data, d, v, was, fst)
    PROVE  LET g == Store(h, start, data)
           IN  /\ g \in Under(e, d, n, fst) /\ ~OverLimit(g)
               /\ g.next_abs >= h.next_abs
<1> DEFINE m == Len(data)
           nx == h.next_abs
           fin == h.pending_fin
<1>1. /\ start \in Nat /\ v \in Versions /\ data \in Seq(Octets) /\ m > 0
      /\ DataTrue(data, start, d, v) /\ start + m > nx /\ (fin # None => start + m <= fin)
  BY DEF Taken
<1>2. PICK lo \in {start, nx} : /\ lo >= start /\ lo >= nx
                                /\ Learned(was, fst, lo + d, start + m + d, v)
  BY DEF Taken
<1>3. nx \in Nat /\ fin \in Nat /\ m \in Nat
  BY <1>1 DEF Under, Halves
<1>4. m = Len(data) /\ nx = h.next_abs /\ fin = h.pending_fin
  OBVIOUS
<1> HIDE DEF m, nx, fin
<1>5. CASE start > nx
  <2>1. lo = start
    BY <1>1, <1>2, <1>3, <1>5
  <2>2. Arrives(start, data, h.next_abs, d, v, was, fst)
    BY <1>1, <1>2, <1>3, <1>4, <1>5, <2>1 DEF Arrives
  <2> DEFINE f == insert_ooo_first_seen(h, start, data)
  <2>3. /\ f \in Under(e, d, n, fst) /\ LateFrom(f, h)
        /\ f.pending_fin = h.pending_fin /\ f.next_abs = h.next_abs
    <3>1. BeforeFin(h, start, data)
      BY <1>1, <1>4 DEF BeforeFin
    <3>3. LET g == insert_ooo_first_seen(h, start, data)
         IN  /\ g \in Under(e, d, n, fst) /\ LateFrom(g, h)
             /\ g.pending_fin = h.pending_fin /\ g.next_abs = h.next_abs
      BY ONLY <2>2, <3>1, InsertLate, e \in Nat, d \in Int, n \in Nat, was \in Seen, fst \in Seen,
              h \in Under(e, d, n, was), ~h.fin_consumed
    <3> QED
      BY <3>3
  <2>4. Store(h, start, data) = recover_ooo_pressure(recover_known_ack(f))
    BY <1>4, <1>5 DEF Store
  <2> HIDE DEF f
  <2> DEFINE g == recover_ooo_pressure(recover_known_ack(f))
  <2>5. g \in Under(e, d, n, fst) /\ Onward(f, g) /\ ~OverLimit(g)
    BY <2>3, PressedGoes
  <2> HIDE DEF g
  <2>6. g.next_abs >= h.next_abs
    BY <2>3, <2>5 DEF Onward
  <2> QED
    BY <2>4, <2>5, <2>6 DEF g
<1>6. CASE ~(start > nx)
  <2>1. lo = nx
    BY <1>1, <1>2, <1>3, <1>6
  <2> DEFINE skip == Skipped(nx - start, m)
             tail == SubSeq(data, skip + 1, m)
  <2>2. skip = nx - start /\ skip \in Nat /\ skip + 1 <= m /\ start + skip = nx
    BY <1>1, <1>3, <1>6 DEF Skipped
  <2>s. skip = Skipped(nx - start, m)
    OBVIOUS
  <2> HIDE DEF skip
  <2>3. /\ tail \in Seq(Octets) /\ Len(tail) = m - (skip + 1) + 1
        /\ \A i \in 1 .. m - (skip + 1) + 1 : tail[i] = data[skip + 1 + i - 1]
    <3>1. skip + 1 \in Nat /\ m \in Nat /\ 1 <= skip + 1 /\ skip + 1 <= m
      BY <1>3, <2>2
    <3>2. m <= Len(data)
      BY <1>3, <1>4
    <3> QED
      BY ONLY <1>1, <3>1, <3>2, PartOfSequence, Zenon DEF tail
  <2>t. tail = SubSeq(data, skip + 1, Len(data))
    BY <1>4
  <2> HIDE DEF tail
  <2> DEFINE z == Len(tail)
  <2>4. z = m - skip /\ z \in Nat /\ z > 0 /\ nx + z = start + m
    BY <1>1, <1>3, <2>2, <2>3
  <2>z. z = Len(tail)
    OBVIOUS
  <2> HIDE DEF z
  <2>5. DataTrue(tail, nx, d, v)
    <3> SUFFICES ASSUME NEW i \in 1 .. z
                 PROVE  nx + i - 1 + d \in Positions /\ tail[i] = <<nx + i - 1 + d, v>>
      BY <2>z DEF DataTrue
    <3> DEFINE j == skip + i
    <3>1. j \in 1 .. m /\ start + j - 1 + d = nx + i - 1 + d /\ j = skip + 1 + i - 1
          /\ i \in 1 .. m - (skip + 1) + 1
      BY <1>1, <1>3, <2>2, <2>4
    <3> HIDE DEF j
    <3>2. tail[i] = data[j]
      BY <2>3, <3>1
    <3>3. start + j - 1 + d \in Positions /\ data[j] = <<start + j - 1 + d, v>>
      BY <1>1, <1>4, <3>1 DEF DataTrue
    <3> QED
      BY <3>1, <3>2, <3>3
  <2>6. Arrives(nx, tail, nx, d, v, was, fst)
    <3>1. Learned(was, fst, nx + d, nx + z + d, v)
      BY <1>2, <2>1, <2>4
    <3> QED
      BY <1>1, <1>3, <2>3, <2>4, <2>5, <2>z, <3>1 DEF Arrives
  <2>7. CASE Empty(h)
    <3> DEFINE g == emit(h, tail)
    <3>1. g \in Under(e, d, n, fst) /\ Onward(h, g)
      BY <1>4, <2>6, <2>7, DirectGoes
    <3>2. Store(h, start, data) = g
      BY <1>4, <1>6, <2>7, <2>s, <2>t DEF Store
    <3> HIDE DEF g
    <3>3. DOMAIN g.ooo = {} /\ g.next_abs >= h.next_abs
      BY <2>7, <3>1 DEF Onward, Empty
    <3>4. ~OverLimit(g)
      BY <3>3, EmptyWithinLimits
    <3> QED
      BY <3>1, <3>2, <3>3, <3>4
  <2>8. CASE ~Empty(h)
    <3> DEFINE f == insert_ooo_first_seen(h, nx, tail)
               x == flush_ooo(f)
               g == recover_ooo_pressure(recover_known_ack(x))
    <3>1. Store(h, start, data) = g
      BY <1>4, <1>6, <2>8, <2>s, <2>t, <2>2 DEF Store
    <3>2. /\ f \in Under(e, d, n, fst) /\ LateFrom(f, h)
          /\ f.pending_fin = h.pending_fin /\ f.next_abs = h.next_abs
      <4>1. BeforeFin(h, nx, tail)
        BY <1>1, <1>4, <2>4, <2>z DEF BeforeFin
      <4>2. Arrives(nx, tail, h.next_abs, d, v, was, fst)
        BY <1>4, <2>6
      <4>3. LET y == insert_ooo_first_seen(h, nx, tail)
            IN  /\ y \in Under(e, d, n, fst) /\ LateFrom(y, h)
                /\ y.pending_fin = h.pending_fin /\ y.next_abs = h.next_abs
        BY ONLY <4>1, <4>2, InsertLate, e \in Nat, d \in Int, n \in Nat, was \in Seen, fst \in Seen,
                h \in Under(e, d, n, was), ~h.fin_consumed
      <4> QED
        BY <4>3
    <3> HIDE DEF f
    <3>3. x \in Under(e, d, n, fst) /\ Onward(f, x)
      BY <3>2, FlushGoes
    <3> HIDE DEF x
    <3>4. LateFrom(x, h)
      BY <3>2, <3>3 DEF Onward, LateFrom
    <3>5. g \in Under(e, d, n, fst) /\ Onward(x, g) /\ ~OverLimit(g)
      BY <3>3, <3>4, PressedGoes
    <3> HIDE DEF g
    <3>6. g.next_abs >= h.next_abs
      <4>1. f \in Halves /\ x \in Halves /\ g \in Halves
        BY <3>2, <3>3, <3>5 DEF Under
      <4>2. Onward(f, g)
        BY <3>3, <3>5, <4>1, OnwardTwice
      <4> QED
        BY <3>2, <4>2 DEF Onward
    <3> QED
      BY <3>1, <3>5, <3>6
  <2> QED
    BY <2>7, <2>8
<1> QED
  BY <1>5, <1>6

-----------------------------------------------------------------------------
(* What accept knows of the FIN once it has seen the segment's end.        *)
Known(h, start, end, fin) ==
    LET marked == IF fin THEN NoteFin(h, start, end) ELSE h
    IN  IF Refuted(marked, end)
        THEN [marked EXCEPT !.pending_fin = None, !.requires_ack = FALSE]
        ELSE marked

(* A FIN that cuts the segment short is ahead of the expected byte, if the *)
(* segment reaches beyond that: one that is reached and not confirmed is   *)
(* refuted instead.                                                        *)
LEMMA KnownGoes ==
    ASSUME NEW e \in Nat, NEW d \in Int, NEW n \in Nat, NEW was \in Seen,
           NEW h \in Under(e, d, n, was), ~h.fin_consumed, FinAhead(h),
           NEW start \in Nat, NEW end \in Nat, end + d <= Top, NEW fin \in BOOLEAN
    PROVE  LET k == Known(h, start, end, fin)
           IN  /\ k \in Under(e, d, n, was)
               /\ k.ooo = h.ooo /\ k.next_abs = h.next_abs /\ ~k.fin_consumed
               /\ end > h.next_abs /\ k.pending_fin # None /\ end > k.pending_fin
                     => k.pending_fin > h.next_abs
<1> DEFINE mk == IF fin THEN NoteFin(h, start, end) ELSE h
           k == Known(h, start, end, fin)
<1>1. h \in Halves /\ Going(h, e, d, n, was)
  BY DEF Under
<1>2. PICK f \in Nat, q \in BOOLEAN : mk = [h EXCEPT !.pending_fin = f, !.requires_ack = q]
                                      /\ (f = end \/ (f = h.pending_fin /\ q = h.requires_ack))
  <2>1. h = [h EXCEPT !.pending_fin = h.pending_fin, !.requires_ack = h.requires_ack]
        /\ h.pending_fin \in Nat /\ h.requires_ack \in BOOLEAN
    BY <1>1 DEF Halves
  <2>2. CASE mk = h
    BY <2>1, <2>2
  <2>3. CASE mk = [h EXCEPT !.pending_fin = end, !.requires_ack = start > h.next_abs]
    <3>1. (start > h.next_abs) \in BOOLEAN
      OBVIOUS
    <3> QED
      BY <2>3, <3>1
  <2>4. CASE mk = [h EXCEPT !.pending_fin = end, !.requires_ack = FALSE]
    BY <2>4
  <2> QED
    BY <2>2, <2>3, <2>4 DEF NoteFin
<1>3. k = IF Refuted(mk, end) THEN [mk EXCEPT !.pending_fin = None, !.requires_ack = FALSE] ELSE mk
  BY DEF Known
<1> HIDE DEF mk, k
<1>4. /\ mk \in Halves /\ mk.pending_fin = f /\ mk.requires_ack = q /\ mk.peer_ack = h.peer_ack
      /\ mk.next_abs = h.next_abs /\ mk.ooo = h.ooo /\ mk.fin_consumed = h.fin_consumed
      /\ mk.out = h.out /\ mk.stream_offset = h.stream_offset
  BY <1>1, <1>2 DEF Halves
<1>5. /\ k \in Halves /\ k.peer_ack = h.peer_ack
      /\ k.next_abs = h.next_abs /\ k.ooo = h.ooo /\ k.fin_consumed = h.fin_consumed
      /\ k.out = h.out /\ k.stream_offset = h.stream_offset
      /\ k.pending_fin = None \/ (~Refuted(mk, end) /\ k.pending_fin = f)
  <2>1. CASE Refuted(mk, end)
    BY <1>3, <1>4, <2>1 DEF Halves, None
  <2>2. CASE ~Refuted(mk, end)
    BY <1>3, <1>4, <2>2
  <2> QED
    BY <2>1, <2>2
<1>6. Within(k, d)
  BY <1>1, <1>2, <1>5 DEF Within, Going
<1>7. Going(k, e, d, n, was)
  BY <1>1, <1>5, <1>6 DEF Going
<1>8. ASSUME end > h.next_abs, k.pending_fin # None, end > k.pending_fin
      PROVE  k.pending_fin > h.next_abs
  <2>1. ~Refuted(mk, end) /\ k.pending_fin = f /\ f # end /\ h.next_abs \in Nat
    BY <1>1, <1>5, <1>8 DEF Halves
  <2>2. f = h.pending_fin /\ q = h.requires_ack
    BY <1>2, <2>1
  <2>3. ~(h.requires_ack /\ ~FinAcked(h))
    BY <1>4, <1>8, <2>1, <2>2 DEF Refuted, FinAcked
  <2> QED
    BY <1>8, <2>1, <2>2, <2>3 DEF FinAhead
<1> QED
  BY <1>5, <1>7, <1>8 DEF Under, k

(* What a FIN leaves of a segment is a part of it that ends before the FIN *)
(* and, if it is not empty, beyond the expected byte.                      *)
LEMMA ClipTaken ==
    ASSUME NEW h, h.next_abs \in Nat, h.pending_fin \in Nat,
           NEW start \in Nat, NEW data \in Seq(Octets), start + Len(data) > h.next_abs,
           h.pending_fin # None /\ start + Len(data) > h.pending_fin => h.pending_fin > h.next_abs
    PROVE  LET c == ClipToFin(h, start, data)
           IN  \/ c = <<>>
               \/ /\ c \in Seq(Octets) /\ Len(c) > 0 /\ Len(c) <= Len(data)
                  /\ \A i \in 1 .. Len(c) : c[i] = data[i]
                  /\ start + Len(c) > h.next_abs /\ BeforeFin(h, start, c)
<1> DEFINE m == Len(data)
           fin == h.pending_fin
           nx == h.next_abs
           c == ClipToFin(h, start, data)
<1>1. m \in Nat /\ fin \in Nat /\ nx \in Nat
  OBVIOUS
<1>2. CASE fin = None \/ start + m <= fin
  <2>1. c = data
    BY <1>2 DEF ClipToFin
  <2>2. CASE m = 0
    <3>1. data = <<>>
      BY <2>2
    <3> QED
      BY <2>1, <3>1
  <2>3. CASE m > 0
    BY <1>1, <1>2, <2>1, <2>3 DEF BeforeFin
  <2> QED
    BY <1>1, <2>2, <2>3
<1>3. CASE ~(fin = None \/ start + m <= fin)
  <2> DEFINE b == fin - start
  <2>1. c = SubSeq(data, 1, b) /\ b \in Int /\ b <= m
    BY <1>1, <1>3 DEF ClipToFin
  <2>2. fin > nx
    BY <1>1, <1>3
  <2>s. start + b = fin /\ fin # None
    BY <1>1, <1>3
  <2>m. m = Len(data) /\ fin = h.pending_fin /\ nx = h.next_abs /\ c = ClipToFin(h, start, data)
    OBVIOUS
  <2> HIDE DEF b, c, m, fin, nx
  <2>3. CASE b < 1
    <3>1. SubSeq(data, 1, b) = <<>>
      BY <2>1, <2>3
    <3> QED
      BY <2>1, <2>m, <3>1
  <2>4. CASE b >= 1
    <3>0. 1 \in Nat /\ b \in Nat /\ 1 <= 1 /\ 1 <= b /\ b <= Len(data)
      BY <2>1, <2>4, <2>m
    <3>1. /\ SubSeq(data, 1, b) \in Seq(Octets) /\ Len(SubSeq(data, 1, b)) = b - 1 + 1
          /\ \A i \in 1 .. b - 1 + 1 : SubSeq(data, 1, b)[i] = data[1 + i - 1]
      BY ONLY data \in Seq(Octets), <3>0, PartOfSequence, Zenon
    <3>2. c \in Seq(Octets) /\ Len(c) = b /\ \A i \in 1 .. b : c[i] = data[i]
      BY <2>1, <3>0, <3>1
    <3>3. start + Len(c) > nx /\ start + Len(c) <= fin /\ Len(c) > 0 /\ Len(c) <= m
      BY <1>1, <2>1, <2>2, <2>s, <3>0, <3>2
    <3> QED
      BY <2>m, <3>2, <3>3 DEF BeforeFin
  <2> QED
    BY <2>1, <2>3, <2>4
<1> QED
  BY <1>2, <1>3

(* After a call: true, with nothing due, no FIN overdue, and within the    *)
(* limits.                                                                 *)
Rests(h, e, d, n, fst) ==
    h \in Under(e, d, n, fst) /\ Settled(h) /\ FinAhead(h) /\ ~OverLimit(h)

(* The end of accept and of acknowledge: the gap timer, then the FIN.      *)
LEMMA CallEnds ==
    ASSUME NEW e \in Nat, NEW d \in Int, NEW n \in Nat, NEW fst \in Seen, e > 0,
           NEW h \in Under(e, d, n, fst), ~OverLimit(h), NEW ts \in 0 .. MaxTs
    PROVE  LET g == consume_fin_if_ready(recover_ooo_timeout(h, ts))
           IN  Rests(g, e, d, n, fst) /\ g.next_abs >= h.next_abs
<1> DEFINE t == recover_ooo_timeout(h, ts)
           g == consume_fin_if_ready(t)
<1>1. t \in Under(e, d, n, fst) /\ Onward(h, t) /\ Settled(t)
  BY TimeoutGoes
<1> HIDE DEF t
<1>2. g \in Under(e, d, n, fst) /\ Onward(t, g) /\ FinAhead(g)
  BY <1>1, ConsumeGoes
<1>3. Settled(g)
  BY <1>1, ConsumeSettled
<1> HIDE DEF g
<1>4. Onward(h, g)
  BY <1>1, <1>2, OnwardTwice DEF Under
<1>5. ~OverLimit(g)
  <2>1. DOMAIN g.ooo \subseteq DOMAIN h.ooo /\ \A k \in DOMAIN g.ooo : g.ooo[k] = h.ooo[k]
    BY <1>4 DEF Onward
  <2> QED
    BY <2>1, PartWithinLimits
<1>6. g.next_abs >= h.next_abs
  BY <1>4 DEF Onward
<1> QED
  BY <1>2, <1>3, <1>5, <1>6 DEF Rests, g, t

(* accept from the data it has taken in on.                                *)
LEMMA AcceptedGoes ==
    ASSUME NEW e \in Nat, NEW d \in Int, NEW n \in Nat, NEW was \in Seen, NEW fst \in Seen, e > 0,
           NEW h \in Under(e, d, n, was), ~h.fin_consumed, ~OverLimit(h),
           NEW start, NEW data, NEW v, NEW ts \in 0 .. MaxTs,
           (data = <<>> /\ fst = was) \/ Taken(h, start, data, d, v, was, fst)
    PROVE  LET stored == IF data = <<>> THEN h ELSE Store(h, start, data)
               acked == IF stored.pending_fin # None /\ ~stored.fin_consumed
                        THEN recover_known_ack(stored) ELSE stored
               g == consume_fin_if_ready(recover_ooo_timeout(acked, ts))
           IN  Rests(g, e, d, n, fst) /\ g.next_abs >= h.next_abs
<1> DEFINE st == IF data = <<>> THEN h ELSE Store(h, start, data)
           ac == IF st.pending_fin # None /\ ~st.fin_consumed
                 THEN recover_known_ack(st) ELSE st
           g == consume_fin_if_ready(recover_ooo_timeout(ac, ts))
<1>1. st \in Under(e, d, n, fst) /\ ~OverLimit(st) /\ st.next_abs >= h.next_abs
  <2>1. CASE data = <<>> /\ fst = was
    <3>1. h.next_abs \in Nat
      BY DEF Under, Halves
    <3> QED
      BY <2>1, <3>1
  <2>2. CASE Taken(h, start, data, d, v, was, fst)
    <3>1. data # <<>>
      BY <2>2 DEF Taken
    <3>2. LET x == Store(h, start, data)
          IN  x \in Under(e, d, n, fst) /\ ~OverLimit(x) /\ x.next_abs >= h.next_abs
      BY ONLY <2>2, StoreGoes, e \in Nat, d \in Int, n \in Nat, was \in Seen, fst \in Seen,
              h \in Under(e, d, n, was), ~h.fin_consumed, ~OverLimit(h), Zenon
    <3> QED
      BY <3>1, <3>2
  <2> QED
    BY <2>1, <2>2
<1> HIDE DEF st
<1>2. ac \in Under(e, d, n, fst) /\ Onward(st, ac)
  <2>1. LET x == recover_known_ack(st) IN x \in Under(e, d, n, fst) /\ Onward(st, x)
    BY <1>1, RecoverAckGoes
  <2>2. st \in Halves /\ Onward(st, st)
    BY <1>1, OnwardSame DEF Under
  <2> QED
    BY <1>1, <2>1, <2>2
<1> HIDE DEF ac
<1>3. ~OverLimit(ac)
  <2>1. DOMAIN ac.ooo \subseteq DOMAIN st.ooo /\ \A k \in DOMAIN ac.ooo : ac.ooo[k] = st.ooo[k]
    BY <1>2 DEF Onward
  <2> QED
    BY <1>1, <2>1, PartWithinLimits
<1>4. Rests(g, e, d, n, fst) /\ g.next_abs >= ac.next_abs
  BY <1>2, <1>3, CallEnds
<1> HIDE DEF g
<1>5. g.next_abs >= h.next_abs
  <2>1. ac.next_abs >= st.next_abs
    BY <1>2 DEF Onward
  <2>2. g.next_abs \in Nat /\ ac.next_abs \in Nat /\ st.next_abs \in Nat /\ h.next_abs \in Nat
    BY <1>1, <1>2, <1>4 DEF Rests, Under, Halves
  <2> QED
    BY <1>1, <1>4, <2>1, <2>2
<1> QED
  BY <1>4, <1>5 DEF g, ac, st

-----------------------------------------------------------------------------
(* A remainder is what is left when a multiple is taken away.              *)
LEMMA Remainder ==
    ASSUME NEW c \in Int, NEW x \in Int, NEW k \in Int, x = k + SeqSpace * c
    PROVE  /\ 0 <= k /\ k < SeqSpace => x % SeqSpace = k
           /\ -SeqSpace <= k /\ k < 0 => x % SeqSpace = k + SeqSpace
<1>1. SeqSpace \in Nat /\ SeqSpace > 0
  BY Numbers
<1>2. ASSUME NEW y \in Int, NEW q \in Int, NEW r \in Int, y = SeqSpace * q + r, 0 <= r, r < SeqSpace
      PROVE  y % SeqSpace = r
  BY <1>1, <1>2
<1>3. ASSUME 0 <= k, k < SeqSpace PROVE x % SeqSpace = k
  BY <1>1, <1>2, <1>3
<1>4. ASSUME -SeqSpace <= k, k < 0 PROVE x % SeqSpace = k + SeqSpace
  <2> DEFINE q == c - 1
             r == k + SeqSpace
  <2>1. x = SeqSpace * q + r /\ q \in Int /\ r \in Int /\ 0 <= r /\ r < SeqSpace
    BY <1>1, <1>4
  <2> HIDE DEF q, r
  <2>2. x % SeqSpace = r
    BY <1>2, <2>1
  <2> QED
    BY <2>2 DEF r
<1> QED
  BY <1>3, <1>4

(* A number is its remainder and a multiple of the sequence space.         *)
LEMMA Multiple ==
    ASSUME NEW x \in Int
    PROVE  /\ x % SeqSpace \in Int /\ 0 <= x % SeqSpace /\ x % SeqSpace < SeqSpace
           /\ \E c \in Int : x = (x % SeqSpace) + SeqSpace * c
<1>1. SeqSpace \in Nat /\ SeqSpace > 0
  BY Numbers
<1>2. x % SeqSpace \in Int /\ 0 <= x % SeqSpace /\ x % SeqSpace < SeqSpace
  BY <1>1
<1>3. x = SeqSpace * (x \div SeqSpace) + (x % SeqSpace) /\ x \div SeqSpace \in Int
  BY <1>1
<1> QED
  BY <1>1, <1>2, <1>3

(* The coordinate of a direction differs from the true position by a       *)
(* multiple of the sequence space.                                         *)
LEMMA EpochShift ==
    ASSUME NEW b \in Positions
    PROVE  /\ Epoch(b) \in Nat /\ Epoch(b) >= SeqSpace
           /\ \E c \in Int : b - Epoch(b) = SeqSpace * c
<1>1. b \in Int /\ SeqSpace \in Nat /\ SeqSpace > 0
  BY Numbers
<1>2. b % SeqSpace \in Int /\ 0 <= b % SeqSpace
  BY <1>1, Multiple
<1>3. PICK c \in Int : b = (b % SeqSpace) + SeqSpace * c
  BY <1>1, Multiple
<1> DEFINE r == b % SeqSpace
<1>4. Epoch(b) = SeqSpace + r /\ r \in Int /\ 0 <= r /\ b = r + SeqSpace * c
  BY <1>2, <1>3 DEF Epoch
<1> HIDE DEF r
<1>5. b - Epoch(b) = SeqSpace * (c - 1) /\ c - 1 \in Int
  BY <1>1, <1>4
<1>6. Epoch(b) \in Nat /\ Epoch(b) >= SeqSpace
  BY <1>1, <1>4
<1> QED
  BY <1>5, <1>6

(* extend_seq finds the position that was sent: the wire carries it modulo *)
(* the sequence space, and what is expected is less than half of that away.*)
LEMMA ExtendExact ==
    ASSUME NEW d \in Int, NEW c \in Int, d = SeqSpace * c, NEW ref \in Nat,
           NEW pos \in Int, NEW seq \in Int, NEW a \in Int, seq = pos + SeqSpace * a,
           pos - (ref + d) <= StreamLen + 1, ref + d - pos <= StreamLen + 1
    PROVE  extend_seq(seq, ref) = pos - d
<1> DEFINE k == pos - (ref + d)
           x == seq - ref
           dl == x % SeqSpace
<1>1. SeqSpace \in Nat /\ StreamLen \in Nat /\ 2 * (StreamLen + 2) < SeqSpace
  BY Numbers
<1>2. x = k + SeqSpace * (a + c) /\ a + c \in Int /\ x \in Int /\ k \in Int
  BY <1>1
<1>3. k <= StreamLen + 1 /\ -k <= StreamLen + 1 /\ pos - d = ref + k
  BY <1>1
<1>h. (SeqSpace \div 2) \in Int /\ 2 * (SeqSpace \div 2) <= SeqSpace /\ SeqSpace < 2 * (SeqSpace \div 2) + 2
  BY <1>1
<1>4. extend_seq(seq, ref) = IF dl < SeqSpace \div 2 THEN ref + dl ELSE ref - (SeqSpace - dl)
  BY DEF extend_seq
<1>5. /\ 0 <= k /\ k < SeqSpace => dl = k
      /\ -SeqSpace <= k /\ k < 0 => dl = k + SeqSpace
  <2> HIDE DEF k, x
  <2> DEFINE ac == a + c
  <2>1. ac \in Int /\ x = k + SeqSpace * ac
    BY <1>2
  <2> HIDE DEF ac
  <2> QED
    BY <1>2, <2>1, Remainder
<1> DEFINE hf == SeqSpace \div 2
<1>6. extend_seq(seq, ref) = IF dl < hf THEN ref + dl ELSE ref - (SeqSpace - dl)
  BY <1>4
<1>7. hf \in Int /\ 2 * hf <= SeqSpace /\ SeqSpace < 2 * hf + 2
  BY <1>h
<1> HIDE DEF hf, dl, k, x
<1>8. CASE k >= 0
  <2>1. dl = k /\ dl < hf
    BY <1>1, <1>2, <1>3, <1>5, <1>7, <1>8
  <2> QED
    BY <1>3, <1>6, <2>1
<1>9. CASE k < 0
  <2>1. dl = k + SeqSpace /\ ~(dl < hf)
    BY <1>1, <1>2, <1>3, <1>5, <1>7, <1>9
  <2> QED
    BY <1>1, <1>2, <1>3, <1>6, <2>1
<1> QED
  BY <1>2, <1>8, <1>9

(* The sequence number of a packet, and the one after it.                  *)
LEMMA WireIs ==
    ASSUME NEW pos \in Nat, pos > 0
    PROVE  /\ wire(pos) \in Int /\ \E a \in Int : wire(pos) = pos + SeqSpace * a
           /\ wire(pos - 1) + 1 \in Int /\ \E a \in Int : wire(pos - 1) + 1 = pos + SeqSpace * a
<1>1. ASSUME NEW y \in Int PROVE wire(y) \in Int /\ \E a \in Int : wire(y) = y + SeqSpace * a
  <2>1. PICK c \in Int : y = (y % SeqSpace) + SeqSpace * c
    BY Multiple
  <2> DEFINE r == y % SeqSpace
  <2>2. r \in Int /\ y = r + SeqSpace * c /\ wire(y) = r
    BY <2>1, Multiple DEF wire
  <2> HIDE DEF r
  <2>3. r = y + SeqSpace * (-c) /\ -c \in Int
    BY <2>2, Numbers
  <2> QED
    BY <2>2, <2>3
<1>2. PICK a \in Int : wire(pos - 1) = pos - 1 + SeqSpace * a
  BY <1>1
<1>3. wire(pos - 1) + 1 = pos + SeqSpace * a /\ wire(pos - 1) + 1 \in Int
  BY <1>1, <1>2, Numbers
<1> QED
  BY <1>1, <1>3

(* The first packet of a direction is where it starts counting.            *)
LEMMA EpochOfWire ==
    ASSUME NEW pos \in Nat, NEW seq \in Int, NEW a \in Int, seq = pos + SeqSpace * a
    PROVE  Epoch(seq) = Epoch(pos)
<1>1. PICK c \in Int : pos = (pos % SeqSpace) + SeqSpace * c
  BY Multiple
<1> DEFINE r == pos % SeqSpace
<1>2. r \in Int /\ 0 <= r /\ r < SeqSpace /\ pos = r + SeqSpace * c /\ Epoch(pos) = SeqSpace + r
  BY <1>1, Multiple DEF Epoch
<1> HIDE DEF r
<1> DEFINE ca == c + a
<1>3. seq = r + SeqSpace * ca /\ ca \in Int
  BY <1>2, Numbers
<1> HIDE DEF ca
<1>4. seq % SeqSpace = r
  BY <1>2, <1>3, Remainder
<1> QED
  BY <1>2, <1>4 DEF Epoch

-----------------------------------------------------------------------------
(* No byte has been taken in.                                              *)
Unseen(fst) == \A p \in Positions : fst[p] = None

(* The coordinate of the first byte of the stream.                         *)
Origin(b) == IF b = None THEN 0 ELSE Epoch(b)

(* The inductive invariant, of half h, stream st, base b and what is seen, *)
(* fst: all that was handed on is true, the half rests, and before the     *)
(* first packet nothing is known.                                          *)
StateTrue(h, st, b, fst, cl) ==
    /\ fst \in Seen /\ cl \in BOOLEAN /\ b \in Positions \cup {None}
    /\ st \in Seq(Items) /\ ItemsTrue(st, b, 0, fst)
    /\ h.out = <<>> /\ Rests(h, Origin(b), b - Origin(b), Len(st), fst)
    /\ b = None => /\ Unseen(fst)
                   /\ cl \/ (h = NewHalf /\ st = <<>>)
    /\ b # None => h.next_abs >= Epoch(b)

Inv == StateTrue(half, stream, base, first, closed) /\ now \in 0 .. MaxTs

(* The outcome of a call goes to the stream.                               *)
LEMMA ReturnTrue ==
    ASSUME NEW e \in Nat, NEW d \in Int, NEW fst \in Seen, NEW st \in Seq(Items),
           NEW g, Rests(g, e, d, Len(st), fst), ItemsTrue(st, e + d, 0, fst)
    PROVE  LET h == [g EXCEPT !.out = <<>>]
               s == st \o g.out
           IN  /\ s \in Seq(Items) /\ ItemsTrue(s, e + d, 0, fst)
               /\ h.out = <<>> /\ Rests(h, e, d, Len(s), fst) /\ h.next_abs = g.next_abs
<1> DEFINE h == [g EXCEPT !.out = <<>>]
           o == g.out
           s == st \o o
           n == Len(st)
           m == Len(o)
<1>1. g \in Halves /\ Going(g, e, d, n, fst) /\ Settled(g) /\ FinAhead(g) /\ ~OverLimit(g)
  BY DEF Rests, Under
<1>2. o \in Seq(Items) /\ Counted(o, g.stream_offset, n) /\ ItemsTrue(o, e + d, n, fst)
      /\ g.stream_offset \in Nat
  BY <1>1 DEF Halves, Going
<1>3. /\ h \in Halves /\ h.out = <<>> /\ h.next_abs = g.next_abs /\ h.ooo = g.ooo
      /\ h.stream_offset = g.stream_offset /\ h.pending_fin = g.pending_fin
      /\ h.requires_ack = g.requires_ack /\ h.fin_consumed = g.fin_consumed
      /\ h.peer_ack = g.peer_ack
  <2>1. <<>> \in Seq(Items)
    OBVIOUS
  <2> DEFINE z == <<>>
             x == [g EXCEPT !.out = z]
  <2>2. z \in Seq(Items) /\ h = x /\ z = <<>>
    BY <2>1
  <2> HIDE DEF z, h, o, s
  <2>3. /\ x \in Halves /\ x.out = z /\ x.next_abs = g.next_abs /\ x.ooo = g.ooo
        /\ x.stream_offset = g.stream_offset /\ x.pending_fin = g.pending_fin
        /\ x.requires_ack = g.requires_ack /\ x.fin_consumed = g.fin_consumed
        /\ x.peer_ack = g.peer_ack
    BY <1>1, <2>2 DEF Halves
  <2> QED
    BY <2>2, <2>3
<1>o. s = st \o o /\ o = g.out
  OBVIOUS
<1> HIDE DEF h, o
<1>4. /\ s \in Seq(Items) /\ n \in Nat /\ m \in Nat /\ Len(s) = n + m
      /\ \A i \in 1 .. n : s[i] = st[i]
      /\ \A i \in 1 .. Len(s) : i > n => i - n \in 1 .. m /\ s[i] = o[i - n]
  BY ONLY <1>2, st \in Seq(Items), Joined, Zenon
<1>5. ItemsTrue(s, e + d, 0, fst)
  <2> HIDE DEF s
  <2> SUFFICES ASSUME NEW i \in 1 .. Len(s)
               PROVE  /\ s[i].offset = 0 + i - 1
                      /\ s[i].byte # Lost => s[i].byte[1] = e + d + 0 + i - 1
                      /\ e + d + 0 + i - 1 \in Positions => fst[e + d + 0 + i - 1] = s[i].byte[2]
    BY DEF ItemsTrue
  <2>1. CASE i <= n
    <3>1. i \in 1 .. n /\ s[i] = st[i]
      BY <1>4, <2>1
    <3> QED
      BY <3>1 DEF ItemsTrue
  <2>2. CASE i > n
    <3> DEFINE j == i - n
    <3>1. j \in 1 .. m /\ s[i] = o[j]
      BY <1>4, <2>2
    <3>2. j \in Int /\ n + j - 1 = 0 + i - 1 /\ e + d + n + j - 1 = e + d + 0 + i - 1
      BY <1>4
    <3> HIDE DEF j
    <3>3. /\ o[j].offset = n + j - 1
          /\ o[j].byte # Lost => o[j].byte[1] = e + d + n + j - 1
          /\ e + d + n + j - 1 \in Positions => fst[e + d + n + j - 1] = o[j].byte[2]
      BY <1>2, <3>1 DEF ItemsTrue
    <3> QED
      BY <3>1, <3>2, <3>3
  <2> QED
    BY <1>4, <2>1, <2>2
<1>6. Counted(h.out, h.stream_offset, Len(s)) /\ ItemsTrue(h.out, e + d, Len(s), fst)
  <2>1. g.stream_offset = n + m
    BY <1>2 DEF Counted
  <2>2. Len(<<>>) = 0
    OBVIOUS
  <2> HIDE DEF s, n, m
  <2> QED
    BY <1>3, <1>4, <2>1, <2>2 DEF Counted, ItemsTrue
<1>7. Within(h, d)
  BY <1>1, <1>3 DEF Going, Within
<1>8. Going(h, e, d, Len(s), fst)
  <2> HIDE DEF s
  <2> QED
    BY <1>1, <1>3, <1>6, <1>7 DEF Going
<1>9. Settled(h) /\ FinAhead(h) /\ ~OverLimit(h)
  BY <1>1, <1>3 DEF Settled, FinAhead, FinAcked, OverLimit, BufferedBytes
<1> QED
  BY <1>3, <1>4, <1>5, <1>8, <1>9, <1>o DEF Rests, Under, h

(* A half that has seen nothing.                                           *)
LEMMA NewHalfRests ==
    ASSUME NEW e \in Nat, NEW d \in Int, e + d <= Top + 1, NEW fst \in Seen, Unseen(fst),
           NEW h, h = [NewHalf EXCEPT !.next_abs = e]
    PROVE  Rests(h, e, d, 0, fst) /\ h.next_abs = e /\ ~h.fin_consumed /\ h.out = <<>>
<1>1. /\ h.next_abs = e /\ h.stream_offset = 0 /\ h.ooo = NoSegments /\ h.pending_fin = None
      /\ h.requires_ack = FALSE /\ h.fin_consumed = FALSE /\ h.peer_ack = None
      /\ h.gap_started = None /\ h.out = <<>>
  BY DEF NewHalf
<1>2. h \in Halves
  <2>1. <<>> \in Seq(Items)
    OBVIOUS
  <2> QED
    BY <2>1, NoSegmentsType, Numbers DEF NewHalf, Halves, None
<1>3. Len(<<>>) = 0
  OBVIOUS
<1>4. Counted(h.out, h.stream_offset, 0) /\ ItemsTrue(h.out, e + d, 0, fst)
  BY <1>1, <1>3 DEF Counted, ItemsTrue
<1>5. Within(h, d)
  BY <1>1 DEF Within
<1>6. BufferTrue(h.ooo, h.next_abs, d, fst) /\ BufferWhole(h.ooo, h.next_abs, d, fst)
  BY <1>1, NoSegmentsType DEF BufferTrue, BufferWhole, Unseen
<1>7. Going(h, e, d, 0, fst)
  BY <1>1, <1>4, <1>5, <1>6 DEF Going
<1>8. ~OverLimit(h)
  BY <1>1, NoSegmentsType, EmptyWithinLimits
<1>9. Settled(h) /\ FinAhead(h)
  BY <1>1, NoSegmentsType DEF Settled, FinAhead
<1> QED
  BY <1>1, <1>2, <1>7, <1>8, <1>9 DEF Rests, Under

(* A position of the stream, or the one after its FIN, is found from its   *)
(* sequence number.                                                        *)
LEMMA Placed ==
    ASSUME NEW b \in Positions, NEW ref \in Nat, ref >= Epoch(b), ref + (b - Epoch(b)) <= Top + 1,
           NEW pos \in Isn .. Top + 1, NEW seq \in Int, \E a \in Int : seq = pos + SeqSpace * a
    PROVE  LET x == extend_seq(seq, ref)
           IN  x = pos - (b - Epoch(b)) /\ x \in Nat
<1> DEFINE e == Epoch(b)
           d == b - e
<1>1. PICK c \in Int : d = SeqSpace * c
  BY EpochShift
<1>2. e \in Nat /\ e >= SeqSpace
  BY EpochShift
<1>3. PICK a \in Int : seq = pos + SeqSpace * a
  OBVIOUS
<1>4. /\ b \in Int /\ Isn <= b /\ b < Top /\ pos \in Int /\ Isn <= pos /\ pos <= Top + 1
      /\ Top = Isn + StreamLen /\ Isn \in Nat /\ StreamLen \in Nat
  BY Numbers DEF Top
<1>e. e = Epoch(b)
  OBVIOUS
<1> HIDE DEF e
<1>5. d \in Int /\ ref + d >= b /\ ref + d <= Top + 1
  BY <1>2, <1>4, <1>e
<1>6. pos - (ref + d) <= StreamLen + 1 /\ ref + d - pos <= StreamLen + 1
  BY <1>4, <1>5
<1>d. d = b - e
  OBVIOUS
<1> HIDE DEF d
<1>7. extend_seq(seq, ref) = pos - d
  BY <1>1, <1>3, <1>4, <1>5, <1>6, ExtendExact
<1>8. pos - d \in Nat
  BY <1>2, <1>4, <1>d, Numbers
<1> QED
  BY <1>7, <1>8, <1>d, <1>e

(* The sequence number of a segment at pos.                                *)
SeqNo(pos, syn) == wire(IF syn THEN pos - 1 ELSE pos)

(* The sequence number of its first byte.                                  *)
FirstNo(pos, syn) == SeqNo(pos, syn) + (IF syn THEN 1 ELSE 0)

(* It has the place of the byte, modulo the sequence space.                *)
LEMMA FirstNoIs ==
    ASSUME NEW pos \in Positions, NEW syn \in BOOLEAN
    PROVE  /\ FirstNo(pos, syn) \in Int
           /\ \E a \in Int : FirstNo(pos, syn) = pos + SeqSpace * a
<1>1. pos \in Nat /\ pos > 0
  BY Numbers
<1>2. CASE syn
  <2>1. FirstNo(pos, syn) = wire(pos - 1) + 1
    BY <1>2 DEF FirstNo, SeqNo
  <2> QED
    BY <1>1, <2>1, WireIs
<1>3. CASE ~syn
  <2>1. FirstNo(pos, syn) = wire(pos)
    <3>1. wire(pos) \in Int
      BY <1>1, WireIs
    <3>2. FirstNo(pos, syn) = wire(pos) + 0
      BY <1>3 DEF FirstNo, SeqNo
    <3> QED
      BY <3>1, <3>2
  <2> QED
    BY <1>1, <2>1, WireIs
<1> QED
  BY <1>2, <1>3

(* Where the stream starts when a packet at pos is the next one.           *)
StartsAt(h, b0, pos, b) == b = IF h.next_abs = None THEN pos ELSE b0

(* What a direction knows once it has seen its first packet.               *)
Observed(g, h, st, b0, b, was) ==
    /\ b \in Positions /\ (b0 # None => b = b0)
    /\ Rests(g, Epoch(b), b - Epoch(b), Len(st), was)
    /\ g.next_abs >= Epoch(b) /\ g.out = <<>>
    /\ g.fin_consumed = h.fin_consumed /\ (h.fin_consumed => g = h)

(* observe makes it known.                                                 *)
LEMMA ObservedRests ==
    ASSUME NEW h, NEW st, NEW b0, NEW was, StateTrue(h, st, b0, was, FALSE),
           NEW pos \in Positions, NEW syn \in BOOLEAN,
           NEW b, StartsAt(h, b0, pos, b)
    PROVE  Observed(observe(h, SeqNo(pos, syn), syn), h, st, b0, b, was)
<1> DEFINE g == observe(h, SeqNo(pos, syn), syn)
<1>b. b = IF h.next_abs = None THEN pos ELSE b0
  BY DEF StartsAt
<1>1. /\ was \in Seen /\ b0 \in Positions \cup {None}
      /\ st \in Seq(Items) /\ h.out = <<>> /\ Rests(h, Origin(b0), b0 - Origin(b0), Len(st), was)
      /\ b0 = None => Unseen(was) /\ h = NewHalf /\ st = <<>>
      /\ b0 # None => h.next_abs >= Epoch(b0)
  BY DEF StateTrue
<1>2. CASE b0 = None
  <2>1. h = NewHalf /\ st = <<>> /\ Unseen(was) /\ h.next_abs = None
    BY <1>1, <1>2 DEF NewHalf
  <2>2. b = pos
    BY <1>b, <2>1
  <2>3. g = [h EXCEPT !.next_abs = Epoch(FirstNo(pos, syn))]
    BY <2>1 DEF observe, FirstNo
  <2>4. Epoch(FirstNo(pos, syn)) = Epoch(pos)
    BY FirstNoIs, EpochOfWire, Numbers
  <2>5. g = [NewHalf EXCEPT !.next_abs = Epoch(b)]
    BY <2>1, <2>2, <2>3, <2>4
  <2> HIDE DEF g
  <2> DEFINE e == Epoch(b)
             d == b - Epoch(b)
  <2>6. e \in Nat /\ d \in Int /\ e + d <= Top + 1
    BY <2>2, EpochShift, Numbers
  <2>7. Rests(g, e, d, 0, was) /\ g.next_abs = e /\ ~g.fin_consumed /\ g.out = <<>>
    <3> HIDE DEF e, d
    <3>1. g = [NewHalf EXCEPT !.next_abs = e]
      BY <2>5 DEF e
    <3> QED
      BY <1>1, <2>1, <2>6, <3>1, NewHalfRests
  <2>8. Len(st) = 0
    BY <2>1
  <2>9. ~h.fin_consumed /\ g.next_abs >= Epoch(b)
    BY <2>1, <2>6, <2>7 DEF NewHalf
  <2>10. g.fin_consumed = h.fin_consumed
    BY <2>1, <2>5 DEF NewHalf
  <2> QED
    BY <1>2, <2>2, <2>7, <2>8, <2>9, <2>10 DEF g, Observed
<1>3. CASE b0 # None
  <2>1. b0 \in Positions /\ Origin(b0) = Epoch(b0) /\ h.next_abs >= Epoch(b0)
    BY <1>1, <1>3 DEF Origin
  <2>2. Epoch(b0) \in Nat /\ Epoch(b0) > 0
    BY <2>1, EpochShift, Numbers
  <2>3. h.next_abs \in Nat
    BY <1>1 DEF Rests, Under, Halves
  <2>4. h.next_abs # None
    BY <2>1, <2>2, <2>3 DEF None
  <2>5. g = h /\ b = b0
    BY <1>b, <2>4 DEF observe
  <2> HIDE DEF g
  <2> QED
    BY <1>1, <2>1, <2>5 DEF g, Observed
<1> QED
  BY <1>2, <1>3

(* The data of a segment of len bytes from pos on.                         *)
Sent(pos, len, v) == [i \in 1 .. len |-> <<pos + i - 1, v>>]

(* What is seen with data, when the byte at position at is expected.       *)
SeenWith(was, at, data, v) ==
    [p \in Positions |->
        IF p >= at /\ was[p] = None /\ (\E i \in DOMAIN data : data[i] = <<p, v>>)
        THEN v ELSE was[p]]

(* It is a map of versions.                                                *)
LEMMA SeenWithType ==
    ASSUME NEW was \in Seen, NEW at, NEW data, NEW v \in Versions
    PROVE  SeenWith(was, at, data, v) \in Seen
BY DEF Seen, SeenWith

(* No data, nothing seen.                                                  *)
LEMMA SeenWithNone ==
    ASSUME NEW was \in Seen, NEW at, NEW v
    PROVE  SeenWith(was, at, <<>>, v) = was
<1>1. DOMAIN <<>> = {}
  OBVIOUS
<1>2. was = [p \in Positions |-> was[p]]
  BY DEF Seen
<1> QED
  BY <1>1, <1>2 DEF SeenWith

(* The positions of the data are the ones that are learned.                *)
LEMMA SeenIsLearned ==
    ASSUME NEW was \in Seen, NEW v \in Versions, NEW d \in Int, NEW nx \in Nat, NEW start \in Nat,
           NEW data \in Seq(Octets), DataTrue(data, start, d, v)
    PROVE  \E lo \in {start, nx} :
              /\ lo >= start /\ lo >= nx
              /\ Learned(was, SeenWith(was, nx + d, data, v), lo + d, start + Len(data) + d, v)
<1> DEFINE lo == IF start >= nx THEN start ELSE nx
           m == Len(data)
           fst == SeenWith(was, nx + d, data, v)
<1>1. m \in Nat /\ DOMAIN data = 1 .. m
  OBVIOUS
<1>2. lo \in {start, nx} /\ lo >= start /\ lo >= nx /\ lo \in Nat
      /\ \A p \in Int : p >= lo + d <=> (p >= nx + d /\ p >= start + d)
  OBVIOUS
<1>d. \A i \in 1 .. m : data[i] = <<start + i - 1 + d, v>>
  BY DEF DataTrue
<1>m. m = Len(data)
  OBVIOUS
<1> HIDE DEF m, lo
<1>3. ASSUME NEW p \in Positions
      PROVE  (\E i \in DOMAIN data : data[i] = <<p, v>>) <=> (start + d <= p /\ p < start + m + d)
  <2>1. p \in Int
    BY Numbers
  <2>2. ASSUME NEW i \in DOMAIN data, data[i] = <<p, v>> PROVE start + d <= p /\ p < start + m + d
    <3>1. i \in 1 .. m /\ p = start + i - 1 + d
      BY <1>1, <1>d, <2>2
    <3> QED
      BY <1>1, <3>1
  <2>3. ASSUME start + d <= p, p < start + m + d PROVE \E i \in DOMAIN data : data[i] = <<p, v>>
    <3> DEFINE i == p - d - start + 1
    <3>1. i \in 1 .. m /\ start + i - 1 + d = p
      BY <1>1, <2>1, <2>3
    <3> HIDE DEF i
    <3> QED
      BY <1>1, <1>d, <3>1
  <2> QED
    BY <2>2, <2>3
<1>4. Learned(was, fst, lo + d, start + m + d, v)
  <2> SUFFICES ASSUME NEW p \in Positions
               PROVE  fst[p] = IF was[p] = None /\ lo + d <= p /\ p < start + m + d THEN v ELSE was[p]
    BY DEF Learned
  <2>1. p \in Int
    BY Numbers
  <2>2. fst[p] = IF p >= nx + d /\ was[p] = None /\ (\E i \in DOMAIN data : data[i] = <<p, v>>)
                 THEN v ELSE was[p]
    BY DEF SeenWith
  <2>3. (p >= nx + d /\ start + d <= p /\ p < start + m + d) <=> (lo + d <= p /\ p < start + m + d)
    BY <1>2, <2>1
  <2> HIDE DEF fst
  <2> QED
    BY <1>3, <2>2, <2>3
<1> QED
  BY <1>2, <1>4, <1>m

(* What accept takes in of a segment.                                      *)
LEMMA TakenInIs ==
    ASSUME NEW h, NEW pos, NEW syn, NEW fin, NEW data
    PROVE  LET g == observe(h, SeqNo(pos, syn), syn)
               start == extend_seq(FirstNo(pos, syn), g.next_abs)
               k == Known(g, start, start + Len(data), fin)
           IN  TakenIn(h, SeqNo(pos, syn), syn, fin, data)
                 = [half |-> k, start |-> start, data |-> ClipToFin(k, start, data)]
BY DEF TakenIn, Known, FirstNo

(* A segment that was sent, and may bring something new.                   *)
Arriving(h, b, pos, len, v, syn, fin) ==
    /\ pos \in Positions /\ len \in Nat /\ pos + len <= Top /\ v \in Versions
    /\ syn \in BOOLEAN /\ fin \in BOOLEAN
    /\ LET in == TakenIn(h, SeqNo(pos, syn), syn, fin, Sent(pos, len, v))
       IN  len = 0 \/ pos + len > TruePos(b, in.half.next_abs)

(* What accept takes in of it is what the positions of its bytes say.      *)
LEMMA TakenTrue ==
    ASSUME NEW h, NEW st, NEW b0, NEW was, StateTrue(h, st, b0, was, FALSE), ~h.fin_consumed,
           NEW pos, NEW len, NEW v, NEW syn, NEW fin,
           NEW b, StartsAt(h, b0, pos, b), Arriving(h, b, pos, len, v, syn, fin)
    PROVE  LET in == TakenIn(h, SeqNo(pos, syn), syn, fin, Sent(pos, len, v))
               at == TruePos(b, in.half.next_abs)
               fst == SeenWith(was, at, in.data, v)
               e == Epoch(b)
               d == b - Epoch(b)
           IN  /\ in.half \in Under(e, d, Len(st), was) /\ ~in.half.fin_consumed /\ ~OverLimit(in.half)
               /\ in.half.next_abs >= e /\ fst \in Seen /\ at = in.half.next_abs + d
               /\ (in.data = <<>> /\ fst = was) \/ Taken(in.half, in.start, in.data, d, v, was, fst)
<1> DEFINE data == Sent(pos, len, v)
           in == TakenIn(h, SeqNo(pos, syn), syn, fin, data)
           e == Epoch(b)
           d == b - Epoch(b)
           n == Len(st)
           g == observe(h, SeqNo(pos, syn), syn)
           start == extend_seq(FirstNo(pos, syn), g.next_abs)
           k == Known(g, start, start + Len(data), fin)
           c == ClipToFin(k, start, data)
           at == TruePos(b, in.half.next_abs)
           fst == SeenWith(was, at, in.data, v)
<1>1. /\ pos \in Positions /\ len \in Nat /\ pos + len <= Top /\ v \in Versions
      /\ syn \in BOOLEAN /\ fin \in BOOLEAN
      /\ len = 0 \/ pos + len > TruePos(b, in.half.next_abs)
  BY DEF Arriving
<1>2. /\ b \in Positions /\ Rests(g, e, d, n, was) /\ g.next_abs >= e
      /\ g.fin_consumed = h.fin_consumed
  <2>1. pos \in Positions /\ syn \in BOOLEAN
    BY <1>1
  <2>2. Observed(g, h, st, b0, b, was)
    BY ONLY <2>1, StartsAt(h, b0, pos, b), StateTrue(h, st, b0, was, FALSE), ObservedRests, Zenon
  <2> QED
    BY <2>2 DEF Observed
<1>3. in = [half |-> k, start |-> start, data |-> c]
  BY TakenInIs
<1>s. was \in Seen /\ st \in Seq(Items)
  BY DEF StateTrue
<1>4. n \in Nat /\ e \in Nat /\ e >= SeqSpace /\ b \in Int
  BY <1>2, <1>s, EpochShift, Numbers
<1>5. d \in Int /\ pos \in Int /\ Isn <= pos /\ pos < Top /\ Top \in Int
  BY <1>1, <1>4, Numbers
<1> HIDE DEF in, g, data, n
<1>6. /\ g \in Under(e, d, n, was) /\ ~g.fin_consumed /\ FinAhead(g) /\ ~OverLimit(g)
      /\ g.next_abs \in Nat
  BY <1>2 DEF Rests, Under, Halves
<1>7. start = pos - d /\ start \in Nat
  <2>1. g.next_abs + d <= Top + 1
    BY <1>6 DEF Under, Going, Within
  <2>2. FirstNo(pos, syn) \in Int /\ \E a \in Int : FirstNo(pos, syn) = pos + SeqSpace * a
    BY <1>1, FirstNoIs
  <2>3. pos \in Isn .. Top + 1
    BY <1>5, Numbers
  <2> DEFINE nx == g.next_abs
             sq == FirstNo(pos, syn)
  <2>4. nx \in Nat /\ nx >= Epoch(b) /\ nx + (b - Epoch(b)) <= Top + 1
        /\ sq \in Int /\ \E a \in Int : sq = pos + SeqSpace * a
    BY <1>2, <1>6, <2>1, <2>2
  <2>5. start = extend_seq(sq, nx)
    OBVIOUS
  <2> HIDE DEF nx, sq, start
  <2>6. LET x == extend_seq(sq, nx) IN x = pos - (b - Epoch(b)) /\ x \in Nat
    BY ONLY <1>2, <2>3, <2>4, Placed, Zenon
  <2> QED
    BY <2>5, <2>6
<1>8. /\ data \in Seq(Octets) /\ Len(data) = len
      /\ \A i \in 1 .. len : data[i] = <<pos + i - 1, v>>
  <2>1. \A i \in 1 .. len : pos + i - 1 \in Nat /\ v \in Nat
    BY <1>1, <1>5, Numbers, SegmentAssumption
  <2>2. data \in [1 .. len -> Octets]
    BY <2>1 DEF data, Sent, Octets
  <2>3. \A i \in 1 .. len : data[i] = <<pos + i - 1, v>>
    BY DEF data, Sent
  <2> QED
    BY <1>1, <2>2, <2>3
<1> HIDE DEF start, e, d
<1>9. \A i \in 1 .. len : start + i - 1 + d \in Positions /\ data[i] = <<start + i - 1 + d, v>>
  <2> SUFFICES ASSUME NEW i \in 1 .. len
               PROVE  start + i - 1 + d \in Positions /\ data[i] = <<start + i - 1 + d, v>>
    OBVIOUS
  <2>1. start + i - 1 + d = pos + i - 1 /\ pos + i - 1 \in Int /\ Isn <= pos + i - 1 /\ pos + i - 1 < Top
    BY <1>1, <1>5, <1>7, Numbers
  <2>2. pos + i - 1 \in Positions
    BY <2>1, Numbers
  <2> QED
    BY <1>8, <2>1, <2>2
<1> DEFINE end == start + Len(data)
<1>10. end \in Nat /\ end + d <= Top /\ end = start + len /\ end + d = pos + len
  BY <1>1, <1>5, <1>7, <1>8
<1>11. k = Known(g, start, end, fin)
  OBVIOUS
<1> HIDE DEF end, k
<1>12. /\ k \in Under(e, d, n, was)
       /\ k.ooo = g.ooo /\ k.next_abs = g.next_abs /\ ~k.fin_consumed
       /\ end > g.next_abs /\ k.pending_fin # None /\ end > k.pending_fin
             => k.pending_fin > g.next_abs
  <2>1. LET x == Known(g, start, end, fin)
        IN  /\ x \in Under(e, d, n, was)
            /\ x.ooo = g.ooo /\ x.next_abs = g.next_abs /\ ~x.fin_consumed
            /\ end > g.next_abs /\ x.pending_fin # None /\ end > x.pending_fin
                  => x.pending_fin > g.next_abs
    <3>1. e \in Nat /\ d \in Int /\ n \in Nat /\ start \in Nat /\ end \in Nat /\ fin \in BOOLEAN
      BY <1>1, <1>4, <1>5, <1>7, <1>10
    <3>2. end + d <= Top
      BY <1>10
    <3> QED
      BY ONLY <1>6, <1>s, <3>1, <3>2, KnownGoes
  <2> QED
    BY <1>11, <2>1
<1>13. in.half = k /\ in.start = start /\ in.data = c
  BY <1>3
<1>14. ~OverLimit(k)
  BY <1>6, <1>12 DEF OverLimit, BufferedBytes
<1>15. at = k.next_abs + d /\ k.next_abs \in Nat /\ k.pending_fin \in Nat
  <2>1. k.next_abs \in Nat /\ k.pending_fin \in Nat
    BY <1>12 DEF Under, Halves
  <2>2. at = b + (k.next_abs - e)
    BY <1>13 DEF TruePos, e
  <2> QED
    BY <1>4, <2>1, <2>2 DEF d, e
<1>16. k.next_abs >= e
  BY <1>2, <1>12
<1>17. fst \in Seen
  BY <1>1, <1>s, SeenWithType
<1>18. (c = <<>> /\ fst = was) \/ Taken(k, start, c, d, v, was, fst)
  <2> DEFINE nx == k.next_abs
             pf == k.pending_fin
  <2>1. CASE c = <<>>
    BY <1>13, <1>s, <2>1, SeenWithNone
  <2>2. CASE c # <<>>
    <3>1. len # 0
      <4> SUFFICES ASSUME len = 0 PROVE c = <<>>
        BY <2>2
      <4>1. data = <<>>
        BY <1>8
      <4>2. CASE k.pending_fin = None \/ start + Len(data) <= k.pending_fin
        BY <4>1, <4>2 DEF ClipToFin
      <4>3. CASE ~(k.pending_fin = None \/ start + Len(data) <= k.pending_fin)
        <5> DEFINE z == k.pending_fin - start
        <5>1. z \in Int /\ z < 1 /\ c = SubSeq(data, 1, z)
          BY <1>7, <1>8, <1>15, <4>3 DEF ClipToFin
        <5> HIDE DEF z
        <5>2. SubSeq(data, 1, z) = <<>>
          BY <1>8, <5>1
        <5> QED
          BY <5>1, <5>2
      <4> QED
        BY <4>2, <4>3
    <3>2. end > nx
      <4>1. pos + len > nx + d /\ nx \in Nat
        BY <1>1, <1>15, <3>1
      <4> HIDE DEF nx
      <4> QED
        BY <1>5, <1>10, <4>1
    <3>3. /\ start + Len(data) > nx
          /\ pf # None /\ start + Len(data) > pf => pf > nx
      BY <1>12, <3>2 DEF end
    <3>4. /\ c \in Seq(Octets) /\ Len(c) > 0 /\ Len(c) <= Len(data)
          /\ \A i \in 1 .. Len(c) : c[i] = data[i]
          /\ start + Len(c) > nx /\ BeforeFin(k, start, c)
      BY <1>7, <1>8, <1>15, <2>2, <3>3, ClipTaken
    <3> HIDE DEF c
    <3>5. DataTrue(c, start, d, v)
      <4> DEFINE z == Len(c)
      <4>1. z \in Nat /\ z <= len /\ \A i \in 1 .. z : c[i] = data[i]
        BY <1>8, <3>4
      <4>z. z = Len(c)
        OBVIOUS
      <4> HIDE DEF z
      <4>2. \A i \in 1 .. z : i \in 1 .. len
        BY <1>1, <4>1
      <4> QED
        BY <1>9, <4>1, <4>2, <4>z DEF DataTrue
    <3>6. \E lo \in {start, nx} :
              /\ lo >= start /\ lo >= nx
              /\ Learned(was, SeenWith(was, nx + d, c, v), lo + d, start + Len(c) + d, v)
      <4> HIDE DEF nx
      <4>1. nx \in Nat /\ d \in Int /\ v \in Versions /\ start \in Nat /\ c \in Seq(Octets)
        BY <1>1, <1>5, <1>7, <1>15, <3>4 DEF nx
      <4> QED
        BY ONLY <1>s, <3>5, <4>1, SeenIsLearned, Zenon
    <3>7. fst = SeenWith(was, nx + d, c, v)
      BY <1>13, <1>15
    <3> QED
      BY <1>1, <1>7, <3>4, <3>5, <3>6, <3>7 DEF Taken, BeforeFin
  <2> QED
    BY <2>1, <2>2
<1> QED
  BY <1>12, <1>13, <1>14, <1>15, <1>16, <1>17, <1>18 DEF in, data, d, e, n

(* The items handed on before, of the same stream.                         *)
LEMMA StreamStays ==
    ASSUME NEW h, NEW st, NEW b0, NEW was, StateTrue(h, st, b0, was, FALSE),
           NEW b \in Positions, b0 # None => b = b0
    PROVE  ItemsTrue(st, b, 0, was)
<1>1. CASE b0 = None
  <2>1. st = <<>>
    BY <1>1 DEF StateTrue
  <2>2. Len(<<>>) = 0
    OBVIOUS
  <2> QED
    BY <2>1, <2>2 DEF ItemsTrue
<1>2. CASE b0 # None
  BY <1>2 DEF StateTrue
<1> QED
  BY <1>1, <1>2

(* A state after a call that has rested, in the stream that starts at b.   *)
LEMMA CallReturns ==
    ASSUME NEW b \in Positions, NEW fst \in Seen, NEW st \in Seq(Items), ItemsTrue(st, b, 0, fst),
           NEW g, Rests(g, Epoch(b), b - Epoch(b), Len(st), fst), g.next_abs >= Epoch(b),
           NEW cl \in BOOLEAN
    PROVE  StateTrue([g EXCEPT !.out = <<>>], st \o g.out, b, fst, cl)
<1> DEFINE e == Epoch(b)
           d == b - e
           h == [g EXCEPT !.out = <<>>]
           s == st \o g.out
<1>1. e \in Nat /\ d \in Int /\ e + d = b /\ b # None
  BY EpochShift, Numbers DEF None
<1>2. Origin(b) = e /\ b - Origin(b) = d
  BY <1>1 DEF Origin
<1>e. e = Epoch(b) /\ Rests(g, e, d, Len(st), fst) /\ ItemsTrue(st, e + d, 0, fst)
  BY <1>1
<1> HIDE DEF e, d
<1>3. /\ s \in Seq(Items) /\ ItemsTrue(s, e + d, 0, fst)
      /\ h.out = <<>> /\ Rests(h, e, d, Len(s), fst) /\ h.next_abs = g.next_abs
  BY <1>1, <1>e, ReturnTrue
<1> HIDE DEF h, s
<1>4. h.next_abs >= Epoch(b)
  BY <1>3
<1>5. StateTrue(h, s, b, fst, cl)
  BY <1>1, <1>2, <1>3, <1>4 DEF StateTrue
<1> QED
  BY <1>5 DEF h, s

(* What is seen after a segment.                                           *)
NowSeen(h, was, b, pos, len, v, syn, fin) ==
    LET in == TakenIn(h, SeqNo(pos, syn), syn, fin, Sent(pos, len, v))
    IN  IF h.fin_consumed THEN was
        ELSE SeenWith(was, TruePos(b, in.half.next_abs), in.data, v)

(* accept keeps the state true.                                            *)
LEMMA AcceptTrue ==
    ASSUME NEW h, NEW st, NEW b0, NEW was, StateTrue(h, st, b0, was, FALSE),
           NEW pos, NEW len, NEW v, NEW syn, NEW fin, NEW ts \in 0 .. MaxTs,
           NEW b, StartsAt(h, b0, pos, b), Arriving(h, b, pos, len, v, syn, fin)
    PROVE  LET a == accept(h, SeqNo(pos, syn), syn, fin, ts, Sent(pos, len, v))
           IN  StateTrue([a EXCEPT !.out = <<>>], st \o a.out, b,
                         NowSeen(h, was, b, pos, len, v, syn, fin), FALSE)
<1> DEFINE a == accept(h, SeqNo(pos, syn), syn, fin, ts, Sent(pos, len, v))
           in == TakenIn(h, SeqNo(pos, syn), syn, fin, Sent(pos, len, v))
           at == TruePos(b, in.half.next_abs)
           fst == NowSeen(h, was, b, pos, len, v, syn, fin)
           e == Epoch(b)
           d == b - Epoch(b)
           n == Len(st)
           g == observe(h, SeqNo(pos, syn), syn)
<1>1. pos \in Positions /\ syn \in BOOLEAN /\ was \in Seen /\ st \in Seq(Items)
  BY DEF Arriving, StateTrue
<1>2. /\ b \in Positions /\ (b0 # None => b = b0) /\ Rests(g, e, d, n, was)
      /\ g.next_abs >= e /\ (h.fin_consumed => g = h)
  <2>1. Observed(g, h, st, b0, b, was)
    BY ONLY <1>1, StartsAt(h, b0, pos, b), StateTrue(h, st, b0, was, FALSE), ObservedRests, Zenon
  <2> QED
    BY <2>1 DEF Observed
<1>3. ItemsTrue(st, b, 0, was)
  BY <1>2, StreamStays
<1> HIDE DEF g
<1>4. CASE h.fin_consumed
  <2>1. a = h /\ fst = was
    BY <1>4 DEF accept, NowSeen
  <2>2. Rests(h, Epoch(b), b - Epoch(b), Len(st), was) /\ h.next_abs >= Epoch(b)
    BY <1>2, <1>4
  <2>3. StateTrue([h EXCEPT !.out = <<>>], st \o h.out, b, was, FALSE)
    BY ONLY <1>1, <1>2, <1>3, <2>2, CallReturns, FALSE \in BOOLEAN, Zenon
  <2> QED
    BY <2>1, <2>3
<1>5. CASE ~h.fin_consumed
  <2> DEFINE k == in.half
             f == SeenWith(was, at, in.data, v)
  <2>1. /\ k \in Under(e, d, n, was) /\ ~k.fin_consumed /\ ~OverLimit(k)
        /\ k.next_abs >= e /\ f \in Seen /\ at = k.next_abs + d
        /\ (in.data = <<>> /\ f = was) \/ Taken(k, in.start, in.data, d, v, was, f)
    <3>1. LET y == TakenIn(h, SeqNo(pos, syn), syn, fin, Sent(pos, len, v))
              z == TruePos(b, y.half.next_abs)
              x == SeenWith(was, z, y.data, v)
              e1 == Epoch(b)
              d1 == b - Epoch(b)
          IN  /\ y.half \in Under(e1, d1, Len(st), was) /\ ~y.half.fin_consumed /\ ~OverLimit(y.half)
              /\ y.half.next_abs >= e1 /\ x \in Seen /\ z = y.half.next_abs + d1
              /\ (y.data = <<>> /\ x = was) \/ Taken(y.half, y.start, y.data, d1, v, was, x)
      BY ONLY <1>5, StartsAt(h, b0, pos, b), StateTrue(h, st, b0, was, FALSE),
              Arriving(h, b, pos, len, v, syn, fin), TakenTrue
    <3> QED
      BY <3>1
  <2>2. fst = f
    BY <1>5 DEF NowSeen
  <2> DEFINE stored == IF in.data = <<>> THEN k ELSE Store(k, in.start, in.data)
             acked == IF stored.pending_fin # None /\ ~stored.fin_consumed
                      THEN recover_known_ack(stored) ELSE stored
             r == consume_fin_if_ready(recover_ooo_timeout(acked, ts))
  <2>3. a = r
    BY <1>5 DEF accept
  <2>4. e \in Nat /\ e > 0 /\ d \in Int /\ n \in Nat /\ b \in Int /\ e + d = b
    <3>1. b \in Int /\ n \in Nat
      BY <1>1, <1>2, Numbers
    <3>2. e \in Nat /\ e >= SeqSpace
      BY <1>2, EpochShift
    <3> HIDE DEF e
    <3>3. d = b - e
      BY DEF e
    <3> QED
      BY <3>1, <3>2, <3>3, Numbers
  <2> HIDE DEF in, at, a, fst, e, d, n
  <2> HIDE DEF k, f
  <2>5. Rests(r, e, d, n, f) /\ r.next_abs >= k.next_abs
    <3> DEFINE start == in.start
               data == in.data
    <3>1. (data = <<>> /\ f = was) \/ Taken(k, start, data, d, v, was, f)
      BY <2>1
    <3>2. r = LET x == IF data = <<>> THEN k ELSE Store(k, start, data)
                  y == IF x.pending_fin # None /\ ~x.fin_consumed THEN recover_known_ack(x) ELSE x
              IN  consume_fin_if_ready(recover_ooo_timeout(y, ts))
      OBVIOUS
    <3> HIDE DEF start, data, r
    <3>3. LET x == IF data = <<>> THEN k ELSE Store(k, start, data)
              y == IF x.pending_fin # None /\ ~x.fin_consumed THEN recover_known_ack(x) ELSE x
              z == consume_fin_if_ready(recover_ooo_timeout(y, ts))
          IN  Rests(z, e, d, n, f) /\ z.next_abs >= k.next_abs
      BY ONLY <1>1, <2>1, <2>4, <3>1, ts \in 0 .. MaxTs, AcceptedGoes, Zenon
    <3> QED
      BY <3>2, <3>3
  <2> HIDE DEF r
  <2>6. r.next_abs >= e
    <3>1. r.next_abs \in Nat /\ k.next_abs \in Nat
      BY <2>1, <2>5 DEF Rests, Under, Halves
    <3> QED
      BY <2>1, <2>4, <2>5, <3>1
  <2>7. ItemsTrue(st, b, 0, f)
    <3>1. CASE in.data = <<>> /\ f = was
      BY <1>3, <3>1
    <3>2. CASE Taken(k, in.start, in.data, d, v, was, f)
      <4> DEFINE nx == k.next_abs
                 so == k.stream_offset
                 o == k.out
                 hi == in.start + Len(in.data) + d
      <4>1. PICK lo \in {in.start, nx} : lo >= nx /\ Learned(was, f, lo + d, hi, v) /\ lo \in Nat /\ hi \in Int
        <5>1. in.start \in Nat /\ nx \in Nat /\ in.data \in Seq(Octets)
          BY <2>1, <3>2 DEF Taken, Under, Halves
        <5>2. Len(in.data) \in Nat
          BY <5>1
        <5>3. hi \in Int
          BY <2>4, <5>1, <5>2
        <5> QED
          BY <3>2, <5>1, <5>3 DEF Taken
      <4>2. o \in Seq(Items) /\ so \in Nat /\ nx \in Nat /\ so = n + Len(o) /\ nx = e + so
        BY <2>1 DEF Under, Halves, Going, Counted
      <4> HIDE DEF nx, so, o, hi
      <4>3. so >= n
        BY <2>4, <4>2
      <4>4. b + 0 + n <= lo + d /\ lo + d \in Int
        <5>1. lo \in Nat /\ nx \in Nat /\ so \in Nat /\ nx = e + so /\ lo >= nx
          BY <4>1, <4>2
        <5> QED
          BY <2>4, <4>3, <5>1
      <4>5. b + 0 + Len(st) <= lo + d /\ b \in Int /\ 0 \in Nat /\ was \in Seen /\ f \in Seen
        BY <1>1, <2>1, <2>4, <4>4 DEF n
      <4> QED
        BY ONLY <1>1, <1>3, <4>1, <4>4, <4>5, ItemsStay, Zenon
    <3> QED
      BY <2>1, <3>1, <3>2
  <2>8. StateTrue([r EXCEPT !.out = <<>>], st \o r.out, b, f, FALSE)
    <3>1. Rests(r, Epoch(b), b - Epoch(b), Len(st), f) /\ r.next_abs >= Epoch(b)
      BY <2>5, <2>6 DEF e, d, n
    <3> QED
      BY ONLY <1>1, <1>2, <2>1, <2>7, <3>1, CallReturns, FALSE \in BOOLEAN, Zenon
  <2> QED
    BY <2>2, <2>3, <2>8 DEF a, fst
<1> QED
  BY <1>4, <1>5

(* An acknowledged position is noted, and nothing else.                    *)
LEMMA PeerAckGoes ==
    ASSUME NEW e \in Nat, NEW d \in Int, NEW n \in Nat, NEW fst \in Seen,
           NEW h, Rests(h, e, d, n, fst), NEW x \in Nat, x + d <= Top + 1
    PROVE  LET g == [h EXCEPT !.peer_ack = x]
           IN  /\ g \in Under(e, d, n, fst) /\ Settled(g) /\ ~OverLimit(g)
               /\ g.next_abs = h.next_abs /\ g.pending_fin = h.pending_fin
<1> DEFINE g == [h EXCEPT !.peer_ack = x]
<1>1. h \in Halves /\ Going(h, e, d, n, fst) /\ Settled(h) /\ ~OverLimit(h)
  BY DEF Rests, Under
<1>2. /\ g \in Halves /\ g.peer_ack = x /\ g.next_abs = h.next_abs /\ g.ooo = h.ooo
      /\ g.stream_offset = h.stream_offset /\ g.pending_fin = h.pending_fin
      /\ g.fin_consumed = h.fin_consumed /\ g.out = h.out
  BY <1>1 DEF Halves
<1> HIDE DEF g
<1>3. Within(g, d)
  BY <1>1, <1>2 DEF Within, Going
<1>4. Going(g, e, d, n, fst)
  BY <1>1, <1>2, <1>3 DEF Going
<1>5. Settled(g) /\ ~OverLimit(g)
  BY <1>1, <1>2 DEF Settled, OverLimit, BufferedBytes
<1> QED
  BY <1>2, <1>4, <1>5 DEF Under, g

(* acknowledge keeps the state true.                                       *)
LEMMA AcknowledgeTrue ==
    ASSUME NEW h, NEW st, NEW b, NEW fst, StateTrue(h, st, b, fst, FALSE),
           NEW pos \in Isn .. Top + 1, NEW ts \in 0 .. MaxTs
    PROVE  LET a == acknowledge(h, wire(pos), ts)
           IN  StateTrue([a EXCEPT !.out = <<>>], st \o a.out, b, fst, FALSE)
<1> DEFINE a == acknowledge(h, wire(pos), ts)
<1>1. CASE b = None
  <2>1. h = NewHalf /\ st = <<>>
    BY <1>1 DEF StateTrue
  <2>2. a = NewHalf
    BY <2>1 DEF acknowledge, NewHalf
  <2>3. [NewHalf EXCEPT !.out = <<>>] = NewHalf /\ <<>> \o NewHalf.out = <<>>
    <3>1. NewHalf.out = <<>> /\ <<>> \o <<>> = <<>>
      BY DEF NewHalf
    <3>2. h \in Halves
      BY DEF StateTrue, Rests, Under
    <3>3. [h EXCEPT !.out = h.out] = h
      BY <3>2 DEF Halves
    <3> QED
      BY <2>1, <3>1, <3>3
  <2> HIDE DEF a
  <2> QED
    BY <2>1, <2>2, <2>3 DEF a
<1>2. CASE b # None
  <2> DEFINE e == Epoch(b)
             d == b - Epoch(b)
             n == Len(st)
             nx == h.next_abs
             x == extend_seq(wire(pos), nx)
             g == IF x > nx /\ (h.peer_ack = None \/ x > h.peer_ack)
                  THEN [h EXCEPT !.peer_ack = x] ELSE h
  <2>1. /\ b \in Positions /\ fst \in Seen /\ st \in Seq(Items) /\ ItemsTrue(st, b, 0, fst)
        /\ Rests(h, e, d, n, fst) /\ nx >= e
    BY <1>2 DEF StateTrue, Origin
  <2>2. e \in Nat /\ e >= SeqSpace /\ n \in Nat /\ b \in Int
    BY <2>1, EpochShift, Numbers
  <2>3. d \in Int /\ e > 0
    <3> HIDE DEF e
    <3>1. d = b - e
      BY DEF e
    <3> QED
      BY <2>2, <3>1, Numbers
  <2>4. nx \in Nat /\ nx + d <= Top + 1
    BY <2>1 DEF Rests, Under, Halves, Going, Within
  <2>5. x = pos - d /\ x \in Nat
    <3>1. pos \in Nat /\ pos > 0
      BY Numbers
    <3>2. wire(pos) \in Int /\ \E c \in Int : wire(pos) = pos + SeqSpace * c
      BY <3>1, WireIs
    <3>3. nx \in Nat /\ nx >= Epoch(b) /\ nx + (b - Epoch(b)) <= Top + 1
      BY <2>1, <2>4
    <3> HIDE DEF nx
    <3>4. LET y == extend_seq(wire(pos), nx) IN y = pos - (b - Epoch(b)) /\ y \in Nat
      BY ONLY <2>1, <3>2, <3>3, pos \in Isn .. Top + 1, Placed, Zenon
    <3> QED
      BY <3>4
  <2>6. a = IF Empty(g) /\ g.pending_fin = None THEN g
            ELSE consume_fin_if_ready(recover_ooo_timeout(recover_known_ack(g), ts))
    <3>1. h.next_abs # None
      BY <2>1, <2>2, <2>3, <2>4 DEF None
    <3> QED
      BY <3>1 DEF acknowledge
  <2> HIDE DEF a, e, d, n
  <2>7. /\ g \in Under(e, d, n, fst) /\ Settled(g) /\ ~OverLimit(g) /\ g.next_abs = nx
    <3>1. x + d <= Top + 1
      <4> HIDE DEF x
      <4> QED
        BY <2>3, <2>5, Numbers
    <3>2. LET y == [h EXCEPT !.peer_ack = x]
          IN  /\ y \in Under(e, d, n, fst) /\ Settled(y) /\ ~OverLimit(y)
              /\ y.next_abs = h.next_abs /\ y.pending_fin = h.pending_fin
      <4> HIDE DEF x
      <4> QED
        BY <2>1, <2>2, <2>3, <2>5, <3>1, PeerAckGoes
    <3>3. h \in Under(e, d, n, fst) /\ Settled(h) /\ ~OverLimit(h)
      BY <2>1 DEF Rests
    <3> HIDE DEF x
    <3> QED
      BY <3>2, <3>3
  <2> HIDE DEF g
  <2>8. Rests(a, e, d, n, fst) /\ a.next_abs >= nx
    <3>1. CASE Empty(g) /\ g.pending_fin = None
      <4>1. a = g
        BY <2>6, <3>1
      <4>2. FinAhead(g)
        BY <3>1 DEF FinAhead
      <4> QED
        BY <2>4, <2>7, <4>1, <4>2 DEF Rests
    <3>2. CASE ~(Empty(g) /\ g.pending_fin = None)
      <4> DEFINE r == recover_known_ack(g)
                 z == consume_fin_if_ready(recover_ooo_timeout(r, ts))
      <4>1. r \in Under(e, d, n, fst) /\ Onward(g, r)
        BY <2>1, <2>2, <2>3, <2>7, RecoverAckGoes
      <4>2. a = z
        BY <2>6, <3>2
      <4> HIDE DEF r
      <4>3. ~OverLimit(r)
        <5>1. DOMAIN r.ooo \subseteq DOMAIN g.ooo /\ \A k \in DOMAIN r.ooo : r.ooo[k] = g.ooo[k]
          BY <4>1 DEF Onward
        <5> QED
          BY <2>1, <2>2, <2>3, <2>7, <5>1, PartWithinLimits
      <4>4. Rests(z, e, d, n, fst) /\ z.next_abs >= r.next_abs
        BY <2>1, <2>2, <2>3, <4>1, <4>3, CallEnds
      <4> HIDE DEF z
      <4>5. z.next_abs \in Nat /\ r.next_abs \in Nat /\ r.next_abs >= nx
        BY <2>7, <4>1, <4>4 DEF Rests, Under, Halves, Onward
      <4> QED
        BY <2>4, <4>2, <4>4, <4>5
    <3> QED
      BY <3>1, <3>2
  <2>9. Rests(a, Epoch(b), b - Epoch(b), Len(st), fst) /\ a.next_abs >= Epoch(b)
    <3>1. a.next_abs \in Nat
      BY <2>8 DEF Rests, Under, Halves
    <3>2. a.next_abs >= e
      BY <2>1, <2>2, <2>4, <2>8, <3>1
    <3> QED
      BY <2>8, <3>2 DEF e, d, n
  <2>10. StateTrue([a EXCEPT !.out = <<>>], st \o a.out, b, fst, FALSE)
    BY ONLY <2>1, <2>9, CallReturns, FALSE \in BOOLEAN, Zenon
  <2> QED
    BY <2>10 DEF a
<1> QED
  BY <1>1, <1>2

(* finalize keeps the state true.                                          *)
LEMMA FinalizeTrue ==
    ASSUME NEW h, NEW st, NEW b, NEW fst, StateTrue(h, st, b, fst, FALSE)
    PROVE  LET a == finalize(h)
           IN  StateTrue([a EXCEPT !.out = <<>>], st \o a.out, b, fst, TRUE)
<1> DEFINE a == finalize(h)
           e == Origin(b)
           d == b - e
           n == Len(st)
           z == [a EXCEPT !.out = <<>>]
           s == st \o a.out
<1>1. /\ b \in Positions \cup {None} /\ fst \in Seen /\ st \in Seq(Items) /\ ItemsTrue(st, b, 0, fst)
      /\ Rests(h, e, d, n, fst) /\ (b = None => Unseen(fst)) /\ (b # None => h.next_abs >= Epoch(b))
  BY DEF StateTrue
<1>2. b \in Int /\ e \in Nat /\ n \in Nat
  <2>1. b \in Int /\ n \in Nat
    BY <1>1, Numbers DEF None
  <2>2. e \in Nat
    BY <1>1, EpochShift DEF Origin
  <2> QED
    BY <2>1, <2>2
<1>e. e = Origin(b) /\ (b # None => e = Epoch(b))
  BY DEF Origin
<1> HIDE DEF e
<1>3. d \in Int /\ e + d = b
  BY <1>2
<1>d. d = b - Origin(b)
  BY <1>e
<1> HIDE DEF d
<1>4. h \in Under(e, d, n, fst) /\ Settled(h) /\ ~OverLimit(h)
  BY <1>1 DEF Rests
<1>5. a \in Under(e, d, n, fst) /\ Onward(h, a) /\ Settled(a) /\ FinAhead(a)
  BY <1>1, <1>2, <1>3, <1>4, FinalizeGoes
<1>o. z = [a EXCEPT !.out = <<>>] /\ s = st \o a.out /\ n = Len(st)
  OBVIOUS
<1> HIDE DEF a
<1>6. ~OverLimit(a)
  <2>1. DOMAIN a.ooo \subseteq DOMAIN h.ooo /\ \A k \in DOMAIN a.ooo : a.ooo[k] = h.ooo[k]
    BY <1>5 DEF Onward
  <2> QED
    BY <1>1, <1>2, <1>3, <1>4, <2>1, PartWithinLimits
<1>7. Rests(a, e, d, Len(st), fst) /\ ItemsTrue(st, e + d, 0, fst)
  BY <1>1, <1>3, <1>5, <1>6 DEF Rests
<1>8. /\ s \in Seq(Items) /\ ItemsTrue(s, e + d, 0, fst)
      /\ z.out = <<>> /\ Rests(z, e, d, Len(s), fst) /\ z.next_abs = a.next_abs
  BY <1>1, <1>2, <1>3, <1>7, ReturnTrue
<1> HIDE DEF z, s
<1>9. b # None => z.next_abs >= Epoch(b)
  <2> SUFFICES ASSUME b # None PROVE z.next_abs >= Epoch(b)
    OBVIOUS
  <2>1. h.next_abs >= e /\ a.next_abs >= h.next_abs
    BY <1>1, <1>e, <1>5 DEF Onward
  <2>2. h.next_abs \in Nat /\ a.next_abs \in Nat
    BY <1>4, <1>5 DEF Under, Halves
  <2> QED
    BY <1>2, <1>e, <1>8, <2>1, <2>2
<1>10. StateTrue(z, s, b, fst, TRUE)
  BY <1>1, <1>3, <1>8, <1>9, <1>d, <1>e DEF StateTrue
<1> QED
  BY <1>10, <1>o DEF a

-----------------------------------------------------------------------------
(* Before the first packet.                                                *)
LEMMA InitTrue == ASSUME Init PROVE Inv
<1>1. /\ half = NewHalf /\ stream = <<>> /\ base = None
      /\ first = [p \in Positions |-> None] /\ now = 1 /\ closed = FALSE
  BY DEF Init
<1>2. first \in Seen /\ Unseen(first)
  BY <1>1 DEF Seen, Unseen
<1> DEFINE h == [NewHalf EXCEPT !.next_abs = 0]
<1>3. 0 \in Nat /\ 0 \in Int /\ 0 + 0 <= Top + 1
  BY Numbers
<1>4. Rests(h, 0, 0, 0, first) /\ h.out = <<>>
  BY <1>2, <1>3, NewHalfRests
<1>5. h = NewHalf
  <2>1. h \in Halves
    BY <1>4 DEF Rests, Under
  <2>2. NewHalf \in Halves
    <3>1. <<>> \in Seq(Items)
      OBVIOUS
    <3> QED
      BY <3>1, NoSegmentsType, Numbers DEF NewHalf, Halves, None
  <2>3. NewHalf.next_abs = 0
    BY DEF NewHalf, None
  <2> HIDE DEF h
  <2>4. [NewHalf EXCEPT !.next_abs = NewHalf.next_abs] = NewHalf
    <3> DEFINE x == NewHalf
    <3>1. x \in Halves
      BY <2>2
    <3> HIDE DEF x
    <3>2. [x EXCEPT !.next_abs = x.next_abs] = x
      BY <3>1 DEF Halves
    <3> QED
      BY <3>2 DEF x
  <2> QED
    BY <2>3, <2>4 DEF h
<1> HIDE DEF h
<1>6. Origin(None) = 0 /\ None - 0 = 0 /\ Len(<<>>) = 0 /\ <<>> \in Seq(Items)
  BY DEF Origin, None
<1>7. ItemsTrue(<<>>, None, 0, first)
  BY <1>6 DEF ItemsTrue
<1>8. StateTrue(NewHalf, <<>>, None, first, FALSE)
  BY <1>2, <1>4, <1>5, <1>6, <1>7 DEF StateTrue
<1>9. now \in 0 .. MaxTs
  BY <1>1, ClockAssumption
<1> QED
  BY <1>1, <1>8, <1>9 DEF Inv

(* What first becomes when in is taken in.                                 *)
FirstAfter(h, was, b, in, v) ==
    [p \in Positions |->
        IF /\ ~h.fin_consumed
           /\ p >= TruePos(b, in.half.next_abs)
           /\ was[p] = None
           /\ \E i \in DOMAIN in.data : in.data[i] = <<p, v>>
        THEN v ELSE was[p]]

(* It is what is seen after the segment.                                   *)
LEMMA SegmentSees ==
    ASSUME NEW h, NEW was \in Seen, NEW b, NEW pos, NEW len, NEW v, NEW syn, NEW fin,
           NEW in, in = TakenIn(h, SeqNo(pos, syn), syn, fin, Sent(pos, len, v))
    PROVE  FirstAfter(h, was, b, in, v) = NowSeen(h, was, b, pos, len, v, syn, fin)
<1> DEFINE at == TruePos(b, in.half.next_abs)
           f == [p \in Positions |->
                   IF /\ ~h.fin_consumed
                      /\ p >= at
                      /\ was[p] = None
                      /\ \E i \in DOMAIN in.data : in.data[i] = <<p, v>>
                   THEN v ELSE was[p]]
<1>f. FirstAfter(h, was, b, in, v) = f
  BY DEF FirstAfter
<1>0. NowSeen(h, was, b, pos, len, v, syn, fin)
        = IF h.fin_consumed THEN was ELSE SeenWith(was, at, in.data, v)
  BY DEF NowSeen
<1> HIDE DEF at
<1>1. CASE h.fin_consumed
  <2>1. f = [p \in Positions |-> was[p]]
    BY <1>1
  <2>2. was = [p \in Positions |-> was[p]]
    BY DEF Seen
  <2> QED
    BY <1>0, <1>1, <1>f, <2>1, <2>2
<1>2. CASE ~h.fin_consumed
  <2>1. f = SeenWith(was, at, in.data, v)
    BY <1>2 DEF SeenWith
  <2> QED
    BY <1>0, <1>2, <1>f, <2>1
<1> QED
  BY <1>1, <1>2

(* A captured segment keeps the state true.                                *)
LEMMA SegmentTrue ==
    ASSUME Inv, Duplicates = FALSE, NEW pos \in Positions, NEW len \in Nat, pos + len <= Top,
           NEW v \in Versions, NEW syn \in BOOLEAN, NEW fin \in BOOLEAN, Segment(pos, len, v, syn, fin)
    PROVE  Inv'
<1> DEFINE seq == wire(IF syn THEN pos - 1 ELSE pos)
           data == [i \in 1 .. len |-> <<pos + i - 1, v>>]
           in == TakenIn(half, seq, syn, fin, data)
<1>1. seq = SeqNo(pos, syn) /\ data = Sent(pos, len, v)
  BY DEF SeqNo, Sent
<1>2. PICK b : b = base'
  OBVIOUS
<1>3. /\ ~closed /\ closed' = closed
      /\ b = IF half.next_abs = None THEN pos ELSE base
      /\ len = 0 \/ pos + len > TruePos(b, in.half.next_abs)
      /\ first' = FirstAfter(half, first, b, in, v)
  BY <1>2 DEF Segment, FirstAfter
<1>4. PICK ts \in now .. now + 1 :
         ts <= MaxTs /\ now' = ts /\ Return(accept(half, seq, syn, fin, ts, data))
  BY DEF Segment
<1>5. StateTrue(half, stream, base, first, closed) /\ now \in 0 .. MaxTs
  BY DEF Inv
<1>6. closed = FALSE /\ first \in Seen
  BY <1>3, <1>5 DEF StateTrue
<1>7. ts \in 0 .. MaxTs /\ now' \in 0 .. MaxTs
  BY <1>4, <1>5, Numbers
<1> HIDE DEF seq, data
<1>8. first' = NowSeen(half, first, b, pos, len, v, syn, fin)
  <2>1. in = TakenIn(half, SeqNo(pos, syn), syn, fin, Sent(pos, len, v))
    BY <1>1
  <2> HIDE DEF in
  <2>2. FirstAfter(half, first, b, in, v) = NowSeen(half, first, b, pos, len, v, syn, fin)
    BY <1>6, <2>1, SegmentSees
  <2> QED
    BY <1>3, <2>2
<1>9. Arriving(half, b, pos, len, v, syn, fin) /\ StartsAt(half, base, pos, b)
  BY <1>1, <1>3 DEF Arriving, StartsAt
<1> DEFINE a == accept(half, SeqNo(pos, syn), syn, fin, ts, Sent(pos, len, v))
<1>10. StateTrue([a EXCEPT !.out = <<>>], stream \o a.out, b,
                 NowSeen(half, first, b, pos, len, v, syn, fin), FALSE)
  <2>1. StateTrue(half, stream, base, first, FALSE)
    BY <1>5, <1>6
  <2> QED
    BY ONLY <1>7, <1>9, <2>1, AcceptTrue, Zenon
<1>11. half' = [a EXCEPT !.out = <<>>] /\ stream' = stream \o a.out
  BY <1>1, <1>4 DEF Return
<1> HIDE DEF a
<1>12. StateTrue(half', stream', base', first', closed')
  BY <1>2, <1>3, <1>6, <1>8, <1>10, <1>11
<1> QED
  BY <1>7, <1>12 DEF Inv

(* So does an acknowledgement of the peer.                                 *)
LEMMA AckTrue ==
    ASSUME Inv, NEW pos \in Isn .. Top + 1, Ack(pos)
    PROVE  Inv'
<1>1. ~closed /\ base' = base /\ first' = first /\ closed' = closed
  BY DEF Ack
<1>2. PICK ts \in now .. now + 1 :
         ts <= MaxTs /\ now' = ts /\ Return(acknowledge(half, wire(pos), ts))
  BY DEF Ack
<1>3. StateTrue(half, stream, base, first, closed) /\ now \in 0 .. MaxTs
  BY DEF Inv
<1>4. closed = FALSE
  BY <1>1, <1>3 DEF StateTrue
<1>5. ts \in 0 .. MaxTs /\ now' \in 0 .. MaxTs
  BY <1>2, <1>3, Numbers
<1> DEFINE a == acknowledge(half, wire(pos), ts)
<1>6. StateTrue([a EXCEPT !.out = <<>>], stream \o a.out, base, first, FALSE)
  <2>1. StateTrue(half, stream, base, first, FALSE)
    BY <1>3, <1>4
  <2> QED
    BY ONLY <1>5, <2>1, pos \in Isn .. Top + 1, AcknowledgeTrue, Zenon
<1>7. half' = [a EXCEPT !.out = <<>>] /\ stream' = stream \o a.out
  BY <1>2 DEF Return
<1> HIDE DEF a
<1>8. StateTrue(half', stream', base', first', closed')
  BY <1>1, <1>4, <1>6, <1>7
<1> QED
  BY <1>5, <1>8 DEF Inv

(* And the end of the flow.                                                *)
LEMMA CloseTrue == ASSUME Inv, Close PROVE Inv'
<1>1. /\ ~closed /\ closed' = TRUE /\ base' = base /\ first' = first /\ now' = now
      /\ Return(finalize(half))
  BY DEF Close
<1>2. StateTrue(half, stream, base, first, closed) /\ now \in 0 .. MaxTs
  BY DEF Inv
<1>3. closed = FALSE
  BY <1>1, <1>2 DEF StateTrue
<1> DEFINE a == finalize(half)
<1>4. StateTrue([a EXCEPT !.out = <<>>], stream \o a.out, base, first, TRUE)
  <2>1. StateTrue(half, stream, base, first, FALSE)
    BY <1>2, <1>3
  <2> QED
    BY ONLY <2>1, FinalizeTrue, Zenon
<1>5. half' = [a EXCEPT !.out = <<>>] /\ stream' = stream \o a.out
  BY <1>1 DEF Return
<1> HIDE DEF a
<1>6. StateTrue(half', stream', base', first', closed')
  BY <1>1, <1>4, <1>5
<1> QED
  BY <1>1, <1>2, <1>6 DEF Inv

(* Every step keeps the state true, as long as no segment is captured that *)
(* only repeats old bytes.                                                 *)
LEMMA NextTrue == ASSUME Inv, Duplicates = FALSE, [Next]_vars PROVE Inv'
<1>1. ASSUME NEW pos \in Positions, NEW len \in 0 .. MaxSegment, NEW v \in Versions,
             NEW syn \in BOOLEAN, NEW fin \in BOOLEAN,
             pos + len <= Isn + StreamLen, Segment(pos, len, v, syn, fin)
      PROVE  Inv'
  <2>1. len \in Nat /\ pos + len <= Top
    BY <1>1, SegmentAssumption DEF Top
  <2> QED
    BY <1>1, <2>1, SegmentTrue
<1>2. ASSUME NEW pos \in Isn .. Isn + StreamLen + 1, Ack(pos) PROVE Inv'
  <2>1. pos \in Isn .. Top + 1
    BY DEF Top
  <2> QED
    BY <1>2, <2>1, AckTrue
<1>3. CASE Close
  BY <1>3, CloseTrue
<1>4. CASE UNCHANGED vars
  BY <1>4 DEF vars, Inv
<1> QED
  BY <1>1, <1>2, <1>3, <1>4 DEF Next

(* What a true state says of the stream it has handed on.                  *)
LEMMA TrueStream == ASSUME Inv PROVE StreamOffsetsExact /\ FirstSeenWins
<1>1. stream \in Seq(Items) /\ ItemsTrue(stream, base, 0, first) /\ base \in Int
  BY Numbers DEF Inv, StateTrue, None
<1> SUFFICES ASSUME NEW i \in 1 .. Len(stream)
             PROVE  /\ stream[i].offset = i - 1
                    /\ stream[i].byte # Lost => stream[i].byte[1] = base + i - 1
                    /\ base + i - 1 \in Positions => first[base + i - 1] = stream[i].byte[2]
  BY DEF StreamOffsetsExact, FirstSeenWins
<1>2. /\ stream[i].offset = 0 + i - 1
      /\ stream[i].byte # Lost => stream[i].byte[1] = base + 0 + i - 1
      /\ base + 0 + i - 1 \in Positions => first[base + 0 + i - 1] = stream[i].byte[2]
  BY <1>1 DEF ItemsTrue
<1>3. i \in Int /\ 0 + i - 1 = i - 1 /\ base + 0 + i - 1 = base + i - 1
  BY <1>1
<1> QED
  BY <1>2, <1>3

(* What it says of the bytes that were taken in.                           *)
LEMMA TrueBytes == ASSUME Inv PROVE BytesConserved
<1> SUFFICES ASSUME NEW p \in Positions, first[p] # None
             PROVE  Kept(p) \/ (half.fin_consumed /\ p >= FinPos)
  BY DEF BytesConserved
<1> DEFINE e == Epoch(base)
           d == base - e
           n == Len(stream)
           so == half.stream_offset
           nx == half.next_abs
           pf == half.pending_fin
           ol == half.ooo
<1>1. base \in Positions /\ base # None
  BY DEF Inv, StateTrue, Unseen
<1>2. half \in Under(e, d, n, first) /\ half.out = <<>> /\ stream \in Seq(Items)
  BY <1>1 DEF Inv, StateTrue, Rests, Origin
<1>3. base \in Int /\ e \in Nat /\ p \in Int /\ n \in Nat
  BY <1>1, <1>2, EpochShift, Numbers
<1>4. nx \in Nat /\ pf \in Nat /\ so \in Nat /\ ol \in Buffers /\ Going(half, e, d, n, first)
  BY <1>2 DEF Under, Halves
<1>5. so = n
  <2>1. so = n + Len(<<>>)
    BY <1>2, <1>4 DEF Going, Counted
  <2> QED
    BY <1>3, <1>4, <2>1
<1>f. FinPos = base + (pf - e)
  BY DEF FinPos, TruePos
<1>k. ASSUME p < base + n PROVE Kept(p)
  BY <1>k DEF Kept
<1>6. CASE half.fin_consumed
  <2>1. p < e + d + so \/ p >= pf + d
    BY <1>4, <1>6 DEF Going
  <2> HIDE DEF e, n, so, pf
  <2>2. p < base + n \/ p >= FinPos
    BY <1>3, <1>4, <1>5, <1>f, <2>1
  <2> QED
    BY <1>6, <1>k, <2>2 DEF n
<1>7. CASE ~half.fin_consumed
  <2>1. nx = e + so /\ BufferTrue(ol, nx, d, first) /\ BufferWhole(ol, nx, d, first)
    BY <1>4, <1>7 DEF Going
  <2> HIDE DEF e, n, so, nx, ol
  <2>d. d = base - e /\ d \in Int
    BY <1>3
  <2> HIDE DEF d
  <2>2. CASE p < base + n
    BY <1>k, <2>2 DEF n
  <2>3. CASE ~(p < base + n)
    <3>1. p >= nx + d
      BY <1>3, <1>4, <1>5, <2>1, <2>3, <2>d
    <3>2. PICK k \in DOMAIN ol : k <= p - d /\ p - d < k + Len(ol[k])
      BY <2>1, <3>1 DEF BufferWhole, Covers
    <3>3. ol \in [DOMAIN ol -> Seq(Octets)] /\ k \in Nat
      BY <1>4, BufferType
    <3> DEFINE s == ol[k]
               z == Len(s)
               i == p - d - k + 1
    <3>4. z \in Nat /\ DOMAIN s = 1 .. z
      BY <3>3
    <3>5. k <= p - d /\ p - d < k + z
      BY <3>2
    <3>6. \A j \in 1 .. z : s[j] = <<k + j - 1 + d, first[k + j - 1 + d]>>
      BY <2>1 DEF BufferTrue
    <3>s. s = ol[k]
      OBVIOUS
    <3>n. z \in Nat /\ k \in Nat /\ p \in Int /\ d \in Int
      BY <1>3, <2>d, <3>3, <3>4
    <3> HIDE DEF z, s
    <3>7. i \in 1 .. z /\ k + i - 1 + d = p
      BY <3>n, <3>5
    <3> HIDE DEF i
    <3>8. s[i][1] = p
      BY <3>6, <3>7
    <3>9. k \in DOMAIN half.ooo /\ i \in DOMAIN half.ooo[k] /\ half.ooo[k][i][1] = p
      BY <3>4, <3>7, <3>8, <3>s DEF ol
    <3> QED
      BY <3>9 DEF Kept
  <2> QED
    BY <2>2, <2>3
<1> QED
  BY <1>6, <1>7

(* What it says of the buffer.                                             *)
LEMMA TrueBuffer == ASSUME Inv PROVE BufferSound
<1> DEFINE e == Origin(base)
           d == base - e
           n == Len(stream)
<1>1. /\ half \in Under(e, d, n, first) /\ Settled(half) /\ ~OverLimit(half)
      /\ first \in Seen /\ closed \in BOOLEAN /\ stream \in Seq(Items)
      /\ base \in Positions \cup {None}
  BY DEF Inv, StateTrue, Rests
<1>2. base \in Int /\ e \in Nat /\ n \in Nat
  <2>1. base \in Int /\ n \in Nat
    BY <1>1, Numbers DEF None
  <2>2. e \in Nat
    BY <1>1, EpochShift DEF Origin
  <2> QED
    BY <2>1, <2>2
<1> HIDE DEF e, n
<1>3. d \in Int
  BY <1>2
<1> HIDE DEF d
<1>4. half \in Halves /\ Going(half, e, d, n, first)
  BY <1>1 DEF Under
<1>5. /\ DOMAIN half = DOMAIN NewHalf
      /\ half.next_abs \in Nat /\ half.stream_offset \in Nat
      /\ half.pending_fin \in Nat /\ half.peer_ack \in Nat
      /\ half.requires_ack \in BOOLEAN /\ half.fin_consumed \in BOOLEAN
      /\ half.gap_started \in 0 .. MaxTs
  BY <1>4 DEF Halves, NewHalf
<1>6. ASSUME NEW k \in DOMAIN half.ooo
      PROVE  /\ half.ooo[k] # <<>> /\ k > half.next_abs
             /\ \A l \in DOMAIN half.ooo : k < l => k + Len(half.ooo[k]) <= l
  <2>1. ~half.fin_consumed
    BY <1>4 DEF Going
  <2>2. BufferTrue(half.ooo, half.next_abs, d, first)
    BY <1>4, <2>1 DEF Going
  <2>3. /\ Len(half.ooo[k]) > 0
        /\ \A l \in DOMAIN half.ooo : k < l => k + Len(half.ooo[k]) <= l
    BY <2>2 DEF BufferTrue
  <2>4. half.ooo[k] # <<>>
    <3>1. Len(<<>>) = 0
      OBVIOUS
    <3> QED
      BY <2>3, <3>1
  <2>5. k > half.next_abs
    BY <1>1 DEF Settled
  <2> QED
    BY <2>3, <2>4, <2>5
<1>7. TypeOK
  BY <1>1, <1>5, <1>6 DEF TypeOK, Seen
<1>8. OooBounded
  <2>1. IsFiniteSet(Pieces(half.ooo))
    BY <1>1, <1>2, <1>3, PiecesFinite
  <2>2. Cardinality(Pieces(half.ooo)) \in Nat
    BY <2>1, FS_CardinalityType
  <2>3. Cardinality(DOMAIN half.ooo) \in Nat
    BY <1>1, <1>2, <1>3, BufferFinite
  <2>4. BufferedBytes(half) = Cardinality(Pieces(half.ooo))
    BY DEF BufferedBytes, Pieces
  <2>5. ~(BufferedBytes(half) > MaxOoo) /\ ~(Cardinality(DOMAIN half.ooo) > MaxOooSegments)
    BY <1>1 DEF OverLimit
  <2> QED
    BY <2>2, <2>3, <2>4, <2>5, LimitsAssumption DEF OooBounded
<1> QED
  BY <1>7, <1>8 DEF BufferSound

(* A state that is true stays true.                                        *)
LEMMA AlwaysTrue == ASSUME Duplicates = FALSE PROVE Spec => []Inv
<1>1. Init => Inv
  BY InitTrue
<1>2. Inv /\ [Next]_vars => Inv'
  BY NextTrue
<1> QED
  BY <1>1, <1>2, PTL DEF Spec

-----------------------------------------------------------------------------
(* Chunks and gaps follow one another without overlap and each byte is at  *)
(* the offset its position has, across reordering, retransmission, gaps    *)
(* and the wrap of the sequence space, for any stream and any limits of    *)
(* the buffer, unless a segment that only repeats old bytes is captured.   *)
THEOREM TcpOffsetsExact == ASSUME Duplicates = FALSE PROVE Spec => []StreamOffsetsExact
<1>1. Inv => StreamOffsetsExact
  BY TrueStream
<1> QED
  BY <1>1, AlwaysTrue, PTL

(* Of the copies of a byte the first one taken in is handed on, and none   *)
(* that was taken in is ever declared lost by a gap.                       *)
THEOREM TcpFirstSeenWins == ASSUME Duplicates = FALSE PROVE Spec => []FirstSeenWins
<1>1. Inv => FirstSeenWins
  BY TrueStream
<1> QED
  BY <1>1, AlwaysTrue, PTL

(* No recovery path, and no order of FINs, ACKs and data, loses a byte     *)
(* that was taken in and lies before the FIN.                              *)
THEOREM TcpBytesConserved == ASSUME Duplicates = FALSE PROVE Spec => []BytesConserved
<1>1. Inv => BytesConserved
  BY TrueBytes
<1> QED
  BY <1>1, AlwaysTrue, PTL

(* The out-of-order buffer keeps its shape and both of its limits,         *)
(* whatever is inserted, split or flushed.                                 *)
THEOREM TcpBufferSound == ASSUME Duplicates = FALSE PROVE Spec => []BufferSound
<1>1. Inv => BufferSound
  BY TrueBuffer
<1> QED
  BY <1>1, AlwaysTrue, PTL
=============================================================================
