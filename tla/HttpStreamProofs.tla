-------------------------- MODULE HttpStreamProofs --------------------------
(***************************************************************************)
(* What HttpStream guarantees for any exchange, however it is cut into     *)
(* chunks, interleaved and holed, and for any limits: the loop of the      *)
(* parser ends, and a record stands at its offset of the stream.           *)
(***************************************************************************)
EXTENDS HttpStream, SequenceTheorems, WellFoundedInduction, TLAPS

(* The units of all scenarios, and the kinds of requests among them.       *)
Unit == UNION {{x[d][i] : i \in DOMAIN x[d]} : x \in Scenarios, d \in Dirs}
Kinds == {u.msg.kind : u \in Unit}

(* Emissions that carry the unit that stands at their offset, and decoded  *)
(* ones that stand behind it; of these, the units are reported as body.    *)
Faithful == {e \in {"head", "body", "decoded"} \X Nat \X Nat :
                IF e[1] = "decoded" THEN e[3] < e[2] ELSE e[2] = e[3]}
Emitted == {o \in SUBSET Faithful : \A e \in o : e[1] = "decoded" => <<"body", e[3], e[3]>> \in o}

(* The state of a body: what is left is there to be read.                  *)
OpenBodies == [t : {"fixed", "skip", "close", "chunked"}, info : Unit, left : Nat, room : Nat,
            comp : Seq(Nat), seen : Nat, dec : {"size", "data", "crlf", "trailers"}]
Announces(st) ==
    /\ st.t \in {"fixed", "skip"} => st.left > 0
    /\ st.t = "fixed" => st.left <= st.room
    /\ st.t = "chunked" /\ st.dec = "data" => st.left > 0
States == {HeadersState} \cup {st \in OpenBodies : Announces(st)}

Runs == [buf : Seq(Unit), st : States, off : Nat, next : Nat, synced : BOOLEAN, scan : Nat,
         pending : Seq(Kinds), mode : {"http", "tunnel"}, out : Emitted,
         mark : Emitted, overflow : BOOLEAN]

(* The buffer holds the units of the stream from the parser's offset on,   *)
(* up to where the next chunk is expected.                                 *)
Aligned(buf, off) == \A i \in 1 .. Len(buf) : buf[i].p = off + i - 1
(* What is kept of a body for decoding lies before that offset and has     *)
(* been reported.                                                          *)
Kept(comp, off, o) == \A i \in DOMAIN comp : comp[i] < off /\ <<"body", comp[i], comp[i]>> \in o
Held(s) == s.st.t # "headers" => Kept(s.st.comp, s.off, s.out)
Good == {s \in Runs : /\ Aligned(s.buf, s.off) /\ Held(s)
                      /\ s.mode = "http" => s.next = s.off + Len(s.buf)}

(* How far the loop is from its end.                                       *)
Measure(s) == IF s.st.t = "headers" THEN 2 * Len(s.buf) ELSE 2 * Len(s.buf) + 1

-----------------------------------------------------------------------------
(* A non-empty set of natural numbers has a least element.                 *)
LEMMA LeastNatural ==
    ASSUME NEW S \in SUBSET Nat, S # {}
    PROVE  \E n \in S : \A m \in S : n <= m
<1> DEFINE R == OpToRel(<, Nat)
<1>1. IsWellFoundedOn(R, Nat)
  BY NatLessThanWellFounded
<1>2. \A m, n \in Nat : m < n => <<m, n>> \in R
  BY DEF OpToRel
<1> HIDE DEF R
<1>3. PICK n \in S : \A m \in S : ~(<<m, n>> \in R)
  BY <1>1, WFMin
<1>4. \A m \in S : ~(m < n)
  BY <1>2, <1>3
<1>5. \A m \in S : n <= m
  BY <1>4
<1> QED
  BY <1>5

(* The least element that a scan takes is one of the set.                  *)
LEMMA MinOfNaturals ==
    ASSUME NEW S \in SUBSET Nat, S # {}
    PROVE  Min(S) \in S /\ \A m \in S : Min(S) <= m
BY LeastNatural DEF Min

(* The smaller of two numbers.                                             *)
LEMMA MinOfTwo ==
    ASSUME NEW a \in Nat, NEW b \in Nat
    PROVE  Min({a, b}) \in Nat /\ Min({a, b}) <= a /\ Min({a, b}) <= b
           /\ Min({a, b}) \in {a, b}
<1>1. {a, b} \in SUBSET Nat /\ {a, b} # {}
  OBVIOUS
<1> QED
  BY <1>1, MinOfNaturals

(* What the limits are.                                                    *)
LEMMA Limits ==
    /\ MaxHeader \in Nat /\ MaxBody \in Nat /\ MaxDecode \in Nat
    /\ ResyncSuffix \in Nat \ {0} /\ PendingLimit \in Nat \ {0} /\ MaxChunk \in Nat \ {0}
BY HttpLimitsAssumption

(* A unit stands at its number, and announces numbers of units.            *)
LEMMA UnitTrue ==
    ASSUME NEW u \in Unit
    PROVE  /\ u.p \in Nat /\ u.msg.kind \in Kinds
           /\ u.k = "start" => u.msg.len \in Nat
           /\ u.k = "size" => u.n \in Nat
<1>1. PICK x \in Scenarios, d \in Dirs : \E i \in DOMAIN x[d] : u = x[d][i]
  BY DEF Unit
<1>2. PICK i \in DOMAIN x[d] : u = x[d][i]
  BY <1>1
<1>3. d \in {"a", "b"} /\ x[d] \in Seq({x[d][j] : j \in DOMAIN x[d]})
  BY ScenariosAssumption DEF Dirs
<1>4. DOMAIN x[d] \subseteq Nat
  <2> DEFINE q == x[d]
             T == {x[d][j] : j \in DOMAIN x[d]}
  <2>1. q \in Seq(T)
    BY <1>3
  <2> HIDE DEF q, T
  <2>2. DOMAIN q = 1 .. Len(q) /\ Len(q) \in Nat
    BY <2>1
  <2> QED
    BY <2>2 DEF q
<1>5. u.p = i /\ (u.k = "start" => u.msg.len \in Nat) /\ (u.k = "size" => u.n \in Nat)
  BY <1>2, <1>3, ScenariosAssumption
<1> QED
  BY <1>2, <1>4, <1>5 DEF Kinds

-----------------------------------------------------------------------------
(* What the scanners find lies in the buffer.                              *)
LEMMA DoubleCrlfFound ==
    ASSUME NEW v \in Seq(Unit), NEW from \in Nat
    PROVE  find_double_crlf_from(v, from) \in {0} \cup (2 .. Len(v))
<1> DEFINE ends == {i \in 2 .. Len(v) : i - 1 > from /\ v[i - 1].k = "nl" /\ v[i].k = "nl"}
<1>1. ends \in SUBSET Nat /\ ends \subseteq 2 .. Len(v)
  OBVIOUS
<1>2. find_double_crlf_from(v, from) = IF ends = {} THEN 0 ELSE Min(ends)
  BY DEF find_double_crlf_from
<1> HIDE DEF ends
<1> QED
  BY <1>1, <1>2, MinOfNaturals

(* The end of a line in the buffer.                                        *)
LEMMA CrlfFound ==
    ASSUME NEW v \in Seq(Unit)
    PROVE  find_crlf(v) \in 0 .. Len(v)
<1> DEFINE ends == {i \in DOMAIN v : v[i].k = "nl"}
<1>1. /\ ends \in SUBSET Nat /\ ends \subseteq 0 .. Len(v)
      /\ Len(v) \in Nat /\ 0 \in 0 .. Len(v)
  OBVIOUS
<1>2. find_crlf(v) = IF ends = {} THEN 0 ELSE Min(ends)
  BY DEF find_crlf
<1> HIDE DEF ends
<1> QED
  BY <1>1, <1>2, MinOfNaturals

(* A start line in the buffer.                                             *)
LEMMA StartFound ==
    ASSUME NEW v \in Seq(Unit)
    PROVE  find_plausible_http_start(v) \in 0 .. Len(v)
<1> DEFINE starts == {i \in DOMAIN v : v[i].k = "start" /\ (i = 1 \/ v[i - 1].k = "nl")}
<1>1. /\ starts \in SUBSET Nat /\ starts \subseteq 0 .. Len(v)
      /\ Len(v) \in Nat /\ 0 \in 0 .. Len(v)
  OBVIOUS
<1>2. find_plausible_http_start(v) = IF starts = {} THEN 0 ELSE Min(starts)
  BY DEF find_plausible_http_start
<1> HIDE DEF starts
<1> QED
  BY <1>1, <1>2, MinOfNaturals

(* Taking the first n units from the buffer moves the offset along.        *)
LEMMA RestAligned ==
    ASSUME NEW buf \in Seq(Unit), NEW off \in Nat, Aligned(buf, off), NEW n \in 0 .. Len(buf)
    PROVE  /\ SubSeq(buf, n + 1, Len(buf)) \in Seq(Unit)
           /\ Len(SubSeq(buf, n + 1, Len(buf))) = Len(buf) - n
           /\ Aligned(SubSeq(buf, n + 1, Len(buf)), off + n)
<1>1. Len(buf) \in Nat /\ n \in Nat /\ \A i \in n + 1 .. Len(buf) : buf[i] \in Unit
  OBVIOUS
<1> DEFINE r == SubSeq(buf, n + 1, Len(buf))
<1>2. /\ r \in Seq(Unit) /\ Len(r) = Len(buf) - n
      /\ \A i \in 1 .. Len(buf) - n : r[i] = buf[n + i]
  BY <1>1, SubSeqProperties
<1> HIDE DEF r
<1>3. ASSUME NEW i \in 1 .. Len(r) PROVE r[i].p = (off + n) + i - 1
  <2>1. i \in 1 .. Len(buf) - n /\ n + i \in 1 .. Len(buf)
    BY <1>1, <1>2
  <2>2. buf[n + i].p = off + (n + i) - 1
    BY <2>1 DEF Aligned
  <2> QED
    BY <1>1, <1>2, <2>1, <2>2
<1>4. Aligned(r, off + n)
  BY <1>3 DEF Aligned
<1> QED
  BY <1>2, <1>4 DEF r

(* The first n units are aligned too.                                      *)
LEMMA FrontAligned ==
    ASSUME NEW buf \in Seq(Unit), NEW off \in Nat, Aligned(buf, off), NEW n \in 0 .. Len(buf)
    PROVE  /\ SubSeq(buf, 1, n) \in Seq(Unit) /\ Len(SubSeq(buf, 1, n)) = n
           /\ Aligned(SubSeq(buf, 1, n), off)
           /\ \A i \in 1 .. n : SubSeq(buf, 1, n)[i] = buf[i]
<1>1. Len(buf) \in Nat /\ n \in Nat /\ \A i \in 1 .. n : buf[i] \in Unit
  OBVIOUS
<1> DEFINE r == SubSeq(buf, 1, n)
<1>2. /\ r \in Seq(Unit) /\ Len(r) = n /\ \A i \in 1 .. n : r[i] = buf[i]
  BY <1>1, SubSeqProperties
<1> HIDE DEF r
<1>3. Aligned(r, off)
  BY <1>1, <1>2 DEF Aligned
<1> QED
  BY <1>2, <1>3 DEF r

(* Units that are aligned make records that are faithful.                  *)
LEMMA RecordFaithful ==
    ASSUME NEW units \in Seq(Unit), NEW off \in Nat, Aligned(units, off),
           NEW view \in {"head", "body"}
    PROVE  Record(view, off, units) \in SUBSET Faithful
<1>1. ASSUME NEW i \in DOMAIN units PROVE <<view, off + i - 1, units[i].p>> \in Faithful
  <2>1. i \in 1 .. Len(units) /\ Len(units) \in Nat
    OBVIOUS
  <2>2. units[i].p = off + i - 1 /\ off + i - 1 \in Nat
    BY <2>1 DEF Aligned
  <2> QED
    BY <2>2 DEF Faithful
<1> QED
  BY <1>1 DEF Record

(* What is captured of aligned units.                                      *)
LEMMA CapturedAligned ==
    ASSUME NEW data \in Seq(Unit), NEW off \in Nat, Aligned(data, off), NEW room \in Nat
    PROVE  /\ Captured(data, room) \in Seq(Unit) /\ Aligned(Captured(data, room), off)
           /\ Len(Captured(data, room)) \in 0 .. room
           /\ Len(Captured(data, room)) <= Len(data) /\ Len(Captured(data, room)) \in Nat
<1>1. Len(data) \in Nat
  OBVIOUS
<1>2. Min({Len(data), room}) \in 0 .. Len(data) /\ Min({Len(data), room}) \in 0 .. room
  BY <1>1, MinOfTwo
<1> DEFINE m == Min({Len(data), room})
<1>3. /\ SubSeq(data, 1, m) \in Seq(Unit) /\ Aligned(SubSeq(data, 1, m), off)
      /\ Len(SubSeq(data, 1, m)) = m
  <2> HIDE DEF m
  <2>1. m \in 0 .. Len(data)
    BY <1>2 DEF m
  <2> QED
    BY <2>1, FrontAligned
<1>4. Captured(data, room) = SubSeq(data, 1, m)
  BY DEF Captured
<1> HIDE DEF m
<1>5. m \in 0 .. Len(data) /\ m \in 0 .. room
  BY <1>2 DEF m
<1> QED
  BY <1>1, <1>3, <1>4, <1>5

-----------------------------------------------------------------------------
(* The operations of the parser on a buffer that is aligned.               *)

(* A run has its fields.                                                   *)
LEMMA GoodFields ==
    ASSUME NEW s \in Good
    PROVE  /\ s \in Runs /\ s.buf \in Seq(Unit) /\ Len(s.buf) \in Nat /\ s.off \in Nat
           /\ s.next \in Nat /\ s.scan \in Nat /\ s.st \in States /\ Aligned(s.buf, s.off)
           /\ s.pending \in Seq(Kinds) /\ s.out \in Emitted /\ s.mark \in Emitted /\ Held(s)
           /\ s.mode = "http" => s.next = s.off + Len(s.buf)
<1>1. /\ s \in Runs /\ Aligned(s.buf, s.off) /\ Held(s)
      /\ (s.mode = "http" => s.next = s.off + Len(s.buf))
  BY DEF Good
<1> QED
  BY <1>1 DEF Runs

(* What is kept for decoding stays kept when the parser goes on.           *)
LEMMA HeldStays ==
    ASSUME NEW s \in Good, NEW g, g.off \in Nat, s.off <= g.off, s.out \subseteq g.out,
           \/ g.st.t = "headers"
           \/ s.st.t # "headers" /\ g.st.comp = s.st.comp
    PROVE  Held(g)
<1> SUFFICES ASSUME g.st.t # "headers", NEW i \in DOMAIN s.st.comp
             PROVE  s.st.comp[i] < g.off /\ <<"body", s.st.comp[i], s.st.comp[i]>> \in g.out
  BY DEF Held, Kept
<1>1. s.st \in States /\ s.off \in Nat /\ Held(s) /\ s.st.t # "headers"
  BY GoodFields
<1>2. s.st.comp \in Seq(Nat)
  BY <1>1 DEF States, HeadersState, OpenBodies
<1>3. s.st.comp[i] \in Nat
  BY <1>2
<1>4. s.st.comp[i] < s.off /\ <<"body", s.st.comp[i], s.st.comp[i]>> \in s.out
  BY <1>1 DEF Held, Kept
<1> HIDE DEF Held
<1> QED
  BY <1>1, <1>3, <1>4

(* split_to keeps the buffer aligned.                                      *)
LEMMA SplitGood ==
    ASSUME NEW s \in Good, NEW n \in 0 .. Len(s.buf)
    PROVE  /\ Split(s, n) \in Good /\ Len(Split(s, n).buf) = Len(s.buf) - n
           /\ Split(s, n) = [s EXCEPT !.buf = Split(s, n).buf, !.off = s.off + n]
           /\ Split(s, n).off = s.off + n /\ Split(s, n).st = s.st /\ Split(s, n).next = s.next
           /\ Split(s, n).mode = s.mode /\ Split(s, n).pending = s.pending
           /\ Split(s, n).out = s.out /\ Split(s, n).mark = s.mark
           /\ Split(s, n).scan = s.scan /\ Split(s, n).synced = s.synced
           /\ Split(s, n).overflow = s.overflow
<1> DEFINE b == SubSeq(s.buf, n + 1, Len(s.buf))
           g == Split(s, n)
<1>1. /\ s \in Runs /\ s.buf \in Seq(Unit) /\ Len(s.buf) \in Nat /\ s.off \in Nat /\ n \in Nat
      /\ Aligned(s.buf, s.off) /\ (s.mode = "http" => s.next = s.off + Len(s.buf))
  BY GoodFields
<1>2. b \in Seq(Unit) /\ Len(b) = Len(s.buf) - n /\ Aligned(b, s.off + n)
  BY <1>1, RestAligned
<1>3. g = [s EXCEPT !.buf = b, !.off = s.off + n]
  BY DEF Split
<1> HIDE DEF b, g
<1>o. PICK o \in Nat : o = s.off + n
  BY <1>1
<1>4. g \in Runs /\ g.buf = b /\ g.off = s.off + n
  BY <1>1, <1>2, <1>3, <1>o DEF Runs
<1>5. /\ g.st = s.st /\ g.next = s.next /\ g.mode = s.mode /\ g.pending = s.pending
      /\ g.out = s.out /\ g.mark = s.mark /\ g.scan = s.scan /\ g.synced = s.synced
      /\ g.overflow = s.overflow
  BY <1>1, <1>3 DEF Runs
<1>6. g.mode = "http" => g.next = g.off + Len(g.buf)
  BY <1>1, <1>2, <1>4, <1>5
<1>h. Held(g)
  <2>1. g.off \in Nat /\ s.off <= g.off /\ s.out \subseteq g.out
    BY <1>1, <1>4, <1>5, <1>o
  <2>2. g.st.t = "headers" \/ (s.st.t # "headers" /\ g.st.comp = s.st.comp)
    BY <1>5
  <2> QED
    BY <2>1, <2>2, HeldStays
<1>7. g \in Good
  BY <1>2, <1>4, <1>6, <1>h DEF Good
<1> QED
  BY <1>2, <1>3, <1>4, <1>5, <1>7 DEF g

(* Changing what is not the buffer keeps it aligned.                       *)
LEMMA OthersGood ==
    ASSUME NEW s \in Good, NEW g \in Runs,
           g.buf = s.buf, g.off = s.off, g.mode = s.mode, g.next = s.next, Held(g)
    PROVE  g \in Good
BY DEF Good

(* And so does changing what is not kept for decoding.                     *)
LEMMA RestKept ==
    ASSUME NEW s \in Good, NEW g \in Runs,
           g.buf = s.buf, g.off = s.off, g.mode = s.mode, g.next = s.next, s.out \subseteq g.out,
           \/ g.st.t = "headers"
           \/ s.st.t # "headers" /\ g.st.comp = s.st.comp
    PROVE  g \in Good
<1>1. g.off \in Nat /\ s.off <= g.off
  BY GoodFields
<1>2. Held(g)
  BY <1>1, HeldStays
<1> QED
  BY <1>2, OthersGood

(* Giving up on the framing.                                               *)
LEMMA DesyncGood ==
    ASSUME NEW s \in Good
    PROVE  /\ Desync(s) \in Good /\ Desync(s).buf = s.buf /\ Desync(s).st = HeadersState
           /\ Desync(s).mode = s.mode /\ Desync(s).next = s.next
<1>1. s \in Runs /\ HeadersState \in States /\ <<>> \in Seq(Kinds)
  BY GoodFields DEF States
<1> DEFINE g == Desync(s)
<1>2. g = [s EXCEPT !.synced = FALSE, !.pending = <<>>, !.st = HeadersState]
  BY DEF Desync
<1> HIDE DEF g
<1>3. g \in Runs /\ g.buf = s.buf /\ g.off = s.off /\ g.mode = s.mode /\ g.next = s.next
      /\ g.st = HeadersState /\ g.out = s.out
  BY <1>1, <1>2 DEF Runs
<1>4. g.st.t = "headers"
  BY <1>3 DEF HeadersState
<1> QED
  BY <1>3, <1>4, RestKept DEF g

(* What is dropped is dropped from the front.                              *)
LEMMA TrimGood ==
    ASSUME NEW s \in Good
    PROVE  /\ trim_desynced_suffix(s) \in Good /\ trim_desynced_suffix(s).mode = s.mode
           /\ trim_desynced_suffix(s).next = s.next
<1>1. Len(s.buf) \in Nat /\ ResyncSuffix \in Nat
  BY GoodFields, Limits
<1>2. CASE Len(s.buf) > ResyncSuffix
  <2>1. Len(s.buf) - ResyncSuffix \in 0 .. Len(s.buf)
    BY <1>1, <1>2
  <2> QED
    BY <1>2, <2>1, SplitGood DEF trim_desynced_suffix
<1>3. CASE ~(Len(s.buf) > ResyncSuffix)
  BY <1>3 DEF trim_desynced_suffix
<1> QED
  BY <1>2, <1>3

(* The buffer begins with the start line.                                  *)
LEMMA ResyncGood ==
    ASSUME NEW s \in Good
    PROVE  /\ Resync(s) \in Good /\ Resync(s).mode = s.mode /\ Resync(s).st = s.st
           /\ Resync(s).next = s.next /\ Len(Resync(s).buf) <= Len(s.buf)
           /\ s.buf # <<>> => Len(Resync(s).buf) > 0
<1> DEFINE k == find_plausible_http_start(s.buf)
<1>1. k \in 0 .. Len(s.buf) /\ Len(s.buf) \in Nat
  BY GoodFields, StartFound
<1>2. s.buf # <<>> => Len(s.buf) > 0
  BY GoodFields
<1>3. CASE s.synced \/ k = 0
  BY <1>1, <1>2, <1>3 DEF Resync
<1>4. CASE ~(s.synced \/ k = 0)
  <2> DEFINE t == Split(s, k - 1)
             g == [t EXCEPT !.synced = TRUE, !.scan = 0]
  <2>1. Resync(s) = g
    BY <1>4 DEF Resync
  <2> HIDE DEF k
  <2>2. k - 1 \in 0 .. Len(s.buf)
    BY <1>1, <1>4
  <2>3. /\ t \in Good /\ Len(t.buf) = Len(s.buf) - (k - 1) /\ t.mode = s.mode /\ t.st = s.st
        /\ t.next = s.next
    BY <2>2, SplitGood
  <2> HIDE DEF t
  <2>4. g = [t EXCEPT !.synced = TRUE, !.scan = 0] /\ t \in Runs
    BY <2>3, GoodFields
  <2> HIDE DEF g
  <2>5. /\ g \in Runs /\ g.buf = t.buf /\ g.st = t.st /\ g.mode = t.mode /\ g.next = t.next
        /\ g.off = t.off /\ g.out = t.out
    BY <2>4 DEF Runs
  <2>6. g \in Good
    BY <2>3, <2>5, RestKept
  <2> QED
    BY <1>1, <1>4, <2>1, <2>3, <2>5, <2>6
<1> QED
  BY <1>3, <1>4

(* What a body has been seen to hold, encoded.                             *)
LEMMA CompressedType ==
    ASSUME NEW st \in OpenBodies, NEW data \in Seq(Unit)
    PROVE  Compressed(st, data) \in Seq(Nat)
<1> DEFINE c == [i \in DOMAIN data |-> data[i].p]
<1>1. st.comp \in Seq(Nat) /\ DOMAIN data = 1 .. Len(data) /\ Len(data) \in Nat
  BY DEF OpenBodies
<1>2. \A i \in 1 .. Len(data) : data[i].p \in Nat
  BY UnitTrue
<1>3. c \in [1 .. Len(data) -> Nat]
  BY <1>1, <1>2
<1>4. c \in Seq(Nat)
  <2> HIDE DEF c
  <2> QED
    BY <1>1, <1>3
<1> HIDE DEF c
<1>5. st.comp \o c \in Seq(Nat)
  BY <1>1, <1>4, ConcatProperties
<1>6. Compressed(st, data) \in {st.comp \o c, st.comp}
  BY DEF Compressed, c
<1> QED
  BY <1>1, <1>5, <1>6

(* What is kept for decoding stays behind the parser and among what is     *)
(* reported, as the parser goes on.                                        *)
LEMMA KeptLater ==
    ASSUME NEW q \in Seq(Nat), NEW off \in Nat, NEW end \in Nat, off <= end, NEW o, NEW new,
           o \subseteq new, Kept(q, off, o)
    PROVE  Kept(q, end, new)
<1> SUFFICES ASSUME NEW i \in DOMAIN q
             PROVE  q[i] < end /\ <<"body", q[i], q[i]>> \in new
  BY DEF Kept
<1>1. q[i] \in Nat
  OBVIOUS
<1>2. q[i] < off /\ <<"body", q[i], q[i]>> \in o
  BY DEF Kept
<1> QED
  BY <1>1, <1>2

(* What is kept for decoding after some more of the body has been reported.*)
LEMMA CompressedKept ==
    ASSUME NEW st \in OpenBodies, NEW off \in Nat, NEW o, Kept(st.comp, off, o),
           NEW data \in Seq(Unit), Aligned(data, off), NEW end \in Nat, off + Len(data) <= end
    PROVE  Kept(Compressed(st, data), end, o \cup Record("body", off, data))
<1> DEFINE c == [i \in DOMAIN data |-> data[i].p]
           new == o \cup Record("body", off, data)
<1>1. st.comp \in Seq(Nat) /\ DOMAIN data = 1 .. Len(data) /\ Len(data) \in Nat
  BY DEF OpenBodies
<1>2. ASSUME NEW i \in 1 .. Len(data)
      PROVE  c[i] \in Nat /\ c[i] < end /\ <<"body", c[i], c[i]>> \in new
  <2>1. c[i] = data[i].p /\ data[i].p = off + i - 1 /\ i \in DOMAIN data
    BY <1>1 DEF Aligned
  <2>2. <<"body", off + i - 1, data[i].p>> \in Record("body", off, data)
    BY <2>1 DEF Record
  <2>3. off + i - 1 < end /\ off + i - 1 \in Nat
    BY <1>1
  <2> HIDE DEF c
  <2> QED
    BY <2>1, <2>2, <2>3
<1>3. c \in Seq(Nat) /\ Len(c) = Len(data)
  <2>1. c \in [1 .. Len(data) -> Nat]
    BY <1>1, <1>2
  <2> HIDE DEF c
  <2> QED
    BY <1>1, <2>1
<1>4. ASSUME NEW i \in DOMAIN st.comp PROVE st.comp[i] < end /\ <<"body", st.comp[i], st.comp[i]>> \in new
  <2>1. Kept(st.comp, end, new)
    BY <1>1, KeptLater
  <2> HIDE DEF new
  <2> QED
    BY <1>4, <2>1 DEF Kept
<1> DEFINE q == st.comp
<1>q. q \in Seq(Nat) /\ \A i \in DOMAIN q : q[i] < end /\ <<"body", q[i], q[i]>> \in new
  BY <1>1, <1>4
<1> HIDE DEF c, new, q
<1>5. \A i \in DOMAIN (q \o c) : (q \o c)[i] < end /\ <<"body", (q \o c)[i], (q \o c)[i]>> \in new
  <2>1. /\ Len(q) \in Nat /\ Len(c) \in Nat /\ Len(q \o c) = Len(q) + Len(c)
        /\ DOMAIN (q \o c) = 1 .. Len(q) + Len(c)
        /\ \A i \in 1 .. Len(q) + Len(c) : (q \o c)[i] = IF i <= Len(q) THEN q[i] ELSE c[i - Len(q)]
    BY <1>1, <1>3, <1>q
  <2> SUFFICES ASSUME NEW i \in 1 .. Len(q) + Len(c)
               PROVE  (q \o c)[i] < end /\ <<"body", (q \o c)[i], (q \o c)[i]>> \in new
    BY <2>1
  <2>2. CASE i <= Len(q)
    BY <1>q, <2>1, <2>2
  <2>3. CASE ~(i <= Len(q))
    <3>1. i - Len(q) \in 1 .. Len(data)
      BY <1>3, <2>1, <2>3
    <3> QED
      BY <1>2, <2>1, <2>3, <3>1
  <2> QED
    BY <2>2, <2>3
<1>6. Compressed(st, data) \in {q \o c, q}
  BY DEF Compressed, c, q
<1> QED
  BY <1>5, <1>6, <1>q DEF Kept, new

(* Reporting a piece of a header or a body.                                *)
LEMMA EmitUnits ==
    ASSUME NEW o \in Emitted, NEW units \in Seq(Unit), NEW off \in Nat, Aligned(units, off),
           NEW view \in {"head", "body"}
    PROVE  o \cup Record(view, off, units) \in Emitted
<1>1. Record(view, off, units) \in SUBSET Faithful
  BY RecordFaithful
<1>2. \A e \in Record(view, off, units) : e[1] # "decoded"
  BY DEF Record
<1> QED
  BY <1>1, <1>2 DEF Emitted

(* A decoded body stands behind what it was decoded from.                  *)
LEMMA EmitDecoded ==
    ASSUME NEW o \in Emitted, NEW st \in OpenBodies, NEW entity, NEW off \in Nat,
           Kept(st.comp, off, o)
    PROVE  o \cup decoded_record(st, entity, off) \in Emitted
<1>1. st.comp \in Seq(Nat)
  BY DEF OpenBodies
<1>2. ASSUME NEW i \in DOMAIN st.comp
      PROVE  <<"decoded", off, st.comp[i]>> \in Faithful /\ <<"body", st.comp[i], st.comp[i]>> \in o
  <2>1. st.comp[i] \in Nat
    BY <1>1
  <2> QED
    BY <2>1 DEF Faithful, Kept
<1>3. ASSUME NEW e \in decoded_record(st, entity, off) PROVE e \in Faithful /\ <<"body", e[3], e[3]>> \in o
  <2>1. PICK i \in DOMAIN st.comp : e = <<"decoded", off, st.comp[i]>>
    BY <1>3 DEF decoded_record
  <2> QED
    BY <1>2, <2>1
<1> QED
  BY <1>3 DEF Emitted

(* The queue of requests holds kinds of requests.                          *)
LEMMA PendingType ==
    ASSUME NEW pending \in Seq(Kinds), NEW u \in Unit
    PROVE  PendingAfter(pending, u.msg) \in Seq(Kinds)
<1>1. u.msg.kind \in Kinds /\ PendingLimit \in Nat \ {0}
  BY UnitTrue, Limits
<1>2. pending # <<>> => Tail(pending) \in Seq(Kinds)
  OBVIOUS
<1>3. Len(pending) >= PendingLimit => pending # <<>>
  BY <1>1
<1>4. Append(pending, u.msg.kind) \in Seq(Kinds)
  BY <1>1
<1>5. Len(pending) >= PendingLimit => Append(Tail(pending), u.msg.kind) \in Seq(Kinds)
  BY <1>1, <1>2, <1>3
<1> QED
  BY <1>2, <1>4, <1>5 DEF PendingAfter

(* A header announces what it announces.                                   *)
LEMMA BodyAfterState ==
    ASSUME NEW u \in Unit, u.k = "start", NEW answered
    PROVE  /\ BodyAfter(u, answered) \in States
           /\ BodyAfter(u, answered).t = "headers" \/ BodyAfter(u, answered).comp = <<>>
<1> DEFINE m == u.msg
           none == \/ ~m.req /\ (m.status \in {"info", "nobody"} \/ answered = "head")
                   \/ m.req /\ m.fr = "none"
                   \/ m.fr = "len" /\ m.len = 0
<1>1. m.len \in Nat /\ MaxBody \in Nat
  BY UnitTrue, Limits
<1>2. \A t \in {"fixed", "skip", "close", "chunked"} : \A left \in Nat, room \in Nat :
        (t \in {"fixed", "skip"} => left > 0) /\ (t = "fixed" => left <= room)
           => Body(t, u, left, room) \in States /\ Body(t, u, left, room).comp = <<>>
  <2> SUFFICES ASSUME NEW t \in {"fixed", "skip", "close", "chunked"}, NEW left \in Nat,
                      NEW room \in Nat, t \in {"fixed", "skip"} => left > 0,
                      t = "fixed" => left <= room
               PROVE  Body(t, u, left, room) \in States /\ Body(t, u, left, room).comp = <<>>
    OBVIOUS
  <2> DEFINE b == Body(t, u, left, room)
  <2>1. b = [t |-> t, info |-> u, left |-> left, room |-> room, comp |-> <<>>, seen |-> 0, dec |-> "size"]
    BY DEF Body
  <2> HIDE DEF b
  <2>2. <<>> \in Seq(Nat)
    OBVIOUS
  <2>3. b \in OpenBodies /\ b.t = t /\ b.left = left /\ b.room = room /\ b.dec = "size" /\ b.comp = <<>>
    BY <2>1, <2>2 DEF OpenBodies
  <2>4. Announces(b)
    BY <2>3 DEF Announces
  <2> QED
    BY <2>3, <2>4 DEF States, b
<1>3. CASE none
  BY <1>3 DEF BodyAfter, States, HeadersState
<1>4. CASE ~none
  <2>1. CASE m.fr = "chunked"
    <3>1. BodyAfter(u, answered) = Body("chunked", u, 0, MaxBody)
      BY <1>4, <2>1 DEF BodyAfter
    <3> QED
      BY <1>1, <1>2, <3>1
  <2>2. CASE m.fr = "len" /\ m.len > MaxBody
    <3>1. BodyAfter(u, answered) = Body("skip", u, m.len, MaxBody)
      BY <1>1, <1>4, <2>2 DEF BodyAfter
    <3>2. m.len > 0
      BY <1>1, <2>2
    <3> HIDE DEF m
    <3> QED
      BY <1>1, <1>2, <3>1, <3>2
  <2>3. CASE m.fr = "len" /\ m.len <= MaxBody
    <3>1. BodyAfter(u, answered) = Body("fixed", u, m.len, m.len)
      BY <1>1, <1>4, <2>3 DEF BodyAfter
    <3>2. m.len > 0
      BY <1>1, <1>4, <2>3
    <3> HIDE DEF m
    <3> QED
      BY <1>1, <1>2, <3>1, <3>2
  <2>4. CASE m.fr \notin {"chunked", "len"}
    <3>1. BodyAfter(u, answered) = Body("close", u, 0, MaxBody)
      BY <1>4, <2>4 DEF BodyAfter
    <3> QED
      BY <1>1, <1>2, <3>1
  <2> QED
    BY <1>1, <2>1, <2>2, <2>3, <2>4
<1> QED
  BY <1>3, <1>4

(* A header takes its units from the buffer, reports them where they       *)
(* stand, and leads to the body it announces.                              *)
LEMMA HeaderGood ==
    ASSUME NEW s \in Good, s.st = HeadersState, NEW n \in 2 .. Len(s.buf)
    PROVE  /\ HeaderStep(s, n) \in Good /\ HeaderStep(s, n).next = s.next
           /\ Len(HeaderStep(s, n).buf) <= Len(s.buf) - 2
<1> DEFINE h == SubSeq(s.buf, 1, n)
           w == Split(s, n)
           t == [w EXCEPT !.scan = 0]
           u == h[1]
           answered == IF ~u.msg.req /\ s.pending # <<>> THEN s.pending[1] ELSE "none"
           full == u.msg.req /\ Len(s.pending) >= PendingLimit
           e == [t EXCEPT !.out = @ \cup Record("head", s.off, h),
                          !.pending = PendingAfter(@, u.msg),
                          !.overflow = @ \/ full]
           tunnel == ~u.msg.req /\ \/ u.msg.status = "switch"
                                   \/ answered = "connect" /\ u.msg.status = "ok"
           g == HeaderStep(s, n)
<1>1. g = IF ~ParsesHeader(h) THEN Desync(t)
          ELSE IF tunnel THEN [e EXCEPT !.mode = "tunnel", !.buf = <<>>]
          ELSE IF u.msg.req /\ u.msg.fr = "te" THEN Desync(e)
          ELSE [e EXCEPT !.st = BodyAfter(u, answered), !.mark = e.out]
  BY DEF HeaderStep
<1>2. n \in 0 .. Len(s.buf) /\ n \in Nat /\ n >= 2 /\ Len(s.buf) \in Nat
  BY GoodFields
<1>3. h \in Seq(Unit) /\ Len(h) = n /\ Aligned(h, s.off)
  BY <1>2, GoodFields, FrontAligned
<1>4. u \in Unit
  BY <1>2, <1>3
<1>5. s.off \in Nat
  BY GoodFields
<1>6. /\ w \in Good /\ Len(w.buf) = Len(s.buf) - n /\ w.next = s.next /\ w.st = HeadersState
  BY <1>2, SplitGood
<1> HIDE DEF w
<1>7. t \in Good /\ t.buf = w.buf /\ t.next = w.next /\ t.st = w.st
  <2>1. w \in Runs
    BY <1>6, GoodFields
  <2>2. /\ t \in Runs /\ t.buf = w.buf /\ t.next = w.next /\ t.st = w.st /\ t.off = w.off
        /\ t.mode = w.mode /\ t.out = w.out
    BY <2>1 DEF Runs
  <2> QED
    BY <1>6, <2>2, RestKept
<1> HIDE DEF t
<1>8. e \in Good /\ e.buf = w.buf /\ e.next = w.next /\ e.st = w.st
  <2> DEFINE pe == PendingAfter(t.pending, u.msg)
             o == t.out \cup Record("head", s.off, h)
             f == t.overflow \/ full
  <2>1. t \in Runs /\ t.pending \in Seq(Kinds) /\ t.out \in Emitted
    BY <1>7, GoodFields
  <2>2. pe \in Seq(Kinds)
    BY <1>4, <2>1, PendingType
  <2>3. o \in Emitted /\ t.out \subseteq o
    <3> HIDE DEF h
    <3> QED
      BY <1>3, <1>5, <2>1, EmitUnits
  <2>4. f \in BOOLEAN
    OBVIOUS
  <2>5. e = [t EXCEPT !.out = o, !.pending = pe, !.overflow = f]
    BY <2>1 DEF Runs
  <2> HIDE DEF pe, o, f, e
  <2>6. /\ e \in Runs /\ e.buf = t.buf /\ e.next = t.next /\ e.st = t.st /\ e.off = t.off
        /\ e.mode = t.mode /\ e.out = o
    BY <2>1, <2>2, <2>3, <2>4, <2>5 DEF Runs
  <2> QED
    BY <1>7, <2>3, <2>6, RestKept
<1> HIDE DEF e, tunnel, answered, h, u, g
<1>9. Len(w.buf) <= Len(s.buf) - 2
  BY <1>2, <1>6
<1>10. CASE ~ParsesHeader(h)
  <2>1. g = Desync(t)
    BY <1>1, <1>10
  <2> QED
    BY <1>6, <1>7, <1>9, <2>1, DesyncGood DEF g
<1>11. CASE ParsesHeader(h) /\ tunnel
  <2>1. g = [e EXCEPT !.mode = "tunnel", !.buf = <<>>] /\ e \in Runs
    BY <1>1, <1>8, <1>11, GoodFields
  <2>2. <<>> \in Seq(Unit) /\ Len(<<>>) = 0
    OBVIOUS
  <2>3. g \in Runs /\ g.buf = <<>> /\ g.next = e.next /\ g.mode = "tunnel" /\ g.st = e.st
    BY <2>1, <2>2 DEF Runs
  <2>4. Aligned(g.buf, g.off)
    BY <2>2, <2>3 DEF Aligned
  <2>h. Held(g)
    BY <1>6, <1>8, <2>3 DEF Held, HeadersState
  <2>5. g \in Good
    BY <2>3, <2>4, <2>h DEF Good
  <2>6. Len(g.buf) <= Len(s.buf) - 2
    BY <1>2, <2>2, <2>3
  <2> QED
    BY <1>6, <1>8, <2>3, <2>5, <2>6 DEF g
<1>12. CASE ParsesHeader(h) /\ ~tunnel /\ u.msg.req /\ u.msg.fr = "te"
  <2>1. g = Desync(e)
    BY <1>1, <1>12
  <2> QED
    BY <1>6, <1>8, <1>9, <2>1, DesyncGood DEF g
<1>13. CASE ParsesHeader(h) /\ ~tunnel /\ ~(u.msg.req /\ u.msg.fr = "te")
  <2>1. g = [e EXCEPT !.st = BodyAfter(u, answered), !.mark = e.out] /\ e \in Runs
    BY <1>1, <1>8, <1>13, GoodFields
  <2>2. u.k = "start"
    BY <1>13 DEF ParsesHeader, u
  <2> DEFINE b == BodyAfter(u, answered)
  <2>3. b \in States /\ (b.t = "headers" \/ b.comp = <<>>)
    BY <1>4, <2>2, BodyAfterState
  <2>4. g = [e EXCEPT !.st = b, !.mark = e.out]
    BY <2>1
  <2> HIDE DEF b
  <2>5. /\ g \in Runs /\ g.buf = e.buf /\ g.next = e.next /\ g.off = e.off /\ g.mode = e.mode /\ g.st = b
    BY <2>1, <2>3, <2>4 DEF Runs
  <2>h. Held(g)
    BY <2>3, <2>5 DEF Held, Kept
  <2>6. g \in Good
    BY <1>8, <2>5, <2>h, OthersGood
  <2> QED
    BY <1>6, <1>8, <1>9, <2>5, <2>6 DEF g
<1> QED
  BY <1>10, <1>11, <1>12, <1>13

(* A body that has been opened is one.                                     *)
LEMMA OpenBody ==
    ASSUME NEW s \in Good, s.st.t # "headers"
    PROVE  /\ s.st \in OpenBodies /\ Announces(s.st) /\ s.st.left \in Nat /\ s.st.seen \in Nat
           /\ s.st.room \in Nat /\ Kept(s.st.comp, s.off, s.out)
<1>1. s.st \in States /\ Held(s)
  BY GoodFields
<1>2. HeadersState.t = "headers"
  BY DEF HeadersState
<1> QED
  BY <1>1, <1>2 DEF States, OpenBodies, Held


(* A fixed body reports the units it takes where they stand.               *)
LEMMA FixedGood ==
    ASSUME NEW s \in Good, s.st.t \in {"fixed", "skip"}, s.buf # <<>>, NEW entity
    PROVE  /\ FixedStep(s, entity) \in Good /\ FixedStep(s, entity).next = s.next
           /\ Len(FixedStep(s, entity).buf) <= Len(s.buf) - 1
<1> DEFINE st == s.st
           k == Min({st.left, Len(s.buf)})
           data == SubSeq(s.buf, 1, k)
           left == st.left - Len(data)
           kept == Captured(data, st.room)
           room == st.room - Len(kept)
           comp == IF st.t = "skip" THEN st.comp ELSE Compressed(st, data)
           n == [st EXCEPT !.left = left, !.room = @ - Len(kept),
                           !.comp = IF st.t = "skip" THEN @ ELSE Compressed(st, data)]
           w == Split(s, Len(data))
           nst == IF left = 0 THEN HeadersState ELSE n
           end == s.off + Len(data)
           some == w.out \cup Record("body", s.off, kept)
           o == some \cup IF left = 0 THEN decoded_record(n, entity, end) ELSE {}
           g == FixedStep(s, entity)
<1>1. /\ st \in OpenBodies /\ Announces(st) /\ st.left \in Nat /\ st.room \in Nat /\ st.left > 0
      /\ (st.t = "fixed" => st.left <= st.room) /\ Kept(st.comp, s.off, s.out)
  BY OpenBody DEF Announces
<1>2. Len(s.buf) \in Nat /\ Len(s.buf) > 0 /\ s.buf \in Seq(Unit) /\ s.off \in Nat /\ Aligned(s.buf, s.off)
  BY GoodFields
<1>3. k \in 0 .. Len(s.buf) /\ k \in Nat /\ k > 0 /\ k <= st.left
  BY <1>1, <1>2, MinOfTwo
<1> HIDE DEF k
<1>4. data \in Seq(Unit) /\ Len(data) = k /\ Aligned(data, s.off)
  BY <1>2, <1>3, FrontAligned
<1>5. g = [w EXCEPT !.st = nst, !.out = @ \cup Record("body", s.off, kept)
                                      \cup IF left = 0 THEN decoded_record(n, entity, end) ELSE {}]
  BY DEF FixedStep, k
<1> HIDE DEF data
<1>6. left \in Nat
  BY <1>1, <1>3, <1>4
<1>7. kept \in Seq(Unit) /\ Aligned(kept, s.off) /\ Len(kept) \in 0 .. st.room
  BY <1>1, <1>2, <1>4, CapturedAligned
<1>a. st.t = "fixed" => kept = data
  <2> SUFFICES ASSUME st.t = "fixed" PROVE SubSeq(data, 1, Min({Len(data), st.room})) = data
    BY DEF Captured
  <2>1. Len(data) \in Nat /\ Len(data) <= st.room
    BY <1>1, <1>3, <1>4
  <2> DEFINE m == Min({Len(data), st.room})
  <2>2. m = Len(data)
    BY <1>1, <2>1, MinOfTwo
  <2> HIDE DEF m, st
  <2> QED
    BY <1>4, <2>1, <2>2 DEF m
<1> HIDE DEF kept
<1>8. room \in Nat /\ (st.t = "fixed" => left <= room)
  <2>1. room \in Nat
    BY <1>1, <1>7
  <2>2. st.t = "fixed" => Len(kept) = Len(data)
    BY <1>a
  <2> HIDE DEF st
  <2> QED
    BY <1>1, <1>3, <1>4, <2>1, <2>2
<1>9. comp \in Seq(Nat)
  <2>1. Compressed(st, data) \in Seq(Nat)
    BY <1>1, <1>4, CompressedType
  <2>2. st.comp \in Seq(Nat)
    BY <1>1 DEF OpenBodies
  <2> HIDE DEF st
  <2> QED
    BY <2>1, <2>2
<1>c. end \in Nat /\ Kept(comp, end, s.out \cup Record("body", s.off, kept))
  <2>0. end \in Nat /\ s.off <= end
    BY <1>2, <1>3, <1>4
  <2> HIDE DEF end
  <2>1. CASE st.t = "skip"
    <3>1. comp = st.comp /\ st.comp \in Seq(Nat)
      BY <1>1, <2>1 DEF OpenBodies
    <3> DEFINE q == st.comp
               more == s.out \cup Record("body", s.off, kept)
    <3>2. s.out \subseteq more /\ q \in Seq(Nat) /\ Kept(q, s.off, s.out)
      BY <1>1, <3>1
    <3>3. Kept(q, end, more)
      <4> HIDE DEF q, more
      <4> QED
        BY <1>2, <2>0, <3>2, KeptLater
    <3>4. comp = q
      BY <3>1
    <3> HIDE DEF comp, q
    <3> QED
      BY <2>0, <3>3, <3>4
  <2>2. CASE st.t # "skip"
    <3>1. kept = data /\ comp = Compressed(st, data)
      BY <1>a, <2>2
    <3>2. s.off + Len(data) <= end
      BY <2>0 DEF end
    <3> HIDE DEF st, comp
    <3>3. Kept(Compressed(st, data), end, s.out \cup Record("body", s.off, data))
      BY <1>1, <1>2, <1>4, <2>0, <3>2, CompressedKept
    <3> QED
      BY <2>0, <3>1, <3>3
  <2> QED
    BY <2>1, <2>2
<1>10. n = [st EXCEPT !.left = left, !.room = room, !.comp = comp]
  <2> HIDE DEF st, left
  <2> QED
    BY <1>1 DEF OpenBodies
<1> HIDE DEF n, comp, room, left
<1>11. n \in OpenBodies /\ n.left = left /\ n.room = room /\ n.t = st.t /\ n.dec = st.dec /\ n.comp = comp
  <2> HIDE DEF st
  <2> QED
    BY <1>1, <1>6, <1>8, <1>9, <1>10 DEF OpenBodies
<1>12. nst \in States
  <2>1. CASE left = 0
    BY <2>1 DEF States
  <2>2. CASE left # 0
    <3>1. Announces(n)
      BY <1>1, <1>6, <1>8, <1>11, <2>2 DEF Announces
    <3> QED
      BY <1>11, <2>2, <3>1 DEF States
  <2> QED
    BY <2>1, <2>2
<1>14. w \in Good /\ w.next = s.next /\ Len(w.buf) = Len(s.buf) - k /\ w.out = s.out /\ w.off = end
  BY <1>3, <1>4, SplitGood
<1>15. w \in Runs /\ w.out \in Emitted
  BY <1>14, GoodFields
<1> HIDE DEF w, end
<1>16. o \in Emitted /\ some \subseteq o
  <2>1. some \in Emitted
    BY <1>2, <1>7, <1>15, EmitUnits
  <2>2. Kept(n.comp, end, some)
    BY <1>11, <1>14, <1>c
  <2> HIDE DEF some
  <2>3. some \cup decoded_record(n, entity, end) \in Emitted
    BY <1>11, <1>c, <2>1, <2>2, EmitDecoded
  <2> QED
    BY <2>1, <2>3
<1>17. g = [w EXCEPT !.st = nst, !.out = o]
  <2> HIDE DEF nst, g
  <2> QED
    BY <1>5, <1>15 DEF Runs
<1> HIDE DEF nst, g, o
<1>18. g \in Runs /\ g.buf = w.buf /\ g.off = w.off /\ g.mode = w.mode /\ g.next = w.next
       /\ g.st = nst /\ g.out = o
  BY <1>12, <1>15, <1>16, <1>17 DEF Runs
<1>h. Held(g)
  <2>1. CASE left = 0
    BY <1>18, <2>1 DEF Held, HeadersState, nst
  <2>2. CASE left # 0
    <3>1. g.st.comp = comp
      BY <1>11, <1>18, <2>2 DEF nst
    <3> QED
      BY <1>14, <1>16, <1>18, <1>c, <3>1 DEF Held, Kept, some
  <2> QED
    BY <2>1, <2>2
<1>19. g \in Good
  BY <1>14, <1>18, <1>h, OthersGood
<1>20. Len(g.buf) <= Len(s.buf) - 1
  BY <1>2, <1>3, <1>14, <1>18
<1> QED
  BY <1>14, <1>18, <1>19, <1>20 DEF g

(* What is left of the limit on captured bodies.                           *)
LEMMA RoomLeft ==
    ASSUME NEW seen \in Nat
    PROVE  MaxBody - Min({MaxBody, seen}) \in Nat
<1>1. MaxBody \in Nat
  BY Limits
<1> QED
  BY <1>1, MinOfTwo

(* A body that ends with the connection takes all there is.                *)
LEMMA CloseGood ==
    ASSUME NEW s \in Good, s.st.t = "close", s.buf # <<>>
    PROVE  /\ CloseStep(s) \in Good /\ CloseStep(s).next = s.next
           /\ Len(CloseStep(s).buf) <= Len(s.buf) - 1
<1> DEFINE st == s.st
           kept == Captured(s.buf, MaxBody - Min({MaxBody, s.st.seen}))
           comp == Compressed(s.st, kept)
           seen == s.st.seen + Len(s.buf)
           n == [s.st EXCEPT !.comp = Compressed(s.st, kept), !.seen = @ + Len(s.buf)]
           w == Split(s, Len(s.buf))
           g == CloseStep(s)
           new == Record("body", s.off, kept)
           o == w.out \cup new
<1>1. st \in OpenBodies /\ Announces(st) /\ st.seen \in Nat /\ Kept(st.comp, s.off, s.out)
  BY OpenBody
<1>2. Len(s.buf) \in Nat /\ Len(s.buf) > 0 /\ s.buf \in Seq(Unit) /\ s.off \in Nat /\ Aligned(s.buf, s.off)
  BY GoodFields
<1>3. kept \in Seq(Unit) /\ Aligned(kept, s.off) /\ Len(kept) <= Len(s.buf) /\ Len(kept) \in Nat
  BY <1>1, <1>2, CapturedAligned, RoomLeft
<1>4. g = [w EXCEPT !.st = n, !.out = @ \cup new]
  BY DEF CloseStep
<1> HIDE DEF kept
<1>a. s.off + Len(s.buf) \in Nat /\ Kept(comp, s.off + Len(s.buf), s.out \cup new)
  <2> DEFINE end == s.off + Len(s.buf)
  <2>1. end \in Nat /\ s.off + Len(kept) <= end
    BY <1>2, <1>3
  <2> HIDE DEF end, st
  <2>2. st = s.st
    BY DEF st
  <2>3. Kept(comp, end, s.out \cup new)
    BY <1>1, <1>2, <1>3, <2>1, <2>2, CompressedKept
  <2> QED
    BY <2>1, <2>3 DEF end
<1>5. comp \in Seq(Nat) /\ seen \in Nat
  BY <1>1, <1>2, <1>3, CompressedType
<1>6. n = [st EXCEPT !.comp = comp, !.seen = seen]
  <2>1. s.st \in OpenBodies
    BY <1>1
  <2> QED
    BY <2>1 DEF OpenBodies
<1> HIDE DEF n, comp, seen, new
<1>7. n \in OpenBodies /\ n.left = st.left /\ n.room = st.room /\ n.t = st.t /\ n.dec = st.dec /\ n.comp = comp
  <2> HIDE DEF st
  <2> QED
    BY <1>1, <1>5, <1>6 DEF OpenBodies
<1>8. n \in States
  BY <1>1, <1>7 DEF States, Announces
<1>10. w \in Good /\ w.next = s.next /\ Len(w.buf) = 0 /\ w.out = s.out /\ w.off = s.off + Len(s.buf)
  <2>1. Len(s.buf) \in 0 .. Len(s.buf)
    BY <1>2
  <2>2. w \in Good /\ w.next = s.next /\ Len(w.buf) = Len(s.buf) - Len(s.buf)
        /\ w.out = s.out /\ w.off = s.off + Len(s.buf)
    BY <2>1, SplitGood
  <2> QED
    BY <1>2, <2>2
<1>11. w \in Runs /\ w.out \in Emitted
  BY <1>10, GoodFields
<1> HIDE DEF w, g
<1>12. o \in Emitted
  BY <1>2, <1>3, <1>11, EmitUnits DEF new
<1>13. g = [w EXCEPT !.st = n, !.out = o]
  BY <1>4, <1>11 DEF Runs
<1>o. o = s.out \cup new
  BY <1>10
<1> HIDE DEF o
<1>14. g \in Runs /\ g.buf = w.buf /\ g.off = w.off /\ g.mode = w.mode /\ g.next = w.next
       /\ g.st = n /\ g.out = o
  BY <1>8, <1>11, <1>12, <1>13 DEF Runs
<1>h. Held(g)
  BY <1>7, <1>10, <1>14, <1>a, <1>o DEF Held
<1>15. g \in Good
  BY <1>10, <1>14, <1>h, OthersGood
<1>16. Len(g.buf) <= Len(s.buf) - 1
  BY <1>2, <1>10, <1>14
<1> QED
  BY <1>10, <1>14, <1>15, <1>16 DEF g

(* consume gives an error: the framing is given up.                        *)
LEMMA ChunkErrorGood ==
    ASSUME NEW s \in Good
    PROVE  /\ ChunkError(s) \in Good /\ ChunkError(s).next = s.next /\ ChunkError(s).buf = s.buf
           /\ ChunkError(s).st = HeadersState
<1> DEFINE g == ChunkError(s)
<1>1. s \in Runs /\ s.mark \in Emitted /\ HeadersState \in States /\ <<>> \in Seq(Kinds)
  BY GoodFields DEF States
<1>2. g = [s EXCEPT !.out = s.mark, !.synced = FALSE, !.pending = <<>>, !.st = HeadersState]
  BY DEF ChunkError, Desync
<1> HIDE DEF g
<1>3. /\ g \in Runs /\ g.buf = s.buf /\ g.off = s.off /\ g.mode = s.mode /\ g.next = s.next
      /\ g.st = HeadersState
  BY <1>1, <1>2 DEF Runs
<1>4. Held(g)
  BY <1>3 DEF Held, HeadersState
<1>5. g \in Good
  BY <1>3, <1>4, OthersGood
<1> QED
  BY <1>3, <1>5 DEF g


(* The end of a chunk.                                                     *)
LEMMA ChunkEndGood ==
    ASSUME NEW s \in Good, s.st.t = "chunked", s.buf # <<>>
    PROVE  /\ ChunkEnd(s) \in Good /\ ChunkEnd(s).next = s.next
           /\ Measure(ChunkEnd(s)) < Measure(s)
<1>1. Len(s.buf) \in Nat /\ Len(s.buf) > 0 /\ 1 \in 0 .. Len(s.buf)
  BY GoodFields
<1>2. s.st \in OpenBodies /\ s \in Runs
  BY OpenBody, GoodFields
<1>3. Measure(s) = 2 * Len(s.buf) + 1
  BY DEF Measure
<1>4. CASE s.buf[1].k = "nl"
  <2> DEFINE w == Split(s, 1)
             n == [s.st EXCEPT !.dec = "size"]
             g == [w EXCEPT !.st = n]
  <2>1. ChunkEnd(s) = g
    BY <1>4 DEF ChunkEnd
  <2>2. n \in OpenBodies /\ n.dec = "size" /\ n.t = "chunked" /\ n.comp = s.st.comp
    BY <1>2 DEF OpenBodies
  <2> HIDE DEF n
  <2>3. n \in States
    BY <2>2 DEF States, Announces
  <2>4. w \in Good /\ w.next = s.next /\ Len(w.buf) = Len(s.buf) - 1 /\ w.st = s.st
    BY <1>1, SplitGood
  <2> HIDE DEF w
  <2>5. w \in Runs
    BY <2>4, GoodFields
  <2>6. g \in Runs /\ g.buf = w.buf /\ g.off = w.off /\ g.mode = w.mode /\ g.next = w.next /\ g.st = n
        /\ g.out = w.out
    BY <2>3, <2>5 DEF Runs
  <2> HIDE DEF g
  <2>7. g \in Good
    BY <2>2, <2>4, <2>6, RestKept
  <2>8. Measure(g) = 2 * (Len(s.buf) - 1) + 1
    BY <2>2, <2>4, <2>6 DEF Measure
  <2> QED
    BY <1>1, <1>3, <2>1, <2>4, <2>6, <2>7, <2>8
<1>5. CASE s.buf[1].k # "nl"
  <2> DEFINE g == ChunkError(s)
  <2>1. ChunkEnd(s) = g
    BY <1>5 DEF ChunkEnd
  <2>2. g \in Good /\ g.next = s.next /\ g.buf = s.buf /\ g.st = HeadersState
    BY ChunkErrorGood
  <2> HIDE DEF g
  <2>3. Measure(g) = 2 * Len(s.buf)
    BY <1>1, <2>2 DEF Measure, HeadersState
  <2> QED
    BY <1>1, <1>3, <2>1, <2>2, <2>3
<1> QED
  BY <1>4, <1>5

(* A chunk size.                                                           *)
LEMMA ChunkSizeGood ==
    ASSUME NEW s \in Good, s.st.t = "chunked", s.buf # <<>>, find_crlf(s.buf) # 0
    PROVE  /\ ChunkSize(s) \in Good /\ ChunkSize(s).next = s.next
           /\ Measure(ChunkSize(s)) < Measure(s)
<1> DEFINE n == find_crlf(s.buf)
           size == s.buf[1].n
           w == Split(s, n)
           g == ChunkSize(s)
<1>1. Len(s.buf) \in Nat /\ Len(s.buf) > 0 /\ s.buf \in Seq(Unit)
  BY GoodFields
<1>2. n \in 0 .. Len(s.buf) /\ n \in Nat /\ n > 0
  BY <1>1, CrlfFound
<1>3. s.st \in OpenBodies
  BY OpenBody
<1>4. Measure(s) = 2 * Len(s.buf) + 1
  BY DEF Measure
<1>5. w \in Good /\ w.next = s.next /\ Len(w.buf) = Len(s.buf) - n /\ w.st = s.st
  BY <1>2, SplitGood
<1>6. w \in Runs
  BY <1>5, GoodFields
<1>7. CASE n = 2 /\ s.buf[1].k = "size"
  <2> DEFINE dec == IF size = 0 THEN "trailers" ELSE "data"
             st == [s.st EXCEPT !.dec = dec, !.left = size]
  <2>1. g = [w EXCEPT !.st = st, !.scan = 0]
    BY <1>7 DEF ChunkSize
  <2>2. size \in Nat
    <3>1. s.buf[1] \in Unit
      BY <1>1
    <3> QED
      BY <1>7, <3>1, UnitTrue
  <2>3. dec \in {"trailers", "data"} /\ (dec = "data" => size > 0)
    BY <2>2
  <2> HIDE DEF dec, size
  <2>4. st \in OpenBodies /\ st.dec = dec /\ st.left = size /\ st.t = "chunked" /\ st.comp = s.st.comp
    BY <1>3, <2>2, <2>3 DEF OpenBodies
  <2> HIDE DEF st, w, g, n
  <2>5. st \in States
    BY <2>3, <2>4 DEF States, Announces
  <2>6. g \in Runs /\ g.buf = w.buf /\ g.off = w.off /\ g.mode = w.mode /\ g.next = w.next /\ g.st = st
        /\ g.out = w.out
    BY <1>6, <2>1, <2>5 DEF Runs
  <2>7. g \in Good
    BY <1>5, <2>4, <2>6, RestKept
  <2>8. Measure(g) = 2 * (Len(s.buf) - n) + 1
    BY <1>5, <2>4, <2>6 DEF Measure
  <2>9. Measure(g) < Measure(s)
    BY <1>1, <1>2, <1>4, <2>8
  <2> QED
    BY <1>5, <2>6, <2>7, <2>9 DEF g
<1>8. CASE ~(n = 2 /\ s.buf[1].k = "size")
  <2>1. g = ChunkError(w)
    BY <1>8 DEF ChunkSize
  <2> HIDE DEF w, g, n
  <2>2. g \in Good /\ g.next = w.next /\ g.buf = w.buf /\ g.st = HeadersState
    BY <1>5, <2>1, ChunkErrorGood
  <2>3. Measure(g) = 2 * (Len(s.buf) - n)
    BY <1>1, <1>2, <1>5, <2>2 DEF Measure, HeadersState
  <2>4. Measure(g) < Measure(s)
    BY <1>1, <1>2, <1>4, <2>3
  <2> QED
    BY <1>5, <2>2, <2>4 DEF g
<1> QED
  BY <1>7, <1>8

(* The data of a chunk is reported where it stands.                        *)
LEMMA ChunkDataGood ==
    ASSUME NEW s \in Good, s.st.t = "chunked", s.st.dec = "data", s.buf # <<>>
    PROVE  /\ ChunkData(s) \in Good /\ ChunkData(s).next = s.next
           /\ Len(ChunkData(s).buf) <= Len(s.buf) - 1
<1> DEFINE st == s.st
           k == Min({st.left, Len(s.buf)})
           data == SubSeq(s.buf, 1, k)
           kept == Captured(data, MaxBody - Min({MaxBody, st.seen}))
           left == st.left - Len(data)
           seen == st.seen + Len(data)
           comp == Compressed(st, kept)
           dec == IF st.left = Len(data) THEN "crlf" ELSE "data"
           n == [st EXCEPT !.left = @ - Len(data), !.seen = @ + Len(data),
                           !.comp = Compressed(st, kept),
                           !.dec = IF st.left = Len(data) THEN "crlf" ELSE "data"]
           w == Split(s, Len(data))
           new == Record("body", s.off, kept)
           o == w.out \cup new
           g == ChunkData(s)
<1>1. /\ st \in OpenBodies /\ Announces(st) /\ st.left \in Nat /\ st.seen \in Nat /\ st.left > 0
      /\ Kept(st.comp, s.off, s.out)
  BY OpenBody DEF Announces
<1>2. Len(s.buf) \in Nat /\ Len(s.buf) > 0 /\ s.buf \in Seq(Unit) /\ s.off \in Nat /\ Aligned(s.buf, s.off)
  BY GoodFields
<1>3. k \in 0 .. Len(s.buf) /\ k \in Nat /\ k > 0 /\ k <= st.left
  BY <1>1, <1>2, MinOfTwo
<1>4. g = [w EXCEPT !.st = n, !.out = @ \cup new]
  BY DEF ChunkData
<1> HIDE DEF k
<1>5. data \in Seq(Unit) /\ Len(data) = k /\ Aligned(data, s.off)
  BY <1>2, <1>3, FrontAligned
<1> HIDE DEF data
<1>6. kept \in Seq(Unit) /\ Aligned(kept, s.off) /\ Len(kept) <= Len(data) /\ Len(kept) \in Nat
  BY <1>1, <1>2, <1>5, CapturedAligned, RoomLeft
<1> HIDE DEF kept
<1>a. s.off + k \in Nat /\ Kept(comp, s.off + k, s.out \cup new)
  <2> DEFINE end == s.off + k
  <2>1. end \in Nat /\ s.off + Len(kept) <= end
    BY <1>2, <1>3, <1>5, <1>6
  <2> HIDE DEF end, st
  <2>2. Kept(comp, end, s.out \cup new)
    BY <1>1, <1>2, <1>6, <2>1, CompressedKept
  <2> QED
    BY <2>1, <2>2 DEF end
<1>7. /\ left \in Nat /\ seen \in Nat /\ comp \in Seq(Nat) /\ dec \in {"crlf", "data"}
      /\ dec = "data" => left > 0
  <2>1. comp \in Seq(Nat)
    BY <1>1, <1>6, CompressedType
  <2> QED
    BY <1>1, <1>3, <1>5, <2>1
<1>8. n = [st EXCEPT !.left = left, !.seen = seen, !.comp = comp, !.dec = dec]
  <2> HIDE DEF st
  <2> QED
    BY <1>1 DEF OpenBodies
<1> HIDE DEF n, left, seen, comp, dec
<1>9. n \in OpenBodies /\ n.t = st.t /\ n.left = left /\ n.dec = dec /\ n.comp = comp
  <2> HIDE DEF st
  <2> QED
    BY <1>1, <1>7, <1>8 DEF OpenBodies
<1>10. n \in States
  BY <1>7, <1>9 DEF States, Announces
<1>12. w \in Good /\ w.next = s.next /\ Len(w.buf) = Len(s.buf) - k /\ w.out = s.out /\ w.off = s.off + k
  BY <1>3, <1>5, SplitGood
<1>13. w \in Runs /\ w.out \in Emitted
  BY <1>12, GoodFields
<1> HIDE DEF w, g
<1>11. o \in Emitted /\ o = s.out \cup new
  BY <1>2, <1>6, <1>12, <1>13, EmitUnits
<1> HIDE DEF new
<1>14. g = [w EXCEPT !.st = n, !.out = o]
  BY <1>4, <1>13 DEF Runs
<1> HIDE DEF o
<1>15. g \in Runs /\ g.buf = w.buf /\ g.off = w.off /\ g.mode = w.mode /\ g.next = w.next
       /\ g.st = n /\ g.out = o
  BY <1>10, <1>11, <1>13, <1>14 DEF Runs
<1>h. Held(g)
  BY <1>9, <1>11, <1>12, <1>15, <1>a DEF Held
<1>16. g \in Good
  BY <1>12, <1>15, <1>h, OthersGood
<1>17. Len(g.buf) <= Len(s.buf) - 1
  BY <1>2, <1>3, <1>12, <1>15
<1> QED
  BY <1>12, <1>15, <1>16, <1>17 DEF g

(* The trailers end in the buffer.                                         *)
LEMMA TrailerFound ==
    ASSUME NEW s \in Good, s.buf # <<>>
    PROVE  TrailerEnd(s) \in 0 .. Len(s.buf)
<1>1. s.buf \in Seq(Unit) /\ Len(s.buf) \in Nat /\ Len(s.buf) > 0 /\ s.scan \in Nat
  BY GoodFields
<1>2. find_double_crlf_from(s.buf, s.scan) \in {0} \cup (2 .. Len(s.buf))
  BY <1>1, DoubleCrlfFound
<1> QED
  BY <1>1, <1>2 DEF TrailerEnd

(* The end of a chunked body.                                              *)
LEMMA ChunkDoneGood ==
    ASSUME NEW s \in Good, s.st.t = "chunked", NEW n \in 1 .. Len(s.buf), NEW entity
    PROVE  /\ ChunkDone(s, n, entity) \in Good /\ ChunkDone(s, n, entity).next = s.next
           /\ Len(ChunkDone(s, n, entity).buf) <= Len(s.buf) - 1
<1> DEFINE w == Split(s, n)
           end == s.off + n
           new == IF s.st.seen <= MaxBody THEN decoded_record(s.st, entity, end) ELSE {}
           o == w.out \cup new
           g == ChunkDone(s, n, entity)
<1>1. Len(s.buf) \in Nat /\ n \in 0 .. Len(s.buf) /\ n \in Nat /\ n > 0
  BY GoodFields
<1>2. s.st \in OpenBodies /\ Kept(s.st.comp, s.off, s.out) /\ s.off \in Nat
  BY OpenBody, GoodFields
<1>4. w \in Good /\ w.next = s.next /\ Len(w.buf) = Len(s.buf) - n /\ w.out = s.out
      /\ w.off = end /\ w.st = s.st
  BY <1>1, SplitGood
<1>5. w \in Runs /\ w.out \in Emitted /\ w.off \in Nat
  BY <1>4, GoodFields
<1>6. g = [w EXCEPT !.st = HeadersState, !.scan = 0, !.out = @ \cup new]
  BY DEF ChunkDone
<1> HIDE DEF w, g, end
<1>3. Kept(s.st.comp, end, w.out)
  BY <1>4, OpenBody
<1>7. o \in Emitted
  BY <1>2, <1>3, <1>4, <1>5, EmitDecoded
<1> HIDE DEF new
<1>a. g = [w EXCEPT !.st = HeadersState, !.scan = 0, !.out = o]
  BY <1>5, <1>6 DEF Runs
<1>8. HeadersState \in States
  BY DEF States
<1> HIDE DEF o
<1>9. g \in Runs /\ g.buf = w.buf /\ g.off = w.off /\ g.mode = w.mode /\ g.next = w.next
      /\ g.st = HeadersState
  BY <1>5, <1>7, <1>8, <1>a DEF Runs
<1>h. Held(g)
  BY <1>9 DEF Held, HeadersState
<1>10. g \in Good
  BY <1>4, <1>9, <1>h, OthersGood
<1>11. Len(g.buf) <= Len(s.buf) - 1
  BY <1>1, <1>4, <1>9
<1> QED
  BY <1>4, <1>9, <1>10, <1>11 DEF g

-----------------------------------------------------------------------------
(* The parsing loop.                                                       *)

(* Fewer units in the buffer bring the loop nearer to its end.             *)
LEMMA FewerUnits ==
    ASSUME NEW s \in Good, s.st.t # "headers", NEW g \in Good, Len(g.buf) <= Len(s.buf) - 1
    PROVE  Measure(g) < Measure(s)
<1>1. Len(s.buf) \in Nat /\ Len(g.buf) \in Nat
  BY GoodFields
<1>2. Measure(s) = 2 * Len(s.buf) + 1 /\ Measure(g) \in {2 * Len(g.buf), 2 * Len(g.buf) + 1}
  BY <1>1 DEF Measure
<1> QED
  BY <1>1, <1>2

(* The measure is a number.                                                *)
LEMMA MeasureType ==
    ASSUME NEW s \in Good
    PROVE  Measure(s) \in Nat
<1>1. Len(s.buf) \in Nat
  BY GoodFields
<1> QED
  BY <1>1 DEF Measure

(* A turn of the loop keeps the buffer aligned and brings the loop nearer  *)
(* to its end, until it waits.                                             *)
LEMMA TurnGood ==
    ASSUME NEW s \in Good, NEW entity
    PROVE  /\ Turn(s, entity) \in Good /\ Turn(s, entity).next = s.next
           /\ Waits(s) => Turn(s, entity) = s
           /\ ~Waits(s) => Measure(Turn(s, entity)) < Measure(s)
<1> DEFINE g == Turn(s, entity)
<1>1. CASE Waits(s)
  <2>1. g = s
    BY <1>1 DEF Turn
  <2> QED
    BY <1>1, <2>1
<1>2. CASE ~Waits(s)
  <2>0. Len(s.buf) \in Nat /\ s.buf # <<>> /\ s.st \in States /\ s.buf \in Seq(Unit)
    BY <1>2, GoodFields DEF Waits
  <2>a. s.st.t \in {"headers", "fixed", "skip", "close", "chunked"}
    BY <2>0 DEF States, HeadersState, OpenBodies
  <2>b. s.st.t = "chunked" => s.st.dec \in {"size", "data", "crlf", "trailers"}
    BY OpenBody DEF OpenBodies
  <2>1. CASE s.st.t = "headers"
    <3> DEFINE r == Resync(s)
               n == HeaderFound(s)
    <3>1. g = HeaderStep(r, n)
      BY <1>2, <2>1 DEF Turn
    <3>2. s.st = HeadersState
      BY <2>0, <2>1 DEF States, OpenBodies
    <3>3. r \in Good /\ r.st = s.st /\ r.next = s.next /\ Len(r.buf) <= Len(s.buf)
      BY ResyncGood
    <3>4. n # 0
      BY <1>2, <2>1 DEF Waits
    <3>5. n = find_double_crlf_from(r.buf, r.scan)
      BY DEF HeaderFound
    <3> HIDE DEF r, n, g
    <3>6. r.buf \in Seq(Unit) /\ r.scan \in Nat /\ Len(r.buf) \in Nat
      BY <3>3, GoodFields
    <3>7. n \in 2 .. Len(r.buf)
      BY <3>4, <3>5, <3>6, DoubleCrlfFound
    <3>8. g \in Good /\ g.next = r.next /\ Len(g.buf) <= Len(r.buf) - 2
      BY <3>1, <3>2, <3>3, <3>7, HeaderGood
    <3>9. Len(g.buf) \in Nat
      BY <3>8, GoodFields
    <3>10. Measure(s) = 2 * Len(s.buf) /\ Measure(g) \in {2 * Len(g.buf), 2 * Len(g.buf) + 1}
      BY <2>0, <2>1, <3>9 DEF Measure
    <3>11. Measure(g) < Measure(s)
      BY <2>0, <3>3, <3>6, <3>8, <3>9, <3>10
    <3> QED
      BY <1>2, <3>3, <3>8, <3>11 DEF g
  <2>2. CASE s.st.t \in {"fixed", "skip"}
    <3>1. g = FixedStep(s, entity)
      BY <1>2, <2>2 DEF Turn
    <3> HIDE DEF g
    <3>2. g \in Good /\ g.next = s.next /\ Len(g.buf) <= Len(s.buf) - 1
      BY <2>0, <2>2, <3>1, FixedGood
    <3>3. Measure(g) < Measure(s)
      BY <2>2, <3>2, FewerUnits
    <3> QED
      BY <1>2, <3>2, <3>3 DEF g
  <2>3. CASE s.st.t = "close"
    <3>1. g = CloseStep(s)
      BY <1>2, <2>3 DEF Turn
    <3> HIDE DEF g
    <3>2. g \in Good /\ g.next = s.next /\ Len(g.buf) <= Len(s.buf) - 1
      BY <2>0, <2>3, <3>1, CloseGood
    <3>3. Measure(g) < Measure(s)
      BY <2>3, <3>2, FewerUnits
    <3> QED
      BY <1>2, <3>2, <3>3 DEF g
  <2>e. ASSUME g = ChunkError(s), s.st.t = "chunked"
        PROVE  g \in Good /\ g.next = s.next /\ Measure(g) < Measure(s)
    <3> HIDE DEF g
    <3>1. g \in Good /\ g.next = s.next /\ g.buf = s.buf /\ g.st = HeadersState
      BY <2>e, ChunkErrorGood
    <3>2. Measure(g) = 2 * Len(s.buf) /\ Measure(s) = 2 * Len(s.buf) + 1
      BY <2>0, <2>e, <3>1 DEF Measure, HeadersState
    <3> QED
      BY <2>0, <3>1, <3>2
  <2>4. CASE s.st.t = "chunked" /\ s.st.dec = "crlf"
    <3>1. g = ChunkEnd(s)
      BY <1>2, <2>4 DEF Turn
    <3> QED
      BY <1>2, <2>0, <2>4, <3>1, ChunkEndGood
  <2>5. CASE s.st.t = "chunked" /\ s.st.dec = "data"
    <3>1. g = ChunkData(s)
      BY <1>2, <2>5 DEF Turn
    <3> HIDE DEF g
    <3>2. g \in Good /\ g.next = s.next /\ Len(g.buf) <= Len(s.buf) - 1
      BY <2>0, <2>5, <3>1, ChunkDataGood
    <3>3. Measure(g) < Measure(s)
      BY <2>5, <3>2, FewerUnits
    <3> QED
      BY <1>2, <3>2, <3>3 DEF g
  <2>6. CASE s.st.t = "chunked" /\ s.st.dec = "size"
    <3>1. g = IF find_crlf(s.buf) # 0 THEN ChunkSize(s) ELSE ChunkError(s)
      BY <1>2, <2>6 DEF Turn
    <3>2. CASE find_crlf(s.buf) # 0
      BY <1>2, <2>0, <2>6, <3>1, <3>2, ChunkSizeGood
    <3>3. CASE find_crlf(s.buf) = 0
      BY <1>2, <2>6, <2>e, <3>1, <3>3
    <3> QED
      BY <3>2, <3>3
  <2>7. CASE s.st.t = "chunked" /\ s.st.dec = "trailers"
    <3> DEFINE n == TrailerEnd(s)
    <3>1. g = IF n # 0 THEN ChunkDone(s, n, entity) ELSE ChunkError(s)
      BY <1>2, <2>7 DEF Turn
    <3>2. n \in 0 .. Len(s.buf)
      BY <2>0, TrailerFound
    <3> HIDE DEF n
    <3>3. CASE n # 0
      <4>1. n \in 1 .. Len(s.buf)
        BY <2>0, <3>2, <3>3
      <4>2. g = ChunkDone(s, n, entity)
        BY <3>1, <3>3
      <4> HIDE DEF g
      <4>3. g \in Good /\ g.next = s.next /\ Len(g.buf) <= Len(s.buf) - 1
        BY <2>7, <4>1, <4>2, ChunkDoneGood
      <4>4. Measure(g) < Measure(s)
        BY <2>7, <4>3, FewerUnits
      <4> QED
        BY <1>2, <4>3, <4>4 DEF g
    <3>4. CASE n = 0
      BY <1>2, <2>7, <2>e, <3>1, <3>4
    <3> QED
      BY <3>3, <3>4
  <2> QED
    BY <2>a, <2>b, <2>1, <2>2, <2>3, <2>4, <2>5, <2>6, <2>7
<1> QED
  BY <1>1, <1>2

(* The next scan starts within the buffer.                                 *)
LEMMA ScanLaterGood ==
    ASSUME NEW s \in Good, Len(s.buf) > 0
    PROVE  ScanLater(s) \in Good /\ ScanLater(s).next = s.next
<1> DEFINE n == Len(s.buf) - 1
           g == ScanLater(s)
<1>1. s \in Runs /\ n \in Nat
  BY GoodFields
<1>2. g = [s EXCEPT !.scan = n]
  BY DEF ScanLater
<1> HIDE DEF n, g
<1>3. g \in Runs /\ g.buf = s.buf /\ g.off = s.off /\ g.mode = s.mode /\ g.next = s.next
      /\ g.st = s.st /\ g.out = s.out
  BY <1>1, <1>2 DEF Runs
<1>4. g \in Good
  BY <1>3, RestKept
<1> QED
  BY <1>3, <1>4 DEF g

(* What feed leaves is aligned.                                            *)
LEMMA RestGood ==
    ASSUME NEW s \in Good
    PROVE  Rest(s) \in Good /\ Rest(s).next = s.next
<1> DEFINE r == Resync(s)
           z == [Desync(r) EXCEPT !.scan = 0]
<1>1. CASE s.mode = "tunnel" \/ s.buf = <<>>
  BY <1>1 DEF Rest
<1>2. CASE ~(s.mode = "tunnel" \/ s.buf = <<>>)
  <2>1. /\ r \in Good /\ r.next = s.next /\ Len(r.buf) > 0 /\ Len(s.buf) > 0
    BY <1>2, ResyncGood, GoodFields
  <2>2. CASE s.st.t = "headers" /\ ~r.synced
    <3>1. Rest(s) = trim_desynced_suffix(s)
      BY <1>2, <2>2 DEF Rest
    <3> QED
      BY <3>1, TrimGood
  <2>3. CASE s.st.t = "headers" /\ r.synced /\ Len(r.buf) > MaxHeader
    <3>1. Rest(s) = trim_desynced_suffix(z)
      BY <1>2, <2>3 DEF Rest
    <3> DEFINE e == Desync(r)
    <3> HIDE DEF r
    <3>2. e \in Good /\ e.next = r.next
      BY <2>1, DesyncGood
    <3>3. z = [e EXCEPT !.scan = 0] /\ e \in Runs
      BY <3>2, GoodFields
    <3> HIDE DEF e, z
    <3>4. z \in Runs /\ z.buf = e.buf /\ z.off = e.off /\ z.mode = e.mode /\ z.next = e.next
          /\ z.st = e.st /\ z.out = e.out
      BY <3>3 DEF Runs
    <3>5. z \in Good
      BY <3>2, <3>4, RestKept
    <3> QED
      BY <2>1, <3>1, <3>2, <3>4, <3>5, TrimGood
  <2>4. CASE s.st.t = "headers" /\ r.synced /\ ~(Len(r.buf) > MaxHeader)
    <3>1. Rest(s) = ScanLater(r)
      BY <1>2, <2>4 DEF Rest
    <3> HIDE DEF r
    <3> QED
      BY <2>1, <3>1, ScanLaterGood
  <2>5. CASE s.st.t = "chunked" /\ s.st.dec = "trailers"
    <3>1. Rest(s) = ScanLater(s)
      BY <1>2, <2>5 DEF Rest
    <3> QED
      BY <2>1, <3>1, ScanLaterGood
  <2>6. CASE s.st.t # "headers" /\ ~(s.st.t = "chunked" /\ s.st.dec = "trailers")
    BY <1>2, <2>6 DEF Rest
  <2> QED
    BY <2>2, <2>3, <2>4, <2>5, <2>6
<1> QED
  BY <1>1, <1>2

(* The states a loop goes through, s being its turn.                       *)
IsTurns(g, H, s, h, N) ==
    g \in [0 .. N -> H] /\ g[0] = h /\ \A i \in 1 .. N : g[i] = s[g[i - 1]]

(* A step that can always be taken can be taken any number of times.       *)
LEMMA TurnsExist ==
    ASSUME NEW H, NEW s \in [H -> H], NEW h \in H, NEW N \in Nat
    PROVE  \E g : IsTurns(g, H, s, h, N)
<1> DEFINE Taken(m) == \E g : IsTurns(g, H, s, h, m)
           Bad == {m \in Nat : ~Taken(m)}
<1>1. ASSUME Bad # {} PROVE FALSE
  <2>1. PICK m \in Bad : \A l \in Bad : m <= l
    BY <1>1, LeastNatural
  <2>2. CASE m = 0
    <3> DEFINE g == [i \in 0 .. 0 |-> h]
    <3>1. g \in [0 .. 0 -> H] /\ g[0] = h /\ \A i \in 1 .. 0 : g[i] = s[g[i - 1]]
      OBVIOUS
    <3>2. Taken(0)
      BY <3>1 DEF IsTurns
    <3> QED
      BY <2>1, <2>2, <3>2
  <2>3. CASE m # 0
    <3>a. Bad \subseteq Nat
      OBVIOUS
    <3>0. m \in Nat /\ m - 1 \in Nat /\ m - 1 \notin Bad
      <4> HIDE DEF Bad
      <4> QED
        BY <2>1, <2>3, <3>a
    <3>1. m \in Nat /\ m - 1 \in Nat /\ Taken(m - 1)
      <4> HIDE DEF Taken
      <4> QED
        BY <3>0
    <3>p. PICK f : IsTurns(f, H, s, h, m - 1)
      BY <3>1
    <3>2. f \in [0 .. m - 1 -> H] /\ f[0] = h /\ \A i \in 1 .. m - 1 : f[i] = s[f[i - 1]]
      BY <3>p DEF IsTurns
    <3> DEFINE g == [i \in 0 .. m |-> IF i = m THEN s[f[m - 1]] ELSE f[i]]
    <3>3. g \in [0 .. m -> H]
      BY <3>1, <3>2
    <3>4. g[0] = h /\ g[m] = s[f[m - 1]] /\ \A i \in 0 .. m - 1 : g[i] = f[i]
      BY <2>3, <3>1, <3>2
    <3> HIDE DEF g
    <3>5. ASSUME NEW i \in 1 .. m PROVE g[i] = s[g[i - 1]]
      <4>1. i - 1 \in 0 .. m - 1 /\ g[i - 1] = f[i - 1]
        BY <3>1, <3>4
      <4>2. CASE i = m
        BY <3>4, <4>1, <4>2
      <4>3. CASE i # m
        <5>1. i \in 1 .. m - 1 /\ i \in 0 .. m - 1
          BY <3>1, <4>3
        <5> QED
          BY <3>2, <3>4, <4>1, <5>1
      <4> QED
        BY <4>2, <4>3
    <3>6. Taken(m)
      BY <3>3, <3>4, <3>5 DEF IsTurns
    <3> QED
      BY <2>1, <3>6
  <2> QED
    BY <2>2, <2>3
<1> QED
  BY <1>1

(* What every step carries from one index to the next holds in the end.    *)
LEMMA TurnsKeep ==
    ASSUME NEW N \in Nat, NEW a, NEW Q, a[0] \in Q[0],
           \A i \in 1 .. N : a[i - 1] \in Q[i - 1] => a[i] \in Q[i]
    PROVE  a[N] \in Q[N]
<1> DEFINE Bad == {m \in Nat : m <= N /\ a[m] \notin Q[m]}
<1>1. ASSUME Bad # {} PROVE FALSE
  <2>1. PICK m \in Bad : \A l \in Bad : m <= l
    BY <1>1, LeastNatural
  <2>2. m # 0 /\ m \in 1 .. N /\ m - 1 \in Nat /\ m - 1 \notin Bad
    BY <2>1
  <2>3. a[m - 1] \in Q[m - 1]
    BY <2>2
  <2> QED
    BY <2>1, <2>2, <2>3
<1> QED
  BY <1>1

(* Together: a loop whose turn is s on H ends in what the turns lead to.   *)
LEMMA LoopEnds ==
    ASSUME NEW H, NEW s \in [H -> H], NEW h \in H, NEW N \in Nat, NEW Q,
           h \in Q[0], \A i \in 1 .. N : \A x \in H : x \in Q[i - 1] => s[x] \in Q[i],
           NEW a,
           \A g : IsTurns(g, H, s, h, N)
              => (a[0] = h /\ \A i \in 1 .. N : a[i - 1] \in H => a[i] = s[a[i - 1]])
    PROVE  a[N] \in H /\ a[N] \in Q[N]
<1>1. \E g : IsTurns(g, H, s, h, N)
  BY TurnsExist
<1>2. a[0] = h /\ \A i \in 1 .. N : a[i - 1] \in H => a[i] = s[a[i - 1]]
  BY <1>1
<1> DEFINE P == [i \in 0 .. N |-> H \cap Q[i]]
<1>3. \A i \in 0 .. N : P[i] = H \cap Q[i]
  OBVIOUS
<1>4. 0 \in 0 .. N /\ N \in 0 .. N /\ \A i \in 1 .. N : i \in 0 .. N /\ i - 1 \in 0 .. N
  OBVIOUS
<1> HIDE DEF P
<1>5. a[0] \in P[0]
  BY <1>2, <1>3, <1>4
<1>6. ASSUME NEW i \in 1 .. N, a[i - 1] \in P[i - 1] PROVE a[i] \in P[i]
  <2>1. a[i - 1] \in H /\ a[i - 1] \in Q[i - 1]
    BY <1>3, <1>4, <1>6
  <2>2. a[i] = s[a[i - 1]] /\ s[a[i - 1]] \in H /\ s[a[i - 1]] \in Q[i]
    BY <1>2, <2>1
  <2> QED
    BY <1>3, <1>4, <2>2
<1>7. a[N] \in P[N]
  BY <1>5, <1>6, TurnsKeep
<1> QED
  BY <1>3, <1>4, <1>7

(* The loop of HttpStreamParser::feed ends, whatever the buffer holds:     *)
(* after as many turns as Parse takes, it waits for more input with the    *)
(* buffer aligned.                                                         *)
THEOREM ParseEnds ==
    ASSUME NEW s \in Good, NEW entity
    PROVE  \E f \in Good : Waits(f) /\ f.next = s.next /\ Parse(s, entity) = Rest(f)
<1> DEFINE N == Turns(s)
           H == {x \in Good : x.next = s.next}
           turn == [x \in H |-> Turn(x, entity)]
           Near(x, i) == Waits(x) \/ Measure(x) <= N - i
           Q == [i \in 0 .. N |-> {x \in H : Near(x, i)}]
           Def(f) == [n \in 0 .. N |-> IF n = 0 THEN s ELSE Turn(f[n - 1], entity)]
           a == CHOOSE f : f = Def(f)
<1>1. Parse(s, entity) = Rest(a[N])
  BY DEF Parse
<1>2. Len(s.buf) \in Nat /\ N = 2 * Len(s.buf) + 1 /\ N \in Nat
  BY GoodFields DEF Turns
<1> HIDE DEF N
<1>h. s \in H /\ \A x \in H : x \in Good /\ Measure(x) \in Nat
  BY MeasureType
<1>3. turn \in [H -> H]
  BY TurnGood
<1>4. \A x \in H : turn[x] = Turn(x, entity)
  OBVIOUS
<1>5. \A i \in 0 .. N : Q[i] = {x \in H : Near(x, i)}
  OBVIOUS
<1>6. s \in Q[0]
  <2>1. Near(s, 0)
    BY <1>2, <1>h DEF Measure
  <2> HIDE DEF H, Near, Q
  <2> QED
    BY <1>2, <1>5, <1>h, <2>1
<1> HIDE DEF turn, Q
<1>7. ASSUME NEW i \in 1 .. N, NEW x \in H, x \in Q[i - 1] PROVE turn[x] \in Q[i]
  <2>1. i \in 0 .. N /\ i - 1 \in 0 .. N
    BY <1>2
  <2>2. Near(x, i - 1)
    <3> HIDE DEF H, Near
    <3> QED
      BY <1>5, <1>7, <2>1
  <2> DEFINE y == Turn(x, entity)
  <2>3. /\ y \in H /\ (Waits(x) => y = x) /\ (~Waits(x) => Measure(y) < Measure(x))
    BY TurnGood
  <2>4. Measure(x) \in Nat /\ Measure(y) \in Nat
    <3> HIDE DEF H, y
    <3> QED
      BY <1>h, <2>3
  <2> HIDE DEF y
  <2>5. Near(y, i)
    BY <1>2, <2>1, <2>2, <2>3, <2>4
  <2> HIDE DEF Near, H
  <2> QED
    BY <1>4, <1>5, <2>1, <2>3, <2>5 DEF y
<1>8. ASSUME NEW g, IsTurns(g, H, turn, s, N)
      PROVE  a[0] = s /\ \A i \in 1 .. N : a[i - 1] \in H => a[i] = turn[a[i - 1]]
  <2> HIDE DEF H
  <2>1. g \in [0 .. N -> H] /\ g[0] = s /\ \A i \in 1 .. N : g[i] = turn[g[i - 1]]
    BY <1>8 DEF IsTurns
  <2>2. \A i \in 1 .. N : g[i] = Turn(g[i - 1], entity)
    <3>1. \A i \in 1 .. N : g[i - 1] \in H
      BY <1>2, <2>1
    <3> QED
      BY <1>4, <2>1, <3>1
  <2>3. g = Def(g)
    <3>1. \A i \in 0 .. N : i # 0 => i \in 1 .. N
      BY <1>2
    <3> QED
      BY <2>1, <2>2, <3>1
  <2>4. a = Def(a)
    <3> HIDE DEF Def
    <3> QED
      BY <2>3
  <2> HIDE DEF a
  <2>5. \A i \in 0 .. N : a[i] = IF i = 0 THEN s ELSE Turn(a[i - 1], entity)
    BY <2>4
  <2>6. 0 \in 0 .. N /\ \A i \in 1 .. N : i \in 0 .. N /\ i # 0
    BY <1>2
  <2> QED
    BY <1>4, <2>5, <2>6
<1> HIDE DEF H, a
<1>9. a[N] \in H /\ a[N] \in Q[N]
  <2>1. s \in H /\ N \in Nat
    BY <1>2, <1>h
  <2> HIDE DEF Near, Def
  <2> QED
    BY <1>3, <1>6, <1>7, <1>8, <2>1, LoopEnds
<1> DEFINE f == a[N]
<1>10. f \in H /\ Near(f, N)
  <2>1. N \in 0 .. N
    BY <1>2
  <2> HIDE DEF Near
  <2> QED
    BY <1>5, <1>9, <2>1
<1>11. f \in Good /\ f.next = s.next
  BY <1>10 DEF H
<1>12. Waits(f)
  <2> SUFFICES ASSUME ~Waits(f) PROVE FALSE
    OBVIOUS
  <2> HIDE DEF f
  <2>1. f.buf \in Seq(Unit) /\ Len(f.buf) \in Nat /\ f.buf # <<>>
    BY <1>11, GoodFields DEF Waits
  <2>2. Measure(f) <= 0
    BY <1>2, <1>10
  <2>3. Len(f.buf) > 0
    BY <2>1
  <2> QED
    BY <2>1, <2>2, <2>3 DEF Measure
<1> QED
  BY <1>1, <1>11, <1>12

(* feed keeps the buffer aligned.                                          *)
LEMMA ParseGood ==
    ASSUME NEW s \in Good, NEW entity
    PROVE  Parse(s, entity) \in Good /\ Parse(s, entity).next = s.next
<1>1. PICK f \in Good : f.next = s.next /\ Parse(s, entity) = Rest(f)
  BY ParseEnds
<1> QED
  BY <1>1, RestGood

-----------------------------------------------------------------------------
(* The two parsers of a connection.                                        *)

Parsers == [buf : Seq(Unit), st : States, off : Nat, next : Nat, synced : BOOLEAN, scan : Nat]

(* A parser that has had no chunk has no units; one that has had some      *)
(* holds the units up to where the next chunk is expected.                 *)
InStep(p) ==
    /\ p.next = 0 => p.buf = <<>> /\ p.st = HeadersState
    /\ p.next # 0 => Aligned(p.buf, p.off) /\ p.next = p.off + Len(p.buf)

(* What it keeps for decoding lies behind it and has been reported.        *)
Ready(p, o) == p.st.t # "headers" => Kept(p.st.comp, p.off, o)

(* The invariant: what has been emitted is faithful, while the connection  *)
(* is not a tunnel both parsers are in step with their streams, and what   *)
(* they keep for decoding has been reported.                               *)
RecordsInv ==
    /\ sc \in Scenarios /\ pos \in [Dirs -> Nat]
    /\ conn \in [pending : Seq(Kinds), mode : {"http", "tunnel"}]
    /\ overflow \in BOOLEAN
    /\ out \in [Dirs -> Emitted]
    /\ parser \in [Dirs -> Parsers]
    /\ conn.mode = "http" => \A d \in Dirs : InStep(parser[d])
    /\ \A d \in Dirs : Ready(parser[d], out[d])

(* A chunk is a piece of the stream.                                       *)
LEMMA ChunkAligned ==
    ASSUME sc \in Scenarios, NEW d \in Dirs, NEW k \in Nat, NEW n \in Nat \ {0},
           k + n <= Len(Wire(d))
    PROVE  /\ SubSeq(Wire(d), k + 1, k + n) \in Seq(Unit)
           /\ Len(SubSeq(Wire(d), k + 1, k + n)) = n
           /\ Aligned(SubSeq(Wire(d), k + 1, k + n), k + 1)
           /\ SubSeq(Wire(d), k + 1, k + n)[1].p = k + 1
<1> DEFINE q == Wire(d)
           T == {sc[d][i] : i \in DOMAIN sc[d]}
           c == SubSeq(q, k + 1, k + n)
<1>1. d \in {"a", "b"} /\ q = sc[d]
  BY DEF Dirs, Wire
<1>2. q \in Seq(T) /\ \A i \in DOMAIN q : q[i].p = i
  <2>1. /\ sc[d] \in Seq({sc[d][i] : i \in DOMAIN sc[d]})
        /\ \A i \in DOMAIN sc[d] : sc[d][i].p = i
    BY <1>1, ScenariosAssumption
  <2> QED
    BY <1>1, <2>1
<1>3. T \subseteq Unit
  <2>1. T \in {{x[e][i] : i \in DOMAIN x[e]} : x \in Scenarios, e \in Dirs}
    OBVIOUS
  <2> HIDE DEF T
  <2> QED
    BY <2>1 DEF Unit
<1> HIDE DEF q, T
<1>4. Len(q) \in Nat /\ DOMAIN q = 1 .. Len(q) /\ \A i \in 1 .. Len(q) : q[i] \in Unit /\ q[i].p = i
  BY <1>2, <1>3
<1>5. k + 1 \in Int /\ k + n \in Int /\ \A i \in k + 1 .. k + n : i \in 1 .. Len(q)
  BY <1>4 DEF q
<1>6. /\ c \in Seq(Unit)
      /\ Len(c) = IF k + 1 <= k + n THEN (k + n) - (k + 1) + 1 ELSE 0
      /\ \A i \in 1 .. (k + n) - (k + 1) + 1 : c[i] = q[(k + 1) + i - 1]
  BY <1>4, <1>5, SubSeqProperties
<1>7. Len(c) = n
  BY <1>6
<1>8. ASSUME NEW i \in 1 .. n PROVE c[i].p = (k + 1) + i - 1
  <2>1. i \in 1 .. (k + n) - (k + 1) + 1 /\ (k + 1) + i - 1 \in 1 .. Len(q)
    BY <1>4, <1>5
  <2> QED
    BY <1>4, <1>6, <2>1
<1> HIDE DEF c
<1>9. Aligned(c, k + 1)
  BY <1>7, <1>8 DEF Aligned
<1>10. c[1].p = k + 1
  <2>1. 1 \in 1 .. n /\ (k + 1) + 1 - 1 = k + 1
    OBVIOUS
  <2> QED
    BY <1>8, <2>1
<1> QED
  BY <1>6, <1>7, <1>9, <1>10 DEF c, q

(* A chunk behind what the buffer holds.                                   *)
LEMMA JoinedAligned ==
    ASSUME NEW buf \in Seq(Unit), NEW off \in Nat, Aligned(buf, off),
           NEW chunk \in Seq(Unit), Aligned(chunk, off + Len(buf))
    PROVE  /\ buf \o chunk \in Seq(Unit) /\ Len(buf \o chunk) = Len(buf) + Len(chunk)
           /\ Aligned(buf \o chunk, off)
<1> DEFINE r == buf \o chunk
<1>1. Len(buf) \in Nat /\ Len(chunk) \in Nat
  OBVIOUS
<1>2. /\ r \in Seq(Unit) /\ Len(r) = Len(buf) + Len(chunk)
      /\ \A i \in 1 .. Len(buf) + Len(chunk) : r[i] = IF i <= Len(buf) THEN buf[i] ELSE chunk[i - Len(buf)]
  BY ConcatProperties
<1> HIDE DEF r
<1>3. ASSUME NEW i \in 1 .. Len(r) PROVE r[i].p = off + i - 1
  <2>1. CASE i <= Len(buf)
    <3>1. i \in 1 .. Len(buf) /\ r[i] = buf[i]
      BY <1>1, <1>2, <2>1
    <3> QED
      BY <3>1 DEF Aligned
  <2>2. CASE ~(i <= Len(buf))
    <3>1. i - Len(buf) \in 1 .. Len(chunk) /\ r[i] = chunk[i - Len(buf)]
      BY <1>1, <1>2, <2>2
    <3>2. chunk[i - Len(buf)].p = (off + Len(buf)) + (i - Len(buf)) - 1
      BY <3>1 DEF Aligned
    <3> QED
      BY <1>1, <1>2, <3>1, <3>2
  <2> QED
    BY <2>1, <2>2
<1>4. Aligned(r, off)
  BY <1>3 DEF Aligned
<1> QED
  BY <1>2, <1>4 DEF r

(* feed up to its loop: whether the chunk continues the stream, is the     *)
(* first or comes behind a gap, the buffer is aligned with it.             *)
LEMMA ArriveGood ==
    ASSUME NEW d, NEW s \in Runs, InStep(s), Held(s), NEW at \in Nat \ {0}, NEW chunk \in Seq(Unit),
           Len(chunk) > 0, Aligned(chunk, at), chunk[1].p = at
    PROVE  Arrive(d, s, chunk) \in Good /\ Arrive(d, s, chunk).next # 0
<1> DEFINE fresh == [s EXCEPT !.off = at, !.synced = (at = 1)]
           reset == [s EXCEPT !.buf = <<>>, !.st = HeadersState, !.off = at,
                              !.synced = FALSE, !.scan = 0, !.pending = <<>>]
           t == CASE s.next = 0 -> fresh
                  [] s.next \notin {0, at} -> reset
                  [] OTHER -> s
           g == Arrive(d, s, chunk)
<1>1. g = [t EXCEPT !.buf = @ \o chunk, !.next = at + Len(chunk)]
  BY DEF Arrive
<1>2. <<>> \in Seq(Unit) /\ <<>> \in Seq(Kinds) /\ Len(<<>>) = 0 /\ HeadersState \in States /\ Len(chunk) \in Nat
  BY DEF States
<1>3. \A off \in Nat : Aligned(<<>>, off)
  BY <1>2 DEF Aligned
<1>4. t \in Runs /\ Aligned(t.buf, t.off) /\ t.off + Len(t.buf) = at /\ Held(t)
  <2>1. CASE s.next = 0
    <3> DEFINE y == (at = 1)
    <3>0. y \in BOOLEAN
      OBVIOUS
    <3>1. t = [s EXCEPT !.off = at, !.synced = y]
      BY <2>1
    <3> HIDE DEF t, y
    <3>2. t \in Runs /\ t.buf = s.buf /\ t.off = at /\ t.st = s.st
      BY <3>0, <3>1 DEF Runs
    <3>3. t.buf = <<>> /\ t.st = HeadersState
      BY <2>1, <3>2 DEF InStep
    <3>4. Held(t)
      BY <3>3 DEF Held, HeadersState
    <3> QED
      BY <1>2, <1>3, <3>2, <3>3, <3>4
  <2>2. CASE s.next \notin {0, at}
    <3>1. t = reset
      BY <2>2
    <3> HIDE DEF t
    <3>2. t \in Runs /\ t.buf = <<>> /\ t.off = at /\ t.st = HeadersState
      BY <1>2, <3>1 DEF Runs
    <3>3. Held(t)
      BY <3>2 DEF Held, HeadersState
    <3> QED
      BY <1>2, <1>3, <3>2, <3>3
  <2>3. CASE s.next = at
    <3>1. t = s
      BY <2>3
    <3> QED
      BY <2>3, <3>1 DEF InStep
  <2> QED
    BY <2>1, <2>2, <2>3
<1> HIDE DEF t, fresh, reset
<1>5. t.buf \in Seq(Unit) /\ t.off \in Nat /\ Len(t.buf) \in Nat
  BY <1>4 DEF Runs
<1> DEFINE b == t.buf \o chunk
           x == at + Len(chunk)
<1>6. b \in Seq(Unit) /\ Len(b) = Len(t.buf) + Len(chunk) /\ Aligned(b, t.off)
  BY <1>4, <1>5, JoinedAligned
<1>7. x \in Nat /\ x # 0 /\ x = t.off + Len(b)
  BY <1>2, <1>4, <1>5, <1>6
<1>8. g = [t EXCEPT !.buf = b, !.next = x]
  BY <1>1, <1>4 DEF Runs
<1> HIDE DEF g, b, x
<1>9. g \in Runs /\ g.buf = b /\ g.next = x /\ g.off = t.off /\ g.st = t.st /\ g.out = t.out
  BY <1>4, <1>6, <1>7, <1>8 DEF Runs
<1>10. Held(g)
  BY <1>4, <1>9 DEF Held
<1> QED
  BY <1>6, <1>7, <1>9, <1>10 DEF Good, g

(* Nothing has been emitted at the start.                                  *)
LEMMA RecordsInit == Init => RecordsInv
<1> SUFFICES ASSUME Init PROVE RecordsInv
  OBVIOUS
<1>1. <<>> \in Seq(Unit) /\ <<>> \in Seq(Kinds) /\ HeadersState \in States
  BY DEF States
<1>2. NewParser \in Parsers /\ NewParser.next = 0 /\ NewParser.buf = <<>> /\ NewParser.st = HeadersState
  BY <1>1 DEF NewParser, Parsers
<1>e. {} \in Emitted
  BY DEF Emitted
<1>3. parser = [d \in Dirs |-> NewParser] /\ sc \in Scenarios
      /\ out = [d \in Dirs |-> {}] /\ pos = [d \in Dirs |-> 0] /\ overflow = FALSE
      /\ conn = [pending |-> <<>>, mode |-> "http"]
  BY DEF Init
<1> HIDE DEF NewParser, Parsers
<1>4. parser \in [Dirs -> Parsers] /\ \A d \in Dirs : InStep(parser[d]) /\ Ready(parser[d], out[d])
  BY <1>2, <1>3 DEF InStep, Ready, HeadersState
<1>5. conn \in [pending : Seq(Kinds), mode : {"http", "tunnel"}]
  BY <1>1, <1>3
<1>6. out \in [Dirs -> Emitted] /\ pos \in [Dirs -> Nat] /\ overflow \in BOOLEAN
  BY <1>3, <1>e
<1> QED
  BY <1>3, <1>4, <1>5, <1>6 DEF RecordsInv

(* A chunk that is parsed.                                                 *)
LEMMA FeedKeeps ==
    ASSUME RecordsInv, NEW d \in Dirs, NEW n \in 1 .. MaxChunk, Feed(d, n)
    PROVE  RecordsInv'
<1> DEFINE chunk == SubSeq(Wire(d), pos[d] + 1, pos[d] + n)
           s == Open(d, parser[d])
<1>1. /\ sc \in Scenarios /\ pos \in [Dirs -> Nat] /\ out \in [Dirs -> Emitted]
      /\ conn \in [pending : Seq(Kinds), mode : {"http", "tunnel"}]
      /\ overflow \in BOOLEAN /\ parser \in [Dirs -> Parsers]
      /\ conn.mode = "http" => \A x \in Dirs : InStep(parser[x])
      /\ \A x \in Dirs : Ready(parser[x], out[x])
  BY DEF RecordsInv
<1>2. n \in Nat \ {0} /\ pos[d] \in Nat
  BY <1>1, Limits
<1>3. sc' = sc /\ pos[d] + n <= Len(Wire(d)) /\ pos' = [pos EXCEPT ![d] = @ + n]
  BY DEF Feed
<1>4. pos' \in [Dirs -> Nat]
  BY <1>1, <1>2, <1>3
<1>5. CASE conn.mode = "tunnel"
  <2>1. UNCHANGED <<parser, conn, out, overflow>>
    BY <1>5 DEF Feed
  <2> QED
    BY <1>1, <1>3, <1>4, <2>1 DEF RecordsInv
<1>6. CASE conn.mode # "tunnel"
  <2>0. conn.mode = "http"
    BY <1>1, <1>6
  <2>1. PICK r : r = Parse(Arrive(d, s, chunk), Entity(d)) /\ Put(d, r)
    BY <1>6 DEF Feed
  <2>2. /\ chunk \in Seq(Unit) /\ Len(chunk) = n /\ Aligned(chunk, pos[d] + 1)
        /\ chunk[1].p = pos[d] + 1
    <3> DEFINE k == pos[d]
    <3>1. k \in Nat /\ k + n <= Len(Wire(d))
      BY <1>2, <1>3
    <3> HIDE DEF k
    <3>2. LET c == SubSeq(Wire(d), k + 1, k + n)
          IN  c \in Seq(Unit) /\ Len(c) = n /\ Aligned(c, k + 1) /\ c[1].p = k + 1
      BY <1>1, <1>2, <3>1, ChunkAligned
    <3> QED
      BY <3>2 DEF k
  <2>3. s \in Runs /\ InStep(s) /\ Held(s)
    <3> DEFINE p == parser[d]
               o == out[d]
    <3>1. p \in Parsers /\ o \in Emitted /\ InStep(p) /\ Ready(p, o)
      BY <1>1, <2>0
    <3>2. s = [buf |-> p.buf, st |-> p.st, off |-> p.off, next |-> p.next,
               synced |-> p.synced, scan |-> p.scan, pending |-> conn.pending,
               mode |-> conn.mode, out |-> o, mark |-> o, overflow |-> overflow]
      BY DEF Open
    <3> HIDE DEF p, o, s
    <3>3. conn.pending \in Seq(Kinds) /\ conn.mode \in {"http", "tunnel"}
      BY <1>1
    <3>4. s \in Runs
      BY <1>1, <3>1, <3>2, <3>3 DEF Runs, Parsers
    <3>5. s.buf = p.buf /\ s.off = p.off /\ s.next = p.next /\ s.st = p.st /\ s.out = o
      BY <3>2
    <3> QED
      BY <3>1, <3>4, <3>5 DEF InStep, Held, Ready
  <2>4. pos[d] + 1 \in Nat \ {0} /\ Len(chunk) > 0
    <3> DEFINE l == Len(chunk)
               k == pos[d]
    <3>1. k \in Nat /\ l = n
      BY <1>2, <2>2
    <3> HIDE DEF l, k
    <3>2. k + 1 \in Nat \ {0} /\ l > 0
      BY <1>2, <3>1
    <3> QED
      BY <3>2 DEF l, k
  <2> DEFINE a == Arrive(d, s, chunk)
  <2> HIDE DEF s, chunk
  <2>5. a \in Good /\ a.next # 0
    BY <2>2, <2>3, <2>4, ArriveGood
  <2> HIDE DEF a
  <2>6. r \in Good /\ r.next # 0
    BY <2>1, <2>5, ParseGood DEF a
  <2>7. /\ r \in Runs /\ r.out \in Emitted /\ Held(r) /\ r.pending \in Seq(Kinds) /\ Aligned(r.buf, r.off)
        /\ r.mode \in {"http", "tunnel"} /\ r.overflow \in BOOLEAN
        /\ r.mode = "http" => r.next = r.off + Len(r.buf)
    BY <2>6, GoodFields DEF Runs
  <2> DEFINE p == [buf |-> r.buf, st |-> r.st, off |-> r.off, next |-> r.next,
                   synced |-> r.synced, scan |-> r.scan]
  <2>8. /\ parser' = [parser EXCEPT ![d] = p]
        /\ conn' = [pending |-> r.pending, mode |-> r.mode]
        /\ out' = [out EXCEPT ![d] = r.out] /\ overflow' = r.overflow
    BY <2>1 DEF Put
  <2>9. p \in Parsers
    BY <2>7 DEF Runs, Parsers
  <2>10. p.buf = r.buf /\ p.off = r.off /\ p.next = r.next /\ p.st = r.st
    OBVIOUS
  <2> HIDE DEF p
  <2>11. parser' \in [Dirs -> Parsers] /\ out' \in [Dirs -> Emitted]
    BY <1>1, <2>7, <2>8, <2>9
  <2>12. conn' \in [pending : Seq(Kinds), mode : {"http", "tunnel"}] /\ overflow' \in BOOLEAN
    BY <2>7, <2>8
  <2>13. ASSUME conn'.mode = "http", NEW x \in Dirs PROVE InStep(parser'[x])
    <3>1. r.mode = "http"
      BY <2>8, <2>13
    <3>2. InStep(p)
      BY <2>6, <2>7, <2>10, <3>1 DEF InStep
    <3>3. parser'[x] = IF x = d THEN p ELSE parser[x]
      BY <1>1, <2>8
    <3>4. InStep(parser[x])
      BY <1>1, <2>0
    <3> QED
      BY <3>2, <3>3, <3>4
  <2>14. conn'.mode = "http" => \A x \in Dirs : InStep(parser'[x])
    BY <2>13
  <2>15. ASSUME NEW x \in Dirs PROVE Ready(parser'[x], out'[x])
    <3>1. parser'[x] = IF x = d THEN p ELSE parser[x]
      BY <1>1, <2>8
    <3>2. out'[x] = IF x = d THEN r.out ELSE out[x]
      BY <1>1, <2>8
    <3>3. Ready(p, r.out)
      BY <2>7, <2>10 DEF Held, Ready
    <3> QED
      BY <1>1, <3>1, <3>2, <3>3
  <2> QED
    BY <1>1, <1>3, <1>4, <2>11, <2>12, <2>14, <2>15 DEF RecordsInv, InStep, Aligned, Ready, Kept
<1> QED
  BY <1>5, <1>6

(* The end of the flow: a body that ends with the connection is decoded.   *)
LEMMA CloseKeeps ==
    ASSUME RecordsInv, Close
    PROVE  RecordsInv'
<1>1. /\ sc \in Scenarios /\ pos \in [Dirs -> Nat] /\ out \in [Dirs -> Emitted]
      /\ conn \in [pending : Seq(Kinds), mode : {"http", "tunnel"}]
      /\ overflow \in BOOLEAN /\ parser \in [Dirs -> Parsers]
      /\ \A d \in Dirs : Ready(parser[d], out[d])
  BY DEF RecordsInv
<1>2. /\ out' = IF conn.mode = "tunnel" THEN out ELSE [d \in Dirs |-> FinishOf(d)]
      /\ parser' = [d \in Dirs |-> NewParser]
      /\ sc' = sc /\ conn' = conn /\ pos' = pos /\ overflow' = overflow
  BY DEF Close
<1>3. ASSUME NEW d \in Dirs PROVE FinishOf(d) \in Emitted
  <2> DEFINE st == parser[d].st
             off == parser[d].off
  <2>1. st \in States /\ off \in Nat /\ out[d] \in Emitted /\ (st.t # "headers" => Kept(st.comp, off, out[d]))
    <3>1. parser[d] \in Parsers /\ out[d] \in Emitted /\ Ready(parser[d], out[d])
      BY <1>1
    <3> QED
      BY <3>1 DEF Parsers, Ready
  <2>2. FinishOf(d) = out[d] \cup IF st.t = "close" /\ st.seen <= MaxBody
                                  THEN decoded_record(st, Entity(d), off) ELSE {}
    BY DEF FinishOf
  <2> HIDE DEF st, off
  <2>3. CASE st.t = "close"
    <3>1. st \in OpenBodies
      BY <2>1, <2>3 DEF States, HeadersState
    <3>2. out[d] \cup decoded_record(st, Entity(d), off) \in Emitted
      BY <2>1, <2>3, <3>1, EmitDecoded
    <3> QED
      BY <2>1, <2>2, <3>2
  <2>4. CASE st.t # "close"
    BY <2>1, <2>2, <2>4
  <2> QED
    BY <2>3, <2>4
<1>4. out' \in [Dirs -> Emitted]
  BY <1>1, <1>2, <1>3
<1>5. <<>> \in Seq(Unit) /\ HeadersState \in States
  BY DEF States
<1>6. NewParser \in Parsers /\ NewParser.next = 0 /\ NewParser.buf = <<>> /\ NewParser.st = HeadersState
  BY <1>5 DEF NewParser, Parsers
<1> HIDE DEF NewParser, Parsers
<1>7. parser' \in [Dirs -> Parsers] /\ \A d \in Dirs : parser'[d] = NewParser
  BY <1>2, <1>6
<1>8. \A d \in Dirs : parser'[d].next = 0 /\ parser'[d].buf = <<>> /\ parser'[d].st = HeadersState
  BY <1>6, <1>7
<1>9. \A d \in Dirs : Ready(parser'[d], out'[d])
  BY <1>8 DEF Ready, HeadersState
<1> QED
  BY <1>1, <1>2, <1>4, <1>7, <1>8, <1>9 DEF RecordsInv, InStep, Ready, Kept

(* No step makes a record that is not faithful, or puts a parser out of    *)
(* step.                                                                   *)
LEMMA RecordsNext == RecordsInv /\ [Next]_vars => RecordsInv'
<1> SUFFICES ASSUME RecordsInv, [Next]_vars PROVE RecordsInv'
  OBVIOUS
<1>1. ASSUME NEW d \in Dirs, NEW n \in 1 .. MaxChunk, Feed(d, n) PROVE RecordsInv'
  BY <1>1, FeedKeeps
<1>2. ASSUME NEW d \in Dirs, NEW n \in 1 .. MaxChunk, Miss(d, n) PROVE RecordsInv'
  <2>1. /\ pos' = [pos EXCEPT ![d] = @ + n]
        /\ UNCHANGED <<sc, parser, conn, out, overflow>>
    BY <1>2 DEF Miss
  <2>2. n \in Nat /\ pos \in [Dirs -> Nat]
    BY Limits DEF RecordsInv
  <2>3. pos' \in [Dirs -> Nat]
    BY <2>1, <2>2
  <2> QED
    BY <2>1, <2>3 DEF RecordsInv
<1>3. CASE Close
  BY <1>3, CloseKeeps
<1>4. CASE UNCHANGED vars
  BY <1>4 DEF RecordsInv, vars
<1> QED
  BY <1>1, <1>2, <1>3, <1>4 DEF Next

(* However the directions of a connection are cut into chunks, interleaved *)
(* and holed, both parsers stay in step with their streams until the       *)
(* connection becomes a tunnel (HttpConnection::feed).                     *)
THEOREM HttpInvariant == Spec => []RecordsInv
<1>1. Init => RecordsInv
  BY RecordsInit
<1>2. RecordsInv /\ [Next]_vars => RecordsInv'
  BY RecordsNext
<1> QED
  BY <1>1, <1>2, PTL DEF Spec

(* Every record of a header or a body holds the bytes that stand at its    *)
(* offset of the stream, whatever is lost, skipped, misread or cut, and    *)
(* none spans a gap; a decoded record stands behind all bytes it was       *)
(* decoded from, each of which has been reported as body                   *)
(* (HttpStreamParser::feed, finish and decoded_record): for any exchange   *)
(* and any limits.                                                         *)
THEOREM RecordsCorrect == Spec => []RecordsTrue
<1>1. RecordsInv => RecordsTrue
  BY DEF RecordsInv, RecordsTrue, Faithful, Emitted
<1> QED
  BY <1>1, HttpInvariant, PTL
=============================================================================
