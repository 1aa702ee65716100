---------------------------- MODULE MCHttpStream ----------------------------
(***************************************************************************)
(* HttpStream for TLC: short exchanges, each with one of the framings that *)
(* decide where a message ends.                                            *)
(***************************************************************************)
EXTENDS HttpStream, TLC

Msg(req, kind, status, fr, len, enc) ==
    [req |-> req, kind |-> kind, status |-> status, fr |-> fr, len |-> len, enc |-> enc]
Req(kind, fr, len) == Msg(TRUE, kind, "ok", fr, len, "identity")
Resp(status, fr, len, enc) == Msg(FALSE, "other", status, fr, len, enc)

(* Units before they are numbered.                                         *)
U(k, role) == [k |-> k, role |-> role]
Nl == U("nl", "frame")
Data(n) == [i \in 1 .. n |-> U("data", "body")]
Decoy == <<U("nl", "body"), U("start", "body") @@ [msg |-> Resp("ok", "none", 0, "identity")],
           U("nl", "body"), U("nl", "body")>>
Size(n) == <<U("size", "frame") @@ [n |-> n], Nl>>
Hdr(m) == <<U("start", "frame") @@ [msg |-> m], Nl, Nl>>
HdrF(m) == <<U("start", "frame") @@ [msg |-> m], Nl, U("field", "frame"), Nl, Nl>>

(* Each message with the units of the other side its sender had seen.      *)
After(n, units) == [i \in DOMAIN units |-> units[i] @@ [after |-> n]]
Numbered(units) == [i \in DOMAIN units |-> units[i] @@ [p |-> i]]
Exchange(a, b, clean, plain) ==
    [a |-> Numbered(a), b |-> Numbered(b), clean |-> clean, plain |-> plain]

Get == Req("other", "none", 0)
ReqHead == Req("head", "none", 0)
Connect == Req("connect", "none", 0)

(* A provisional answer, a HEAD whose answer announces a body, and a GET.  *)
Pipelined == Exchange(
    After(0, Hdr(ReqHead) \o HdrF(Get)),
    After(3, Hdr(Resp("info", "none", 0, "identity"))
             \o Hdr(Resp("ok", "len", 2, "identity")))
      \o After(8, Hdr(Resp("nobody", "len", 2, "identity"))), TRUE, FALSE)
(* A body that contains a message, then another message.                   *)
InBody == Exchange(
    After(0, Hdr(Req("other", "len", 1)) \o Data(1) \o Hdr(Get)),
    After(4, Hdr(Resp("ok", "len", 5, "identity")) \o Decoy \o Data(1))
      \o After(7, Hdr(Resp("ok", "none", 0, "identity")) \o Decoy), TRUE, FALSE)
Encoded == Exchange(
    After(0, Hdr(Get) \o Hdr(Get)),
    After(3, Hdr(Resp("ok", "len", 2, "gzip")) \o Data(2))
      \o After(6, Hdr(Resp("ok", "none", 0, "gzip")) \o Data(2)), TRUE, FALSE)
Chunks(enc, trailer) == Exchange(
    After(0, Hdr(Get) \o Hdr(Get)),
    After(3, Hdr(Resp("ok", "chunked", 0, enc)) \o Size(1) \o Data(1) \o <<Nl>>
             \o Size(1) \o Data(1) \o <<Nl>> \o Size(0)
             \o (IF trailer THEN <<U("field", "frame"), Nl>> ELSE <<>>) \o <<Nl>>)
      \o After(6, Hdr(Resp("ok", "len", 0, "identity"))), TRUE, TRUE)
(* Bodies beyond the limits for capture and for decoding.                  *)
Large == Exchange(
    After(0, Hdr(Get) \o Hdr(Get)),
    After(3, Hdr(Resp("ok", "len", MaxBody + 1, "gzip")) \o Data(MaxBody + 1))
      \o After(6, Hdr(Resp("ok", "len", MaxDecode + 1, "gzip")) \o Data(MaxDecode + 1)),
    TRUE, FALSE)
Bomb == Exchange(
    After(0, Hdr(Get)),
    After(3, Hdr(Resp("ok", "chunked", 0, "bomb")) \o Size(MaxBody + 1)
             \o Data(MaxBody + 1) \o <<Nl>> \o Size(0) \o <<Nl>>), TRUE, FALSE)
Inside == [i \in 1 .. 3 |-> [Hdr(Get)[i] EXCEPT !.role = "raw"]]
Tunnel == Exchange(
    After(0, Hdr(Connect)) \o After(3, Inside),
    After(3, Hdr(Resp("ok", "none", 0, "identity"))
             \o Inside), TRUE, FALSE)
Plain == Exchange(
    After(0, Hdr(Get) \o Hdr(Req("other", "len", 2)) \o Data(1) \o <<U("nl", "body")>>
             \o HdrF(Get)),
    After(3, Hdr(Resp("ok", "len", 1, "identity")) \o Data(1)), TRUE, TRUE)
(* More requests than the queue holds; framing that is refused.            *)
Flood == Exchange(
    After(0, Hdr(Get) \o Hdr(Get) \o Hdr(ReqHead)),
    After(3, Hdr(Resp("ok", "len", 1, "identity")) \o Data(1))
      \o After(9, Hdr(Resp("switch", "none", 0, "identity"))), TRUE, FALSE)
Broken == Exchange(
    After(0, Hdr(Req("other", "te", 0)) \o Data(1) \o Hdr(Get)),
    After(3, Hdr(Resp("ok", "bad", 0, "identity")) \o Data(3)
             \o Hdr(Resp("ok", "chunked", 0, "identity")) \o Data(2)), FALSE, FALSE)

MCScenarios == {Pipelined, InBody, Encoded, Chunks("gzip", FALSE), Chunks("identity", TRUE),
                Large, Bomb, Tunnel, Plain, Flood, Broken}
=============================================================================
