------------------------- MODULE MCPatternMatching -------------------------
(***************************************************************************)
(* PatternMatching for TLC: short raw streams and decoded bodies that      *)
(* meet, overlap or stand alone, rules that cross records, a rule of a     *)
(* service and a regular expression.                                       *)
(***************************************************************************)
EXTENDS PatternMatching

CONSTANTS O1, O2
MCOps == {O1, O2}

Expr(kind, word, direction, view, service) ==
    [kind |-> kind, word |-> word, direction |-> direction, view |-> view,
     service |-> service]
Short == Expr("literal", <<"b">>, "both", None, None)
Long == Expr("literal", <<"a", "b", "a">>, "both", "tcp_raw", None)
Scoped == Expr("regex", <<"b", "a">>, "input", None, "web")

MCIds == 1 .. 2
MCExisting == <<Long>>
MCStreamOf ==
    [raw |-> [flow |-> 1, service |-> "web", view |-> "tcp_raw",
              data |-> <<"a", "b", "a", "b">>],
     body |-> [flow |-> 1, service |-> "web", view |-> "request_decoded"],
     other |-> [flow |-> 2, service |-> "shop", view |-> "tcp_raw",
                data |-> <<"a", "b">>]]

At(s, offset, n) == [s |-> s, offset |-> offset, data |-> SubSeq(Data(s), offset + 1, offset + n)]
(* A decoded body, at the offset where its encoded form ends.              *)
Body(offset, data) == [s |-> "body", offset |-> offset, data |-> data]
Scenario(t, q1, q2) == [traffic |-> t, requests |-> [o \in Ops |-> IF o = O1 THEN q1 ELSE q2]]
Ask(kind, id) == [kind |-> kind, id |-> id]
Give(kind, id, expr) == [kind |-> kind, id |-> id, expr |-> expr, enabled |-> TRUE]
MCScenarios == {
    Scenario(<<At("raw", 0, 1), At("raw", 1, 1), At("raw", 2, 2)>>,
             Give("create", 2, Short), Ask("disable", 1)),
    Scenario(<<At("raw", 0, 2), Body(2, <<"b", "a">>), At("raw", 2, 1)>>,
             Give("create", 2, Scoped), Ask("delete", 1)),
    Scenario(<<At("raw", 0, 2), At("raw", 3, 1)>>,
             [Give("update", 1, Scoped) EXCEPT !.enabled = FALSE], Ask("enable", 1)),
    Scenario(<<Body(1, <<"a", "b">>), At("other", 0, 2), Body(2, <<"b">>)>>,
             Give("create", 2, Short), Ask("lookback", 2)),
    Scenario(<<Body(1, <<"b">>), Body(2, <<"a", "b", "a">>)>>,
             Give("create", 2, Scoped), Ask("lookback", 2))}

(* Bodies that meet: the first ends at the number at which the second      *)
(* starts.                                                                 *)
MeetingScenarios == {
    Scenario(<<Body(1, <<"b">>), Body(2, <<"a">>)>>,
             Give("create", 2, Scoped), Ask("lookback", 2))}

=============================================================================
