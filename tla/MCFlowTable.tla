---------------------------- MODULE MCFlowTable ----------------------------
(***************************************************************************)
(* FlowTable for TLC: a shard with two TCP keys, one more than it may keep *)
(* tombstones, and a UDP key, and a shard with a UDP key; they compete for *)
(* two slots.                                                              *)
(***************************************************************************)
EXTENDS FlowTable, TLC

MCShardOf == ("t" :> "s1") @@ ("x" :> "s1") @@ ("u" :> "s1") @@ ("v" :> "s2")

(* t, x and u may be opened from the same prefix.                          *)
MCPrefixOf == [x \in Keys \X Dirs |-> IF x = <<"t", "ba">> THEN "q" ELSE "p"]

(* t is opened by either side, opened again, and ended by the FINs of both *)
(* sides, and its data may open it while its tombstone lives; x is a reset *)
(* without a connection.                                                   *)
MCTraffic ==
    [key : {"t"}, dir : {"ab"}, kind : {"syn", "data", "fin"}]
    \cup [key : {"t"}, dir : {"ba"}, kind : {"fin"}]
    \cup [key : {"x"}, dir : {"ab"}, kind : {"rst"}]
    \cup [key : {"u", "v"}, dir : {"ab"}, kind : {"data"}]
=============================================================================
