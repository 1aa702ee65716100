----------------------------- MODULE MCTcpHalf -----------------------------
(***************************************************************************)
(* TcpHalf for TLC: a stream of a few bytes that crosses the end of a      *)
(* small sequence space.                                                   *)
(***************************************************************************)
EXTENDS TcpHalf
=============================================================================
