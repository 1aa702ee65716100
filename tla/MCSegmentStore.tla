--------------------------- MODULE MCSegmentStore ---------------------------
(***************************************************************************)
(* SegmentStore for TLC.  Records are timestamps, so they are numbers and  *)
(* not interchangeable: there is no symmetry to declare.                   *)
(***************************************************************************)
EXTENDS SegmentStore
=============================================================================
