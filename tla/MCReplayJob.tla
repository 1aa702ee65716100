---------------------------- MODULE MCReplayJob ----------------------------
(***************************************************************************)
(* ReplayJob for TLC: two segments, two flows on two workers, occurrences  *)
(* within a record, across records and across the segments.                *)
(***************************************************************************)
EXTENDS ReplayJob

Record(flow, own, cross) == [flow |-> flow, own |-> own, cross |-> cross]
MCSegmentOf == << <<Record(0, TRUE, FALSE), Record(1, TRUE, FALSE)>>,
                  <<Record(0, FALSE, TRUE)>> >>
MCWorkers == 0 .. 1

=============================================================================
