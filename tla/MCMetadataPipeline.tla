------------------------- MODULE MCMetadataPipeline -------------------------
(* Instances of MetadataPipeline for TLC. *)
EXTENDS MetadataPipeline, TLC

(* Events and barrier callers are interchangeable in the safety runs.      *)
Symmetry == Permutations(Events) \cup Permutations(Clients)
=============================================================================
