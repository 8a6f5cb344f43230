--------------------------- MODULE MCMemoryForget ---------------------------
(* Instances of MemoryForget for TLC.  One record is enough for the races  *)
(* on a task, which is named by its record and shares no row with another. *)
EXTENDS MemoryForget, TLC

ActorSymmetry == Permutations(Workers)
=============================================================================
