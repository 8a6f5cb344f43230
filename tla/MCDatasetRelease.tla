-------------------------- MODULE MCDatasetRelease --------------------------
(* Instances of DatasetRelease for TLC.                                      *)
EXTENDS DatasetRelease, TLC

CONSTANTS d1, v1, v2, s1, s2

OneDataset == [v \in Versions |-> d1]

(* The second semantic version is a major release only later data accept.    *)
AcceptsOld == (v1 :> {s1} @@ v2 :> {s1, s2})

RequestSymmetry == Permutations(Requests)
=============================================================================
