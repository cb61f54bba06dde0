------------------------------- MODULE MCQuota -------------------------------
(* Instances of Quota for TLC. *)
EXTENDS Quota, TLC
RunSymmetry == Permutations(Runs) \cup Permutations(Sweepers)
\* An ordinary estimate and a negative one that offsets it.
MCEstimates == {-3, 3}
=============================================================================
