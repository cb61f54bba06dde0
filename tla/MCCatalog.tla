------------------------------ MODULE MCCatalog ------------------------------
(* Two documents, one for everybody and one for the finance group, two          *)
(* overlapping ingestion runs, and two users who share one of their groups.     *)
EXTENDS Catalog, TLC

TwoAcls == [u \in Uris |-> IF u = 1 THEN "all" ELSE "finance"]
TwoUsers == [r \in Readers |-> IF r = "ana" THEN {"all"} ELSE {"all", "finance"}]
\* Both files are there at first, or none is: with one edit every combination follows.
AllOrNone == {[u \in Uris |-> 1], [u \in Uris |-> Absent]}
\* The runs are interchangeable; the invariants name none of them.
RunSymmetry == Permutations(Runs)
=============================================================================
