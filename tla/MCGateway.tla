------------------------------ MODULE MCGateway ------------------------------
(* Instances of Gateway for TLC: clients that race and retry on one key, with  *)
(* a reuse of that key with another body and on the other endpoint; and two    *)
(* retrying clients on each of the endpoints.                                  *)
EXTENDS Gateway, TLC

FiveRequests == {"a1", "a2", "a3", "b1", "j1"}
OneKey == [r \in FiveRequests |-> "k1"]
Bodies == [r \in FiveRequests |->
             CASE r \in {"a1", "a2", "a3"} -> "a" [] r = "b1" -> "b" [] r = "j1" -> "j"]

FourRequests == {"a1", "a2", "j1", "j2"}
TwoEach == [r \in FourRequests |-> IF r \in {"a1", "a2"} THEN "k1" ELSE "k2"]
EachBody == [r \in FourRequests |-> IF r \in {"a1", "a2"} THEN "a" ELSE "j"]
=============================================================================
