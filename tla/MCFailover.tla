----------------------------- MODULE MCFailover -----------------------------
(***************************************************************************)
(* Instances of Failover for TLC: both processes serve the one name.       *)
(***************************************************************************)
EXTENDS Failover, TLC

CONSTANTS n1, i1, i2, s1, d1, w1, w2, node1

OneSelector == s1 :> {node1}
OneDsName == s1 :> d1
CtrNameOfImage == i1 :> "c1" @@ i2 :> "c2"
Replicas == Permutations({w1, w2})
BothServe == w1 :> {n1} @@ w2 :> {n1}
=============================================================================
