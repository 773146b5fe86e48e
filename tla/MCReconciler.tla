---------------------------- MODULE MCReconciler ----------------------------
(***************************************************************************)
(* Instances of Reconciler for TLC.                                        *)
(***************************************************************************)
EXTENDS Reconciler, TLC

CONSTANTS n1, n2, i1, i2, s1, s2, d1, d2, w1, w2, node1, node2, t1, builtin

(* One nodeSelector, so one DaemonSet for every PrePullImage. *)
OneSelector == s1 :> {node1}
OneDsName == s1 :> d1

(* Two nodeSelectors, the nodes of one among those of the other. *)
TwoSelectors == s1 :> {node1, node2} @@ s2 :> {node2}
TwoDsNames == s1 :> d1 @@ s2 :> d2

(* Images whose crc32 differ, and images whose crc32 collide. *)
CtrNameOfImage == i1 :> "c1" @@ i2 :> "c2"
CtrNameCollision == i1 :> "c1" @@ i2 :> "c1"

(* Each key has its worker; one worker for all. *)
KeyEach == w1 :> {n1} @@ w2 :> {n2}
AllKeys == w1 :> Names
=============================================================================
