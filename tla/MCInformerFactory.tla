------------------------- MODULE MCInformerFactory -------------------------
(***************************************************************************)
(* Instances of InformerFactory for TLC.                                   *)
(***************************************************************************)
EXTENDS InformerFactory, TLC

CONSTANTS t1, t2, c1, c2, ch1, ch2

=============================================================================
