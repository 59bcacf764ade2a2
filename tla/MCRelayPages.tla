---------------------------- MODULE MCRelayPages ----------------------------
(* A relay of five events for TLC: four of one kind, two of them in one      *)
(* second, and one of another kind.                                          *)
EXTENDS RelayPages, TLC

CONSTANTS e1, e2, e3, e4, f1, k1, k2

Five == {e1, e2, e3, e4, f1}
Seconds == e1 :> 2 @@ e2 :> 1 @@ e3 :> 1 @@ e4 :> 0 @@ f1 :> 1
TwoKinds == [e \in Five |-> IF e = f1 THEN k2 ELSE k1]
=============================================================================
