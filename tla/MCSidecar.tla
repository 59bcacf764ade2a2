------------------------------ MODULE MCSidecar ------------------------------
(* Two claims on one coin, two keys, and two days.                            *)
EXTENDS Sidecar, TLC

CONSTANTS c1, c2, a, b, h1, h2, k1

Two == {c1, c2}
TwoHandles == c1 :> h1 @@ c2 :> h2
TwoOnOneCoin == [c \in Two |-> k1]
TwoKeys == [c \in Two |-> {a, b}]
=============================================================================
