------------------------- MODULE MCDirectoryClaims -------------------------
(* Instances of DirectoryClaims for TLC.                                     *)
EXTENDS DirectoryClaims, TLC

CONSTANTS c1, c2, c3, a, b, h1, h2, h3, k1, k2

\* Two claims on one coin, and one on another coin that wants the first's handle.
Three == {c1, c2, c3}
ThreeHandles == c1 :> h1 @@ c2 :> h2 @@ c3 :> h1
ThreeCoins == c1 :> k1 @@ c2 :> k1 @@ c3 :> k2

\* Two keys to the address of those on one coin, one of them to the third's too.
ThreeKeys == c1 :> {a, b} @@ c2 :> {a, b} @@ c3 :> {a}

\* Three claims on one coin, each with a handle of its own.
ApartHandles == c1 :> h1 @@ c2 :> h2 @@ c3 :> h3
OneCoin == [c \in Claims |-> k1]

\* Two claims of one address, on one coin and for one handle.
Two == {c1, c2}
OneHandle == [c \in Claims |-> h1]

OneKey == [c \in Claims |-> {a}]
AllKeys == [c \in Claims |-> Keys]
=============================================================================
