---------------------------- MODULE MCBoundKeys ----------------------------
(* An instance of BoundKeys for TLC.                                         *)
EXTENDS BoundKeys, TLC

CONSTANTS a, b, c, bind2, bind3, revoke, phone

\* A v2 bind of a device, a v3 bind of it for key a, and its revocation, all
\* signed.
Three == {bind2, bind3, revoke}
ThreeHeaders == bind2 :> "bind2" @@ bind3 :> "bind3" @@ revoke :> "revoke"
OnePhone == [s \in Three |-> phone]
NamesA == bind3 :> a

\* A public relay holds nothing of the slot, the original of the v2 bind, which
\* others may copy here, or the revocation the same key replaced it with.
Kept == {{}, {<<b, <<bind2, TRUE>>>>}, {<<b, <<revoke, TRUE>>>>}}
=============================================================================
