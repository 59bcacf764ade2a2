---------------------------- MODULE MCDeviceSlot ----------------------------
(* One v2 bind the address signed, and a revocation of its device it did not. *)
EXTENDS DeviceSlot, TLC

CONSTANTS a, b, c, d, bind2, advice, phone

Two == {bind2, advice}
TwoHeaders == bind2 :> "bind2" @@ advice :> "revoke"
OnePhone == [s \in Two |-> phone]
NamesNone == <<>>
=============================================================================
