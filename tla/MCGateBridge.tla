---------------------------- MODULE MCGateBridge ----------------------------
(* Instances of GateBridge for TLC: two directory events, one stamp, one     *)
(* event outside the family.                                                 *)
EXTENDS GateBridge

CONSTANTS dir1, dir2, stamp, spam

MCEvents == {dir1, dir2, stamp, spam}
MCFamily == {dir1, dir2, stamp}
MCGated  == {dir1, dir2}
MCBig    == {dir2}
=============================================================================
