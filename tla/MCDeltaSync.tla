----------------------------- MODULE MCDeltaSync ----------------------------
(* Two cabinets share a zone, the third has one of its own.                   *)
EXTENDS DeltaSync, TLC

CONSTANTS c1, c2, c3, z1, z2
MCZoneOf == (c1 :> z1) @@ (c2 :> z1) @@ (c3 :> z2)
=============================================================================
