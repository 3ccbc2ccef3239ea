-------------------------- MODULE MCLidarHandshake --------------------------
(***************************************************************************)
(* Two slots for three LiDARs: one is listed twice, the later entry with   *)
(* both settings; the other two compete for the slot that is left.         *)
(***************************************************************************)
EXTENDS LidarHandshake, TLC

CONSTANTS first, second, third, pattern, blind

Entry(l, items) == [handle |-> l, items |-> items]

MCEntries == <<Entry(first, (pattern :> 1)),
               Entry(first, (pattern :> 0) @@ (blind :> 100))>>
MCWideBlindSpot == <<Entry(first, (blind :> 200))>>
=============================================================================
