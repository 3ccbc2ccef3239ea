--------------------------- MODULE MCOutputChain ---------------------------
(***************************************************************************)
(* Four ticks of samples, each of which may end a scan; a history short    *)
(* enough for a late posterior to fall out of it, and a horizon short      *)
(* enough to expire.                                                       *)
(***************************************************************************)
EXTENDS OutputChain

MCTimes == 1..4
=============================================================================
