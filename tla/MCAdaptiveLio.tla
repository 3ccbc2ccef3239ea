--------------------------- MODULE MCAdaptiveLio ---------------------------
(***************************************************************************)
(* Four samples and three scans that follow each other; the samples that   *)
(* arrive decide whether a scan ends at one or inside a raw interval.      *)
(***************************************************************************)
EXTENDS AdaptiveLio

MCTimes == 1..4
MCScan(b, e) == [begin |-> b, end |-> e]
MCScans == {MCScan(1, 2), MCScan(2, 3), MCScan(3, 4)}
=============================================================================
