----------------------------- MODULE MCVoxelMap -----------------------------
(***************************************************************************)
(* A robot that moves on, stops and comes back, on a line long enough for  *)
(* voxels to be suppressed behind it, with frames that see near and far.   *)
(* The hash sends all voxels to three neighbouring buckets at the end of a *)
(* small table, so that entries are displaced, wrap around its end, ask    *)
(* for a larger table and are shifted back.                                *)
(***************************************************************************)
EXTENDS VoxelMap

MCSteps == {-2, 0, 3}
MCScans == {<<-2, 0, 1, 3>>, <<9, 4, -3>>, <<9>>}
MCHash == [k \in -9..14 |-> 6 + (k % 3)]

Forwards == {0, 1}
Ahead == {<<1, 3>>}
OneBucketEach == [k \in -5..40 |-> k + 5]
=============================================================================
