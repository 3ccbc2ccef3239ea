------------------------------ MODULE VoxelGrid ------------------------------
(***************************************************************************)
(* Places on a line, the voxels they fall into and the block of points a   *)
(* voxel holds (common/cloudMap.hpp, addPointToMap).  One axis stands for  *)
(* the three, which the code treats alike; a place is a whole number of    *)
(* units.  Voxel keys are shorts: the places of the model are within the   *)
(* range where they do not wrap.                                           *)
(***************************************************************************)
EXTENDS Integers, Sequences, FiniteSets, SequencesExt

CONSTANTS VoxelSize,  \* size_voxel_map
          Capacity,   \* max_num_points_in_voxel
          MinDist     \* min_distance_points

ASSUME GridAssumption ==
  /\ VoxelSize \in Nat \ {0} /\ Capacity \in Nat \ {0} /\ MinDist \in Nat
  /\ MinDist < 3 * VoxelSize  \* the nearest point is looked for from this far

Gap(p, q) == IF p < q THEN q - p ELSE p - q

\* static_cast<short>(p / size): towards zero, so the voxel at the origin is
\* twice as wide as the others.
KeyOf(p, size) == IF p < 0 THEN -((-p) \div size) ELSE p \div size

\* A block takes a point while it has room and the point is not next to
\* another; the first point of a voxel makes the block.
Upserted(block, p) ==
  IF Len(block) < Capacity /\ \A q \in ToSet(block) : Gap(p, q) > MinDist
  THEN Append(block, p) ELSE block
=============================================================================
