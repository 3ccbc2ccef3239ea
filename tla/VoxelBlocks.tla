----------------------------- MODULE VoxelBlocks -----------------------------
(***************************************************************************)
(* The map as a plain dictionary from voxels to blocks, through all its    *)
(* maintenance: what the hash table of VoxelMap has to behave like.        *)
(***************************************************************************)
EXTENDS VoxelUpkeep

VARIABLE blocks

blocksVars == <<blocks, upkeepVars>>

BlocksInit == UpkeepInit /\ blocks = <<>>

\* The frame of an empty map is accepted by the number of its points alone.
Accepted(points, verdict) ==
  IF DOMAIN blocks = {} THEN Len(points) >= MinResiduals
  ELSE verdict /\ MayMatch(blocks, FirstPoints(points))

Upkeep(points, at) ==
  /\ Maintained(points, at)
  /\ blocks' = LET added == Added(blocks, points)
               IN IF StrideHit THEN Surroundings(added, at) ELSE added

ProcessMeasurements(step, scan, verdict) ==
  LET at == robot + step
      points == Seen(scan, at)
  IN /\ frame <= MaxFrame
     /\ frame' = frame + 1 /\ robot' = at
     /\ IF Accepted(points, verdict) /\ ShouldUpdate(at) THEN Upkeep(points, at)
        ELSE UNCHANGED <<blocks, upkeep, seen>>

BlocksNext ==
  \E step \in Steps, scan \in Scans, verdict \in Verdicts :
    ProcessMeasurements(step, scan, verdict)

BlocksSpec == BlocksInit /\ [][BlocksNext]_blocksVars

-----------------------------------------------------------------------------
\* The search by voxels misses no stored point that is within reach of it and
\* in a block with enough points, whatever side of a voxel border or of the
\* origin the point is on: either it is among the neighbours or they are all
\* wanted ones no farther away.
NearestAreFound ==
  LET stored == Dense(blocks, DOMAIN blocks)
      reach == IF MaxNear < Window * VoxelSize THEN MaxNear ELSE Window * VoxelSize
  IN \A offset \in UNION {ToSet(scan) : scan \in Scans} :
    LET p == robot + offset
        found == Neighbours(blocks, p)
    IN \A q \in stored :
         \/ Gap(p, q) > reach
         \/ q \in found
         \/ Cardinality(found) = Wanted /\ \A r \in found : Gap(p, r) <= Gap(p, q)

\* What the frame last added saw near the robot stays in the map until the
\* next one is added, through the segmentation that follows: each such point
\* has a stored point next to it, or a full voxel.  So a map once seeded is
\* emptied, and a frame accepted by its number of points alone, only by a
\* frame with nothing near: far points are added and suppressed at once.
KeepsWhatItSaw ==
  \A p \in seen : Gap(p, upkeep[1].at) + 2 * VoxelSize <= MaxDistance => Kept(blocks, p)

\* The threshold of the distance to suppress voxels from the map, as the
\* configuration describes max_distance, taken with the leeway that upkeep
\* may be skipped MaxSkip frames in a row and segments only every Stride-th.
FarVoxelsSuppressed ==
  \A k \in DOMAIN blocks :
    Gap(Head(blocks[k]), robot) <= MaxDistance + MaxSkip * Stride
=============================================================================
