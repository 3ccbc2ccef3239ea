----------------------------- MODULE VoxelUpkeep -----------------------------
(***************************************************************************)
(* What the LIO worker decides with the map of voxels, whatever the map is *)
(* stored in (lio/lidarodom.cpp): the search for the neighbours of a point *)
(* that the match rests on, and when the map is maintained, which happens  *)
(* only now and then, and when far voxels are suppressed, which happens    *)
(* more rarely still.  A map is a function from voxels to blocks.          *)
(*                                                                         *)
(* The numerical match is a free verdict on frames with enough support;    *)
(* the pose is exact.  Far points, for which the code asks for other       *)
(* numbers of neighbours, rotation, and the order and choice of residuals  *)
(* are left out.                                                           *)
(***************************************************************************)
EXTENDS VoxelGrid, Functions

CONSTANTS MaxDistance,    \* max_distance
          Steps,          \* how far the robot can move between frames
          Scans,          \* frames: sequences of places relative to the robot
          SampleSize,     \* sampling_rate * surf_res
          Nearby,         \* voxel_neighborhood
          MaxNear,        \* farthest neighbour: max_dist_to_plane_icp * ratio
          Wanted,         \* max_number_neighbors
          Required,       \* min_number_neighbors
          Closest,        \* num_closest_neighbors
          Occupancy,      \* threshold_voxel_occupancy
          MinResiduals,   \* min_num_residuals
          Trigger,        \* map_update_translation_trigger
          MaxSkip,        \* map_update_max_skip_frames
          InitFrames,     \* init_num_frames
          Stride,         \* fov_segment_stride
          Verdicts,       \* what the numerical gates may say
          MaxFrame        \* bound: frames of a behaviour

ASSUME UpkeepAssumption ==
  /\ MaxDistance \in Nat /\ Steps \subseteq Int /\ Scans \subseteq Seq(Int)
  /\ SampleSize \in Nat \ {0} /\ Nearby \in Nat /\ MaxNear \in Nat \ {0}
  /\ Wanted \in Nat /\ Required \in Nat /\ Closest \in 1..Required /\ Occupancy \in Nat
  /\ MinResiduals \in Nat /\ Trigger \in Nat /\ MaxSkip \in Nat
  /\ InitFrames \in Nat /\ Stride \in Nat /\ MaxFrame \in Nat
  /\ Verdicts \subseteq BOOLEAN

VARIABLES robot,   \* the committed translation
          frame,   \* index_frame
          upkeep,  \* last_map_maintenance_translation_ and _frame_, if any
          seen     \* history: the points of the last frame added to the map

upkeepVars == <<robot, frame, upkeep, seen>>

UpkeepInit == robot = 0 /\ frame = 1 /\ upkeep = <<>> /\ seen = {}

-----------------------------------------------------------------------------
(* addPointToMap, map_incremental, grid_sampling                           *)
With(map, p) ==
  LET k == KeyOf(p, VoxelSize)
      old == IF k \in DOMAIN map THEN map[k] ELSE <<>>
  IN [j \in DOMAIN map \union {k} |-> IF j = k THEN Upserted(old, p) ELSE map[j]]

Added(map, points) ==
  LET after[n \in 0..Len(points)] ==
        IF n = 0 THEN map ELSE With(after[n-1], points[n])
  IN after[Len(points)]

\* The first point of every voxel of the sampling grid.
FirstPoints(points) ==
  {points[i] : i \in {j \in DOMAIN points : \A l \in 1..(j-1) :
     KeyOf(points[l], SampleSize) # KeyOf(points[j], SampleSize)}}

-----------------------------------------------------------------------------
(* searchNeighbors                                                         *)
Window == IF frame < InitFrames THEN 2 ELSE Nearby
Threshold == IF frame < InitFrames THEN 1 ELSE Occupancy

\* Slip: the last voxel on the far side is not visited.
VisitedShort(p) == LET k == KeyOf(p, VoxelSize) IN (k - Window)..(k + Window - 1)

Visited(p) == LET k == KeyOf(p, VoxelSize) IN (k - Window)..(k + Window)

\* The points of blocks that hold enough of them.
Dense(map, keys) ==
  UNION {ToSet(map[k]) : k \in {j \in keys : Len(map[j]) >= Threshold}}

Candidates(map, p) ==
  {q \in Dense(map, Visited(p) \cap DOMAIN map) : Gap(p, q) <= MaxNear}

Nearer(p, q, r) == Gap(p, q) < Gap(p, r) \/ (Gap(p, q) = Gap(p, r) /\ q < r)

\* The nearest of them, as many as are wanted.
Neighbours(map, p) ==
  LET found == Candidates(map, p)
  IN {q \in found : Cardinality({r \in found : Nearer(p, r, q)}) < Wanted}

Supported(map, p) == Cardinality(Neighbours(map, p)) >= Required

\* A key point with enough neighbours gives a residual for each of the closest
\* ones, unless that is too far from the plane, which is left to the verdict.
MayMatch(map, keypoints) ==
  Closest * Cardinality({p \in keypoints : Supported(map, p)}) >= MinResiduals

-----------------------------------------------------------------------------
(* poseEstimation                                                          *)
MovedEnough(at) == Gap(at, upkeep[1].at) >= Trigger
SkippedTooLong == MaxSkip > 0 /\ frame - upkeep[1].frame >= MaxSkip

ShouldUpdate(at) ==
  \/ frame <= InitFrames \/ upkeep = <<>>
  \/ MovedEnough(at) \/ SkippedTooLong

StrideHit == Stride <= 1 \/ frame % Stride = 0 \/ frame <= InitFrames

\* Slip: the distance is that from the origin of the world.
FarFromOrigin(p, at) == Gap(p, 0) > MaxDistance

\* lasermap_fov_segment asks this of the oldest point of a voxel.
TooFar(p, at) == Gap(p, at) > MaxDistance

Surroundings(map, at) ==
  Restrict(map, {k \in DOMAIN map : ~TooFar(Head(map[k]), at)})

Seen(scan, at) == [i \in DOMAIN scan |-> at + scan[i]]

Maintained(points, at) ==
  /\ upkeep' = <<[at |-> at, frame |-> frame]>>
  /\ seen' = ToSet(points)
-----------------------------------------------------------------------------
\* A point near the last place of maintenance has a stored point next to it,
\* or a full voxel.
Kept(map, p) ==
  LET k == KeyOf(p, VoxelSize)
  IN /\ k \in DOMAIN map
     /\ \/ Len(map[k]) = Capacity
        \/ \E q \in ToSet(map[k]) : Gap(p, q) <= MinDist
=============================================================================
