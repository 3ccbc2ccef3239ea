------------------------------ MODULE VoxelMap ------------------------------
(***************************************************************************)
(* The map of the LIO worker (lio/lidarodom.cpp) in its hash table: frames *)
(* are added, searched and suppressed through the operations of RobinHash. *)
(* A frame is handled in one step.                                         *)
(***************************************************************************)
EXTENDS VoxelUpkeep, RobinHash

VARIABLE table  \* voxel_map

mapVars == <<table, upkeepVars>>

MapInit == UpkeepInit /\ table = NewTable(0)

-----------------------------------------------------------------------------
\* Of the voxels in the buckets, those that a look-up finds.
Found(t) ==
  LET stored == {t.cells[i].key : i \in Filled(t)}
  IN [k \in {j \in stored : Holds(t, j)} |-> ValueOf(t, k)]

\* grid_sampling
WithSample(t, p) ==
  LET k == KeyOf(p, SampleSize) IN IF Holds(t, k) THEN t ELSE Assigned(t, k, p)

Sampled(points) ==
  LET room == Len(points) \div 4
      after[n \in 0..Len(points)] ==
        IF n = 0 THEN Reserved(IF room = 0 THEN 1 ELSE room)
        ELSE WithSample(after[n-1], points[n])
      chosen == after[Len(points)]
  IN {chosen.cells[i].value : i \in Filled(chosen)}

\* The frame of an empty map is accepted by the number of its points alone.
Accepted(points, verdict) ==
  IF table.size = 0 THEN Len(points) >= MinResiduals
  ELSE verdict /\ MayMatch(Found(table), Sampled(points))

\* addPointToMap, map_incremental
WithPoint(t, p) ==
  LET k == KeyOf(p, VoxelSize)
  IN Assigned(t, k, Upserted(IF Holds(t, k) THEN ValueOf(t, k) ELSE <<>>, p))

Extended(points) ==
  LET after[n \in 0..Len(points)] ==
        IF n = 0 THEN table ELSE WithPoint(after[n-1], points[n])
  IN after[Len(points)]

\* lasermap_fov_segment: the voxels are collected, then erased one by one.
WithoutFar(t, cell, at) ==
  IF cell # Vacant /\ TooFar(Head(cell.value), at) THEN Erased(t, cell.key) ELSE t

Segmented(t, at) ==
  LET after[n \in 0..Width(t)] ==
        IF n = 0 THEN t ELSE WithoutFar(after[n-1], t.cells[n-1], at)
  IN after[Width(t)]

Upkeep(points, at) ==
  /\ Maintained(points, at)
  /\ table' = IF StrideHit THEN Segmented(Extended(points), at) ELSE Extended(points)

\* Bound: the voxels of the points are among the keys that have a hash.
InRange(points) ==
  \A p \in ToSet(points) :
    KeyOf(p, VoxelSize) \in Keys /\ KeyOf(p, SampleSize) \in Keys

ProcessMeasurements(step, scan, verdict) ==
  LET at == robot + step
      points == Seen(scan, at)
  IN /\ frame <= MaxFrame /\ InRange(points)
     /\ frame' = frame + 1 /\ robot' = at
     /\ IF Accepted(points, verdict) /\ ShouldUpdate(at) THEN Upkeep(points, at)
        ELSE UNCHANGED <<table, upkeep, seen>>

MapNext ==
  \E step \in Steps, scan \in Scans, verdict \in Verdicts :
    ProcessMeasurements(step, scan, verdict)

MapSpec == MapInit /\ [][MapNext]_mapVars

-----------------------------------------------------------------------------
\* Whatever is displaced, carried on and shifted back in its buckets, the
\* hash table is a dictionary: its voxels, found by key, are those a plain
\* dictionary would hold after the same frames, and frames are accepted and
\* maintenance falls due as they would be over that one.
Dictionary == INSTANCE VoxelBlocks WITH blocks <- Found(table)
ImplementsVoxelBlocks == Dictionary!BlocksSpec

\* What VoxelBlocks promises of the dictionary, of the one in the table.
NearestAreFound == Dictionary!NearestAreFound
KeepsWhatItSaw == Dictionary!KeepsWhatItSaw
FarVoxelsSuppressed == Dictionary!FarVoxelsSuppressed
=============================================================================
