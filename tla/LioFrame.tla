------------------------------ MODULE LioFrame ------------------------------
(***************************************************************************)
(* What the LIO worker does with one measurement group: initialise the     *)
(* filter, predict to the scan's end, match, correct, hand the posterior   *)
(* to the output chain and maintain the map (lio/lidarodom.cpp: run,       *)
(* ProcessMeasurements, Predict, TryInitIMU, poseEstimation).  All of it   *)
(* is private to the worker thread except the hand-over.                   *)
(*                                                                         *)
(* Scan matching is its verdict, a pose is the posterior it belongs to.    *)
(***************************************************************************)
EXTENDS Propagation, SequencesExt

CONSTANTS MinInitSamples, \* samples StaticIMUInit needs at least
          DegradedStamps, \* samples whose quality_ is degraded or held
          InitFrames,     \* init_num_frames
          MaxSkip,        \* map_update_max_skip_frames, 0 for no limit
          FovStride       \* fov_segment_stride

ASSUME FrameAssumption ==
  /\ MinInitSamples \in Nat \ {0}
  /\ InitFrames \in Nat /\ MaxSkip \in Nat /\ FovStride \in Nat \ {0}

NoSample == -1

VARIABLES
  lpc,             \* the worker: wait, frame, send, map, fail, done
  needInit,        \* imu_need_init_
  initStamps,      \* the samples imu_init_ holds; the last is last_init_stamp
  eskfTime,        \* timestamp of eskf_
  lastImuRaw,      \* last_imu_, the raw sample before eskfTime
  predictionFault, \* prediction_fault_
  mapEmpty,        \* voxel_map.empty()
  stateSequence,   \* state_sequence_
  lastAccepted,    \* last_accepted_lidar_stamp_
  indexFrame,      \* index_frame
  maintFrame,      \* last_map_maintenance_frame_, 0 before the first
  verdict,         \* of the frame in hand
  legs,            \* history: the legs of the last prediction
  startTime,       \* history: eskfTime before it
  mapped           \* history: posteriors whose points entered the map

frameVars == <<lpc, needInit, initStamps, eskfTime, lastImuRaw,
               predictionFault, mapEmpty, stateSequence, lastAccepted,
               indexFrame, maintFrame, verdict, legs, startTime, mapped>>

filterVars == <<needInit, initStamps, eskfTime, lastImuRaw, predictionFault,
                stateSequence, lastAccepted, legs, startTime>>
mapVars == <<mapEmpty, indexFrame, maintFrame, mapped>>

FrameInit ==
  /\ lpc = "wait"
  /\ needInit = TRUE /\ initStamps = <<>>
  /\ eskfTime = 0 /\ lastImuRaw = NoSample /\ predictionFault = FALSE
  /\ mapEmpty = TRUE
  /\ stateSequence = 0 /\ lastAccepted = 0
  /\ indexFrame = 1 /\ maintFrame = 0
  /\ verdict = "none"
  /\ legs = <<>> /\ startTime = 0
  /\ mapped = {}

-----------------------------------------------------------------------------
(* TryInitIMU.  A sample already seen as the right bracket of the previous  *)
(* group is not counted twice, and degraded samples are passed over; the    *)
(* filter starts at the last sample of the group, counted or not.           *)
NewInitSamples(g) ==
  LET seen == IF initStamps = <<>> THEN NoSample ELSE Last(initStamps)
  IN SelectSeq(g.imu, LAMBDA ts : ts > seen /\ ts \notin DegradedStamps)

InitSucceeds(stamps) == Len(stamps) >= MinInitSamples

StartFilter(g) ==
  /\ needInit' = FALSE
  /\ eskfTime' = Last(g.imu)
  /\ lastImuRaw' = Last(g.imu)
  /\ lastAccepted' = Last(g.imu)

InitFrame(g) ==
  /\ lpc = "frame" /\ needInit
  /\ initStamps' = initStamps \o NewInitSamples(g)
  /\ \/ NewInitSamples(g) # <<>> /\ InitSucceeds(initStamps') /\ StartFilter(g)
     \/ UNCHANGED <<needInit, eskfTime, lastImuRaw, lastAccepted>>
  /\ lpc' = "wait"
  /\ UNCHANGED <<predictionFault, stateSequence, legs, startTime, verdict, mapVars>>

-----------------------------------------------------------------------------
(* Predict.  The samples later than the filter are integrated up to the     *)
(* first one at or after the scan's end; the scan's end cuts the last leg.  *)
RunTo(g) ==
  LET first == SelectInSeq(g.imu, LAMBDA ts : ts > eskfTime)
      stop == SelectInSeq(g.imu, LAMBDA ts : ts > eskfTime /\ ts >= g.end)
  IN IF first = 0 THEN <<>>
     ELSE SubSeq(g.imu, first, IF stop = 0 THEN Len(g.imu) ELSE stop)

PredictLegs(g) == LegsAlong(RunTo(g), lastImuRaw, eskfTime, g.end)

PredictOk(g) ==
  /\ ~predictionFault /\ lastImuRaw # NoSample
  /\ RunTo(g) # <<>>
  /\ AllLegsOk(PredictLegs(g))
  /\ Last(PredictLegs(g)).to = g.end

\* Slip: the raw left sample stays where it is.
NextRawUnmoved(g) == lastImuRaw

\* Inside [last_imu_, imu] the raw left sample stays; it moves on only when a
\* leg ends exactly at a sample.
NextRaw(g) ==
  LET reached == SelectLastInSeq(RunTo(g), LAMBDA ts : ts <= g.end)
  IN IF reached = 0 THEN lastImuRaw ELSE RunTo(g)[reached]

PredictFails(g) ==
  /\ lpc = "frame" /\ ~needInit
  /\ ~PredictOk(g)
  /\ predictionFault' = TRUE
  /\ lpc' = "fail"
  /\ UNCHANGED <<needInit, initStamps, eskfTime, lastImuRaw, stateSequence,
                 lastAccepted, legs, startTime, verdict, mapVars>>

\* An empty map makes a seed of a frame with enough points, without matching.
Verdicts == {IF mapEmpty THEN "seed" ELSE "matched", "rejected"}

\* Slip: the verdict is not consulted.
AcceptedAlways == verdict # "none"

Accepted == verdict \in {"seed", "matched"}

\* The prediction reaches the scan's end and the frame is judged.  A rejected
\* frame keeps the predicted state; its posterior is numbered all the same.
Estimate(g, v) ==
  /\ lpc = "frame" /\ ~needInit
  /\ PredictOk(g)
  /\ legs' = PredictLegs(g) /\ startTime' = eskfTime
  /\ eskfTime' = g.end
  /\ lastImuRaw' = NextRaw(g)
  /\ v \in Verdicts /\ verdict' = v
  /\ lastAccepted' = IF v = "rejected" THEN lastAccepted ELSE g.end
  /\ stateSequence' = stateSequence + 1
  /\ lpc' = "send"
  /\ UNCHANGED <<needInit, initStamps, predictionFault, mapVars>>

\* The posterior is not a valid snapshot: nothing of the frame is kept.
EstimateBroken(g) ==
  /\ lpc = "frame" /\ ~needInit
  /\ PredictOk(g)
  /\ legs' = PredictLegs(g) /\ startTime' = eskfTime
  /\ eskfTime' = g.end
  /\ lastImuRaw' = NextRaw(g)
  /\ lpc' = "fail"
  /\ UNCHANGED <<needInit, initStamps, predictionFault, verdict, lastAccepted,
                 stateSequence, mapVars>>

\* Slip: the number is taken before the increment.
StateUpdateEarly ==
  [seq |-> stateSequence - 1, stamp |-> eskfTime, accepted |-> lastAccepted]

\* The value handed to state_callback_.
StateUpdate == [seq |-> stateSequence, stamp |-> eskfTime, accepted |-> lastAccepted]

\* After the hand-over only an accepted frame goes on to the map.
AfterSend ==
  /\ lpc = "send"
  /\ IF Accepted
       THEN lpc' = "map" /\ UNCHANGED indexFrame
       ELSE lpc' = "wait" /\ indexFrame' = indexFrame + 1
  /\ UNCHANGED <<filterVars, mapEmpty, maintFrame, verdict, mapped>>

-----------------------------------------------------------------------------
(* poseEstimation: the map takes the frame's points in the first frames, on *)
(* enough motion, or after MaxSkip frames without; otherwise they are only  *)
(* shown.                                                                   *)
MayKeepMap == indexFrame > InitFrames /\ maintFrame > 0

SkippedTooLong == MaxSkip > 0 /\ indexFrame - maintFrame >= MaxSkip

\* lasermap_fov_segment may take every voxel when all of them are far away.
SegmentsFov == indexFrame % FovStride = 0 \/ indexFrame <= InitFrames

UpdateMap(moved) ==
  /\ lpc = "map"
  /\ ~MayKeepMap \/ moved \/ SkippedTooLong
  /\ mapped' = mapped \cup {StateUpdate}
  /\ maintFrame' = indexFrame
  /\ mapEmpty' \in {FALSE, SegmentsFov}
  /\ indexFrame' = indexFrame + 1
  /\ lpc' = "wait"
  /\ UNCHANGED <<filterVars, verdict>>

ShowOnly ==
  /\ lpc = "map"
  /\ MayKeepMap /\ ~SkippedTooLong
  /\ indexFrame' = indexFrame + 1
  /\ lpc' = "wait"
  /\ UNCHANGED <<filterVars, mapEmpty, maintFrame, mapped, verdict>>

\* run(): the group in hand is given up once stopping_ is seen.
AbandonGroup ==
  /\ lpc = "frame"
  /\ lpc' = "wait"
  /\ UNCHANGED <<filterVars, mapVars, verdict>>

LeaveRun ==
  /\ lpc = "wait"
  /\ lpc' = "done"
  /\ UNCHANGED <<filterVars, mapVars, verdict>>
=============================================================================
