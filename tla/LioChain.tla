------------------------------ MODULE LioChain ------------------------------
(***************************************************************************)
(* The LIO chain: the callbacks' pushData, the queues and the worker       *)
(* thread (lidarodom_m).  The actions leave the output chain alone;        *)
(* AdaptiveLio runs the two chains together.                               *)
(***************************************************************************)
EXTENDS LioBuffers, LioFrame

lioVars == <<bufVars, frameVars>>

LioInit == BuffersInit /\ FrameInit

(* The callbacks.  A sample that is not admissible changes nothing.         *)
LioImu(ts) ==
  /\ PushImu(ts) \/ (~ImuAdmissible(ts) /\ UNCHANGED bufVars)
  /\ UNCHANGED frameVars

LioScan(s) == PushScan(s) /\ UNCHANGED frameVars

LioStop == Stop /\ UNCHANGED frameVars

(* The worker.                                                              *)
TakeGroup ==
  /\ lpc = "wait" /\ lpc' = "frame"
  /\ GetMeasurements
  /\ UNCHANGED <<filterVars, mapVars, verdict>>

ProcessGroup ==
  /\ ~lioStopping
  /\ \/ InitFrame(group)
     \/ PredictFails(group)
     \/ EstimateBroken(group)
     \/ \E v \in Verdicts : Estimate(group, v)
  /\ UNCHANGED bufVars

SendState == AfterSend /\ UNCHANGED bufVars

MaintainMap ==
  /\ UpdateMap(TRUE) \/ UpdateMap(FALSE) \/ ShowOnly
  /\ UNCHANGED bufVars

\* ProcessMeasurements called Fail and returns to run()'s loop.
FrameFails ==
  /\ lpc = "fail" /\ lpc' = "wait"
  /\ UNCHANGED <<filterVars, mapVars, verdict, bufVars>>

\* An exception leaves run(); main's handler around it calls Fail.
FrameThrows ==
  /\ lpc = "frame" /\ lpc' = "done"
  /\ UNCHANGED <<filterVars, mapVars, verdict, bufVars>>

StopSeen ==
  /\ lioStopping
  /\ AbandonGroup \/ LeaveRun
  /\ UNCHANGED bufVars

\* Everything the worker thread does by itself.
WorkerRuns ==
  \/ TakeGroup \/ ProcessGroup \/ SendState \/ MaintainMap
  \/ FrameThrows
  \/ StopSeen
  \/ FrameFails /\ lioStopping             \* Fail has returned
  \/ lpc = "fail" /\ ~lioStopping /\ LioStop

-----------------------------------------------------------------------------
\* The prediction of a frame integrates every interval of the sample stream
\* between the previous estimate and the scan's end exactly once, each one
\* between neighbouring samples (Predict, last_imu_ and the bracket).
PredictionIsExact ==
  lpc = "send" =>
    /\ Path(legs, startTime, group.end)
    /\ \A i \in DOMAIN legs : Adjacent(imuSeen, legs[i])

\* The prediction fails only for a scan that ends no later than the filter
\* stands, never for a hole in samples the gate let through (Predict).
FaultsOnlyOnLateScan ==
  [][predictionFault' /\ ~predictionFault => group.end <= eskfTime]_lioVars

\* Only scans that matched or seeded the map enter it, each under a posterior
\* of its own: points registered with an uncorrected pose never do.
MapOnlyFromAccepted ==
  \A u \in mapped :
    /\ u.accepted = u.stamp
    /\ \A w \in mapped : w.seq = u.seq => w = u

=============================================================================
