---------------------------- MODULE AdaptiveLio ----------------------------
(***************************************************************************)
(* The node (apps/main_ada.cpp): the IMU callback, the LiDAR callbacks,    *)
(* the LIO chain and the output chain.  Callback groups let each callback  *)
(* run alone; the threads meet at mtx_buf, at the output's mutex_, and at  *)
(* the two stop flags, which Fail sets one after the other.                *)
(***************************************************************************)
EXTENDS LioChain, OutputChain

CONSTANT Scans   \* [begin, end]: main scans the driver may deliver

ASSUME NodeAssumption == \A s \in Scans : s.begin \in Int /\ s.end \in Times

VARIABLES
  inFlight,  \* the forwarded sample between OnImu and pushData
  stopOwed,  \* the callers of Fail that have not reached RequestStop yet
  mpc        \* main: spin, joinLio, joinOutput, exited

nodeVars == <<lioVars, chainVars, inFlight, stopOwed, mpc>>

NodeInit ==
  /\ LioInit /\ ChainInit
  /\ inFlight = NoSample
  /\ stopOwed = {}
  /\ mpc = "spin"

\* pushData calls Fail under mtx_buf, OnImu calls it under mutex_.
BufFree == stopOwed \cap {"pushImu", "pushScan"} = {}
OutFree == "onImu" \notin stopOwed
Spinning == mpc = "spin"
ImuCallbackIdle == inFlight = NoSample /\ stopOwed \cap {"gate", "onImu", "pushImu"} = {}
LidarCallbackIdle == "pushScan" \notin stopOwed
LioWorkerFree == "frame" \notin stopOwed

-----------------------------------------------------------------------------
(* lidarodom_m::Fail: the output's flag first, then RequestStop.            *)
\* Slip: the fault callback is not called.
FailUnannounced(site) ==
  stopOwed' = stopOwed \cup {site} /\ UNCHANGED chainVars

FailFrom(site) ==
  /\ SetFaulted
  /\ stopOwed' = stopOwed \cup {site}
  /\ UNCHANGED <<stream, given>>

FinishFail ==
  \E site \in stopOwed :
    /\ stopOwed' = stopOwed \ {site}
    /\ LioStop
    /\ UNCHANGED <<chainVars, inFlight, mpc>>

-----------------------------------------------------------------------------
(* The IMU callback: the gate, OnImu, then pushData of the same sample.     *)
GateForwards(ts) ==
  /\ Spinning /\ ImuCallbackIdle /\ OutFree
  /\ Sample(ts)
  /\ inFlight' = ts
  /\ stopOwed' = IF QueueOverflow THEN stopOwed \cup {"onImu"} ELSE stopOwed
  /\ UNCHANGED <<lioVars, mpc>>

GateFaults ==
  /\ Spinning /\ ImuCallbackIdle
  /\ FailFrom("gate")
  /\ UNCHANGED <<lioVars, inFlight, mpc>>

PushForwarded ==
  /\ inFlight # NoSample
  /\ OutFree /\ BufFree
  /\ inFlight' = NoSample
  /\ IF ImuOverflow(inFlight)
       THEN FailFrom("pushImu") /\ UNCHANGED lioVars
       ELSE LioImu(inFlight) /\ UNCHANGED <<chainVars, stopOwed>>
  /\ UNCHANGED mpc

(* The LiDAR callback.                                                      *)
PushLidar(s) ==
  /\ Spinning /\ LidarCallbackIdle /\ BufFree
  /\ IF ScanOverflow(s)
       THEN FailFrom("pushScan") /\ UNCHANGED lioVars
       ELSE LioScan(s) /\ UNCHANGED <<chainVars, stopOwed>>
  /\ UNCHANGED <<inFlight, mpc>>

-----------------------------------------------------------------------------
(* The LIO worker.  Only the hand-over touches the output chain.            *)
WorkerAlone ==
  /\ \/ BufFree /\ LioWorkerFree /\ TakeGroup
     \/ ProcessGroup
     \/ MaintainMap
     \/ LioWorkerFree /\ StopSeen
  /\ UNCHANGED <<chainVars, stopOwed>>

HandOver ==
  /\ OutFree
  /\ SendState
  /\ OnState(StateUpdate)
  /\ given' = Append(given, StateUpdate)
  /\ UNCHANGED <<stream, stopOwed>>

WorkerFaults ==
  /\ FrameFails \/ FrameThrows
  /\ FailFrom("frame")

LioWorker ==
  /\ WorkerAlone \/ HandOver \/ WorkerFaults
  /\ UNCHANGED <<inFlight, mpc>>

-----------------------------------------------------------------------------
(* The output worker.  Fail's exchange calls nobody back a second time.     *)
OutputWorker ==
  /\ "worker" \notin stopOwed
  /\ \/ OutFree /\ Wake /\ UNCHANGED stopOwed
     \/ (Work \/ Publish) /\ UNCHANGED stopOwed
     \/ /\ WorkerFails
        /\ stopOwed' = IF outFaulted THEN stopOwed ELSE stopOwed \cup {"worker"}
  /\ UNCHANGED <<stream, given, lioVars, inFlight, mpc>>

-----------------------------------------------------------------------------
(* main once spin() has returned: the callbacks have finished.              *)
MainStopsLio ==
  /\ Spinning /\ ImuCallbackIdle /\ LidarCallbackIdle
  /\ mpc' = "joinLio"
  /\ LioStop
  /\ UNCHANGED <<chainVars, inFlight, stopOwed>>

\* Slip: the LIO worker is not joined first.
LioNotAwaited == TRUE

LioJoined == lpc = "done" /\ LioWorkerFree

MainStopsOutput ==
  /\ mpc = "joinLio" /\ LioJoined /\ OutFree
  /\ StopOutput
  /\ mpc' = "joinOutput"
  /\ UNCHANGED <<stream, given, lioVars, inFlight, stopOwed>>

MainExits ==
  /\ mpc = "joinOutput" /\ opc = "done" /\ stopOwed = {}
  /\ mpc' = "exited"
  /\ UNCHANGED <<lioVars, chainVars, inFlight, stopOwed>>

NodeNext ==
  \/ \E ts \in Times : GateForwards(ts)
  \/ GateFaults
  \/ PushForwarded
  \/ \E s \in Scans : PushLidar(s)
  \/ LioWorker
  \/ OutputWorker
  \/ FinishFail
  \/ MainStopsLio \/ MainStopsOutput \/ MainExits

NodeSpec == NodeInit /\ [][NodeNext]_nodeVars

-----------------------------------------------------------------------------
\* The LIO worker and the IMU callback keep the contract OutputChain asks of
\* its callers, in every interleaving: posteriors are numbered in turn, move
\* forward in time, are covered by samples already handed to OnImu, and never
\* rest on older LiDAR data than before (imuHandler's order of the two calls,
\* ProcessMeasurements).
ContractKept == ChainInit /\ [][ChainNext]_chainVars

\* No posterior reaches the output after it was stopped, and nothing is sent
\* or mapped once main has left (the order of the joins in main).
QuietAfterStop ==
  [][/\ outStopping => given' = given
     /\ mpc = "exited" => UNCHANGED <<published, group, mapped>>]_nodeVars

\* A fault stops the LIO chain only after the output chain has latched it:
\* the output never goes on publishing, unaware, on top of a dead estimator
\* (the order of the two calls in lidarodom_m::Fail).
FaultReachesOutputFirst == lioStopping => outFaulted \/ mpc # "spin"
=============================================================================
