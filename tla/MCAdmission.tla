----------------------------- MODULE MCAdmission -----------------------------
(***************************************************************************)
(* What lets a sensor in: the quality gate for an IMU's samples, the       *)
(* handshake for a LiDAR.  The two are in different processes and share    *)
(* nothing, so a behaviour is about one of them and the other stands still.*)
(*                                                                         *)
(* The gate: two axes, seven ticks, a budget as long as a raw interval, so *)
(* that a hold, a recovery, an exhausted budget, a gap and a clock reset   *)
(* all fit in one behaviour.                                               *)
(***************************************************************************)
EXTENDS ImuQualityGate, MCLidarHandshake

VARIABLE sensor

admissionVars == <<sensor, gateVars, handshakeVars>>

AdmissionInit == sensor \in {"imu", "lidar"} /\ GateInit /\ HandshakeInit

OfImu == sensor = "imu" /\ UNCHANGED <<sensor, handshakeVars>>
OfLidar == sensor = "lidar" /\ UNCHANGED <<sensor, gateVars>>

AdmissionNext == (OfImu /\ GateNext) \/ (OfLidar /\ HandshakeNext)

\* The fairness of HandshakeSpec; the gate has none.
AdmissionSpec ==
  /\ AdmissionInit /\ [][AdmissionNext]_admissionVars
  /\ WF_admissionVars(OfLidar /\ RegisterEntry)
  /\ \A l \in Lidars, k \in Kinds : WF_admissionVars(OfLidar /\ Answered(l, k))

MCStamps == 0..6
=============================================================================
