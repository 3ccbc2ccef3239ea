------------------------------ MODULE LioIntake ------------------------------
(***************************************************************************)
(* The LIO chain behind the LiDAR callbacks (apps/main_ada.cpp): the       *)
(* messages are converted and their segments pushed one by one, while the  *)
(* worker takes what is complete.  The callbacks of both LiDARs share one  *)
(* mutually exclusive group, so one message is in hand at a time and the   *)
(* converter's members carry nothing from one to the next.                 *)
(***************************************************************************)
EXTENDS LioChain, CloudConvert

CONSTANTS ImuStamps,   \* stamps of the samples the gate may forward
          Kinds,       \* the sensors the node may be configured for
          Messages,    \* what the main LiDAR may deliver, by kind
          AuxMessages  \* what the auxiliary LiDAR may deliver

Point == [t : Int, cell : Int, good : BOOLEAN]

\* Points are real numbers in the code and whole ticks here: a sweep's extent
\* is a multiple of the number of segments, so that cutting it is exact.
\* Drivers that sort have their latest point last, the Livox handler drops what
\* is later than its last point; of the remaining one no such points come.
\* The driver with absolute times stamps the message with its first point.
Timely(k, msg) ==
  LET ps == Arranged(k, msg.points) IN
  /\ msg.header \in Int /\ ps \in Seq(Point)
  /\ ps # <<>> => Span(k, ps) % Cuts = 0
  /\ k # "avia" => \A i \in DOMAIN ps : ps[i].t - Origin(k, ps) <= Span(k, ps)
  /\ k = "robosense" /\ ps # <<>> => msg.header = Origin(k, ps)

\* An auxiliary message has no point outside its extent, and the next one
\* starts where it ends or later.
InSequence(msg) ==
  /\ msg.header \in Int /\ msg.points \in Seq(Point)
  /\ \A i \in DOMAIN msg.points : msg.points[i].t \in 0..Last(msg.points).t
  /\ \A next \in AuxMessages :
       msg.points # <<>> /\ msg.header < next.header
         => msg.header + Last(msg.points).t <= next.header

ASSUME IntakeAssumption ==
  /\ ImuStamps \subseteq Nat
  /\ \A k \in Kinds : \A msg \in Messages[k] : Timely(k, msg)
  /\ \A msg \in AuxMessages : InSequence(msg)

VARIABLES kind,     \* lidar_type_
          held,     \* the segments the callback has still to push
          heldAux,  \* whether they are the auxiliary LiDAR's
          cloud     \* meas.lidar_ of the group in hand

intakeVars == <<kind, held, heldAux, cloud>>
allVars == <<lioVars, intakeVars>>

IntakeInit ==
  /\ LioInit
  /\ kind \in Kinds /\ held = <<>> /\ heldAux = FALSE /\ cloud = {}

(* The callback of the main LiDAR, or of the auxiliary one.                 *)
Receive(msg) ==
  /\ held = <<>> /\ ~lioStopping
  /\ held' = Segments(kind, msg) /\ heldAux' = FALSE
  /\ UNCHANGED <<lioVars, kind, cloud>>

ReceiveAux(msg) ==
  /\ held = <<>> /\ ~lioStopping
  /\ msg.header \notin auxSent   \* delivered once
  /\ held' = AuxSegments(msg) /\ heldAux' = TRUE
  /\ UNCHANGED <<lioVars, kind, cloud>>

\* pushData of the next segment, which it may have to drop.
PushMain ==
  /\ held # <<>> /\ ~heldAux
  /\ held' = Tail(held)
  /\ \E points \in SubSamples(Head(held).points) :
       LET scan == [Head(held) EXCEPT !.points = points]
       IN \/ LioScan(scan)
          \/ ScanOverflow(scan) /\ LioStop
          \/ ~ScanAdmissible(scan) /\ UNCHANGED lioVars
  /\ UNCHANGED <<kind, heldAux, cloud>>

PushAuxiliary ==
  /\ held # <<>> /\ heldAux
  /\ held' = Tail(held)
  /\ \E points \in SubSamples(Head(held).points) :
       LET packet == [Head(held) EXCEPT !.points = SortFinitePoints(points)]
       IN IF AuxAdmissible(packet)
          THEN PushAux(packet) /\ UNCHANGED frameVars
          ELSE UNCHANGED lioVars
  /\ UNCHANGED <<kind, heldAux, cloud>>

\* imuHandler behind the quality gate.
GatedImu(ts) ==
  /\ imuSeen # <<>> => ts - Last(imuSeen) \in 1..Gap
  /\ IF ImuOverflow(ts) THEN LioStop ELSE LioImu(ts)
  /\ UNCHANGED intakeVars

IntakeWorker ==
  /\ WorkerRuns
  /\ cloud' = IF lidarBuf' = lidarBuf THEN cloud ELSE Head(lidarBuf).points
  /\ UNCHANGED <<kind, held, heldAux>>

IntakeNext ==
  \/ \E msg \in Messages[kind] : Receive(msg)
  \/ \E msg \in AuxMessages : ReceiveAux(msg)
  \/ PushMain \/ PushAuxiliary
  \/ \E ts \in ImuStamps : GatedImu(ts)
  \/ IntakeWorker

IntakeSpec == IntakeInit /\ [][IntakeNext]_allVars

-----------------------------------------------------------------------------
\* The trajectory a frame is de-skewed along, from the filter's time before
\* it to the scan's end, covers each of its points, of either LiDAR, that is
\* not older than that time: however a message was filtered, cut and stamped,
\* no point is lost because its frame ends before it (Undistort drops those
\* outside the trajectory).
DeskewCoversPoints ==
  lpc = "send" =>
    LET stamps == {p.stamp : p \in cloud} \union {a.stamp : a \in group.aux}
    IN \A t \in stamps :
         t >= startTime => \E i \in DOMAIN legs : legs[i].from <= t /\ t <= legs[i].to
=============================================================================
