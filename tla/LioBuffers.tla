----------------------------- MODULE LioBuffers -----------------------------
(***************************************************************************)
(* The input queues of the LIO worker and the cut of one measurement group *)
(* per main-LiDAR scan (lio/lidarodom.cpp: both pushData, getMeasureMents; *)
(* algo/aux_time_crop.h).  Every action runs under mtx_buf and is atomic.  *)
(* A scan has a begin and an end, an IMU sample is its stamp, a point of   *)
(* the auxiliary LiDAR the stamp of its packet and the time it was         *)
(* measured at, on the clock of the main one.                              *)
(***************************************************************************)
EXTENDS Integers, Sequences, FiniteSets

CONSTANTS Delay,        \* delay_time_
          MaxScans,     \* capacity of lidar_buffer_ (200)
          MaxImu,       \* capacity of imu_buffer_ (20000)
          MaxAux,       \* capacity of aux_lidar_buffer_ (200)
          AuxOffset,    \* aux_lidar_time_offset
          SyncMargin,   \* aux_lidar_sync_margin
          MinAuxPoints  \* min_aux_points_

ASSUME BuffersAssumption ==
  /\ Delay \in Nat /\ SyncMargin \in Nat /\ AuxOffset \in Int
  /\ MaxScans \in Nat \ {0} /\ MaxImu \in Nat \ {0} /\ MaxAux \in Nat \ {0}
  /\ MinAuxPoints \in Nat

NoGroup == [begin |-> -1, end |-> -1, imu |-> <<>>, aux |-> {}]

VARIABLES lidarBuf,    \* lidar_buffer_ with time_buffer_ (and ingress times)
          imuBuf,      \* imu_buffer_
          auxBuf,      \* aux_lidar_buffer_ with aux_lidar_time_buffer_
          auxCursor,   \* aux_point_cursor_: points of the front packet used
          lastLidar,   \* last_timestamp_lidar_
          lastImu,     \* last_timestamp_imu_
          lioStopping, \* stopping_
          group,       \* the MeasureGroup the worker took last
          imuSeen,     \* history: every sample pushData accepted
          coveredTo,   \* history: latest scan end of the groups before group
          auxUsed,     \* history: points the groups before group received
          auxSent      \* history: stamps of the packets queued, each used once

queueVars == <<lidarBuf, imuBuf, auxBuf, auxCursor, lastLidar, lastImu>>
historyVars == <<imuSeen, coveredTo, auxUsed, auxSent>>
bufVars == <<queueVars, lioStopping, group, historyVars>>

BuffersInit ==
  /\ lidarBuf = <<>> /\ imuBuf = <<>> /\ auxBuf = <<>>
  /\ auxCursor = 0
  /\ lastLidar = 0 /\ lastImu = -1
  /\ lioStopping = FALSE
  /\ group = NoGroup
  /\ imuSeen = <<>> /\ coveredTo = -1 /\ auxUsed = {} /\ auxSent = {}

-----------------------------------------------------------------------------
(* pushData of a main scan: stale scans are dropped, an overflow is fatal. *)
ScanAdmissible(s) == ~lioStopping /\ s.end > s.begin /\ s.begin > lastLidar

ScanOverflow(s) == ScanAdmissible(s) /\ Len(lidarBuf) >= MaxScans

PushScan(s) ==
  /\ ScanAdmissible(s) /\ ~ScanOverflow(s)
  /\ lidarBuf' = Append(lidarBuf, s)
  /\ lastLidar' = s.begin
  /\ UNCHANGED <<imuBuf, auxBuf, auxCursor, lastImu, lioStopping, group,
                 historyVars>>

(* pushData of an auxiliary packet: the oldest one gives way on backlog.   *)
AuxAdmissible(p) ==
  /\ ~lioStopping
  /\ p.end > p.begin
  /\ auxBuf # <<>> => p.begin > auxBuf[Len(auxBuf)].begin

PushAux(p) ==
  /\ p.begin \notin auxSent
  /\ auxSent' = auxSent \cup {p.begin}
  /\ AuxAdmissible(p)
  /\ IF Len(auxBuf) >= MaxAux
       THEN auxBuf' = Append(Tail(auxBuf), p) /\ auxCursor' = 0
       ELSE auxBuf' = Append(auxBuf, p) /\ UNCHANGED auxCursor
  /\ UNCHANGED <<lidarBuf, imuBuf, lastLidar, lastImu, lioStopping, group,
                 imuSeen, coveredTo, auxUsed>>

(* pushData of an IMU sample: the watermark admits increasing stamps only. *)
ImuAdmissible(ts) == ts > lastImu /\ ~lioStopping
ImuOverflow(ts) == ImuAdmissible(ts) /\ Len(imuBuf) >= MaxImu

PushImu(ts) ==
  /\ ImuAdmissible(ts) /\ ~ImuOverflow(ts)
  /\ lastImu' = ts
  /\ imuBuf' = Append(imuBuf, ts)
  /\ imuSeen' = Append(imuSeen, ts)
  /\ UNCHANGED <<lidarBuf, auxBuf, auxCursor, lastLidar, lioStopping, group,
                 coveredTo, auxUsed, auxSent>>

-----------------------------------------------------------------------------
\* Length of the longest prefix of s whose elements satisfy Test.
Prefix(s, Test(_)) ==
  CHOOSE n \in 0..Len(s) :
    /\ \A i \in 1..n : Test(s[i])
    /\ n < Len(s) => ~Test(s[n+1])

From(s, n) == SubSeq(s, n, Len(s))

(* The IMU part of getMeasureMents: a scan is cut once its end is covered. *)
\* Slip: a sample at the end of the scan is left for the next one too.
ConsumedBefore(end) == Prefix(imuBuf, LAMBDA ts : ts < end)

\* Samples up to the scan's end leave the queue.
Consumed(end) == Prefix(imuBuf, LAMBDA ts : ts <= end)

\* Slip: the sample after the scan is not handed on.
NoBracket(end) == <<>>

\* The next one closes the last interval and stays for the next scan.
Bracket(end) ==
  LET n == Consumed(end) IN SubSeq(imuBuf, n + 1, IF n < Len(imuBuf) THEN n + 1 ELSE n)

ScanReady ==
  /\ lidarBuf # <<>> /\ imuBuf # <<>>
  /\ imuBuf[Len(imuBuf)] >= lidarBuf[1].end + Delay

(* The auxiliary part.  A packet the loop is done with is popped: it is     *)
(* empty, ends before the window, or has no point at or after the scan's    *)
(* end.  The first other packet stops the loop; if it starts in the window  *)
(* its points before the scan's end are used up.                            *)
Before(p, scan) == p.end + AuxOffset < scan.begin - SyncMargin

\* Slip: the window is compared with the wrong end of the scan.
AfterItsBegin(p, scan) == p.begin + AuxOffset >= scan.begin

After(p, scan) == p.begin + AuxOffset > scan.end + SyncMargin
Spent(p, scan) ==
  \/ p.points = <<>>
  \/ Before(p, scan)
  \/ /\ ~After(p, scan)
     /\ \A i \in DOMAIN p.points : p.points[i] + AuxOffset < scan.end

PacketsPopped(scan) == Prefix(auxBuf, LAMBDA p : Spent(p, scan))

\* The packet the loop stops at, cropped up to the scan's end.
Partial(k, scan) == k < Len(auxBuf) /\ ~After(auxBuf[k+1], scan)

\* What the cursor has still ahead of it in the packet at queue position k.
Unread(k) ==
  LET p == auxBuf[k]
      first == IF k = 1 THEN auxCursor + 1 ELSE 1
  IN {[packet |-> p.begin, stamp |-> p.points[i] + AuxOffset] : i \in first..Len(p.points)}

InWindow(a, scan) == scan.begin <= a.stamp /\ a.stamp < scan.end

\* CropAuxPoints: the half-open window [begin, end).
Crop(k, scan) == {a \in Unread(k) : InWindow(a, scan)}

AuxCropped(scan) ==
  LET n == PacketsPopped(scan)
      last == IF Partial(n, scan) THEN n + 1 ELSE n
  IN UNION {Crop(k, scan) : k \in {k \in 1..last : ~Before(auxBuf[k], scan)}}

\* Slip: a packet in use is read from its first point again.
NextCursorForgotten(scan) == 0

\* Where the cursor of the new front packet stands.
NextCursor(scan) ==
  LET n == PacketsPopped(scan)
      kept == IF n = 0 THEN auxCursor ELSE 0
      past == Prefix(auxBuf[n+1].points, LAMBDA t : t + AuxOffset < scan.end)
  IN IF ~Partial(n, scan) THEN kept
     ELSE IF past > kept THEN past ELSE kept

AuxOf(scan) ==
  IF Cardinality(AuxCropped(scan)) < MinAuxPoints THEN {} ELSE AuxCropped(scan)

GetMeasurements ==
  LET scan == lidarBuf[1] IN
  /\ ~lioStopping
  /\ ScanReady
  /\ lidarBuf' = Tail(lidarBuf)
  /\ imuBuf' = From(imuBuf, Consumed(scan.end) + 1)
  /\ auxBuf' = From(auxBuf, PacketsPopped(scan) + 1)
  /\ auxCursor' = NextCursor(scan)
  /\ group' = [begin |-> scan.begin, end |-> scan.end, aux |-> AuxOf(scan),
               imu |-> SubSeq(imuBuf, 1, Consumed(scan.end)) \o Bracket(scan.end)]
  /\ coveredTo' = IF group.end > coveredTo THEN group.end ELSE coveredTo
  /\ auxUsed' = auxUsed \cup group.aux
  /\ UNCHANGED <<lastLidar, lastImu, lioStopping, imuSeen, auxSent>>

-----------------------------------------------------------------------------
\* RequestStop, by shutdown or by a fault (an overflow among them).
Stop ==
  /\ lioStopping' = TRUE
  /\ UNCHANGED <<queueVars, group, historyVars>>

-----------------------------------------------------------------------------
\* The samples of a group are a contiguous run of what pushData accepted. It
\* starts at the first sample after every earlier scan's end, so that no
\* sample is skipped or integrated twice, and is the shortest run that covers
\* the scan's end (getMeasureMents: consume up to the end, peek the bracket).
ImuRunCoversScan ==
  group # NoGroup =>
    \E n, m \in DOMAIN imuSeen :
      /\ group.imu = SubSeq(imuSeen, n, m)
      /\ \A i \in DOMAIN imuSeen : i < n <=> imuSeen[i] <= coveredTo
      /\ imuSeen[m] >= group.end
      /\ n < m => imuSeen[m-1] <= group.end

\* No point of the auxiliary LiDAR enters two groups, and each one lies in
\* its scan's half-open window (CropAuxPoints and the cursor).
AuxPointsOnce ==
  /\ group.aux \cap auxUsed = {}
  /\ \A a \in group.aux : InWindow(a, group)

\* A cut never overlooks a queued auxiliary point: one that is still unused
\* and lies in the scan's window is in the group, unless the group has too
\* few of them altogether (the pop and break rules of the aux loop).
AuxNoneOverlooked ==
  [][group' # group =>
       LET due == {a \in UNION {Unread(k) : k \in DOMAIN auxBuf} : InWindow(a, group')} IN
         group'.aux = due \/ (group'.aux = {} /\ Cardinality(due) < MinAuxPoints)
    ]_bufVars
=============================================================================
