--------------------------- MODULE PacketAssembly ---------------------------
(***************************************************************************)
(* The driver's packet thread (comm/pub_handler.cpp): the SDK's callback   *)
(* queues raw packets, the thread collects their points per LiDAR and cuts *)
(* them into frames, by sensor time when the LiDARs are synchronised and   *)
(* by the host's clock when they are not.  Which of the two it is comes    *)
(* from the packet that arrived last, not from the one in hand.            *)
(*                                                                         *)
(* A packet stands for its points: it is the time of its first point, and  *)
(* the last one lies Span later.  Times are whole milliseconds.            *)
(***************************************************************************)
EXTENDS Integers, Sequences, FiniteSets, SequencesExt

CONSTANTS Lidars,
          Interval,    \* publish_interval_
          Tolerance,   \* publish_interval_tolerance_
          Span,        \* time from a packet's first point to its last
          SensorTimes, \* time stamps of synchronised packets
          MaxTime,     \* bound: the host's clock
          MaxRaw       \* bound: packets the SDK delivers

ASSUME AssemblyAssumption ==
  /\ Interval \in Nat \ {0} /\ Tolerance \in 0..Interval
  /\ Span \in Nat /\ MaxTime \in Nat /\ MaxRaw \in Nat
  /\ SensorTimes \subseteq Nat

NoRaw == [lidar |-> CHOOSE l \in Lidars : TRUE, time |-> -1]

VARIABLES
  now,              \* the host's clock
  synced,           \* is_timestamp_sync_, one flag for all LiDARs
  spc, arriving,    \* the SDK thread in the callback: step, packet
  rawQueue,         \* raw_packet_queue_
  quit,             \* is_quit_
  tpc, raw,         \* the packet thread: step, packet popped
  handlers,         \* LiDARs in lidar_process_handlers_
  cloud,            \* per LiDAR: points_clouds_ of its handler
  points,           \* per LiDAR: points_, what the last frame points into
  lastPub,          \* last_pub_time_, -1 while `first` holds
  base,             \* per LiDAR: the time stamp of the last frame
  arrived,          \* history: per LiDAR, the packets queued
  sent              \* history: per LiDAR, the points of all frames, in order

sdkVars == <<now, synced, spc, arriving>>
frameVars == <<handlers, cloud, points, base, lastPub, sent>>
assemblyVars == <<sdkVars, rawQueue, quit, tpc, raw, frameVars, arrived>>

AssemblyInit ==
  /\ now = 0 /\ synced = FALSE
  /\ spc = "idle" /\ arriving = NoRaw
  /\ rawQueue = <<>> /\ quit = FALSE
  /\ tpc = "top" /\ raw = NoRaw
  /\ handlers = {} /\ lastPub = -1
  /\ cloud = [l \in Lidars |-> <<>>] /\ points = [l \in Lidars |-> <<>>]
  /\ base = [l \in Lidars |-> -1]
  /\ arrived = [l \in Lidars |-> <<>>] /\ sent = [l \in Lidars |-> <<>>]

Delivered == FoldSet(LAMBDA l, n : n + Len(arrived[l]), 0, Lidars)

Tick ==
  /\ now < MaxTime /\ now' = now + 1
  /\ UNCHANGED <<synced, spc, arriving, rawQueue, quit, tpc, raw, frameVars, arrived>>

-----------------------------------------------------------------------------
(* OnLivoxLidarPointCloudCallback: the flag, the queue, the notification.   *)
(* A packet that is not synchronised carries the host's time.               *)
Arrive(l) ==
  /\ spc = "idle" /\ ~quit /\ Delivered < MaxRaw
  /\ spc' = "push"
  /\ \/ synced' = TRUE /\ \E t \in SensorTimes : arriving' = [lidar |-> l, time |-> t]
     \/ synced' = FALSE /\ arriving' = [lidar |-> l, time |-> now]
  /\ UNCHANGED <<now, rawQueue, quit, tpc, raw, frameVars, arrived>>

PushRaw ==
  /\ spc = "push" /\ spc' = "notify"
  /\ rawQueue' = Append(rawQueue, arriving)
  /\ arrived' = [arrived EXCEPT ![arriving.lidar] = Append(@, arriving.time)]
  /\ UNCHANGED <<now, synced, arriving, quit, tpc, raw, frameVars>>

NotifyRaw ==
  /\ spc = "notify" /\ spc' = "idle"
  /\ tpc' = IF tpc = "asleep" THEN "woken" ELSE tpc
  /\ UNCHANGED <<now, synced, arriving, rawQueue, quit, raw, frameVars, arrived>>

\* Uninit removes the observer first and notifies nobody; a callback that is
\* under way finishes.
RequestExit ==
  /\ ~quit
  /\ quit' = TRUE
  /\ UNCHANGED <<sdkVars, rawQueue, tpc, raw, frameVars, arrived>>

-----------------------------------------------------------------------------
(* RawDataProcess: pop a packet, waiting once at most.                      *)
ThreadLocal == UNCHANGED <<sdkVars, rawQueue, quit, raw, frameVars, arrived>>

LoopTop == tpc = "top" /\ tpc' = (IF quit THEN "done" ELSE "lock") /\ ThreadLocal

SleepOnEmpty ==
  /\ tpc = "lock" /\ rawQueue = <<>>
  /\ tpc' = "asleep"
  /\ ThreadLocal

\* Slip: the wait has no time limit.
WaitsForever == FALSE

WaitIsTimed == TRUE

\* wait_for, 500 ms; spurious wakeups look the same.
WaitEnds == tpc = "asleep" /\ WaitIsTimed /\ tpc' = "woken" /\ ThreadLocal

WokenForNothing == tpc = "woken" /\ rawQueue = <<>> /\ tpc' = "top" /\ ThreadLocal

PopRaw ==
  /\ tpc \in {"lock", "woken"} /\ rawQueue # <<>>
  /\ raw' = Head(rawQueue) /\ rawQueue' = Tail(rawQueue)
  /\ tpc' = "assemble"
  /\ UNCHANGED <<sdkVars, quit, frameVars, arrived>>

-----------------------------------------------------------------------------
(* PointCloudProcess and CheckTimer on the packet in hand.                  *)
Collected == [cloud EXCEPT ![raw.lidar] = Append(@, raw.time)]
Known == handlers \cup {raw.lidar}

\* The difference is unsigned: a sensor clock that went back looks like a
\* frame long overdue.
FrameDue(l) ==
  LET recent == Last(Collected[l]) + Span
      diff == recent - Collected[l][1]
  IN recent # 0 /\ recent % Interval = 0 /\ (diff < 0 \/ diff >= Tolerance)

HostFrameDue == lastPub >= 0 /\ now - lastPub >= Interval

\* The LiDARs whose points leave with this packet.
Leaving ==
  IF synced THEN {l \in {raw.lidar} : FrameDue(l)}
  ELSE IF HostFrameDue THEN Known ELSE {}

\* Slip: the old points are swapped back into the handler.
LeftoverStale(l) == points[l]

\* points_ is cleared before the swap with points_clouds_.
Leftover(l) == <<>>

BaseTime(l) == Collected[l][1]

\* PublishPointCloud: a LiDAR without points sends no frame.
FramesOut == {l \in Leaving : Collected[l] # <<>>}

Assemble ==
  /\ tpc = "assemble" /\ tpc' = "top"
  /\ handlers' = Known
  /\ cloud' = [l \in Lidars |-> IF l \in Leaving THEN Leftover(l) ELSE Collected[l]]
  /\ points' = [l \in Lidars |-> IF l \in Leaving THEN Collected[l] ELSE points[l]]
  /\ base' = [l \in Lidars |-> IF l \in FramesOut THEN BaseTime(l) ELSE base[l]]
  /\ sent' = [l \in Lidars |-> IF l \in FramesOut THEN sent[l] \o Collected[l] ELSE sent[l]]
  /\ lastPub' = CASE synced -> lastPub
                  [] ~synced /\ lastPub < 0 -> now
                  [] ~synced /\ HostFrameDue -> lastPub + Interval
                  [] OTHER -> lastPub
  /\ UNCHANGED <<sdkVars, rawQueue, quit, raw, arrived>>

Thread == LoopTop \/ SleepOnEmpty \/ WaitEnds \/ WokenForNothing \/ PopRaw \/ Assemble

AssemblyNext ==
  \/ Tick \/ PushRaw \/ NotifyRaw \/ RequestExit \/ Thread
  \/ \E l \in Lidars : Arrive(l)

AssemblySpec ==
  AssemblyInit /\ [][AssemblyNext]_assemblyVars /\ WF_assemblyVars(Thread)

-----------------------------------------------------------------------------
\* The times of a LiDAR's packets in a queue.
OfLidar(queue, l) ==
  LET own[n \in 0..Len(queue)] ==
        IF n = 0 THEN <<>>
        ELSE IF queue[n].lidar = l THEN Append(own[n-1], queue[n].time) ELSE own[n-1]
  IN own[Len(queue)]

Popped(l) == IF tpc = "assemble" /\ raw.lidar = l THEN <<raw.time>> ELSE <<>>

\* Whatever the clocks do and however synchronisation comes and goes, every
\* point that arrived is in exactly one frame of its LiDAR or still on its
\* way, in the order of arrival (raw_packet_queue_ and the two swaps).  A frame
\* is stamped with its own first point (CheckTimer, before the swap).
PointsConserved ==
  \A l \in Lidars :
    /\ arrived[l] = sent[l] \o cloud[l] \o Popped(l) \o OfLidar(rawQueue, l)
    /\ points[l] # <<>> => base[l] = points[l][1]

\* Uninit gets to join the thread: although RequestExit notifies nobody, the
\* thread sees it.
UninitReturns == quit ~> tpc = "done"
=============================================================================
