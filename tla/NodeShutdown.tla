---------------------------- MODULE NodeShutdown ----------------------------
(***************************************************************************)
(* How the node comes to rest: the condition variables of its worker       *)
(* threads and the joins of main (apps/main_ada.cpp; run and RequestStop   *)
(* in lio/lidarodom).  The LIO worker waits on cond under mtx_buf and      *)
(* feeds two bounded queues, each with a worker of its own.                *)
(*                                                                         *)
(* A wait is three steps: the predicate is evaluated under the mutex, the  *)
(* thread falls asleep (releasing it), a notification or a spurious wakeup *)
(* sends it back to the predicate.  A notification to a thread that has    *)
(* evaluated its predicate but is not asleep yet is lost.                  *)
(* The output worker is left out: its wait times out (ImuOdomOutput).      *)
(***************************************************************************)
EXTENDS Integers, Sequences

CONSTANTS MaxFrames,   \* bound on the scans of a behaviour
          MaxClouds,   \* capacity of scan_publish_queue (2)
          MaxTasks     \* capacity of scantext_queue (5)

ASSUME ShutdownAssumption ==
  /\ MaxFrames \in Nat \ {0} /\ MaxClouds \in Nat \ {0} /\ MaxTasks \in Nat \ {0}

VARIABLES
  wait,      \* thread -> where it stands in its wait loop
  ready,     \* scans getMeasureMents can cut
  delivered, \* history: scans pushed so far
  callback,  \* a callback: idle, or between the unlock and notify_one
  stopping,  \* stopping_ of the LIO
  fault,     \* a RequestStop by a fault: none, stored, notified
  main,      \* the step of main's shutdown
  clouds, cloudStop,   \* scan_publish_queue and its stop flag
  tasks, taskStop,     \* scantext_queue and its stop flag
  processed, \* history: scans the LIO worker has processed
  made,      \* history: clouds pushed to the publisher
  shownClouds, keptTasks  \* history: what the two consumers handled, in order

shutdownVars == <<wait, ready, delivered, callback, stopping, fault, main,
                  clouds, cloudStop, tasks, taskStop, processed, made,
                  shownClouds, keptTasks>>

inputVars == <<ready, delivered, callback>>
cloudVars == <<clouds, cloudStop, shownClouds, made>>
taskVars == <<tasks, taskStop, keptTasks>>

Threads == {"lio", "cloud", "task"}

ShutdownInit ==
  /\ wait = [t \in Threads |-> "top"]
  /\ ready = 0 /\ delivered = 0 /\ callback = "idle"
  /\ stopping = FALSE /\ fault = "none" /\ main = "spin"
  /\ clouds = <<>> /\ cloudStop = FALSE /\ shownClouds = <<>>
  /\ tasks = <<>> /\ taskStop = FALSE /\ keptTasks = <<>>
  /\ processed = 0 /\ made = <<>>

-----------------------------------------------------------------------------
\* The mutex is held while a thread falls asleep; every other critical
\* section is one action.
Free(t) == wait[t] # "falling"

GoTo(t, place) == wait' = [wait EXCEPT ![t] = place]

\* notify_one or notify_all: each condition variable has one waiter.
Notified(w, t) == [w EXCEPT ![t] = IF @ = "asleep" THEN "check" ELSE @]

FallAsleep(t) ==
  /\ wait[t] = "falling"
  /\ GoTo(t, "asleep")
  /\ UNCHANGED <<inputVars, stopping, fault, main, cloudVars, taskVars, processed>>

SpuriousWakeup(t) ==
  /\ wait[t] = "asleep"
  /\ GoTo(t, "check")
  /\ UNCHANGED <<inputVars, stopping, fault, main, cloudVars, taskVars, processed>>

-----------------------------------------------------------------------------
(* The callbacks: pushData under mtx_buf, notify_one after it.  Once        *)
(* stopping_ is set, pushData returns early and notifies nobody.            *)
PushData ==
  /\ main = "spin" /\ callback = "idle" /\ Free("lio")
  /\ delivered < MaxFrames
  /\ delivered' = delivered + 1
  /\ IF stopping
       THEN UNCHANGED <<ready, callback>>
       ELSE ready' = ready + 1 /\ callback' = "notify"
  /\ UNCHANGED <<wait, stopping, fault, main, cloudVars, taskVars, processed>>

\* Slip: pushData forgets to notify.
NotifyNobody ==
  /\ callback = "notify" /\ callback' = "idle"
  /\ UNCHANGED <<wait, ready, delivered, stopping, fault, main, cloudVars,
                 taskVars, processed>>

NotifyPushed ==
  /\ callback = "notify" /\ callback' = "idle"
  /\ wait' = Notified(wait, "lio")
  /\ UNCHANGED <<ready, delivered, stopping, fault, main, cloudVars, taskVars, processed>>

(* RequestStop stores the flag and notifies, without mtx_buf: once from a   *)
(* fault in a callback, once from main.                                     *)
FaultStores ==
  /\ main = "spin" /\ fault = "none"
  /\ stopping' = TRUE /\ fault' = "stored"
  /\ UNCHANGED <<wait, inputVars, main, cloudVars, taskVars, processed>>

FaultNotifies ==
  /\ fault = "stored" /\ fault' = "notified"
  /\ wait' = Notified(wait, "lio")
  /\ UNCHANGED <<inputVars, stopping, main, cloudVars, taskVars, processed>>

-----------------------------------------------------------------------------
(* The LIO worker, lidarodom_m::run.                                        *)
LioTop ==
  /\ wait["lio"] = "top"
  /\ GoTo("lio", IF stopping THEN "done" ELSE "check")
  /\ UNCHANGED <<inputVars, stopping, fault, main, cloudVars, taskVars, processed>>

\* The predicate reads stopping_, then tries to cut a group.
LioCheck ==
  /\ wait["lio"] = "check"
  /\ IF stopping \/ ready = 0
       THEN GoTo("lio", IF stopping THEN "done" ELSE "falling") /\ UNCHANGED ready
       ELSE GoTo("lio", "work") /\ ready' = ready - 1
  /\ UNCHANGED <<delivered, callback, stopping, fault, main, cloudVars, taskVars, processed>>

\* The cloud queue gives up its oldest entry, the task queue the new one.
PushCloud(q, c) == Append(IF Len(q) >= MaxClouds THEN Tail(q) ELSE q, c)
PushTask(q, c) == IF Len(q) < MaxTasks THEN Append(q, c) ELSE q

\* A processed scan that may be a keyframe goes to scantext first ...
LioTask ==
  /\ wait["lio"] = "work"
  /\ processed' = processed + 1
  /\ \/ GoTo("lio", "publish") /\ UNCHANGED tasks
     \/ /\ Free("task")
        /\ tasks' = PushTask(tasks, processed')
        /\ wait' = [Notified(wait, "task") EXCEPT !["lio"] = "publish"]
  /\ UNCHANGED <<inputVars, stopping, fault, main, cloudVars, taskStop, keptTasks>>

\* ... and its cloud to the publisher, when anybody has subscribed.
LioCloud ==
  /\ wait["lio"] = "publish"
  /\ \/ GoTo("lio", "top") /\ UNCHANGED <<clouds, made>>
     \/ /\ Free("cloud")
        /\ clouds' = PushCloud(clouds, processed)
        /\ made' = Append(made, processed)
        /\ wait' = [Notified(wait, "cloud") EXCEPT !["lio"] = "top"]
  /\ UNCHANGED <<inputVars, stopping, fault, main, cloudStop, shownClouds,
                 taskVars, processed>>

\* run() gives up the group in hand once it sees stopping_.
LioAbandons ==
  /\ wait["lio"] = "work" /\ stopping
  /\ GoTo("lio", "top")
  /\ UNCHANGED <<inputVars, stopping, fault, main, cloudVars, taskVars, processed>>

-----------------------------------------------------------------------------
(* The cloud worker publishes what is queued before it leaves.              *)
\* Slip: the stop flag wins over queued clouds.
LeavesCloudsBehind == clouds # <<>> /\ ~cloudStop

CloudsLeft == clouds # <<>>

CloudCheck ==
  /\ wait["cloud"] \in {"top", "check"}
  /\ IF CloudsLeft
       THEN /\ shownClouds' = Append(shownClouds, Head(clouds))
            /\ clouds' = Tail(clouds)
            /\ GoTo("cloud", "top")
       ELSE /\ GoTo("cloud", IF cloudStop THEN "done" ELSE "falling")
            /\ UNCHANGED <<clouds, shownClouds>>
  /\ UNCHANGED <<inputVars, stopping, fault, main, cloudStop, made, taskVars, processed>>

(* The scantext worker reads its flag without the mutex at the top of the   *)
(* loop, so a stop drops the tasks still queued.                            *)
TaskTop ==
  /\ wait["task"] = "top"
  /\ GoTo("task", IF taskStop THEN "done" ELSE "check")
  /\ UNCHANGED <<inputVars, stopping, fault, main, cloudVars, taskVars, processed>>

TaskCheck ==
  /\ wait["task"] = "check"
  /\ IF tasks # <<>>
       THEN /\ keptTasks' = Append(keptTasks, Head(tasks))
            /\ tasks' = Tail(tasks)
            /\ GoTo("task", "top")
       ELSE /\ GoTo("task", IF taskStop THEN "done" ELSE "falling")
            /\ UNCHANGED <<tasks, keptTasks>>
  /\ UNCHANGED <<inputVars, stopping, fault, main, cloudVars, taskStop, processed>>

-----------------------------------------------------------------------------
(* main after spin(): the callbacks, a faulting one included, have ended.   *)
MainStopsLio ==
  /\ main = "spin" /\ callback = "idle" /\ fault # "stored"
  /\ stopping' = TRUE /\ main' = "notifyLio"
  /\ UNCHANGED <<wait, inputVars, fault, cloudVars, taskVars, processed>>

MainNotifiesLio ==
  /\ main = "notifyLio" /\ main' = "joinLio"
  /\ wait' = Notified(wait, "lio")
  /\ UNCHANGED <<inputVars, stopping, fault, cloudVars, taskVars, processed>>

\* Slip: the flag is set without the mutex.
MainStopsTasksUnlocked ==
  /\ main = "joinLio" /\ wait["lio"] = "done"
  /\ taskStop' = TRUE /\ main' = "notifyTask"
  /\ UNCHANGED <<wait, inputVars, stopping, fault, cloudVars, tasks, keptTasks, processed>>

\* The two other stop flags are set under the mutex of their queue.
MainStopsTasks ==
  /\ main = "joinLio" /\ wait["lio"] = "done" /\ Free("task")
  /\ taskStop' = TRUE /\ main' = "notifyTask"
  /\ UNCHANGED <<wait, inputVars, stopping, fault, cloudVars, tasks, keptTasks, processed>>

MainNotifiesTasks ==
  /\ main = "notifyTask" /\ main' = "joinTask"
  /\ wait' = Notified(wait, "task")
  /\ UNCHANGED <<inputVars, stopping, fault, cloudVars, taskVars, processed>>

MainStopsClouds ==
  /\ main = "joinTask" /\ wait["task"] = "done" /\ Free("cloud")
  /\ cloudStop' = TRUE /\ main' = "notifyCloud"
  /\ UNCHANGED <<wait, inputVars, stopping, fault, clouds, shownClouds, made, taskVars,
                 processed>>

MainNotifiesClouds ==
  /\ main = "notifyCloud" /\ main' = "joinCloud"
  /\ wait' = Notified(wait, "cloud")
  /\ UNCHANGED <<inputVars, stopping, fault, cloudVars, taskVars, processed>>

MainExits ==
  /\ main = "joinCloud" /\ wait["cloud"] = "done"
  /\ main' = "exited"
  /\ UNCHANGED <<wait, inputVars, stopping, fault, cloudVars, taskVars, processed>>

-----------------------------------------------------------------------------
Callback == PushData \/ NotifyPushed \/ FaultStores \/ FaultNotifies
Lio == LioTop \/ LioCheck \/ LioTask \/ LioCloud \/ LioAbandons \/ FallAsleep("lio")
Cloud == CloudCheck \/ FallAsleep("cloud")
Task == TaskTop \/ TaskCheck \/ FallAsleep("task")
Main == MainStopsLio \/ MainNotifiesLio \/ MainStopsTasks \/ MainNotifiesTasks
          \/ MainStopsClouds \/ MainNotifiesClouds \/ MainExits

ShutdownNext ==
  \/ Callback \/ Lio \/ Cloud \/ Task \/ Main
  \/ \E t \in Threads : SpuriousWakeup(t)

\* The scheduler runs every thread that can run, and a thread that keeps
\* finding a mutex free gets it; nothing obliges a sensor to deliver, an
\* operator to stop the node or a wakeup to be spurious.
ShutdownFairness ==
  /\ WF_shutdownVars(NotifyPushed) /\ WF_shutdownVars(FaultNotifies)
  /\ WF_shutdownVars(Cloud) /\ WF_shutdownVars(Task)
  /\ SF_shutdownVars(Lio) /\ SF_shutdownVars(Main /\ main # "spin")

ShutdownSpec == ShutdownInit /\ [][ShutdownNext]_shutdownVars /\ ShutdownFairness

-----------------------------------------------------------------------------
\* "Stop producers and join them before stopping cloud consumers/publishers":
\* once main has asked the LIO worker to stop, the worker is joined.
ProducersAreJoined == main # "spin" ~> wait["lio"] = "done"

\* Once the LIO worker has ended, main gets through the two other joins: the
\* stop flags of the consumers cannot be missed.
ConsumersAreJoined == main = "joinLio" /\ wait["lio"] = "done" ~> main = "exited"

\* A scan that can be cut is taken or the node is stopped: the notification
\* of pushData, sent after the unlock, is never missed.
ReadyScanTaken == ready > 0 ~> (ready = 0 \/ stopping)

\* When main leaves, the newest clouds have all been published: the order of
\* the joins and the publisher's last round lose none but those that
\* MaxClouds newer ones displaced.
NewestCloudsShown ==
  main = "exited" =>
    \A i \in DOMAIN made :
      Len(made) - i < MaxClouds => \E j \in DOMAIN shownClouds : shownClouds[j] = made[i]
=============================================================================
