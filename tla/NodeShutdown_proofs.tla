------------------------- MODULE NodeShutdown_proofs -------------------------
(***************************************************************************)
(* Proof that the order in which main stops and joins its threads keeps    *)
(* the newest clouds, for every capacity of the queue, any number of scans *)
(* and every interleaving of callbacks, faults, workers and main.          *)
(***************************************************************************)
EXTENDS NodeShutdown, TLAPS

Places == {"top", "check", "falling", "asleep", "work", "publish", "done"}
Steps == {"spin", "notifyLio", "joinLio", "notifyTask", "joinTask",
          "notifyCloud", "joinCloud", "exited"}

ShutdownTypes ==
  /\ wait \in [Threads -> Places] /\ main \in Steps
  /\ clouds \in Seq(Nat) /\ made \in Seq(Nat) /\ shownClouds \in Seq(Nat)
  /\ processed \in Nat /\ cloudStop \in BOOLEAN

\* main goes past a join only when the thread has ended, and none returns.
Joined ==
  /\ main \in {"notifyTask", "joinTask", "notifyCloud", "joinCloud", "exited"} =>
       wait["lio"] = "done"
  /\ cloudStop => main \in {"notifyCloud", "joinCloud", "exited"}
  /\ wait["cloud"] = "done" => cloudStop /\ clouds = <<>>
  /\ main = "exited" => wait["cloud"] = "done"

In(s, c) == \E j \in DOMAIN s : s[j] = c

\* The queue is the end of what was made; of the newest clouds, those that
\* are not queued have been published.
QueueIsNewest ==
  /\ Len(clouds) <= Len(made) /\ Len(clouds) <= MaxClouds
  /\ \A k \in 1..Len(clouds) : clouds[k] = made[Len(made) - Len(clouds) + k]
  /\ \A i \in 1..Len(made) :
       Len(made) - i < MaxClouds /\ i <= Len(made) - Len(clouds) => In(shownClouds, made[i])

ShutdownInv == ShutdownTypes /\ Joined /\ QueueIsNewest

-----------------------------------------------------------------------------
\* Every step but those of the queue and of the joins.
Elsewhere ==
  /\ UNCHANGED <<clouds, made, shownClouds, cloudStop>>
  /\ \/ main' = main
     \/ main = "spin" /\ main' = "notifyLio"
     \/ main = "notifyLio" /\ main' = "joinLio"
     \/ main = "joinLio" /\ wait["lio"] = "done" /\ main' = "notifyTask"
     \/ main = "notifyTask" /\ main' = "joinTask"
     \/ main = "notifyCloud" /\ main' = "joinCloud"
  /\ wait' \in [Threads -> Places] /\ processed' \in Nat
  /\ wait["lio"] = "done" => wait'["lio"] = "done"
  /\ wait["cloud"] = "done" <=> wait'["cloud"] = "done"

LEMMA Notifying ==
  ASSUME ShutdownTypes, NEW t \in Threads
  PROVE  /\ Notified(wait, t) \in [Threads -> Places]
         /\ \A u \in Threads : Notified(wait, t)[u] = "done" <=> wait[u] = "done"
  BY DEF ShutdownTypes, Notified, Places

LEMMA Going ==
  ASSUME ShutdownTypes, NEW t \in Threads, NEW p \in Places, GoTo(t, p)
  PROVE  /\ wait' \in [Threads -> Places] /\ wait'[t] = p
         /\ \A u \in Threads : u # t => wait'[u] = wait[u]
  BY DEF ShutdownTypes, GoTo

LEMMA ThreadNames == "lio" \in Threads /\ "cloud" \in Threads /\ "task" \in Threads
  BY DEF Threads

LEMMA InputSteps ==
  ASSUME ShutdownTypes, Callback \/ (\E t \in Threads : SpuriousWakeup(t) \/ FallAsleep(t))
  PROVE  Elsewhere
<1>1. CASE Callback
  BY <1>1, Notifying, ThreadNames
     DEF Callback, PushData, NotifyPushed, FaultStores, FaultNotifies, cloudVars,
         Elsewhere, ShutdownTypes
<1>2. ASSUME NEW t \in Threads, SpuriousWakeup(t) \/ FallAsleep(t) PROVE Elsewhere
  <2>1. /\ wait[t] # "done" /\ UNCHANGED <<main, cloudVars, processed>>
        /\ GoTo(t, "check") \/ GoTo(t, "asleep")
    BY <1>2 DEF SpuriousWakeup, FallAsleep
  <2>2. /\ wait' \in [Threads -> Places] /\ wait'[t] # "done"
        /\ \A u \in Threads : u # t => wait'[u] = wait[u]
    BY <2>1, Going DEF Places
  <2> QED BY <2>1, <2>2, ThreadNames DEF cloudVars, Elsewhere, ShutdownTypes
<1> QED BY <1>1, <1>2

LEMMA LioSteps ==
  ASSUME ShutdownTypes, LioTop \/ LioCheck \/ LioTask \/ LioAbandons
  PROVE  Elsewhere
<1> DEFINE Moved == /\ UNCHANGED <<main, cloudVars>> /\ wait["lio"] # "done"
                    /\ wait' \in [Threads -> Places] /\ processed' \in Nat
                    /\ wait'["cloud"] = "done" <=> wait["cloud"] = "done"
<1>1. CASE LioTop \/ LioCheck \/ LioAbandons
  <2>1. /\ wait["lio"] # "done" /\ UNCHANGED <<main, cloudVars, processed>>
        /\ \E p \in Places : GoTo("lio", p)
    BY <1>1 DEF LioTop, LioCheck, LioAbandons, Places
  <2>2. wait' \in [Threads -> Places] /\ wait'["cloud"] = wait["cloud"]
    BY <2>1, Going, ThreadNames
  <2> QED BY <2>1, <2>2 DEF cloudVars, Elsewhere, ShutdownTypes
<1>2. CASE LioTask
  <2>1. /\ wait["lio"] # "done" /\ UNCHANGED <<main, cloudVars>> /\ processed' = processed + 1
        /\ \/ GoTo("lio", "publish")
           \/ wait' = [Notified(wait, "task") EXCEPT !["lio"] = "publish"]
    BY <1>2 DEF LioTask, taskVars
  <2>2. wait' \in [Threads -> Places] /\ (wait'["cloud"] = "done" <=> wait["cloud"] = "done")
    <3>1. CASE GoTo("lio", "publish")
      BY <3>1, Going, ThreadNames DEF Places
    <3>2. CASE wait' = [Notified(wait, "task") EXCEPT !["lio"] = "publish"]
      BY <3>2, Notifying, ThreadNames DEF Places
    <3> QED BY <2>1, <3>1, <3>2
  <2> QED BY <2>1, <2>2 DEF cloudVars, Elsewhere, ShutdownTypes
<1> QED BY <1>1, <1>2

LEMMA TaskSteps ==
  ASSUME ShutdownTypes, TaskTop \/ TaskCheck
  PROVE  Elsewhere
<1>1. UNCHANGED <<main, cloudVars, processed>> /\ \E p \in Places : GoTo("task", p)
  BY DEF TaskTop, TaskCheck, Places
<1>2. /\ wait' \in [Threads -> Places]
      /\ wait'["cloud"] = wait["cloud"] /\ wait'["lio"] = wait["lio"]
  BY <1>1, Going, ThreadNames
<1> QED BY <1>1, <1>2 DEF cloudVars, Elsewhere, ShutdownTypes

LEMMA MainSteps ==
  ASSUME ShutdownTypes,
         \/ MainStopsLio \/ MainNotifiesLio \/ MainStopsTasks \/ MainNotifiesTasks
         \/ MainNotifiesClouds
  PROVE  Elsewhere
<1>1. CASE MainStopsLio \/ MainStopsTasks
  BY <1>1 DEF MainStopsLio, MainStopsTasks, cloudVars, Elsewhere, ShutdownTypes
<1>2. CASE MainNotifiesLio \/ MainNotifiesTasks \/ MainNotifiesClouds
  BY <1>2, Notifying, ThreadNames
     DEF MainNotifiesLio, MainNotifiesTasks, MainNotifiesClouds, cloudVars, Elsewhere,
         ShutdownTypes
<1> QED BY <1>1, <1>2

LEMMA ShutdownSteps ==
  ASSUME ShutdownTypes, [ShutdownNext]_shutdownVars
  PROVE  Elsewhere \/ LioCloud \/ CloudCheck \/ MainStopsClouds \/ MainExits
<1>1. CASE UNCHANGED shutdownVars
  BY <1>1 DEF shutdownVars, Elsewhere, ShutdownTypes
<1>2. CASE ShutdownNext
  BY <1>2, InputSteps, LioSteps, TaskSteps, MainSteps, ThreadNames
     DEF ShutdownNext, Lio, Cloud, Task, Main
<1> QED BY <1>1, <1>2

-----------------------------------------------------------------------------
LEMMA ElsewhereKeeps ==
  ASSUME ShutdownInv, Elsewhere
  PROVE  ShutdownInv'
<1> USE DEF ShutdownInv
<1>1. ShutdownTypes'
  BY DEF Elsewhere, ShutdownTypes, Steps
<1>2. Joined'
  BY DEF Elsewhere, Joined, ShutdownTypes
<1>3. QueueIsNewest'
  BY DEF Elsewhere, QueueIsNewest, In
<1> QED BY <1>1, <1>2, <1>3

\* What PushCloud makes of a queue with room, and of a full one.
LEMMA PushedWithRoom ==
  ASSUME NEW q \in Seq(Nat), NEW c \in Nat, Len(q) < MaxClouds
  PROVE  /\ PushCloud(q, c) \in Seq(Nat)
         /\ Len(PushCloud(q, c)) = Len(q) + 1 /\ PushCloud(q, c)[Len(q) + 1] = c
         /\ \A k \in 1..Len(q) : PushCloud(q, c)[k] = q[k]
<1>1. PushCloud(q, c) = Append(q, c)
  BY ShutdownAssumption DEF PushCloud
<1> QED BY <1>1

LEMMA PushedWhenFull ==
  ASSUME NEW q \in Seq(Nat), NEW c \in Nat, Len(q) = MaxClouds
  PROVE  /\ PushCloud(q, c) \in Seq(Nat)
         /\ Len(PushCloud(q, c)) = Len(q) /\ PushCloud(q, c)[Len(q)] = c
         /\ \A k \in 1..(Len(q) - 1) : PushCloud(q, c)[k] = q[k + 1]
<1>1. PushCloud(q, c) = Append(Tail(q), c) /\ q # <<>> /\ Len(q) \in Nat \ {0}
  BY ShutdownAssumption DEF PushCloud
<1>2. Tail(q) \in Seq(Nat) /\ Len(Tail(q)) = Len(q) - 1
  BY <1>1
<1>3. \A k \in 1..(Len(q) - 1) : Tail(q)[k] = q[k + 1]
  BY <1>1
<1> QED BY <1>1, <1>2, <1>3

LEMMA LioCloudKeeps ==
  ASSUME ShutdownInv, LioCloud
  PROVE  ShutdownInv'
<1> USE DEF ShutdownInv
<1>1. /\ wait["lio"] = "publish" /\ UNCHANGED <<main, cloudStop, shownClouds, processed>>
      /\ \/ GoTo("lio", "top") /\ UNCHANGED <<clouds, made>>
         \/ /\ clouds' = PushCloud(clouds, processed) /\ made' = Append(made, processed)
            /\ wait' = [Notified(wait, "cloud") EXCEPT !["lio"] = "top"]
  BY DEF LioCloud
<1>2. /\ wait' \in [Threads -> Places]
      /\ wait'["cloud"] = "done" <=> wait["cloud"] = "done"
  <2>1. CASE GoTo("lio", "top")
    BY <2>1, Going, ThreadNames DEF Places
  <2>2. CASE wait' = [Notified(wait, "cloud") EXCEPT !["lio"] = "top"]
    BY <2>2, Notifying, ThreadNames DEF Places
  <2> QED BY <1>1, <2>1, <2>2
<1>3. ~cloudStop /\ wait["cloud"] # "done"
      /\ main \notin {"notifyTask", "joinTask", "notifyCloud", "joinCloud", "exited"}
  BY <1>1 DEF Joined
<1>4. Joined'
  BY <1>1, <1>2, <1>3 DEF Joined
<1>5. CASE UNCHANGED <<clouds, made>>
  BY <1>1, <1>2, <1>4, <1>5 DEF ShutdownTypes, QueueIsNewest, In
<1>6. CASE clouds' = PushCloud(clouds, processed) /\ made' = Append(made, processed)
  <2>1. /\ clouds \in Seq(Nat) /\ made \in Seq(Nat) /\ processed \in Nat
        /\ Len(clouds) \in Nat /\ Len(made) \in Nat /\ MaxClouds \in Nat \ {0}
        /\ Len(clouds) <= MaxClouds /\ Len(clouds) <= Len(made)
    BY ShutdownAssumption DEF ShutdownTypes, QueueIsNewest
  <2>2. /\ made' \in Seq(Nat) /\ Len(made') = Len(made) + 1 /\ made'[Len(made) + 1] = processed
        /\ \A i \in 1..Len(made) : made'[i] = made[i]
    BY <1>6, <2>1
  <2>3. clouds' \in Seq(Nat)
    <3>1. Len(clouds) < MaxClouds \/ Len(clouds) = MaxClouds
      BY <2>1
    <3> QED BY <1>6, <2>1, <3>1, PushedWithRoom, PushedWhenFull
  <2>4. ShutdownTypes'
    BY <1>1, <1>2, <2>2, <2>3 DEF ShutdownTypes
  <2>5. CASE Len(clouds) < MaxClouds
    <3>1. /\ Len(clouds') = Len(clouds) + 1 /\ clouds'[Len(clouds) + 1] = processed
          /\ \A k \in 1..Len(clouds) : clouds'[k] = clouds[k]
      <4>1. clouds \in Seq(Nat) /\ processed \in Nat
        BY <2>1
      <4> QED BY <1>6, <4>1, <2>5, PushedWithRoom
    <3>2. \A k \in 1..Len(clouds') : clouds'[k] = made'[Len(made') - Len(clouds') + k]
      <4> SUFFICES ASSUME NEW k \in 1..Len(clouds')
                   PROVE  clouds'[k] = made'[Len(made') - Len(clouds') + k]
        OBVIOUS
      <4>1. Len(made') - Len(clouds') = Len(made) - Len(clouds)
        BY <2>1, <2>2, <3>1
      <4>2. CASE k = Len(clouds) + 1
        BY <2>1, <2>2, <3>1, <4>1, <4>2
      <4>3. CASE k \in 1..Len(clouds)
        <5>1. clouds[k] = made[Len(made) - Len(clouds) + k]
          BY <4>3 DEF QueueIsNewest
        <5>2. Len(made) - Len(clouds) + k \in 1..Len(made)
          BY <2>1, <4>3
        <5> QED BY <2>2, <3>1, <4>1, <4>3, <5>1, <5>2
      <4> QED BY <2>1, <3>1, <4>2, <4>3
    <3>3. \A i \in 1..Len(made') :
            Len(made') - i < MaxClouds /\ i <= Len(made') - Len(clouds') => In(shownClouds', made'[i])
      <4> SUFFICES ASSUME NEW i \in 1..Len(made'),
                          Len(made') - i < MaxClouds, i <= Len(made') - Len(clouds')
                   PROVE  In(shownClouds', made'[i])
        OBVIOUS
      <4>1. i \in 1..Len(made) /\ Len(made) - i < MaxClouds /\ i <= Len(made) - Len(clouds)
        <5>1. Len(made') = Len(made) + 1 /\ Len(clouds') = Len(clouds) + 1
          BY <2>2, <3>1
        <5>2. Len(made) \in Nat /\ Len(clouds) \in Nat /\ MaxClouds \in Nat
          BY <2>1
        <5> QED BY <5>1, <5>2
      <4>2. In(shownClouds, made[i]) /\ made'[i] = made[i]
        BY <2>2, <4>1 DEF QueueIsNewest
      <4> QED BY <1>1, <4>2 DEF In
    <3>4. Len(clouds') <= Len(made') /\ Len(clouds') <= MaxClouds
      BY <2>1, <2>2, <2>5, <3>1
    <3>5. QueueIsNewest'
      BY <3>2, <3>3, <3>4 DEF QueueIsNewest, In
    <3> QED BY <1>4, <2>4, <3>5
  <2>6. CASE Len(clouds) = MaxClouds
    <3>1. /\ Len(clouds') = Len(clouds) /\ clouds'[Len(clouds)] = processed
          /\ \A k \in 1..(Len(clouds) - 1) : clouds'[k] = clouds[k + 1]
      <4>1. clouds \in Seq(Nat) /\ processed \in Nat
        BY <2>1
      <4> QED BY <1>6, <4>1, <2>6, PushedWhenFull
    <3>2. \A k \in 1..Len(clouds') : clouds'[k] = made'[Len(made') - Len(clouds') + k]
      <4> SUFFICES ASSUME NEW k \in 1..Len(clouds')
                   PROVE  clouds'[k] = made'[Len(made') - Len(clouds') + k]
        OBVIOUS
      <4>1. CASE k = Len(clouds)
        <5>1. Len(made') - Len(clouds') + k = Len(made) + 1
          BY <2>1, <2>2, <3>1, <4>1
        <5> QED BY <2>2, <3>1, <4>1, <5>1
      <4>2. CASE k \in 1..(Len(clouds) - 1)
        <5>1. k + 1 \in 1..Len(clouds)
          BY <2>1, <4>2
        <5>2. clouds[k + 1] = made[Len(made) - Len(clouds) + (k + 1)]
          BY <5>1 DEF QueueIsNewest
        <5>3. /\ Len(made) - Len(clouds) + (k + 1) \in 1..Len(made)
              /\ Len(made') - Len(clouds') + k = Len(made) - Len(clouds) + (k + 1)
          BY <2>1, <2>2, <3>1, <4>2
        <5> QED BY <2>2, <3>1, <4>2, <5>2, <5>3
      <4> QED BY <2>1, <3>1, <4>1, <4>2
    <3>3. /\ Len(clouds') <= Len(made') /\ Len(clouds') <= MaxClouds
          /\ \A i \in 1..Len(made') :
               ~(Len(made') - i < MaxClouds /\ i <= Len(made') - Len(clouds'))
      BY <2>1, <2>2, <2>6, <3>1
    <3>4. QueueIsNewest'
      BY <3>2, <3>3 DEF QueueIsNewest
    <3> QED BY <1>4, <2>4, <3>4
  <2> QED BY <2>1, <2>5, <2>6
<1> QED BY <1>1, <1>5, <1>6

LEMMA CloudCheckKeeps ==
  ASSUME ShutdownInv, CloudCheck
  PROVE  ShutdownInv'
<1> USE DEF ShutdownInv
<1>1. UNCHANGED <<main, cloudStop, made, processed>> /\ wait["cloud"] # "done"
  BY DEF CloudCheck
<1>2. main # "exited"
  BY <1>1 DEF Joined
<1>3. CASE clouds # <<>>
  <2>1. /\ shownClouds' = Append(shownClouds, Head(clouds)) /\ clouds' = Tail(clouds)
        /\ GoTo("cloud", "top")
    BY <1>3 DEF CloudCheck, CloudsLeft
  <2>2. /\ wait' \in [Threads -> Places] /\ wait'["cloud"] = "top"
        /\ wait'["lio"] = wait["lio"]
    BY <2>1, Going, ThreadNames DEF Places
  <2>3. /\ clouds \in Seq(Nat) /\ made \in Seq(Nat) /\ shownClouds \in Seq(Nat)
        /\ Len(clouds) \in Nat \ {0} /\ Len(made) \in Nat /\ MaxClouds \in Nat \ {0}
        /\ Len(clouds) <= MaxClouds /\ Len(clouds) <= Len(made)
    BY <1>3, ShutdownAssumption DEF ShutdownTypes, QueueIsNewest
  <2>4. /\ clouds' \in Seq(Nat) /\ Len(clouds') = Len(clouds) - 1 /\ Head(clouds) = clouds[1]
        /\ \A k \in 1..Len(clouds') : clouds'[k] = clouds[k + 1]
    BY <1>3, <2>1, <2>3
  <2>5. /\ shownClouds' \in Seq(Nat) /\ In(shownClouds', clouds[1])
        /\ \A c : In(shownClouds, c) => In(shownClouds', c)
    <3>1. Head(clouds) \in Nat
      BY <1>3, <2>3
    <3>2. /\ shownClouds' \in Seq(Nat) /\ Len(shownClouds') = Len(shownClouds) + 1
          /\ shownClouds'[Len(shownClouds) + 1] = Head(clouds)
          /\ \A j \in 1..Len(shownClouds) : shownClouds'[j] = shownClouds[j]
      BY <2>1, <2>3, <3>1
    <3>3. Len(shownClouds) \in Nat /\ DOMAIN shownClouds = 1..Len(shownClouds)
          /\ DOMAIN shownClouds' = 1..(Len(shownClouds) + 1)
      BY <2>3, <3>2
    <3>4. In(shownClouds', clouds[1])
      BY <2>4, <3>2, <3>3 DEF In
    <3>5. ASSUME NEW c, In(shownClouds, c) PROVE In(shownClouds', c)
      <4>1. PICK j \in 1..Len(shownClouds) : shownClouds[j] = c
        BY <3>3, <3>5 DEF In
      <4> QED BY <3>2, <3>3, <4>1 DEF In
    <3> QED BY <3>2, <3>4, <3>5
  <2>6. \A k \in 1..Len(clouds') : clouds'[k] = made'[Len(made') - Len(clouds') + k]
    <3> SUFFICES ASSUME NEW k \in 1..Len(clouds')
                 PROVE  clouds'[k] = made'[Len(made') - Len(clouds') + k]
      OBVIOUS
    <3>1. k + 1 \in 1..Len(clouds)
      BY <2>3, <2>4
    <3>2. clouds[k + 1] = made[Len(made) - Len(clouds) + (k + 1)]
      BY <3>1 DEF QueueIsNewest
    <3>3. Len(made') - Len(clouds') + k = Len(made) - Len(clouds) + (k + 1)
      BY <1>1, <2>3, <2>4
    <3> QED BY <1>1, <2>4, <3>2, <3>3
  <2>7. \A i \in 1..Len(made') :
          Len(made') - i < MaxClouds /\ i <= Len(made') - Len(clouds') => In(shownClouds', made[i])
    <3> SUFFICES ASSUME NEW i \in 1..Len(made),
                        Len(made) - i < MaxClouds, i <= Len(made) - Len(clouds')
                 PROVE  In(shownClouds', made[i])
      BY <1>1
    <3>1. CASE i <= Len(made) - Len(clouds)
      BY <2>5, <3>1 DEF QueueIsNewest
    <3>2. CASE i = Len(made) - Len(clouds) + 1
      <4>1. 1 \in 1..Len(clouds)
        BY <2>3
      <4>2. clouds[1] = made[i]
        BY <3>2, <4>1 DEF QueueIsNewest
      <4> QED BY <2>5, <4>2
    <3>3. i <= Len(made) - Len(clouds) \/ i = Len(made) - Len(clouds) + 1
      <4>1. Len(clouds') = Len(clouds) - 1
        BY <2>4
      <4>2. i \in Nat /\ Len(made) \in Nat /\ Len(clouds) \in Nat
        BY <2>3
      <4> QED BY <4>1, <4>2
    <3> QED BY <3>1, <3>2, <3>3
  <2>8. ShutdownTypes' /\ Joined'
    BY <1>1, <1>2, <2>2, <2>4, <2>5 DEF ShutdownTypes, Joined
  <2>9. QueueIsNewest'
    <3>1. Len(clouds') <= Len(made') /\ Len(clouds') <= MaxClouds
      BY <1>1, <2>3, <2>4
    <3> QED BY <1>1, <2>6, <2>7, <3>1 DEF QueueIsNewest
  <2> QED BY <2>8, <2>9
<1>4. CASE clouds = <<>>
  <2>1. /\ UNCHANGED <<clouds, shownClouds>>
        /\ (cloudStop /\ GoTo("cloud", "done")) \/ GoTo("cloud", "falling")
    BY <1>4 DEF CloudCheck, CloudsLeft
  <2>2. /\ wait' \in [Threads -> Places] /\ (wait'["cloud"] = "done" => cloudStop)
        /\ wait'["lio"] = wait["lio"]
    BY <2>1, Going, ThreadNames DEF Places
  <2>3. ShutdownTypes' /\ Joined'
    BY <1>1, <1>2, <1>4, <2>1, <2>2 DEF ShutdownTypes, Joined
  <2> QED BY <1>1, <2>1, <2>3 DEF QueueIsNewest, In
<1> QED BY <1>3, <1>4

LEMMA MainKeeps ==
  ASSUME ShutdownInv, MainStopsClouds \/ MainExits
  PROVE  ShutdownInv'
<1> USE DEF ShutdownInv
<1>1. UNCHANGED <<wait, clouds, made, shownClouds, processed>>
  BY DEF MainStopsClouds, MainExits, cloudVars
<1>2. ShutdownTypes' /\ Joined'
  BY <1>1 DEF MainStopsClouds, MainExits, cloudVars, ShutdownTypes, Joined, Steps
<1> QED BY <1>1, <1>2 DEF QueueIsNewest, In

-----------------------------------------------------------------------------
\* When main leaves, the newest clouds have all been published, whatever the
\* capacity of the queue (RunPublishCloud and the joins of main).
THEOREM LastCloudsArePublished == ShutdownSpec => []NewestCloudsShown
<1>1. ShutdownInit => ShutdownInv
  <2> SUFFICES ASSUME ShutdownInit PROVE ShutdownInv
    OBVIOUS
  <2>1. ShutdownTypes
    <3>1. <<>> \in Seq(Nat)
      OBVIOUS
    <3> QED BY <3>1 DEF ShutdownInit, ShutdownTypes, Places, Steps
  <2>2. Joined
    BY ThreadNames DEF ShutdownInit, Joined
  <2>3. Len(clouds) = 0 /\ Len(made) = 0
    BY DEF ShutdownInit
  <2>4. QueueIsNewest
    BY <2>3, ShutdownAssumption DEF QueueIsNewest
  <2> QED BY <2>1, <2>2, <2>4 DEF ShutdownInv
<1>2. ShutdownInv /\ [ShutdownNext]_shutdownVars => ShutdownInv'
  BY ShutdownSteps, ElsewhereKeeps, LioCloudKeeps, CloudCheckKeeps, MainKeeps DEF ShutdownInv
<1>3. ShutdownInv => NewestCloudsShown
  <2> SUFFICES ASSUME ShutdownInv, main = "exited", NEW i \in DOMAIN made,
                      Len(made) - i < MaxClouds
               PROVE  \E j \in DOMAIN shownClouds : shownClouds[j] = made[i]
    BY DEF NewestCloudsShown
  <2>1. clouds = <<>>
    BY DEF ShutdownInv, Joined
  <2>2. i \in 1..Len(made) /\ i <= Len(made) - Len(clouds)
    BY <2>1 DEF ShutdownInv, ShutdownTypes
  <2> QED BY <2>2 DEF ShutdownInv, QueueIsNewest, In
<1> QED BY <1>1, <1>2, <1>3, PTL DEF ShutdownSpec
=============================================================================
