--------------------------- MODULE ImuOdomOutput ---------------------------
(***************************************************************************)
(* The high-rate output chain (apps/imu_odom_output.h and its predictor,   *)
(* algo/imu_odom_predictor.h).  Callbacks push IMU samples and posteriors; *)
(* one worker owns the predictor: it restores each posterior at its own    *)
(* time, replays the samples kept since, and publishes.                    *)
(*                                                                         *)
(* A sample is its stamp.  The predictor's filter is the posterior it was  *)
(* restored from and the legs integrated since.  The callers are actions   *)
(* of this module; who calls them, and when, is the composition's matter.  *)
(***************************************************************************)
EXTENDS Propagation, SequencesExt

CONSTANTS MaxQueue,        \* capacity of imu_queue_ (20000)
          MaxHistory,      \* capacity of history_ (20000)
          HistorySpan,     \* history_seconds_ (2 s)
          PredictionLimit, \* prediction_limit_ (0.5 s)
          NoUpdate         \* stands for an empty optional<LioStateUpdate>

ASSUME OutputAssumption ==
  /\ MaxQueue \in Nat \ {0} /\ MaxHistory \in Nat \ {0, 1}
  /\ HistorySpan \in Nat /\ PredictionLimit \in Nat

VARIABLES
  imuQueue, statePending,        \* what the callbacks left under mutex_
  outStopping, outFaulted,       \* stopping_ and faulted_ of the output
  history, predPending,          \* the predictor: history_, pending_,
  sequence, anchor, accepted,    \*   sequence_, anchor_time_, last_accepted_,
  filter,                        \*   filter_ [base, stamp, legs],
  initialized, predFaulted,      \*   initialized_, faulted_ and
  gapMiss, staleState,           \*   whether counters gap and stale_state moved
  opc, batch, update,            \* the worker's control and its locals
  lastPublished,                 \* last_published
  published                      \* history: every message on /odom

queueOutVars == <<imuQueue, statePending>>
predVars == <<history, predPending, sequence, anchor, accepted, filter,
              initialized, predFaulted, gapMiss, staleState>>
workerVars == <<opc, batch, update, lastPublished, published>>
outVars == <<queueOutVars, outStopping, outFaulted, predVars, workerVars>>

NoFilter == [base |-> 0, stamp |-> 0, legs |-> <<>>]

OutputInit ==
  /\ imuQueue = <<>> /\ statePending = NoUpdate
  /\ outStopping = FALSE /\ outFaulted = FALSE
  /\ history = <<>> /\ predPending = NoUpdate
  /\ sequence = 0 /\ anchor = 0 /\ accepted = 0
  /\ filter = NoFilter /\ initialized = FALSE /\ predFaulted = FALSE
  /\ gapMiss = FALSE /\ staleState = FALSE
  /\ opc = "wait" /\ batch = <<>> /\ update = NoUpdate
  /\ lastPublished = -1 /\ published = <<>>

-----------------------------------------------------------------------------
(* The callbacks, each one critical section under mutex_.                  *)
OutputOpen == ~outStopping /\ ~outFaulted

QueueOverflow == OutputOpen /\ Len(imuQueue) >= MaxQueue

OnImu(ts) ==
  /\ imuQueue' = IF OutputOpen /\ ~QueueOverflow
                   THEN Append(imuQueue, ts) ELSE imuQueue
  /\ outFaulted' = (outFaulted \/ QueueOverflow)
  /\ UNCHANGED <<statePending, outStopping, predVars, workerVars>>

\* Slip: the first posterior waiting is kept.
NewerOnlyFirst(u) == statePending = NoUpdate

\* A posterior waiting in the mailbox gives way to a newer one.
Newer(u) == statePending = NoUpdate \/ u.seq > statePending.seq

OnState(u) ==
  /\ statePending' =
       IF OutputOpen /\ Newer(u) THEN u ELSE statePending
  /\ UNCHANGED <<imuQueue, outStopping, outFaulted, predVars, workerVars>>

-----------------------------------------------------------------------------
(* The predictor.  Append: only newer samples, and the oldest are trimmed   *)
(* so that one sample before the retained span is kept.                     *)
Trimmed(h) ==
  LET Excess(n) == /\ Len(h) - n > 2
                   /\ \/ h[n+2] < Last(h) - HistorySpan
                      \/ Len(h) - n > MaxHistory
      drop == CHOOSE n \in 0..Len(h) : ~Excess(n) /\ \A k \in 0..(n-1) : Excess(k)
  IN SubSeq(h, drop + 1, Len(h))

AppendSample(h, ts) ==
  IF h # <<>> /\ ts <= Last(h) THEN h ELSE Trimmed(Append(h, ts))

\* history_ after the whole batch, sample by sample.
AppendBatch(h, b) ==
  LET after[i \in 0..Len(b)] ==
        IF i = 0 THEN h ELSE AppendSample(after[i - 1], b[i])
  IN after[Len(b)]

\* Slip: a posterior of a rejected scan counts as stale.
StaleUnlessAccepted(u) ==
  \/ u.seq <= sequence
  \/ sequence > 0 /\ (u.stamp <= anchor \/ u.accepted <= accepted)

\* Submit refuses a posterior that does not advance on what it already has.
Stale(u) ==
  \/ u.seq <= sequence
  \/ predPending # NoUpdate /\ (u.seq <= predPending.seq \/ u.stamp < predPending.stamp)
  \/ sequence > 0 /\ (u.stamp <= anchor \/ u.accepted < accepted)

Submitted ==
  IF update = NoUpdate \/ Stale(update) THEN predPending ELSE update

\* Slip: a sample beyond the posterior is awaited.
RestorableLater(h, p) == p # NoUpdate /\ h # <<>> /\ p.stamp < Last(h)

\* Advance restores a posterior once the samples have caught up with it.
Restorable(h, p) == p # NoUpdate /\ h # <<>> /\ p.stamp <= Last(h)

\* Slip: the first interval is integrated from its raw left sample.
ReplayWholeInterval(h, t) ==
  LET next == SelectInSeq(h, LAMBDA ts : ts > t)
  IN IF next = 0 THEN <<>>
     ELSE LegsAlong(SubSeq(h, next, Len(h)), h[next-1], h[next-1], Last(h))

\* The legs that replay history h from time t: upper_bound, then to the end.
Replay(h, t) ==
  LET next == SelectInSeq(h, LAMBDA ts : ts > t)
  IN IF next = 0 THEN <<>>
     ELSE LegsAlong(SubSeq(h, next, Len(h)), h[next-1], t, Last(h))

\* The filter once the legs from it have been integrated.
Integrated(f, legs) ==
  [f EXCEPT !.legs = @ \o legs,
            !.stamp = IF legs = <<>> THEN @ ELSE Last(legs).to]

PredictorFails ==
  /\ predFaulted' = TRUE /\ initialized' = FALSE /\ predPending' = NoUpdate

\* Advance with history h, pending posterior p; the filter to start from is
\* the restored one if the samples have caught up with p.
Advance(h, p) ==
  LET restore == Restorable(h, p)
      start == IF restore
                 THEN [base |-> p.seq, stamp |-> p.stamp, legs |-> <<>>] ELSE filter
      live == restore \/ initialized
      miss == IF h = <<>> THEN FALSE ELSE live /\ start.stamp < h[1]
      legs == IF live /\ h # <<>> /\ ~miss THEN Replay(h, start.stamp) ELSE <<>>
      lost == restore /\ miss
  IN
  /\ sequence' = IF restore /\ ~lost THEN p.seq ELSE sequence
  /\ anchor' = IF restore /\ ~lost THEN p.stamp ELSE anchor
  /\ accepted' = IF restore /\ ~lost THEN p.accepted ELSE accepted
  /\ IF miss \/ ~AllLegsOk(legs)
       THEN PredictorFails /\ UNCHANGED filter
       ELSE /\ filter' = Integrated(start, legs)
            /\ initialized' = live
            /\ predPending' = IF restore THEN NoUpdate ELSE p
            /\ UNCHANGED predFaulted
  /\ gapMiss' = (gapMiss \/ (~miss /\ ~AllLegsOk(legs)))

\* Slip: a fault latched during the replay is not seen.
ToPublishBlindly ==
  /\ initialized' /\ ~predFaulted'
  /\ filter'.stamp - accepted' <= PredictionLimit
  /\ filter'.stamp > lastPublished

\* Slip: the prediction limit is not applied.
ToPublishBeyondHorizon ==
  /\ initialized' /\ ~predFaulted'
  /\ filter'.stamp > lastPublished
  /\ ~outFaulted

\* Publishable, then the stamp check and the worker's look at faulted_.
ToPublish ==
  /\ initialized' /\ ~predFaulted'
  /\ filter'.stamp - accepted' <= PredictionLimit
  /\ filter'.stamp > lastPublished
  /\ ~outFaulted

-----------------------------------------------------------------------------
(* The worker.  The wait is bounded by a second, so a wakeup needs no       *)
(* input; the samples and the posterior leave the queues together.          *)
LeavesLoop == outStopping \/ outFaulted

Wake ==
  /\ opc = "wait"
  /\ IF LeavesLoop
       THEN opc' = "done" /\ UNCHANGED <<batch, update, queueOutVars>>
       ELSE /\ opc' = "work"
            /\ batch' = imuQueue /\ imuQueue' = <<>>
            /\ update' = statePending /\ statePending' = NoUpdate
  /\ UNCHANGED <<outStopping, outFaulted, predVars, lastPublished, published>>

\* Append, Submit and Advance touch nothing another thread can see.
Work ==
  /\ opc = "work"
  /\ history' = AppendBatch(history, batch)
  /\ staleState' = (staleState \/ (update # NoUpdate /\ Stale(update)))
  /\ Advance(history', Submitted)
  /\ opc' = IF predFaulted' THEN "fail" ELSE IF ToPublish THEN "publish" ELSE "wait"
  /\ batch' = <<>> /\ update' = NoUpdate
  /\ UNCHANGED <<queueOutVars, outStopping, outFaulted, lastPublished, published>>

Message == [stamp |-> filter.stamp, base |-> filter.base]

Publish ==
  /\ opc = "publish"
  /\ published' = Append(published, Message)
  /\ lastPublished' = filter.stamp
  /\ opc' = "wait"
  /\ UNCHANGED <<queueOutVars, outStopping, outFaulted, predVars, batch, update>>

Worker == Wake \/ Work \/ Publish

\* Fail: the exchange on faulted_.  The stop of the other chain that follows
\* is the caller's next step.
SetFaulted ==
  /\ outFaulted' = TRUE
  /\ UNCHANGED <<queueOutVars, outStopping, predVars, workerVars>>

\* The worker calls Fail after a failed replay and goes back to its loop.
WorkerFails ==
  /\ opc = "fail"
  /\ outFaulted' = TRUE
  /\ opc' = "wait"
  /\ UNCHANGED <<queueOutVars, outStopping, predVars, batch, update,
                 lastPublished, published>>

\* Stop: the flag is set under mutex_, and the worker is joined.
StopOutput ==
  /\ outStopping' = TRUE
  /\ UNCHANGED <<queueOutVars, outFaulted, predVars, workerVars>>
=============================================================================
