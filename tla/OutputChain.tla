---------------------------- MODULE OutputChain ----------------------------
(***************************************************************************)
(* The output chain under the contract its callers keep: the IMU callback  *)
(* hands over the stream the quality gate forwards, the LIO worker numbers *)
(* its posteriors, and a posterior is never newer than the samples already *)
(* handed over (imuHandler feeds this chain before the LIO queue).         *)
(***************************************************************************)
EXTENDS ImuOdomOutput

CONSTANT Times   \* sensor times, the bound on every stamp

Updates == [seq : Nat, stamp : Nat, accepted : Nat]

ASSUME ChainAssumption == Times \subseteq Nat /\ NoUpdate \notin Updates

VARIABLES stream,    \* history: the samples handed to OnImu, in order
          given      \* history: the posteriors handed to OnState, by number

chainVars == <<outVars, stream, given>>

ChainInit == OutputInit /\ stream = <<>> /\ given = <<>>

\* imuHandler: ImuQualityGate lets no gap longer than Gap through.
Sample(ts) ==
  /\ stream # <<>> => ts - Last(stream) \in 1..Gap
  /\ OnImu(ts)
  /\ stream' = Append(stream, ts)
  /\ UNCHANGED given

\* ProcessMeasurements: the scan's end is covered by the stream and later
\* than the previous posterior; the accepted LiDAR data never gets older.
Posterior(t, acc) ==
  LET u == [seq |-> Len(given) + 1, stamp |-> t, accepted |-> acc] IN
  /\ stream # <<>> /\ t <= Last(stream)
  /\ acc <= t
  /\ given # <<>> => t > Last(given).stamp /\ acc >= Last(given).accepted
  /\ OnState(u)
  /\ given' = Append(given, u)
  /\ UNCHANGED stream

\* A fault of the other chain or of the quality gate.
ForeignFault == ~outFaulted /\ SetFaulted /\ UNCHANGED <<stream, given>>

Shutdown == ~outStopping /\ StopOutput /\ UNCHANGED <<stream, given>>

WorkerStep == (Worker \/ WorkerFails) /\ UNCHANGED <<stream, given>>

ChainNext ==
  \/ \E ts \in Times : Sample(ts)
  \/ \E t, acc \in Times : Posterior(t, acc)
  \/ ForeignFault
  \/ Shutdown
  \/ WorkerStep

ChainSpec == ChainInit /\ [][ChainNext]_chainVars

-----------------------------------------------------------------------------
\* The published state is the base posterior advanced over every interval of
\* the sample stream since, each between neighbouring samples, without a hole
\* or an overlap (Advance, Append's trimming, PropagateInterval).
ReplayIsExact ==
  opc = "publish" =>
    /\ filter.base \in DOMAIN given
    /\ Path(filter.legs, given[filter.base].stamp, filter.stamp)
    /\ \A i \in DOMAIN filter.legs : Adjacent(stream, filter.legs[i])

\* The replay never meets a gap, and no posterior is refused as stale: under
\* the contract the only fault of the predictor itself is a posterior older
\* than the history it keeps.
OnlyHistoryMissFaults ==
  /\ ~gapMiss /\ ~staleState
  /\ predFaulted => \E i \in DOMAIN given : given[i].stamp < history[1]

\* A posterior taken from the mailbox is restored by the very Advance that
\* follows: it never waits inside the predictor, because the samples up to
\* its time left imuQueue in the same critical section or before.
NoPosteriorWaits == predPending = NoUpdate

\* The mailbox keeps the newest posterior: none that the worker already has,
\* or has passed, is ever waiting there (OnState, Submit).
MailboxIsNewest ==
  statePending # NoUpdate =>
    /\ statePending = Last(given) \/ ~OutputOpen
    /\ statePending.seq > sequence
    /\ update # NoUpdate => statePending.seq > update.seq

\* No posterior is forgotten: whenever the worker is back at its wait with an
\* empty mailbox, the predictor stands on the last one handed over, whatever
\* samples, posteriors and overtaken posteriors came in between.
NothingForgotten ==
  opc = "wait" /\ statePending = NoUpdate /\ OutputOpen => sequence = Len(given)

\* What the chain publishes is what the abstract specification allows.
Abstract == INSTANCE Odometry WITH
  Horizon <- PredictionLimit,
  Times <- Times,
  posteriors <- [i \in DOMAIN given |->
                   [stamp |-> given[i].stamp, accepted |-> given[i].accepted]],
  odom <- published,
  phase <- IF ~outFaulted THEN "live"
           ELSE IF opc = "publish" THEN "closing" ELSE "closed"

ImplementsOdometry == Abstract!OdometrySpec
=============================================================================
