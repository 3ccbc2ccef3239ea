--------------------------- MODULE ImuQualityGate ---------------------------
(***************************************************************************)
(* The single quality decision taken on every IMU sample before both       *)
(* estimator chains see it (algo/imu_quality.h).  A sample is a stamp and  *)
(* the set of axes whose reading is unusable: not finite, or saturated.    *)
(* Times are whole ticks.  The value handed on for an axis is represented  *)
(* by its provenance: the stamp of the sample that measured it.            *)
(***************************************************************************)
EXTENDS Integers, Sequences

CONSTANTS Axis,             \* the three gyro and three accelerometer axes
          Gap,              \* longest raw interval between samples (50 ms)
          Rollback,         \* clock step back that is a reset (1 s)
          Hold,             \* hold_seconds, 0 disables substitution
          RecoverySamples,  \* clean samples that end a degraded episode
          Stamps            \* the stamps the driver may produce

NoStamp == -1               \* stands for the -infinity of last_stamp_

ASSUME GateAssumption ==
  /\ Stamps \subseteq Nat
  /\ Gap \in Nat \ {0}
  /\ Rollback \in Nat \ {0}
  /\ Hold \in Nat /\ Hold <= Gap
  /\ RecoverySamples \in Nat \ {0}

VARIABLES lastStamp,      \* last_stamp_: stamp of the last forwarded sample
          healthyStamp,   \* healthy_stamp_: axis -> stamp of its kept value
          degraded, degradedStart, recovery,
          gateFaulted,    \* faulted_, never cleared
          forwarded       \* history: every sample handed to both chains

gateVars == <<lastStamp, healthyStamp, degraded, degradedStart, recovery,
              gateFaulted, forwarded>>

Sample == [stamp : Stamps, held : SUBSET Axis, degraded : BOOLEAN,
           source : [Axis -> Stamps]]

GateTypeOK ==
  /\ lastStamp \in Stamps \cup {NoStamp}
  /\ healthyStamp \in [Axis -> Stamps \cup {NoStamp}]
  /\ degraded \in BOOLEAN
  /\ degradedStart \in Nat
  /\ recovery \in 0..RecoverySamples
  /\ gateFaulted \in BOOLEAN
  /\ forwarded \in Seq(Sample)

GateInit ==
  /\ lastStamp = NoStamp
  /\ healthyStamp = [a \in Axis |-> NoStamp]
  /\ degraded = FALSE
  /\ degradedStart = 0
  /\ recovery = 0
  /\ gateFaulted = FALSE
  /\ forwarded = <<>>

-----------------------------------------------------------------------------
Started == lastStamp # NoStamp

\* A clock reset, or a raw interval longer than the replay can bridge.
TimeFault(ts) == Started /\ (ts < lastStamp - Rollback \/ ts - lastStamp > Gap)

\* Slip: a repeated stamp counts as progress.
StaleAdmitsDuplicates(ts) == Started /\ ts < lastStamp

Stale(ts) == Started /\ ts <= lastStamp

\* The kept value of an axis may stand in for its reading.
Holdable(a, ts) ==
  /\ Hold > 0
  /\ healthyStamp[a] # NoStamp
  /\ ts - healthyStamp[a] <= Hold

\* Slip: the interval before the first held sample is not charged.
EpisodeStartsAtFirstHold(ts, bad) ==
  IF bad # {} /\ ~degraded THEN ts ELSE degradedStart

\* A degraded episode starts at the last sample before it.
EpisodeStart(ts, bad) ==
  IF bad # {} /\ ~degraded THEN (IF Started THEN lastStamp ELSE ts)
                           ELSE degradedStart

NewRecovery(bad) ==
  CASE bad # {} -> 0
    [] bad = {} /\ degraded -> recovery + 1
    [] OTHER -> recovery

\* Slip: the episode ends one sample early.
StillDegradedShort(bad) ==
  bad # {} \/ (degraded /\ NewRecovery(bad) + 1 < RecoverySamples)

StillDegraded(bad) ==
  bad # {} \/ (degraded /\ NewRecovery(bad) < RecoverySamples)

BudgetSpent(ts, bad) ==
  StillDegraded(bad) /\ ts - EpisodeStart(ts, bad) > Hold

-----------------------------------------------------------------------------
\* Process() looks at the latch first.
Deciding == ~gateFaulted

\* Process() after the fault: every sample is refused.
RefuseAfterFault(ts, bad) ==
  /\ gateFaulted
  /\ UNCHANGED gateVars

\* A non-finite stamp, a duplicate or a slightly late sample moves nothing.
DropStale(ts, bad) ==
  /\ Deciding
  /\ ~TimeFault(ts)
  /\ Stale(ts)
  /\ UNCHANGED gateVars

\* Axes are visited in order, so the healthy ones before the offending axis
\* are already recorded when Fault() returns.
RecordedBefore(ts, bad) ==
  {[a \in Axis |-> IF a \in seen THEN ts ELSE healthyStamp[a]] :
      seen \in SUBSET (Axis \ bad)}

LatchTimeFault(ts, bad) ==
  /\ Deciding
  /\ TimeFault(ts)
  /\ gateFaulted' = TRUE
  /\ UNCHANGED <<lastStamp, healthyStamp, degraded, degradedStart, recovery,
                 forwarded>>

LatchAxisFault(ts, bad) ==
  /\ Deciding
  /\ ~TimeFault(ts) /\ ~Stale(ts)
  /\ \E a \in bad : ~Holdable(a, ts)
  /\ healthyStamp' \in RecordedBefore(ts, bad)
  /\ gateFaulted' = TRUE
  /\ UNCHANGED <<lastStamp, degraded, degradedStart, recovery, forwarded>>

\* Slip: a held value is recorded as if it had been measured.
KeepsHeldValues(ts, bad) == [a \in Axis |-> ts]

\* The kept values when the axis loop runs to its end.
Kept(ts, bad) == [a \in Axis |-> IF a \in bad THEN healthyStamp[a] ELSE ts]

UpdateEpisode(ts, bad) ==
  /\ Deciding
  /\ ~TimeFault(ts) /\ ~Stale(ts)
  /\ \A a \in bad : Holdable(a, ts)
  /\ healthyStamp' = Kept(ts, bad)
  /\ degradedStart' = EpisodeStart(ts, bad)
  /\ recovery' = NewRecovery(bad)
  /\ degraded' = StillDegraded(bad)

LatchBudgetFault(ts, bad) ==
  /\ UpdateEpisode(ts, bad)
  /\ BudgetSpent(ts, bad)
  /\ gateFaulted' = TRUE
  /\ UNCHANGED <<lastStamp, forwarded>>

Forward(ts, bad) ==
  /\ UpdateEpisode(ts, bad)
  /\ ~BudgetSpent(ts, bad)
  /\ lastStamp' = ts
  /\ forwarded' = Append(forwarded,
       [stamp |-> ts, held |-> bad, degraded |-> StillDegraded(bad),
        source |-> Kept(ts, bad)])
  /\ UNCHANGED gateFaulted

\* Both ways Process() answers Fault on a fresh decision.
Latch(ts, bad) ==
  LatchTimeFault(ts, bad) \/ LatchAxisFault(ts, bad) \/ LatchBudgetFault(ts, bad)

GateNext ==
  \E ts \in Stamps, bad \in SUBSET Axis :
    \/ RefuseAfterFault(ts, bad)
    \/ DropStale(ts, bad)
    \/ Latch(ts, bad)
    \/ Forward(ts, bad)

GateSpec == GateInit /\ [][GateNext]_gateVars

-----------------------------------------------------------------------------
\* Both chains receive a stream without reordering, duplicates or a hole
\* longer than a raw interval may be (Process, the time checks).
StreamChained ==
  \A i \in 2..Len(forwarded) :
    forwarded[i].stamp - forwarded[i-1].stamp \in 1..Gap

\* A value substituted for an unusable reading was measured by a sample that
\* was itself forwarded with that axis healthy, at most Hold earlier; no value
\* ever comes from a refused sample.
HeldValueFresh ==
  \A i \in DOMAIN forwarded, a \in Axis :
    LET src == forwarded[i].source[a] IN
      /\ forwarded[i].stamp - src <= Hold
      /\ \E j \in 1..i : forwarded[j].stamp = src /\ a \notin forwarded[j].held

\* Over any unbroken run of degraded samples, recovery hysteresis included,
\* the time since the last sample before the run stays within the budget.
EpisodeWithinBudget ==
  \A i \in DOMAIN forwarded : \A j \in i..Len(forwarded) :
    (\A k \in i..j : forwarded[k].degraded)
      => i > 1 /\ forwarded[j].stamp - forwarded[i-1].stamp <= Hold

\* A sample is clean again only after RecoverySamples consecutive samples in
\* which nothing was held.
RecoveryHysteresis ==
  \A i \in DOMAIN forwarded :
    ~forwarded[i].degraded =>
      \A j \in 1..i : i - j < RecoverySamples => forwarded[j].held = {}

\* Once latched, the fault stays and nothing more reaches the estimators.
FaultTerminal ==
  [][gateFaulted => gateFaulted' /\ forwarded' = forwarded]_gateVars
=============================================================================
