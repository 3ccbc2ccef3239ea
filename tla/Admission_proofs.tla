--------------------------- MODULE Admission_proofs ---------------------------
(***************************************************************************)
(* Proofs about what lets a sensor in: the quality gate for an IMU's       *)
(* samples, for every set of axes and stamps and every value of the limits *)
(* that satisfies GateAssumption; and the configuration handshake, for     *)
(* every set of LiDARs and settings, every configuration file and every    *)
(* number of slots.  The two share nothing.                                *)
(***************************************************************************)
EXTENDS ImuQualityGate, LidarHandshake, SequenceTheorems, FiniteSetTheorems, TLAPS

-----------------------------------------------------------------------------
(* The quality gate.  Each of its safety properties is invariant because   *)
(* of what the gate keeps in its members: the parts below say how each     *)
(* member relates to the samples already handed on.                        *)

\* An open episode has not yet counted enough clean samples.
RecoveryOpen == degraded => recovery < RecoverySamples

GateTypes == GateTypeOK /\ RecoveryOpen

\* last_stamp_ is the stamp of the last sample handed on.
LastIsLast ==
  /\ lastStamp = NoStamp <=> forwarded = <<>>
  /\ forwarded # <<>> => lastStamp = forwarded[Len(forwarded)].stamp

Increasing ==
  \A i, j \in DOMAIN forwarded : i < j => forwarded[i].stamp < forwarded[j].stamp

Stream == LastIsLast /\ StreamChained /\ Increasing

\* Before the fault every kept value was measured by a forwarded sample.
KeptMeasured ==
  ~gateFaulted =>
    \A a \in Axis : healthyStamp[a] # NoStamp =>
      \E j \in DOMAIN forwarded :
        forwarded[j].stamp = healthyStamp[a] /\ a \notin forwarded[j].held

\* Before the fault, degraded_ is the flag of the last sample handed on, and
\* an open episode starts at the clean sample right before its first one.
EpisodeTracked ==
  ~gateFaulted =>
    /\ degraded =>
         \E r \in 2..Len(forwarded) :
           /\ ~forwarded[r-1].degraded
           /\ forwarded[r-1].stamp = degradedStart
    /\ ~degraded /\ forwarded # <<>> => ~forwarded[Len(forwarded)].degraded

\* Before the fault, recovery_ counts the last samples with nothing held.
RecoveryCounts ==
  ~gateFaulted /\ degraded =>
    \A j \in DOMAIN forwarded :
      Len(forwarded) - j < recovery => forwarded[j].held = {}

Episodes == EpisodeTracked /\ EpisodeWithinBudget
Recoveries == RecoveryCounts /\ RecoveryHysteresis
Values == KeptMeasured /\ HeldValueFresh

-----------------------------------------------------------------------------
(* What one step does to the history of forwarded samples.                 *)

NewSample(ts, bad) ==
  [stamp |-> ts, held |-> bad, degraded |-> StillDegraded(bad),
   source |-> Kept(ts, bad)]

\* Every disjunct of the next-state relation is one of three cases: nothing
\* the gate keeps changes, the fault is latched, or one sample goes out.
LEMMA StepCases ==
  ASSUME [GateNext]_gateVars
  PROVE  \/ UNCHANGED gateVars
         \/ \E ts \in Stamps, bad \in SUBSET Axis : Deciding /\ Latch(ts, bad)
         \/ \E ts \in Stamps, bad \in SUBSET Axis : Forward(ts, bad)
  BY DEF GateNext, RefuseAfterFault, DropStale, Latch, LatchTimeFault,
         LatchAxisFault, LatchBudgetFault, UpdateEpisode

\* Latching a fault leaves the samples already handed on, and the stamp of
\* the last one, as they are.
LEMMA LatchKeepsHistory ==
  ASSUME NEW ts, NEW bad, Latch(ts, bad)
  PROVE  gateFaulted' = TRUE /\ UNCHANGED <<lastStamp, forwarded>>
  BY DEF Latch, LatchTimeFault, LatchAxisFault, LatchBudgetFault

\* A reading that is held has a kept value, measured at a stamp of the driver.
LEMMA KeptIsMeasured ==
  ASSUME GateTypeOK, NEW ts \in Stamps, NEW bad \in SUBSET Axis,
         \A a \in bad : Holdable(a, ts)
  PROVE  Kept(ts, bad) \in [Axis -> Stamps]
  BY DEF GateTypeOK, Holdable, Kept

\* The fields of the sample that Forward hands on.
LEMMA NewSampleFields ==
  ASSUME NEW ts, NEW bad
  PROVE  /\ NewSample(ts, bad).stamp = ts
         /\ NewSample(ts, bad).held = bad
         /\ NewSample(ts, bad).degraded = StillDegraded(bad)
         /\ NewSample(ts, bad).source = Kept(ts, bad)
  BY DEF NewSample

\* Forward adds exactly that sample to the history.
LEMMA ForwardAppends ==
  ASSUME GateTypeOK, NEW ts \in Stamps, NEW bad \in SUBSET Axis, Forward(ts, bad)
  PROVE  /\ NewSample(ts, bad) \in Sample
         /\ forwarded' \in Seq(Sample) /\ forwarded' # <<>>
         /\ Len(forwarded) \in Nat /\ Len(forwarded') = Len(forwarded) + 1
         /\ DOMAIN forwarded = 1..Len(forwarded)
         /\ DOMAIN forwarded' = 1..(Len(forwarded) + 1)
         /\ \A i \in 1..Len(forwarded) : forwarded'[i] = forwarded[i]
         /\ forwarded'[Len(forwarded) + 1] = NewSample(ts, bad)
  <1>1. Kept(ts, bad) \in [Axis -> Stamps]
    BY KeptIsMeasured DEF Forward, UpdateEpisode
  <1>2. StillDegraded(bad) \in BOOLEAN
    BY DEF StillDegraded
  <1>3. NewSample(ts, bad) \in Sample
    BY <1>1, <1>2 DEF NewSample, Sample
  <1>4. forwarded' = Append(forwarded, NewSample(ts, bad))
    BY DEF Forward, NewSample
  <1>5. forwarded \in Seq(Sample)
    BY DEF GateTypeOK
  <1>6. QED
    BY <1>3, <1>4, <1>5, AppendProperties, LenProperties

-----------------------------------------------------------------------------
(* Types.                                                                  *)

LEMMA UpdateTypes ==
  ASSUME GateTypes, NEW ts \in Stamps, NEW bad \in SUBSET Axis,
         UpdateEpisode(ts, bad)
  PROVE  /\ healthyStamp' \in [Axis -> Stamps \cup {NoStamp}]
         /\ degraded' \in BOOLEAN
         /\ degradedStart' \in Nat
         /\ recovery' \in 0..RecoverySamples
         /\ RecoveryOpen'
  <1> USE GateAssumption DEF GateTypes, GateTypeOK, UpdateEpisode
  <1>1. healthyStamp' \in [Axis -> Stamps \cup {NoStamp}]
    BY DEF Kept
  <1>2. degraded' \in BOOLEAN
    BY DEF StillDegraded
  <1>3. degradedStart' \in Nat
    BY DEF EpisodeStart, Started
  <1>4. recovery' \in 0..RecoverySamples
    BY DEF NewRecovery, RecoveryOpen
  <1>5. RecoveryOpen'
    <2>1. CASE bad # {}
      <3>1. recovery' = 0
        BY <2>1 DEF NewRecovery
      <3>2. QED
        BY <3>1 DEF RecoveryOpen
    <2>2. CASE bad = {}
      <3>1. degraded' => NewRecovery(bad) < RecoverySamples
        BY ONLY <2>2, UpdateEpisode(ts, bad) DEF UpdateEpisode, StillDegraded
      <3>2. QED
        BY <3>1 DEF RecoveryOpen
    <2>3. QED
      BY <2>1, <2>2
  <1>6. QED
    BY <1>1, <1>2, <1>3, <1>4, <1>5

LEMMA TypesInductive ==
  ASSUME GateTypes, [GateNext]_gateVars
  PROVE  GateTypes'
  <1> USE GateAssumption
  <1>1. CASE UNCHANGED gateVars
    BY <1>1 DEF GateTypes, GateTypeOK, RecoveryOpen, gateVars
  <1>2. ASSUME NEW ts \in Stamps, NEW bad \in SUBSET Axis, Latch(ts, bad)
        PROVE  GateTypes'
    <2>1. CASE LatchTimeFault(ts, bad)
      BY <2>1 DEF LatchTimeFault, GateTypes, GateTypeOK, RecoveryOpen
    <2>2. CASE LatchAxisFault(ts, bad)
      <3>1. healthyStamp' \in [Axis -> Stamps \cup {NoStamp}]
        BY <2>2 DEF LatchAxisFault, RecordedBefore, GateTypes, GateTypeOK
      <3>2. QED
        BY <2>2, <3>1 DEF LatchAxisFault, GateTypes, GateTypeOK, RecoveryOpen
    <2>3. CASE LatchBudgetFault(ts, bad)
      <3>1. UpdateEpisode(ts, bad)
        BY <2>3 DEF LatchBudgetFault
      <3>2. QED
        BY <2>3, <3>1, UpdateTypes DEF LatchBudgetFault, GateTypes, GateTypeOK
    <2>4. QED
      BY <1>2, <2>1, <2>2, <2>3 DEF Latch
  <1>3. ASSUME NEW ts \in Stamps, NEW bad \in SUBSET Axis, Forward(ts, bad)
        PROVE  GateTypes'
    <2>1. forwarded' \in Seq(Sample)
      BY <1>3, ForwardAppends DEF GateTypes
    <2>2. UpdateEpisode(ts, bad)
      BY <1>3 DEF Forward
    <2>3. QED
      BY <1>3, <2>1, <2>2, UpdateTypes DEF Forward, GateTypes, GateTypeOK
  <1>4. QED
    BY <1>1, <1>2, <1>3, StepCases

LEMMA TypesInvariant == GateSpec => []GateTypes
  <1>1. GateInit => GateTypes
    <2>1. <<>> \in Seq(Sample)
      BY EmptySeq
    <2>2. 0 \in Nat /\ 0 \in 0..RecoverySamples
      BY GateAssumption
    <2>3. GateInit => RecoveryOpen
      BY DEF GateInit, RecoveryOpen
    <2>4. GateInit => GateTypeOK
      BY <2>1, <2>2, Zenon DEF GateInit, GateTypeOK
    <2>5. QED
      BY <2>3, <2>4 DEF GateTypes
  <1>2. GateTypes /\ [GateNext]_gateVars => GateTypes'
    BY TypesInductive
  <1>3. QED
    BY <1>1, <1>2, PTL DEF GateSpec

\* The members of ImuQualityGate keep their types: recovery_ in particular
\* never counts beyond recovery_samples.
THEOREM TypeCorrect == GateSpec => []GateTypeOK
  BY TypesInvariant, PTL DEF GateTypes

-----------------------------------------------------------------------------
(* The stream both chains receive.                                         *)

\* A sample that is neither a time fault nor stale follows the last one
\* within the longest raw interval.
LEMMA FreshFollows ==
  ASSUME GateTypeOK, NEW ts \in Stamps, ~TimeFault(ts), ~Stale(ts), Started
  PROVE  ts - lastStamp \in 1..Gap
  <1>1. ts \in Int /\ lastStamp \in Int /\ Gap \in Int
    BY GateAssumption DEF GateTypeOK, Started
  <1>2. ts > lastStamp /\ ts - lastStamp <= Gap
    BY <1>1 DEF TimeFault, Stale
  <1>3. QED
    BY <1>1, <1>2

\* The samples already forwarded have whole, non-negative stamps.
LEMMA ForwardedStamps ==
  ASSUME GateTypeOK
  PROVE  /\ Len(forwarded) \in Nat
         /\ DOMAIN forwarded = 1..Len(forwarded)
         /\ \A i \in 1..Len(forwarded) : forwarded[i] \in Sample /\ forwarded[i].stamp \in Nat
  <1>1. forwarded \in Seq(Sample)
    BY DEF GateTypeOK
  <1>2. \A s \in Sample : s.stamp \in Nat
    BY GateAssumption DEF Sample
  <1>3. QED
    BY <1>1, <1>2, LenProperties, ElementOfSeq

LEMMA StreamInductive ==
  ASSUME GateTypes, Stream, [GateNext]_gateVars
  PROVE  Stream'
  <1>1. CASE UNCHANGED gateVars
    BY <1>1 DEF Stream, LastIsLast, StreamChained, Increasing, gateVars
  <1>2. ASSUME NEW ts \in Stamps, NEW bad \in SUBSET Axis, Latch(ts, bad)
        PROVE  Stream'
    BY <1>2, LatchKeepsHistory DEF Stream, LastIsLast, StreamChained, Increasing
  <1>3. ASSUME NEW ts \in Stamps, NEW bad \in SUBSET Axis, Forward(ts, bad)
        PROVE  Stream'
    <2> DEFINE n == Len(forwarded)
    <2>1. GateTypeOK
      BY DEF GateTypes
    <2>2. /\ n \in Nat /\ Len(forwarded') = n + 1
          /\ DOMAIN forwarded = 1..n /\ DOMAIN forwarded' = 1..(n + 1)
          /\ forwarded' # <<>>
          /\ \A i \in 1..n : forwarded'[i] = forwarded[i]
          /\ forwarded'[n + 1].stamp = ts
      BY <1>3, <2>1, ForwardAppends, NewSampleFields
    <2>3. lastStamp' = ts /\ ts \in Nat /\ ts # NoStamp
      BY <1>3, GateAssumption DEF Forward, NoStamp
    <2>4. n > 0 => /\ Started /\ lastStamp = forwarded[n].stamp
                   /\ ts - lastStamp \in 1..Gap
      <3>1. n > 0 => forwarded # <<>>
        BY EmptySeq, <2>2
      <3>2. n > 0 => Started /\ lastStamp = forwarded[n].stamp
        BY <3>1 DEF Stream, LastIsLast, Started
      <3>3. QED
        BY <1>3, <2>1, <3>2, FreshFollows DEF Forward, UpdateEpisode
    <2>5. \A i \in 1..n : forwarded[i].stamp \in Nat
      BY <2>1, ForwardedStamps
    <2>6. LastIsLast'
      BY <2>2, <2>3 DEF LastIsLast
    <2>7. StreamChained'
      <3>1. SUFFICES ASSUME NEW i \in 2..(n + 1)
                     PROVE  forwarded'[i].stamp - forwarded'[i-1].stamp \in 1..Gap
        BY <2>2 DEF StreamChained
      <3>2. CASE i = n + 1
        BY <2>2, <2>4, <3>2
      <3>3. CASE i # n + 1
        BY <2>2, <3>3 DEF Stream, StreamChained
      <3>4. QED
        BY <3>2, <3>3
    <2>8. Increasing'
      <3>1. SUFFICES ASSUME NEW i \in 1..(n + 1), NEW j \in 1..(n + 1), i < j
                     PROVE  forwarded'[i].stamp < forwarded'[j].stamp
        BY <2>2 DEF Increasing
      <3>2. CASE j = n + 1
        <4>1. i \in 1..n /\ n \in 1..n
          BY <2>2, <3>1, <3>2
        <4>2. forwarded[i].stamp <= forwarded[n].stamp
          BY <2>2, <2>5, <4>1 DEF Stream, Increasing
        <4>3. forwarded[n].stamp < ts
          BY <2>3, <2>4, <2>5, <4>1, GateAssumption
        <4>4. QED
          BY <2>2, <2>3, <2>5, <3>2, <4>1, <4>2, <4>3
      <3>3. CASE j # n + 1
        BY <2>2, <3>1, <3>3 DEF Stream, Increasing
      <3>4. QED
        BY <3>2, <3>3
    <2>9. QED
      BY <2>6, <2>7, <2>8 DEF Stream
  <1>4. QED
    BY <1>1, <1>2, <1>3, StepCases

LEMMA StreamInvariant == GateSpec => [](GateTypes /\ Stream)
  <1>1. GateInit => Stream
    BY EmptySeq DEF GateInit, Stream, LastIsLast, StreamChained, Increasing, NoStamp
  <1>2. GateTypes /\ Stream /\ [GateNext]_gateVars => Stream'
    BY StreamInductive
  <1>3. QED
    BY <1>1, <1>2, TypesInvariant, PTL DEF GateSpec

\* What both chains receive is without duplicates, reordering and holes: a
\* consumer may bridge any two neighbours with one integration step.
THEOREM StreamIsChained == GateSpec => []StreamChained
  BY StreamInvariant, PTL DEF Stream

\* The fault is terminal: no later call of Process() clears it or hands a
\* sample to either chain.
THEOREM FaultIsTerminal == GateSpec => FaultTerminal
  <1>1. [GateNext]_gateVars
          => [gateFaulted => gateFaulted' /\ forwarded' = forwarded]_gateVars
    <2> SUFFICES ASSUME [GateNext]_gateVars, gateFaulted, ~UNCHANGED gateVars
                 PROVE  gateFaulted' /\ forwarded' = forwarded
      OBVIOUS
    <2>1. \A ts, bad : ~Forward(ts, bad)
      BY DEF Forward, UpdateEpisode, Deciding
    <2>2. ASSUME NEW ts, NEW bad, Latch(ts, bad)
          PROVE  gateFaulted' /\ forwarded' = forwarded
      BY <2>2, LatchKeepsHistory
    <2>3. QED
      BY <2>1, <2>2, StepCases
  <1>2. QED
    BY <1>1, PTL DEF GateSpec, FaultTerminal

-----------------------------------------------------------------------------
(* Held values, degraded episodes and recovery.  Their parts speak of the   *)
(* members before the fault only; after it the history stands still.        *)

Whole == Values /\ Episodes /\ Recoveries

\* Latching a fault keeps every part: the members no longer matter.
LEMMA LatchKeepsWhole ==
  ASSUME Whole, gateFaulted' = TRUE, forwarded' = forwarded
  PROVE  Whole'
  BY DEF Whole, Values, KeptMeasured, HeldValueFresh, Episodes, EpisodeTracked,
         EpisodeWithinBudget, Recoveries, RecoveryCounts, RecoveryHysteresis

\* One sample goes out: the abbreviations the three parts share.
Grows(n, ts, bad) ==
  /\ n \in Nat /\ Len(forwarded) = n /\ Len(forwarded') = n + 1
  /\ DOMAIN forwarded = 1..n /\ DOMAIN forwarded' = 1..(n + 1)
  /\ forwarded' # <<>>
  /\ \A i \in 1..n : forwarded'[i] = forwarded[i]
  /\ forwarded'[n + 1].stamp = ts
  /\ forwarded'[n + 1].held = bad
  /\ forwarded'[n + 1].degraded = StillDegraded(bad)
  /\ forwarded'[n + 1].source = Kept(ts, bad)

LEMMA ForwardGrows ==
  ASSUME GateTypes, NEW ts \in Stamps, NEW bad \in SUBSET Axis, Forward(ts, bad)
  PROVE  Grows(Len(forwarded), ts, bad)
  BY ForwardAppends, NewSampleFields DEF GateTypes, Grows

LEMMA ForwardKeepsValues ==
  ASSUME GateTypes, Values, NEW ts \in Stamps, NEW bad \in SUBSET Axis,
         Forward(ts, bad)
  PROVE  Values'
  <1> DEFINE n == Len(forwarded)
  <1>1. Grows(n, ts, bad)
    BY ForwardGrows
  <1>2. /\ ~gateFaulted /\ ~gateFaulted' /\ healthyStamp' = Kept(ts, bad)
        /\ \A a \in bad : Holdable(a, ts)
    BY DEF Forward, UpdateEpisode, Deciding
  <1>3. Hold \in Nat /\ ts \in Nat
    BY GateAssumption
  <1>4. ASSUME NEW a \in Axis, Kept(ts, bad)[a] # NoStamp
        PROVE  /\ ts - Kept(ts, bad)[a] <= Hold
               /\ \E j \in 1..(n + 1) :
                    forwarded'[j].stamp = Kept(ts, bad)[a] /\ a \notin forwarded'[j].held
    <2>1. CASE a \in bad
      <3>1. /\ Kept(ts, bad)[a] = healthyStamp[a] /\ healthyStamp[a] # NoStamp
            /\ ts - healthyStamp[a] <= Hold
        BY <1>2, <2>1 DEF Kept, Holdable
      <3>2. PICK j \in 1..n : forwarded[j].stamp = healthyStamp[a] /\ a \notin forwarded[j].held
        BY <1>1, <1>2, <3>1 DEF Values, KeptMeasured, Grows
      <3>3. j \in 1..(n + 1) /\ forwarded'[j] = forwarded[j]
        BY <1>1, <3>2 DEF Grows
      <3>4. QED
        BY <3>1, <3>2, <3>3
    <2>2. CASE a \notin bad
      <3>1. Kept(ts, bad)[a] = ts
        BY <2>2 DEF Kept
      <3>2. n + 1 \in 1..(n + 1)
        BY <1>1 DEF Grows
      <3>3. ts - ts <= Hold
        BY <1>3
      <3>4. QED
        BY <1>1, <2>2, <3>1, <3>2, <3>3 DEF Grows
    <2>3. QED
      BY <2>1, <2>2
  <1>5. KeptMeasured'
    BY <1>1, <1>2, <1>4 DEF KeptMeasured, Grows
  <1>6. HeldValueFresh'
    <2>1. SUFFICES ASSUME NEW i \in 1..(n + 1), NEW a \in Axis
                   PROVE  /\ forwarded'[i].stamp - forwarded'[i].source[a] <= Hold
                          /\ \E j \in 1..i : /\ forwarded'[j].stamp = forwarded'[i].source[a]
                                             /\ a \notin forwarded'[j].held
      BY <1>1 DEF HeldValueFresh, Grows
    <2>2. CASE i = n + 1
      <3>1. Kept(ts, bad)[a] # NoStamp
        <4>1. \A b \in bad : healthyStamp[b] # NoStamp
          BY <1>2 DEF Holdable
        <4>2. ts # NoStamp
          BY <1>3 DEF NoStamp
        <4>3. QED
          BY <4>1, <4>2 DEF Kept
      <3>2. QED
        BY <1>1, <1>4, <2>2, <3>1 DEF Grows
    <2>3. CASE i # n + 1
      <3>1. i \in 1..n /\ \A j \in 1..i : forwarded'[j] = forwarded[j]
        BY <1>1, <2>3 DEF Grows
      <3>2. /\ forwarded[i].stamp - forwarded[i].source[a] <= Hold
            /\ \E j \in 1..i : /\ forwarded[j].stamp = forwarded[i].source[a]
                               /\ a \notin forwarded[j].held
        BY <1>1, <3>1 DEF Values, HeldValueFresh, Grows
      <3>3. i \in 1..i
        BY <3>1
      <3>4. QED
        BY <3>1, <3>2, <3>3
    <2>4. QED
      BY <2>2, <2>3
  <1>7. QED
    BY <1>5, <1>6 DEF Values

\* Until a sample went out no axis has a kept value, so none can be held: a
\* degraded episode always has a sample before it.
LEMMA HoldNeedsStart ==
  ASSUME Stream, Values, ~gateFaulted, NEW ts, NEW bad \in SUBSET Axis, bad # {},
         \A a \in bad : Holdable(a, ts)
  PROVE  Started
  <1>1. PICK a \in Axis : healthyStamp[a] # NoStamp
    BY DEF Holdable
  <1>2. \E j \in DOMAIN forwarded : TRUE
    BY <1>1 DEF Values, KeptMeasured
  <1>3. forwarded # <<>>
    BY <1>2
  <1>4. QED
    BY <1>3 DEF Stream, LastIsLast, Started

\* A forwarded sample extends the running episode or opens one at itself, and
\* the budget test keeps every run of degraded samples within Hold.
LEMMA ForwardKeepsEpisodes ==
  ASSUME GateTypes, Stream, Values, Episodes,
         NEW ts \in Stamps, NEW bad \in SUBSET Axis, Forward(ts, bad)
  PROVE  Episodes'
  <1> DEFINE n == Len(forwarded)
  <1>1. Grows(n, ts, bad)
    BY ForwardGrows
  <1>2. /\ ~gateFaulted /\ ~gateFaulted'
        /\ degraded' = StillDegraded(bad)
        /\ degradedStart' = EpisodeStart(ts, bad)
        /\ ~BudgetSpent(ts, bad)
        /\ \A a \in bad : Holdable(a, ts)
    BY DEF Forward, UpdateEpisode, Deciding
  <1>3. /\ ts \in Int /\ Hold \in Int
        /\ \A i \in 1..n : forwarded[i].stamp \in Int
    BY GateAssumption, ForwardedStamps DEF GateTypes
  <1>4. ASSUME StillDegraded(bad)
        PROVE  \E r \in 2..(n + 1) :
                 /\ ~forwarded[r-1].degraded
                 /\ forwarded[r-1].stamp = EpisodeStart(ts, bad)
    <2>1. CASE degraded
      <3>1. EpisodeStart(ts, bad) = degradedStart
        BY <2>1 DEF EpisodeStart
      <3>2. PICK r \in 2..n : /\ ~forwarded[r-1].degraded
                              /\ forwarded[r-1].stamp = degradedStart
        BY <1>2, <2>1 DEF Episodes, EpisodeTracked
      <3>3. r \in 2..(n + 1)
        BY <1>1, <3>2 DEF Grows
      <3>4. QED
        BY <3>1, <3>2, <3>3
    <2>2. CASE ~degraded
      <3>1. bad # {}
        BY <1>4, <2>2 DEF StillDegraded
      <3>2. Started
        BY <1>2, <3>1, HoldNeedsStart
      <3>3. forwarded # <<>> /\ lastStamp = forwarded[n].stamp
        BY <3>2 DEF Stream, LastIsLast, Started
      <3>4. EpisodeStart(ts, bad) = lastStamp
        BY <2>2, <3>1, <3>2 DEF EpisodeStart
      <3>5. ~forwarded[n].degraded
        BY <1>2, <2>2, <3>3 DEF Episodes, EpisodeTracked
      <3>6. n > 0
        <4>1. n # 0
          BY <3>3, EmptySeq, GateAssumption DEF GateTypes, GateTypeOK
        <4>2. QED
          BY <1>1, <4>1 DEF Grows
      <3>7. n + 1 \in 2..(n + 1) /\ (n + 1) - 1 = n
        BY <1>1, <3>6 DEF Grows
      <3>8. QED
        BY <3>3, <3>4, <3>5, <3>7
    <2>3. QED
      BY <2>1, <2>2
  <1>5. ASSUME StillDegraded(bad)
        PROVE  ts - EpisodeStart(ts, bad) <= Hold
    <2>1. EpisodeStart(ts, bad) \in Int
      <3>1. PICK r \in 2..(n + 1) : forwarded[r-1].stamp = EpisodeStart(ts, bad)
        BY <1>4, <1>5
      <3>2. r - 1 \in 1..n
        BY <1>1, <3>1 DEF Grows
      <3>3. QED
        BY <1>3, <3>1, <3>2
    <2>2. QED
      BY <1>2, <1>3, <1>5, <2>1 DEF BudgetSpent
  <1>6. EpisodeTracked'
    <2>1. ASSUME degraded'
          PROVE  \E r \in 2..(n + 1) : /\ ~forwarded'[r-1].degraded
                                       /\ forwarded'[r-1].stamp = degradedStart'
      <3>1. PICK r \in 2..(n + 1) : /\ ~forwarded[r-1].degraded
                                    /\ forwarded[r-1].stamp = EpisodeStart(ts, bad)
        BY <1>2, <1>4, <2>1
      <3>2. forwarded'[r-1] = forwarded[r-1]
        BY <1>1, <3>1 DEF Grows
      <3>3. QED
        BY <1>2, <3>1, <3>2
    <2>2. ~degraded' => ~forwarded'[n + 1].degraded
      BY <1>1, <1>2 DEF Grows
    <2>3. Len(forwarded') = n + 1
      BY <1>1 DEF Grows
    <2>4. QED
      BY <2>1, <2>2, <2>3, Zenon DEF EpisodeTracked
  <1>7. EpisodeWithinBudget'
    <2>1. SUFFICES ASSUME NEW i \in 1..(n + 1), NEW j \in i..(n + 1),
                          \A k \in i..j : forwarded'[k].degraded
                   PROVE  i > 1 /\ forwarded'[j].stamp - forwarded'[i-1].stamp <= Hold
      BY <1>1 DEF EpisodeWithinBudget, Grows
    <2>2. CASE j \in 1..n
      <3>1. /\ i \in 1..n /\ j \in i..n
            /\ \A k \in i..j : forwarded[k].degraded
        BY <1>1, <2>1, <2>2 DEF Grows
      <3>2. i > 1 /\ forwarded[j].stamp - forwarded[i-1].stamp <= Hold
        BY <1>1, <3>1 DEF Episodes, EpisodeWithinBudget, Grows
      <3>3. i - 1 \in 1..n
        BY <3>1, <3>2
      <3>4. QED
        BY <1>1, <2>2, <3>2, <3>3 DEF Grows
    <2>3. CASE j = n + 1
      <3>1. StillDegraded(bad)
        <4>1. n + 1 \in i..j
          BY <1>1, <2>3 DEF Grows
        <4>2. QED
          BY <1>1, <2>1, <4>1 DEF Grows
      <3>2. PICK r \in 2..(n + 1) : /\ ~forwarded[r-1].degraded
                                    /\ forwarded[r-1].stamp = EpisodeStart(ts, bad)
        BY <1>4, <3>1
      <3>3. r - 1 \in 1..n
        BY <1>1, <3>2 DEF Grows
      <3>4. ~(r - 1 \in i..j)
        BY <1>1, <2>1, <3>2, <3>3 DEF Grows
      <3>5. i >= r /\ i - 1 \in 1..n
        BY <1>1, <2>3, <3>2, <3>3, <3>4 DEF Grows
      <3>6. forwarded[r-1].stamp <= forwarded[i-1].stamp
        <4>1. CASE i = r
          BY <1>3, <3>3, <4>1
        <4>2. CASE i # r
          <5>1. r - 1 < i - 1
            BY <3>5, <4>2
          <5>2. \A p, q \in 1..n : p < q => forwarded[p].stamp < forwarded[q].stamp
            BY <1>1 DEF Stream, Increasing, Grows
          <5>3. forwarded[r-1].stamp < forwarded[i-1].stamp
            BY <3>3, <3>5, <5>1, <5>2
          <5>4. QED
            BY <1>3, <3>3, <3>5, <5>3
        <4>3. QED
          BY <4>1, <4>2
      <3>7. ts - forwarded[i-1].stamp <= Hold
        <4>1. ts - forwarded[r-1].stamp <= Hold
          <5>1. ts - EpisodeStart(ts, bad) <= Hold
            BY <1>5, <3>1
          <5>2. QED
            BY <3>2, <5>1
        <4>2. /\ ts \in Int /\ Hold \in Int
              /\ forwarded[r-1].stamp \in Int /\ forwarded[i-1].stamp \in Int
          BY <1>3, <3>3, <3>5
        <4>3. QED
          BY <3>6, <4>1, <4>2
      <3>8. QED
        BY <1>1, <2>3, <3>5, <3>7 DEF Grows
    <2>4. QED
      BY <1>1, <2>2, <2>3 DEF Grows
  <1>8. QED
    BY <1>6, <1>7 DEF Episodes

LEMMA ForwardKeepsRecoveries ==
  ASSUME GateTypes, Episodes, Recoveries,
         NEW ts \in Stamps, NEW bad \in SUBSET Axis, Forward(ts, bad)
  PROVE  Recoveries'
  <1> DEFINE n == Len(forwarded)
  <1>1. Grows(n, ts, bad)
    BY ForwardGrows
  <1>2. /\ ~gateFaulted /\ ~gateFaulted'
        /\ degraded' = StillDegraded(bad)
        /\ recovery' = NewRecovery(bad)
    BY DEF Forward, UpdateEpisode, Deciding
  <1>3. n \in Nat /\ RecoverySamples \in Nat \ {0} /\ recovery \in Nat
    BY <1>1, GateAssumption DEF GateTypes, GateTypeOK, Grows
  <1>4. ASSUME degraded'
        PROVE  \A j \in 1..(n + 1) : (n + 1) - j < recovery' => forwarded'[j].held = {}
    <2>1. CASE bad # {}
      <3>1. recovery' = 0
        BY <1>2, <2>1 DEF NewRecovery
      <3>2. QED
        BY <1>3, <3>1
    <2>2. CASE bad = {}
      <3>1. degraded
        BY <1>2, <1>4, <2>2 DEF StillDegraded
      <3>2. recovery' = recovery + 1
        BY <1>2, <2>2, <3>1 DEF NewRecovery
      <3>3. \A j \in 1..n : n - j < recovery => forwarded[j].held = {}
        BY <1>1, <1>2, <3>1 DEF Recoveries, RecoveryCounts, Grows
      <3>4. forwarded'[n + 1].held = {}
        BY <1>1, <2>2 DEF Grows
      <3>5. ASSUME NEW j \in 1..n, (n + 1) - j < recovery'
            PROVE  forwarded'[j].held = {}
        <4>1. n - j < recovery
          BY <1>3, <3>2, <3>5
        <4>2. forwarded'[j] = forwarded[j]
          BY <1>1 DEF Grows
        <4>3. QED
          BY <3>3, <4>1, <4>2
      <3>6. QED
        BY <1>3, <3>4, <3>5
    <2>3. QED
      BY <2>1, <2>2
  <1>5. RecoveryCounts'
    <2>1. DOMAIN forwarded' = 1..(n + 1) /\ Len(forwarded') = n + 1
      BY <1>1 DEF Grows
    <2>2. QED
      BY <1>4, <2>1, Zenon DEF RecoveryCounts
  <1>6. ASSUME ~StillDegraded(bad), NEW j \in 1..(n + 1),
               (n + 1) - j < RecoverySamples
        PROVE  forwarded'[j].held = {}
    <2>1. bad = {}
      BY <1>6 DEF StillDegraded
    <2>2. CASE j = n + 1
      BY <1>1, <2>1, <2>2 DEF Grows
    <2>3. CASE j \in 1..n
      <3>1. forwarded'[j] = forwarded[j]
        BY <1>1, <2>3 DEF Grows
      <3>2. CASE degraded
        <4>1. ~(NewRecovery(bad) < RecoverySamples)
          BY <1>6, <3>2 DEF StillDegraded
        <4>2. NewRecovery(bad) = recovery + 1
          BY <2>1, <3>2 DEF NewRecovery
        <4>3. n - j < recovery
          BY <1>3, <1>6, <4>1, <4>2
        <4>4. QED
          BY <1>1, <1>2, <2>3, <3>1, <3>2, <4>3 DEF Recoveries, RecoveryCounts, Grows
      <3>3. CASE ~degraded
        <4>1. n \in 1..n /\ n - j < RecoverySamples
          BY <1>3, <1>6, <2>3
        <4>2. forwarded # <<>>
          BY <1>1, <4>1 DEF Grows
        <4>3. ~forwarded[n].degraded
          BY <1>2, <3>3, <4>2 DEF Episodes, EpisodeTracked
        <4>4. j \in 1..n
          BY <2>3
        <4>5. \A i \in 1..n : ~forwarded[i].degraded =>
                \A k \in 1..i : i - k < RecoverySamples => forwarded[k].held = {}
          BY <1>1 DEF Recoveries, RecoveryHysteresis, Grows
        <4>6. QED
          BY <3>1, <4>1, <4>3, <4>4, <4>5
      <3>4. QED
        BY <3>2, <3>3
    <2>4. QED
      BY <1>3, <2>2, <2>3
  <1>7. RecoveryHysteresis'
    <2>1. SUFFICES ASSUME NEW i \in 1..(n + 1), ~forwarded'[i].degraded,
                          NEW j \in 1..i, i - j < RecoverySamples
                   PROVE  forwarded'[j].held = {}
      BY <1>1 DEF RecoveryHysteresis, Grows
    <2>2. CASE i = n + 1
      <3>1. ~StillDegraded(bad)
        BY <1>1, <2>1, <2>2 DEF Grows
      <3>2. QED
        BY <1>6, <2>1, <2>2, <3>1
    <2>3. CASE i \in 1..n
      <3>1. j \in 1..n /\ forwarded'[i] = forwarded[i] /\ forwarded'[j] = forwarded[j]
        BY <1>1, <2>1, <2>3 DEF Grows
      <3>2. QED
        BY <1>1, <2>1, <2>3, <3>1 DEF Recoveries, RecoveryHysteresis, Grows
    <2>4. QED
      BY <1>3, <2>2, <2>3
  <1>8. QED
    BY <1>5, <1>7 DEF Recoveries

-----------------------------------------------------------------------------
LEMMA WholeInductive ==
  ASSUME GateTypes, Stream, Whole, [GateNext]_gateVars
  PROVE  Whole'
  <1>1. CASE UNCHANGED gateVars
    BY <1>1 DEF Whole, Values, KeptMeasured, HeldValueFresh, Episodes, EpisodeTracked,
         EpisodeWithinBudget, Recoveries, RecoveryCounts, RecoveryHysteresis, gateVars
  <1>2. ASSUME NEW ts \in Stamps, NEW bad \in SUBSET Axis, Latch(ts, bad)
        PROVE  Whole'
    BY <1>2, LatchKeepsHistory, LatchKeepsWhole
  <1>3. ASSUME NEW ts \in Stamps, NEW bad \in SUBSET Axis, Forward(ts, bad)
        PROVE  Whole'
    BY <1>3, ForwardKeepsValues, ForwardKeepsEpisodes, ForwardKeepsRecoveries DEF Whole
  <1>4. QED
    BY <1>1, <1>2, <1>3, StepCases

LEMMA WholeInvariant == GateSpec => []Whole
  <1>1. GateInit => Whole
    <2>1. GateInit => Len(forwarded) = 0 /\ DOMAIN forwarded = {}
      BY DEF GateInit
    <2>2. GateInit => Values
      BY <2>1 DEF GateInit, Values, KeptMeasured, HeldValueFresh
    <2>3. GateInit => Episodes
      BY <2>1 DEF GateInit, Episodes, EpisodeTracked, EpisodeWithinBudget
    <2>4. GateInit => Recoveries
      BY <2>1 DEF GateInit, Recoveries, RecoveryCounts, RecoveryHysteresis
    <2>5. QED
      BY <2>2, <2>3, <2>4 DEF Whole
  <1>2. GateTypes /\ Stream /\ Whole /\ [GateNext]_gateVars => Whole'
    BY WholeInductive
  <1>3. QED
    BY <1>1, <1>2, StreamInvariant, PTL DEF GateSpec

\* A substituted value was measured, on that axis, by a forwarded sample at
\* most Hold earlier, however long and however degraded the stream.
THEOREM HeldValuesAreFresh == GateSpec => []HeldValueFresh
  BY WholeInvariant, PTL DEF Whole, Values

\* Recovery hysteresis cannot stretch an episode beyond the budget: over any
\* unbroken run of degraded samples no more than Hold passes.
THEOREM EpisodesStayWithinBudget == GateSpec => []EpisodeWithinBudget
  BY WholeInvariant, PTL DEF Whole, Episodes

\* A sample is flagged clean only after enough consecutive clean readings.
THEOREM RecoveryTakesCleanSamples == GateSpec => []RecoveryHysteresis
  BY WholeInvariant, PTL DEF Whole, Recoveries

-----------------------------------------------------------------------------
(* The handshake: which slot a LiDAR has, and what a device has accepted   *)
(* when it samples.                                                        *)

Types ==
  /\ entry \in Nat \ {0}
  /\ DOMAIN mapIndex \subseteq Lidars /\ mapIndex \in [DOMAIN mapIndex -> Slots]
  /\ setBits \in [Slots -> SUBSET Items] /\ sampling \in [Slots -> BOOLEAN]
  /\ pending \in [Handles \X Kinds -> Nat]

\* Slots are handed out from the first one on, one to a LiDAR.
SlotsInOrder ==
  /\ \E n \in 0..MaxLidars : indexCache = 0..(n - 1)
  /\ IsFiniteSet(indexCache) /\ IsFiniteSet(DOMAIN mapIndex)
  /\ SlotsNotShared
  /\ \A k, l \in DOMAIN mapIndex : mapIndex[k] = mapIndex[l] => k = l

\* Nothing is asked for before all entries are registered, and of nobody
\* without a slot.
AskedInOrder ==
  \A l \in Lidars, i \in Items :
    pending[<<l, i>>] > 0 => entry > Len(Entries) /\ Registered(l)

\* Once a LiDAR was asked for anything, each setting of its slot is accepted
\* or still has its bit.
Accounted ==
  /\ \A l \in DOMAIN mapIndex :
       (\E i \in Items : pending[<<l, i>>] > 0) =>
         \A i \in Requested(mapIndex[l]) :
           i \in setBits[mapIndex[l]] \/ <<l, i>> \in acked
  /\ \A s \in Slots \ indexCache : ~sampling[s]

HandshakeInv == Types /\ SlotsInOrder /\ AskedInOrder /\ Accounted

LEMMA Asms ==
  /\ MaxLidars \in Nat \ {0} /\ NoHandle \notin Lidars /\ Items \cap Other = {}
  /\ Len(Entries) \in Nat
  /\ \A k \in DOMAIN Entries : Entries[k].handle \in Lidars
  BY HandshakeAssumption

LEMMA HandshakeActions ==
  ASSUME [HandshakeNext]_handshakeVars
  PROVE  \/ RegisterEntry
         \/ \E l \in Lidars : InfoOfUnknown(l) \/ InfoOfRegistered(l) \/ ModeFails(l)
         \/ \E l \in Lidars, i \in Items : ItemAccepted(l, i) \/ ItemRefused(l, i) \/ ItemTimesOut(l, i)
         \/ \E l \in Lidars : ModeAccepted(l)
         \/ \E h \in Handles, k \in Kinds : SideAnswer(h, k)
         \/ UNCHANGED handshakeVars
  BY DEF HandshakeNext, Answered

-----------------------------------------------------------------------------
\* The search for a slot finds the first one after those in use.
LEMMA FirstFree ==
  ASSUME SlotsInOrder, NEW l, ~Registered(l), HasIndex(l)
  PROVE  /\ IndexFor(l) \in Slots \ indexCache
         /\ \E n \in 0..MaxLidars : indexCache \cup {IndexFor(l)} = 0..(n - 1)
<1> PICK n \in 0..MaxLidars : indexCache = 0..(n - 1)
  BY DEF SlotsInOrder
<1>1. n < MaxLidars /\ FreeSlots = n..(MaxLidars - 1)
  BY Asms DEF HasIndex, FreeSlots, Slots
<1>2. n \in FreeSlots /\ \A t \in FreeSlots : n <= t
  BY <1>1, Asms
<1>3. IndexFor(l) \in FreeSlots /\ \A t \in FreeSlots : IndexFor(l) <= t
  BY <1>2 DEF IndexFor
<1>4. IndexFor(l) = n
  BY <1>1, <1>2, <1>3
<1>5. n + 1 \in 0..MaxLidars
  BY <1>1, Asms
<1>6. indexCache \cup {n} = 0..((n + 1) - 1)
  <2>1. n \in Nat
    BY Asms
  <2>2. \A x : x \in 0..((n + 1) - 1) <=> x \in 0..(n - 1) \/ x = n
    BY <2>1
  <2> QED BY <2>2
<1> QED BY <1>3, <1>4, <1>5, <1>6 DEF FreeSlots

\* What GetFreeIndex does: nothing to a LiDAR that has a slot; one that has
\* none gets a free one, and the others keep theirs.
LEMMA IndexGiven ==
  ASSUME Types, SlotsInOrder, NEW l \in Lidars, GetFreeIndex(l)
  PROVE  \/ UNCHANGED <<mapIndex, indexCache>> /\ Registered(l)
         \/ /\ ~Registered(l) /\ IndexFor(l) \in Slots \ indexCache
            /\ DOMAIN mapIndex' = DOMAIN mapIndex \cup {l}
            /\ mapIndex'[l] = IndexFor(l)
            /\ \A k \in DOMAIN mapIndex : mapIndex'[k] = mapIndex[k]
            /\ indexCache' = indexCache \cup {IndexFor(l)}
            /\ \E n \in 0..MaxLidars : indexCache' = 0..(n - 1)
<1>1. /\ HasIndex(l) /\ indexCache' = indexCache \cup {IndexFor(l)}
      /\ mapIndex' = [x \in DOMAIN mapIndex \cup {l} |->
                        IF x = l THEN IndexFor(l) ELSE mapIndex[x]]
  BY DEF GetFreeIndex, Marked
<1>2. CASE Registered(l)
  <2>1. l \in DOMAIN mapIndex /\ IndexFor(l) = mapIndex[l] /\ mapIndex[l] \in indexCache
    BY <1>2 DEF Registered, IndexFor, SlotsInOrder, SlotsNotShared
  <2>2. indexCache' = indexCache
    BY <1>1, <2>1
  <2>3. mapIndex = [x \in DOMAIN mapIndex |-> mapIndex[x]]
    BY DEF Types
  <2>4. mapIndex' = mapIndex
    BY <1>1, <2>1, <2>3
  <2> QED BY <1>2, <2>2, <2>4
<1>3. CASE ~Registered(l)
  <2>1. /\ IndexFor(l) \in Slots \ indexCache
        /\ \E n \in 0..MaxLidars : indexCache \cup {IndexFor(l)} = 0..(n - 1)
    BY <1>1, <1>3, FirstFree
  <2>2. l \notin DOMAIN mapIndex
    BY <1>3 DEF Registered
  <2> QED BY <1>1, <1>3, <2>1, <2>2
<1> QED BY <1>2, <1>3

LEMMA SlotsAfterIndex ==
  ASSUME Types, SlotsInOrder, NEW l \in Lidars, GetFreeIndex(l)
  PROVE  SlotsInOrder'
<1>1. CASE UNCHANGED <<mapIndex, indexCache>>
  BY <1>1 DEF SlotsInOrder, SlotsNotShared
<1>2. CASE /\ ~Registered(l) /\ IndexFor(l) \in Slots \ indexCache
           /\ DOMAIN mapIndex' = DOMAIN mapIndex \cup {l}
           /\ mapIndex'[l] = IndexFor(l)
           /\ \A k \in DOMAIN mapIndex : mapIndex'[k] = mapIndex[k]
           /\ indexCache' = indexCache \cup {IndexFor(l)}
           /\ \E n \in 0..MaxLidars : indexCache' = 0..(n - 1)
  <2>1. l \notin DOMAIN mapIndex /\ IndexFor(l) \notin indexCache
    BY <1>2 DEF Registered
  <2>2. /\ IsFiniteSet(indexCache) /\ IsFiniteSet(DOMAIN mapIndex)
        /\ indexCache = {mapIndex[k] : k \in DOMAIN mapIndex}
        /\ Cardinality(indexCache) = Cardinality(DOMAIN mapIndex)
    BY DEF SlotsInOrder, SlotsNotShared
  <2>3. /\ IsFiniteSet(indexCache') /\ Cardinality(indexCache') = Cardinality(indexCache) + 1
    BY <1>2, <2>1, <2>2, FS_AddElement
  <2>4. /\ IsFiniteSet(DOMAIN mapIndex')
        /\ Cardinality(DOMAIN mapIndex') = Cardinality(DOMAIN mapIndex) + 1
    BY <1>2, <2>1, <2>2, FS_AddElement
  <2>5. indexCache' = {mapIndex'[k] : k \in DOMAIN mapIndex'}
    BY <1>2, <2>2
  <2>6. \A k \in DOMAIN mapIndex : mapIndex'[k] \in indexCache
    BY <1>2, <2>2
  <2>7. \A k, m \in DOMAIN mapIndex' : mapIndex'[k] = mapIndex'[m] => k = m
    <3> TAKE k, m \in DOMAIN mapIndex'
    <3>1. CASE k = l \/ m = l
      BY <1>2, <2>1, <2>6, <3>1
    <3>2. CASE k # l /\ m # l
      BY <1>2, <3>2 DEF SlotsInOrder
    <3> QED BY <3>1, <3>2
  <2> QED BY <1>2, <2>2, <2>3, <2>4, <2>5, <2>7 DEF SlotsInOrder, SlotsNotShared
<1> QED BY <1>1, <1>2, IndexGiven

LEMMA RegistryUntouched ==
  ASSUME NEW l \in Lidars
  PROVE  /\ InfoOfRegistered(l) \/ ModeFails(l) \/ ModeAccepted(l) => UNCHANGED registryVars
         /\ \A i \in Items : ItemAccepted(l, i) \/ ItemRefused(l, i) \/ ItemTimesOut(l, i)
              => UNCHANGED registryVars
         /\ \A h \in Handles, k \in Kinds : SideAnswer(h, k) => UNCHANGED registryVars
         /\ UNCHANGED handshakeVars => UNCHANGED registryVars
  BY DEF InfoOfRegistered, ModeFails, ModeAccepted, ItemAccepted, ItemRefused,
         ItemTimesOut, SideAnswer, AnswerLocal, handshakeVars

LEMMA SlotsInOrderKept ==
  ASSUME Types, SlotsInOrder, [HandshakeNext]_handshakeVars
  PROVE  SlotsInOrder'
<1>1. CASE UNCHANGED registryVars
  BY <1>1 DEF registryVars, SlotsInOrder, SlotsNotShared
<1>2. CASE RegisterEntry
  <2>1. Entries[entry].handle \in Lidars
    BY <1>2, Asms DEF RegisterEntry, Types
  <2>2. GetFreeIndex(Entries[entry].handle) \/ UNCHANGED registryVars
    BY <1>2 DEF RegisterEntry
  <2> QED BY <1>1, <2>1, <2>2, SlotsAfterIndex
<1>3. ASSUME NEW l \in Lidars, InfoOfUnknown(l) PROVE SlotsInOrder'
  <2>1. GetFreeIndex(l) \/ UNCHANGED <<mapIndex, indexCache>>
    BY <1>3 DEF InfoOfUnknown
  <2>2. CASE UNCHANGED <<mapIndex, indexCache>>
    BY <2>2 DEF SlotsInOrder, SlotsNotShared
  <2> QED BY <2>1, <2>2, SlotsAfterIndex
<1>4. CASE UNCHANGED handshakeVars
  BY <1>1, <1>4 DEF handshakeVars
<1>5. ASSUME NEW h \in Handles, NEW k \in Kinds, SideAnswer(h, k) PROVE SlotsInOrder'
  BY <1>1, <1>5 DEF SideAnswer, AnswerLocal
<1> QED BY <1>1, <1>2, <1>3, <1>4, <1>5, RegistryUntouched, HandshakeActions

-----------------------------------------------------------------------------
\* What a step does to the requests that are pending.
LEMMA SendKeepsNat ==
  ASSUME Types, NEW requests, Send(requests)
  PROVE  /\ pending' \in [Handles \X Kinds -> Nat]
         /\ \A r \in Handles \X Kinds :
              pending'[r] > 0 => pending[r] > 0 \/ r \in requests
<1>1. /\ pending' = [r \in Handles \X Kinds |->
                       pending[r] + (IF r \in requests THEN 1 ELSE 0)]
      /\ \A r \in Handles \X Kinds : pending[r] \in Nat
  BY DEF Types, Send
<1>2. \A r \in Handles \X Kinds : pending[r] + (IF r \in requests THEN 1 ELSE 0) \in Nat
  BY <1>1
<1> QED BY <1>1, <1>2

LEMMA SettleKeepsNat ==
  ASSUME Types, NEW r \in Handles \X Kinds, Settle(r) \/ Repeat(r)
  PROVE  /\ pending' \in [Handles \X Kinds -> Nat]
         /\ \A q \in Handles \X Kinds : pending'[q] > 0 => pending[q] > 0
<1>1. CASE Settle(r)
  <2>1. /\ pending' = [pending EXCEPT ![r] = @ - 1] /\ pending[r] > 0
        /\ pending \in [Handles \X Kinds -> Nat]
    BY <1>1 DEF Settle, Types
  <2>2. pending[r] \in Nat /\ pending[r] - 1 \in Nat
    BY <2>1
  <2> QED BY <2>1, <2>2
<1>2. CASE Repeat(r)
  BY <1>2 DEF Repeat, Types
<1> QED BY <1>1, <1>2

\* A step that answers a request, or stutters, leaves the registry alone.
Answers ==
  /\ UNCHANGED <<entry, registryVars>>
  /\ pending' \in [Handles \X Kinds -> Nat]
  /\ \A q \in Handles \X Kinds : pending'[q] > 0 => pending[q] > 0

Quiet == Answers /\ UNCHANGED <<setBits, sampling, acked>>

LEMMA PairsAreRequests ==
  /\ \A l \in Lidars, i \in Items : <<l, i>> \in Handles \X Kinds
  /\ \A l \in Lidars : <<l, "mode">> \in Handles \X Kinds
  /\ \A h \in Handles, k \in Kinds : <<h, k>> \in Handles \X Kinds
  /\ "mode" \notin Items /\ "imu" \notin Items /\ "attitude" \notin Items
  BY Asms DEF Handles, Kinds, Other

LEMMA WhatAnswersDo ==
  ASSUME Types
  PROVE  /\ \A l \in Lidars, i \in Items :
              /\ ItemAccepted(l, i) => Answers
              /\ ItemRefused(l, i) \/ ItemTimesOut(l, i) => Quiet
         /\ \A l \in Lidars : ModeFails(l) => Quiet
         /\ \A l \in Lidars : ModeAccepted(l) =>
              /\ Answers /\ UNCHANGED <<setBits, sampling>> /\ acked \subseteq acked'
         /\ \A h \in Handles, k \in Kinds : SideAnswer(h, k) => Quiet
         /\ UNCHANGED handshakeVars => Quiet
<1>1. ASSUME NEW l \in Lidars, NEW i \in Items
      PROVE  /\ ItemAccepted(l, i) => Answers
             /\ ItemRefused(l, i) \/ ItemTimesOut(l, i) => Quiet
  BY PairsAreRequests, SettleKeepsNat
     DEF ItemAccepted, ItemRefused, ItemTimesOut, RetriesItem, AnswerLocal, Answers, Quiet
<1>2. ASSUME NEW l \in Lidars
      PROVE  /\ ModeFails(l) => Quiet
             /\ ModeAccepted(l) =>
                  Answers /\ UNCHANGED <<setBits, sampling>> /\ acked \subseteq acked'
  BY PairsAreRequests, SettleKeepsNat
     DEF ModeFails, ModeAccepted, RetriesMode, AnswerLocal, Answers, Quiet
<1>3. ASSUME NEW h \in Handles, NEW k \in Kinds, SideAnswer(h, k) PROVE Quiet
  BY <1>3, PairsAreRequests, SettleKeepsNat DEF SideAnswer, AnswerLocal, Answers, Quiet
<1>4. UNCHANGED handshakeVars => Quiet
  BY DEF handshakeVars, Answers, Quiet, Types
<1> QED BY <1>1, <1>2, <1>3, <1>4

-----------------------------------------------------------------------------
LEMMA TypesAfterIndex ==
  ASSUME Types, SlotsInOrder, NEW l \in Lidars, GetFreeIndex(l)
  PROVE  /\ DOMAIN mapIndex' \subseteq Lidars
         /\ mapIndex' \in [DOMAIN mapIndex' -> Slots]
<1>1. mapIndex' = [x \in DOMAIN mapIndex \cup {l} |->
                     IF x = l THEN IndexFor(l) ELSE mapIndex[x]]
  BY DEF GetFreeIndex
<1>2. IndexFor(l) \in Slots
  <2>1. CASE Registered(l)
    BY <2>1 DEF Registered, IndexFor, Types
  <2>2. CASE ~Registered(l)
    BY <2>2, FirstFree DEF GetFreeIndex
  <2> QED BY <2>1, <2>2
<1> QED BY <1>1, <1>2 DEF Types

LEMMA TypesKept ==
  ASSUME Types, SlotsInOrder, [HandshakeNext]_handshakeVars
  PROVE  Types'
<1>1. CASE Quiet
  BY <1>1 DEF Quiet, Answers, Types, registryVars
<1>2. CASE RegisterEntry
  <2>1. Entries[entry].handle \in Lidars
    BY <1>2, Asms DEF RegisterEntry, Types
  <2>2. /\ DOMAIN mapIndex' \subseteq Lidars
        /\ mapIndex' \in [DOMAIN mapIndex' -> Slots]
    <3>1. CASE GetFreeIndex(Entries[entry].handle)
      BY <2>1, <3>1, TypesAfterIndex
    <3>2. CASE UNCHANGED registryVars
      BY <3>2 DEF registryVars, Types
    <3> QED BY <1>2, <3>1, <3>2 DEF RegisterEntry
  <2>3. entry' \in Nat \ {0} /\ UNCHANGED <<setBits, sampling, pending>>
    BY <1>2 DEF RegisterEntry, Types
  <2> QED BY <2>2, <2>3 DEF Types
<1>3. ASSUME NEW l \in Lidars, InfoOfUnknown(l) PROVE Types'
  <2>1. CASE GetFreeIndex(l) /\ Send({<<l, "mode">>, <<l, "imu">>})
    <3>1. pending' \in [Handles \X Kinds -> Nat]
      BY <2>1, SendKeepsNat
    <3>2. UNCHANGED <<entry, setBits, sampling>>
      BY <1>3 DEF InfoOfUnknown
    <3> QED BY <2>1, <3>1, <3>2, TypesAfterIndex DEF Types
  <2>2. CASE UNCHANGED <<mapIndex, indexCache, pending>>
    BY <1>3, <2>2 DEF InfoOfUnknown, Types
  <2> QED BY <1>3, <2>1, <2>2 DEF InfoOfUnknown
<1>4. ASSUME NEW l \in Lidars, InfoOfRegistered(l) PROVE Types'
  <2>1. pending' \in [Handles \X Kinds -> Nat]
    BY <1>4, SendKeepsNat DEF InfoOfRegistered
  <2>2. setBits' \in [Slots -> SUBSET Items]
    BY <1>4 DEF InfoOfRegistered, Registered, Types, Requested
  <2> QED BY <1>4, <2>1, <2>2 DEF InfoOfRegistered, registryVars, Types
<1>5. ASSUME NEW l \in Lidars, NEW i \in Items, ItemAccepted(l, i) PROVE Types'
  <2>1. Answers
    BY <1>5, WhatAnswersDo
  <2>2. setBits' \in [Slots -> SUBSET Items]
    BY <1>5 DEF ItemAccepted, BitsAfter, Types
  <2>3. sampling' \in [Slots -> BOOLEAN]
    BY <1>5, <2>2 DEF ItemAccepted, Types
  <2> QED BY <2>1, <2>2, <2>3 DEF Answers, registryVars, Types
<1>6. ASSUME NEW l \in Lidars, ModeAccepted(l) PROVE Types'
  <2>1. Answers /\ UNCHANGED <<setBits, sampling>>
    BY <1>6, WhatAnswersDo
  <2> QED BY <2>1 DEF Answers, registryVars, Types
<1> QED BY <1>1, <1>2, <1>3, <1>4, <1>5, <1>6, WhatAnswersDo, HandshakeActions

LEMMA NothingAskedYet ==
  ASSUME Types, AskedInOrder, RegisterEntry
  PROVE  \A l \in Lidars, i \in Items :
           ~(pending[<<l, i>>] > 0) /\ ~(pending'[<<l, i>>] > 0)
<1>1. entry <= Len(Entries) /\ pending' = pending
  BY DEF RegisterEntry
<1>2. entry \in Nat /\ Len(Entries) \in Nat
  BY Asms DEF Types
<1>3. ~(entry > Len(Entries))
  BY <1>1, <1>2
<1> QED BY <1>1, <1>3 DEF AskedInOrder

LEMMA AskedInOrderKept ==
  ASSUME Types, SlotsInOrder, AskedInOrder, [HandshakeNext]_handshakeVars
  PROVE  AskedInOrder'
<1>1. CASE Answers
  <2> SUFFICES ASSUME NEW l \in Lidars, NEW i \in Items, pending'[<<l, i>>] > 0
               PROVE  entry' > Len(Entries) /\ Registered(l)'
    BY DEF AskedInOrder
  <2>1. pending[<<l, i>>] > 0
    BY <1>1, PairsAreRequests DEF Answers
  <2> QED BY <1>1, <2>1 DEF AskedInOrder, Answers, registryVars, Registered
<1>2. CASE RegisterEntry
  BY <1>2, NothingAskedYet DEF AskedInOrder
<1>3. ASSUME NEW l \in Lidars, InfoOfUnknown(l) PROVE AskedInOrder'
  <2> SUFFICES ASSUME NEW k \in Lidars, NEW i \in Items, pending'[<<k, i>>] > 0
               PROVE  entry' > Len(Entries) /\ Registered(k)'
    BY DEF AskedInOrder
  <2>1. pending[<<k, i>>] > 0
    <3>1. CASE Send({<<l, "mode">>, <<l, "imu">>})
      <4>1. <<k, i>> \notin {<<l, "mode">>, <<l, "imu">>}
        BY PairsAreRequests
      <4> QED BY <3>1, <4>1, SendKeepsNat, PairsAreRequests
    <3>2. CASE UNCHANGED pending
      BY <3>2
    <3> QED BY <1>3, <3>1, <3>2 DEF InfoOfUnknown
  <2>2. entry > Len(Entries) /\ k \in DOMAIN mapIndex
    BY <2>1 DEF AskedInOrder, Registered
  <2>3. DOMAIN mapIndex \subseteq DOMAIN mapIndex'
    BY <1>3 DEF InfoOfUnknown, GetFreeIndex
  <2> QED BY <1>3, <2>2, <2>3 DEF InfoOfUnknown, Registered
<1>4. ASSUME NEW l \in Lidars, InfoOfRegistered(l) PROVE AskedInOrder'
  <2> SUFFICES ASSUME NEW k \in Lidars, NEW i \in Items, pending'[<<k, i>>] > 0
               PROVE  entry' > Len(Entries) /\ Registered(k)'
    BY DEF AskedInOrder
  <2>1. entry > Len(Entries) /\ Registered(l) /\ UNCHANGED <<entry, mapIndex>>
    BY <1>4 DEF InfoOfRegistered, Announced, registryVars
  <2>2. pending[<<k, i>>] > 0 \/ k = l
    <3>1. PICK requests : /\ Send(requests)
                          /\ \A r \in requests : r[1] = l \/ r[2] = "attitude"
      BY <1>4 DEF InfoOfRegistered
    <3>2. pending[<<k, i>>] > 0 \/ <<k, i>> \in requests
      BY <3>1, SendKeepsNat, PairsAreRequests
    <3> QED BY <3>1, <3>2, PairsAreRequests
  <2> QED BY <2>1, <2>2 DEF AskedInOrder, Registered
<1> QED BY <1>1, <1>2, <1>3, <1>4, WhatAnswersDo, HandshakeActions DEF Quiet

-----------------------------------------------------------------------------
\* When l is given a slot, what is true of the slots of the others stays.
LEMMA OthersKeepSlots ==
  ASSUME Types, SlotsInOrder, NEW l \in Lidars, GetFreeIndex(l)
  PROVE  /\ \A k \in DOMAIN mapIndex : k \in DOMAIN mapIndex' /\ mapIndex'[k] = mapIndex[k]
         /\ \A k \in DOMAIN mapIndex' : k \notin DOMAIN mapIndex =>
              mapIndex'[k] \in Slots \ indexCache
         /\ indexCache \subseteq indexCache'
<1>1. CASE UNCHANGED <<mapIndex, indexCache>>
  BY <1>1
<1>2. CASE /\ ~Registered(l) /\ IndexFor(l) \in Slots \ indexCache
           /\ DOMAIN mapIndex' = DOMAIN mapIndex \cup {l}
           /\ mapIndex'[l] = IndexFor(l)
           /\ \A k \in DOMAIN mapIndex : mapIndex'[k] = mapIndex[k]
           /\ indexCache' = indexCache \cup {IndexFor(l)}
  BY <1>2
<1> QED BY <1>1, <1>2, IndexGiven

LEMMA AccountedKept ==
  ASSUME Types, SlotsInOrder, AskedInOrder, Accounted, [HandshakeNext]_handshakeVars
  PROVE  Accounted'
<1>1. CASE Quiet
  BY <1>1, PairsAreRequests DEF Quiet, Answers, registryVars, Accounted, Requested, Types
<1>2. CASE RegisterEntry
  <2>1. \A l \in Lidars, i \in Items : ~(pending'[<<l, i>>] > 0)
    BY <1>2, NothingAskedYet
  <2>2. DOMAIN mapIndex' \subseteq Lidars
    BY TypesKept DEF Types
  <2>3. indexCache \subseteq indexCache' /\ UNCHANGED sampling
    <3>1. Entries[entry].handle \in Lidars
      BY <1>2, Asms DEF RegisterEntry, Types
    <3> QED BY <1>2, <3>1, OthersKeepSlots DEF RegisterEntry, registryVars
  <2> QED BY <2>1, <2>2, <2>3 DEF Accounted
<1>3. ASSUME NEW l \in Lidars, InfoOfUnknown(l) PROVE Accounted'
  <2>1. /\ UNCHANGED <<config, setBits, sampling, acked>>
        /\ ~Registered(l)
    BY <1>3 DEF InfoOfUnknown
  <2>2. CASE GetFreeIndex(l) /\ Send({<<l, "mode">>, <<l, "imu">>})
    <3>1. \A k \in Lidars, i \in Items : pending'[<<k, i>>] > 0 => pending[<<k, i>>] > 0
      <4> SUFFICES ASSUME NEW k \in Lidars, NEW i \in Items, pending'[<<k, i>>] > 0
                   PROVE  pending[<<k, i>>] > 0
        OBVIOUS
      <4>1. <<k, i>> \notin {<<l, "mode">>, <<l, "imu">>}
        BY PairsAreRequests
      <4> QED BY <2>2, <4>1, SendKeepsNat, PairsAreRequests
    <3>2. \A k \in DOMAIN mapIndex', i \in Items : pending'[<<k, i>>] > 0 =>
            k \in DOMAIN mapIndex /\ mapIndex'[k] = mapIndex[k] /\ pending[<<k, i>>] > 0
      <4>1. DOMAIN mapIndex' \subseteq Lidars
        BY TypesKept DEF Types
      <4> QED BY <2>2, <3>1, <4>1, OthersKeepSlots DEF AskedInOrder, Registered
    <3>3. indexCache \subseteq indexCache'
      BY <2>2, OthersKeepSlots
    <3> QED BY <2>1, <3>2, <3>3 DEF Accounted, Requested
  <2>3. CASE UNCHANGED <<mapIndex, indexCache, pending>>
    BY <2>1, <2>3 DEF Accounted, Requested
  <2> QED BY <1>3, <2>2, <2>3 DEF InfoOfUnknown
<1>4. ASSUME NEW l \in Lidars, InfoOfRegistered(l) PROVE Accounted'
  <2>1. /\ UNCHANGED <<mapIndex, indexCache, config, sampling, acked>>
        /\ l \in DOMAIN mapIndex
        /\ setBits' = [setBits EXCEPT ![mapIndex[l]] = @ \cup Requested(mapIndex[l])]
    BY <1>4 DEF InfoOfRegistered, registryVars, Registered
  <2>2. \A s \in Slots : setBits[s] \subseteq setBits'[s]
    BY <2>1 DEF Types
  <2>3. Requested(mapIndex[l]) \subseteq setBits'[mapIndex[l]]
    BY <2>1 DEF Types
  <2> SUFFICES ASSUME NEW k \in DOMAIN mapIndex, NEW i \in Items, pending'[<<k, i>>] > 0,
                      NEW j \in Requested(mapIndex[k])
               PROVE  j \in setBits'[mapIndex[k]] \/ <<k, j>> \in acked
    BY <2>1 DEF Accounted, Requested
  <2>4. CASE k = l
    BY <2>3, <2>4
  <2>5. CASE k # l
    <3>1. PICK requests : /\ Send(requests)
                          /\ \A r \in requests : r[1] = l \/ r[2] = "attitude"
      BY <1>4 DEF InfoOfRegistered
    <3>2. <<k, i>> \notin requests
      BY <2>5, <3>1, PairsAreRequests
    <3>3. pending[<<k, i>>] > 0
      BY <3>1, <3>2, SendKeepsNat, PairsAreRequests DEF Types
    <3> QED BY <2>2, <3>3 DEF Accounted, Types
  <2> QED BY <2>4, <2>5
<1>5. ASSUME NEW l \in Lidars, NEW i \in Items, ItemAccepted(l, i) PROVE Accounted'
  <2>1. Answers /\ acked' = acked \cup {<<l, i>>} /\ Registered(l)
    BY <1>5, WhatAnswersDo DEF ItemAccepted, Settle, AskedInOrder
  <2>2. /\ mapIndex[l] \in Slots /\ mapIndex[l] \in indexCache
        /\ setBits' = [setBits EXCEPT ![mapIndex[l]] = @ \ {i}]
        /\ \A s \in Slots : s # mapIndex[l] => sampling'[s] = sampling[s]
    BY <1>5, <2>1 DEF ItemAccepted, BitsAfter, Types, SlotsInOrder, SlotsNotShared, Registered
  <2>3. \A k \in DOMAIN mapIndex : mapIndex[k] = mapIndex[l] => k = l
    BY <2>1 DEF SlotsInOrder, Registered
  <2>4. \A s \in Slots \ indexCache : ~sampling'[s]
    BY <2>2 DEF Accounted
  <2> SUFFICES ASSUME NEW k \in DOMAIN mapIndex, NEW m \in Items, pending'[<<k, m>>] > 0,
                      NEW j \in Requested(mapIndex[k])
               PROVE  j \in setBits'[mapIndex[k]] \/ <<k, j>> \in acked'
    BY <2>1, <2>4 DEF Accounted, Requested, Answers, registryVars
  <2>5. j \in setBits[mapIndex[k]] \/ <<k, j>> \in acked
    BY <2>1, PairsAreRequests DEF Answers, Accounted, Types
  <2>6. CASE k = l
    BY <2>1, <2>2, <2>5, <2>6 DEF Types
  <2>7. CASE k # l
    BY <2>1, <2>2, <2>3, <2>5, <2>7 DEF Types
  <2> QED BY <2>6, <2>7
<1>6. ASSUME NEW l \in Lidars, ModeAccepted(l) PROVE Accounted'
  <2>1. Answers /\ UNCHANGED <<setBits, sampling>> /\ acked \subseteq acked'
    BY <1>6, WhatAnswersDo
  <2> QED BY <2>1, PairsAreRequests DEF Answers, registryVars, Accounted, Requested, Types
<1> QED BY <1>1, <1>2, <1>3, <1>4, <1>5, <1>6, WhatAnswersDo, HandshakeActions

LEMMA HandshakeInvInit == HandshakeInit => HandshakeInv
<1> SUFFICES ASSUME HandshakeInit PROVE HandshakeInv
  OBVIOUS
<1>1. mapIndex = <<>> /\ DOMAIN mapIndex = {} /\ indexCache = {}
  BY DEF HandshakeInit
<1>2. Types
  BY <1>1 DEF HandshakeInit, Types
<1>3. SlotsInOrder
  <2>1. 0 \in 0..MaxLidars /\ indexCache = 0..(0 - 1)
    BY <1>1, Asms
  <2> QED BY <1>1, <2>1, FS_EmptySet DEF SlotsInOrder, SlotsNotShared
<1>4. AskedInOrder
  BY PairsAreRequests DEF HandshakeInit, AskedInOrder
<1>5. Accounted
  BY <1>1 DEF HandshakeInit, Accounted
<1> QED BY <1>2, <1>3, <1>4, <1>5 DEF HandshakeInv

LEMMA HandshakeInvKept ==
  HandshakeInv /\ [HandshakeNext]_handshakeVars => HandshakeInv'
  BY TypesKept, SlotsInOrderKept, AskedInOrderKept, AccountedKept DEF HandshakeInv

LEMMA HandshakeInvAlways == HandshakeSpec => []HandshakeInv
  BY HandshakeInvInit, HandshakeInvKept, PTL DEF HandshakeSpec

-----------------------------------------------------------------------------
\* However many slots and LiDARs there are, no two LiDARs share a slot and a
\* slot is in use exactly when one of them has it (GetFreeIndex).
THEOREM SlotsAreExclusive == HandshakeSpec => []SlotsNotShared
<1>1. HandshakeInv => SlotsNotShared
  BY DEF HandshakeInv, SlotsInOrder
<1> QED BY <1>1, HandshakeInvAlways, PTL

\* A step that makes a LiDAR sample is the acceptance of its last setting.
LEMMA SamplingStep ==
  ASSUME HandshakeInv, [HandshakeNext]_handshakeVars,
         NEW l \in Lidars, ~IsSampling(l), IsSampling(l)'
  PROVE  \A i \in Requested(mapIndex[l]) : <<l, i>> \in acked'
<1> USE DEF HandshakeInv
<1>1. CASE UNCHANGED <<mapIndex, sampling>>
  BY <1>1 DEF IsSampling, Registered
<1>2. ASSUME NEW m \in Lidars, GetFreeIndex(m), UNCHANGED sampling PROVE FALSE
  <2>1. CASE l \in DOMAIN mapIndex
    BY <1>2, <2>1, OthersKeepSlots DEF IsSampling, Registered
  <2>2. CASE l \notin DOMAIN mapIndex
    BY <1>2, <2>2, OthersKeepSlots DEF IsSampling, Registered, Accounted
  <2> QED BY <2>1, <2>2
<1>3. CASE RegisterEntry
  <2>1. Entries[entry].handle \in Lidars
    BY <1>3, Asms DEF RegisterEntry, Types
  <2> QED BY <1>1, <1>2, <1>3, <2>1 DEF RegisterEntry, registryVars
<1>4. ASSUME NEW m \in Lidars, InfoOfUnknown(m) PROVE FALSE
  <2>1. UNCHANGED sampling /\ (GetFreeIndex(m) \/ UNCHANGED mapIndex)
    BY <1>4 DEF InfoOfUnknown
  <2> QED BY <1>2, <2>1 DEF IsSampling, Registered
<1>5. ASSUME NEW m \in Lidars, NEW i \in Items, ItemAccepted(m, i)
      PROVE  \A j \in Requested(mapIndex[l]) : <<l, j>> \in acked'
  <2>1. /\ Answers /\ acked' = acked \cup {<<m, i>>} /\ Registered(m)
        /\ pending[<<m, i>>] > 0
    BY <1>5, WhatAnswersDo DEF ItemAccepted, Settle, AskedInOrder
  <2>2. /\ mapIndex' = mapIndex /\ l \in DOMAIN mapIndex /\ mapIndex[l] \in Slots
        /\ ~sampling[mapIndex[l]] /\ sampling'[mapIndex[l]]
    BY <2>1 DEF Answers, registryVars, IsSampling, Registered, Types
  <2>3. mapIndex[m] \in Slots
    BY <2>1 DEF Registered, Types
  <2>4. mapIndex[l] = mapIndex[m]
    BY <1>5, <2>2 DEF ItemAccepted, Types
  <2>5. l = m
    BY <2>1, <2>2, <2>4 DEF SlotsInOrder, Registered
  <2>6. setBits'[mapIndex[l]] = {} /\ setBits'[mapIndex[l]] = setBits[mapIndex[l]] \ {i}
    BY <1>5, <2>2, <2>3, <2>5 DEF ItemAccepted, BitsAfter, Types
  <2>7. \A j \in Requested(mapIndex[l]) : j \in setBits[mapIndex[l]] \/ <<l, j>> \in acked
    BY <2>1, <2>2, <2>5 DEF Accounted
  <2> QED BY <2>1, <2>5, <2>6, <2>7
<1>6. ASSUME NEW m \in Lidars, InfoOfRegistered(m) PROVE FALSE
  BY <1>6 DEF InfoOfRegistered, registryVars, IsSampling, Registered
<1>7. CASE Answers /\ UNCHANGED sampling
  BY <1>7 DEF Answers, registryVars, IsSampling, Registered
<1> QED BY <1>3, <1>4, <1>5, <1>6, <1>7, WhatAnswersDo, HandshakeActions DEF Quiet

\* For every configuration file, and however answers are delayed, repeated
\* or refused, a LiDAR samples only after it accepted every setting it is
\* configured with (set_bits in the four Set...Callbacks).
THEOREM SamplingAfterSettings == HandshakeSpec => SamplingIsEarned
<1>1. HandshakeInv /\ [HandshakeNext]_handshakeVars =>
        [\A l \in Lidars : ~IsSampling(l) /\ IsSampling(l)' =>
           \A i \in Requested(mapIndex[l]) : <<l, i>> \in acked']_handshakeVars
  BY SamplingStep
<1> QED BY <1>1, HandshakeInvAlways, PTL DEF HandshakeSpec, SamplingIsEarned
=============================================================================
