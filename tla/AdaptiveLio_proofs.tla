-------------------------- MODULE AdaptiveLio_proofs --------------------------
(***************************************************************************)
(* Proofs about the output chain, and about the node that joins it to the  *)
(* LIO chain.                                                              *)
(*                                                                         *)
(* The high-rate output chain, for all sensor times, queue capacities,     *)
(* history bounds and horizons: what the worker replays, what becomes of   *)
(* each posterior, and that the messages on /odom are those Odometry       *)
(* allows.                                                                 *)
(*                                                                         *)
(* The node, for all scans and thresholds as well: both chains together    *)
(* keep the contract the output chain asks of its callers, a fault reaches *)
(* the output first, and what was stopped stays quiet.  The steps of the   *)
(* node are steps of the LIO chain (LioStep) and of the output chain       *)
(* (ChainNext), whose invariants carry over.  LioIntake is extended for    *)
(* the former only: its callbacks are not the node's.                      *)
(***************************************************************************)
EXTENDS AdaptiveLio, LioIntake_proofs

LEMMA Asms ==
  /\ Gap \in Nat \ {0} /\ MaxQueue \in Nat \ {0} /\ MaxHistory \in Nat \ {0, 1}
  /\ HistorySpan \in Nat /\ PredictionLimit \in Nat
  /\ Times \subseteq Nat /\ NoUpdate \notin Updates
  BY PropagationAssumption, OutputAssumption, ChainAssumption

-----------------------------------------------------------------------------
(* The history.                                                            *)

\* Trimming drops samples from the front only, and never the last one.
LEMMA TrimmedEndsAt ==
  ASSUME NEW h \in Seq(Int), h # <<>>,
         NEW t \in Seq(Int), NEW n \in Nat, EndsAt(h, t, n)
  PROVE  Trimmed(h) \in Seq(Int) /\ Trimmed(h) # <<>> /\ EndsAt(Trimmed(h), t, n)
<1> DEFINE Excess(k) == /\ Len(h) - k > 2
                        /\ \/ h[k+2] < Last(h) - HistorySpan
                           \/ Len(h) - k > MaxHistory
           Drop(d) == ~Excess(d) /\ \A k \in 0..(d-1) : Excess(k)
           drop == CHOOSE d \in 0..Len(h) : Drop(d)
<1>1. Len(h) \in Nat \ {0}
  OBVIOUS
<1>2. \E d \in 0..Len(h) : Drop(d)
  <2> DEFINE T == {d \in 0..Len(h) : ~Excess(d)}
  <2>0. T \in SUBSET Nat
    <3>1. 0..Len(h) \subseteq Nat
      BY <1>1
    <3> HIDE DEF Excess
    <3> QED BY <3>1
  <2>1. Len(h) \in T
    BY <1>1
  <2>2. PICK m \in T : \A k \in T : m <= k
    <3> HIDE DEF T
    <3> QED BY <2>0, <2>1, LeastNatural
  <2>3. \A k \in 0..(m - 1) : Excess(k)
    <3> SUFFICES ASSUME NEW k \in 0..(m - 1), ~Excess(k) PROVE FALSE
      OBVIOUS
    <3>1. k \in T /\ k < m
      BY <1>1, <2>2
    <3> QED BY <2>2, <3>1
  <2> QED BY <2>2, <2>3
<1>3. drop \in 0..Len(h) /\ Drop(drop)
  <2> HIDE DEF Drop
  <2> QED BY <1>2
<1>4. Trimmed(h) = SubSeq(h, drop + 1, Len(h))
  BY DEF Trimmed
<1> HIDE DEF drop
<1>5. \A d \in 0..Len(h) : Drop(d) => d < Len(h)
  <2> SUFFICES ASSUME NEW d \in 0..Len(h), Drop(d), d = Len(h) PROVE FALSE
    BY <1>1, SMTT(30)
  <2>1. d - 1 \in 0..(d - 1) /\ Len(h) - (d - 1) = 1
    BY <1>1
  <2>2. Excess(d - 1)
    BY <2>1
  <2> QED BY <2>1, <2>2
<1> HIDE DEF Drop
<1> QED BY <1>3, <1>4, <1>5, SuffixEndsAt

LEMMA SampleEndsAt ==
  ASSUME NEW t \in Seq(Int), Rising(t), NEW n \in Nat, n < Len(t),
         NEW h \in Seq(Int), EndsAt(h, t, n)
  PROVE  /\ AppendSample(h, t[n+1]) \in Seq(Int)
         /\ AppendSample(h, t[n+1]) # <<>>
         /\ EndsAt(AppendSample(h, t[n+1]), t, n + 1)
<1> DEFINE g == Append(h, t[n+1])
<1>0. Len(t) \in Nat /\ Len(h) \in Nat /\ t[n+1] \in Int /\ n + 1 \in Nat
  OBVIOUS
<1>1. /\ g \in Seq(Int) /\ g # <<>> /\ Len(g) = Len(h) + 1
      /\ \A i \in 1..Len(h) : g[i] = h[i]
      /\ g[Len(h) + 1] = t[n+1]
  <2> DEFINE x == t[n+1]
  <2>1. x \in Int
    BY <1>0
  <2>2. Append(h, x) \in Seq(Int) /\ Len(Append(h, x)) = Len(h) + 1
    BY <2>1
  <2>3. \A i \in 1..Len(h) : Append(h, x)[i] = h[i]
    BY <2>1
  <2>4. Append(h, x)[Len(h) + 1] = x
    BY <2>1
  <2> HIDE DEF x
  <2>5. Append(h, x) # <<>>
    BY <2>2, SMTT(30)
  <2> QED BY <2>2, <2>3, <2>4, <2>5 DEF x
<1>2. h # <<>> => ~(t[n+1] <= Last(h))
  <2> SUFFICES ASSUME h # <<>> PROVE ~(t[n+1] <= Last(h))
    OBVIOUS
  <2>1. Len(h) \in 1..Len(h) /\ n - Len(h) + Len(h) = n
    BY <1>0
  <2>2. Last(h) = t[n] /\ n >= 1
    BY <1>0, <2>1 DEF Last, EndsAt
  <2>3. t[n] < t[n+1] /\ t[n] \in Int
    BY <1>0, <2>2 DEF Rising
  <2> QED BY <1>0, <2>2, <2>3
<1>3. AppendSample(h, t[n+1]) = Trimmed(g)
  BY <1>2 DEF AppendSample
<1> HIDE DEF g
<1>4. EndsAt(g, t, n + 1)
  <2>1. Len(g) <= n + 1 /\ n + 1 <= Len(t)
    BY <1>0, <1>1 DEF EndsAt
  <2>2. ASSUME NEW i \in 1..Len(g) PROVE g[i] = t[n + 1 - Len(g) + i]
    <3>1. CASE i = Len(h) + 1
      BY <1>0, <1>1, <3>1
    <3>2. CASE i \in 1..Len(h)
      <4>1. g[i] = h[i] /\ h[i] = t[n - Len(h) + i]
        BY <1>1, <3>2 DEF EndsAt
      <4>2. n - Len(h) + i = n + 1 - Len(g) + i
        BY <1>0, <1>1
      <4> QED BY <4>1, <4>2
    <3> QED BY <1>0, <1>1, <3>1, <3>2
  <2> QED BY <2>1, <2>2 DEF EndsAt
<1> QED BY <1>0, <1>1, <1>3, <1>4, TrimmedEndsAt

\* f[i] is the history after i samples of the batch b.
Histories(f, h, b, m) ==
  f = [i \in 0..m |-> IF i = 0 THEN h ELSE AppendSample(f[i - 1], b[i])]

LEMMA HistoriesStep ==
  ASSUME NEW f, NEW h, NEW b, NEW m \in Nat, Histories(f, h, b, m),
         NEW i \in 0..m
  PROVE  f[i] = IF i = 0 THEN h ELSE AppendSample(f[i - 1], b[i])
<1> DEFINE g == [j \in 0..m |-> IF j = 0 THEN h ELSE AppendSample(f[j - 1], b[j])]
<1>1. g[i] = IF i = 0 THEN h ELSE AppendSample(f[i - 1], b[i])
  OBVIOUS
<1>2. f = g
  BY DEF Histories
<1> HIDE DEF g
<1> QED BY <1>1, <1>2, Zenon

LEMMA HistoriesExist ==
  ASSUME NEW h, NEW b, NEW n \in Nat
  PROVE  \E f : Histories(f, h, b, n)
<1> DEFINE Bad == {m \in Nat : ~\E f : Histories(f, h, b, m)}
<1> SUFFICES ASSUME Bad # {} PROVE FALSE
  OBVIOUS
<1>1. PICK m \in Bad : \A k \in Bad : m <= k
  <2>1. Bad \in SUBSET Nat
    OBVIOUS
  <2> HIDE DEF Bad
  <2> QED BY <2>1, LeastNatural
<1>2. m \in Nat /\ ~\E f : Histories(f, h, b, m)
  BY <1>1
<1>3. CASE m = 0
  <2> DEFINE f == [i \in 0..0 |-> h]
  <2>1. f = [i \in 0..0 |-> IF i = 0 THEN h ELSE AppendSample(f[i - 1], b[i])]
    <3>1. \A i \in 0..0 : h = IF i = 0 THEN h ELSE AppendSample(f[i - 1], b[i])
      OBVIOUS
    <3> QED BY <3>1
  <2>2. Histories(f, h, b, 0)
    BY <2>1 DEF Histories
  <2> QED BY <1>2, <1>3, <2>2
<1>4. CASE m # 0
  <2>1. m - 1 \in Nat /\ m - 1 \notin Bad
    BY <1>1, <1>2, <1>4
  <2>2. PICK f : Histories(f, h, b, m - 1)
    BY <2>1
  <2> DEFINE x == AppendSample(f[m - 1], b[m])
             g == [i \in 0..m |-> IF i = m THEN x ELSE f[i]]
  <2>3. \A i \in 0..(m - 1) : f[i] = IF i = 0 THEN h ELSE AppendSample(f[i - 1], b[i])
    BY <2>1, <2>2, HistoriesStep
  <2>4. ASSUME NEW i \in 0..m
        PROVE  g[i] = IF i = 0 THEN h ELSE AppendSample(g[i - 1], b[i])
    <3>1. CASE i = m
      <4>1. m # 0 /\ m - 1 \in 0..m /\ m - 1 # m
        BY <1>2, <1>4
      <4>2. g[i] = x /\ g[i - 1] = f[m - 1]
        BY <3>1, <4>1
      <4> QED BY <3>1, <4>1, <4>2
    <3>2. CASE i = 0
      <4>1. 0 \in 0..m /\ 0 # m /\ 0 \in 0..(m - 1)
        BY <1>2, <1>4
      <4>2. g[0] = f[0]
        BY <4>1
      <4> QED BY <2>3, <3>2, <4>1, <4>2
    <3>3. CASE i \in 1..(m - 1)
      <4>1. /\ i - 1 \in 0..m /\ i - 1 # m /\ i \in 0..(m - 1)
            /\ i # m /\ i # 0
        BY <1>2, <3>3
      <4>2. g[i] = f[i] /\ g[i - 1] = f[i - 1]
        BY <4>1
      <4> QED BY <2>3, <4>1, <4>2
    <3> QED BY <1>2, <3>1, <3>2, <3>3
  <2>5. g = [i \in 0..m |-> g[i]]
    OBVIOUS
  <2> HIDE DEF g
  <2>6. Histories(g, h, b, m)
    BY <2>4, <2>5 DEF Histories
  <2> QED BY <1>2, <2>6
<1> QED BY <1>3, <1>4

\* history_ after the samples of a batch: the run of the stream that ends
\* where the batch ends.
LEMMA BatchEndsAt ==
  ASSUME NEW t \in Seq(Int), Rising(t), NEW n \in Nat,
         NEW h \in Seq(Int), EndsAt(h, t, n),
         NEW b \in Seq(Int), EndsAt(b, t, n + Len(b))
  PROVE  /\ AppendBatch(h, b) \in Seq(Int)
         /\ EndsAt(AppendBatch(h, b), t, n + Len(b))
         /\ (h # <<>> \/ b # <<>>) => AppendBatch(h, b) # <<>>
<1> DEFINE after == CHOOSE f : Histories(f, h, b, Len(b))
           Good(m) == /\ after[m] \in Seq(Int) /\ EndsAt(after[m], t, n + m)
                      /\ (h # <<>> \/ m > 0) => after[m] # <<>>
           Bad == {m \in 0..Len(b) : ~Good(m)}
<1>0. Len(b) \in Nat /\ Len(t) \in Nat /\ n + Len(b) <= Len(t)
  BY DEF EndsAt
<1>1. \A i \in 1..Len(b) : b[i] = t[n + i]
  <2> SUFFICES ASSUME NEW i \in 1..Len(b) PROVE b[i] = t[n + i]
    OBVIOUS
  <2>1. n + Len(b) - Len(b) + i = n + i
    BY <1>0
  <2> QED BY <2>1, SMTT(30) DEF EndsAt
<1>2. AppendBatch(h, b) = after[Len(b)]
  BY DEF AppendBatch, Histories
<1>3. Histories(after, h, b, Len(b))
  <2>1. \E f : Histories(f, h, b, Len(b))
    BY <1>0, HistoriesExist
  <2> QED BY <2>1
<1> HIDE DEF after
<1>4. \A i \in 0..Len(b) : after[i] = IF i = 0 THEN h ELSE AppendSample(after[i - 1], b[i])
  BY <1>0, <1>3, HistoriesStep
<1>5. Bad = {}
  <2> SUFFICES ASSUME Bad # {} PROVE FALSE
    OBVIOUS
  <2>1. PICK m \in Bad : \A k \in Bad : m <= k
    <3>1. Bad \in SUBSET Nat
      BY <1>0
    <3> HIDE DEF Bad
    <3> QED BY <3>1, LeastNatural
  <2>2. m \in 0..Len(b) /\ ~Good(m)
    BY <2>1
  <2>3. CASE m = 0
    <3>1. after[0] = h /\ n + 0 = n
      BY <1>0, <1>4, SMTT(30)
    <3>2. Good(0)
      BY <3>1
    <3> QED BY <2>2, <2>3, <3>2
  <2>4. CASE m # 0
    <3>1. m - 1 \in 0..Len(b) /\ m \in 1..Len(b) /\ ~(m <= m - 1)
      BY <1>0, <2>2, <2>4
    <3>2. Good(m - 1)
      BY <2>1, <3>1
    <3>3. after[m] = AppendSample(after[m - 1], b[m])
      BY <1>4, <2>2, <2>4
    <3>4. /\ n + (m - 1) \in Nat /\ n + (m - 1) < Len(t)
          /\ n + (m - 1) + 1 = n + m
      <4> DEFINE k == Len(b)
                 l == Len(t)
      <4>1. /\ n \in Nat /\ m \in Nat /\ m >= 1 /\ m <= k
            /\ k \in Nat /\ l \in Nat /\ n + k <= l
        BY <1>0, <3>1
      <4> HIDE DEF k, l, Bad
      <4> QED BY <4>1 DEF l
    <3>5. b[m] = t[n + (m - 1) + 1]
      BY <1>1, <3>1, <3>4
    <3>6. after[m] \in Seq(Int) /\ after[m] # <<>> /\ EndsAt(after[m], t, n + m)
      BY <3>2, <3>3, <3>4, <3>5, SampleEndsAt
    <3> QED BY <2>2, <3>6
  <2> QED BY <2>3, <2>4
<1>6. Good(Len(b))
  BY <1>0, <1>5
<1>7. b # <<>> => Len(b) > 0
  BY <1>0
<1> QED BY <1>2, <1>6, <1>7

-----------------------------------------------------------------------------
(* The replay.                                                             *)

\* What the replay of a history that holds time t amounts to: legs that the
\* integration accepts, each between neighbouring samples, from t to the
\* newest sample.
LEMMA ReplayIsPath ==
  ASSUME NEW h \in Seq(Int), Spaced(h), h # <<>>,
         NEW t \in Int, h[1] <= t, t <= Last(h)
  PROVE  /\ Replay(h, t) \in Seq(Legs)
         /\ AllLegsOk(Replay(h, t))
         /\ Path(Replay(h, t), t, Last(h))
         /\ \A i \in DOMAIN Replay(h, t) : Adjacent(h, Replay(h, t)[i])
<1> DEFINE I == {i \in 1..Len(h) : h[i] > t}
           next == IF I # {} THEN Min(I) ELSE 0
<1>0. Len(h) \in Nat \ {0} /\ \A i \in 1..Len(h) : h[i] \in Int
  OBVIOUS
<1>1. Replay(h, t) = IF next = 0 THEN <<>>
                     ELSE LegsAlong(SubSeq(h, next, Len(h)), h[next-1], t, Last(h))
  BY DEF Replay, SelectInSeq
<1>2. CASE I = {}
  <2>1. Replay(h, t) = <<>>
    BY <1>1, <1>2
  <2>2. t = Last(h)
    <3>1. Len(h) \in 1..Len(h) /\ h[Len(h)] <= t
      BY <1>0, <1>2
    <3> QED BY <1>0, <3>1 DEF Last
  <2> QED BY <2>1, <2>2 DEF AllLegsOk, Path
<1>3. CASE I # {}
  <2>1. \E m \in I : \A k \in I : m <= k
    <3>1. I \in SUBSET Nat
      BY <1>0
    <3> HIDE DEF I
    <3> QED BY <1>3, <3>1, LeastNatural
  <2>2. next \in I /\ \A k \in I : next <= k
    <3> HIDE DEF I
    <3> QED BY <1>3, <2>1 DEF Min
  <2> HIDE DEF next
  <2>3. next \in 2..Len(h) /\ h[next] > t
    BY <1>0, <2>2
  <2> DEFINE from == next - 1
             run == SubSeq(h, next, Len(h))
  <2>4. from \in 1..Len(h) /\ from < Len(h) /\ from + 1 = next
    BY <1>0, <2>3
  <2>5. h[from] <= t
    <3>1. from \notin I
      BY <1>0, <2>2, <2>4
    <3> QED BY <1>0, <2>4, <3>1
  <2>6. /\ run \in Seq(Int) /\ Len(run) = Len(h) - from
        /\ \A i \in 1..Len(run) : run[i] = h[from + i]
    BY <1>0, <2>3
  <2> HIDE DEF run, from
  <2>7. run # <<>> /\ Len(run) < Len(h) /\ Len(h) - Len(run) = from /\ Len(run) \in Nat \ {0}
    BY <1>0, <2>4, <2>6
  <2>8. EndsAt(run, h, Len(h))
    BY <1>0, <2>6, <2>7 DEF EndsAt
  <2>9. t < run[1] /\ Last(run) = Last(h) /\ Last(h) \in Int
    <3>1. run[1] = h[next]
      <4>1. 1 \in 1..Len(run)
        BY <2>7
      <4> QED BY <2>4, <2>6, <4>1
    <3>2. run[Len(run)] = h[Len(h)]
      <4>1. Len(run) \in 1..Len(run) /\ from + Len(run) = Len(h)
        BY <1>0, <2>4, <2>7
      <4> QED BY <2>6, <4>1
    <3> QED BY <1>0, <2>3, <3>1, <3>2 DEF Last
  <2>10. t < Last(h)
    <3>1. next < Len(h) => h[next] < h[Len(h)]
      BY <1>0, <2>3 DEF Spaced, Rising
    <3> QED BY <1>0, <2>3, <3>1 DEF Last
  <2>11. Len(run) > 1 => run[Len(run) - 1] < Last(h)
    <3> SUFFICES ASSUME Len(run) > 1 PROVE run[Len(run) - 1] < Last(h)
      OBVIOUS
    <3>1. run[Len(run) - 1] = h[Len(h) - 1]
      <4>1. Len(run) - 1 \in 1..Len(run) /\ from + (Len(run) - 1) = Len(h) - 1
        BY <1>0, <2>4, <2>7
      <4> QED BY <2>6, <4>1
    <3>2. Len(h) - 1 \in 1..Len(h) /\ Len(h) \in 1..Len(h)
      BY <1>0, <2>4, <2>7
    <3>3. h[Len(h) - 1] < h[Len(h)]
      <4> DEFINE a == Len(h) - 1
      <4>1. a \in 1..Len(h) /\ Len(h) \in 1..Len(h) /\ a < Len(h)
        BY <1>0, <3>2
      <4> HIDE DEF a
      <4>2. h[a] < h[Len(h)]
        BY <4>1 DEF Spaced, Rising
      <4> QED BY <4>2 DEF a
    <3> QED BY <3>1, <3>3 DEF Last
  <2>12. Replay(h, t) = LegsAlong(run, h[from], t, Last(h))
    BY <1>1, <2>3 DEF run, from
  <2>13. h[from] = h[Len(h) - Len(run)] /\ Last(h) <= Last(run)
    BY <2>7, <2>9
  <2> HIDE DEF I
  <2>14. Len(h) \in Nat /\ Last(h) \in Int /\ t < run[1]
    BY <1>0, <2>9
  <2> DEFINE left == h[from]
             L == LegsAlong(run, left, t, Last(h))
  <2>15. left <= t /\ left = h[Len(h) - Len(run)]
    BY <2>5, <2>13
  <2> HIDE DEF left
  <2>16. /\ L \in Seq(Legs) /\ AllLegsOk(L) /\ Path(L, t, Last(h))
         /\ \A i \in DOMAIN L : Adjacent(h, L[i])
    BY <2>6, <2>7, <2>8, <2>10, <2>11, <2>13, <2>14, <2>15, LegsAlongPath
  <2>17. Replay(h, t) = L
    BY <2>12 DEF left
  <2> HIDE DEF L
  <2> QED BY <2>16, <2>17
<1> QED BY <1>2, <1>3

Filters == [base : Nat, stamp : Int, legs : Seq(Legs)]

\* A filter that stands at the end of a path, integrated over the legs from
\* there to time e.
LEMMA IntegratedIsPath ==
  ASSUME NEW f \in Filters, NEW L \in Seq(Legs), NEW a, NEW e \in Int,
         Path(f.legs, a, f.stamp), Path(L, f.stamp, e)
  PROVE  /\ Integrated(f, L) \in Filters
         /\ Integrated(f, L).base = f.base
         /\ Integrated(f, L).stamp = e
         /\ Integrated(f, L).legs = f.legs \o L
         /\ Path(Integrated(f, L).legs, a, e)
<1> DEFINE g == Integrated(f, L)
<1>1. f.legs \in Seq(Legs) /\ f.base \in Nat
  BY DEF Filters
<1>2. f.legs \o L \in Seq(Legs) /\ Path(f.legs \o L, a, e)
  BY <1>1, PathsJoin
<1>3. e = IF L = <<>> THEN f.stamp ELSE Last(L).to
  BY DEF Path, Last
<1>4. g = [f EXCEPT !.legs = f.legs \o L, !.stamp = e]
  BY <1>3 DEF Integrated
<1> HIDE DEF g
<1>6. g \in Filters /\ g.base = f.base /\ g.stamp = e /\ g.legs = f.legs \o L
  BY <1>1, <1>2, <1>4 DEF Filters
<1> QED BY <1>2, <1>6 DEF g

-----------------------------------------------------------------------------
(* The invariant.                                                          *)
TypesOfQueues ==
  /\ imuQueue \in Seq(Int) /\ batch \in Seq(Int) /\ history \in Seq(Int)
  /\ stream \in Seq(Times)

TypesOfMail ==
  /\ given \in Seq(Updates)
  /\ statePending \in Updates \cup {NoUpdate} /\ update \in Updates \cup {NoUpdate}

TypesOfPredictor ==
  sequence \in Nat /\ anchor \in Nat /\ accepted \in Nat /\ filter \in Filters

TypesOfOutput ==
  lastPublished \in Int /\ published \in Seq([stamp : Int, base : Nat])

Types == TypesOfQueues /\ TypesOfMail /\ TypesOfPredictor /\ TypesOfOutput

\* The samples on their way: history_ ends at position n of the stream, the
\* worker's batch follows it, the queue follows the batch, and while the
\* output is open the queue reaches the stream's end.  A posterior that
\* travels with them is not newer than the samples it travels with.
BatchEnd(n) == n + Len(batch)
QueueEnd(n) == n + Len(batch) + Len(imuQueue)

Pipeline(n) ==
  /\ EndsAt(history, stream, n) /\ (n > 0 => history # <<>>)
  /\ EndsAt(batch, stream, BatchEnd(n))
  /\ EndsAt(imuQueue, stream, QueueEnd(n))
  /\ OutputOpen => QueueEnd(n) = Len(stream)
  /\ update # NoUpdate => /\ BatchEnd(n) > 0
                          /\ update.stamp <= stream[BatchEnd(n)]
  /\ statePending # NoUpdate => /\ QueueEnd(n) > 0
                                /\ statePending.stamp <= stream[QueueEnd(n)]

Flows == \E n \in Nat : Pipeline(n)

\* The posteriors are numbered and ordered in time.
Numbered ==
  /\ \A i \in 1..Len(given) : given[i].seq = i /\ given[i].accepted <= given[i].stamp
  /\ \A i, j \in 1..Len(given) :
       i < j => given[i].stamp < given[j].stamp /\ given[i].accepted <= given[j].accepted

\* Each posterior on its way is newer than those ahead of it.
InHand ==
  /\ update # NoUpdate =>
       /\ update.seq \in 1..Len(given) /\ update = given[update.seq]
       /\ update.seq > sequence
  /\ statePending # NoUpdate =>
       /\ statePending.seq \in 1..Len(given) /\ statePending = given[statePending.seq]
       /\ statePending.seq > sequence
       /\ update # NoUpdate => statePending.seq > update.seq

\* The last posterior is in the mailbox, in the worker's hand, or restored.
Newest ==
  OutputOpen =>
    /\ statePending # NoUpdate => statePending.seq = Len(given)
    /\ statePending = NoUpdate /\ update # NoUpdate => update.seq = Len(given)
    /\ statePending = NoUpdate /\ update = NoUpdate /\ ~predFaulted =>
         sequence = Len(given)

\* The worker leaves a failed predictor alone: it reports the fault, and the
\* loop ends.
Control ==
  /\ opc \in {"wait", "work", "publish", "fail", "done"}
  /\ opc # "work" => batch = <<>> /\ update = NoUpdate
  /\ predFaulted => opc = "fail" \/ (outFaulted /\ opc \in {"wait", "done"})

\* The predictor stands on the posterior it was restored from, at the end of
\* the samples it has.
Restored ==
  /\ sequence \in 0..Len(given)
  /\ sequence > 0 => anchor = given[sequence].stamp /\ accepted = given[sequence].accepted
  /\ initialized =>
       /\ sequence > 0 /\ filter.base = sequence
       /\ history # <<>> /\ filter.stamp = Last(history)
       /\ given[sequence].stamp <= filter.stamp
       /\ Path(filter.legs, given[sequence].stamp, filter.stamp)
       /\ \A i \in DOMAIN filter.legs : Adjacent(stream, filter.legs[i])

Faultless ==
  /\ predPending = NoUpdate /\ ~gapMiss /\ ~staleState
  /\ predFaulted => \E i \in DOMAIN given : given[i].stamp < history[1]

Emission ==
  /\ opc = "publish" =>
       /\ initialized /\ ~predFaulted
       /\ filter.stamp - accepted <= PredictionLimit
       /\ filter.stamp > lastPublished
  /\ published # <<>> =>
       /\ Last(published).stamp = lastPublished
       /\ Last(published).base <= sequence

ChainInv ==
  /\ Types /\ Spaced(stream) /\ Flows /\ Numbered /\ InHand /\ Newest
  /\ Control /\ Restored /\ Faultless /\ Emission

LEMMA StreamIsInt ==
  ASSUME Types
  PROVE  stream \in Seq(Int) /\ \A i \in 1..Len(stream) : stream[i] \in Times
<1>1. stream \in Seq(Times)
  BY DEF Types, TypesOfQueues
<1>2. Times \subseteq Int
  BY Asms
<1>3. \A i \in 1..Len(stream) : stream[i] \in Times
  BY <1>1
<1>4. stream \in Seq(Int)
  <2>1. Len(stream) \in Nat /\ stream \in [1..Len(stream) -> Times]
    BY <1>1
  <2>2. stream \in [1..Len(stream) -> Int]
    BY <1>2, <2>1
  <2> QED BY <2>1, <2>2
<1> QED BY <1>3, <1>4

LEMMA InitEstablishes == ChainInit => ChainInv
<1> SUFFICES ASSUME ChainInit PROVE ChainInv
  OBVIOUS
<1> USE DEF ChainInit, OutputInit
<1>1. Types
  BY DEF Types, TypesOfQueues, TypesOfMail, TypesOfPredictor, TypesOfOutput,
         Filters, NoFilter
<1>2. Spaced(stream)
  BY DEF Spaced, Rising
<1>3. Pipeline(0)
  BY DEF Pipeline, EndsAt, BatchEnd, QueueEnd
<1>4. Flows
  BY <1>3 DEF Flows
<1>5. Numbered /\ InHand /\ Newest /\ Control
  BY DEF Numbered, InHand, Newest, Control
<1>6. Restored /\ Faultless /\ Emission
  BY DEF Restored, Faultless, Emission
<1> QED BY <1>1, <1>2, <1>4, <1>5, <1>6 DEF ChainInv

-----------------------------------------------------------------------------
(* The callbacks.                                                          *)
LEMMA SampleKeeps ==
  ASSUME ChainInv, NEW ts \in Times, Sample(ts)
  PROVE  ChainInv'
<1>0. Types /\ Spaced(stream) /\ Flows /\ Numbered /\ InHand /\ Newest
      /\ Control /\ Restored /\ Faultless /\ Emission
  BY DEF ChainInv
<1>1. /\ imuQueue' = IF OutputOpen /\ ~QueueOverflow
                       THEN Append(imuQueue, ts) ELSE imuQueue
      /\ outFaulted' = (outFaulted \/ QueueOverflow)
      /\ stream' = Append(stream, ts)
      /\ UNCHANGED <<statePending, outStopping, predVars, workerVars, given>>
  BY DEF Sample, OnImu
<1>2. stream \in Seq(Int) /\ ts \in Int /\ Len(stream) \in Nat
      /\ \A i \in 1..Len(stream) : stream[i] \in Int
  BY <1>0, StreamIsInt, Asms
<1>3. Types'
  <2>1. TypesOfQueues'
    BY <1>0, <1>1, <1>2 DEF Types, TypesOfQueues, predVars, workerVars
  <2>2. TypesOfMail' /\ TypesOfPredictor' /\ TypesOfOutput'
    BY <1>0, <1>1 DEF Types, TypesOfMail, TypesOfPredictor, TypesOfOutput,
                      predVars, workerVars
  <2> QED BY <2>1, <2>2 DEF Types
<1>4. Spaced(stream')
  BY <1>0, <1>1, <1>2, SpacedGrows DEF Sample
<1>5. Flows'
  <2>1. PICK n \in Nat : Pipeline(n)
    BY <1>0 DEF Flows
  <2>2. /\ history \in Seq(Int) /\ batch \in Seq(Int) /\ imuQueue \in Seq(Int)
        /\ Len(batch) \in Nat /\ Len(imuQueue) \in Nat
    BY <1>0 DEF Types, TypesOfQueues
  <2>3. BatchEnd(n) \in Nat /\ QueueEnd(n) \in Nat
        /\ BatchEnd(n) <= Len(stream) /\ QueueEnd(n) <= Len(stream)
    BY <2>1, <2>2 DEF Pipeline, EndsAt, BatchEnd, QueueEnd
  <2>4. /\ EndsAt(history, stream', n) /\ EndsAt(batch, stream', BatchEnd(n))
        /\ EndsAt(imuQueue, stream', QueueEnd(n))
    BY <1>1, <1>2, <2>1, <2>2, <2>3, RunStays DEF Pipeline
  <2>5. /\ update # NoUpdate => /\ BatchEnd(n) > 0
                                /\ update.stamp <= stream'[BatchEnd(n)]
        /\ statePending # NoUpdate => /\ QueueEnd(n) > 0
                                      /\ statePending.stamp <= stream'[QueueEnd(n)]
    <3>1. \A i \in 1..Len(stream) : stream'[i] = stream[i]
      BY <1>1, <1>2
    <3>2. update # NoUpdate => BatchEnd(n) \in 1..Len(stream)
      BY <2>1, <2>3 DEF Pipeline
    <3>3. statePending # NoUpdate => QueueEnd(n) \in 1..Len(stream)
      BY <2>1, <2>3 DEF Pipeline
    <3> QED BY <2>1, <3>1, <3>2, <3>3 DEF Pipeline
  <2>6. CASE OutputOpen /\ ~QueueOverflow
    <3>1. /\ imuQueue' = Append(imuQueue, ts) /\ QueueEnd(n) = Len(stream)
          /\ Len(imuQueue') = Len(imuQueue) + 1 /\ Len(stream') = Len(stream) + 1
      BY <1>1, <1>2, <2>1, <2>2, <2>6 DEF Pipeline
    <3>2. EndsAt(imuQueue', stream', Len(stream) + 1)
      <4>1. EndsAt(imuQueue, stream, Len(stream))
        BY <2>1, <3>1 DEF Pipeline
      <4>2. EndsAt(Append(imuQueue, ts), Append(stream, ts), Len(stream) + 1)
        BY <1>2, <2>2, <4>1, RunGrows
      <4> QED BY <1>1, <3>1, <4>2
    <3>3. n + Len(batch) + Len(imuQueue') = Len(stream) + 1
      <4>1. Len(imuQueue') = Len(imuQueue) + 1 /\ n + Len(batch) + Len(imuQueue) = Len(stream)
        BY <3>1 DEF QueueEnd
      <4> QED BY <1>2, <2>1, <2>2, <4>1
    <3>4. statePending # NoUpdate => statePending.stamp <= stream'[Len(stream) + 1]
      <4> SUFFICES ASSUME statePending # NoUpdate
                   PROVE  statePending.stamp <= stream'[Len(stream) + 1]
        OBVIOUS
      <4>1. statePending.stamp <= stream'[Len(stream)] /\ Len(stream) > 0
        BY <2>5, <3>1
      <4>2. stream'[Len(stream)] < stream'[Len(stream) + 1]
        BY <1>2, <1>4, <3>1, <4>1 DEF Spaced, Rising
      <4>3. /\ stream'[Len(stream)] \in Int /\ stream'[Len(stream) + 1] \in Int
            /\ statePending.stamp \in Int
        <5>1. stream' \in Seq(Int)
          BY <1>1, <1>2
        <5>2. statePending.stamp \in Int
          BY <1>0 DEF Types, TypesOfMail, Updates
        <5> QED BY <1>2, <3>1, <4>1, <5>1, <5>2
      <4> QED BY <4>1, <4>2, <4>3
    <3>5. UNCHANGED <<history, batch, update, statePending>>
      BY <1>1 DEF predVars, workerVars
    <3>6. Pipeline(n)'
      BY <1>2, <2>1, <2>4, <2>5, <3>1, <3>2, <3>3, <3>4, <3>5
      DEF Pipeline, BatchEnd, QueueEnd
    <3> QED BY <3>6 DEF Flows
  <2>7. CASE ~(OutputOpen /\ ~QueueOverflow)
    <3>1. imuQueue' = imuQueue /\ ~OutputOpen'
      BY <1>1, <2>7 DEF OutputOpen, QueueOverflow
    <3>2. UNCHANGED <<history, batch, update, statePending>>
      BY <1>1 DEF predVars, workerVars
    <3>3. Pipeline(n)'
      BY <2>1, <2>4, <2>5, <3>1, <3>2 DEF Pipeline, BatchEnd, QueueEnd
    <3> QED BY <3>3 DEF Flows
  <2> QED BY <2>6, <2>7
<1>6. Numbered' /\ InHand' /\ Emission' /\ Faultless'
  BY <1>0, <1>1 DEF Numbered, InHand, Emission, Faultless, predVars, workerVars
<1>7. Newest' /\ Control'
  BY <1>0, <1>1 DEF Newest, Control, OutputOpen, predVars, workerVars
<1>8. Restored'
  <2>1. \A i \in DOMAIN filter.legs :
          Adjacent(stream, filter.legs[i]) => Adjacent(stream', filter.legs[i])
    BY <1>1, <1>2, AdjacentStays
  <2> QED BY <1>0, <1>1, <2>1 DEF Restored, predVars
<1> QED BY <1>3, <1>4, <1>5, <1>6, <1>7, <1>8 DEF ChainInv

LEMMA PosteriorKeeps ==
  ASSUME ChainInv, NEW t \in Times, NEW acc \in Times, Posterior(t, acc)
  PROVE  ChainInv'
<1> DEFINE u == [seq |-> Len(given) + 1, stamp |-> t, accepted |-> acc]
<1>0. Types /\ Spaced(stream) /\ Flows /\ Numbered /\ InHand /\ Newest
      /\ Control /\ Restored /\ Faultless /\ Emission
  BY DEF ChainInv
<1>1. /\ stream # <<>> /\ t <= Last(stream) /\ acc <= t
      /\ given # <<>> => t > Last(given).stamp /\ acc >= Last(given).accepted
      /\ statePending' = IF OutputOpen /\ Newer(u) THEN u ELSE statePending
      /\ given' = Append(given, u)
      /\ UNCHANGED <<imuQueue, outStopping, outFaulted, predVars, workerVars, stream>>
  BY DEF Posterior, OnState
<1>2. given \in Seq(Updates) /\ Len(given) \in Nat
  BY <1>0 DEF Types, TypesOfMail
<1>3. u \in Updates /\ u # NoUpdate
  BY <1>2, Asms DEF Updates
<1>4. u.seq = Len(given) + 1 /\ u.stamp = t /\ u.accepted = acc
  OBVIOUS
<1> HIDE DEF u
<1>5. /\ Len(given') = Len(given) + 1 /\ given'[Len(given) + 1] = u
      /\ \A i \in 1..Len(given) : given'[i] = given[i] /\ given[i] \in Updates
      /\ given' \in Seq(Updates)
  BY <1>1, <1>2, <1>3
<1>6. OutputOpen => statePending' = u
  <2> SUFFICES ASSUME OutputOpen, statePending # NoUpdate PROVE u.seq > statePending.seq
    BY <1>1 DEF Newer
  <2>1. statePending.seq \in 1..Len(given)
    BY <1>0 DEF InHand
  <2> QED BY <1>2, <1>4, <2>1
<1>7. ~OutputOpen => statePending' = statePending
  BY <1>1
<1>8. Types'
  <2>1. TypesOfMail'
    BY <1>0, <1>1, <1>3, <1>5 DEF Types, TypesOfMail, workerVars
  <2>2. TypesOfQueues' /\ TypesOfPredictor' /\ TypesOfOutput'
    BY <1>0, <1>1 DEF Types, TypesOfQueues, TypesOfPredictor, TypesOfOutput,
                      predVars, workerVars
  <2> QED BY <2>1, <2>2 DEF Types
<1>9. Spaced(stream')
  BY <1>0, <1>1
<1>10. Flows'
  <2>1. PICK n \in Nat : Pipeline(n)
    BY <1>0 DEF Flows
  <2>2. UNCHANGED <<imuQueue, history, batch, update, outStopping, outFaulted, stream>>
    BY <1>1 DEF predVars, workerVars
  <2>3. OutputOpen => QueueEnd(n) > 0 /\ t <= stream[QueueEnd(n)]
    <3>1. Len(stream) > 0
      BY <1>0, <1>1, StreamIsInt
    <3> QED BY <1>1, <2>1, <3>1 DEF Pipeline, Last
  <2>4. Pipeline(n)'
    <3>1. CASE OutputOpen
      BY <1>4, <1>6, <2>1, <2>2, <2>3, <3>1 DEF Pipeline, BatchEnd, QueueEnd, OutputOpen
    <3>2. CASE ~OutputOpen
      BY <1>7, <2>1, <2>2, <3>2 DEF Pipeline, BatchEnd, QueueEnd, OutputOpen
    <3> QED BY <3>1, <3>2
  <2> QED BY <2>4 DEF Flows
<1>11. Numbered'
  <2>1. ASSUME NEW i \in 1..Len(given)
        PROVE  given[i].stamp < t /\ given[i].accepted <= acc
    <3>1. given # <<>> /\ Len(given) \in 1..Len(given)
      BY <1>2
    <3>2. Last(given) = given[Len(given)]
      BY DEF Last
    <3>3. i < Len(given) => /\ given[i].stamp < given[Len(given)].stamp
                            /\ given[i].accepted <= given[Len(given)].accepted
      BY <1>0, <3>1 DEF Numbered
    <3>4. /\ given[i].stamp \in Int /\ given[Len(given)].stamp \in Int
          /\ given[i].accepted \in Int /\ given[Len(given)].accepted \in Int
          /\ t \in Int /\ acc \in Int
      <4>1. given[i] \in Updates /\ given[Len(given)] \in Updates
        BY <1>5, <3>1
      <4>2. t \in Nat /\ acc \in Nat
        BY Asms
      <4> QED BY <4>1, <4>2 DEF Updates
    <3> QED BY <1>1, <1>2, <3>1, <3>2, <3>3, <3>4
  <2>2. ASSUME NEW i \in 1..(Len(given) + 1)
        PROVE  given'[i].seq = i /\ given'[i].accepted <= given'[i].stamp
    BY <1>0, <1>1, <1>2, <1>4, <1>5 DEF Numbered
  <2>3. ASSUME NEW i \in 1..(Len(given) + 1), NEW j \in 1..(Len(given) + 1), i < j
        PROVE  /\ given'[i].stamp < given'[j].stamp
               /\ given'[i].accepted <= given'[j].accepted
    <3>1. i \in 1..Len(given)
      BY <1>2, <2>3
    <3>2. CASE j = Len(given) + 1
      BY <1>4, <1>5, <2>1, <3>1, <3>2
    <3>3. CASE j \in 1..Len(given)
      BY <1>0, <1>5, <2>3, <3>1, <3>3 DEF Numbered
    <3> QED BY <1>2, <3>2, <3>3
  <2> QED BY <1>5, <2>2, <2>3 DEF Numbered
<1>12. InHand'
  <2>1. UNCHANGED <<update, sequence>>
    BY <1>1 DEF predVars, workerVars
  <2>2. sequence \in 0..Len(given)
    BY <1>0 DEF Restored
  <2>3. update # NoUpdate => update.seq \in 1..Len(given)
    BY <1>0 DEF InHand
  <2>4. CASE OutputOpen
    BY <1>0, <1>2, <1>4, <1>5, <1>6, <2>1, <2>2, <2>3, <2>4 DEF InHand
  <2>5. CASE ~OutputOpen
    BY <1>0, <1>2, <1>5, <1>7, <2>1, <2>5 DEF InHand
  <2> QED BY <2>4, <2>5
<1>13. Newest'
  BY <1>1, <1>3, <1>4, <1>5, <1>6 DEF Newest, OutputOpen
<1>14. Control' /\ Emission'
  BY <1>0, <1>1 DEF Control, Emission, predVars, workerVars
<1>15. Restored'
  <2>1. sequence \in 0..Len(given) /\ (sequence > 0 => given'[sequence] = given[sequence])
    BY <1>0, <1>2, <1>5 DEF Restored
  <2>2. sequence \in 0..(Len(given) + 1)
    BY <1>2, <2>1
  <2> QED BY <1>0, <1>1, <1>5, <2>1, <2>2 DEF Restored, predVars
<1>16. Faultless'
  <2>1. \A i \in DOMAIN given : i \in DOMAIN given' /\ given'[i] = given[i]
    BY <1>2, <1>5
  <2> QED BY <1>0, <1>1, <2>1 DEF Faultless, predVars
<1> QED BY <1>8, <1>9, <1>10, <1>11, <1>12, <1>13, <1>14, <1>15, <1>16 DEF ChainInv

\* A fault, from wherever it comes, and the shutdown only set their flag.
LEMMA FlagsKeep ==
  ASSUME ChainInv, ForeignFault \/ Shutdown
  PROVE  ChainInv'
<1>0. Types /\ Spaced(stream) /\ Flows /\ Numbered /\ InHand /\ Newest
      /\ Control /\ Restored /\ Faultless /\ Emission
  BY DEF ChainInv
<1>1. UNCHANGED <<queueOutVars, predVars, workerVars, stream, given>>
  BY DEF ForeignFault, Shutdown, SetFaulted, StopOutput
<1>2. ~OutputOpen' /\ (outFaulted => outFaulted')
  BY DEF ForeignFault, Shutdown, SetFaulted, StopOutput, OutputOpen
<1>3. Types'
  BY <1>0, <1>1 DEF Types, TypesOfQueues, TypesOfMail, TypesOfPredictor, TypesOfOutput,
                    queueOutVars, predVars, workerVars
<1>4. Spaced(stream)'
  BY <1>0, <1>1
<1>5. Flows'
  <2>1. PICK n \in Nat : Pipeline(n)
    BY <1>0 DEF Flows
  <2>2. Pipeline(n)'
    BY <1>1, <1>2, <2>1 DEF Pipeline, BatchEnd, QueueEnd, queueOutVars, predVars, workerVars
  <2> QED BY <2>2 DEF Flows
<1>6. Numbered' /\ InHand' /\ Emission' /\ Faultless'
  BY <1>0, <1>1 DEF Numbered, InHand, Emission, Faultless, queueOutVars, predVars, workerVars
<1>7. Newest' /\ Control'
  BY <1>0, <1>1, <1>2 DEF Newest, Control, queueOutVars, predVars, workerVars
<1>8. Restored'
  BY <1>0, <1>1 DEF Restored, predVars
<1> QED BY <1>3, <1>4, <1>5, <1>6, <1>7, <1>8 DEF ChainInv

-----------------------------------------------------------------------------
(* The worker.                                                             *)
LEMMA WakeKeeps ==
  ASSUME ChainInv, Wake, UNCHANGED <<stream, given>>
  PROVE  ChainInv'
<1>0. Types /\ Spaced(stream) /\ Flows /\ Numbered /\ InHand /\ Newest
      /\ Control /\ Restored /\ Faultless /\ Emission
  BY DEF ChainInv
<1>1. /\ opc = "wait" /\ batch = <<>> /\ update = NoUpdate
      /\ UNCHANGED <<outStopping, outFaulted, predVars, lastPublished, published>>
  BY <1>0 DEF Wake, Control
<1>2. CASE LeavesLoop
  <2>1. opc' = "done" /\ UNCHANGED <<batch, update, queueOutVars>>
    BY <1>2 DEF Wake
  <2>2. Types'
    BY <1>0, <1>1, <2>1 DEF Types, TypesOfQueues, TypesOfMail, TypesOfPredictor,
                            TypesOfOutput, queueOutVars, predVars
  <2>3. Flows'
    <3>1. PICK n \in Nat : Pipeline(n)
      BY <1>0 DEF Flows
    <3>2. Pipeline(n)'
      BY <1>1, <2>1, <3>1 DEF Pipeline, BatchEnd, QueueEnd, queueOutVars, predVars, OutputOpen
    <3> QED BY <3>2 DEF Flows
  <2>4. Numbered' /\ InHand' /\ Emission' /\ Faultless'
    BY <1>0, <1>1, <2>1 DEF Numbered, InHand, Emission, Faultless, queueOutVars, predVars
  <2>5. Newest' /\ Control' /\ Restored' /\ Spaced(stream)'
    BY <1>0, <1>1, <2>1 DEF Newest, Control, Restored, queueOutVars, predVars, OutputOpen
  <2> QED BY <2>2, <2>3, <2>4, <2>5 DEF ChainInv
<1>3. CASE ~LeavesLoop
  <2>1. /\ opc' = "work" /\ batch' = imuQueue /\ imuQueue' = <<>>
        /\ update' = statePending /\ statePending' = NoUpdate
    BY <1>3 DEF Wake
  <2>2. ~outFaulted /\ ~predFaulted
    BY <1>0, <1>1, <1>3 DEF LeavesLoop, Control
  <2>3. Types'
    BY <1>0, <1>1, <2>1 DEF Types, TypesOfQueues, TypesOfMail, TypesOfPredictor,
                            TypesOfOutput, predVars
  <2>4. Flows'
    <3>1. PICK n \in Nat : Pipeline(n)
      BY <1>0 DEF Flows
    <3>2. Len(imuQueue) \in Nat /\ Len(batch) = 0 /\ Len(imuQueue') = 0
      BY <1>0, <1>1, <2>1 DEF Types, TypesOfQueues
    <3>3. /\ n + Len(batch') = QueueEnd(n)
          /\ n + Len(batch') + Len(imuQueue') = QueueEnd(n)
          /\ QueueEnd(n) \in Nat
      BY <2>1, <3>1, <3>2 DEF QueueEnd
    <3>4. EndsAt(<<>>, stream, QueueEnd(n))
      BY <3>1, <3>3 DEF Pipeline, EndsAt
    <3>5. Pipeline(n)'
      BY <1>1, <2>1, <3>1, <3>3, <3>4 DEF Pipeline, BatchEnd, QueueEnd, OutputOpen, predVars
    <3> QED BY <3>5 DEF Flows
  <2>5. Numbered' /\ InHand' /\ Emission' /\ Faultless'
    BY <1>0, <1>1, <2>1 DEF Numbered, InHand, Emission, Faultless, predVars
  <2>6. Newest' /\ Control' /\ Restored' /\ Spaced(stream)'
    BY <1>0, <1>1, <2>1, <2>2 DEF Newest, Control, Restored, predVars, OutputOpen
  <2> QED BY <2>3, <2>4, <2>5, <2>6 DEF ChainInv
<1> QED BY <1>2, <1>3

LEMMA PublishKeeps ==
  ASSUME ChainInv, Publish, UNCHANGED <<stream, given>>
  PROVE  ChainInv'
<1>0. Types /\ Spaced(stream) /\ Flows /\ Numbered /\ InHand /\ Newest
      /\ Control /\ Restored /\ Faultless /\ Emission
  BY DEF ChainInv
<1>1. /\ opc = "publish" /\ opc' = "wait"
      /\ published' = Append(published, Message) /\ lastPublished' = filter.stamp
      /\ UNCHANGED <<queueOutVars, outStopping, outFaulted, predVars, batch, update>>
  BY DEF Publish
<1>2. filter.stamp \in Int /\ Message \in [stamp : Int, base : Nat]
      /\ Message.stamp = filter.stamp /\ Message.base = filter.base
  BY <1>0 DEF Types, TypesOfPredictor, Filters, Message
<1>3. initialized /\ ~predFaulted /\ filter.base = sequence /\ sequence \in Nat
  BY <1>0, <1>1 DEF Emission, Restored, Types, TypesOfPredictor
<1>4. published' \in Seq([stamp : Int, base : Nat]) /\ Last(published') = Message
  <2>1. published \in Seq([stamp : Int, base : Nat])
    BY <1>0 DEF Types, TypesOfOutput
  <2> QED BY <1>1, <1>2, <2>1 DEF Last
<1>5. Types'
  BY <1>0, <1>1, <1>2, <1>4 DEF Types, TypesOfQueues, TypesOfMail, TypesOfPredictor,
                                TypesOfOutput, queueOutVars, predVars
<1>6. Flows'
  <2>1. PICK n \in Nat : Pipeline(n)
    BY <1>0 DEF Flows
  <2>2. Pipeline(n)'
    BY <1>1, <2>1 DEF Pipeline, BatchEnd, QueueEnd, queueOutVars, predVars, OutputOpen
  <2> QED BY <2>2 DEF Flows
<1>7. Numbered' /\ InHand' /\ Faultless' /\ Spaced(stream)'
  BY <1>0, <1>1 DEF Numbered, InHand, Faultless, queueOutVars, predVars
<1>8. Newest' /\ Control' /\ Restored'
  BY <1>0, <1>1, <1>3 DEF Newest, Control, Restored, queueOutVars, predVars, OutputOpen
<1>9. Emission'
  BY <1>1, <1>2, <1>3, <1>4 DEF Emission, predVars
<1> QED BY <1>5, <1>6, <1>7, <1>8, <1>9 DEF ChainInv

LEMMA WorkerFailsKeeps ==
  ASSUME ChainInv, WorkerFails, UNCHANGED <<stream, given>>
  PROVE  ChainInv'
<1>0. Types /\ Spaced(stream) /\ Flows /\ Numbered /\ InHand /\ Newest
      /\ Control /\ Restored /\ Faultless /\ Emission
  BY DEF ChainInv
<1>1. /\ opc = "fail" /\ opc' = "wait" /\ outFaulted' = TRUE
      /\ UNCHANGED <<queueOutVars, outStopping, predVars, batch, update,
                     lastPublished, published>>
  BY DEF WorkerFails
<1>2. ~OutputOpen'
  BY <1>1 DEF OutputOpen
<1>3. Types'
  BY <1>0, <1>1 DEF Types, TypesOfQueues, TypesOfMail, TypesOfPredictor,
                    TypesOfOutput, queueOutVars, predVars
<1>4. Flows'
  <2>1. PICK n \in Nat : Pipeline(n)
    BY <1>0 DEF Flows
  <2>2. Pipeline(n)'
    BY <1>1, <1>2, <2>1 DEF Pipeline, BatchEnd, QueueEnd, queueOutVars, predVars
  <2> QED BY <2>2 DEF Flows
<1>5. Numbered' /\ InHand' /\ Emission' /\ Faultless' /\ Spaced(stream)'
  BY <1>0, <1>1 DEF Numbered, InHand, Emission, Faultless, queueOutVars, predVars
<1>6. Newest' /\ Control' /\ Restored'
  BY <1>0, <1>1, <1>2 DEF Newest, Control, Restored, queueOutVars, predVars
<1> QED BY <1>3, <1>4, <1>5, <1>6 DEF ChainInv

\* What a replay of the predictor ends with: the filter at the newest sample,
\* on the posterior `base`.
StandsOn(base) ==
  /\ sequence' = base /\ base \in 1..Len(given)
  /\ anchor' = given[base].stamp /\ accepted' = given[base].accepted
  /\ initialized' /\ filter' \in Filters /\ filter'.base = base
  /\ history' # <<>> /\ filter'.stamp = Last(history')
  /\ given[base].stamp <= filter'.stamp
  /\ Path(filter'.legs, given[base].stamp, filter'.stamp)
  /\ \A i \in DOMAIN filter'.legs : Adjacent(stream, filter'.legs[i])
  /\ UNCHANGED predFaulted

\* The history the predictor keeps has outrun the posterior it needs.
Missed ==
  /\ predFaulted' /\ ~initialized'
  /\ \E i \in DOMAIN given : given[i].stamp < history'[1]
  /\ UNCHANGED <<filter, sequence, anchor, accepted>>

\* Nothing to restore, nothing to advance.
Idles ==
  /\ update = NoUpdate /\ ~initialized /\ ~initialized'
  /\ UNCHANGED <<filter, sequence, anchor, accepted, predFaulted>>

\* Filter f was carried from time a to its own over intervals of t.
CarriedFrom(f, a, t) ==
  /\ Path(f.legs, a, f.stamp)
  /\ \A i \in DOMAIN f.legs : Adjacent(t, f.legs[i])

\* The legs of a replay of h, a run of the stream.
LEMMA ReplayInStream ==
  ASSUME NEW t \in Seq(Int), Spaced(t), NEW n \in Nat,
         NEW h \in Seq(Int), EndsAt(h, t, n), h # <<>>,
         NEW f \in Filters, NEW a, CarriedFrom(f, a, t),
         h[1] <= f.stamp, f.stamp <= Last(h)
  PROVE  /\ AllLegsOk(Replay(h, f.stamp))
         /\ Integrated(f, Replay(h, f.stamp)) \in Filters
         /\ Integrated(f, Replay(h, f.stamp)).base = f.base
         /\ Integrated(f, Replay(h, f.stamp)).stamp = Last(h)
         /\ CarriedFrom(Integrated(f, Replay(h, f.stamp)), a, t)
<1> USE DEF CarriedFrom
<1> DEFINE L == Replay(h, f.stamp)
           g == Integrated(f, L)
<1>0. f.stamp \in Int /\ f.legs \in Seq(Legs) /\ Last(h) \in Int
  BY DEF Filters, Last
<1>1. Spaced(h)
  BY RunIsSpaced
<1>2. /\ L \in Seq(Legs) /\ AllLegsOk(L) /\ Path(L, f.stamp, Last(h))
      /\ \A i \in DOMAIN L : Adjacent(h, L[i])
  BY <1>0, <1>1, ReplayIsPath
<1>3. \A i \in DOMAIN L : Adjacent(t, L[i])
  <2> HIDE DEF L
  <2> QED BY <1>2, AdjacentInStream
<1> HIDE DEF L
<1>4. /\ g \in Filters /\ g.base = f.base /\ g.stamp = Last(h)
      /\ g.legs = f.legs \o L /\ Path(g.legs, a, Last(h))
  BY <1>0, <1>2, IntegratedIsPath
<1>5. \A i \in DOMAIN (f.legs \o L) : Adjacent(t, (f.legs \o L)[i])
  <2> DEFINE p == f.legs
  <2>1. p \in Seq(Legs) /\ \A i \in DOMAIN p : Adjacent(t, p[i])
    BY <1>0
  <2> HIDE DEF p
  <2> SUFFICES ASSUME NEW i \in DOMAIN (p \o L) PROVE Adjacent(t, (p \o L)[i])
    BY DEF p
  <2>2. Len(p) \in Nat /\ Len(L) \in Nat /\ i \in 1..(Len(p) + Len(L))
    BY <1>2, <2>1
  <2>3. CASE i \in 1..Len(p)
    BY <1>2, <2>1, <2>3
  <2>4. CASE i \notin 1..Len(p)
    <3>1. i - Len(p) \in 1..Len(L) /\ (p \o L)[i] = L[i - Len(p)]
      BY <1>2, <2>1, <2>2, <2>4
    <3> QED BY <1>2, <1>3, <3>1
  <2> QED BY <2>3, <2>4
<1> HIDE DEF g
<1> QED BY <1>2, <1>4, <1>5 DEF g, L

\* A posterior in the worker's hand is never refused as stale.
LEMMA NeverStale ==
  ASSUME ChainInv, update # NoUpdate
  PROVE  ~Stale(update)
<1>1. /\ update.seq \in 1..Len(given) /\ update = given[update.seq]
      /\ update.seq > sequence /\ predPending = NoUpdate
  BY DEF ChainInv, InHand, Faultless
<1>2. sequence \in Nat /\ sequence \in 0..Len(given) /\ given \in Seq(Updates)
  BY DEF ChainInv, Types, TypesOfPredictor, TypesOfMail, Restored
<1>3. ASSUME sequence > 0 PROVE ~(update.stamp <= anchor \/ update.accepted < accepted)
  <2>1. sequence \in 1..Len(given) /\ Len(given) \in Nat
    BY <1>2, <1>3
  <2>2. anchor = given[sequence].stamp /\ accepted = given[sequence].accepted
    BY <1>3 DEF ChainInv, Restored
  <2>3. given[sequence].stamp < update.stamp /\ given[sequence].accepted <= update.accepted
    BY <1>1, <2>1 DEF ChainInv, Numbered
  <2>4. given[sequence] \in Updates /\ update \in Updates
    BY <1>1, <1>2, <2>1
  <2> QED BY <2>2, <2>3, <2>4 DEF Updates
<1>4. update.seq \in Int /\ ~(update.seq <= sequence)
  BY <1>1, <1>2
<1> QED BY <1>1, <1>3, <1>4 DEF Stale

\* Advance on a history of the stream that has reached the posterior in hand.
LEMMA AdvanceOutcome ==
  ASSUME ChainInv, ~predFaulted, Advance(history', update),
         NEW n \in Nat, NEW h \in Seq(Int), h = history', EndsAt(h, stream, n),
         update # NoUpdate => h # <<>> /\ update.stamp <= Last(h),
         initialized => h # <<>> /\ filter.stamp <= Last(h)
  PROVE  /\ ~gapMiss' /\ predPending' = NoUpdate
         /\ \/ Missed
            \/ Idles
            \/ StandsOn(IF update = NoUpdate THEN sequence ELSE update.seq)
<1> DEFINE restore == Restorable(h, update)
           start == IF restore
                      THEN [base |-> update.seq, stamp |-> update.stamp, legs |-> <<>>]
                      ELSE filter
           live == restore \/ initialized
           miss == IF h = <<>> THEN FALSE ELSE live /\ start.stamp < h[1]
           replayed == IF live /\ h # <<>> /\ ~miss THEN Replay(h, start.stamp) ELSE <<>>
           lost == restore /\ miss
<1>0. /\ stream \in Seq(Int) /\ Spaced(stream) /\ ~gapMiss /\ filter \in Filters
      /\ given \in Seq(Updates) /\ sequence \in 0..Len(given)
      /\ update \in Updates \cup {NoUpdate}
  BY StreamIsInt DEF ChainInv, Faultless, Types, TypesOfPredictor, TypesOfMail, Restored
<1>1. /\ sequence' = IF restore /\ ~lost THEN update.seq ELSE sequence
      /\ anchor' = IF restore /\ ~lost THEN update.stamp ELSE anchor
      /\ accepted' = IF restore /\ ~lost THEN update.accepted ELSE accepted
      /\ IF miss \/ ~AllLegsOk(replayed)
           THEN PredictorFails /\ UNCHANGED filter
           ELSE /\ filter' = Integrated(start, replayed)
                /\ initialized' = live
                /\ predPending' = IF restore THEN NoUpdate ELSE update
                /\ UNCHANGED predFaulted
      /\ gapMiss' = (gapMiss \/ (~miss /\ ~AllLegsOk(replayed)))
  BY DEF Advance
<1>2. restore <=> update # NoUpdate
  BY DEF Restorable
<1>3. CASE miss
  <2>1. live /\ h # <<>> /\ start.stamp < h[1]
    BY <1>3
  <2>2. \E i \in DOMAIN given : given[i].stamp < h[1]
    <3>1. CASE restore
      <4>1. update.seq \in 1..Len(given) /\ update = given[update.seq]
        BY <1>2, <3>1 DEF ChainInv, InHand
      <4>2. start.stamp = update.stamp /\ update.seq \in DOMAIN given
        BY <1>0, <3>1, <4>1
      <4> QED BY <2>1, <4>1, <4>2
    <3>2. CASE ~restore
      <4>1. /\ initialized /\ filter.stamp < h[1]
        BY <2>1, <3>2
      <4>2. sequence > 0 /\ given[sequence].stamp <= filter.stamp
        BY <4>1 DEF ChainInv, Restored
      <4>3. sequence \in 1..Len(given) /\ sequence \in DOMAIN given
        BY <1>0, <4>2
      <4>4. given[sequence].stamp \in Int /\ filter.stamp \in Int /\ h[1] \in Int
        <5>1. given[sequence] \in Updates /\ h[1] \in Int
          BY <1>0, <2>1, <4>3
        <5> QED BY <1>0, <5>1 DEF Updates, Filters
      <4> QED BY <4>1, <4>2, <4>3, <4>4
    <3> QED BY <3>1, <3>2
  <2>3. UNCHANGED <<filter, sequence, anchor, accepted>> /\ PredictorFails
    BY <1>1, <1>3
  <2>4. Missed
    BY <2>2, <2>3 DEF Missed, PredictorFails
  <2>5. ~gapMiss' /\ predPending' = NoUpdate
    BY <1>0, <1>1, <1>3, <2>3 DEF PredictorFails
  <2> QED BY <2>4, <2>5
<1>4. CASE ~miss /\ ~live
  <2>1. replayed = <<>> /\ ~restore /\ ~initialized /\ start = filter
    BY <1>4
  <2>2. AllLegsOk(replayed)
    BY <2>1 DEF AllLegsOk
  <2>3. Integrated(filter, <<>>) = filter
    <3>1. filter.legs \o <<>> = filter.legs
      BY <1>0 DEF Filters
    <3>2. Integrated(filter, <<>>) = [filter EXCEPT !.legs = filter.legs, !.stamp = filter.stamp]
      BY <3>1 DEF Integrated
    <3> QED BY <1>0, <3>2 DEF Filters
  <2> HIDE DEF restore, start, live, miss, replayed, lost
  <2>4. /\ filter' = filter /\ initialized' = live /\ UNCHANGED predFaulted
        /\ sequence' = sequence /\ anchor' = anchor /\ accepted' = accepted
        /\ predPending' = NoUpdate /\ ~gapMiss'
    BY <1>0, <1>1, <1>2, <1>4, <2>1, <2>2, <2>3
  <2> QED BY <1>2, <1>4, <2>1, <2>4 DEF Idles
<1>5. CASE ~miss /\ live
  <2> DEFINE base == IF update = NoUpdate THEN sequence ELSE update.seq
  <2>1. h # <<>> /\ replayed = Replay(h, start.stamp) /\ h[1] \in Int
    BY <1>2, <1>5
  <2>2. /\ base \in 1..Len(given) /\ start \in Filters /\ start.base = base
        /\ start.stamp <= Last(h) /\ given[base].stamp <= start.stamp
        /\ Path(start.legs, given[base].stamp, start.stamp)
        /\ \A i \in DOMAIN start.legs : Adjacent(stream, start.legs[i])
        /\ sequence' = base /\ anchor' = given[base].stamp
        /\ accepted' = given[base].accepted
    <3>1. CASE restore
      <4>1. update.seq \in 1..Len(given) /\ update = given[update.seq] /\ base = update.seq
        BY <1>2, <3>1 DEF ChainInv, InHand
      <4>2. start = [base |-> update.seq, stamp |-> update.stamp, legs |-> <<>>]
        BY <3>1
      <4>3. update \in Updates /\ update.stamp <= Last(h)
        BY <1>0, <1>2, <3>1
      <4>4. /\ start \in Filters /\ start.base = base /\ start.stamp = update.stamp
            /\ start.legs = <<>>
        <5>1. update.seq \in Nat /\ update.stamp \in Int /\ <<>> \in Seq(Legs)
          BY <4>3 DEF Updates
        <5> HIDE DEF start
        <5> QED BY <4>1, <4>2, <5>1 DEF Filters
      <4>5. sequence' = update.seq /\ anchor' = update.stamp /\ accepted' = update.accepted
        BY <1>1, <1>5, <3>1
      <4>6. Path(start.legs, update.stamp, start.stamp)
        BY <4>4 DEF Path
      <4>7. update.stamp <= start.stamp
        BY <4>3, <4>4 DEF Updates
      <4> HIDE DEF start, base
      <4> QED BY <4>1, <4>3, <4>4, <4>5, <4>6, <4>7
    <3>2. CASE ~restore
      <4>1. initialized /\ start = filter /\ base = sequence
        BY <1>2, <1>5, <3>2
      <4>2. /\ sequence > 0 /\ filter.base = sequence
            /\ given[sequence].stamp <= filter.stamp
            /\ Path(filter.legs, given[sequence].stamp, filter.stamp)
            /\ \A i \in DOMAIN filter.legs : Adjacent(stream, filter.legs[i])
            /\ anchor = given[sequence].stamp /\ accepted = given[sequence].accepted
        BY <4>1 DEF ChainInv, Restored
      <4>3. sequence' = sequence /\ anchor' = anchor /\ accepted' = accepted
        BY <1>1, <3>2
      <4>4. sequence \in 1..Len(given)
        BY <1>0, <4>2
      <4> HIDE DEF start, base
      <4> QED BY <1>0, <4>1, <4>2, <4>3, <4>4
    <3> QED BY <3>1, <3>2
  <2>3. h[1] <= start.stamp
    BY <1>5, <2>1, <2>2 DEF Filters
  <2> HIDE DEF restore, start, live, miss, replayed, lost, base
  <2>4. /\ AllLegsOk(replayed)
        /\ Integrated(start, replayed) \in Filters /\ Integrated(start, replayed).base = base
        /\ Integrated(start, replayed).stamp = Last(h)
        /\ Path(Integrated(start, replayed).legs, given[base].stamp, Last(h))
        /\ \A i \in DOMAIN Integrated(start, replayed).legs :
             Adjacent(stream, Integrated(start, replayed).legs[i])
    <3> DEFINE g == Integrated(start, Replay(h, start.stamp))
               a == given[base].stamp
    <3>1. CarriedFrom(start, a, stream)
      BY <2>2 DEF CarriedFrom
    <3> HIDE DEF a
    <3>2. /\ AllLegsOk(Replay(h, start.stamp))
          /\ g \in Filters /\ g.base = start.base /\ g.stamp = Last(h)
          /\ CarriedFrom(g, a, stream)
      <4>1. /\ start \in Filters /\ start.base = base /\ start.stamp <= Last(h)
            /\ h # <<>> /\ h[1] <= start.stamp
        BY <2>1, <2>2, <2>3
      <4>2. /\ stream \in Seq(Int) /\ Spaced(stream) /\ n \in Nat
            /\ h \in Seq(Int) /\ EndsAt(h, stream, n)
        BY <1>0
      <4> QED BY <3>1, <4>1, <4>2, ReplayInStream
    <3> QED BY <2>1, <2>2, <3>2 DEF a, CarriedFrom
  <2>5. /\ filter' = Integrated(start, replayed) /\ initialized' = live
        /\ predPending' = NoUpdate /\ UNCHANGED predFaulted /\ ~gapMiss'
    BY <1>0, <1>1, <1>2, <1>5, <2>4
  <2>6. given[base].stamp <= Last(h)
    <3>1. given[base].stamp \in Int /\ start.stamp \in Int /\ Last(h) \in Int
      <4>1. given[base] \in Updates /\ Len(h) \in 1..Len(h)
        BY <1>0, <2>1, <2>2
      <4> QED BY <2>2, <4>1 DEF Filters, Updates, Last
    <3> QED BY <2>2, <3>1
  <2>7. StandsOn(base)
    BY <1>5, <2>1, <2>2, <2>4, <2>5, <2>6 DEF StandsOn
  <2> QED BY <2>5, <2>7 DEF base
<1> QED BY <1>3, <1>4, <1>5

LEMMA WorkOutcome ==
  ASSUME ChainInv, Work, NEW n \in Nat, Pipeline(n)
  PROVE  /\ history' \in Seq(Int) /\ EndsAt(history', stream, BatchEnd(n))
         /\ BatchEnd(n) > 0 => history' # <<>>
         /\ ~gapMiss' /\ ~staleState' /\ predPending' = NoUpdate
         /\ ~predFaulted
         /\ \/ Missed
            \/ Idles
            \/ StandsOn(IF update = NoUpdate THEN sequence ELSE update.seq)
<1>0. /\ stream \in Seq(Int) /\ Spaced(stream) /\ Rising(stream)
      /\ history \in Seq(Int) /\ batch \in Seq(Int) /\ predPending = NoUpdate
      /\ ~gapMiss /\ ~staleState /\ Len(stream) \in Nat
  BY StreamIsInt DEF ChainInv, Faultless, Types, TypesOfQueues, Spaced
<1>1. opc = "work" /\ ~predFaulted
  BY DEF Work, ChainInv, Control
<1>2. /\ EndsAt(history, stream, n) /\ EndsAt(batch, stream, n + Len(batch))
      /\ n > 0 => history # <<>>
      /\ BatchEnd(n) = n + Len(batch) /\ BatchEnd(n) \in Nat /\ BatchEnd(n) >= n
      /\ BatchEnd(n) > 0 => n > 0 \/ batch # <<>>
      /\ BatchEnd(n) <= Len(stream)
  BY <1>0, SMTT(30) DEF Pipeline, BatchEnd, EndsAt
<1> DEFINE h == AppendBatch(history, batch)
<1>3. /\ h \in Seq(Int) /\ EndsAt(h, stream, BatchEnd(n))
      /\ BatchEnd(n) > 0 => h # <<>>
  BY <1>0, <1>2, BatchEndsAt
<1>4. history' = h
  BY DEF Work
<1> HIDE DEF h
<1>5. Submitted = update /\ staleState' = (staleState \/ (update # NoUpdate /\ Stale(update)))
  BY <1>0, NeverStale DEF Submitted, Work
<1>6. Advance(history', update) /\ ~staleState'
  BY <1>0, <1>5, NeverStale DEF Work
<1>7. h # <<>> => Last(h) = stream[BatchEnd(n)]
  <2> SUFFICES ASSUME h # <<>> PROVE Last(h) = stream[BatchEnd(n)]
    OBVIOUS
  <2>1. Len(h) \in 1..Len(h) /\ BatchEnd(n) - Len(h) + Len(h) = BatchEnd(n)
    BY <1>2, <1>3
  <2> QED BY <1>3, <2>1 DEF EndsAt, Last
<1>8. update # NoUpdate => h # <<>> /\ update.stamp <= Last(h)
  BY <1>3, <1>7 DEF Pipeline
<1>9. initialized => h # <<>> /\ filter.stamp <= Last(h)
  <2> SUFFICES ASSUME initialized PROVE h # <<>> /\ filter.stamp <= Last(h)
    OBVIOUS
  <2>1. history # <<>> /\ filter.stamp = Last(history)
    BY DEF ChainInv, Restored
  <2>2. Len(history) \in 1..Len(history) /\ n - Len(history) + Len(history) = n /\ n >= 1
    BY <1>0, <1>2, <2>1 DEF EndsAt
  <2>3. filter.stamp = stream[n]
    BY <1>2, <2>1, <2>2 DEF EndsAt, Last
  <2>4. h # <<>>
    BY <1>2, <1>3, <2>2
  <2>5. n \in 1..Len(stream) /\ BatchEnd(n) \in 1..Len(stream)
    BY <1>0, <1>2, <2>2
  <2>6. stream[n] <= stream[BatchEnd(n)]
    <3>1. n < BatchEnd(n) => stream[n] < stream[BatchEnd(n)]
      BY <1>0, <2>5 DEF Rising
    <3>2. stream[n] \in Int /\ stream[BatchEnd(n)] \in Int
      BY <1>0, <2>5
    <3> QED BY <1>2, <3>1, <3>2
  <2> QED BY <1>7, <2>3, <2>4, <2>6
<1>10. /\ ~gapMiss' /\ predPending' = NoUpdate
       /\ \/ Missed
          \/ Idles
          \/ StandsOn(IF update = NoUpdate THEN sequence ELSE update.seq)
  BY <1>1, <1>2, <1>3, <1>4, <1>6, <1>8, <1>9, AdvanceOutcome
<1> QED BY <1>1, <1>3, <1>4, <1>6, <1>10

LEMMA WorkKeeps ==
  ASSUME ChainInv, Work, UNCHANGED <<stream, given>>
  PROVE  ChainInv'
<1> DEFINE base == IF update = NoUpdate THEN sequence ELSE update.seq
<1>0. Types /\ Spaced(stream) /\ Flows /\ Numbered /\ InHand /\ Newest
      /\ Control /\ Restored /\ Faultless /\ Emission
  BY DEF ChainInv
<1>1. PICK n \in Nat : Pipeline(n)
  BY <1>0 DEF Flows
<1>2. /\ history' \in Seq(Int) /\ EndsAt(history', stream, BatchEnd(n))
      /\ BatchEnd(n) > 0 => history' # <<>>
      /\ ~gapMiss' /\ ~staleState' /\ predPending' = NoUpdate
      /\ ~predFaulted
      /\ Missed \/ Idles \/ StandsOn(base)
  BY <1>1, WorkOutcome
<1> HIDE DEF base
<1>3. /\ opc = "work" /\ batch' = <<>> /\ update' = NoUpdate
      /\ opc' = IF predFaulted' THEN "fail" ELSE IF ToPublish THEN "publish" ELSE "wait"
      /\ UNCHANGED <<queueOutVars, outStopping, outFaulted, lastPublished, published>>
  BY DEF Work
<1>4. sequence \in 0..Len(given) /\ given \in Seq(Updates) /\ Len(given) \in Nat
  BY <1>0 DEF Restored, Types, TypesOfMail
<1>5. Types'
  <2>1. sequence' \in Nat /\ anchor' \in Nat /\ accepted' \in Nat /\ filter' \in Filters
    <3>1. CASE Missed \/ Idles
      BY <1>0, <3>1 DEF Missed, Idles, Types, TypesOfPredictor
    <3>2. CASE StandsOn(base)
      <4>1. base \in Nat /\ given[base] \in Updates
        BY <1>4, <3>2 DEF StandsOn
      <4> QED BY <3>2, <4>1 DEF StandsOn, Updates
    <3> QED BY <1>2, <3>1, <3>2
  <2> QED BY <1>0, <1>2, <1>3, <2>1 DEF Types, TypesOfQueues, TypesOfMail, TypesOfPredictor,
                                         TypesOfOutput, queueOutVars
<1>6. Flows'
  <2>1. /\ BatchEnd(n) \in Nat /\ BatchEnd(n) <= Len(stream)
        /\ QueueEnd(n) = BatchEnd(n) + Len(imuQueue)
    BY <1>0, <1>1 DEF BatchEnd, QueueEnd, Pipeline, EndsAt, Types, TypesOfQueues
  <2>2. EndsAt(<<>>, stream, BatchEnd(n)) /\ BatchEnd(n) + 0 = BatchEnd(n)
    BY <2>1 DEF EndsAt
  <2>20. PICK m \in Nat : m = BatchEnd(n)
    BY <2>1
  <2>3. /\ m + Len(batch') = m
        /\ m + Len(batch') + Len(imuQueue') = QueueEnd(n)
    BY <1>3, <2>20, <2>1, <2>2 DEF queueOutVars
  <2>4. Pipeline(m)'
    <3>1. UNCHANGED <<imuQueue, statePending, outStopping, outFaulted, stream>>
      BY <1>3 DEF queueOutVars
    <3>2. EndsAt(history', stream, m) /\ EndsAt(batch', stream, m) /\ (m > 0 => history' # <<>>)
      BY <1>2, <1>3, <2>20, <2>2
    <3> QED BY <1>1, <1>3, <2>3, <3>1, <3>2 DEF Pipeline, BatchEnd, QueueEnd, OutputOpen
  <2> QED BY <2>20, <2>4 DEF Flows
<1>7. Numbered' /\ Spaced(stream)'
  BY <1>0, <1>3 DEF Numbered
<1>8. base \in 0..Len(given) /\ base >= sequence
  BY <1>0, <1>4 DEF base, InHand
<1>9. sequence' \in {sequence, base} /\ sequence' \in 0..Len(given)
  BY <1>2, <1>4, <1>8 DEF Missed, Idles, StandsOn
<1>10. InHand'
  <2>1. statePending # NoUpdate => statePending.seq > base
    BY <1>0 DEF InHand, base
  <2> QED BY <1>0, <1>3, <1>9, <2>1 DEF InHand, queueOutVars
<1>11. Newest'
  <2>1. ~predFaulted' => sequence' = base
    BY <1>2 DEF Missed, Idles, StandsOn, base
  <2> QED BY <1>0, <1>2, <1>3, <2>1 DEF Newest, queueOutVars, OutputOpen, base
<1>12. Control'
  BY <1>3 DEF Control
<1>13. Restored'
  <2>1. CASE Missed \/ Idles
    BY <1>0, <1>3, <2>1 DEF Missed, Idles, Restored
  <2>2. CASE StandsOn(base)
    <3>2. sequence' > 0 /\ sequence' \in 0..Len(given)
      BY <1>4, <1>9, <2>2 DEF StandsOn
    <3> QED BY <2>2, <3>2 DEF StandsOn, Restored
  <2> QED BY <1>2, <2>1, <2>2
<1>14. Faultless'
  <2>1. predFaulted' => \E i \in DOMAIN given : given[i].stamp < history'[1]
    BY <1>2 DEF Missed, Idles, StandsOn
  <2> QED BY <1>2, <2>1 DEF Faultless
<1>15. Emission'
  <2>1. opc' = "publish" => ~predFaulted' /\ ToPublish
    BY <1>3
  <2>2. published # <<>> => Last(published).base <= sequence'
    <3> SUFFICES ASSUME published # <<>> PROVE Last(published).base <= sequence'
      OBVIOUS
    <3>1. Last(published).base <= sequence /\ sequence <= sequence'
      BY <1>0, <1>4, <1>8, <1>9 DEF Emission
    <3>2. Last(published).base \in Int
      <4> DEFINE Publications == [stamp : Int, base : Nat]
      <4>1. published \in Seq(Publications)
        BY <1>0 DEF Types, TypesOfOutput
      <4> HIDE DEF Publications
      <4>2. Last(published) \in Publications
        BY <4>1 DEF Last
      <4> QED BY <4>2 DEF Publications
    <3> QED BY <1>4, <1>9, <3>1, <3>2
  <2> QED BY <1>0, <1>3, <2>1, <2>2 DEF Emission, ToPublish
<1> QED BY <1>5, <1>6, <1>7, <1>10, <1>11, <1>12, <1>13, <1>14, <1>15 DEF ChainInv

LEMMA NextKeeps == ChainInv /\ [ChainNext]_chainVars => ChainInv'
<1> SUFFICES ASSUME ChainInv, [ChainNext]_chainVars PROVE ChainInv'
  OBVIOUS
<1>1. ASSUME NEW ts \in Times, Sample(ts) PROVE ChainInv'
  BY <1>1, SampleKeeps
<1>2. ASSUME NEW t \in Times, NEW acc \in Times, Posterior(t, acc) PROVE ChainInv'
  BY <1>2, PosteriorKeeps
<1>3. CASE ForeignFault \/ Shutdown
  BY <1>3, FlagsKeep
<1>4. CASE WorkerStep
  BY <1>4, WakeKeeps, WorkKeeps, PublishKeeps, WorkerFailsKeeps DEF WorkerStep, Worker
<1>5. CASE UNCHANGED chainVars
  <2>1. /\ UNCHANGED <<stream, given, outStopping, outFaulted, queueOutVars, predVars, workerVars>>
    BY <1>5 DEF chainVars, outVars
  <2>2. Types' /\ Spaced(stream)'
    BY <2>1 DEF ChainInv, Types, TypesOfQueues, TypesOfMail, TypesOfPredictor,
                TypesOfOutput, queueOutVars, predVars, workerVars
  <2>3. Flows'
    <3>1. PICK n \in Nat : Pipeline(n)
      BY DEF ChainInv, Flows
    <3>2. Pipeline(n)'
      BY <2>1, <3>1 DEF Pipeline, BatchEnd, QueueEnd, queueOutVars, predVars,
                        workerVars, OutputOpen
    <3> QED BY <3>2 DEF Flows
  <2>4. Numbered' /\ InHand' /\ Emission' /\ Faultless'
    BY <2>1 DEF ChainInv, Numbered, InHand, Emission, Faultless, queueOutVars,
                predVars, workerVars
  <2>5. Newest' /\ Control' /\ Restored'
    BY <2>1 DEF ChainInv, Newest, Control, Restored, queueOutVars, predVars,
                workerVars, OutputOpen
  <2> QED BY <2>2, <2>3, <2>4, <2>5 DEF ChainInv
<1> QED BY <1>1, <1>2, <1>3, <1>4, <1>5 DEF ChainNext

THEOREM ChainInvHolds == ChainSpec => []ChainInv
<1>1. ChainInit => ChainInv
  BY InitEstablishes
<1>2. ChainInv /\ [ChainNext]_chainVars => ChainInv'
  BY NextKeeps
<1> QED BY <1>1, <1>2, PTL DEF ChainSpec

-----------------------------------------------------------------------------
\* What is published rests on a posterior that was handed over, carried to the
\* message's time over every interval of the sample stream since, each between
\* neighbouring samples (Advance, Append's trimming, PropagateInterval).
THEOREM ReplayIsExactHolds == ChainSpec => []ReplayIsExact
<1>1. ChainInv => ReplayIsExact
  <2> SUFFICES ASSUME ChainInv, opc = "publish" PROVE ReplayIsExact
    BY DEF ReplayIsExact
  <2>1. initialized /\ Restored /\ given \in Seq(Updates) /\ sequence \in Nat
    BY DEF ChainInv, Emission, Types, TypesOfMail, TypesOfPredictor
  <2>2. filter.base = sequence /\ sequence \in DOMAIN given
    BY <2>1 DEF Restored
  <2> QED BY <2>1, <2>2 DEF Restored, ReplayIsExact
<1> QED BY <1>1, ChainInvHolds, PTL

\* The predictor meets no gap and refuses no posterior as stale; a posterior
\* older than the history it keeps is the only fault of its own.
THEOREM OnlyHistoryMissFaultsHolds == ChainSpec => []OnlyHistoryMissFaults
<1>1. ChainInv => OnlyHistoryMissFaults
  BY DEF ChainInv, Faultless, OnlyHistoryMissFaults
<1> QED BY <1>1, ChainInvHolds, PTL

\* No posterior waits inside the predictor for samples still to come.
THEOREM NoPosteriorWaitsHolds == ChainSpec => []NoPosteriorWaits
<1>1. ChainInv => NoPosteriorWaits
  BY DEF ChainInv, Faultless, NoPosteriorWaits
<1> QED BY <1>1, ChainInvHolds, PTL

\* The mailbox between the LIO worker and the output worker holds the newest
\* posterior or none (OnState).
THEOREM MailboxIsNewestHolds == ChainSpec => []MailboxIsNewest
<1>1. ChainInv => MailboxIsNewest
  <2> SUFFICES ASSUME ChainInv, statePending # NoUpdate PROVE MailboxIsNewest
    BY DEF MailboxIsNewest
  <2>1. InHand /\ Newest
    BY DEF ChainInv
  <2>2. statePending = Last(given) \/ ~OutputOpen
    BY <2>1 DEF InHand, Newest, Last
  <2> QED BY <2>1, <2>2 DEF InHand, MailboxIsNewest
<1> QED BY <1>1, ChainInvHolds, PTL

\* Whenever the worker waits with an empty mailbox, the predictor stands on the
\* last posterior handed over.
THEOREM NothingForgottenHolds == ChainSpec => []NothingForgotten
<1>1. ChainInv => NothingForgotten
  BY DEF ChainInv, Newest, Control, OutputOpen, NothingForgotten
<1> QED BY <1>1, ChainInvHolds, PTL

-----------------------------------------------------------------------------
(* The refinement.                                                         *)
Posteriors == [i \in DOMAIN given |->
                 [stamp |-> given[i].stamp, accepted |-> given[i].accepted]]

Phase == IF ~outFaulted THEN "live"
         ELSE IF opc = "publish" THEN "closing" ELSE "closed"

LEMMA InitMaps == ChainInit => Abstract!OdometryInit
  BY DEF ChainInit, OutputInit, Abstract!OdometryInit

\* A step that hands nothing over and publishes nothing leaves the abstract
\* state alone or closes it.
LEMMA QuietSteps ==
  ASSUME UNCHANGED <<given, published>>, outFaulted => outFaulted',
         outFaulted => (opc = "publish" <=> opc' = "publish")
  PROVE  Abstract!Close \/ UNCHANGED Abstract!odomVars
<1>1. UNCHANGED Posteriors /\ published' = published
  BY DEF Posteriors
<1>2. CASE outFaulted \/ ~outFaulted'
  <2>1. UNCHANGED Phase
    BY <1>2 DEF Phase
  <2> QED BY <1>1, <2>1 DEF Abstract!odomVars, Posteriors, Phase
<1>3. CASE ~outFaulted /\ outFaulted'
  <2>1. Phase = "live" /\ Phase' \in {"closing", "closed"}
    BY <1>3 DEF Phase
  <2> QED BY <1>1, <2>1 DEF Abstract!Close, Posteriors, Phase
<1> QED BY <1>2, <1>3

LEMMA PosteriorMaps ==
  ASSUME ChainInv, NEW t \in Times, NEW acc \in Times, Posterior(t, acc)
  PROVE  Abstract!Correct(t, acc)
<1> DEFINE u == [seq |-> Len(given) + 1, stamp |-> t, accepted |-> acc]
           v == [stamp |-> t, accepted |-> acc]
<1>1. /\ acc <= t
      /\ given # <<>> => t > Last(given).stamp /\ acc >= Last(given).accepted
      /\ given' = Append(given, u)
      /\ UNCHANGED <<outFaulted, workerVars>>
  BY DEF Posterior, OnState
<1>2. given \in Seq(Updates) /\ Len(given) \in Nat /\ DOMAIN given = 1..Len(given)
  BY DEF ChainInv, Types, TypesOfMail
<1>3. u \in Updates /\ u.stamp = t /\ u.accepted = acc
  BY <1>2, Asms DEF Updates
<1> HIDE DEF u
<1>4. /\ DOMAIN given' = 1..(Len(given) + 1) /\ given'[Len(given) + 1] = u
      /\ \A i \in 1..Len(given) : given'[i] = given[i]
  BY <1>1, <1>2, <1>3
<1>5. /\ Posteriors \in Seq([stamp : Nat, accepted : Nat]) /\ Len(Posteriors) = Len(given)
      /\ \A i \in 1..Len(given) : Posteriors[i] = [stamp |-> given[i].stamp,
                                                  accepted |-> given[i].accepted]
  <2> DEFINE R == [stamp : Nat, accepted : Nat]
  <2>1. \A i \in 1..Len(given) :
          [stamp |-> given[i].stamp, accepted |-> given[i].accepted] \in R
    <3>1. \A i \in 1..Len(given) : given[i] \in Updates
      BY <1>2
    <3> QED BY <3>1 DEF Updates
  <2>2. Posteriors \in [1..Len(given) -> R]
    BY <1>2, <2>1 DEF Posteriors
  <2> HIDE DEF R
  <2>3. Posteriors \in Seq(R) /\ Len(Posteriors) = Len(given)
    BY <1>2, <2>2
  <2> QED BY <1>2, <2>3 DEF Posteriors, R
<1>6. v \in [stamp : Nat, accepted : Nat]
  BY Asms
<1>7. Posteriors' = Append(Posteriors, v)
  <2>1. Posteriors' = [i \in 1..(Len(given) + 1) |->
                        [stamp |-> given'[i].stamp, accepted |-> given'[i].accepted]]
    BY <1>4 DEF Posteriors
  <2>2. Append(Posteriors, v) = [i \in 1..(Len(given) + 1) |->
                                  IF i = Len(given) + 1 THEN v ELSE Posteriors[i]]
    BY <1>2, <1>5, <1>6
  <2>3. ASSUME NEW i \in 1..(Len(given) + 1)
        PROVE  [stamp |-> given'[i].stamp, accepted |-> given'[i].accepted]
                 = IF i = Len(given) + 1 THEN v ELSE Posteriors[i]
    <3>1. CASE i = Len(given) + 1
      BY <1>3, <1>4, <3>1
    <3>2. CASE i # Len(given) + 1
      <4>1. i \in 1..Len(given)
        BY <1>2, <3>2
      <4> QED BY <1>4, <1>5, <3>2, <4>1
    <3> QED BY <3>1, <3>2
  <2> HIDE DEF v
  <2> QED BY <2>1, <2>2, <2>3
<1>8. Posteriors # <<>> => /\ t > Posteriors[Len(Posteriors)].stamp
                          /\ acc >= Posteriors[Len(Posteriors)].accepted
  <2> SUFFICES ASSUME Posteriors # <<>>
               PROVE  /\ t > Posteriors[Len(Posteriors)].stamp
                      /\ acc >= Posteriors[Len(Posteriors)].accepted
    OBVIOUS
  <2>1. Len(given) \in 1..Len(given) /\ given # <<>>
    BY <1>2, <1>5
  <2>2. Posteriors[Len(Posteriors)] = [stamp |-> given[Len(given)].stamp,
                                       accepted |-> given[Len(given)].accepted]
    BY <1>5, <2>1
  <2> QED BY <1>1, <2>1, <2>2 DEF Last
<1>9. UNCHANGED <<published, Phase>>
  BY <1>1 DEF workerVars, Phase
<1> QED BY <1>1, <1>7, <1>8, <1>9 DEF Abstract!Correct, Posteriors, Phase

LEMMA PublishMaps ==
  ASSUME ChainInv, Publish, UNCHANGED <<stream, given>>
  PROVE  /\ filter.stamp \in Times /\ filter.base \in DOMAIN Posteriors
         /\ Abstract!Emit(filter.stamp, filter.base)
<1> DEFINE b == filter.base
           s == filter.stamp
<1>1. /\ opc = "publish" /\ opc' = "wait"
      /\ published' = Append(published, [stamp |-> s, base |-> b])
      /\ UNCHANGED outFaulted
  BY DEF Publish, Message
<1>2. /\ initialized /\ s - accepted <= PredictionLimit /\ s > lastPublished
      /\ published # <<>> => /\ Last(published).stamp = lastPublished
                             /\ Last(published).base <= sequence
  BY <1>1 DEF ChainInv, Emission
<1>3. /\ sequence > 0 /\ b = sequence /\ sequence \in 0..Len(given)
      /\ accepted = given[sequence].accepted
      /\ history # <<>> /\ s = Last(history) /\ given[sequence].stamp <= s
  BY <1>2 DEF ChainInv, Restored
<1>4. given \in Seq(Updates) /\ DOMAIN given = 1..Len(given) /\ Len(given) \in Nat
  BY DEF ChainInv, Types, TypesOfMail
<1>5. b \in DOMAIN given /\ DOMAIN Posteriors = DOMAIN given
  BY <1>3, <1>4 DEF Posteriors
<1>6. Posteriors[b].stamp = given[b].stamp /\ Posteriors[b].accepted = given[b].accepted
  BY <1>5 DEF Posteriors
<1>7. s \in Times
  <2>1. PICK n \in Nat : Pipeline(n)
    BY DEF ChainInv, Flows
  <2>2. /\ Len(history) \in 1..Len(history) /\ Len(history) \in Nat \ {0}
        /\ Len(stream) \in Nat
    BY <1>3 DEF ChainInv, Types, TypesOfQueues
  <2>3. EndsAt(history, stream, n)
    BY <2>1 DEF Pipeline
  <2>4. n - Len(history) + Len(history) = n /\ n \in 1..Len(stream)
    BY <2>1, <2>2, <2>3 DEF EndsAt
  <2>5. Last(history) = stream[n]
    BY <2>2, <2>3, <2>4 DEF EndsAt, Last
  <2> QED BY <1>3, <2>4, <2>5, StreamIsInt DEF ChainInv
<1>8. published # <<>> => /\ s > published[Len(published)].stamp
                         /\ b >= published[Len(published)].base
  BY <1>2, <1>3 DEF Last
<1>9. s >= Posteriors[b].stamp /\ s - Posteriors[b].accepted <= PredictionLimit
  BY <1>2, <1>3, <1>6
<1>10. Phase # "closed" /\ Phase' = IF Phase = "closing" THEN "closed" ELSE Phase
  BY <1>1 DEF Phase
<1>11. UNCHANGED Posteriors
  BY DEF Posteriors
<1> QED BY <1>1, <1>5, <1>7, <1>8, <1>9, <1>10, <1>11
    DEF Abstract!Emit, Posteriors, Phase

LEMMA StepMaps ==
  ChainInv /\ [ChainNext]_chainVars => [Abstract!OdometryNext]_(Abstract!odomVars)
<1> SUFFICES ASSUME ChainInv, [ChainNext]_chainVars
             PROVE  Abstract!OdometryNext \/ UNCHANGED Abstract!odomVars
  OBVIOUS
<1>1. Abstract!Close => Abstract!OdometryNext
  BY DEF Abstract!OdometryNext
<1>2. ASSUME NEW ts \in Times, Sample(ts) PROVE Abstract!Close \/ UNCHANGED Abstract!odomVars
  BY <1>2, QuietSteps DEF Sample, OnImu, workerVars
<1>3. ASSUME NEW t \in Times, NEW acc \in Times, Posterior(t, acc)
      PROVE  Abstract!OdometryNext
  BY <1>3, PosteriorMaps DEF Abstract!OdometryNext
<1>4. CASE ForeignFault \/ Shutdown
  <2>1. /\ UNCHANGED <<given, published, opc>> /\ (outFaulted => outFaulted')
    BY <1>4 DEF ForeignFault, Shutdown, SetFaulted, StopOutput, workerVars
  <2> QED BY <1>1, <2>1, QuietSteps
<1>5. CASE WorkerStep
  <2>0. UNCHANGED <<stream, given>>
    BY <1>5 DEF WorkerStep
  <2>1. CASE Wake
    <3>1. /\ UNCHANGED <<published, outFaulted>>
          /\ opc = "wait" /\ opc' \in {"work", "done"}
      BY <2>1 DEF Wake
    <3> QED BY <1>1, <2>0, <3>1, QuietSteps
  <2>2. CASE Work
    <3>1. /\ UNCHANGED <<published, outFaulted>> /\ opc = "work"
          /\ opc' = "publish" => ~outFaulted
      BY <2>2 DEF Work, ToPublish
    <3> QED BY <1>1, <2>0, <3>1, QuietSteps
  <2>3. CASE WorkerFails
    <3>1. /\ UNCHANGED published /\ opc = "fail" /\ opc' = "wait" /\ outFaulted'
      BY <2>3 DEF WorkerFails
    <3> QED BY <1>1, <2>0, <3>1, QuietSteps
  <2>4. CASE Publish
    BY <2>0, <2>4, PublishMaps DEF Abstract!OdometryNext, Posteriors
  <2> QED BY <1>1, <1>5, <2>1, <2>2, <2>3, <2>4 DEF WorkerStep, Worker
<1>6. CASE UNCHANGED chainVars
  BY <1>6 DEF chainVars, outVars, workerVars, Abstract!odomVars
<1> QED BY <1>1, <1>2, <1>3, <1>4, <1>5, <1>6 DEF ChainNext

\* Whatever callbacks and worker do, the messages on /odom move forward in time,
\* never fall back to an older posterior, and stay within the horizon; after a
\* fault at most the message in flight goes out.
THEOREM ChainImplementsOdometry == ChainSpec => ImplementsOdometry
<1>1. ChainInit => Abstract!OdometryInit
  BY InitMaps
<1>2. ChainInv /\ [ChainNext]_chainVars => [Abstract!OdometryNext]_(Abstract!odomVars)
  BY StepMaps
<1> QED BY <1>1, <1>2, ChainInvHolds, PTL
    DEF ChainSpec, ImplementsOdometry, Abstract!OdometrySpec

-----------------------------------------------------------------------------
(***************************************************************************)
(* The node.                                                               *)
(***************************************************************************)

\* The samples of both chains.  While nothing stops the LIO chain it has what
\* OnImu was given, but for the sample in flight between the two calls; later
\* it may only lag behind.
SampleInFlight ==
  IF inFlight = NoSample THEN stream = imuSeen
  ELSE /\ stream = Append(imuSeen, inFlight)
       /\ imuSeen # <<>> => inFlight - Last(imuSeen) \in 1..Gap

HandedOver ==
  /\ inFlight \in Times \cup {NoSample} /\ imuSeen \in Seq(Times)
  /\ ~lioStopping /\ "pushImu" \notin stopOwed => SampleInFlight
  /\ imuSeen # <<>> => stream # <<>> /\ Last(imuSeen) <= Last(stream)
  /\ lastImu = IF imuSeen = <<>> THEN -1 ELSE Last(imuSeen)

\* The filter stands at sensor times: those of samples and scans' ends.
ScansTimed ==
  /\ \A i \in 1..Len(lidarBuf) : lidarBuf[i].end \in Times
  /\ group # NoGroup => group.end \in Times

FilterTimed == ~needInit => eskfTime \in Times /\ lastAccepted \in Times

\* The posteriors of both chains: those handed over, and the one in hand.
GivenInTurn ==
  /\ Len(given) = IF lpc = "send" THEN stateSequence - 1 ELSE stateSequence
  /\ needInit => given = <<>> /\ lpc \in {"wait", "frame", "done"}
  /\ ~needInit => lastAccepted <= eskfTime
  /\ given # <<>> =>
       /\ Last(given).stamp <= eskfTime /\ Last(given).accepted <= lastAccepted
       /\ lpc = "send" => Last(given).stamp < eskfTime

\* Fail sets the output's flag before it asks the LIO chain to stop.
Latched ==
  /\ outFaulted \in BOOLEAN
  /\ stopOwed # {} => outFaulted
  /\ lioStopping => outFaulted \/ mpc # "spin"

\* main stops the output after the LIO worker has left, and leaves after it.
Joined ==
  /\ mpc \in {"spin", "joinLio", "joinOutput", "exited"}
  /\ outStopping => mpc \in {"joinOutput", "exited"}
  /\ mpc \in {"joinOutput", "exited"} => lpc = "done"
  /\ mpc = "exited" => opc = "done"

NodeInv ==
  /\ LioInv /\ ChainInv /\ HandedOver /\ ScansTimed /\ FilterTimed
  /\ GivenInTurn /\ Latched /\ Joined

LEMMA TimesAreNat ==
  /\ Times \subseteq Nat /\ NoSample \notin Times /\ NoSample \in Int
  /\ \A t \in Times : t \in Int
  /\ \A s \in Scans : s.begin \in Int /\ s.end \in Times /\ s.end \in Int
<1>1. Times \subseteq Nat
  BY ChainAssumption
<1>2. \A s \in Scans : s.begin \in Int /\ s.end \in Times
  BY NodeAssumption
<1>3. \A t \in Times : t \in Int
  BY <1>1
<1>4. NoSample \notin Times /\ NoSample \in Int
  BY <1>1 DEF NoSample
<1> QED BY <1>1, <1>2, <1>3, <1>4, Zenon

LEMMA NodeStarts ==
  ASSUME NodeInit
  PROVE  NodeInv
<1>1. LioInv /\ ChainInv
  BY LioStarts, InitEstablishes DEF NodeInit
<1> USE DEF NodeInit, LioInit, ChainInit, BuffersInit, FrameInit, OutputInit
<1>2. HandedOver
  BY DEF HandedOver, SampleInFlight
<1>3. ScansTimed /\ FilterTimed
  BY DEF ScansTimed, FilterTimed
<1>4. GivenInTurn
  BY DEF GivenInTurn
<1>5. Latched /\ Joined
  BY DEF Latched, Joined
<1> QED BY <1>1, <1>2, <1>3, <1>4, <1>5 DEF NodeInv

-----------------------------------------------------------------------------
(* The steps of the node are steps of its chains.                          *)

\* What the node's variables are made of.
LEMMA ChainsStay ==
  /\ UNCHANGED chainVars => UNCHANGED <<outVars, stream, given>>
  /\ UNCHANGED nodeVars => UNCHANGED <<lioVars, chainVars, inFlight, stopOwed, mpc>>
  BY DEF chainVars, nodeVars

LEMMA FaultStep ==
  ASSUME SetFaulted, UNCHANGED <<stream, given>>, outFaulted \in BOOLEAN
  PROVE  [ChainNext]_chainVars
<1>1. CASE ~outFaulted
  BY <1>1 DEF ChainNext, ForeignFault
<1>2. CASE outFaulted
  BY <1>2 DEF SetFaulted, chainVars, outVars
<1> QED BY <1>1, <1>2

\* The posterior handed over is one the contract of the output chain admits.
LEMMA HandOverInContract ==
  ASSUME NodeInv, HandOver
  PROVE  \E t, acc \in Times : Posterior(t, acc)
<1> DEFINE u == [seq |-> Len(given) + 1, stamp |-> eskfTime, accepted |-> lastAccepted]
<1>1. /\ lpc = "send" /\ OnState(StateUpdate)
      /\ given' = Append(given, StateUpdate) /\ UNCHANGED stream
  BY DEF HandOver, SendState, AfterSend
<1>2. ~needInit /\ eskfTime \in Times /\ lastAccepted \in Times /\ lastAccepted <= eskfTime
  BY <1>1 DEF NodeInv, GivenInTurn, FilterTimed
<1>3. Len(given) + 1 = stateSequence
  BY <1>1 DEF NodeInv, GivenInTurn, LioInv, LioTypes
<1>4. StateUpdate = u
  BY <1>3 DEF StateUpdate
<1>5. stream # <<>> /\ eskfTime <= Last(stream)
  <2>1. PICK r \in 1..Len(imuSeen) : RawAt(r)
    BY <1>2 DEF NodeInv, LioInv, Placed
  <2>2. imuSeen \in Seq(Times) /\ imuSeen # <<>> /\ eskfTime <= Last(imuSeen)
    BY <2>1 DEF NodeInv, HandedOver, RawAt
  <2>3. stream # <<>> /\ Last(imuSeen) <= Last(stream)
    BY <2>2 DEF NodeInv, HandedOver
  <2>4. stream \in Seq(Times)
    BY DEF NodeInv, ChainInv, Types, TypesOfQueues
  <2>5. Last(imuSeen) \in Times /\ Last(stream) \in Times
    BY <2>2, <2>3, <2>4 DEF Last
  <2>6. eskfTime \in Int /\ Last(imuSeen) \in Int /\ Last(stream) \in Int
    BY <1>2, <2>5, TimesAreNat
  <2> QED BY <2>2, <2>3, <2>6
<1>6. given # <<>> => eskfTime > Last(given).stamp /\ lastAccepted >= Last(given).accepted
  <2> SUFFICES ASSUME given # <<>>
               PROVE  eskfTime > Last(given).stamp /\ lastAccepted >= Last(given).accepted
    OBVIOUS
  <2>1. given \in Seq(Updates)
    BY DEF NodeInv, ChainInv, Types, TypesOfMail
  <2>2. Last(given) \in Updates
    BY <2>1 DEF Last
  <2>3. Last(given).stamp \in Int /\ Last(given).accepted \in Int
    BY <2>2 DEF Updates
  <2> QED BY <1>1, <1>2, <2>3, TimesAreNat DEF NodeInv, GivenInTurn
<1>7. Posterior(eskfTime, lastAccepted)
  BY <1>1, <1>2, <1>4, <1>5, <1>6 DEF Posterior
<1> QED BY <1>2, <1>7

\* The sample pushed is the next one of the stream.
LEMMA PushedInStream ==
  ASSUME NodeInv, inFlight # NoSample, BufFree, LioImu(inFlight)
  PROVE  /\ [LioStep]_lioVars
         /\ PushImu(inFlight) => SampleInFlight /\ ~lioStopping
<1>1. inFlight \in Int
  BY TimesAreNat DEF NodeInv, HandedOver
<1>2. PushImu(inFlight) => SampleInFlight /\ ~lioStopping
  BY DEF PushImu, ImuAdmissible, NodeInv, HandedOver, BufFree
<1>3. CASE PushImu(inFlight)
  <2>1. imuSeen # <<>> => inFlight - Last(imuSeen) \in 1..Gap
    BY <1>2, <1>3 DEF SampleInFlight
  <2> QED BY <1>1, <1>2, <2>1 DEF LioStep, GatedPush
<1>4. CASE ~PushImu(inFlight)
  BY <1>2, <1>4 DEF LioImu, lioVars
<1> QED BY <1>2, <1>3, <1>4

LEMMA NodeIsSteps ==
  ASSUME NodeInv, [NodeNext]_nodeVars
  PROVE  [LioStep]_lioVars /\ [ChainNext]_chainVars
<1>0. outFaulted \in BOOLEAN
  BY DEF NodeInv, Latched
<1>1. ASSUME NEW ts \in Times, GateForwards(ts)
      PROVE  [LioStep]_lioVars /\ [ChainNext]_chainVars
  BY <1>1 DEF GateForwards, ChainNext
<1>2. CASE GateFaults
  BY <1>0, <1>2, FaultStep DEF GateFaults, FailFrom
<1>3. CASE PushForwarded
  <2>1. CASE FailFrom("pushImu") /\ UNCHANGED lioVars
    BY <1>0, <2>1, FaultStep DEF FailFrom
  <2>2. CASE LioImu(inFlight) /\ UNCHANGED chainVars
    BY <1>3, <2>2, PushedInStream DEF PushForwarded
  <2> QED BY <1>3, <2>1, <2>2 DEF PushForwarded
<1>4. ASSUME NEW s \in Scans, PushLidar(s)
      PROVE  [LioStep]_lioVars /\ [ChainNext]_chainVars
  <2>1. CASE FailFrom("pushScan") /\ UNCHANGED lioVars
    BY <1>0, <2>1, FaultStep DEF FailFrom
  <2>2. CASE LioScan(s) /\ UNCHANGED chainVars
    <3>1. s.begin \in Int /\ s.end \in Int
      BY TimesAreNat
    <3> QED BY <2>2, <3>1 DEF LioStep
  <2> QED BY <1>4, <2>1, <2>2 DEF PushLidar
<1>5. CASE WorkerAlone
  BY <1>5 DEF WorkerAlone, LioStep
<1>6. CASE HandOver
  BY <1>6, HandOverInContract DEF HandOver, LioStep, ChainNext
<1>7. CASE WorkerFaults
  BY <1>0, <1>7, FaultStep DEF WorkerFaults, FailFrom, LioStep
<1>8. CASE OutputWorker
  BY <1>8 DEF OutputWorker, ChainNext, WorkerStep, Worker
<1>9. CASE FinishFail \/ MainStopsLio
  BY <1>9 DEF FinishFail, MainStopsLio, LioStep
<1>10. CASE MainStopsOutput
  <2>1. ~outStopping
    BY <1>10 DEF MainStopsOutput, NodeInv, Joined
  <2> QED BY <1>10, <2>1 DEF MainStopsOutput, ChainNext, Shutdown
<1>11. CASE MainExits \/ UNCHANGED nodeVars
  BY <1>11 DEF MainExits, nodeVars
<1> QED BY <1>1, <1>2, <1>3, <1>4, <1>5, <1>6, <1>7, <1>8, <1>9, <1>10, <1>11
        DEF NodeNext, LioWorker

-----------------------------------------------------------------------------
(* The samples.                                                            *)

\* What the LIO worker does leaves the callbacks' data alone.
LEMMA WorkerIsQuiet ==
  ASSUME WorkerAlone \/ SendState \/ FrameFails \/ FrameThrows
  PROVE  UNCHANGED <<imuSeen, lastImu, lioStopping>>
<1> USE DEF bufVars, historyVars, queueVars
<1>1. CASE TakeGroup
  BY <1>1 DEF TakeGroup, GetMeasurements
<1>2. CASE ProcessGroup \/ StopSeen \/ MaintainMap \/ SendState \/ FrameFails \/ FrameThrows
  BY <1>2 DEF ProcessGroup, StopSeen, MaintainMap, SendState, FrameFails, FrameThrows
<1> QED BY <1>1, <1>2 DEF WorkerAlone

LEMMA SamplesStay ==
  ASSUME HandedOver, UNCHANGED <<stream, imuSeen, inFlight, lastImu>>,
         lioStopping => lioStopping',
         lioStopping' \/ "pushImu" \in stopOwed' \/ "pushImu" \notin stopOwed
  PROVE  HandedOver'
<1>1. SampleInFlight => SampleInFlight'
  BY DEF SampleInFlight
<1>2. ~lioStopping' /\ "pushImu" \notin stopOwed' => SampleInFlight'
  BY <1>1 DEF HandedOver
<1> QED BY <1>2 DEF HandedOver

\* OnImu takes the sample first.
LEMMA ForwardKeepsSamples ==
  ASSUME NodeInv, NEW ts \in Times, GateForwards(ts)
  PROVE  HandedOver'
<1>1. /\ inFlight = NoSample /\ "pushImu" \notin stopOwed
      /\ stream # <<>> => ts - Last(stream) \in 1..Gap
      /\ stream' = Append(stream, ts) /\ inFlight' = ts
      /\ UNCHANGED <<imuSeen, lastImu, lioStopping>>
  BY DEF GateForwards, ImuCallbackIdle, Sample, lioVars, bufVars, historyVars, queueVars
<1>2. ts \in Int /\ ts # NoSample
  BY TimesAreNat
<1>3. ~lioStopping => SampleInFlight'
  <2> SUFFICES ASSUME ~lioStopping PROVE SampleInFlight'
    OBVIOUS
  <2>1. stream = imuSeen
    BY <1>1 DEF NodeInv, HandedOver, SampleInFlight
  <2> QED BY <1>1, <1>2, <2>1 DEF SampleInFlight
<1>4. stream \in Seq(Times)
  BY DEF NodeInv, ChainInv, Types, TypesOfQueues
<1>5. stream' # <<>> /\ Last(stream') = ts
  BY <1>1, <1>4 DEF Last
<1>6. imuSeen # <<>> => Last(imuSeen) <= ts
  <2> SUFFICES ASSUME imuSeen # <<>> PROVE Last(imuSeen) <= ts
    OBVIOUS
  <2>1. stream # <<>> /\ Last(imuSeen) <= Last(stream) /\ imuSeen \in Seq(Times)
    BY DEF NodeInv, HandedOver
  <2>2. Last(stream) \in Times /\ Last(imuSeen) \in Times
    BY <1>4, <2>1 DEF Last
  <2>3. Last(stream) \in Int /\ Last(imuSeen) \in Int /\ Gap \in Nat
    BY <2>2, TimesAreNat, Asms
  <2> QED BY <1>1, <1>2, <2>1, <2>3
<1> QED BY <1>1, <1>3, <1>5, <1>6 DEF HandedOver, NodeInv

\* pushData of the same sample follows.
LEMMA PushKeepsSamples ==
  ASSUME NodeInv, PushForwarded
  PROVE  HandedOver'
<1>1. inFlight # NoSample /\ BufFree /\ inFlight' = NoSample
  BY DEF PushForwarded
<1>2. inFlight \in Times
  BY <1>1 DEF NodeInv, HandedOver
<1>3. CASE FailFrom("pushImu") /\ UNCHANGED lioVars
  <2>1. "pushImu" \in stopOwed' /\ UNCHANGED <<stream, imuSeen, lastImu>>
    BY <1>3 DEF FailFrom, lioVars, bufVars, historyVars, queueVars
  <2> QED BY <1>1, <2>1 DEF NodeInv, HandedOver
<1>4. CASE LioImu(inFlight) /\ UNCHANGED <<chainVars, stopOwed>>
  <2>0. UNCHANGED stream
    BY <1>4, ChainsStay
  <2>1. CASE PushImu(inFlight)
    <3>1. SampleInFlight
      BY <1>1, <1>4, <2>1, PushedInStream
    <3>2. /\ imuSeen' = Append(imuSeen, inFlight) /\ lastImu' = inFlight
      BY <2>1 DEF PushImu
    <3>3. imuSeen' = stream /\ stream' = stream
      BY <1>1, <2>0, <3>1, <3>2 DEF SampleInFlight
    <3>4. imuSeen \in Seq(Times)
      BY DEF NodeInv, HandedOver
    <3>5. imuSeen' \in Seq(Times) /\ imuSeen' # <<>> /\ Last(imuSeen') = inFlight
      BY <1>2, <3>2, <3>4 DEF Last
    <3>6. SampleInFlight'
      BY <1>1, <3>3 DEF SampleInFlight
    <3>7. Last(imuSeen') <= Last(stream')
      <4>1. inFlight \in Int
        BY <1>2, TimesAreNat
      <4> QED BY <3>3, <3>5, <4>1
    <3> QED BY <1>1, <3>2, <3>3, <3>5, <3>6, <3>7 DEF HandedOver
  <2>2. CASE ~ImuAdmissible(inFlight) /\ UNCHANGED bufVars
    <3>1. UNCHANGED <<imuSeen, lastImu, lioStopping>>
      BY <2>2 DEF bufVars, historyVars, queueVars
    <3>2. lioStopping
      <4> SUFFICES ASSUME ~lioStopping PROVE FALSE
        OBVIOUS
      <4>1. SampleInFlight /\ imuSeen \in Seq(Times)
        BY <1>1 DEF NodeInv, HandedOver, BufFree
      <4>2. lastImu = IF imuSeen = <<>> THEN -1 ELSE Last(imuSeen)
        BY DEF NodeInv, HandedOver
      <4>3. inFlight \in Nat /\ Gap \in Nat
        BY <1>2, TimesAreNat, Asms
      <4>4. CASE imuSeen = <<>>
        BY <2>2, <4>2, <4>3, <4>4 DEF ImuAdmissible
      <4>5. CASE imuSeen # <<>>
        <5>1. Last(imuSeen) \in Times
          BY <4>1, <4>5 DEF Last
        <5>2. Last(imuSeen) \in Int
          BY <5>1, TimesAreNat
        <5>3. inFlight - Last(imuSeen) \in 1..Gap
          BY <1>1, <4>1, <4>5 DEF SampleInFlight
        <5> QED BY <2>2, <4>2, <4>3, <4>5, <5>2, <5>3 DEF ImuAdmissible
      <4> QED BY <4>4, <4>5
    <3> QED BY <1>1, <2>0, <3>1, <3>2 DEF NodeInv, HandedOver
  <2> QED BY <1>4, <2>1, <2>2 DEF LioImu
<1> QED BY <1>3, <1>4 DEF PushForwarded

LEMMA SamplesKept ==
  ASSUME NodeInv, [NodeNext]_nodeVars
  PROVE  HandedOver'
<1> USE DEF lioVars, bufVars, historyVars, queueVars
<1>0. HandedOver
  BY DEF NodeInv
<1>1. CASE GateFaults
  BY <1>0, <1>1, SamplesStay DEF GateFaults, FailFrom
<1>2. ASSUME NEW s \in Scans, PushLidar(s) PROVE HandedOver'
  <2>1. UNCHANGED <<imuSeen, lastImu, lioStopping, inFlight>>
    BY <1>2 DEF PushLidar, LioScan, PushScan
  <2>2. UNCHANGED stream /\ stopOwed \subseteq stopOwed'
    BY <1>2, ChainsStay DEF PushLidar, FailFrom
  <2> QED BY <1>0, <2>1, <2>2, SamplesStay
<1>3. CASE LioWorker
  <2>1. UNCHANGED <<imuSeen, lastImu, lioStopping, inFlight>>
    BY <1>3, WorkerIsQuiet DEF LioWorker, HandOver, WorkerFaults
  <2>2. UNCHANGED stream /\ stopOwed \subseteq stopOwed'
    BY <1>3, ChainsStay DEF LioWorker, WorkerAlone, HandOver, WorkerFaults, FailFrom
  <2> QED BY <1>0, <2>1, <2>2, SamplesStay
<1>4. CASE OutputWorker
  <2>1. stopOwed \subseteq stopOwed' /\ UNCHANGED <<stream, lioVars, inFlight>>
    BY <1>4 DEF OutputWorker
  <2> QED BY <1>0, <2>1, SamplesStay
<1>5. CASE FinishFail \/ MainStopsLio
  <2>1. lioStopping' /\ UNCHANGED <<imuSeen, lastImu, inFlight>>
    BY <1>5 DEF FinishFail, MainStopsLio, LioStop, Stop
  <2>2. UNCHANGED stream
    BY <1>5, ChainsStay DEF FinishFail, MainStopsLio
  <2> QED BY <1>0, <2>1, <2>2, SamplesStay
<1>6. CASE MainStopsOutput \/ MainExits \/ UNCHANGED nodeVars
  <2>1. UNCHANGED <<stream, lioVars, inFlight, stopOwed>>
    BY <1>6, ChainsStay DEF MainStopsOutput, MainExits
  <2> QED BY <1>0, <2>1, SamplesStay
<1> QED BY <1>1, <1>2, <1>3, <1>4, <1>5, <1>6, ForwardKeepsSamples, PushKeepsSamples
    DEF NodeNext
-----------------------------------------------------------------------------
(* The scans and the filter.                                               *)

LEMMA ScansStay ==
  ASSUME ScansTimed, UNCHANGED <<lidarBuf, group>>
  PROVE  ScansTimed'
BY DEF ScansTimed

LEMMA ScansKept ==
  ASSUME NodeInv, [NodeNext]_nodeVars
  PROVE  ScansTimed'
<1> USE DEF lioVars, bufVars, historyVars, queueVars
<1>0. ScansTimed
  BY DEF NodeInv
<1>1. PICK X : lidarBuf \in Seq(X)
  BY DEF NodeInv, LioInv, LioTypes, Timed
<1>2. Len(lidarBuf) \in Nat
  BY <1>1
<1>3. ASSUME NEW s \in Scans, PushLidar(s) PROVE ScansTimed'
  <2>1. CASE UNCHANGED lioVars
    BY <1>0, <2>1, ScansStay
  <2>2. CASE LioScan(s)
    <3>1. lidarBuf' = Append(lidarBuf, s) /\ UNCHANGED group
      BY <2>2 DEF LioScan, PushScan
    <3>2. s.end \in Times
      BY TimesAreNat
    <3>3. ASSUME NEW i \in 1..Len(lidarBuf') PROVE lidarBuf'[i].end \in Times
      <4>1. Len(lidarBuf') = Len(lidarBuf) + 1
        BY <1>1, <3>1
      <4>2. CASE i = Len(lidarBuf) + 1
        <5>1. lidarBuf'[i] = s
          BY <1>1, <3>1, <4>2
        <5> QED BY <3>2, <5>1
      <4>3. CASE i # Len(lidarBuf) + 1
        <5>1. i \in 1..Len(lidarBuf)
          BY <1>2, <4>1, <4>3
        <5>2. lidarBuf'[i] = lidarBuf[i]
          BY <1>1, <3>1, <5>1
        <5> QED BY <1>0, <5>1, <5>2 DEF ScansTimed
      <4> QED BY <4>2, <4>3
    <3> QED BY <1>0, <3>1, <3>3 DEF ScansTimed
  <2> QED BY <1>3, <2>1, <2>2 DEF PushLidar
<1>4. CASE TakeGroup
  <2>1. /\ lidarBuf # <<>> /\ lidarBuf' = Tail(lidarBuf)
        /\ group'.end = lidarBuf[1].end
    BY <1>4 DEF TakeGroup, GetMeasurements, ScanReady
  <2>2. 1 \in 1..Len(lidarBuf)
    BY <1>1, <1>2, <2>1
  <2>3. group'.end \in Times
    BY <1>0, <2>1, <2>2 DEF ScansTimed
  <2>4. ASSUME NEW i \in 1..Len(lidarBuf') PROVE lidarBuf'[i].end \in Times
    <3>1. Len(lidarBuf') = Len(lidarBuf) - 1
      BY <1>1, <2>1
    <3>2. i + 1 \in 1..Len(lidarBuf)
      BY <1>2, <3>1
    <3>3. lidarBuf'[i] = lidarBuf[i + 1]
      BY <1>1, <2>1, <3>1
    <3> QED BY <1>0, <3>2, <3>3 DEF ScansTimed
  <2> QED BY <2>3, <2>4 DEF ScansTimed
<1>5. CASE ProcessGroup \/ StopSeen \/ MaintainMap \/ SendState \/ FrameFails \/ FrameThrows
  BY <1>0, <1>5, ScansStay
     DEF ProcessGroup, StopSeen, MaintainMap, SendState, FrameFails, FrameThrows
<1>6. CASE LioWorker
  BY <1>4, <1>5, <1>6 DEF LioWorker, WorkerAlone, HandOver, WorkerFaults
<1>7. ASSUME NEW ts \in Times, GateForwards(ts) PROVE ScansTimed'
  BY <1>0, <1>7, ScansStay DEF GateForwards
<1>8. CASE GateFaults \/ PushForwarded
  BY <1>0, <1>8, ScansStay DEF GateFaults, PushForwarded, LioImu, PushImu
<1>9. CASE OutputWorker \/ MainStopsOutput \/ MainExits \/ UNCHANGED nodeVars
  BY <1>0, <1>9, ScansStay DEF OutputWorker, MainStopsOutput, MainExits, nodeVars
<1>10. CASE FinishFail \/ MainStopsLio
  BY <1>0, <1>10, ScansStay DEF FinishFail, MainStopsLio, LioStop, Stop
<1> QED BY <1>3, <1>6, <1>7, <1>8, <1>9, <1>10 DEF NodeNext

\* The filter starts at a sample and moves on to scans' ends.
LEMMA FirstStateTimed ==
  ASSUME NodeInv, lpc = "frame", needInit
  PROVE  Last(group.imu) \in Times
<1>1. group # NoGroup
  BY DEF NodeInv, LioInv, Grouped
<1>2. PICK m \in 1..Len(imuSeen) : CutAt(m)
  BY <1>1 DEF NodeInv, LioInv, Grouped
<1> DEFINE g == group.imu
<1>3. g \in Seq(Int) /\ g # <<>> /\ EndsAt(g, imuSeen, m) /\ imuSeen \in Seq(Times)
  BY <1>2 DEF CutAt, NodeInv, HandedOver
<1> HIDE DEF g
<1>4. Len(g) \in 1..Len(g) /\ m - Len(g) + Len(g) = m
  BY <1>3
<1>5. Last(g) = imuSeen[m]
  BY <1>3, <1>4 DEF EndsAt, Last
<1>6. imuSeen[m] \in Times
  BY <1>3
<1> QED BY <1>5, <1>6 DEF g

\* Steps that leave the filter and the posteriors alone.
LEMMA FilterStays ==
  ASSUME NodeInv, UNCHANGED <<given, filterVars>>,
         lpc' = lpc \/ (lpc # "send" /\ lpc' # "send"),
         needInit => lpc' \in {"wait", "frame", "done"}
  PROVE  FilterTimed' /\ GivenInTurn'
<1>1. FilterTimed /\ GivenInTurn
  BY DEF NodeInv
<1>2. /\ UNCHANGED <<needInit, eskfTime, lastAccepted, stateSequence, given>>
      /\ (lpc = "send") = (lpc' = "send")
  BY DEF filterVars
<1> QED BY <1>1, <1>2 DEF FilterTimed, GivenInTurn

LEMMA InitKeepsFilter ==
  ASSUME NodeInv, InitFrame(group), UNCHANGED given
  PROVE  FilterTimed' /\ GivenInTurn'
<1>1. /\ lpc = "frame" /\ needInit /\ lpc' = "wait" /\ UNCHANGED stateSequence
      /\ \/ needInit' = FALSE /\ eskfTime' = Last(group.imu) /\ lastAccepted' = Last(group.imu)
         \/ UNCHANGED <<needInit, eskfTime, lastAccepted>>
  BY DEF InitFrame, StartFilter
<1>2. given = <<>> /\ Len(given) = stateSequence
  BY <1>1 DEF NodeInv, GivenInTurn
<1>3. Last(group.imu) \in Times /\ Last(group.imu) \in Int
  BY <1>1, FirstStateTimed, TimesAreNat
<1>4. FilterTimed'
  BY <1>1, <1>3 DEF FilterTimed
<1>5. GivenInTurn'
  <2>1. Len(given') = stateSequence' /\ given' = <<>>
    BY <1>1, <1>2
  <2>2. ~needInit' => lastAccepted' <= eskfTime'
    <3>1. CASE UNCHANGED <<needInit, eskfTime, lastAccepted>>
      BY <1>1, <3>1
    <3>2. CASE eskfTime' = Last(group.imu) /\ lastAccepted' = Last(group.imu)
      <4> DEFINE t == Last(group.imu)
      <4>1. t \in Int /\ eskfTime' = t /\ lastAccepted' = t
        BY <1>3, <3>2
      <4> HIDE DEF t
      <4> QED BY <4>1
    <3> QED BY <1>1, <3>1, <3>2
  <2> QED BY <1>1, <2>1, <2>2 DEF GivenInTurn
<1> QED BY <1>4, <1>5

\* The prediction moves the filter on, so that the next posterior is newer.
LEMMA FrameKeepsFilter ==
  ASSUME NodeInv, FrameMoves, UNCHANGED given,
         \/ /\ lpc' = "send" /\ stateSequence' = stateSequence + 1
            /\ lastAccepted' \in {lastAccepted, group.end}
         \/ lpc' = "fail" /\ UNCHANGED <<stateSequence, lastAccepted>>
  PROVE  FilterTimed' /\ GivenInTurn'
<1>1. /\ lpc = "frame" /\ ~needInit /\ ~needInit' /\ eskfTime' = group.end
      /\ eskfTime < group.end
  BY FramePreserves DEF FrameMoves, NodeInv
<1>2. eskfTime \in Times /\ lastAccepted \in Times /\ lastAccepted <= eskfTime
  BY <1>1 DEF NodeInv, FilterTimed, GivenInTurn
<1>3. group.end \in Times
  <2>1. group # NoGroup
    BY <1>1 DEF NodeInv, LioInv, Grouped
  <2> QED BY <2>1 DEF NodeInv, ScansTimed
<1>4. eskfTime \in Int /\ lastAccepted \in Int /\ group.end \in Int
  BY <1>2, <1>3, TimesAreNat
<1>5. /\ lastAccepted' \in Times /\ lastAccepted' \in Int
      /\ lastAccepted <= lastAccepted' /\ lastAccepted' <= eskfTime'
  <2>1. CASE lastAccepted' = lastAccepted
    BY <1>1, <1>2, <1>4, <2>1
  <2>2. CASE lastAccepted' = group.end
    BY <1>1, <1>2, <1>3, <1>4, <2>2
  <2> QED BY <2>1, <2>2
<1>6. FilterTimed'
  BY <1>1, <1>3, <1>5 DEF FilterTimed
<1>7. Len(given') = IF lpc' = "send" THEN stateSequence' - 1 ELSE stateSequence'
  <2>1. Len(given) = stateSequence /\ stateSequence \in Nat
    BY <1>1 DEF NodeInv, GivenInTurn, LioInv, LioTypes
  <2> QED BY <2>1
<1>8. given' # <<>> =>
        /\ Last(given').stamp < eskfTime' /\ Last(given').stamp <= eskfTime'
        /\ Last(given').accepted <= lastAccepted'
  <2> SUFFICES ASSUME given # <<>>
               PROVE  /\ Last(given).stamp < eskfTime' /\ Last(given).stamp <= eskfTime'
                      /\ Last(given).accepted <= lastAccepted'
    OBVIOUS
  <2>1. given \in Seq(Updates)
    BY DEF NodeInv, ChainInv, Types, TypesOfMail
  <2>2. Last(given) \in Updates
    BY <2>1 DEF Last
  <2>3. Last(given).stamp \in Int /\ Last(given).accepted \in Int
    BY <2>2 DEF Updates
  <2>4. Last(given).stamp <= eskfTime /\ Last(given).accepted <= lastAccepted
    BY DEF NodeInv, GivenInTurn
  <2> QED BY <1>1, <1>4, <1>5, <2>3, <2>4
<1> QED BY <1>1, <1>5, <1>6, <1>7, <1>8 DEF GivenInTurn

LEMMA ProcessKeepsFilter ==
  ASSUME NodeInv, ProcessGroup, UNCHANGED given
  PROVE  FilterTimed' /\ GivenInTurn'
<1>1. CASE InitFrame(group)
  BY <1>1, InitKeepsFilter
<1>2. CASE PredictFails(group)
  BY <1>2, FilterStays DEF PredictFails, filterVars, FilterTimed, GivenInTurn, NodeInv
<1>3. CASE EstimateBroken(group)
  <2>1. FrameMoves
    BY <1>3 DEF EstimateBroken, FrameMoves, ProcessGroup
  <2> QED BY <1>3, <2>1, FrameKeepsFilter DEF EstimateBroken
<1>4. ASSUME NEW v \in Verdicts, Estimate(group, v) PROVE FilterTimed' /\ GivenInTurn'
  <2>1. FrameMoves
    BY <1>4 DEF Estimate, FrameMoves, ProcessGroup
  <2> QED BY <1>4, <2>1, FrameKeepsFilter DEF Estimate
<1> QED BY <1>1, <1>2, <1>3, <1>4 DEF ProcessGroup

LEMMA HandOverKeepsFilter ==
  ASSUME NodeInv, HandOver
  PROVE  FilterTimed' /\ GivenInTurn'
<1>1. /\ lpc = "send" /\ lpc' \in {"map", "wait"} /\ UNCHANGED filterVars
      /\ given' = Append(given, StateUpdate)
  BY DEF HandOver, SendState, AfterSend
<1>2. ~needInit /\ UNCHANGED <<needInit, eskfTime, lastAccepted, stateSequence>>
  BY <1>1 DEF NodeInv, GivenInTurn, filterVars
<1>3. eskfTime \in Times /\ lastAccepted \in Times /\ lastAccepted <= eskfTime
  BY <1>2 DEF NodeInv, FilterTimed, GivenInTurn
<1>4. eskfTime \in Nat /\ lastAccepted \in Nat
  BY <1>3, TimesAreNat
<1>5. given \in Seq(Updates) /\ Len(given) = stateSequence - 1 /\ stateSequence \in Nat
  BY <1>1 DEF NodeInv, GivenInTurn, LioInv, LioTypes, ChainInv, Types, TypesOfMail
<1>6. StateUpdate \in Updates
  BY <1>4, <1>5 DEF StateUpdate, Updates
<1>7. Len(given') = stateSequence /\ given' # <<>> /\ Last(given') = StateUpdate
  BY <1>1, <1>5, <1>6 DEF Last
<1>8. Last(given').stamp = eskfTime /\ Last(given').accepted = lastAccepted
  BY <1>7 DEF StateUpdate
<1>9. FilterTimed'
  BY <1>2, <1>3 DEF FilterTimed
<1> QED BY <1>1, <1>2, <1>3, <1>4, <1>7, <1>8, <1>9 DEF GivenInTurn

LEMMA FilterKept ==
  ASSUME NodeInv, [NodeNext]_nodeVars
  PROVE  FilterTimed' /\ GivenInTurn'
<1>1. CASE LioWorker
  <2>1. ASSUME ProcessGroup, UNCHANGED given PROVE FilterTimed' /\ GivenInTurn'
    BY <2>1, ProcessKeepsFilter
  <2>2. ASSUME TakeGroup \/ StopSeen \/ MaintainMap \/ FrameFails \/ FrameThrows, UNCHANGED given
        PROVE  FilterTimed' /\ GivenInTurn'
    <3>1. needInit => lpc \in {"wait", "frame", "done"}
      BY DEF NodeInv, GivenInTurn
    <3>2. /\ UNCHANGED filterVars /\ lpc # "send" /\ lpc' # "send"
          /\ needInit => lpc' \in {"wait", "frame", "done"}
      BY <2>2, <3>1 DEF TakeGroup, StopSeen, AbandonGroup, LeaveRun, MaintainMap, UpdateMap,
                        ShowOnly, FrameFails, FrameThrows
    <3> QED BY <2>2, <3>2, FilterStays
  <2>3. CASE WorkerAlone
    <3>1. UNCHANGED given
      BY <2>3, ChainsStay DEF WorkerAlone
    <3> QED BY <2>1, <2>2, <2>3, <3>1 DEF WorkerAlone
  <2>4. CASE WorkerFaults
    BY <2>2, <2>4 DEF WorkerFaults, FailFrom
  <2> QED BY <1>1, <2>3, <2>4, HandOverKeepsFilter DEF LioWorker
<1>2. ASSUME UNCHANGED <<given, frameVars>> PROVE FilterTimed' /\ GivenInTurn'
  <2>1. UNCHANGED filterVars /\ lpc' = lpc
    BY <1>2 DEF frameVars, filterVars
  <2> QED BY <1>2, <2>1, FilterStays DEF NodeInv, GivenInTurn
<1>3. CASE ~LioWorker
  <2>1. ASSUME NEW ts \in Times, GateForwards(ts) PROVE UNCHANGED <<given, frameVars>>
    BY <2>1 DEF GateForwards, Sample, lioVars
  <2>2. CASE GateFaults
    BY <1>2, <2>2 DEF GateFaults, FailFrom, lioVars
  <2>3. CASE PushForwarded
    BY <1>2, <2>3, ChainsStay DEF PushForwarded, FailFrom, LioImu, lioVars
  <2>4. ASSUME NEW s \in Scans, PushLidar(s) PROVE UNCHANGED <<given, frameVars>>
    BY <2>4, ChainsStay DEF PushLidar, FailFrom, LioScan, lioVars
  <2>5. CASE OutputWorker \/ MainStopsOutput
    BY <1>2, <2>5 DEF OutputWorker, MainStopsOutput, lioVars
  <2>6. CASE FinishFail \/ MainStopsLio
    BY <1>2, <2>6, ChainsStay DEF FinishFail, MainStopsLio, LioStop
  <2>7. CASE MainExits \/ UNCHANGED nodeVars
    BY <1>2, <2>7, ChainsStay DEF MainExits, lioVars
  <2> QED BY <1>2, <1>3, <2>1, <2>2, <2>3, <2>4, <2>5, <2>6, <2>7 DEF NodeNext
<1> QED BY <1>1, <1>3

-----------------------------------------------------------------------------
(* Faults and the end.                                                     *)

LEMMA LatchedKept ==
  ASSUME NodeInv, [NodeNext]_nodeVars
  PROVE  Latched'
<1> USE DEF Latched, chainVars, outVars, lioVars, bufVars
<1>0. Latched /\ (mpc # "spin" => mpc' # "spin")
  <2>1. mpc # "spin" => mpc' # "spin"
    BY DEF NodeNext, GateForwards, GateFaults, PushForwarded, PushLidar, LioWorker,
           OutputWorker, FinishFail, MainStopsLio, MainStopsOutput, MainExits, Spinning, nodeVars
  <2> QED BY <2>1 DEF NodeInv
<1>1. ASSUME NEW ts \in Times, GateForwards(ts) PROVE Latched'
  <2>1. /\ outFaulted' = (outFaulted \/ QueueOverflow) /\ UNCHANGED <<lioStopping, mpc>>
        /\ stopOwed' = IF QueueOverflow THEN stopOwed \cup {"onImu"} ELSE stopOwed
    BY <1>1 DEF GateForwards, Sample, OnImu
  <2>2. CASE QueueOverflow
    <3>1. outFaulted' = TRUE
      BY <2>1, <2>2
    <3> QED BY <3>1
  <2>3. CASE ~QueueOverflow
    <3>1. outFaulted' = outFaulted
      BY <1>0, <2>1, <2>3
    <3> QED BY <1>0, <2>1, <2>3, <3>1
  <2> QED BY <2>2, <2>3
<1>2. ASSUME outFaulted' = TRUE PROVE Latched'
  BY <1>2
<1>3. ASSUME UNCHANGED <<outFaulted, lioStopping>>, stopOwed' \subseteq stopOwed PROVE Latched'
  BY <1>0, <1>3
<1>4. CASE GateFaults
  BY <1>2, <1>4 DEF GateFaults, FailFrom, SetFaulted
<1>5. CASE PushForwarded
  <2>1. CASE FailFrom("pushImu")
    BY <1>2, <2>1 DEF FailFrom, SetFaulted
  <2>2. CASE LioImu(inFlight) /\ UNCHANGED <<chainVars, stopOwed>>
    <3>1. UNCHANGED lioStopping
      BY <2>2 DEF LioImu, PushImu
    <3> QED BY <1>3, <2>2, <3>1
  <2> QED BY <1>5, <2>1, <2>2 DEF PushForwarded
<1>6. ASSUME NEW s \in Scans, PushLidar(s) PROVE Latched'
  <2>1. CASE FailFrom("pushScan")
    BY <1>2, <2>1 DEF FailFrom, SetFaulted
  <2>2. CASE LioScan(s) /\ UNCHANGED <<chainVars, stopOwed>>
    <3>1. UNCHANGED lioStopping
      BY <2>2 DEF LioScan, PushScan
    <3> QED BY <1>3, <2>2, <3>1
  <2> QED BY <1>6, <2>1, <2>2 DEF PushLidar
<1>7. CASE LioWorker
  <2>1. CASE WorkerAlone
    BY <1>3, <2>1, WorkerIsQuiet DEF WorkerAlone
  <2>2. CASE HandOver
    BY <1>3, <2>2, WorkerIsQuiet DEF HandOver, OnState
  <2>3. CASE WorkerFaults
    BY <1>2, <2>3 DEF WorkerFaults, FailFrom, SetFaulted
  <2> QED BY <1>7, <2>1, <2>2, <2>3 DEF LioWorker
<1>8. CASE OutputWorker
  <2>1. CASE WorkerFails
    BY <1>2, <2>1 DEF WorkerFails
  <2>2. CASE (Wake \/ Work \/ Publish) /\ UNCHANGED stopOwed
    <3>1. UNCHANGED <<outFaulted, lioStopping>>
      BY <1>8, <2>2 DEF OutputWorker, Wake, Work, Publish
    <3> QED BY <1>3, <2>2, <3>1
  <2> QED BY <1>8, <2>1, <2>2 DEF OutputWorker
<1>9. CASE FinishFail
  <2>1. stopOwed # {} /\ UNCHANGED <<outFaulted, mpc>>
    BY <1>9 DEF FinishFail
  <2>2. outFaulted' = TRUE
    BY <1>0, <2>1
  <2> QED BY <1>2, <2>2
<1>10. CASE MainStopsLio
  <2>1. mpc' = "joinLio" /\ UNCHANGED <<outFaulted, stopOwed>>
    BY <1>10 DEF MainStopsLio
  <2> QED BY <1>0, <2>1
<1>11. CASE MainStopsOutput \/ MainExits \/ UNCHANGED nodeVars
  <2>1. UNCHANGED <<outFaulted, stopOwed, lioStopping>>
    BY <1>11 DEF MainStopsOutput, StopOutput, MainExits, nodeVars
  <2> QED BY <1>3, <2>1
<1> QED BY <1>1, <1>4, <1>5, <1>6, <1>7, <1>8, <1>9, <1>10, <1>11 DEF NodeNext

\* A worker that has left does nothing any more.
LEMMA LioWorkerLeft ==
  ASSUME lpc = "done"
  PROVE  ~LioWorker
BY DEF LioWorker, WorkerAlone, TakeGroup, ProcessGroup, InitFrame, PredictFails,
       EstimateBroken, Estimate, MaintainMap, UpdateMap, ShowOnly, StopSeen, AbandonGroup,
       LeaveRun, HandOver, SendState, AfterSend, WorkerFaults, FrameFails, FrameThrows

LEMMA OutputWorkerLeft ==
  ASSUME opc = "done"
  PROVE  ~OutputWorker
BY DEF OutputWorker, Wake, Work, Publish, WorkerFails

\* What the other actors leave alone.
LEMMA OthersLeaveThreads ==
  ASSUME [NodeNext]_nodeVars
  PROVE  /\ LioWorker \/ UNCHANGED <<frameVars, given, group>>
         /\ OutputWorker \/ UNCHANGED workerVars
         /\ MainStopsOutput \/ UNCHANGED outStopping
         /\ MainStopsLio \/ MainStopsOutput \/ MainExits \/ UNCHANGED mpc
<1> USE DEF chainVars, outVars, lioVars, bufVars
<1>1. ASSUME NEW ts \in Times, GateForwards(ts)
      PROVE  UNCHANGED <<frameVars, given, group, workerVars, outStopping, mpc>>
  BY <1>1 DEF GateForwards, Sample, OnImu
<1>2. CASE GateFaults
  BY <1>2 DEF GateFaults, FailFrom, SetFaulted
<1>3. CASE PushForwarded
  BY <1>3 DEF PushForwarded, FailFrom, SetFaulted, LioImu, PushImu
<1>4. ASSUME NEW s \in Scans, PushLidar(s)
      PROVE  UNCHANGED <<frameVars, given, group, workerVars, outStopping, mpc>>
  BY <1>4 DEF PushLidar, FailFrom, SetFaulted, LioScan, PushScan
<1>5. CASE LioWorker
  <2>1. UNCHANGED <<workerVars, outStopping, mpc>>
    BY <1>5 DEF LioWorker, WorkerAlone, HandOver, OnState, WorkerFaults, FailFrom, SetFaulted
  <2> QED BY <1>5, <2>1
<1>6. CASE OutputWorker
  <2>1. UNCHANGED <<frameVars, given, group, outStopping, mpc>>
    BY <1>6 DEF OutputWorker, Wake, Work, Publish, WorkerFails
  <2> QED BY <1>6, <2>1
<1>7. CASE FinishFail \/ MainStopsLio
  BY <1>7 DEF FinishFail, MainStopsLio, LioStop, Stop
<1>8. CASE MainStopsOutput
  BY <1>8 DEF MainStopsOutput, StopOutput
<1>9. CASE MainExits \/ UNCHANGED nodeVars
  BY <1>9 DEF MainExits, nodeVars
<1> QED BY <1>1, <1>2, <1>3, <1>4, <1>5, <1>6, <1>7, <1>8, <1>9 DEF NodeNext

LEMMA JoinedKept ==
  ASSUME NodeInv, [NodeNext]_nodeVars
  PROVE  Joined'
<1>0. Joined
  BY DEF NodeInv
<1>1. lpc = "done" => lpc' = "done"
  BY LioWorkerLeft, OthersLeaveThreads DEF frameVars
<1>2. opc = "done" => opc' = "done"
  BY OutputWorkerLeft, OthersLeaveThreads DEF workerVars
<1>3. CASE MainStopsLio
  <2>1. mpc = "spin" /\ mpc' = "joinLio" /\ UNCHANGED outStopping
    BY <1>3 DEF MainStopsLio, Spinning, chainVars, outVars
  <2> QED BY <1>0, <2>1 DEF Joined
<1>4. CASE MainStopsOutput
  <2>1. mpc' = "joinOutput" /\ lpc = "done"
    BY <1>4 DEF MainStopsOutput, LioJoined
  <2> QED BY <1>1, <2>1 DEF Joined
<1>5. CASE MainExits
  <2>1. mpc = "joinOutput" /\ mpc' = "exited" /\ opc = "done" /\ UNCHANGED outStopping
    BY <1>5 DEF MainExits, chainVars, outVars
  <2> QED BY <1>0, <1>1, <1>2, <2>1 DEF Joined
<1>6. CASE ~MainStopsLio /\ ~MainStopsOutput /\ ~MainExits
  <2>1. UNCHANGED <<mpc, outStopping>>
    BY <1>6, OthersLeaveThreads
  <2> QED BY <1>0, <1>1, <1>2, <2>1 DEF Joined
<1> QED BY <1>3, <1>4, <1>5, <1>6

-----------------------------------------------------------------------------
(* The theorems.                                                           *)

LEMMA NodeNextKeeps == NodeInv /\ [NodeNext]_nodeVars => NodeInv'
<1> SUFFICES ASSUME NodeInv, [NodeNext]_nodeVars PROVE NodeInv'
  OBVIOUS
<1>1. LioInv' /\ ChainInv'
  BY NodeIsSteps, LioStepPreserves, NextKeeps DEF NodeInv
<1> QED BY <1>1, SamplesKept, ScansKept, FilterKept, LatchedKept, JoinedKept DEF NodeInv

\* The invariant holds of the node, in every interleaving of its threads.
THEOREM NodeInvHolds == NodeSpec => []NodeInv
<1>1. NodeInit => NodeInv
  BY NodeStarts
<1>2. NodeInv /\ [NodeNext]_nodeVars => NodeInv'
  BY NodeNextKeeps
<1> QED BY <1>1, <1>2, PTL DEF NodeSpec

\* The LIO worker and the IMU callback keep the contract that the output chain
\* was proved under (imuHandler's order of the two calls, ProcessMeasurements).
THEOREM ContractKeptHolds == NodeSpec => ContractKept
<1>1. NodeInit => ChainInit
  BY DEF NodeInit
<1>2. NodeInv /\ [NodeNext]_nodeVars => [ChainNext]_chainVars
  BY NodeIsSteps
<1> QED BY <1>1, <1>2, NodeInvHolds, PTL DEF NodeSpec, ContractKept

\* So the messages of the whole node on /odom are those Odometry allows.
THEOREM NodeImplementsOdometry == NodeSpec => ImplementsOdometry
<1>1. ContractKept => ChainSpec
  BY DEF ContractKept, ChainSpec
<1> QED BY <1>1, ContractKeptHolds, ChainImplementsOdometry, PTL

\* What each chain promises by itself, it promises in the node: the replay
\* and the prediction integrate each interval of the stream once, and the map
\* holds accepted frames only.
THEOREM NodeChainsAreExact ==
  NodeSpec => [](ReplayIsExact /\ PredictionIsExact /\ ImuRunCoversScan /\ MapOnlyFromAccepted)
<1>1. NodeInv => PredictionIsExact /\ ImuRunCoversScan /\ MapOnlyFromAccepted
  BY GroupedCovers DEF NodeInv, LioInv
<1>2. ContractKept => ChainSpec
  BY DEF ContractKept, ChainSpec
<1> QED BY <1>1, <1>2, NodeInvHolds, ContractKeptHolds, ReplayIsExactHolds, PTL

\* In the node, too, the prediction fails for no reason but a late scan: its
\* threads never leave a hole in the samples behind the gate (Predict).
THEOREM NodeFaultsOnlyOnLateScan == NodeSpec => FaultsOnlyOnLateScan
<1>1. NodeInv /\ [NodeNext]_nodeVars
        => [predictionFault' /\ ~predictionFault => group.end <= eskfTime]_lioVars
  <2> SUFFICES ASSUME NodeInv, [NodeNext]_nodeVars, predictionFault', ~predictionFault
               PROVE  group.end <= eskfTime
    OBVIOUS
  <2> QED BY NodeIsSteps, FailsOnlyLate DEF NodeInv
<1> QED BY <1>1, NodeInvHolds, PTL DEF NodeSpec, FaultsOnlyOnLateScan

\* A fault stops the LIO chain only once the output chain has latched it
\* (lidarodom_m::Fail).
THEOREM FaultReachesOutputFirstHolds == NodeSpec => []FaultReachesOutputFirst
<1>1. NodeInv => FaultReachesOutputFirst
  BY DEF NodeInv, Latched, FaultReachesOutputFirst
<1> QED BY <1>1, NodeInvHolds, PTL

\* No posterior reaches a stopped output, and nothing is sent or mapped once
\* main has left (the joins in main).
THEOREM QuietAfterStopHolds == NodeSpec => QuietAfterStop
<1>1. NodeInv /\ [NodeNext]_nodeVars =>
        [/\ outStopping => given' = given
         /\ mpc = "exited" => UNCHANGED <<published, group, mapped>>]_nodeVars
  <2> SUFFICES ASSUME NodeInv, [NodeNext]_nodeVars
               PROVE  /\ outStopping => given' = given
                      /\ mpc = "exited" => UNCHANGED <<published, group, mapped>>
    OBVIOUS
  <2>1. outStopping \/ mpc = "exited" => UNCHANGED <<given, group, mapped>>
    BY LioWorkerLeft, OthersLeaveThreads DEF NodeInv, Joined, frameVars
  <2>2. mpc = "exited" => UNCHANGED published
    BY OutputWorkerLeft, OthersLeaveThreads DEF NodeInv, Joined, workerVars
  <2> QED BY <2>1, <2>2
<1> QED BY <1>1, NodeInvHolds, PTL DEF NodeSpec, QuietAfterStop
=============================================================================
