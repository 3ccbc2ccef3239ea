--------------------------- MODULE LioIntake_proofs ---------------------------
(***************************************************************************)
(* Proofs about the LIO chain, for all sensor times, queue capacities,     *)
(* delays and messages: which samples a measurement group holds, along     *)
(* which samples a frame is predicted, when the prediction can fail, what  *)
(* enters the map, which auxiliary points a group receives, and that a     *)
(* frame's trajectory reaches every point of it.                           *)
(*                                                                         *)
(* The first parts are about LioStep, what the callbacks and the worker    *)
(* may do to the chain in whatever node runs it; IntakeSpec is one.        *)
(***************************************************************************)
EXTENDS LioIntake, SampleRuns_proofs, FiniteSetTheorems

\* pushData of a sample behind the quality gate.
GatedPush(ts) ==
  /\ imuSeen # <<>> => ts - Last(imuSeen) \in 1..Gap
  /\ LioImu(ts)

LioStep ==
  \/ \E ts \in Int : GatedPush(ts)
  \/ \E s : s.begin \in Int /\ s.end \in Int /\ LioScan(s)
  \/ \E p : PushAux(p) /\ UNCHANGED frameVars
  \/ LioStop
  \/ TakeGroup \/ ProcessGroup \/ SendState \/ MaintainMap
  \/ FrameFails \/ FrameThrows \/ StopSeen

-----------------------------------------------------------------------------
(* The invariant.                                                          *)

SampleStream ==
  /\ imuSeen \in Seq(Int) /\ Spaced(imuSeen)
  /\ \A i \in 1..Len(imuSeen) : imuSeen[i] \in Nat
  /\ lastImu \in Int /\ lastImu >= -1

Timed(scans) ==
  \E X : scans \in Seq(X) /\ \A s \in X : s.begin \in Int /\ s.end \in Int

LioTypes ==
  /\ Timed(lidarBuf)
  /\ group.end \in Int /\ coveredTo \in Int
  /\ needInit \in BOOLEAN /\ predictionFault \in BOOLEAN /\ lioStopping \in BOOLEAN
  /\ eskfTime \in Int /\ stateSequence \in Nat

\* The latest scan end of all groups taken.
Covered == IF group.end > coveredTo THEN group.end ELSE coveredTo

\* The queue ends where the stream ends, and a sample has left it if and only
\* if a scan's end has passed it.
Queued ==
  /\ imuBuf \in Seq(Int) /\ EndsAt(imuBuf, imuSeen, Len(imuSeen))
  /\ Covered > -1 => imuSeen # <<>> /\ Covered <= Last(imuSeen)
  /\ \A i \in 1..Len(imuSeen) :
       i <= Len(imuSeen) - Len(imuBuf) <=> imuSeen[i] <= Covered

\* The samples of the group are those up to position m of the stream.
CutAt(m) ==
  /\ group.imu \in Seq(Int) /\ group.imu # <<>>
  /\ EndsAt(group.imu, imuSeen, m)
  /\ imuSeen[m] >= group.end
  /\ Len(group.imu) > 1 => imuSeen[m - 1] <= group.end
  /\ \A i \in 1..Len(imuSeen) : i <= m - Len(group.imu) <=> imuSeen[i] <= coveredTo

Grouped ==
  /\ group # NoGroup => \E m \in 1..Len(imuSeen) : CutAt(m)
  /\ lpc = "frame" => group # NoGroup

\* The raw left sample is the last one not later than the filter.
RawAt(r) ==
  /\ lastImuRaw = imuSeen[r]
  /\ eskfTime <= Last(imuSeen)
  /\ \A i \in 1..Len(imuSeen) : i <= r <=> imuSeen[i] <= eskfTime

Placed == ~needInit => \E r \in 1..Len(imuSeen) : RawAt(r)

\* A filter that still predicts has left no scan behind it.
InTurn ==
  ~needInit /\ ~predictionFault /\ ~lioStopping /\ lpc # "done" =>
    IF lpc = "frame" THEN coveredTo <= eskfTime ELSE Covered <= eskfTime

\* The posteriors behind the map are numbered below the one in hand.
Mapped ==
  /\ lpc = "map" \/ (lpc = "send" /\ Accepted) => lastAccepted = eskfTime
  /\ \A u \in mapped : /\ u.seq \in Nat /\ u.seq <= stateSequence
                       /\ lpc \in {"send", "map"} => u.seq < stateSequence

LioInv ==
  /\ SampleStream /\ LioTypes /\ Queued /\ Grouped /\ Placed /\ InTurn
  /\ Mapped /\ PredictionIsExact /\ MapOnlyFromAccepted

-----------------------------------------------------------------------------
(* The cut of a group.                                                     *)

\* The samples a scan consumes: those up to its end.
LEMMA ConsumedIs ==
  ASSUME imuBuf \in Seq(Int), NEW end \in Int
  PROVE  /\ Consumed(end) \in 0..Len(imuBuf)
         /\ \A i \in 1..Consumed(end) : imuBuf[i] <= end
         /\ Consumed(end) < Len(imuBuf) => imuBuf[Consumed(end) + 1] > end
<1> DEFINE Good(n) == /\ \A i \in 1..n : imuBuf[i] <= end
                      /\ n < Len(imuBuf) => ~(imuBuf[n + 1] <= end)
           T == {i \in 1..Len(imuBuf) : imuBuf[i] <= end}
<1>0. Len(imuBuf) \in Nat /\ \A i \in 1..Len(imuBuf) : imuBuf[i] \in Int
  OBVIOUS
<1>1. Consumed(end) = CHOOSE n \in 0..Len(imuBuf) : Good(n)
  BY DEF Consumed, Prefix
<1>2. \E n \in 0..Len(imuBuf) : Good(n)
  <2>1. PICK n \in 0..Len(imuBuf) : (\A i \in 1..n : i \in T) /\ (n < Len(imuBuf) => n + 1 \notin T)
    <3> HIDE DEF T
    <3> QED BY <1>0, LongestPrefix
  <2>2. n < Len(imuBuf) => n + 1 \in 1..Len(imuBuf)
    BY <1>0
  <2> QED BY <2>1, <2>2
<1> DEFINE n == CHOOSE n \in 0..Len(imuBuf) : Good(n)
<1>3. n \in 0..Len(imuBuf) /\ Good(n)
  <2> HIDE DEF Good
  <2> QED BY <1>2
<1> HIDE DEF n
<1>4. n < Len(imuBuf) => imuBuf[n + 1] > end
  BY <1>0, <1>3
<1>5. Consumed(end) = n
  BY <1>1 DEF n
<1> QED BY <1>3, <1>4, <1>5

\* Two neighbouring pieces of a sequence make one.
LEMMA PiecesJoin ==
  ASSUME NEW s \in Seq(Int), NEW n \in 0..Len(s), NEW k \in n..Len(s), k \in 1..Len(s)
  PROVE  /\ SubSeq(s, 1, n) \o SubSeq(s, n + 1, k) \in Seq(Int)
         /\ Len(SubSeq(s, 1, n) \o SubSeq(s, n + 1, k)) = k
         /\ \A i \in 1..k : (SubSeq(s, 1, n) \o SubSeq(s, n + 1, k))[i] = s[i]
<1> DEFINE a == SubSeq(s, 1, n)
           b == SubSeq(s, n + 1, k)
           c == a \o b
<1>1. Len(s) \in Nat /\ n \in Nat /\ k \in Nat /\ n <= k /\ k <= Len(s)
  OBVIOUS
<1>2. a \in Seq(Int) /\ Len(a) = n /\ \A i \in 1..n : a[i] = s[i]
  BY <1>1
<1>3. b \in Seq(Int) /\ Len(b) = k - n /\ \A i \in 1..(k - n) : b[i] = s[n + i]
  BY <1>1
<1> HIDE DEF a, b
<1>4. c \in Seq(Int) /\ Len(c) = Len(a) + Len(b)
  BY <1>2, <1>3
<1>5. \A i \in 1..(Len(a) + Len(b)) : c[i] = IF i <= Len(a) THEN a[i] ELSE b[i - Len(a)]
  BY <1>2, <1>3, ConcatProperties
<1> HIDE DEF c
<1>7. ASSUME NEW i \in 1..k PROVE c[i] = s[i]
  <2>0. c[i] = IF i <= n THEN a[i] ELSE b[i - n]
    BY <1>1, <1>2, <1>3, <1>5
  <2>1. CASE i <= n
    <3>1. i \in 1..n
      BY <1>1, <2>1
    <3> QED BY <1>2, <2>0, <2>1, <3>1
  <2>2. CASE ~(i <= n)
    <3> DEFINE j == i - n
    <3>1. j \in 1..(k - n) /\ n + j = i
      BY <1>1, <2>2
    <3>2. c[i] = b[j]
      BY <2>0, <2>2
    <3> HIDE DEF j
    <3>3. b[j] = s[n + j]
      BY <1>3, <3>1
    <3> QED BY <3>1, <3>2, <3>3
  <2> QED BY <2>1, <2>2
<1>8. Len(c) = k
  BY <1>1, <1>2, <1>3, <1>4
<1> QED BY <1>4, <1>7, <1>8 DEF a, b, c

\* What a scan is given: the run of the stream that starts with the oldest
\* queued sample and is the shortest one that covers the scan's end.
LEMMA CutRun ==
  ASSUME SampleStream, imuBuf \in Seq(Int), EndsAt(imuBuf, imuSeen, Len(imuSeen)),
         NEW end \in Int, imuBuf # <<>>, imuBuf[Len(imuBuf)] >= end,
         NEW g, g = SubSeq(imuBuf, 1, Consumed(end)) \o Bracket(end),
         NEW q, q = Len(imuSeen) - Len(imuBuf)
  PROVE  /\ g \in Seq(Int) /\ Len(g) \in 1..Len(imuBuf)
         /\ EndsAt(g, imuSeen, q + Len(g))
         /\ imuSeen[q + Len(g)] >= end
         /\ Len(g) > 1 => imuSeen[q + Len(g) - 1] <= end
<1> DEFINE n == Consumed(end)
           k == IF n < Len(imuBuf) THEN n + 1 ELSE n
<1>0. /\ Len(imuBuf) \in Nat \ {0} /\ Len(imuSeen) \in Nat
      /\ q \in Nat /\ q + Len(imuBuf) = Len(imuSeen)
      /\ \A i \in 1..Len(imuBuf) : imuBuf[i] \in Int
  BY SMTT(30) DEF SampleStream, EndsAt
<1>1. /\ n \in 0..Len(imuBuf)
      /\ \A i \in 1..n : imuBuf[i] <= end
      /\ n < Len(imuBuf) => imuBuf[n + 1] > end
  BY ConsumedIs
<1>2. g = SubSeq(imuBuf, 1, n) \o SubSeq(imuBuf, n + 1, k)
  BY DEF Bracket
<1> HIDE DEF n
<1>3. k \in 1..Len(imuBuf) /\ n <= k /\ k <= n + 1
  BY <1>0, <1>1
<1> HIDE DEF k
<1>4. g \in Seq(Int) /\ Len(g) = k /\ \A i \in 1..k : g[i] = imuBuf[i]
  <2>1. n \in 0..Len(imuBuf) /\ k \in n..Len(imuBuf) /\ k \in 1..Len(imuBuf)
    BY <1>0, <1>1, <1>3
  <2> DEFINE c == SubSeq(imuBuf, 1, n) \o SubSeq(imuBuf, n + 1, k)
  <2>2. c \in Seq(Int) /\ Len(c) = k /\ \A i \in 1..k : c[i] = imuBuf[i]
    BY <2>1, PiecesJoin
  <2> HIDE DEF c
  <2>3. g = c
    BY <1>2 DEF c
  <2> QED BY <2>2, <2>3
<1>5. \A i \in 1..Len(imuBuf) : imuBuf[i] = imuSeen[q + i]
  BY <1>0 DEF EndsAt
<1>6. EndsAt(g, imuSeen, q + k)
  <2> DEFINE m == q + k
  <2>0. k <= m /\ m - k = q /\ m <= q + Len(imuBuf)
    BY <1>0, <1>3
  <2> HIDE DEF m
  <2>1. Len(g) = k /\ k <= m /\ m <= Len(imuSeen) /\ m - Len(g) = q
    BY <1>0, <1>4, <2>0
  <2>2. ASSUME NEW i \in 1..Len(g) PROVE g[i] = imuSeen[m - Len(g) + i]
    <3>0. i \in 1..k
      BY <2>1
    <3>1. i \in 1..k /\ i \in 1..Len(imuBuf)
      BY <1>0, <1>3, <3>0
    <3>2. g[i] = imuSeen[q + i]
      BY <1>4, <1>5, <3>1
    <3> QED BY <2>1, <3>2
  <2>3. EndsAt(g, imuSeen, m)
    BY <2>1, <2>2 DEF EndsAt
  <2> QED BY <2>3 DEF m
<1>7. imuBuf[k] >= end
  BY <1>0, <1>1, <1>3 DEF k
<1>8. k > 1 => imuBuf[k - 1] <= end
  <2> SUFFICES ASSUME k > 1 PROVE imuBuf[k - 1] <= end
    OBVIOUS
  <2>1. k - 1 \in 1..n
    BY <1>1, <1>3
  <2> QED BY <1>1, <2>1
<1>9. k > 1 => k - 1 \in 1..Len(imuBuf) /\ q + (k - 1) = q + k - 1
  BY <1>0, <1>3
<1>10. k > 1 => imuSeen[q + k - 1] <= end
  BY <1>5, <1>8, <1>9
<1>11. imuSeen[q + k] >= end
  BY <1>3, <1>5, <1>7
<1> QED BY <1>3, <1>4, <1>6, <1>10, <1>11

\* A run of the stream, as a piece of it.
LEMMA RunIsPiece ==
  ASSUME NEW t \in Seq(Int), NEW s \in Seq(Int), NEW m \in 1..Len(t),
         s # <<>>, EndsAt(s, t, m)
  PROVE  m - Len(s) + 1 \in 1..m /\ s = SubSeq(t, m - Len(s) + 1, m)
<1> DEFINE a == m - Len(s) + 1
           r == SubSeq(t, a, m)
<1>0. Len(s) \in Nat \ {0} /\ Len(t) \in Nat /\ Len(s) <= m
  BY DEF EndsAt
<1>1. a \in 1..m /\ m \in 1..Len(t) /\ m - a + 1 = Len(s)
  BY <1>0
<1> HIDE DEF a
<1>2. r \in Seq(Int) /\ Len(r) = m - a + 1 /\ \A i \in 1..(m - a + 1) : r[i] = t[a + i - 1]
  BY <1>0, <1>1, SMTT(30)
<1> HIDE DEF r
<1>3. Len(r) = Len(s)
  BY <1>1, <1>2
<1>4. \A i \in 1..Len(s) : r[i] = s[i]
  <2> SUFFICES ASSUME NEW i \in 1..Len(s) PROVE r[i] = s[i]
    OBVIOUS
  <2>1. a + i - 1 = m - Len(s) + i
    BY <1>0, <1>1 DEF a
  <2>2. r[i] = t[m - Len(s) + i]
    BY <1>1, <1>2, <2>1
  <2> QED BY <2>2 DEF EndsAt
<1>5. s = r
  BY <1>2, <1>3, <1>4, SeqEqual
<1> QED BY <1>1, <1>5 DEF a, r

-----------------------------------------------------------------------------
(* The prediction.                                                         *)
LEMMA FirstIs ==
  ASSUME NEW I \in SUBSET Int, NEW f \in I, \A i \in I : f <= i
  PROVE  Min(I) = f
<1> DEFINE c == CHOOSE x \in I : \A y \in I : x <= y
<1>1. c \in I /\ \A y \in I : c <= y
  <2>1. \E x \in I : \A y \in I : x <= y
    OBVIOUS
  <2> QED BY <2>1
<1>2. Min(I) = c
  BY DEF Min
<1> HIDE DEF c
<1>3. c \in Int /\ f \in Int /\ c <= f /\ f <= c
  BY <1>1
<1> QED BY <1>2, <1>3

LEMMA LastIs ==
  ASSUME NEW I \in SUBSET Int, NEW f \in I, \A i \in I : i <= f
  PROVE  Max(I) = f
<1> DEFINE c == CHOOSE x \in I : \A y \in I : x >= y
<1>1. c \in I /\ \A y \in I : c >= y
  <2>1. \E x \in I : \A y \in I : x >= y
    OBVIOUS
  <2> QED BY <2>1
<1>2. Max(I) = c
  BY DEF Max
<1> HIDE DEF c
<1>3. c \in Int /\ f \in Int /\ c <= f /\ f <= c
  BY <1>1
<1> QED BY <1>2, <1>3

\* The run is a sequence of samples whatever the group holds.
LEMMA RunIsRun ==
  ASSUME NEW g, g.imu \in Seq(Int)
  PROVE  RunTo(g) \in Seq(Int)
<1> DEFINE s == g.imu
           I == {i \in 1..Len(s) : s[i] > eskfTime}
           J == {i \in 1..Len(s) : s[i] > eskfTime /\ s[i] >= g.end}
           first == IF I # {} THEN Min(I) ELSE 0
           stop == IF J # {} THEN Min(J) ELSE 0
           last == IF stop = 0 THEN Len(s) ELSE stop
<1>1. RunTo(g) = IF first = 0 THEN <<>> ELSE SubSeq(s, first, last)
  BY DEF RunTo, SelectInSeq
<1>2. \A K \in SUBSET (1..Len(s)) : K # {} => Min(K) \in K
  <2> SUFFICES ASSUME NEW K \in SUBSET (1..Len(s)), K # {} PROVE Min(K) \in K
    OBVIOUS
  <2>1. PICK k \in K : \A i \in K : k <= i
    <3>1. K \in SUBSET Nat
      OBVIOUS
    <3> QED BY <3>1, LeastNatural
  <2>2. K \in SUBSET Int
    OBVIOUS
  <2> QED BY <2>1, <2>2, FirstIs
<1>3. first \in 0..Len(s) /\ stop \in 0..Len(s)
  <2>1. I \in SUBSET (1..Len(s)) /\ J \in SUBSET (1..Len(s)) /\ Len(s) \in Nat
    OBVIOUS
  <2> HIDE DEF I, J
  <2>2. (I # {} => Min(I) \in 1..Len(s)) /\ (J # {} => Min(J) \in 1..Len(s))
    BY <1>2, <2>1
  <2> QED BY <2>1, <2>2
<1> HIDE DEF first, stop
<1>4. first # 0 => first \in 1..Len(s) /\ last \in 1..Len(s)
  <2>1. s \in Seq(Int) /\ Len(s) \in Nat
    OBVIOUS
  <2> HIDE DEF s
  <2> QED BY <1>3, <2>1
<1>5. first # 0 => SubSeq(s, first, last) \in Seq(Int)
  <2>1. s \in Seq(Int) /\ Len(s) \in Nat
    OBVIOUS
  <2> HIDE DEF s, last
  <2> QED BY <1>4, <2>1
<1> QED BY <1>1, <1>5

\* The run from the first sample after the filter to the first one at or
\* after the scan's end.
LEMMA RunIs ==
  ASSUME NEW g, g.imu \in Seq(Int), g.end \in Int, eskfTime \in Int,
         NEW f \in 1..Len(g.imu), NEW e \in 1..Len(g.imu), f <= e,
         \A i \in 1..Len(g.imu) : g.imu[i] > eskfTime <=> f <= i,
         \A i \in 1..Len(g.imu) : g.imu[i] >= g.end <=> e <= i
  PROVE  RunTo(g) = SubSeq(g.imu, f, e)
<1> DEFINE s == g.imu
           I == {i \in 1..Len(s) : s[i] > eskfTime}
           J == {i \in 1..Len(s) : s[i] > eskfTime /\ s[i] >= g.end}
           first == IF I # {} THEN Min(I) ELSE 0
           stop == IF J # {} THEN Min(J) ELSE 0
<1>1. RunTo(g) = IF first = 0 THEN <<>> ELSE SubSeq(s, first, IF stop = 0 THEN Len(s) ELSE stop)
  BY DEF RunTo, SelectInSeq
<1>2. I \in SUBSET Int /\ f \in I /\ \A i \in I : f <= i
  OBVIOUS
<1>3. J \in SUBSET Int /\ e \in J /\ \A i \in J : e <= i
  OBVIOUS
<1> HIDE DEF I, J
<1>4. first = f /\ stop = e
  <2>1. Min(I) = f
    BY <1>2, FirstIs
  <2>2. Min(J) = e
    BY <1>3, FirstIs
  <2> QED BY <1>2, <1>3, <2>1, <2>2
<1>5. f # 0 /\ e # 0
  OBVIOUS
<1> HIDE DEF first, stop
<1> QED BY <1>1, <1>4, <1>5

\* What a frame behind the filter is predicted from: PlacedGroup is the
\* situation, PredictedFrom the samples after position r up to position e.
PlacedGroup(m, r) ==
  /\ SampleStream /\ LioTypes
  /\ group # NoGroup /\ CutAt(m)
  /\ RawAt(r) /\ coveredTo <= eskfTime

RunFrom(r, e) ==
  /\ RunTo(group) \in Seq(Int) /\ Len(RunTo(group)) = e - r
  /\ \A i \in 1..(e - r) : RunTo(group)[i] = imuSeen[r + i]
  /\ \A i \in 1..Len(imuSeen) : imuSeen[i] >= group.end <=> e <= i

\* The first sample at or after the scan's end.
LEMMA CoverPosition ==
  ASSUME NEW m \in Nat, NEW r \in Nat, m \in 1..Len(imuSeen), r \in 1..Len(imuSeen),
         PlacedGroup(m, r), eskfTime < group.end
  PROVE  \E e \in Nat : /\ r < e /\ e <= m
                        /\ \A i \in 1..Len(imuSeen) : imuSeen[i] >= group.end <=> e <= i
<1> DEFINE E == {i \in 1..Len(imuSeen) : imuSeen[i] >= group.end}
<1>0. /\ Len(imuSeen) \in Nat /\ \A i \in 1..Len(imuSeen) : imuSeen[i] \in Int
      /\ group.end \in Int /\ eskfTime \in Int /\ m \in E
  BY SMTT(30) DEF PlacedGroup, SampleStream, LioTypes, CutAt
<1>1. PICK e \in E : \A k \in E : e <= k
  <2>1. E \in SUBSET Nat
    OBVIOUS
  <2> HIDE DEF E
  <2> QED BY <1>0, <2>1, LeastNatural
<1>2. e \in 1..Len(imuSeen) /\ imuSeen[e] >= group.end
  OBVIOUS
<1>3. ~(e <= r)
  <2>1. imuSeen[e] > eskfTime
    BY <1>0, <1>2
  <2> QED BY <1>0, <1>2, <2>1 DEF PlacedGroup, RawAt
<1>4. ASSUME NEW i \in 1..Len(imuSeen) PROVE imuSeen[i] >= group.end <=> e <= i
  <2>1. e < i => imuSeen[e] < imuSeen[i]
    BY <1>2 DEF PlacedGroup, SampleStream, Spaced, Rising
  <2>2. e <= i => imuSeen[i] >= group.end
    BY <1>0, <1>2, <2>1
  <2> QED BY <1>1, <2>2
<1>5. e \in Nat /\ r < e /\ e <= m
  BY <1>0, <1>1, <1>2, <1>3
<1> QED BY <1>4, <1>5

\* Every sample between the filter and the scan's end is in the group.
LEMMA PredictedRun ==
  ASSUME NEW m \in Nat, NEW r \in Nat, m \in 1..Len(imuSeen), r \in 1..Len(imuSeen),
         PlacedGroup(m, r), eskfTime < group.end
  PROVE  \E e \in Nat : r < e /\ e <= m /\ RunFrom(r, e)
<1> DEFINE S == imuSeen
           s == group.imu
           o == m - Len(s)
<1>0. /\ Len(S) \in Nat /\ \A i \in 1..Len(S) : S[i] \in Int
      /\ group.end \in Int /\ eskfTime \in Int /\ coveredTo \in Int
      /\ coveredTo <= eskfTime
      /\ s \in Seq(Int) /\ s # <<>>
      /\ m \in Nat /\ m <= Len(S)
      /\ \A i \in 1..Len(S) : i <= r <=> S[i] <= eskfTime
      /\ \A i \in 1..Len(S) : i <= o <=> S[i] <= coveredTo
  BY SMTT(30) DEF PlacedGroup, SampleStream, LioTypes, CutAt, RawAt
<1>1. PICK e \in Nat : /\ r < e /\ e <= m
                       /\ \A i \in 1..Len(S) : S[i] >= group.end <=> e <= i
  BY CoverPosition
<1>2. EndsAt(s, S, m)
  BY DEF PlacedGroup, CutAt
<1> HIDE DEF S, s
<1>3. Len(s) \in Nat \ {0} /\ o \in Nat /\ o + Len(s) = m
      /\ \A i \in 1..Len(s) : s[i] = S[o + i] /\ s[i] \in Int /\ o + i \in 1..Len(S)
  <2>1. Len(s) \in Nat \ {0} /\ Len(s) <= m
    BY <1>0, <1>2 DEF EndsAt
  <2>2. o \in Nat /\ o + Len(s) = m
    BY <1>0, <2>1
  <2>3. \A i \in 1..Len(s) : s[i] = S[o + i]
    BY <1>2 DEF EndsAt
  <2> QED BY <1>0, <2>1, <2>2, <2>3
<1> HIDE DEF o
<1>4. o <= r
  <2>1. o > 0 => o \in 1..Len(S)
    BY <1>0, <1>3
  <2>2. o > 0 => S[o] <= eskfTime
    BY <1>0, <1>3, <2>1
  <2> QED BY <1>0, <1>3, <2>1, <2>2
<1> DEFINE f == r + 1 - o
           p == e - o
<1>5. f \in 1..Len(s) /\ p \in 1..Len(s) /\ f <= p /\ p - f + 1 = e - r /\ o + f = r + 1
  BY <1>1, <1>3, <1>4
<1>6. \A i \in 1..Len(s) : s[i] > eskfTime <=> f <= i
  <2> SUFFICES ASSUME NEW i \in 1..Len(s) PROVE s[i] > eskfTime <=> f <= i
    OBVIOUS
  <2>1. o + i \in 1..Len(S) /\ s[i] = S[o + i] /\ s[i] \in Int
    BY <1>3
  <2>2. o + i <= r <=> S[o + i] <= eskfTime
    BY <1>0, <2>1
  <2>3. o + i <= r <=> ~(f <= i)
    BY <1>3
  <2> QED BY <1>0, <2>1, <2>2, <2>3
<1>7. \A i \in 1..Len(s) : s[i] >= group.end <=> p <= i
  <2> SUFFICES ASSUME NEW i \in 1..Len(s) PROVE s[i] >= group.end <=> p <= i
    OBVIOUS
  <2>1. o + i \in 1..Len(S) /\ s[i] = S[o + i]
    BY <1>3
  <2>2. S[o + i] >= group.end <=> e <= o + i
    BY <1>1, <2>1
  <2>3. e <= o + i <=> p <= i
    BY <1>1, <1>3
  <2> QED BY <2>1, <2>2, <2>3
<1> HIDE DEF f, p
<1> DEFINE run == SubSeq(s, f, p)
<1>8. RunTo(group) = run
  BY <1>0, <1>5, <1>6, <1>7, RunIs DEF s
<1>9. /\ run \in Seq(Int) /\ Len(run) = p - f + 1
      /\ \A i \in 1..(p - f + 1) : run[i] = s[f + i - 1]
  <2>1. f \in Int /\ p \in Int /\ f <= p /\ \A i \in f..p : s[i] \in Int
    BY <1>3, <1>5
  <2> QED BY <2>1, SubSeqProperties
<1> HIDE DEF run
<1>10. \A i \in 1..(e - r) : run[i] = S[r + i]
  <2> SUFFICES ASSUME NEW i \in 1..(e - r) PROVE run[i] = S[r + i]
    OBVIOUS
  <2>1. f + i - 1 \in 1..Len(s) /\ o + (f + i - 1) = r + i
    BY <1>1, <1>3, <1>5
  <2> QED BY <1>3, <1>5, <1>9, <2>1
<1>11. RunFrom(r, e)
  BY <1>1, <1>5, <1>8, <1>9, <1>10 DEF RunFrom, S
<1> QED BY <1>1, <1>11

\* The legs of the prediction: the integration accepts them, they lead from
\* the filter's time to the scan's end, and each is between neighbours.
LEMMA PredictedLegs ==
  ASSUME NEW m \in Nat, NEW r \in Nat, m \in 1..Len(imuSeen), r \in 1..Len(imuSeen),
         PlacedGroup(m, r), eskfTime < group.end
  PROVE  /\ ~predictionFault => PredictOk(group)
         /\ PredictLegs(group) \in Seq(Legs)
         /\ Path(PredictLegs(group), eskfTime, group.end)
         /\ \A i \in DOMAIN PredictLegs(group) : Adjacent(imuSeen, PredictLegs(group)[i])
<1> DEFINE S == imuSeen
           run == RunTo(group)
           left == lastImuRaw
           end == group.end
           L == LegsAlong(run, left, eskfTime, end)
<1>0. /\ Len(S) \in Nat /\ S \in Seq(Int) /\ Spaced(S) /\ Rising(S)
      /\ \A i \in 1..Len(S) : S[i] \in Int /\ S[i] \in Nat
      /\ end \in Int /\ eskfTime \in Int /\ eskfTime < end
      /\ left = S[r]
      /\ \A i \in 1..Len(S) : i <= r <=> S[i] <= eskfTime
  BY DEF PlacedGroup, SampleStream, LioTypes, RawAt, Spaced
<1>1. PICK e \in Nat : r < e /\ e <= m /\ RunFrom(r, e)
  BY PredictedRun
<1>2. /\ run \in Seq(Int) /\ Len(run) = e - r /\ e - r \in Nat \ {0}
      /\ \A i \in 1..(e - r) : run[i] = S[r + i]
      /\ \A i \in 1..Len(S) : S[i] >= end <=> e <= i
  BY <1>1 DEF RunFrom
<1>3. r \in 1..Len(S) /\ e \in 1..Len(S) /\ r + 1 \in 1..Len(S) /\ e - (e - r) = r
  BY <1>0, <1>1
<1>4. PredictLegs(group) = L
  BY DEF PredictLegs
<1>5. left \in Nat /\ left <= eskfTime
  BY <1>0, <1>3
<1> HIDE DEF S, run, left, end
<1>6. run # <<>> /\ Len(run) < e /\ left = S[e - Len(run)]
  BY <1>0, <1>1, <1>2, <1>3
<1>7. EndsAt(run, S, e)
  BY <1>1, <1>2, <1>3 DEF EndsAt
<1>8. eskfTime < run[1]
  <2>1. 1 \in 1..(e - r) /\ run[1] = S[r + 1]
    BY <1>2
  <2>2. S[r + 1] > eskfTime
    BY <1>0, <1>3
  <2> QED BY <2>1, <2>2
<1>9. end <= Last(run)
  <2>1. e - r \in 1..(e - r) /\ r + (e - r) = e
    BY <1>1, <1>2
  <2>2. Last(run) = S[e]
    BY <1>2, <2>1 DEF Last
  <2>3. S[e] >= end
    BY <1>2, <1>3
  <2> QED BY <1>0, <1>3, <2>2, <2>3
<1>10. Len(run) > 1 => run[Len(run) - 1] < end
  <2> SUFFICES ASSUME Len(run) > 1 PROVE run[Len(run) - 1] < end
    OBVIOUS
  <2> DEFINE k == Len(run) - 1
  <2>1. k \in 1..(e - r) /\ r + k = e - 1 /\ e - 1 \in 1..Len(S) /\ ~(e <= e - 1)
    BY <1>1, <1>2, <1>3
  <2> HIDE DEF k
  <2>2. run[k] = S[e - 1]
    BY <1>2, <2>1
  <2>3. ~(S[e - 1] >= end) /\ S[e - 1] \in Int
    BY <1>0, <1>2, <2>1
  <2>4. run[k] < end
    BY <1>0, <2>2, <2>3
  <2> QED BY <2>4 DEF k
<1>11. /\ L \in Seq(Legs) /\ L # <<>>
       /\ AllLegsOk(L) /\ Path(L, eskfTime, end)
       /\ \A i \in DOMAIN L : Adjacent(S, L[i])
  <2>1. S \in Seq(Int) /\ Spaced(S) /\ e \in Nat /\ run \in Seq(Int)
    BY <1>0, <1>1, <1>2
  <2>2. eskfTime \in Int /\ end \in Int /\ eskfTime < end
    BY <1>0
  <2> QED BY <1>5, <1>6, <1>7, <1>8, <1>9, <1>10, <2>1, <2>2, LegsAlongPath
<1> HIDE DEF L
<1>12. Last(L).to = end
  BY <1>11 DEF Path, Last
<1>13. left # NoSample
  BY <1>5 DEF NoSample
<1>14. ~predictionFault => PredictOk(group)
  BY <1>4, <1>6, <1>11, <1>12, <1>13 DEF PredictOk, run, left, end
<1> QED BY <1>4, <1>11, <1>14 DEF S, end

\* The raw left sample of the next prediction: the last one not later than
\* the scan's end.
LEMMA NextRawIs ==
  ASSUME NEW m \in Nat, NEW r \in Nat, m \in 1..Len(imuSeen), r \in 1..Len(imuSeen),
         PlacedGroup(m, r), eskfTime < group.end
  PROVE  \E k \in 1..Len(imuSeen) :
           /\ NextRaw(group) = imuSeen[k]
           /\ \A i \in 1..Len(imuSeen) : i <= k <=> imuSeen[i] <= group.end
<1> DEFINE S == imuSeen
           run == RunTo(group)
           end == group.end
           K == {i \in 1..Len(run) : run[i] <= end}
           reached == IF K # {} THEN Max(K) ELSE 0
<1>0. /\ Len(S) \in Nat /\ Rising(S)
      /\ \A i \in 1..Len(S) : S[i] \in Int
      /\ end \in Int /\ lastImuRaw = S[r]
      /\ m \in Nat /\ m <= Len(S)
  BY DEF PlacedGroup, SampleStream, LioTypes, RawAt, Spaced
<1>1. PICK e \in Nat : r < e /\ e <= m /\ RunFrom(r, e)
  BY PredictedRun
<1>2. /\ Len(run) = e - r
      /\ \A i \in 1..(e - r) : run[i] = S[r + i]
      /\ \A i \in 1..Len(S) : S[i] >= end <=> e <= i
  BY <1>1 DEF RunFrom
<1>3. NextRaw(group) = IF reached = 0 THEN lastImuRaw ELSE run[reached]
  BY DEF NextRaw, SelectLastInSeq
<1> DEFINE k == IF S[e] = end THEN e ELSE e - 1
<1>4. r \in 1..Len(S) /\ e \in 1..Len(S) /\ k \in 1..Len(S) /\ r <= k /\ k <= e
  BY <1>0, <1>1
<1> HIDE DEF S, run, end
<1>5. \A i \in 1..Len(S) : i <= k <=> S[i] <= end
  <2> SUFFICES ASSUME NEW i \in 1..Len(S) PROVE i <= k <=> S[i] <= end
    OBVIOUS
  <2>1. S[e] \in Int /\ S[i] \in Int /\ end \in Int /\ S[e] >= end /\ i \in Nat
    BY <1>0, <1>2, <1>4
  <2>2. e < i => S[e] < S[i]
    BY <1>0, <1>4 DEF Rising
  <2>3. S[i] >= end <=> e <= i
    BY <1>2
  <2>4. i = e => S[i] = S[e]
    OBVIOUS
  <2> QED BY <1>1, <2>1, <2>2, <2>3, <2>4
<1> HIDE DEF k
<1>6. \A i \in 1..Len(run) : i \in K <=> i <= k - r
  <2> SUFFICES ASSUME NEW i \in 1..Len(run) PROVE i \in K <=> i <= k - r
    OBVIOUS
  <2>1. run[i] = S[r + i] /\ r + i \in 1..Len(S)
    BY <1>0, <1>1, <1>2, <1>4
  <2>2. r + i <= k <=> S[r + i] <= end
    BY <1>5, <2>1
  <2>3. r + i <= k <=> i <= k - r
    BY <1>1, <1>2, <1>4
  <2> QED BY <2>1, <2>2, <2>3
<1>7. K \in SUBSET Int /\ K \subseteq 1..Len(run)
  OBVIOUS
<1> HIDE DEF K
<1>8. NextRaw(group) = S[k]
  <2>1. CASE k = r
    <3>1. K = {}
      <4> SUFFICES ASSUME NEW i \in K PROVE FALSE
        OBVIOUS
      <4>1. i \in 1..Len(run) /\ i <= 0
        BY <1>1, <1>6, <1>7, <2>1
      <4> QED BY <4>1
    <3> QED BY <1>0, <1>3, <2>1, <3>1
  <2>2. CASE k # r
    <3>1. k - r \in 1..Len(run) /\ r + (k - r) = k
      BY <1>1, <1>2, <1>4, <2>2
    <3>2. k - r \in K /\ \A i \in K : i <= k - r
      BY <1>6, <1>7, <3>1
    <3>3. Max(K) = k - r
      BY <1>7, <3>2, LastIs
    <3>4. reached = k - r /\ reached # 0
      BY <3>1, <3>2, <3>3
    <3> HIDE DEF reached
    <3>5. NextRaw(group) = run[k - r]
      BY <1>3, <3>4
    <3> QED BY <1>2, <3>1, <3>5
  <2> QED BY <2>1, <2>2
<1> QED BY <1>4, <1>5, <1>8 DEF S, end

\* A prediction that succeeds moves the filter on, along the samples it has.
LEMMA PredictAdvances ==
  ASSUME group.imu \in Seq(Int), group.end \in Int, eskfTime \in Int, PredictOk(group)
  PROVE  eskfTime < group.end
<1> DEFINE run == RunTo(group)
<1>1. run \in Seq(Int) /\ run # <<>>
  BY RunIsRun DEF PredictOk
<1>2. /\ AllLegsOk(LegsAlong(run, lastImuRaw, eskfTime, group.end))
      /\ Last(LegsAlong(run, lastImuRaw, eskfTime, group.end)).to = group.end
  BY DEF PredictOk, PredictLegs
<1> HIDE DEF run
<1> QED BY <1>1, <1>2, LegsAdvance

-----------------------------------------------------------------------------
(* The steps.                                                              *)
LEMMA LioStutters ==
  ASSUME LioInv, UNCHANGED lioVars
  PROVE  LioInv'
<1> USE DEF lioVars, bufVars, queueVars, historyVars, frameVars
<1>1. SampleStream' /\ LioTypes'
  BY DEF LioInv, SampleStream, LioTypes, Timed
<1>2. Queued' /\ Grouped'
  BY DEF LioInv, Queued, Grouped, Covered, CutAt
<1>3. Placed' /\ InTurn'
  BY DEF LioInv, Placed, RawAt, InTurn, Covered
<1>4. Mapped' /\ PredictionIsExact' /\ MapOnlyFromAccepted'
  BY DEF LioInv, Mapped, Accepted, PredictionIsExact, MapOnlyFromAccepted
<1> QED BY <1>1, <1>2, <1>3, <1>4 DEF LioInv

LEMMA LioStarts ==
  ASSUME LioInit
  PROVE  LioInv
<1> USE DEF LioInit, BuffersInit, FrameInit
<1>1. SampleStream
  BY DEF SampleStream, Spaced, Rising
<1>2. LioTypes
  <2>1. Timed(lidarBuf)
    <3>1. lidarBuf \in Seq({})
      OBVIOUS
    <3> QED BY <3>1 DEF Timed
  <2>2. group.end \in Int /\ coveredTo \in Int
    BY DEF NoGroup
  <2>3. needInit \in BOOLEAN /\ predictionFault \in BOOLEAN /\ lioStopping \in BOOLEAN
    OBVIOUS
  <2>4. eskfTime \in Int /\ stateSequence \in Nat
    OBVIOUS
  <2> QED BY <2>1, <2>2, <2>3, <2>4 DEF LioTypes
<1>3. Queued /\ Grouped
  BY DEF Queued, Grouped, Covered, EndsAt, NoGroup
<1>4. Placed /\ InTurn /\ Mapped /\ PredictionIsExact /\ MapOnlyFromAccepted
  BY DEF Placed, InTurn, Mapped, PredictionIsExact, MapOnlyFromAccepted
<1> QED BY <1>1, <1>2, <1>3, <1>4 DEF LioInv

\* A sample is queued; nothing else changes, and what the group and the filter
\* rest on stays where it is in the stream.
LEMMA PushPreserves ==
  ASSUME LioInv, NEW ts \in Int, imuSeen # <<>> => ts - Last(imuSeen) \in 1..Gap,
         PushImu(ts), UNCHANGED frameVars
  PROVE  LioInv'
<1> DEFINE S == imuSeen
           T == Append(imuSeen, ts)
<1>0. /\ lastImu' = ts /\ imuBuf' = Append(imuBuf, ts) /\ imuSeen' = T /\ ts > lastImu
      /\ UNCHANGED <<lidarBuf, lioStopping, group, coveredTo, frameVars>>
  BY DEF PushImu, ImuAdmissible
<1>1. /\ S \in Seq(Int) /\ Spaced(S) /\ \A i \in 1..Len(S) : S[i] \in Nat
      /\ lastImu \in Int /\ lastImu >= -1 /\ Len(S) \in Nat
      /\ group.end \in Int /\ coveredTo \in Int /\ eskfTime \in Int
  BY DEF LioInv, SampleStream, LioTypes
<1>2. /\ T \in Seq(Int) /\ Len(T) = Len(S) + 1 /\ T[Len(S) + 1] = ts
      /\ \A i \in 1..Len(S) : T[i] = S[i]
  BY <1>1
<1>3. Spaced(T)
  BY <1>1, SpacedGrows
<1>4. S # <<>> => Len(S) \in 1..Len(S) /\ Last(S) = S[Len(S)] /\ Last(S) \in Nat /\ Last(S) < ts
  <2> SUFFICES ASSUME S # <<>>
               PROVE  Len(S) \in 1..Len(S) /\ Last(S) = S[Len(S)] /\ Last(S) \in Nat /\ Last(S) < ts
    OBVIOUS
  <2>1. Len(S) \in 1..Len(S) /\ Last(S) = S[Len(S)]
    BY <1>1 DEF Last
  <2>2. Last(S) \in Nat /\ ts - Last(S) \in 1..Gap
    BY <1>1, <2>1
  <2>3. Gap \in Nat
    BY PropagationAssumption
  <2> QED BY <2>1, <2>2, <2>3
<1>5. ts \in Nat
  BY <1>0, <1>1
<1>6. Last(T) = ts /\ T # <<>>
  BY <1>2 DEF Last
<1>7. \A i \in 1..Len(S) : S[i] <= Last(S) /\ S[i] < ts
  <2> SUFFICES ASSUME NEW i \in 1..Len(S) PROVE S[i] <= Last(S) /\ S[i] < ts
    OBVIOUS
  <2>1. S # <<>>
    BY <1>1
  <2>2. i < Len(S) => S[i] < S[Len(S)]
    BY <1>1, <1>4, <2>1 DEF Spaced, Rising
  <2> QED BY <1>1, <1>4, <2>1, <2>2
<1> HIDE DEF S, T
<1>14. Len(S) \in Nat /\ Len(T) = Len(S) + 1
  BY <1>1, <1>2
<1>8. SampleStream'
  <2>1. \A i \in 1..Len(T) : T[i] \in Nat
    <3> SUFFICES ASSUME NEW i \in 1..Len(T) PROVE T[i] \in Nat
      OBVIOUS
    <3>1. i \in 1..Len(S) \/ i = Len(S) + 1
      BY <1>1, <1>2
    <3> QED BY <1>1, <1>2, <1>5, <3>1
  <2> QED BY <1>0, <1>2, <1>3, <1>5, <2>1 DEF SampleStream
<1>9. LioTypes' /\ Mapped' /\ MapOnlyFromAccepted' /\ InTurn'
  BY <1>0 DEF LioInv, LioTypes, Mapped, MapOnlyFromAccepted, InTurn, Covered, Accepted, frameVars
<1>10. Queued'
  <2>1. /\ imuBuf \in Seq(Int) /\ EndsAt(imuBuf, S, Len(S))
        /\ Covered > -1 => S # <<>> /\ Covered <= Last(S)
        /\ \A i \in 1..Len(S) : i <= Len(S) - Len(imuBuf) <=> S[i] <= Covered
    BY DEF LioInv, Queued, S
  <2>2. Covered' = Covered /\ Covered \in Int
    BY <1>0, <1>1 DEF Covered
  <2>3. Covered < ts
    BY <1>4, <1>5, <2>1, <2>2
  <2> DEFINE b == Append(imuBuf, ts)
  <2>4. b \in Seq(Int) /\ Len(b) = Len(imuBuf) + 1 /\ Len(imuBuf) \in Nat
    BY <2>1
  <2>5. EndsAt(b, T, Len(T))
    BY <1>1, <1>2, <2>1, RunGrows DEF T, S
  <2> HIDE DEF b
  <2>6. ASSUME NEW i \in 1..Len(T) PROVE i <= Len(T) - Len(b) <=> T[i] <= Covered
    <3>1. Len(T) - Len(b) = Len(S) - Len(imuBuf) /\ Len(S) - Len(imuBuf) <= Len(S)
      BY <1>1, <1>2, <2>4
    <3>2. CASE i \in 1..Len(S)
      BY <1>2, <2>1, <3>1, <3>2
    <3>3. CASE i = Len(S) + 1
      <4>1. T[i] = ts /\ ~(i <= Len(S) - Len(imuBuf))
        BY <1>1, <1>2, <2>4, <3>1, <3>3
      <4> QED BY <2>2, <2>3, <3>1, <4>1
    <3> QED BY <1>1, <1>2, <3>2, <3>3
  <2>7. Covered > -1 => T # <<>> /\ Covered <= Last(T)
    BY <1>6, <2>2, <2>3
  <2>8. imuBuf' = b
    BY <1>0 DEF b
  <2> QED BY <1>0, <2>2, <2>4, <2>5, <2>6, <2>7, <2>8 DEF Queued
<1>11. Grouped'
  <2>1. group # NoGroup => \E m \in 1..Len(T) : CutAt(m)'
    <3> SUFFICES ASSUME group # NoGroup PROVE \E m \in 1..Len(T) : CutAt(m)'
      OBVIOUS
    <3>1. PICK m \in 1..Len(S) : CutAt(m)
      BY DEF LioInv, Grouped, S
    <3> DEFINE g == group.imu
    <3>2. /\ g \in Seq(Int) /\ g # <<>> /\ EndsAt(g, S, m)
          /\ S[m] >= group.end /\ (Len(g) > 1 => S[m - 1] <= group.end)
          /\ \A i \in 1..Len(S) : i <= m - Len(g) <=> S[i] <= coveredTo
      BY <3>1 DEF CutAt, S
    <3>3. Len(g) \in Nat \ {0} /\ m \in Nat /\ m <= Len(S) /\ m \in 1..Len(T) /\ Len(g) <= m
      BY <1>1, <1>2, <3>2, SMTT(30) DEF EndsAt
    <3> HIDE DEF g
    <3>4. EndsAt(g, T, m)
      BY <1>1, <3>2, <3>3, RunStays DEF T, S
    <3>5. T[m] = S[m] /\ (Len(g) > 1 => T[m - 1] = S[m - 1])
      BY <1>2, <3>3, SMTT(30)
    <3>6. coveredTo < ts
      <4>1. S[m] > coveredTo
        <5>1. ~(m <= m - Len(g))
          BY <3>3
        <5> QED BY <1>1, <3>2, <5>1
      <4> QED BY <1>1, <1>5, <1>7, <4>1
    <3>7. ASSUME NEW i \in 1..Len(T) PROVE i <= m - Len(g) <=> T[i] <= coveredTo
      <4>1. CASE i \in 1..Len(S)
        BY <1>2, <3>2, <4>1
      <4>2. CASE i = Len(S) + 1
        <5>1. ~(i <= m - Len(g)) /\ T[i] = ts
          BY <1>1, <1>2, <3>3, <4>2
        <5> QED BY <1>1, <3>6, <5>1
      <4>3. i \in 1..Len(S) \/ i = Len(S) + 1
        BY <1>14
      <4> QED BY <4>1, <4>2, <4>3
    <3>8. CutAt(m)'
      BY <1>0, <3>2, <3>4, <3>5, <3>7 DEF CutAt, g
    <3> QED BY <3>3, <3>8
  <2>2. lpc' = "frame" => group' # NoGroup
    BY <1>0 DEF LioInv, Grouped, frameVars
  <2> QED BY <1>0, <2>1, <2>2 DEF Grouped
<1>12. Placed'
  <2> SUFFICES ASSUME ~needInit PROVE \E r \in 1..Len(T) : RawAt(r)'
    BY <1>0 DEF Placed, frameVars
  <2>1. PICK r \in 1..Len(S) : RawAt(r)
    BY DEF LioInv, Placed, S
  <2>2. /\ lastImuRaw = S[r] /\ eskfTime <= Last(S)
        /\ \A i \in 1..Len(S) : i <= r <=> S[i] <= eskfTime
    BY <2>1 DEF RawAt, S
  <2>3. S # <<>> /\ r \in 1..Len(T) /\ T[r] = S[r] /\ r <= Len(S)
    BY <1>1, <1>2
  <2>4. eskfTime < ts
    BY <1>1, <1>4, <2>2, <2>3
  <2>5. ASSUME NEW i \in 1..Len(T) PROVE i <= r <=> T[i] <= eskfTime
    <3>1. CASE i \in 1..Len(S)
      BY <1>2, <2>2, <3>1
    <3>2. CASE i = Len(S) + 1
      <4>1. ~(i <= r) /\ T[i] = ts
        BY <1>1, <1>2, <3>2
      <4> QED BY <1>1, <2>4, <4>1
    <3>3. i \in 1..Len(S) \/ i = Len(S) + 1
      BY <1>14
    <3> QED BY <3>1, <3>2, <3>3
  <2>6. RawAt(r)'
    BY <1>0, <1>1, <1>6, <2>2, <2>3, <2>4, <2>5 DEF RawAt, frameVars
  <2> QED BY <2>3, <2>6
<1>13. PredictionIsExact'
  <2> SUFFICES ASSUME lpc = "send"
               PROVE  /\ Path(legs, startTime, group.end)
                      /\ \A i \in DOMAIN legs : Adjacent(T, legs[i])
    BY <1>0 DEF PredictionIsExact, frameVars
  <2>1. /\ Path(legs, startTime, group.end)
        /\ \A i \in DOMAIN legs : Adjacent(S, legs[i])
    BY DEF LioInv, PredictionIsExact, S
  <2> QED BY <1>1, <2>1, AdjacentStays DEF S, T
<1> QED BY <1>8, <1>9, <1>10, <1>11, <1>12, <1>13 DEF LioInv

\* What a cut leaves in the queue: the samples no scan's end has passed.
LEMMA QueueAfterCut ==
  ASSUME SampleStream, Queued, Covered \in Int, NEW end \in Int,
         imuBuf # <<>>, imuBuf[Len(imuBuf)] >= end,
         NEW b, b = From(imuBuf, Consumed(end) + 1),
         NEW c, c = IF end > Covered THEN end ELSE Covered
  PROVE  /\ b \in Seq(Int) /\ EndsAt(b, imuSeen, Len(imuSeen))
         /\ imuSeen # <<>> /\ c <= Last(imuSeen)
         /\ \A i \in 1..Len(imuSeen) : i <= Len(imuSeen) - Len(b) <=> imuSeen[i] <= c
<1> DEFINE S == imuSeen
           n == Consumed(end)
           q == Len(S) - Len(imuBuf)
<1>0. /\ S \in Seq(Int) /\ Len(S) \in Nat /\ Rising(S) /\ \A i \in 1..Len(S) : S[i] \in Int
      /\ imuBuf \in Seq(Int) /\ Len(imuBuf) \in Nat \ {0}
      /\ \A i \in 1..Len(imuBuf) : imuBuf[i] \in Int
      /\ q \in Nat /\ q + Len(imuBuf) = Len(S)
      /\ \A i \in 1..Len(imuBuf) : imuBuf[i] = S[q + i]
  BY DEF SampleStream, Spaced, Queued, EndsAt
<1>1. /\ n \in 0..Len(imuBuf)
      /\ \A i \in 1..n : imuBuf[i] <= end
      /\ n < Len(imuBuf) => imuBuf[n + 1] > end
  BY <1>0, ConsumedIs
<1>2. /\ \A i \in 1..Len(S) : i <= q <=> S[i] <= Covered
      /\ Covered > -1 => Covered <= Last(S)
  BY DEF Queued
<1>3. b = SubSeq(imuBuf, n + 1, Len(imuBuf))
  BY DEF From
<1>4. c \in Int /\ c >= end /\ c >= Covered /\ (c = end \/ c = Covered)
  OBVIOUS
<1> HIDE DEF S, n, q
<1>5. /\ b \in Seq(Int) /\ Len(b) = Len(imuBuf) - n
      /\ \A i \in 1..(Len(imuBuf) - n) : b[i] = imuBuf[n + i]
  <2> DEFINE lo == n + 1
             hi == Len(imuBuf)
  <2>1. lo \in Int /\ hi \in Int /\ \A i \in lo..hi : imuBuf[i] \in Int
    BY <1>0, <1>1
  <2>2. hi - lo + 1 = hi - n /\ (lo <= hi => n < hi) /\ (~(lo <= hi) => hi - n = 0)
    <3>1. n \in Nat /\ hi \in Nat /\ n <= hi
      BY <1>0, <1>1
    <3> HIDE DEF hi
    <3> QED BY <3>1
  <2>3. b = SubSeq(imuBuf, lo, hi)
    BY <1>3
  <2>4. \A i \in 1..(hi - n) : lo + i - 1 = n + i
    BY <1>1
  <2> HIDE DEF lo, hi
  <2>5. /\ b \in Seq(Int) /\ Len(b) = IF lo <= hi THEN hi - lo + 1 ELSE 0
        /\ \A i \in 1..(hi - lo + 1) : b[i] = imuBuf[lo + i - 1]
    <3> DEFINE r == SubSeq(imuBuf, lo, hi)
    <3>1. /\ r \in Seq(Int) /\ Len(r) = IF lo <= hi THEN hi - lo + 1 ELSE 0
          /\ \A i \in 1..(hi - lo + 1) : r[i] = imuBuf[lo + i - 1]
      BY <2>1, SubSeqProperties
    <3> HIDE DEF r
    <3>2. b = r
      BY <2>3 DEF r
    <3> QED BY <3>1, <3>2
  <2>6. Len(b) = hi - n
    BY <2>2, <2>5
  <2>7. \A i \in 1..(hi - n) : b[i] = imuBuf[n + i]
    BY <2>2, <2>4, <2>5
  <2> QED BY <2>5, <2>6, <2>7 DEF hi
<1>10. /\ Len(b) \in Nat /\ Len(S) - Len(b) = q + n /\ n \in Nat /\ n <= Len(imuBuf)
       /\ Len(b) <= Len(S) /\ Len(b) + n = Len(imuBuf)
  <2>1. n \in Nat /\ n <= Len(imuBuf) /\ Len(imuBuf) \in Nat /\ q \in Nat
        /\ q + Len(imuBuf) = Len(S) /\ Len(b) = Len(imuBuf) - n
    BY <1>0, <1>1, <1>5
  <2> QED BY <2>1
<1>6. EndsAt(b, S, Len(S))
  <2>1. ASSUME NEW i \in 1..Len(b) PROVE b[i] = S[Len(S) - Len(b) + i]
    <3>1. n + i \in 1..Len(imuBuf) /\ q + n + i = q + (n + i) /\ i \in 1..(Len(imuBuf) - n)
      <4>1. q \in Nat
        BY <1>0
      <4> QED BY <1>10, <4>1
    <3>2. b[i] = S[q + (n + i)]
      BY <1>0, <1>5, <3>1
    <3> QED BY <1>10, <3>1, <3>2
  <2>2. Len(b) <= Len(S) /\ Len(S) <= Len(S)
    BY <1>0, <1>10
  <2> QED BY <2>1, <2>2 DEF EndsAt
<1>7. S # <<>> /\ Last(S) = S[Len(S)] /\ Last(S) \in Int /\ end <= Last(S)
  <2>1. Len(imuBuf) \in 1..Len(imuBuf) /\ Len(S) \in 1..Len(S)
    BY <1>0
  <2>2. imuBuf[Len(imuBuf)] = S[Len(S)]
    BY <1>0, <2>1
  <2> QED BY <1>0, <2>1, <2>2 DEF Last
<1>8. c <= Last(S)
  <2>1. CASE Covered > -1
    BY <1>2, <1>4, <1>7, <2>1
  <2>2. CASE ~(Covered > -1)
    <3>1. Last(S) >= 0
      BY <1>0, <1>7 DEF SampleStream, S
    <3> QED BY <1>4, <1>7, <2>2, <3>1
  <2> QED BY <2>1, <2>2
<1>9. ASSUME NEW i \in 1..Len(S) PROVE i <= Len(S) - Len(b) <=> S[i] <= c
  <2>0. Len(S) - Len(b) = q + n /\ i \in Nat /\ n \in Nat /\ S[i] \in Int
    <3>1. S[i] \in Int /\ i \in Nat
      BY <1>0
    <3> QED BY <1>10, <3>1
  <2>1. CASE i <= q
    <3>1. S[i] <= Covered
      BY <1>2, <2>1
    <3>2. i <= q + n
      BY <1>0, <2>0, <2>1
    <3> QED BY <1>4, <2>0, <3>1, <3>2
  <2>2. CASE ~(i <= q) /\ i <= q + n
    <3> DEFINE j == i - q
    <3>1. j \in 1..n /\ j \in 1..Len(imuBuf) /\ q + j = i
      BY <1>0, <1>1, <2>0, <2>2
    <3> HIDE DEF j
    <3>2. S[i] <= end
      BY <1>0, <1>1, <3>1
    <3> QED BY <1>4, <2>0, <2>2, <3>2
  <2>3. CASE ~(i <= q + n)
    <3>1. n < Len(imuBuf) /\ n + 1 \in 1..Len(imuBuf) /\ q + n + 1 \in 1..Len(S) /\ q + n + 1 <= i
          /\ q + (n + 1) = q + n + 1
      BY <1>0, <1>1, <2>0, <2>3, SMTT(30)
    <3>2. S[q + n + 1] > end /\ S[q + n + 1] \in Int
      BY <1>0, <1>1, <3>1, SMTT(30)
    <3>3. q + n + 1 < i => S[q + n + 1] < S[i]
      BY <1>0, <3>1 DEF Rising
    <3>4. S[i] > end
      <4>1. q + n + 1 \in Nat /\ i \in Nat /\ q + n + 1 <= i
        BY <2>0, <3>1
      <4>2. CASE q + n + 1 = i
        BY <3>2, <4>2
      <4>3. CASE q + n + 1 < i
        BY <2>0, <3>2, <3>3, <4>3
      <4> QED BY <4>1, <4>2, <4>3
    <3>5. S[i] > Covered
      BY <1>0, <1>2, <2>0, <2>3
    <3> QED BY <1>4, <2>0, <2>3, <3>4, <3>5
  <2> QED BY <2>1, <2>2, <2>3
<1> QED BY <1>5, <1>6, <1>7, <1>8, <1>9 DEF S

LEMMA TailTimed ==
  ASSUME NEW q, Timed(q), q # <<>>
  PROVE  Timed(Tail(q)) /\ q[1].begin \in Int /\ q[1].end \in Int
<1>1. PICK X : q \in Seq(X) /\ \A s \in X : s.begin \in Int /\ s.end \in Int
  BY DEF Timed
<1>2. Tail(q) \in Seq(X) /\ q[1] \in X
  BY <1>1
<1> QED BY <1>1, <1>2 DEF Timed

LEMMA AppendTimed ==
  ASSUME NEW q, Timed(q), NEW s, s.begin \in Int, s.end \in Int
  PROVE  Timed(Append(q, s))
<1>1. PICK X : q \in Seq(X) /\ \A x \in X : x.begin \in Int /\ x.end \in Int
  BY DEF Timed
<1> DEFINE Y == X \cup {s}
<1>2. \A x \in Y : x.begin \in Int /\ x.end \in Int
  BY <1>1
<1>3. q \in Seq(Y)
  <2>1. Len(q) \in Nat /\ q \in [1..Len(q) -> X]
    BY <1>1
  <2>2. q \in [1..Len(q) -> Y]
    BY <2>1
  <2> HIDE DEF Y
  <2> QED BY <2>1, <2>2
<1>4. s \in Y
  OBVIOUS
<1> HIDE DEF Y
<1>5. Append(q, s) \in Seq(Y)
  BY <1>3, <1>4
<1> QED BY <1>2, <1>5 DEF Timed

\* A group is cut.
LEMMA TakePreserves ==
  ASSUME LioInv, TakeGroup
  PROVE  LioInv'
<1> DEFINE scan == lidarBuf[1]
           end == scan.end
           g == SubSeq(imuBuf, 1, Consumed(end)) \o Bracket(end)
           b == From(imuBuf, Consumed(end) + 1)
           q == Len(imuSeen) - Len(imuBuf)
           m == q + Len(g)
           c == IF end > Covered THEN end ELSE Covered
<1>1. /\ lpc = "wait" /\ lpc' = "frame" /\ ~lioStopping
      /\ lidarBuf # <<>> /\ imuBuf # <<>> /\ imuBuf[Len(imuBuf)] >= end + Delay
      /\ lidarBuf' = Tail(lidarBuf) /\ imuBuf' = b
      /\ group' = [begin |-> scan.begin, end |-> end, aux |-> AuxOf(scan), imu |-> g]
      /\ coveredTo' = Covered
      /\ UNCHANGED <<lastImu, lioStopping, imuSeen, filterVars, mapVars, verdict>>
  BY DEF TakeGroup, GetMeasurements, ScanReady, Covered
<1>2. /\ SampleStream /\ LioTypes /\ Queued
      /\ imuBuf \in Seq(Int) /\ EndsAt(imuBuf, imuSeen, Len(imuSeen))
      /\ imuSeen \in Seq(Int)
  BY DEF LioInv, Queued, SampleStream
<1>3. Timed(Tail(lidarBuf)) /\ end \in Int
  BY <1>1, <1>2, TailTimed DEF LioTypes
<1>4. imuBuf[Len(imuBuf)] >= end /\ Len(imuBuf) \in Nat \ {0} /\ Len(imuSeen) \in Nat
  <2>1. Delay \in Nat
    BY BuffersAssumption
  <2>2. Len(imuBuf) \in 1..Len(imuBuf) /\ imuBuf[Len(imuBuf)] \in Int
    BY <1>1, <1>2
  <2> QED BY <1>1, <1>2, <1>3, <2>1, <2>2, SMTT(30)
<1>5. Covered \in Int
  BY <1>2 DEF LioTypes, Covered
<1> HIDE DEF end
<1>6. /\ g \in Seq(Int) /\ Len(g) \in 1..Len(imuBuf)
      /\ EndsAt(g, imuSeen, m)
      /\ imuSeen[m] >= end
      /\ Len(g) > 1 => imuSeen[m - 1] <= end
  <2>1. g = SubSeq(imuBuf, 1, Consumed(end)) \o Bracket(end) /\ q = Len(imuSeen) - Len(imuBuf)
    OBVIOUS
  <2> HIDE DEF g, q
  <2>2. imuBuf # <<>> /\ SampleStream
    BY <1>1, <1>2
  <2>3. imuBuf[Len(imuBuf)] >= end
    BY <1>4
  <2>4. imuBuf \in Seq(Int) /\ EndsAt(imuBuf, imuSeen, Len(imuSeen)) /\ end \in Int
    BY <1>2, <1>3
  <2>5. /\ g \in Seq(Int) /\ Len(g) \in 1..Len(imuBuf)
        /\ EndsAt(g, imuSeen, q + Len(g))
        /\ imuSeen[q + Len(g)] >= end
        /\ Len(g) > 1 => imuSeen[q + Len(g) - 1] <= end
    <3> HIDE DEF m, scan, b, c
    <3> QED BY <2>1, <2>2, <2>3, <2>4, CutRun
  <2>6. m = q + Len(g) /\ q \in Int /\ Len(g) \in Nat
    BY <1>4, <2>1, <2>5
  <2> HIDE DEF m
  <2> QED BY <2>5, <2>6
<1>7. /\ b \in Seq(Int) /\ EndsAt(b, imuSeen, Len(imuSeen))
      /\ imuSeen # <<>> /\ c <= Last(imuSeen)
      /\ \A i \in 1..Len(imuSeen) : i <= Len(imuSeen) - Len(b) <=> imuSeen[i] <= c
  BY <1>1, <1>2, <1>3, <1>4, <1>5, QueueAfterCut
<1> HIDE DEF g, b, c
<1>8. group'.end = end /\ group'.imu = g
  BY <1>1
<1>9. Covered' = c
  BY <1>1, <1>8 DEF Covered, c
<1>10. SampleStream'
  BY <1>1, <1>2 DEF SampleStream
<1>11. LioTypes'
  <2>1. Timed(lidarBuf')
    BY <1>1, <1>3
  <2>2. (group.end)' \in Int /\ coveredTo' \in Int
    BY <1>1, <1>3, <1>5, <1>8
  <2> QED BY <1>1, <1>2, <2>1, <2>2 DEF LioTypes, Timed, filterVars
<1>12. Queued'
  BY <1>1, <1>7, <1>9 DEF Queued
<1>13. Grouped'
  <2>1. m \in 1..Len(imuSeen) /\ m - Len(g) = q
    <3>1. q \in Nat /\ q + Len(imuBuf) = Len(imuSeen) /\ Len(g) \in 1..Len(imuBuf)
      BY <1>2, <1>4, <1>6 DEF EndsAt
    <3> HIDE DEF q
    <3> QED BY <1>4, <3>1
  <2>2. \A i \in 1..Len(imuSeen) : i <= m - Len(g) <=> imuSeen[i] <= Covered
    BY <1>2, <2>1 DEF Queued
  <2>3. g # <<>>
    BY <1>6
  <2>4. \E k \in 1..Len(imuSeen) : CutAt(k)'
    <3>0. PICK k \in 1..Len(imuSeen) : k = m
      BY <2>1
    <3> HIDE DEF m
    <3>1. imuSeen' = imuSeen /\ coveredTo' = Covered
      BY <1>1
    <3>2. (group.imu)' = g /\ (group.end)' = end
      BY <1>8
    <3>3. /\ g \in Seq(Int) /\ g # <<>> /\ EndsAt(g, imuSeen, k)
          /\ imuSeen[k] >= end
          /\ Len(g) > 1 => imuSeen[k - 1] <= end
      BY <1>6, <2>3, <3>0
    <3>4. \A i \in 1..Len(imuSeen) : i <= k - Len(g) <=> imuSeen[i] <= Covered
      BY <2>2, <3>0
    <3>5. CutAt(k)'
      BY <3>1, <3>2, <3>3, <3>4 DEF CutAt
    <3> QED BY <3>5
  <2>5. group' # NoGroup
    BY <1>8, <2>3 DEF NoGroup
  <2>6. imuSeen' = imuSeen
    BY <1>1
  <2>7. \E k \in 1..Len(imuSeen') : CutAt(k)'
    BY <2>4, <2>6
  <2> QED BY <2>5, <2>7 DEF Grouped
<1>14. Placed'
  BY <1>1 DEF LioInv, Placed, RawAt, filterVars
<1>15. InTurn'
  BY <1>1 DEF LioInv, InTurn, filterVars
<1>16. Mapped' /\ PredictionIsExact' /\ MapOnlyFromAccepted'
  BY <1>1 DEF LioInv, Mapped, PredictionIsExact, MapOnlyFromAccepted, filterVars, mapVars
<1> QED BY <1>10, <1>11, <1>12, <1>13, <1>14, <1>15, <1>16 DEF LioInv

\* What the worker's private steps leave alone.
LEMMA QueuesStay ==
  ASSUME LioInv, UNCHANGED bufVars
  PROVE  /\ SampleStream' /\ Queued' /\ Timed(lidarBuf)'
         /\ Covered' = Covered
         /\ group # NoGroup => \E m \in 1..Len(imuSeen) : CutAt(m) /\ CutAt(m)'
         /\ UNCHANGED <<group, coveredTo, imuSeen, lioStopping>>
<1> USE DEF bufVars, queueVars, historyVars
<1>1. SampleStream' /\ Queued' /\ Covered' = Covered
  BY DEF LioInv, SampleStream, Queued, Covered
<1>2. Timed(lidarBuf)'
  BY DEF LioInv, LioTypes, Timed
<1>3. group # NoGroup => \E m \in 1..Len(imuSeen) : CutAt(m) /\ CutAt(m)'
  BY DEF LioInv, Grouped, CutAt
<1> QED BY <1>1, <1>2, <1>3

\* The frame that starts the filter, or leaves it waiting for more samples.
LEMMA InitFramePreserves ==
  ASSUME LioInv, InitFrame(group), UNCHANGED bufVars
  PROVE  LioInv'
<1>0. /\ SampleStream' /\ Queued' /\ Timed(lidarBuf)' /\ Covered' = Covered
      /\ group # NoGroup => \E m \in 1..Len(imuSeen) : CutAt(m) /\ CutAt(m)'
      /\ UNCHANGED <<group, coveredTo, imuSeen, lioStopping>>
  BY QueuesStay
<1>1. /\ lpc = "frame" /\ needInit /\ lpc' = "wait"
      /\ UNCHANGED <<predictionFault, stateSequence, legs, startTime, verdict, mapVars>>
      /\ \/ StartFilter(group)
         \/ UNCHANGED <<needInit, eskfTime, lastImuRaw, lastAccepted>>
  BY DEF InitFrame
<1>2. PICK m \in 1..Len(imuSeen) : CutAt(m) /\ CutAt(m)'
  BY <1>0, <1>1 DEF LioInv, Grouped
<1>3. /\ Len(imuSeen) \in Nat /\ m \in Nat /\ \A i \in 1..Len(imuSeen) : imuSeen[i] \in Int
      /\ Rising(imuSeen)
      /\ group.end \in Int /\ coveredTo \in Int
  BY DEF LioInv, SampleStream, LioTypes, Spaced
<1>4. Last(group.imu) = imuSeen[m]
  <2> DEFINE g == group.imu
  <2>1. g \in Seq(Int) /\ g # <<>> /\ EndsAt(g, imuSeen, m)
    BY <1>2 DEF CutAt
  <2> HIDE DEF g
  <2>2. Len(g) \in Nat \ {0} /\ Len(g) \in 1..Len(g)
    BY <2>1
  <2>3. m - Len(g) + Len(g) = m
    BY <1>3, <2>2
  <2>4. g[Len(g)] = imuSeen[m]
    BY <2>1, <2>2, <2>3 DEF EndsAt
  <2> QED BY <2>4 DEF Last, g
<1>5. LioTypes'
  <2>1. needInit' \in BOOLEAN /\ predictionFault' \in BOOLEAN /\ lioStopping' \in BOOLEAN
    BY <1>0, <1>1 DEF LioInv, LioTypes, StartFilter
  <2>2. eskfTime' \in Int
    BY <1>1, <1>3, <1>4 DEF LioInv, LioTypes, StartFilter
  <2>3. stateSequence' \in Nat /\ (group.end)' \in Int /\ coveredTo' \in Int
    BY <1>0, <1>1, <1>3 DEF LioInv, LioTypes
  <2> QED BY <1>0, <2>1, <2>2, <2>3 DEF LioTypes
<1>6. Grouped'
  BY <1>0, <1>1, <1>2 DEF Grouped
<1>7. ASSUME StartFilter(group) PROVE Placed' /\ InTurn'
  <2>1. /\ needInit' = FALSE /\ eskfTime' = imuSeen[m] /\ lastImuRaw' = imuSeen[m]
    BY <1>4, <1>7 DEF StartFilter
  <2>2. ASSUME NEW i \in 1..Len(imuSeen) PROVE i <= m <=> imuSeen[i] <= imuSeen[m]
    <3>1. i < m => imuSeen[i] < imuSeen[m]
      BY <1>3 DEF Rising
    <3>2. m < i => imuSeen[m] < imuSeen[i]
      BY <1>3 DEF Rising
    <3>3. i \in Nat /\ imuSeen[i] \in Int /\ imuSeen[m] \in Int
      BY <1>3
    <3> QED BY <1>3, <3>1, <3>2, <3>3
  <2>3. imuSeen[m] <= Last(imuSeen)
    <3>1. Len(imuSeen) \in 1..Len(imuSeen) /\ m <= Len(imuSeen)
      BY <1>3
    <3>2. m < Len(imuSeen) => imuSeen[m] < imuSeen[Len(imuSeen)]
      BY <1>3, <3>1 DEF Rising
    <3>3. imuSeen[m] \in Int /\ imuSeen[Len(imuSeen)] \in Int
      BY <1>3, <3>1
    <3> QED BY <1>3, <3>1, <3>2, <3>3 DEF Last
  <2>4. RawAt(m)'
    BY <1>0, <2>1, <2>2, <2>3 DEF RawAt
  <2>5. Covered <= imuSeen[m]
    <3> DEFINE g == group.imu
    <3>1. g \in Seq(Int) /\ g # <<>> /\ imuSeen[m] >= group.end
          /\ (m <= m - Len(g) <=> imuSeen[m] <= coveredTo)
      BY <1>2 DEF CutAt
    <3>2. Len(g) \in Nat \ {0}
      BY <3>1
    <3>3. ~(m <= m - Len(g))
      BY <1>3, <3>2
    <3> HIDE DEF g
    <3>4. imuSeen[m] > coveredTo /\ imuSeen[m] \in Int
      BY <1>3, <3>1, <3>3
    <3> QED BY <1>3, <3>1, <3>4 DEF Covered
  <2>6. Placed' /\ InTurn'
    <3>1. Placed'
      BY <1>0, <2>4 DEF Placed
    <3>2. InTurn'
      BY <1>0, <1>1, <2>1, <2>5 DEF InTurn
    <3> QED BY <3>1, <3>2
  <2> QED BY <2>6
<1>8. ASSUME UNCHANGED <<needInit, eskfTime, lastImuRaw, lastAccepted>>
      PROVE  Placed' /\ InTurn'
  BY <1>0, <1>1, <1>8 DEF LioInv, Placed, InTurn
<1>9. Mapped' /\ PredictionIsExact' /\ MapOnlyFromAccepted'
  BY <1>1 DEF LioInv, Mapped, PredictionIsExact, MapOnlyFromAccepted, mapVars
<1>10. Placed' /\ InTurn'
  BY <1>1, <1>7, <1>8
<1> QED BY <1>0, <1>5, <1>6, <1>9, <1>10 DEF LioInv

\* The prediction fails and stays failed.
LEMMA PredictFailsPreserves ==
  ASSUME LioInv, PredictFails(group), UNCHANGED bufVars
  PROVE  LioInv'
<1>0. /\ SampleStream' /\ Queued' /\ Timed(lidarBuf)' /\ Covered' = Covered
      /\ group # NoGroup => \E m \in 1..Len(imuSeen) : CutAt(m) /\ CutAt(m)'
      /\ UNCHANGED <<group, coveredTo, imuSeen, lioStopping>>
  BY QueuesStay
<1>1. /\ lpc' = "fail" /\ predictionFault' = TRUE
      /\ UNCHANGED <<needInit, initStamps, eskfTime, lastImuRaw, stateSequence,
                     lastAccepted, legs, startTime, verdict, mapVars>>
  BY DEF PredictFails
<1>2. LioTypes' /\ Grouped'
  <2>1. needInit' \in BOOLEAN /\ predictionFault' \in BOOLEAN /\ lioStopping' \in BOOLEAN
    BY <1>0, <1>1 DEF LioInv, LioTypes
  <2>2. /\ eskfTime' \in Int /\ stateSequence' \in Nat
        /\ (group.end)' \in Int /\ coveredTo' \in Int
    BY <1>0, <1>1 DEF LioInv, LioTypes
  <2> QED BY <1>0, <1>1, <2>1, <2>2 DEF LioTypes, Grouped
<1>3. Placed' /\ InTurn'
  BY <1>0, <1>1 DEF LioInv, Placed, RawAt, InTurn
<1>4. Mapped' /\ PredictionIsExact' /\ MapOnlyFromAccepted'
  BY <1>1 DEF LioInv, Mapped, PredictionIsExact, MapOnlyFromAccepted, mapVars
<1> QED BY <1>0, <1>2, <1>3, <1>4 DEF LioInv

\* What a frame in hand is predicted from.
LEMMA FrameIsPlaced ==
  ASSUME LioInv, lpc = "frame", ~needInit, ~predictionFault, ~lioStopping
  PROVE  \E m, r \in Nat : /\ m \in 1..Len(imuSeen) /\ r \in 1..Len(imuSeen)
                           /\ PlacedGroup(m, r)
<1>1. PICK m \in 1..Len(imuSeen) : CutAt(m)
  BY DEF LioInv, Grouped
<1>2. PICK r \in 1..Len(imuSeen) : RawAt(r)
  BY DEF LioInv, Placed
<1>3. PlacedGroup(m, r)
  BY <1>1, <1>2 DEF LioInv, PlacedGroup, Grouped, InTurn
<1>4. m \in Nat /\ r \in Nat
  OBVIOUS
<1> QED BY <1>3, <1>4

\* The prediction of a frame: what Estimate and EstimateBroken share.
FrameMoves ==
  /\ lpc = "frame" /\ ~needInit /\ PredictOk(group) /\ ~lioStopping
  /\ legs' = PredictLegs(group) /\ startTime' = eskfTime
  /\ eskfTime' = group.end
  /\ lastImuRaw' = NextRaw(group)
  /\ lpc' # "frame"
  /\ UNCHANGED <<needInit, predictionFault, mapVars, bufVars>>

LEMMA FramePreserves ==
  ASSUME LioInv, FrameMoves
  PROVE  /\ eskfTime < group.end
         /\ Placed' /\ InTurn' /\ PredictionIsExact' /\ Grouped'
         /\ UNCHANGED <<needInit, predictionFault, lioStopping, coveredTo, group>>
<1>0. /\ Covered' = Covered
      /\ group # NoGroup => \E m \in 1..Len(imuSeen) : CutAt(m) /\ CutAt(m)'
      /\ UNCHANGED <<group, coveredTo, imuSeen, lioStopping>>
  BY QueuesStay DEF FrameMoves
<1>1. /\ ~predictionFault /\ lpc = "frame" /\ ~needInit /\ ~lioStopping
      /\ legs' = PredictLegs(group) /\ startTime' = eskfTime
      /\ eskfTime' = group.end /\ lastImuRaw' = NextRaw(group)
      /\ lpc' # "frame" /\ UNCHANGED <<needInit, predictionFault>>
  BY DEF FrameMoves, PredictOk
<1>2. PICK m, r \in Nat : /\ m \in 1..Len(imuSeen) /\ r \in 1..Len(imuSeen)
                          /\ PlacedGroup(m, r)
  BY <1>1, FrameIsPlaced
<1>3. eskfTime < group.end
  <2>1. group.imu \in Seq(Int) /\ group.end \in Int /\ eskfTime \in Int
    BY <1>2 DEF PlacedGroup, CutAt, LioTypes
  <2> QED BY <2>1, PredictAdvances DEF FrameMoves
<1>4. /\ Path(PredictLegs(group), eskfTime, group.end)
      /\ \A i \in DOMAIN PredictLegs(group) : Adjacent(imuSeen, PredictLegs(group)[i])
  BY <1>2, <1>3, PredictedLegs
<1>5. PredictionIsExact'
  BY <1>0, <1>1, <1>4 DEF PredictionIsExact
<1>6. Placed'
  <2>1. PICK k \in 1..Len(imuSeen) :
           /\ NextRaw(group) = imuSeen[k]
           /\ \A i \in 1..Len(imuSeen) : i <= k <=> imuSeen[i] <= group.end
    BY <1>2, <1>3, NextRawIs
  <2>2. group.end <= Last(imuSeen)
    <3>1. /\ imuSeen[m] >= group.end /\ group.end \in Int
          /\ Len(imuSeen) \in Nat /\ \A i \in 1..Len(imuSeen) : imuSeen[i] \in Int
          /\ Rising(imuSeen)
      BY <1>2, SMTT(30) DEF PlacedGroup, CutAt, LioTypes, SampleStream, Spaced
    <3>2. m \in 1..Len(imuSeen) /\ Len(imuSeen) \in 1..Len(imuSeen)
      BY <1>2, <3>1
    <3>3. m < Len(imuSeen) => imuSeen[m] < imuSeen[Len(imuSeen)]
      BY <3>1, <3>2 DEF Rising
    <3>4. imuSeen[m] \in Int /\ imuSeen[Len(imuSeen)] \in Int
      BY <3>1, <3>2
    <3> QED BY <3>1, <3>2, <3>3, <3>4 DEF Last
  <2>3. RawAt(k)'
    BY <1>0, <1>1, <2>1, <2>2 DEF RawAt
  <2> QED BY <1>0, <2>3 DEF Placed
<1>7. InTurn'
  <2>1. Covered <= group.end
    <3>1. group.end \in Int /\ coveredTo \in Int /\ eskfTime \in Int /\ coveredTo <= eskfTime
      BY <1>2 DEF PlacedGroup, LioTypes
    <3> QED BY <1>3, <3>1 DEF Covered
  <2> QED BY <1>0, <1>1, <2>1 DEF InTurn
<1>8. Grouped'
  BY <1>0, <1>1, <1>2 DEF Grouped, PlacedGroup
<1> QED BY <1>0, <1>1, <1>3, <1>5, <1>6, <1>7, <1>8

LEMMA EstimatePreserves ==
  ASSUME LioInv, NEW v, Estimate(group, v), ~lioStopping, UNCHANGED bufVars
  PROVE  LioInv'
<1>1. FrameMoves
  BY DEF Estimate, FrameMoves
<1>2. /\ eskfTime < group.end
      /\ Placed' /\ InTurn' /\ PredictionIsExact' /\ Grouped'
      /\ UNCHANGED <<needInit, predictionFault, lioStopping, coveredTo, group>>
  BY <1>1, FramePreserves
<1>3. SampleStream' /\ Queued' /\ Timed(lidarBuf)'
  BY QueuesStay
<1>4. /\ eskfTime' = group.end /\ stateSequence' = stateSequence + 1 /\ lpc' = "send"
      /\ v \in Verdicts /\ verdict' = v
      /\ lastAccepted' = IF v = "rejected" THEN lastAccepted ELSE group.end
      /\ UNCHANGED <<mapped>>
  BY DEF Estimate, mapVars
<1>5. LioTypes'
  <2>1. needInit' \in BOOLEAN /\ predictionFault' \in BOOLEAN /\ lioStopping' \in BOOLEAN
    BY <1>2 DEF LioInv, LioTypes
  <2>2. /\ eskfTime' \in Int /\ stateSequence' \in Nat
        /\ (group.end)' \in Int /\ coveredTo' \in Int
    BY <1>2, <1>4 DEF LioInv, LioTypes
  <2> QED BY <1>3, <2>1, <2>2 DEF LioTypes
<1>6. Mapped' /\ MapOnlyFromAccepted'
  <2>1. stateSequence \in Nat /\ \A u \in mapped : u.seq \in Nat /\ u.seq <= stateSequence
    BY DEF LioInv, LioTypes, Mapped
  <2>2. \A u \in mapped : u.seq \in Nat /\ u.seq <= stateSequence' /\ u.seq < stateSequence'
    BY <1>4, <2>1
  <2>3. Accepted' => lastAccepted' = eskfTime'
    BY <1>4 DEF Accepted
  <2>4. MapOnlyFromAccepted'
    BY <1>4 DEF LioInv, MapOnlyFromAccepted
  <2> QED BY <1>4, <2>2, <2>3, <2>4 DEF Mapped
<1> QED BY <1>2, <1>3, <1>5, <1>6 DEF LioInv

LEMMA EstimateBrokenPreserves ==
  ASSUME LioInv, EstimateBroken(group), ~lioStopping, UNCHANGED bufVars
  PROVE  LioInv'
<1>1. FrameMoves
  BY DEF EstimateBroken, FrameMoves
<1>2. /\ Placed' /\ InTurn' /\ PredictionIsExact' /\ Grouped'
      /\ UNCHANGED <<needInit, predictionFault, lioStopping, coveredTo, group>>
  BY <1>1, FramePreserves
<1>3. SampleStream' /\ Queued' /\ Timed(lidarBuf)'
  BY QueuesStay
<1>4. /\ eskfTime' = group.end /\ lpc' = "fail"
      /\ UNCHANGED <<mapped, stateSequence>>
  BY DEF EstimateBroken, mapVars
<1>5. LioTypes'
  <2>1. needInit' \in BOOLEAN /\ predictionFault' \in BOOLEAN /\ lioStopping' \in BOOLEAN
    BY <1>2 DEF LioInv, LioTypes
  <2>2. /\ eskfTime' \in Int /\ stateSequence' \in Nat
        /\ (group.end)' \in Int /\ coveredTo' \in Int
    BY <1>2, <1>4 DEF LioInv, LioTypes
  <2> QED BY <1>3, <2>1, <2>2 DEF LioTypes
<1>6. Mapped' /\ MapOnlyFromAccepted'
  BY <1>4 DEF LioInv, Mapped, MapOnlyFromAccepted
<1> QED BY <1>2, <1>3, <1>5, <1>6 DEF LioInv

\* The worker goes on without touching the filter or the queues.
LEMMA WorkerGoesOn ==
  ASSUME LioInv, UNCHANGED <<bufVars, filterVars>>, lpc # "done",
         lpc' \notin {"frame", "send"}, lpc = "frame" => lpc' = "done" \/ lioStopping
  PROVE  /\ SampleStream' /\ LioTypes' /\ Queued' /\ Grouped' /\ Placed' /\ InTurn'
         /\ PredictionIsExact'
         /\ UNCHANGED <<stateSequence, lastAccepted, eskfTime>>
<1>0. /\ SampleStream' /\ Queued' /\ Timed(lidarBuf)' /\ Covered' = Covered
      /\ group # NoGroup => \E m \in 1..Len(imuSeen) : CutAt(m) /\ CutAt(m)'
      /\ UNCHANGED <<group, coveredTo, imuSeen, lioStopping>>
  BY QueuesStay
<1>1. UNCHANGED <<needInit, eskfTime, lastImuRaw, predictionFault, stateSequence,
                  lastAccepted, legs, startTime>>
  BY DEF filterVars
<1>2. LioTypes'
  <2>1. needInit' \in BOOLEAN /\ predictionFault' \in BOOLEAN /\ lioStopping' \in BOOLEAN
    BY <1>0, <1>1 DEF LioInv, LioTypes
  <2>2. /\ eskfTime' \in Int /\ stateSequence' \in Nat
        /\ (group.end)' \in Int /\ coveredTo' \in Int
    BY <1>0, <1>1 DEF LioInv, LioTypes
  <2> QED BY <1>0, <2>1, <2>2 DEF LioTypes
<1>3. Grouped'
  BY <1>0 DEF Grouped
<1>4. Placed'
  BY <1>0, <1>1 DEF LioInv, Placed, RawAt
<1>5. InTurn'
  BY <1>0, <1>1 DEF LioInv, InTurn
<1>6. PredictionIsExact'
  BY DEF PredictionIsExact
<1> QED BY <1>0, <1>1, <1>2, <1>3, <1>4, <1>5, <1>6

LEMMA SendPreserves ==
  ASSUME LioInv, SendState
  PROVE  LioInv'
<1>1. /\ UNCHANGED <<bufVars, filterVars, mapped, verdict>> /\ lpc = "send"
      /\ lpc' = IF Accepted THEN "map" ELSE "wait"
  BY DEF SendState, AfterSend
<1>2. /\ SampleStream' /\ LioTypes' /\ Queued' /\ Grouped' /\ Placed' /\ InTurn'
      /\ PredictionIsExact'
      /\ UNCHANGED <<stateSequence, lastAccepted, eskfTime>>
  BY <1>1, WorkerGoesOn
<1>3. Mapped' /\ MapOnlyFromAccepted'
  BY <1>1, <1>2 DEF LioInv, Mapped, MapOnlyFromAccepted
<1> QED BY <1>2, <1>3 DEF LioInv

\* Points enter the map under the posterior in hand, numbered above all those
\* already there.
LEMMA MaintainPreserves ==
  ASSUME LioInv, MaintainMap
  PROVE  LioInv'
<1>1. /\ UNCHANGED <<bufVars, filterVars, verdict>> /\ lpc = "map" /\ lpc' = "wait"
      /\ mapped' = mapped \cup {StateUpdate} \/ mapped' = mapped
  BY DEF MaintainMap, UpdateMap, ShowOnly
<1>2. /\ SampleStream' /\ LioTypes' /\ Queued' /\ Grouped' /\ Placed' /\ InTurn'
      /\ PredictionIsExact'
      /\ UNCHANGED <<stateSequence, lastAccepted, eskfTime>>
  BY <1>1, WorkerGoesOn
<1>3. /\ stateSequence \in Nat /\ lastAccepted = eskfTime
      /\ \A u \in mapped : u.seq \in Nat /\ u.seq < stateSequence
  BY <1>1 DEF LioInv, LioTypes, Mapped
<1>4. StateUpdate.seq = stateSequence /\ StateUpdate.accepted = StateUpdate.stamp
  BY <1>3 DEF StateUpdate
<1>5. Mapped'
  BY <1>1, <1>2, <1>3, <1>4 DEF Mapped
<1>6. MapOnlyFromAccepted'
  <2>1. \A u \in mapped : u.accepted = u.stamp /\ \A w \in mapped : w.seq = u.seq => w = u
    BY DEF LioInv, MapOnlyFromAccepted
  <2>2. \A u \in mapped : u.seq # stateSequence
    BY <1>3
  <2> QED BY <1>1, <1>4, <2>1, <2>2 DEF MapOnlyFromAccepted
<1> QED BY <1>2, <1>5, <1>6 DEF LioInv

LEMMA EndPreserves ==
  ASSUME LioInv, FrameFails \/ FrameThrows \/ StopSeen
  PROVE  LioInv'
<1>1. /\ UNCHANGED <<bufVars, filterVars, mapped>>
      /\ lpc # "done" /\ lpc' \in {"wait", "done"}
      /\ lpc = "frame" => lpc' = "done" \/ lioStopping
  BY DEF FrameFails, FrameThrows, StopSeen, AbandonGroup, LeaveRun, mapVars
<1>2. /\ SampleStream' /\ LioTypes' /\ Queued' /\ Grouped' /\ Placed' /\ InTurn'
      /\ PredictionIsExact'
      /\ UNCHANGED <<stateSequence, lastAccepted, eskfTime>>
  BY <1>1, WorkerGoesOn
<1>3. Mapped' /\ MapOnlyFromAccepted'
  BY <1>1, <1>2 DEF LioInv, Mapped, MapOnlyFromAccepted
<1> QED BY <1>2, <1>3 DEF LioInv

\* Scans and auxiliary packets wait in queues of their own.
LEMMA ArrivalPreserves ==
  ASSUME LioInv,
         \/ \E s : s.begin \in Int /\ s.end \in Int /\ LioScan(s)
         \/ \E p : PushAux(p) /\ UNCHANGED frameVars
         \/ LioStop
  PROVE  LioInv'
<1>1. /\ UNCHANGED <<imuBuf, lastImu, group, imuSeen, coveredTo, frameVars>>
      /\ lioStopping' = lioStopping \/ lioStopping' = TRUE
  BY DEF LioScan, PushScan, PushAux, LioStop, Stop, queueVars, historyVars
<1>2. Timed(lidarBuf')
  <2>1. CASE lidarBuf' = lidarBuf
    BY <2>1 DEF LioInv, LioTypes
  <2>2. CASE \E s : s.begin \in Int /\ s.end \in Int /\ LioScan(s)
    <3>1. PICK s : s.begin \in Int /\ s.end \in Int /\ lidarBuf' = Append(lidarBuf, s)
      BY <2>2 DEF LioScan, PushScan
    <3> QED BY <3>1, AppendTimed DEF LioInv, LioTypes
  <2> QED BY <2>1, <2>2 DEF PushAux, LioStop, Stop, queueVars
<1>3. SampleStream' /\ Queued' /\ Grouped' /\ Placed'
  <2>1. SampleStream'
    BY <1>1 DEF LioInv, SampleStream
  <2>2. Queued' /\ Grouped'
    BY <1>1 DEF LioInv, Queued, Grouped, Covered, CutAt, frameVars
  <2>3. Placed'
    BY <1>1 DEF LioInv, Placed, RawAt, frameVars
  <2> QED BY <2>1, <2>2, <2>3
<1>4. LioTypes'
  <2>1. needInit' \in BOOLEAN /\ predictionFault' \in BOOLEAN /\ lioStopping' \in BOOLEAN
    BY <1>1 DEF LioInv, LioTypes, frameVars
  <2>2. /\ eskfTime' \in Int /\ stateSequence' \in Nat
        /\ (group.end)' \in Int /\ coveredTo' \in Int
    BY <1>1 DEF LioInv, LioTypes, frameVars
  <2> QED BY <1>2, <2>1, <2>2 DEF LioTypes
<1>5. InTurn'
  BY <1>1 DEF LioInv, InTurn, Covered, frameVars
<1>6. Mapped' /\ PredictionIsExact' /\ MapOnlyFromAccepted'
  BY <1>1 DEF LioInv, Mapped, Accepted, PredictionIsExact, MapOnlyFromAccepted, frameVars
<1> QED BY <1>3, <1>4, <1>5, <1>6 DEF LioInv

LEMMA ProcessPreserves ==
  ASSUME LioInv, ProcessGroup
  PROVE  LioInv'
BY InitFramePreserves, PredictFailsPreserves, EstimatePreserves, EstimateBrokenPreserves
   DEF ProcessGroup

LEMMA LioStepPreserves ==
  ASSUME LioInv, [LioStep]_lioVars
  PROVE  LioInv'
<1>1. ASSUME NEW ts \in Int, GatedPush(ts) PROVE LioInv'
  <2>1. CASE PushImu(ts) /\ UNCHANGED frameVars
    BY <1>1, <2>1, PushPreserves DEF GatedPush
  <2>2. CASE UNCHANGED bufVars /\ UNCHANGED frameVars
    BY <2>2, LioStutters DEF lioVars
  <2> QED BY <1>1, <2>1, <2>2 DEF GatedPush, LioImu
<1>2. CASE UNCHANGED lioVars
  BY <1>2, LioStutters
<1> QED BY <1>1, <1>2, ArrivalPreserves, TakePreserves, ProcessPreserves, SendPreserves,
           MaintainPreserves, EndPreserves DEF LioStep

\* The prediction of a frame fails for no other reason than a late scan.
LEMMA FailsOnlyLate ==
  ASSUME LioInv, [LioStep]_lioVars, predictionFault', ~predictionFault
  PROVE  group.end <= eskfTime
<1>1. PredictFails(group) /\ ~lioStopping
  <2>1. predictionFault' # predictionFault
    OBVIOUS
  <2>2. ProcessGroup
    BY <2>1 DEF LioStep, GatedPush, LioImu, LioScan, LioStop, TakeGroup, SendState, AfterSend,
                MaintainMap, UpdateMap, ShowOnly, FrameFails, FrameThrows, StopSeen,
                AbandonGroup, LeaveRun, lioVars, frameVars, filterVars
  <2> QED BY <2>1, <2>2 DEF ProcessGroup, InitFrame, Estimate, EstimateBroken
<1>2. lpc = "frame" /\ ~needInit /\ ~PredictOk(group)
  BY <1>1 DEF PredictFails
<1>3. PICK m, r \in Nat : /\ m \in 1..Len(imuSeen) /\ r \in 1..Len(imuSeen)
                          /\ PlacedGroup(m, r)
  BY <1>1, <1>2, FrameIsPlaced
<1>4. ~(eskfTime < group.end)
  BY <1>2, <1>3, PredictedLegs
<1>5. group.end \in Int /\ eskfTime \in Int
  BY DEF LioInv, LioTypes
<1> QED BY <1>4, <1>5

\* The group's samples as the run cut says them.
LEMMA GroupedCovers ==
  ASSUME LioInv
  PROVE  ImuRunCoversScan
<1> SUFFICES ASSUME group # NoGroup
             PROVE  \E n, m \in DOMAIN imuSeen :
                      /\ group.imu = SubSeq(imuSeen, n, m)
                      /\ \A i \in DOMAIN imuSeen : i < n <=> imuSeen[i] <= coveredTo
                      /\ imuSeen[m] >= group.end
                      /\ n < m => imuSeen[m-1] <= group.end
  BY DEF ImuRunCoversScan
<1>1. PICK m \in 1..Len(imuSeen) : CutAt(m)
  BY DEF LioInv, Grouped
<1> DEFINE g == group.imu
           n == m - Len(g) + 1
<1>2. /\ g \in Seq(Int) /\ g # <<>> /\ EndsAt(g, imuSeen, m)
      /\ imuSeen[m] >= group.end
      /\ Len(g) > 1 => imuSeen[m - 1] <= group.end
      /\ \A i \in 1..Len(imuSeen) : i <= m - Len(g) <=> imuSeen[i] <= coveredTo
  BY <1>1 DEF CutAt
<1>3. imuSeen \in Seq(Int) /\ Len(imuSeen) \in Nat /\ DOMAIN imuSeen = 1..Len(imuSeen)
  BY DEF LioInv, SampleStream
<1> HIDE DEF g
<1>4. n \in 1..m /\ g = SubSeq(imuSeen, n, m)
  BY <1>2, <1>3, RunIsPiece
<1>5. Len(g) \in Nat /\ m \in Nat /\ n \in DOMAIN imuSeen /\ m \in DOMAIN imuSeen
  BY <1>2, <1>3, <1>4
<1>6. \A i \in DOMAIN imuSeen : i < n <=> imuSeen[i] <= coveredTo
  <2> SUFFICES ASSUME NEW i \in 1..Len(imuSeen) PROVE i < n <=> imuSeen[i] <= coveredTo
    BY <1>3
  <2>1. i < n <=> i <= m - Len(g)
    BY <1>5
  <2> QED BY <1>2, <2>1
<1>7. n < m => Len(g) > 1
  BY <1>5
<1> QED BY <1>2, <1>4, <1>5, <1>6, <1>7 DEF g

-----------------------------------------------------------------------------
(* SortFinitePoints.                                                       *)

\* A finite set of numbers can be listed in order.
Listing(S, s) ==
  /\ s \in [1..Cardinality(S) -> S]
  /\ \A i, j \in DOMAIN s : i < j => s[i] < s[j]

LEMMA GreatestElement ==
  ASSUME NEW n \in Nat, NEW S \in SUBSET Int, ExistsSurjection(1..n, S), S # {}
  PROVE  \E m \in S : \A k \in S : k <= m
<1> DEFINE Up(f, i) == {f[j] : j \in 1..i}
<1>1. PICK f \in [1..n -> S] : \A x \in S : \E i \in 1..n : f[i] = x
  BY DEF ExistsSurjection, Surjection
<1> DEFINE Least(i) == \E m \in Up(f, i) : \A k \in Up(f, i) : k <= m
           Bad == {i \in 1..n : ~Least(i)}
<1>2. Bad = {}
  <2> SUFFICES ASSUME Bad # {} PROVE FALSE
    OBVIOUS
  <2>1. PICK i \in Bad : \A k \in Bad : i <= k
    <3>1. Bad \in SUBSET Nat
      OBVIOUS
    <3> HIDE DEF Bad
    <3> QED BY <3>1, LeastNatural
  <2>2. i \in 1..n /\ ~Least(i) /\ f[i] \in Int
    BY <1>1, <2>1
  <2>3. CASE i = 1
    <3>1. 1..i = {i}
      BY <2>3
    <3>2. Up(f, i) = {f[i]}
      BY <3>1
    <3>3. f[i] <= f[i]
      BY <2>2
    <3> HIDE DEF Up
    <3>4. Least(i)
      BY <3>2, <3>3
    <3> QED BY <2>2, <3>4
  <2>4. CASE i # 1
    <3>1. i - 1 \in 1..n /\ ~(i <= i - 1) /\ 1..i = (1..(i - 1)) \cup {i}
      BY <2>2, <2>4
    <3>2. Least(i - 1)
      BY <2>1, <3>1
    <3>3. PICK m \in Up(f, i - 1) : \A k \in Up(f, i - 1) : k <= m
      BY <3>2
    <3>4. Up(f, i) = Up(f, i - 1) \cup {f[i]}
      BY <3>1
    <3>5. Up(f, i) \subseteq Int
      <4>1. \A j \in 1..i : j \in 1..n
        BY <2>2
      <4>2. \A j \in 1..n : f[j] \in Int
        BY <1>1
      <4> QED BY <4>1, <4>2
    <3>6. m \in Int /\ m \in Up(f, i) /\ f[i] \in Up(f, i)
      BY <3>3, <3>4, <3>5
    <3> HIDE DEF Up
    <3>7. CASE f[i] <= m
      BY <2>2, <3>3, <3>4, <3>6, <3>7
    <3>8. CASE ~(f[i] <= m)
      <4>1. \A k \in Up(f, i) : k <= f[i]
        BY <2>2, <3>3, <3>4, <3>5, <3>6, <3>8
      <4> QED BY <2>2, <3>6, <4>1
    <3> QED BY <3>7, <3>8
  <2> QED BY <2>3, <2>4
<1>3. n \in 1..n
  <2>1. PICK x \in S : TRUE
    OBVIOUS
  <2>2. PICK i \in 1..n : f[i] = x
    BY <1>1
  <2> QED BY <2>2
<1>4. Up(f, n) = S
  BY <1>1
<1> QED BY <1>2, <1>3, <1>4

LEMMA ListingExists ==
  ASSUME NEW S \in SUBSET Int, IsFiniteSet(S)
  PROVE  \E s : Listing(S, s)
<1> DEFINE Unlisted(n) == \E T \in SUBSET Int : /\ IsFiniteSet(T) /\ Cardinality(T) = n
                                                /\ ~\E s : Listing(T, s)
           Bad == {n \in Nat : Unlisted(n)}
<1>1. Bad = {}
  <2> SUFFICES ASSUME Bad # {} PROVE FALSE
    OBVIOUS
  <2>1. PICK n \in Bad : \A k \in Bad : n <= k
    <3>1. Bad \in SUBSET Nat
      OBVIOUS
    <3> HIDE DEF Bad
    <3> QED BY <3>1, LeastNatural
  <2>2. PICK T \in SUBSET Int : /\ IsFiniteSet(T) /\ Cardinality(T) = n
                                /\ ~\E s : Listing(T, s)
    BY <2>1
  <2>3. CASE n = 0
    <3>1. Listing(T, <<>>)
      BY <2>2, <2>3 DEF Listing
    <3> QED BY <2>2, <3>1
  <2>4. CASE n # 0
    <3>1. T # {}
      BY <2>2, <2>4, FS_EmptySet
    <3>2. PICK m \in T : \A k \in T : k <= m
      <4>1. ExistsBijection(1..n, T) /\ n \in Nat
        BY <2>2, FS_CardinalityType
      <4>2. ExistsSurjection(1..n, T)
        BY <4>1 DEF ExistsBijection, ExistsSurjection, Bijection
      <4> QED BY <3>1, <4>1, <4>2, GreatestElement
    <3> DEFINE R == T \ {m}
    <3>3. IsFiniteSet(R) /\ Cardinality(R) = n - 1 /\ R \in SUBSET Int
      BY <2>2, FS_RemoveElement
    <3>4. n - 1 \in Nat /\ ~(n <= n - 1)
      BY <2>1, <2>4
    <3>5. PICK r : Listing(R, r)
      BY <2>1, <3>3, <3>4
    <3> DEFINE s == [i \in 1..n |-> IF i = n THEN m ELSE r[i]]
    <3>6. /\ r \in [1..(n - 1) -> R]
          /\ \A i, j \in 1..(n - 1) : i < j => r[i] < r[j]
      BY <3>3, <3>5 DEF Listing
    <3>7. s \in [1..n -> T]
      BY <3>4, <3>6
    <3>8. ASSUME NEW i \in 1..n, NEW j \in 1..n, i < j PROVE s[i] < s[j]
      <4>1. i \in 1..(n - 1) /\ i # n /\ r[i] \in R
        BY <3>4, <3>6, <3>8
      <4>2. r[i] < m
        <5>1. r[i] \in Int /\ m \in Int /\ r[i] <= m /\ r[i] # m
          BY <3>2, <3>3, <4>1
        <5> QED BY <5>1
      <4>3. CASE j = n
        BY <4>1, <4>2, <4>3
      <4>4. CASE j # n
        <5>1. j \in 1..(n - 1)
          BY <3>4, <4>4
        <5> QED BY <3>6, <3>8, <4>1, <4>4, <5>1
      <4> QED BY <4>3, <4>4
    <3> HIDE DEF s
    <3>9. Listing(T, s)
      BY <2>2, <3>7, <3>8 DEF Listing
    <3> QED BY <2>2, <3>9
  <2> QED BY <2>3, <2>4
<1>2. Cardinality(S) \in Nat
  BY FS_CardinalityType
<1> QED BY <1>1, <1>2

LEMMA ImageIsFinite ==
  ASSUME NEW P, IsFiniteSet(P)
  PROVE  IsFiniteSet({p.stamp : p \in P})
<1> DEFINE I == {p.stamp : p \in P}
           f == [p \in P |-> p.stamp]
<1>1. f \in Surjection(P, I)
  BY DEF Surjection
<1> QED BY <1>1, FS_Surjection

LEMMA SortedPoints ==
  ASSUME NEW P, IsFiniteSet(P), \A p \in P : p.stamp \in Int
  PROVE  /\ SortFinitePoints(P) \in Seq(Int)
         /\ \A i \in 1..Len(SortFinitePoints(P)) :
              \E p \in P : SortFinitePoints(P)[i] = p.stamp
         /\ \A i, j \in 1..Len(SortFinitePoints(P)) :
              i < j => SortFinitePoints(P)[i] < SortFinitePoints(P)[j]
<1> DEFINE S == {p.stamp : p \in P}
           s == SortFinitePoints(P)
<1>1. S \in SUBSET Int /\ IsFiniteSet(S) /\ Cardinality(S) \in Nat
  BY ImageIsFinite, FS_CardinalityType
<1>2. Listing(S, s)
  <2>1. s = CHOOSE c : Listing(S, c)
    BY DEF SortFinitePoints, Listing
  <2> HIDE DEF S, s
  <2> QED BY <1>1, <2>1, ListingExists
<1>3. /\ s \in [1..Cardinality(S) -> S]
      /\ \A i, j \in 1..Cardinality(S) : i < j => s[i] < s[j]
  BY <1>2 DEF Listing
<1>4. \A x \in S : \E p \in P : x = p.stamp
  OBVIOUS
<1> HIDE DEF S, s
<1>5. s \in Seq(Int) /\ Len(s) = Cardinality(S)
  BY <1>1, <1>3
<1> QED BY <1>3, <1>4, <1>5 DEF s

-----------------------------------------------------------------------------
(* The auxiliary queue.                                                    *)

Announced(s) ==
  \E msg \in AuxMessages :
    /\ msg.points # <<>>
    /\ s.begin = msg.header /\ s.end = msg.header + Last(msg.points).t

\* A packet in the queue: the sorted points of a message.
AuxPacket ==
  {p \in [begin : Int, end : Int, points : Seq(Int)] :
     /\ Announced(p)
     /\ \A i \in 1..Len(p.points) : p.begin <= p.points[i] /\ p.points[i] <= p.end
     /\ \A i, j \in 1..Len(p.points) : i < j => p.points[i] < p.points[j]}

AuxQueued ==
  /\ auxBuf \in Seq(AuxPacket) /\ auxCursor \in Nat
  /\ auxBuf = <<>> => auxCursor = 0
  /\ \A k \in 1..Len(auxBuf) : auxBuf[k].begin \in auxSent
  /\ \A k, l \in 1..Len(auxBuf) : k < l => auxBuf[k].begin < auxBuf[l].begin

\* The cursor and the queue are ahead of everything handed on.
AuxRead ==
  /\ \A a \in auxUsed \cup group.aux : a.packet \in auxSent /\ a.stamp \in Int
  /\ \A k \in 1..Len(auxBuf) : Unread(k) \cap (auxUsed \cup group.aux) = {}

AuxInv == AuxQueued /\ AuxRead /\ AuxPointsOnce

auxVars == <<auxBuf, auxCursor, auxUsed, auxSent, group>>

PointsFrom(p, first) ==
  {[packet |-> p.begin, stamp |-> p.points[i] + AuxOffset] : i \in first..Len(p.points)}

LEMMA UnreadIs ==
  ASSUME NEW k
  PROVE  /\ Unread(k) = PointsFrom(auxBuf[k], IF k = 1 THEN auxCursor + 1 ELSE 1)
         /\ Unread(k)' = PointsFrom(auxBuf'[k], IF k = 1 THEN auxCursor' + 1 ELSE 1)
BY DEF Unread, PointsFrom

LEMMA PacketFields ==
  ASSUME NEW p \in AuxPacket
  PROVE  /\ p.begin \in Int /\ p.end \in Int /\ p.points \in Seq(Int)
         /\ Len(p.points) \in Nat /\ \A i \in 1..Len(p.points) : p.points[i] \in Int
BY DEF AuxPacket

LEMMA PointsFromAre ==
  ASSUME NEW p \in AuxPacket, NEW c \in Nat, NEW k, NEW a \in PointsFrom(p, IF k = 1 THEN c + 1 ELSE 1)
  PROVE  /\ a.packet = p.begin /\ a.stamp \in Int
         /\ \E i \in 1..Len(p.points) : a.stamp = p.points[i] + AuxOffset
<1> DEFINE first == IF k = 1 THEN c + 1 ELSE 1
           t == p.points
<1>1. PICK i \in first..Len(t) : a.packet = p.begin /\ a.stamp = t[i] + AuxOffset
  BY DEF PointsFrom
<1>2. first \in Nat \ {0} /\ Len(t) \in Nat /\ AuxOffset \in Int /\ \A j \in 1..Len(t) : t[j] \in Int
  BY PacketFields, BuffersAssumption
<1> HIDE DEF first, t
<1>3. i \in 1..Len(t)
  BY <1>1, <1>2
<1>4. t[i] \in Int
  BY <1>2, <1>3
<1>5. a.stamp \in Int
  BY <1>1, <1>2, <1>4
<1> QED BY <1>1, <1>3, <1>5 DEF t

LEMMA PoppedIs ==
  ASSUME auxBuf \in Seq(AuxPacket), NEW scan
  PROVE  /\ PacketsPopped(scan) \in 0..Len(auxBuf)
         /\ \A i \in 1..PacketsPopped(scan) : Spent(auxBuf[i], scan)
         /\ PacketsPopped(scan) < Len(auxBuf) => ~Spent(auxBuf[PacketsPopped(scan) + 1], scan)
<1> DEFINE T == {i \in 1..Len(auxBuf) : Spent(auxBuf[i], scan)}
           Good(n) == /\ \A i \in 1..n : Spent(auxBuf[i], scan)
                      /\ n < Len(auxBuf) => ~Spent(auxBuf[n + 1], scan)
           c == CHOOSE n \in 0..Len(auxBuf) : Good(n)
<1>1. Len(auxBuf) \in Nat
  OBVIOUS
<1>2. PICK n \in 0..Len(auxBuf) : (\A i \in 1..n : i \in T) /\ (n < Len(auxBuf) => n + 1 \notin T)
  <2> HIDE DEF T
  <2> QED BY <1>1, LongestPrefix
<1>3. Good(n)
  <2>1. n < Len(auxBuf) => n + 1 \in 1..Len(auxBuf)
    BY <1>1
  <2> QED BY <1>2, <2>1
<1>4. c \in 0..Len(auxBuf) /\ Good(c)
  <2> HIDE DEF Good
  <2> QED BY <1>2, <1>3
<1>5. PacketsPopped(scan) = c
  BY DEF PacketsPopped, Prefix
<1> HIDE DEF c
<1> QED BY <1>4, <1>5

\* How far the cursor moves in a packet whose points are in order.
LEMMA PastIs ==
  ASSUME NEW p \in AuxPacket, NEW end \in Int
  PROVE  LET past == Prefix(p.points, LAMBDA t : t + AuxOffset < end) IN
         /\ past \in 0..Len(p.points)
         /\ \A i \in 1..past : p.points[i] + AuxOffset < end
         /\ \A i \in (past + 1)..Len(p.points) : p.points[i] + AuxOffset >= end
<1> DEFINE t == p.points
           T == {i \in 1..Len(t) : t[i] + AuxOffset < end}
           Good(n) == /\ \A i \in 1..n : t[i] + AuxOffset < end
                      /\ n < Len(t) => ~(t[n + 1] + AuxOffset < end)
           c == CHOOSE n \in 0..Len(t) : Good(n)
<1>1. Len(t) \in Nat /\ AuxOffset \in Int /\ \A i \in 1..Len(t) : t[i] \in Int
  BY PacketFields, BuffersAssumption
<1>2. PICK n \in 0..Len(t) : (\A i \in 1..n : i \in T) /\ (n < Len(t) => n + 1 \notin T)
  <2> HIDE DEF T, t
  <2> QED BY <1>1, LongestPrefix
<1>3. Good(n)
  <2>1. n < Len(t) => n + 1 \in 1..Len(t)
    BY <1>1
  <2> HIDE DEF t
  <2> QED BY <1>2, <2>1
<1>4. c \in 0..Len(t) /\ Good(c)
  <2> HIDE DEF Good
  <2> QED BY <1>2, <1>3
<1>5. Prefix(t, LAMBDA x : x + AuxOffset < end) = c
  BY DEF Prefix
<1>6. \A i, j \in 1..Len(t) : i < j => t[i] < t[j]
  BY DEF AuxPacket
<1> HIDE DEF c, t
<1>7. ASSUME NEW i \in (c + 1)..Len(t) PROVE t[i] + AuxOffset >= end
  <2>1. c < Len(t) /\ c + 1 \in 1..Len(t) /\ i \in 1..Len(t) /\ c + 1 <= i
    BY <1>1, <1>4
  <2>2. t[c + 1] + AuxOffset >= end
    BY <1>1, <1>4, <2>1
  <2>3. c + 1 = i \/ t[c + 1] < t[i]
    BY <1>6, <2>1
  <2> QED BY <1>1, <2>1, <2>2, <2>3
<1> QED BY <1>4, <1>5, <1>7 DEF t

\* Where the cursor stands after a cut: not before where it stood, and in the
\* packet the loop stopped at, behind every point before the scan's end.
LEMMA CursorMoves ==
  ASSUME AuxQueued, NEW scan, scan.end \in Int,
         NEW n, n = PacketsPopped(scan)
  PROVE  /\ NextCursor(scan) \in Nat
         /\ n = 0 => NextCursor(scan) >= auxCursor
         /\ n = Len(auxBuf) => NextCursor(scan) = 0
         /\ Partial(n, scan) =>
              \A i \in (NextCursor(scan) + 1)..Len(auxBuf[n + 1].points) :
                auxBuf[n + 1].points[i] + AuxOffset >= scan.end
<1> DEFINE p == auxBuf[n + 1]
           kept == IF n = 0 THEN auxCursor ELSE 0
           past == Prefix(p.points, LAMBDA t : t + AuxOffset < scan.end)
<1>1. NextCursor(scan) = IF ~Partial(n, scan) THEN kept ELSE IF past > kept THEN past ELSE kept
  BY DEF NextCursor
<1>2. auxCursor \in Nat /\ kept \in Nat /\ (n = 0 => kept = auxCursor)
      /\ n \in 0..Len(auxBuf) /\ Len(auxBuf) \in Nat /\ auxBuf \in Seq(AuxPacket)
  BY PoppedIs DEF AuxQueued
<1>3. n = Len(auxBuf) => ~Partial(n, scan) /\ kept = 0
  BY <1>2 DEF Partial, AuxQueued
<1>4. CASE ~Partial(n, scan)
  <2> HIDE DEF kept, past
  <2> QED BY <1>1, <1>2, <1>3, <1>4
<1>5. CASE Partial(n, scan)
  <2>1. n < Len(auxBuf)
    BY <1>5 DEF Partial
  <2>2. p \in AuxPacket
    BY <1>2, <2>1
  <2>3. /\ past \in 0..Len(p.points) /\ Len(p.points) \in Nat
        /\ \A i \in (past + 1)..Len(p.points) : p.points[i] + AuxOffset >= scan.end
    BY <2>2, PastIs, PacketFields
  <2>4. NextCursor(scan) = (IF past > kept THEN past ELSE kept)
    BY <1>1, <1>5
  <2> HIDE DEF kept, past, p
  <2>5. NextCursor(scan) \in Nat /\ NextCursor(scan) >= kept /\ NextCursor(scan) >= past
    BY <1>2, <2>3, <2>4
  <2>6. \A i \in (NextCursor(scan) + 1)..Len(p.points) : p.points[i] + AuxOffset >= scan.end
    <3>1. \A i \in (NextCursor(scan) + 1)..Len(p.points) : i \in (past + 1)..Len(p.points)
      BY <2>3, <2>5
    <3> QED BY <2>3, <3>1
  <2> QED BY <1>2, <2>1, <2>5, <2>6 DEF p
<1> QED BY <1>4, <1>5

\* What a cut hands on: unread points of the packets the loop is done with
\* and of the one it stops at.
LEMMA CutIsUnread ==
  ASSUME AuxQueued, NEW scan, NEW n, n = PacketsPopped(scan), NEW a \in AuxOf(scan)
  PROVE  /\ InWindow(a, scan)
         /\ \E k \in 1..Len(auxBuf) :
              a \in Unread(k) /\ (k <= n \/ (k = n + 1 /\ Partial(n, scan)))
<1> DEFINE last == IF Partial(n, scan) THEN n + 1 ELSE n
<1>1. n \in 0..Len(auxBuf) /\ Len(auxBuf) \in Nat
  BY PoppedIs DEF AuxQueued
<1>2. PICK k \in 1..last : a \in Crop(k, scan)
  BY DEF AuxOf, AuxCropped
<1>3. last \in Nat /\ (k <= n \/ (k = n + 1 /\ Partial(n, scan)))
  BY <1>1
<1>4. k \in 1..Len(auxBuf)
  BY <1>1, <1>3 DEF Partial
<1> HIDE DEF last
<1> QED BY <1>2, <1>3, <1>4 DEF Crop

\* The queue behind the packets popped.
LEMMA QueueAfterPop ==
  ASSUME AuxQueued, NEW n \in 0..Len(auxBuf), auxBuf' = From(auxBuf, n + 1)
  PROVE  /\ auxBuf' \in Seq(AuxPacket) /\ Len(auxBuf') = Len(auxBuf) - n
         /\ \A k \in 1..Len(auxBuf') : n + k \in 1..Len(auxBuf) /\ auxBuf'[k] = auxBuf[n + k]
<1> DEFINE s == auxBuf
           r == SubSeq(s, n + 1, Len(s))
<1>1. s \in Seq(AuxPacket) /\ Len(s) \in Nat /\ n \in Nat /\ n <= Len(s)
  BY DEF AuxQueued
<1>2. auxBuf' = r
  BY DEF From
<1> HIDE DEF s
<1>3. r \in Seq(AuxPacket) /\ Len(r) = Len(s) - n /\ \A k \in 1..(Len(s) - n) : r[k] = s[n + 1 + k - 1]
  <2> HIDE DEF AuxPacket
  <2> QED BY <1>1
<1> HIDE DEF r
<1>4. \A k \in 1..Len(r) : n + k \in 1..Len(s) /\ r[k] = s[n + k]
  <2> SUFFICES ASSUME NEW k \in 1..Len(r) PROVE n + k \in 1..Len(s) /\ r[k] = s[n + k]
    OBVIOUS
  <2>1. k \in 1..(Len(s) - n) /\ n + 1 + k - 1 = n + k /\ n + k \in 1..Len(s)
    BY <1>1, <1>3
  <2> QED BY <1>3, <2>1
<1> QED BY <1>2, <1>3, <1>4 DEF s

LEMMA CutKeepsAux ==
  ASSUME AuxInv, GetMeasurements, lidarBuf[1].begin \in Int, lidarBuf[1].end \in Int
  PROVE  AuxInv'
<1> DEFINE scan == lidarBuf[1]
           n == PacketsPopped(scan)
           cut == AuxOf(scan)
           used == auxUsed \cup group.aux
           ahead(k) == PointsFrom(auxBuf'[k], IF k = 1 THEN auxCursor' + 1 ELSE 1)
           was(k) == PointsFrom(auxBuf[k], IF k = 1 THEN auxCursor + 1 ELSE 1)
<1>1. /\ auxBuf' = From(auxBuf, n + 1) /\ auxCursor' = NextCursor(scan)
      /\ group'.aux = cut /\ auxUsed' = used /\ auxSent' = auxSent
      /\ group'.begin = scan.begin /\ group'.end = scan.end
  BY DEF GetMeasurements
<1>2. AuxQueued /\ scan.end \in Int
  BY DEF AuxInv
<1>3. n \in 0..Len(auxBuf) /\ Len(auxBuf) \in Nat /\ auxBuf \in Seq(AuxPacket) /\ auxCursor \in Nat
  BY <1>2, PoppedIs DEF AuxQueued
<1>4. /\ auxBuf' \in Seq(AuxPacket) /\ Len(auxBuf') = Len(auxBuf) - n
      /\ \A k \in 1..Len(auxBuf') : n + k \in 1..Len(auxBuf) /\ auxBuf'[k] = auxBuf[n + k]
  BY <1>1, <1>2, <1>3, QueueAfterPop
<1>5. /\ auxCursor' \in Nat
      /\ n = 0 => auxCursor' >= auxCursor
      /\ n = Len(auxBuf) => auxCursor' = 0
      /\ Partial(n, scan) =>
           \A i \in (auxCursor' + 1)..Len(auxBuf[n + 1].points) :
             auxBuf[n + 1].points[i] + AuxOffset >= scan.end
  BY <1>1, <1>2, CursorMoves
<1>6. \A a \in cut : /\ InWindow(a, scan)
                     /\ \E k \in 1..Len(auxBuf) :
                          a \in was(k) /\ (k <= n \/ (k = n + 1 /\ Partial(n, scan)))
  BY <1>2, CutIsUnread, UnreadIs
<1>7. \A k \in 1..Len(auxBuf) : was(k) \cap used = {}
  BY UnreadIs DEF AuxInv, AuxRead
<1>8. /\ \A k \in 1..Len(auxBuf) : auxBuf[k].begin \in auxSent
      /\ \A k, l \in 1..Len(auxBuf) : k < l => auxBuf[k].begin < auxBuf[l].begin
      /\ \A k \in 1..Len(auxBuf) : auxBuf[k].begin \in Int
  BY <1>2, PacketFields DEF AuxQueued
<1>9. \A k \in 1..Len(auxBuf) : \A a \in was(k) : a.packet = auxBuf[k].begin /\ a.stamp \in Int
  <2> SUFFICES ASSUME NEW k \in 1..Len(auxBuf), NEW a \in was(k)
               PROVE  a.packet = auxBuf[k].begin /\ a.stamp \in Int
    OBVIOUS
  <2>1. auxBuf[k] \in AuxPacket /\ auxCursor \in Nat
    BY <1>3
  <2> QED BY <2>1, PointsFromAre
<1> HIDE DEF n, cut, used, scan
<1>10. AuxQueued'
  <2>1. auxBuf' = <<>> => auxCursor' = 0
    <3> SUFFICES ASSUME auxBuf' = <<>> PROVE auxCursor' = 0
      OBVIOUS
    <3>1. Len(auxBuf') = 0
      OBVIOUS
    <3> QED BY <1>3, <1>4, <1>5, <3>1
  <2>2. \A k \in 1..Len(auxBuf') : auxBuf'[k].begin \in auxSent'
    BY <1>1, <1>4, <1>8
  <2>3. \A k, l \in 1..Len(auxBuf') : k < l => auxBuf'[k].begin < auxBuf'[l].begin
    <3> SUFFICES ASSUME NEW k \in 1..Len(auxBuf'), NEW l \in 1..Len(auxBuf'), k < l
                 PROVE  auxBuf'[k].begin < auxBuf'[l].begin
      OBVIOUS
    <3>1. n + k < n + l
      BY <1>3
    <3> QED BY <1>4, <1>8, <3>1
  <2> QED BY <1>4, <1>5, <2>1, <2>2, <2>3 DEF AuxQueued
<1>11. \A k \in 1..Len(auxBuf') : ahead(k) \subseteq was(n + k)
  <2> SUFFICES ASSUME NEW k \in 1..Len(auxBuf'), NEW a \in ahead(k) PROVE a \in was(n + k)
    OBVIOUS
  <2> DEFINE first == IF k = 1 THEN auxCursor' + 1 ELSE 1
             old == IF n + k = 1 THEN auxCursor + 1 ELSE 1
             p == auxBuf[n + k]
  <2>1. auxBuf'[k] = p /\ n + k \in 1..Len(auxBuf) /\ p \in AuxPacket
    BY <1>3, <1>4
  <2>2. PICK i \in first..Len(p.points) :
          a = [packet |-> p.begin, stamp |-> p.points[i] + AuxOffset]
    BY <2>1 DEF PointsFrom
  <2>3. first \in Nat /\ old \in Nat /\ first >= old
    <3>1. n + k = 1 => n = 0 /\ k = 1
      BY <1>3
    <3> QED BY <1>3, <1>5, <3>1
  <2>4. Len(p.points) \in Nat
    BY <2>1, PacketFields
  <2> HIDE DEF first, old
  <2>5. i \in old..Len(p.points)
    BY <2>2, <2>3, <2>4
  <2> QED BY <2>2, <2>5 DEF PointsFrom, old
<1>12. \A k \in 1..Len(auxBuf') : ahead(k) \cap cut = {}
  <2> SUFFICES ASSUME NEW k \in 1..Len(auxBuf'), NEW a \in ahead(k), a \in cut PROVE FALSE
    OBVIOUS
  <2>1. PICK l \in 1..Len(auxBuf) : a \in was(l) /\ (l <= n \/ (l = n + 1 /\ Partial(n, scan)))
    BY <1>6
  <2>2. a \in was(n + k) /\ n + k \in 1..Len(auxBuf)
    BY <1>4, <1>11
  <2>3. auxBuf[l].begin = auxBuf[n + k].begin
    BY <1>9, <2>1, <2>2
  <2>4. ~(l < n + k) /\ ~(n + k < l)
    BY <1>8, <2>2, <2>3
  <2>5. l = n + 1 /\ k = 1 /\ Partial(n, scan)
    BY <1>3, <2>1, <2>4
  <2>6. PICK i \in (auxCursor' + 1)..Len(auxBuf'[1].points) :
          a = [packet |-> auxBuf'[1].begin, stamp |-> auxBuf'[1].points[i] + AuxOffset]
    BY <2>5 DEF PointsFrom
  <2>7. auxBuf'[1] = auxBuf[n + 1]
    BY <1>4, <2>5
  <2>8. a.stamp >= scan.end
    BY <1>5, <2>5, <2>6, <2>7
  <2>9. a.stamp < scan.end
    BY <1>6 DEF InWindow
  <2>10. a.stamp \in Int
    BY <1>9, <2>2
  <2> QED BY <1>2, <2>8, <2>9, <2>10
<1>13. AuxRead'
  <2>1. \A a \in auxUsed' \cup group'.aux : a.packet \in auxSent' /\ a.stamp \in Int
    <3>1. \A a \in used : a.packet \in auxSent /\ a.stamp \in Int
      BY DEF AuxInv, AuxRead, used
    <3>2. \A a \in cut : a.packet \in auxSent /\ a.stamp \in Int
      BY <1>6, <1>8, <1>9
    <3> QED BY <1>1, <3>1, <3>2
  <2>2. ASSUME NEW k \in 1..Len(auxBuf') PROVE ahead(k) \cap (auxUsed' \cup group'.aux) = {}
    <3> HIDE DEF ahead, was
    <3>1. ahead(k) \subseteq was(n + k) /\ n + k \in 1..Len(auxBuf)
      BY <1>4, <1>11
    <3> QED BY <1>1, <1>7, <1>12, <3>1
  <2>3. \A k \in 1..Len(auxBuf') : Unread(k)' = ahead(k)
    BY UnreadIs
  <2> HIDE DEF ahead
  <2>4. \A k \in 1..Len(auxBuf') : Unread(k)' \cap (auxUsed' \cup group'.aux) = {}
    BY <2>2, <2>3
  <2> QED BY <2>1, <2>4 DEF AuxRead
<1>14. AuxPointsOnce'
  <2>1. cut \cap used = {}
    BY <1>6, <1>7
  <2>2. \A a \in cut : InWindow(a, group')
    BY <1>1, <1>6 DEF InWindow
  <2>3. \A a \in group'.aux : InWindow(a, group)'
    BY <1>1, <2>2 DEF InWindow
  <2> QED BY <1>1, <2>1, <2>3 DEF AuxPointsOnce
<1> QED BY <1>10, <1>13, <1>14 DEF AuxInv

\* The queue after a push: the oldest packet may have gone, the new one is last.
LEMMA QueueAfterPush ==
  ASSUME AuxQueued, NEW p \in AuxPacket, PushAux(p)
  PROVE  \E d \in 0..1 :
           /\ d <= Len(auxBuf)
           /\ auxBuf' \in Seq(AuxPacket) /\ Len(auxBuf') = Len(auxBuf) - d + 1
           /\ \A k \in 1..(Len(auxBuf) - d) : auxBuf'[k] = auxBuf[d + k]
           /\ auxBuf'[Len(auxBuf) - d + 1] = p
           /\ auxCursor' = IF d = 1 THEN 0 ELSE auxCursor
<1> DEFINE s == auxBuf
           T == AuxPacket
<1>1. s \in Seq(T) /\ Len(s) \in Nat /\ p \in T
  BY DEF AuxQueued
<1>2. CASE Len(auxBuf) >= MaxAux
  <2>1. auxBuf' = Append(Tail(s), p) /\ auxCursor' = 0
    BY <1>2 DEF PushAux
  <2>2. Len(s) >= 1
    BY <1>1, <1>2, BuffersAssumption
  <2> HIDE DEF s, T
  <2>3. Tail(s) \in Seq(T) /\ Len(Tail(s)) = Len(s) - 1
        /\ \A k \in 1..(Len(s) - 1) : Tail(s)[k] = s[k + 1]
    BY <1>1, <2>2
  <2> DEFINE u == Tail(s)
  <2> HIDE DEF u
  <2>4. u \in Seq(T) /\ Len(u) = Len(s) - 1 /\ \A k \in 1..(Len(s) - 1) : u[k] = s[1 + k]
    BY <2>3 DEF u
  <2>5. /\ Append(u, p) \in Seq(T) /\ Len(Append(u, p)) = Len(s)
        /\ \A k \in 1..(Len(s) - 1) : Append(u, p)[k] = s[1 + k]
        /\ Append(u, p)[Len(s)] = p
    BY <1>1, <2>2, <2>4
  <2>6. Len(s) - 1 + 1 = Len(s) /\ 1 <= Len(s) /\ auxBuf' = Append(u, p)
    BY <1>1, <2>1, <2>2 DEF u
  <2>7. 1 \in 0..1
    OBVIOUS
  <2> QED BY <2>1, <2>5, <2>6, <2>7 DEF s, T
<1>3. CASE ~(Len(auxBuf) >= MaxAux)
  <2>1. auxBuf' = Append(s, p) /\ auxCursor' = auxCursor
    BY <1>3 DEF PushAux
  <2> HIDE DEF s, T
  <2>2. /\ Append(s, p) \in Seq(T) /\ Len(Append(s, p)) = Len(s) + 1
        /\ \A k \in 1..Len(s) : Append(s, p)[k] = s[k]
        /\ Append(s, p)[Len(s) + 1] = p
    BY <1>1
  <2>3. Len(s) - 0 + 1 = Len(s) + 1 /\ Len(s) - 0 = Len(s) /\ 0 <= Len(s) /\ 0 \in 0..1
        /\ \A k \in 1..Len(s) : 0 + k = k
    BY <1>1
  <2> DEFINE d == 0
  <2>4. /\ d \in 0..1 /\ d # 1 /\ d <= Len(s) /\ Len(s) - d = Len(s) /\ Len(s) - d + 1 = Len(s) + 1
        /\ \A k \in 1..Len(s) : d + k = k
    BY <2>3
  <2> HIDE DEF d
  <2>5. /\ Len(auxBuf') = Len(s) - d + 1
        /\ \A k \in 1..(Len(s) - d) : auxBuf'[k] = s[d + k]
        /\ auxBuf'[Len(s) - d + 1] = p
    BY <2>1, <2>2, <2>4
  <2>6. auxBuf' \in Seq(AuxPacket) /\ auxCursor' = IF d = 1 THEN 0 ELSE auxCursor
    BY <2>1, <2>2, <2>4 DEF T
  <2> QED BY <2>4, <2>5, <2>6 DEF s
<1> QED BY <1>2, <1>3

LEMMA PushKeepsAux ==
  ASSUME AuxInv, NEW p \in AuxPacket, PushAux(p)
  PROVE  AuxInv'
<1> DEFINE L == Len(auxBuf)
           used == auxUsed \cup group.aux
           ahead(k) == PointsFrom(auxBuf'[k], IF k = 1 THEN auxCursor' + 1 ELSE 1)
           was(k) == PointsFrom(auxBuf[k], IF k = 1 THEN auxCursor + 1 ELSE 1)
<1>1. /\ p.begin \notin auxSent /\ auxSent' = auxSent \cup {p.begin}
      /\ auxUsed' = auxUsed /\ group' = group
      /\ auxBuf # <<>> => p.begin > auxBuf[Len(auxBuf)].begin
  BY DEF PushAux, AuxAdmissible
<1>2. AuxQueued
  BY DEF AuxInv
<1>3. PICK d \in 0..1 :
        /\ d <= Len(auxBuf)
        /\ auxBuf' \in Seq(AuxPacket) /\ Len(auxBuf') = Len(auxBuf) - d + 1
        /\ \A k \in 1..(Len(auxBuf) - d) : auxBuf'[k] = auxBuf[d + k]
        /\ auxBuf'[Len(auxBuf) - d + 1] = p
        /\ auxCursor' = IF d = 1 THEN 0 ELSE auxCursor
  BY <1>2, QueueAfterPush
<1>4. /\ L \in Nat /\ auxCursor \in Nat /\ auxCursor' \in Nat
      /\ d \in {0, 1} /\ L - d \in Nat /\ Len(auxBuf') = (L - d) + 1
  BY <1>2, <1>3 DEF AuxQueued
<1>5. /\ \A k \in 1..L : auxBuf[k].begin \in auxSent /\ auxBuf[k].begin \in Int
      /\ \A k, l \in 1..L : k < l => auxBuf[k].begin < auxBuf[l].begin
      /\ p.begin \in Int
  BY <1>2, PacketFields DEF AuxQueued
<1>6. \A k \in 1..L : auxBuf[k].begin < p.begin
  <2> SUFFICES ASSUME NEW k \in 1..L PROVE auxBuf[k].begin < p.begin
    OBVIOUS
  <2>1. L \in 1..L /\ auxBuf # <<>>
    BY <1>4
  <2>2. auxBuf[L].begin < p.begin
    BY <1>1, <1>5, <2>1
  <2>3. k = L \/ k < L
    BY <1>4
  <2> QED BY <1>5, <2>1, <2>2, <2>3
<1>7. \A k \in 1..((L - d) + 1) :
        \/ k \in 1..(L - d) /\ d + k \in 1..L /\ auxBuf'[k] = auxBuf[d + k]
        \/ k = (L - d) + 1 /\ auxBuf'[k] = p
  BY <1>3, <1>4
<1>8. AuxQueued'
  <2>1. auxBuf' # <<>>
    <3>1. Len(auxBuf') # 0
      BY <1>4
    <3> QED BY <3>1
  <2>2. ASSUME NEW k \in 1..Len(auxBuf') PROVE auxBuf'[k].begin \in auxSent'
    BY <1>1, <1>4, <1>5, <1>7
  <2>3. ASSUME NEW k \in 1..Len(auxBuf'), NEW l \in 1..Len(auxBuf'), k < l
        PROVE  auxBuf'[k].begin < auxBuf'[l].begin
    <3>1. k \in 1..(L - d) /\ d + k \in 1..L /\ auxBuf'[k] = auxBuf[d + k] /\ d + k < d + l
      <4>1. k \in 1..(L - d) /\ d + k \in 1..L /\ d + k < d + l
        <5> HIDE DEF L
        <5> QED BY <1>4, <2>3
      <4> QED BY <1>3, <4>1
    <3>2. CASE l \in 1..(L - d)
      <4>1. d + l \in 1..L /\ auxBuf'[l] = auxBuf[d + l]
        BY <1>3, <1>4, <3>2
      <4> QED BY <1>5, <3>1, <4>1
    <3>3. CASE auxBuf'[l] = p
      BY <1>6, <3>1, <3>3
    <3> QED BY <1>4, <1>7, <3>2, <3>3
  <2> QED BY <1>3, <1>4, <2>1, <2>2, <2>3 DEF AuxQueued
<1>9. /\ \A k \in 1..L : was(k) \cap used = {}
      /\ \A a \in used : a.packet \in auxSent /\ a.stamp \in Int
  BY UnreadIs DEF AuxInv, AuxRead
<1>10. ASSUME NEW k \in 1..Len(auxBuf') PROVE ahead(k) \cap used = {}
  <2>1. CASE k \in 1..(L - d) /\ d + k \in 1..L /\ auxBuf'[k] = auxBuf[d + k]
    <3>1. CASE k = 1
      <4>1. ahead(k) \subseteq was(d + k)
        <5>1. d = 0 => ahead(k) = was(d + k)
          <6> SUFFICES ASSUME d = 0 PROVE ahead(k) = was(d + k)
            OBVIOUS
          <6>1. auxCursor' = auxCursor /\ d + k = k
            BY <1>3, <3>1
          <6> QED BY <2>1, <6>1
        <5>2. d = 1 => ahead(k) = was(d + k)
          <6> SUFFICES ASSUME d = 1 PROVE ahead(k) = was(d + k)
            OBVIOUS
          <6>1. auxCursor' + 1 = 1 /\ d + k # 1
            BY <1>3, <3>1
          <6> QED BY <2>1, <3>1, <6>1
        <5> QED BY <1>4, <5>1, <5>2
      <4> HIDE DEF ahead, was, used
      <4> QED BY <1>9, <2>1, <4>1
    <3>2. CASE k # 1
      <4>1. d + k # 1
        BY <1>4, <3>2
      <4>2. ahead(k) = was(d + k)
        BY <2>1, <3>2, <4>1
      <4> HIDE DEF ahead, was, used
      <4> QED BY <1>9, <2>1, <4>2
    <3> QED BY <3>1, <3>2
  <2>2. CASE auxBuf'[k] = p
    <3>1. \A a \in ahead(k) : a.packet = p.begin
      BY <2>2 DEF PointsFrom
    <3> HIDE DEF ahead
    <3> QED BY <1>1, <1>9, <3>1
  <2> QED BY <1>4, <1>7, <2>1, <2>2
<1>11. AuxRead'
  <2>1. \A k \in 1..Len(auxBuf') : Unread(k)' = ahead(k)
    BY UnreadIs
  <2> HIDE DEF ahead
  <2>2. \A k \in 1..Len(auxBuf') : Unread(k)' \cap (auxUsed' \cup group'.aux) = {}
    BY <1>1, <1>10, <2>1
  <2>3. \A a \in auxUsed' \cup group'.aux : a.packet \in auxSent' /\ a.stamp \in Int
    BY <1>1, <1>9
  <2> QED BY <2>2, <2>3 DEF AuxRead
<1>12. AuxPointsOnce'
  BY <1>1 DEF AuxInv, AuxPointsOnce, InWindow
<1> QED BY <1>8, <1>11, <1>12 DEF AuxInv

\* Every other step leaves the auxiliary queue and what was taken from it.
LEMMA AuxStutters ==
  ASSUME AuxInv, UNCHANGED auxVars
  PROVE  AuxInv'
<1>1. /\ auxBuf' = auxBuf /\ auxCursor' = auxCursor /\ auxUsed' = auxUsed
      /\ auxSent' = auxSent /\ group' = group
  BY DEF auxVars
<1>2. AuxQueued'
  BY <1>1 DEF AuxInv, AuxQueued
<1>3. AuxRead'
  BY <1>1, UnreadIs DEF AuxInv, AuxRead
<1>4. AuxPointsOnce'
  BY <1>1 DEF AuxInv, AuxPointsOnce, InWindow
<1> QED BY <1>2, <1>3, <1>4 DEF AuxInv

LEMMA AuxStarts ==
  ASSUME BuffersInit
  PROVE  AuxInv
<1>1. auxBuf = <<>> /\ auxCursor = 0 /\ auxUsed = {} /\ group.aux = {}
  BY DEF BuffersInit, NoGroup
<1>2. auxBuf \in Seq(AuxPacket) /\ Len(auxBuf) = 0
  BY <1>1
<1>3. 1..Len(auxBuf) = {}
  BY <1>2
<1> QED BY <1>1, <1>2, <1>3 DEF AuxInv, AuxQueued, AuxRead, AuxPointsOnce

\* The packets of the queue lie one after the other.
LEMMA PacketsInOrder ==
  ASSUME AuxQueued, NEW k \in 1..Len(auxBuf), NEW l \in 1..Len(auxBuf), k < l
  PROVE  auxBuf[k].end <= auxBuf[l].begin
<1>1. /\ auxBuf[k] \in AuxPacket /\ auxBuf[l] \in AuxPacket
      /\ auxBuf[k].begin < auxBuf[l].begin
  BY DEF AuxQueued
<1>2. Announced(auxBuf[k]) /\ Announced(auxBuf[l])
  BY <1>1 DEF AuxPacket
<1>3. PICK msg \in AuxMessages :
        /\ msg.points # <<>> /\ auxBuf[k].begin = msg.header
        /\ auxBuf[k].end = msg.header + Last(msg.points).t
  BY <1>2 DEF Announced
<1>4. PICK next \in AuxMessages : auxBuf[l].begin = next.header
  BY <1>2 DEF Announced
<1>5. msg.header + Last(msg.points).t <= next.header
  BY <1>1, <1>3, <1>4, IntakeAssumption DEF InSequence
<1> QED BY <1>3, <1>4, <1>5

\* A point of the scan's window is in a packet that the loop crops.
LEMMA DuePacket ==
  ASSUME AuxQueued, NEW scan, scan.begin \in Int, scan.end \in Int,
         NEW n, n = PacketsPopped(scan),
         NEW k \in 1..Len(auxBuf), NEW a \in Unread(k), InWindow(a, scan)
  PROVE  /\ ~Before(auxBuf[k], scan)
         /\ k <= n \/ (k = n + 1 /\ Partial(n, scan))
<1> DEFINE p == auxBuf[k]
           q == auxBuf[n + 1]
<1>1. /\ n \in 0..Len(auxBuf) /\ Len(auxBuf) \in Nat /\ p \in AuxPacket
      /\ n < Len(auxBuf) => q \in AuxPacket /\ ~Spent(q, scan)
  BY PoppedIs DEF AuxQueued
<1>2. PICK i \in 1..Len(p.points) : a.stamp = p.points[i] + AuxOffset
  <2>1. auxCursor \in Nat /\ a \in PointsFrom(p, IF k = 1 THEN auxCursor + 1 ELSE 1)
    BY UnreadIs DEF AuxQueued
  <2> QED BY <1>1, <2>1, PointsFromAre
<1>3. /\ p.begin \in Int /\ p.end \in Int /\ p.points[i] \in Int
      /\ p.begin <= p.points[i] /\ p.points[i] <= p.end
  BY <1>1, <1>2, PacketFields DEF AuxPacket
<1>4. scan.begin <= a.stamp /\ a.stamp < scan.end
  BY DEF InWindow
<1>5. AuxOffset \in Int /\ SyncMargin \in Nat
  BY BuffersAssumption
<1>6. p.begin + AuxOffset <= a.stamp /\ a.stamp <= p.end + AuxOffset /\ a.stamp \in Int
  <2> DEFINE x == p.points[i]
  <2>1. /\ x \in Int /\ p.begin \in Int /\ p.end \in Int
        /\ p.begin <= x /\ x <= p.end /\ a.stamp = x + AuxOffset
    BY <1>2, <1>3
  <2> HIDE DEF x, p
  <2> QED BY <1>5, <2>1
<1>7. ~Before(p, scan)
  <2> DEFINE e == p.end + AuxOffset
  <2>1. e \in Int /\ a.stamp <= e
    BY <1>3, <1>5, <1>6
  <2> HIDE DEF e
  <2>2. ~(e < scan.begin - SyncMargin)
    BY <1>4, <1>5, <1>6, <2>1
  <2> QED BY <2>2 DEF Before, e
<1>8. ASSUME n < k PROVE k = n + 1 /\ Partial(n, scan)
  <2>1. n < Len(auxBuf) /\ n + 1 \in 1..Len(auxBuf) /\ n + 1 <= k
    BY <1>1, <1>8
  <2>2. q \in AuxPacket /\ q.begin \in Int /\ q.end \in Int
    BY <1>1, <2>1, PacketFields
  <2>3. q.begin <= p.begin
    <3>1. n + 1 = k \/ n + 1 < k
      BY <1>1, <2>1
    <3>2. n + 1 < k => q.begin < p.begin
      BY <2>1 DEF AuxQueued
    <3> HIDE DEF p, q
    <3>3. n + 1 = k => q.begin = p.begin
      BY DEF p, q
    <3> QED BY <1>3, <2>2, <3>1, <3>2, <3>3
  <2>4. ~After(q, scan)
    <3> HIDE DEF p, q
    <3>1. q.begin + AuxOffset <= scan.end + SyncMargin
      <4>1. q.begin + AuxOffset <= a.stamp
        BY <1>3, <1>5, <1>6, <2>2, <2>3
      <4>2. q.begin + AuxOffset \in Int
        BY <1>5, <2>2
      <4> QED BY <1>4, <1>5, <1>6, <4>1, <4>2
    <3>2. q.begin + AuxOffset \in Int /\ scan.end + SyncMargin \in Int
      BY <1>5, <2>2
    <3> QED BY <3>1, <3>2 DEF After
  <2>5. PICK j \in DOMAIN q.points : ~(q.points[j] + AuxOffset < scan.end)
    BY <1>1, <2>1, <2>4 DEF Spent
  <2>6. q.points[j] \in Int /\ q.points[j] <= q.end
    <3>1. j \in 1..Len(q.points)
      <4>1. q.points \in Seq(Int)
        BY <2>2, PacketFields
      <4> QED BY <2>5, <4>1
    <3> QED BY <2>2, <3>1, PacketFields DEF AuxPacket
  <2>7. ~(n + 1 < k)
    <3> SUFFICES ASSUME n + 1 < k PROVE FALSE
      OBVIOUS
    <3>1. q.end <= p.begin
      BY <2>1, PacketsInOrder
    <3> HIDE DEF p, q
    <3>2. q.points[j] <= p.begin
      BY <1>3, <2>2, <2>6, <3>1
    <3>3. q.points[j] + AuxOffset <= p.begin + AuxOffset
      BY <1>3, <1>5, <2>6, <3>2
    <3>4. q.points[j] + AuxOffset \in Int /\ p.begin + AuxOffset \in Int
      BY <1>3, <1>5, <2>6
    <3> QED BY <1>4, <1>6, <2>5, <3>3, <3>4
  <2>8. Partial(n, scan)
    BY <2>1, <2>4 DEF Partial
  <2> QED BY <1>1, <2>1, <2>7, <2>8
<1> QED BY <1>1, <1>7, <1>8

\* So the cut takes everything that is due.
LEMMA CutIsDue ==
  ASSUME AuxQueued, NEW scan, scan.begin \in Int, scan.end \in Int
  PROVE  AuxCropped(scan) = {a \in UNION {Unread(k) : k \in DOMAIN auxBuf} : InWindow(a, scan)}
<1> DEFINE n == PacketsPopped(scan)
           last == IF Partial(n, scan) THEN n + 1 ELSE n
           read == {k \in 1..last : ~Before(auxBuf[k], scan)}
           due == {a \in UNION {Unread(k) : k \in DOMAIN auxBuf} : InWindow(a, scan)}
<1>1. n \in 0..Len(auxBuf) /\ Len(auxBuf) \in Nat /\ DOMAIN auxBuf = 1..Len(auxBuf)
  BY PoppedIs DEF AuxQueued
<1>2. AuxCropped(scan) = UNION {Crop(k, scan) : k \in read}
  BY DEF AuxCropped
<1>3. \A k \in read : k \in DOMAIN auxBuf
  BY <1>1 DEF Partial
<1>4. UNION {Crop(k, scan) : k \in read} \subseteq due
  <2> HIDE DEF read
  <2> QED BY <1>3 DEF Crop
<1>5. ASSUME NEW a \in due PROVE a \in UNION {Crop(k, scan) : k \in read}
  <2>1. PICK k \in 1..Len(auxBuf) : a \in Unread(k) /\ InWindow(a, scan)
    BY <1>1
  <2>2. ~Before(auxBuf[k], scan) /\ (k <= n \/ (k = n + 1 /\ Partial(n, scan)))
    BY <2>1, DuePacket
  <2> HIDE DEF n
  <2>3. k \in 1..last
    BY <1>1, <2>2
  <2>4. k \in read
    BY <2>2, <2>3
  <2> HIDE DEF read
  <2> QED BY <2>1, <2>4 DEF Crop
<1> HIDE DEF due, read
<1> QED BY <1>2, <1>4, <1>5 DEF due

\* The action behind AuxNoneOverlooked.
LEMMA NoneOverlooked ==
  ASSUME AuxQueued, GetMeasurements, lidarBuf[1].begin \in Int, lidarBuf[1].end \in Int
  PROVE  LET due == {a \in UNION {Unread(k) : k \in DOMAIN auxBuf} : InWindow(a, group')}
         IN group'.aux = due \/ (group'.aux = {} /\ Cardinality(due) < MinAuxPoints)
<1> DEFINE scan == lidarBuf[1]
           queued == UNION {Unread(k) : k \in DOMAIN auxBuf}
<1>1. group'.begin = scan.begin /\ group'.end = scan.end /\ group'.aux = AuxOf(scan)
  BY DEF GetMeasurements
<1>2. AuxCropped(scan) = {a \in queued : InWindow(a, scan)}
  BY CutIsDue
<1>3. \A a : InWindow(a, scan) = InWindow(a, group')
  BY <1>1 DEF InWindow
<1>4. AuxCropped(scan) = {a \in queued : InWindow(a, group')}
  <2> HIDE DEF queued, scan
  <2> QED BY <1>2, <1>3
<1> HIDE DEF queued, scan
<1> QED BY <1>1, <1>4 DEF AuxOf, queued

-----------------------------------------------------------------------------
(* The conversion of a message, and what is pushed of it.                  *)

\* A product grows with its factor.
LEMMA ProductGrows ==
  ASSUME NEW a \in Int, NEW b \in Int, NEW c \in Nat, a <= b
  PROVE  a * c <= b * c
OBVIOUS

LEMMA QuotientBounds ==
  ASSUME NEW a \in Int, NEW b \in Nat \ {0}
  PROVE  a \div b \in Int /\ a < (a \div b + 1) * b
OBVIOUS

LEMMA WholeQuotient ==
  ASSUME NEW a \in Int, NEW b \in Nat \ {0}, a % b = 0
  PROVE  a \div b \in Int /\ a = (a \div b) * b
OBVIOUS

LEMMA Reassociate ==
  ASSUME NEW a \in Int, NEW b \in Int, NEW c \in Int
  PROVE  (a * b) * c = a * (b * c) /\ (a * b) * c = (a * c) * b
OBVIOUS

\* A point is not later than the end of the segment it is put into.
LEMMA CutHoldsPoint ==
  ASSUME NEW t \in Int, NEW span \in Int, span > 0, span % Cuts = 0, t <= span
  PROVE  CutOf(t, span) \in Int /\ t <= (CutOf(t, span) + 1) * (span \div Cuts)
<1> DEFINE delta == span \div Cuts
           q == (t * Cuts) \div span
<1>1. Cuts \in Nat \ {0} /\ span \in Nat \ {0}
  BY ConvertAssumption
<1>2. delta \in Int /\ span = delta * Cuts
  BY <1>1, WholeQuotient
<1>3. t * Cuts \in Int
  BY <1>1
<1>4. q \in Int /\ t * Cuts < (q + 1) * span
  BY <1>1, <1>3, QuotientBounds
<1>5. CutOf(t, span) = IF q >= Cuts THEN Cuts - 1 ELSE q
  BY DEF CutOf
<1> HIDE DEF delta, q
<1>6. CASE q >= Cuts
  <2>1. CutOf(t, span) = Cuts - 1 /\ (Cuts - 1) + 1 = Cuts
    BY <1>1, <1>5, <1>6
  <2>2. (CutOf(t, span) + 1) * delta = span
    BY <1>1, <1>2, <2>1
  <2> QED BY <1>1, <2>1, <2>2 DEF delta
<1>7. CASE ~(q >= Cuts)
  <2>1. CutOf(t, span) = q
    BY <1>5, <1>7
  <2> DEFINE u == (q + 1) * delta
  <2>2. u \in Int /\ u * Cuts = (q + 1) * span
    <3>1. q + 1 \in Int
      BY <1>4
    <3> QED BY <1>1, <1>2, <3>1, Reassociate
  <2> HIDE DEF u
  <2>3. t <= u
    <3>1. u <= t => u * Cuts <= t * Cuts
      BY <1>1, <2>2, ProductGrows
    <3> DEFINE v == (q + 1) * span
               w == t * Cuts
    <3>2. v \in Int /\ w \in Int /\ w < v /\ (u <= t => v <= w)
      BY <1>1, <1>3, <1>4, <2>2, <3>1
    <3> HIDE DEF v, w
    <3> QED BY <2>2, <3>2
  <2> QED BY <1>4, <2>1, <2>3 DEF u, delta
<1> QED BY <1>6, <1>7

\* A segment of the main LiDAR: no point of it is later than its end.
ScanSegment ==
  {s \in [begin : Int, end : Int, points : SUBSET [stamp : Int, cell : Int]] :
     \A p \in s.points : p.stamp <= s.end}

LEMMA CollectedAre ==
  ASSUME NEW k, NEW msg, Timely(k, msg), Arranged(k, msg.points) # <<>>,
         Span(k, Arranged(k, msg.points)) > 0, NEW id \in Nat,
         NEW p \in Collected(k, msg.header, Arranged(k, msg.points), id)
  PROVE  /\ p \in [stamp : Int, cell : Int]
         /\ p.stamp <= msg.header + (id + 1) * (Span(k, Arranged(k, msg.points)) \div Cuts)
<1> DEFINE ps == Arranged(k, msg.points)
           origin == Origin(k, ps)
           span == Span(k, ps)
<1>1. /\ msg.header \in Int /\ ps \in Seq(Point) /\ span % Cuts = 0
      /\ k # "avia" => \A i \in DOMAIN ps : ps[i].t - origin <= span
      /\ k = "robosense" => msg.header = origin
  BY DEF Timely
<1>2. PICK i \in DOMAIN ps :
        /\ Kept(k, ps, i) /\ CutOf(ps[i].t - origin, span) = id
        /\ p = [stamp |-> Stamp(k, msg.header, ps[i], origin), cell |-> ps[i].cell]
  BY DEF Collected
<1>3. /\ origin \in Int /\ span \in Int
      /\ ps[i].t \in Int /\ ps[i].cell \in Int
  <2>1. \A j \in DOMAIN ps : ps[j] \in Point
    BY <1>1
  <2>2. 1 \in DOMAIN ps /\ Len(ps) \in DOMAIN ps
    BY <1>1
  <2>3. \A j \in DOMAIN ps : ps[j].t \in Int /\ ps[j].cell \in Int
    BY <2>1 DEF Point
  <2> HIDE DEF ps
  <2>4. origin \in Int
    BY <2>2, <2>3 DEF Origin
  <2>5. span = ps[Len(ps)].t - origin
    BY DEF Span, Last
  <2> HIDE DEF origin, span
  <2> QED BY <1>2, <2>2, <2>3, <2>4, <2>5
<1>4. ps[i].t - origin <= span
  <2>1. CASE k = "avia"
    <3>1. origin = 0 /\ ps[i].t <= span
      BY <1>2, <2>1 DEF Origin, OwnClock, Kept, InTime
    <3> HIDE DEF ps, origin, span
    <3> QED BY <1>3, <3>1
  <2>2. CASE k # "avia"
    BY <1>1, <1>2, <2>2
  <2> QED BY <2>1, <2>2
<1>5. p.stamp = msg.header + (ps[i].t - origin) /\ p.cell = ps[i].cell
  <2>1. p.cell = ps[i].cell /\ p.stamp = Stamp(k, msg.header, ps[i], origin)
    BY <1>2
  <2> HIDE DEF ps, origin, span
  <2>2. CASE k = "robosense"
    BY <1>1, <1>3, <2>1, <2>2 DEF Stamp
  <2>3. CASE k # "robosense"
    BY <1>1, <1>3, <2>1, <2>3 DEF Stamp
  <2> QED BY <2>1, <2>2, <2>3
<1> DEFINE d == ps[i].t - origin
<1> HIDE DEF ps, origin, span
<1>6. d \in Int /\ d <= (id + 1) * (span \div Cuts)
  <2>1. d \in Int /\ d <= span /\ span > 0
    BY <1>3, <1>4 DEF span, ps
  <2> HIDE DEF d
  <2> QED BY <1>1, <1>2, <1>3, <2>1, CutHoldsPoint DEF d
<1>7. p.stamp \in Int /\ p.cell \in Int
  BY <1>1, <1>3, <1>5
<1>8. p \in [stamp : Int, cell : Int]
  BY <1>2, <1>7
<1>9. span \div Cuts \in Int
  BY <1>1, <1>3, ConvertAssumption
<1> DEFINE u == (id + 1) * (span \div Cuts)
<1>10. u \in Int
  BY <1>9
<1>11. p.stamp <= msg.header + u
  <2> HIDE DEF d, u
  <2> QED BY <1>1, <1>5, <1>6, <1>10 DEF d, u
<1> QED BY <1>8, <1>11 DEF span, ps

LEMMA SegmentsAre ==
  ASSUME NEW k, NEW msg, Timely(k, msg)
  PROVE  Segments(k, msg) \in Seq(ScanSegment)
<1> DEFINE ps == Arranged(k, msg.points)
           span == Span(k, ps)
           delta == span \div Cuts
           seg(n) == [begin |-> SegmentBegin(msg.header, delta, n - 1),
                      end |-> SegmentBegin(msg.header, delta, n - 1) + delta,
                      points |-> Collected(k, msg.header, ps, n - 1)]
<1>1. CASE ps = <<>> \/ span <= 0
  <2>1. Segments(k, msg) = <<>>
    BY <1>1 DEF Segments
  <2> QED BY <2>1
<1>2. CASE ps # <<>> /\ ~(span <= 0)
  <2>1. Segments(k, msg) = [n \in 1..Cuts |-> seg(n)]
    BY <1>2 DEF Segments
  <2>2. msg.header \in Int /\ Cuts \in Nat \ {0} /\ ps \in Seq(Point) /\ span % Cuts = 0
    BY <1>2, ConvertAssumption DEF Timely
  <2>3. span \in Int
    <3>1. 1 \in DOMAIN ps /\ Len(ps) \in DOMAIN ps /\ \A j \in DOMAIN ps : ps[j] \in Point
      BY <1>2, <2>2
    <3>2. \A j \in DOMAIN ps : ps[j].t \in Int
      BY <3>1 DEF Point
    <3> HIDE DEF ps
    <3>3. Origin(k, ps) \in Int
      BY <3>1, <3>2 DEF Origin
    <3>4. span = ps[Len(ps)].t - Origin(k, ps)
      BY DEF Span, Last
    <3> QED BY <3>1, <3>2, <3>3, <3>4
  <2>4. delta \in Int
    <3> HIDE DEF span
    <3> QED BY <2>2, <2>3
  <2>5. ASSUME NEW n \in 1..Cuts PROVE seg(n) \in ScanSegment
    <3> DEFINE id == n - 1
    <3>1. id \in Nat
      BY <2>2
    <3>2. SegmentBegin(msg.header, delta, id) = msg.header + id * delta
      BY DEF SegmentBegin
    <3> DEFINE b == msg.header + id * delta
               e == msg.header + (id + 1) * delta
    <3>3. b \in Int /\ e \in Int /\ b + delta = e
      <4> HIDE DEF id, delta
      <4> QED BY <2>2, <2>4, <3>1
    <3>4. \A p \in Collected(k, msg.header, ps, id) :
             p \in [stamp : Int, cell : Int] /\ p.stamp <= e
      <4>1. span > 0
        <5> HIDE DEF span
        <5> QED BY <1>2, <2>3
      <4> QED BY <1>2, <3>1, <4>1, CollectedAre
    <3>5. seg(n) = [begin |-> b, end |-> e, points |-> Collected(k, msg.header, ps, id)]
      BY <3>2, <3>3
    <3> HIDE DEF b, e, seg
    <3> QED BY <3>3, <3>4, <3>5 DEF ScanSegment
  <2> HIDE DEF seg
  <2>6. [n \in 1..Cuts |-> seg(n)] \in Seq(ScanSegment)
    <3> DEFINE T == ScanSegment
    <3> HIDE DEF T
    <3>1. \A n \in 1..Cuts : seg(n) \in T
      BY <2>5 DEF T
    <3>2. Cuts \in Nat
      BY <2>2
    <3>3. [n \in 1..Cuts |-> seg(n)] \in Seq(T)
      BY <3>1, <3>2
    <3> QED BY <3>3 DEF T
  <2> QED BY <2>1, <2>6
<1> QED BY <1>1, <1>2

\* The auxiliary LiDAR's: a message's points lie in its extent.
AuxSegment ==
  {s \in [begin : Int, end : Int, points : SUBSET [stamp : Int, cell : Int]] :
     /\ Announced(s) /\ IsFiniteSet(s.points)
     /\ \A p \in s.points : s.begin <= p.stamp /\ p.stamp <= s.end}

LEMMA ImageOfIndices ==
  ASSUME NEW n \in Nat, NEW K \in SUBSET (1..n), NEW f
  PROVE  IsFiniteSet({f[i] : i \in K})
<1>1. IsFiniteSet(K)
  <2>1. IsFiniteSet(1..n)
    BY FS_Interval
  <2> QED BY <2>1, FS_Subset
<1> DEFINE I == {f[i] : i \in K}
           g == [i \in K |-> f[i]]
<1>2. g \in Surjection(K, I)
  BY DEF Surjection
<1> QED BY <1>1, <1>2, FS_Surjection

LEMMA AuxSegmentsAre ==
  ASSUME NEW msg \in AuxMessages
  PROVE  AuxSegments(msg) \in Seq(AuxSegment)
<1> DEFINE ps == msg.points
           kept == {i \in DOMAIN ps : ps[i].good /\ (i - 1) % PointFilter = 0}
           f == [i \in DOMAIN ps |-> [stamp |-> msg.header + ps[i].t, cell |-> ps[i].cell]]
           points == {[stamp |-> msg.header + ps[i].t, cell |-> ps[i].cell] : i \in kept}
           s == [begin |-> msg.header, end |-> msg.header + Last(ps).t, points |-> points]
<1>1. /\ msg.header \in Int /\ ps \in Seq(Point)
      /\ \A i \in DOMAIN ps : ps[i].t \in 0..Last(ps).t
  BY IntakeAssumption DEF InSequence
<1>2. CASE ps = <<>> \/ Last(ps).t <= 0
  <2>1. AuxSegments(msg) = <<>>
    BY <1>2 DEF AuxSegments
  <2> QED BY <2>1
<1>3. CASE ps # <<>> /\ ~(Last(ps).t <= 0)
  <2>1. AuxSegments(msg) = <<s>>
    BY <1>3 DEF AuxSegments
  <2>2. Len(ps) \in Nat /\ DOMAIN ps = 1..Len(ps) /\ Len(ps) \in DOMAIN ps
    BY <1>1, <1>3
  <2>3. \A i \in DOMAIN ps : ps[i].t \in Int /\ ps[i].cell \in Int
    <3>1. \A i \in DOMAIN ps : ps[i] \in Point
      BY <1>1
    <3> QED BY <3>1 DEF Point
  <2>4. Last(ps).t \in Int
    BY <2>2, <2>3 DEF Last
  <2>5. IsFiniteSet(points)
    <3>1. IsFiniteSet({f[i] : i \in kept})
      <4> HIDE DEF f
      <4> QED BY <2>2, ImageOfIndices
    <3>2. points = {f[i] : i \in kept}
      OBVIOUS
    <3> QED BY <3>1, <3>2
  <2>6. ASSUME NEW p \in points
        PROVE  /\ p \in [stamp : Int, cell : Int]
               /\ msg.header <= p.stamp /\ p.stamp <= msg.header + Last(ps).t
    <3>1. PICK i \in DOMAIN ps : p = [stamp |-> msg.header + ps[i].t, cell |-> ps[i].cell]
      BY <2>6
    <3> DEFINE t == ps[i].t
               l == Last(ps).t
    <3>2. t \in 0..l /\ t \in Int /\ l \in Int /\ ps[i].cell \in Int
      BY <1>1, <2>3, <2>4
    <3> HIDE DEF t, l
    <3>3. p.stamp = msg.header + t /\ msg.header \in Int
      BY <1>1, <3>1 DEF t
    <3>4. p.stamp \in Int /\ msg.header <= p.stamp /\ p.stamp <= msg.header + l
      BY <3>2, <3>3
    <3>5. p \in [stamp : Int, cell : Int]
      BY <3>1, <3>2, <3>4
    <3> QED BY <3>4, <3>5 DEF l
  <2>7. s \in AuxSegment
    <3>1. Announced(s)
      BY <1>3 DEF Announced
    <3>2. s \in [begin : Int, end : Int, points : SUBSET [stamp : Int, cell : Int]]
      <4> DEFINE e == msg.header + Last(ps).t
      <4>1. e \in Int
        BY <1>1, <2>4
      <4> HIDE DEF points, e
      <4>2. points \in SUBSET [stamp : Int, cell : Int]
        BY <2>6
      <4>3. s = [begin |-> msg.header, end |-> e, points |-> points]
        BY DEF e
      <4> QED BY <1>1, <4>1, <4>2, <4>3
    <3>3. \A p \in s.points : s.begin <= p.stamp /\ p.stamp <= s.end
      <4> HIDE DEF points
      <4> QED BY <2>6
    <3> HIDE DEF points
    <3>4. IsFiniteSet(s.points)
      BY <2>5
    <3> HIDE DEF s
    <3> QED BY <3>1, <3>2, <3>3, <3>4 DEF AuxSegment
  <2> HIDE DEF s
  <2> QED BY <2>1, <2>7
<1> QED BY <1>2, <1>3

\* Down-sampling leaves a scan a scan.
LEMMA SubSampledScan ==
  ASSUME NEW s \in ScanSegment, NEW points \in SubSamples(s.points)
  PROVE  /\ [s EXCEPT !.points = points] \in ScanSegment
         /\ [s EXCEPT !.points = points].begin \in Int
         /\ [s EXCEPT !.points = points].end \in Int
<1>1. points \subseteq s.points
  BY DEF SubSamples
<1> QED BY <1>1 DEF ScanSegment

\* And a message of the auxiliary LiDAR becomes a packet.
LEMMA SubSampledPacket ==
  ASSUME NEW s \in AuxSegment, NEW points \in SubSamples(s.points)
  PROVE  [s EXCEPT !.points = SortFinitePoints(points)] \in AuxPacket
<1> DEFINE t == SortFinitePoints(points)
           p == [s EXCEPT !.points = t]
<1>1. /\ points \subseteq s.points /\ IsFiniteSet(s.points) /\ Announced(s)
      /\ s.begin \in Int /\ s.end \in Int
      /\ \A q \in s.points : q.stamp \in Int /\ s.begin <= q.stamp /\ q.stamp <= s.end
      /\ s = [begin |-> s.begin, end |-> s.end, points |-> s.points]
  BY DEF SubSamples, AuxSegment
<1>2. IsFiniteSet(points)
  BY <1>1, FS_Subset
<1>3. /\ t \in Seq(Int)
      /\ \A i \in 1..Len(t) : \E q \in points : t[i] = q.stamp
      /\ \A i, j \in 1..Len(t) : i < j => t[i] < t[j]
  <2>1. \A q \in points : q.stamp \in Int
    BY <1>1
  <2> QED BY <1>2, <2>1, SortedPoints
<1> HIDE DEF t
<1>4. p = [begin |-> s.begin, end |-> s.end, points |-> t]
  BY <1>1
<1> HIDE DEF p
<1>5. p \in [begin : Int, end : Int, points : Seq(Int)]
  BY <1>1, <1>3, <1>4
<1>6. p.begin = s.begin /\ p.end = s.end /\ p.points = t
  BY <1>4
<1>7. Announced(p)
  BY <1>1, <1>6 DEF Announced
<1>8. \A i \in 1..Len(t) : s.begin <= t[i] /\ t[i] <= s.end
  BY <1>1, <1>3
<1> QED BY <1>3, <1>5, <1>6, <1>7, <1>8 DEF AuxPacket, p, t

-----------------------------------------------------------------------------
(* The trajectory of a frame.                                              *)

\* A path from a to b passes every time between them.
LEMMA PathCovers ==
  ASSUME NEW L \in Seq(Legs), NEW a \in Int, NEW b \in Int, a < b, Path(L, a, b),
         NEW t \in Int, a <= t, t <= b
  PROVE  \E i \in DOMAIN L : L[i].from <= t /\ t <= L[i].to
<1> DEFINE n == Len(L)
           S == {i \in 1..n : t <= L[i].to}
<1>1. L # <<>>
  BY DEF Path
<1>2. /\ n \in Nat /\ n \in 1..n /\ DOMAIN L = 1..n
      /\ L[1].from = a /\ L[n].to = b
      /\ \A i \in 2..n : L[i].from = L[i - 1].to
  BY <1>1 DEF Path
<1>3. \A i \in 1..n : L[i].from \in Int /\ L[i].to \in Int
  <2>1. \A i \in 1..n : L[i] \in Legs
    BY <1>2
  <2> QED BY <2>1 DEF Legs
<1> HIDE DEF n
<1>4. PICK i \in S : \A k \in S : i <= k
  <2>1. n \in S /\ S \in SUBSET Nat
    BY <1>2
  <2> HIDE DEF S
  <2> QED BY <2>1, LeastNatural
<1>5. L[i].from <= t
  <2>1. CASE i = 1
    BY <1>2, <2>1
  <2>2. CASE i # 1
    <3>1. i \in 2..n /\ i - 1 \in 1..n /\ ~(i <= i - 1)
      BY <1>2, <2>2
    <3>2. ~(t <= L[i - 1].to)
      BY <1>4, <3>1
    <3> QED BY <1>2, <1>3, <3>1, <3>2
  <2> QED BY <2>1, <2>2
<1> QED BY <1>2, <1>4, <1>5

\* The trajectory behind the frame in hand is one of legs.
Trajectory ==
  lpc = "send" => legs \in Seq(Legs) /\ startTime \in Int /\ startTime < group.end

LEMMA TrajectoryStays ==
  ASSUME LioInv, Trajectory, [LioStep]_lioVars
  PROVE  Trajectory'
<1> SUFFICES ASSUME lpc' = "send"
             PROVE  legs' \in Seq(Legs) /\ startTime' \in Int /\ startTime' < group'.end
  BY DEF Trajectory
<1>1. CASE \E v \in Verdicts : Estimate(group, v) /\ UNCHANGED bufVars /\ ~lioStopping
  <2>1. /\ legs' = PredictLegs(group) /\ startTime' = eskfTime /\ group' = group
        /\ lpc = "frame" /\ ~needInit /\ PredictOk(group)
    BY <1>1 DEF Estimate, bufVars
  <2>2. /\ group.end \in Int /\ eskfTime \in Int
    BY DEF LioInv, LioTypes
  <2>3. PICK m, r \in Nat : /\ m \in 1..Len(imuSeen) /\ r \in 1..Len(imuSeen)
                            /\ PlacedGroup(m, r)
    BY <1>1, <2>1, FrameIsPlaced DEF PredictOk
  <2>4. eskfTime < group.end
    <3>1. group.imu \in Seq(Int)
      BY <2>3 DEF PlacedGroup, CutAt
    <3> QED BY <2>1, <2>2, <3>1, PredictAdvances
  <2> QED BY <2>1, <2>2, <2>3, <2>4, PredictedLegs
<1>2. CASE lpc = "send" /\ UNCHANGED <<legs, startTime, group>>
  BY <1>2 DEF Trajectory
<1>3. CASE UNCHANGED lioVars
  BY <1>2, <1>3 DEF lioVars, bufVars, frameVars
<1>4. CASE LioStep
  <2>1. ASSUME NEW ts, GatedPush(ts) PROVE lpc = "send" /\ UNCHANGED <<legs, startTime, group>>
    BY <2>1 DEF GatedPush, LioImu, PushImu, bufVars, frameVars
  <2>2. ASSUME NEW s, LioScan(s) PROVE lpc = "send" /\ UNCHANGED <<legs, startTime, group>>
    BY <2>2 DEF LioScan, PushScan, frameVars
  <2>3. ASSUME NEW p, PushAux(p), UNCHANGED frameVars
        PROVE  lpc = "send" /\ UNCHANGED <<legs, startTime, group>>
    BY <2>3 DEF PushAux, frameVars
  <2>4. ASSUME LioStop PROVE lpc = "send" /\ UNCHANGED <<legs, startTime, group>>
    BY <2>4 DEF LioStop, Stop, frameVars
  <2>5. ASSUME ProcessGroup
        PROVE  \E v \in Verdicts : Estimate(group, v) /\ UNCHANGED bufVars /\ ~lioStopping
    BY <2>5 DEF ProcessGroup, InitFrame, PredictFails, EstimateBroken
  <2>6. ~(TakeGroup \/ SendState \/ MaintainMap \/ FrameFails \/ FrameThrows \/ StopSeen)
    BY DEF TakeGroup, SendState, AfterSend, MaintainMap, UpdateMap, ShowOnly, FrameFails,
           FrameThrows, StopSeen, AbandonGroup, LeaveRun
  <2> QED BY <1>1, <1>2, <1>4, <2>1, <2>2, <2>3, <2>4, <2>5, <2>6 DEF LioStep
<1> QED BY <1>1, <1>2, <1>3, <1>4

-----------------------------------------------------------------------------
(* The chain behind the LiDAR callbacks.                                   *)

\* What the callback in hand has still to push.
Held == held \in Seq(IF heldAux THEN AuxSegment ELSE ScanSegment)

\* No point of a queued scan, or of the frame in hand, is later than its end.
Clouds ==
  /\ lidarBuf \in Seq(ScanSegment)
  /\ \A p \in cloud : p.stamp \in Int /\ p.stamp <= group.end

IntakeInv == LioInv /\ AuxInv /\ Trajectory /\ kind \in Kinds /\ Held /\ Clouds

LEMMA IntakeStarts ==
  ASSUME IntakeInit
  PROVE  IntakeInv
<1>1. LioInv /\ AuxInv /\ kind \in Kinds
  BY LioStarts, AuxStarts DEF IntakeInit, LioInit
<1>2. Trajectory /\ Held /\ Clouds
  BY DEF IntakeInit, LioInit, BuffersInit, FrameInit, Trajectory, Held, Clouds
<1> QED BY <1>1, <1>2 DEF IntakeInv

\* Steps that leave the queues of both LiDARs and the group alone.
LEMMA QueuesLeft ==
  ASSUME \/ \E ts \in Int : GatedPush(ts)
         \/ LioStop \/ UNCHANGED lioVars
         \/ ProcessGroup \/ SendState \/ MaintainMap \/ FrameFails \/ FrameThrows \/ StopSeen
  PROVE  UNCHANGED <<auxVars, lidarBuf>>
<1>1. ASSUME NEW ts \in Int, GatedPush(ts) PROVE UNCHANGED <<auxVars, lidarBuf>>
  BY <1>1 DEF GatedPush, LioImu, PushImu, bufVars, queueVars, historyVars, auxVars
<1>2. ASSUME LioStop PROVE UNCHANGED <<auxVars, lidarBuf>>
  BY <1>2 DEF LioStop, Stop, queueVars, historyVars, auxVars
<1>3. ASSUME UNCHANGED bufVars PROVE UNCHANGED <<auxVars, lidarBuf>>
  BY <1>3 DEF bufVars, queueVars, historyVars, auxVars
<1>4. ASSUME \/ UNCHANGED lioVars \/ ProcessGroup \/ SendState \/ MaintainMap
             \/ FrameFails \/ FrameThrows \/ StopSeen
      PROVE  UNCHANGED bufVars
  BY <1>4 DEF lioVars, ProcessGroup, SendState, MaintainMap, FrameFails, FrameThrows, StopSeen
<1> QED BY <1>1, <1>2, <1>3, <1>4

\* A cut takes the points of the scan it is made for.
LEMMA TakeIsClean ==
  ASSUME AuxInv, lidarBuf \in Seq(ScanSegment), GetMeasurements,
         cloud' = IF lidarBuf' = lidarBuf THEN cloud ELSE Head(lidarBuf).points
  PROVE  AuxInv' /\ Clouds'
<1> DEFINE T == ScanSegment
<1>1. /\ lidarBuf # <<>> /\ lidarBuf' = Tail(lidarBuf) /\ group'.end = lidarBuf[1].end
      /\ lidarBuf \in Seq(T)
  BY DEF GetMeasurements, ScanReady
<1>2. /\ lidarBuf' \in Seq(T) /\ lidarBuf' # lidarBuf
      /\ lidarBuf[1] \in T /\ Head(lidarBuf) = lidarBuf[1]
  <2> HIDE DEF T
  <2> DEFINE s == lidarBuf
  <2>1. s \in Seq(T) /\ s # <<>> /\ lidarBuf' = Tail(s)
    BY <1>1
  <2> HIDE DEF s
  <2>2. Tail(s) \in Seq(T) /\ s[1] \in T /\ Head(s) = s[1]
    BY <2>1
  <2>3. Len(Tail(s)) # Len(s)
    BY <2>1
  <2> QED BY <2>1, <2>2, <2>3 DEF s
<1>3. lidarBuf[1].begin \in Int /\ lidarBuf[1].end \in Int
      /\ \A p \in lidarBuf[1].points : p.stamp \in Int /\ p.stamp <= lidarBuf[1].end
  BY <1>2 DEF ScanSegment
<1> QED BY <1>1, <1>2, <1>3, CutKeepsAux DEF Clouds

LEMMA ScanIsClean ==
  ASSUME AuxInv, Clouds, NEW s \in ScanSegment, LioScan(s), UNCHANGED cloud
  PROVE  AuxInv' /\ Clouds'
<1>1. lidarBuf' = Append(lidarBuf, s) /\ UNCHANGED auxVars
  BY DEF LioScan, PushScan, auxVars, historyVars
<1>2. lidarBuf' \in Seq(ScanSegment)
  <2> HIDE DEF ScanSegment
  <2> QED BY <1>1 DEF Clouds
<1>3. group' = group
  BY <1>1 DEF auxVars
<1> QED BY <1>1, <1>2, <1>3, AuxStutters DEF Clouds

LEMMA CloudsStay ==
  ASSUME Clouds, UNCHANGED <<group, lidarBuf, cloud>>
  PROVE  Clouds'
BY DEF Clouds

\* What each action of IntakeNext does: a step of the chain, and the rest.
LEMMA CallbackSteps ==
  ASSUME IntakeInv, \/ \E msg \in Messages[kind] : Receive(msg)
                    \/ \E msg \in AuxMessages : ReceiveAux(msg)
  PROVE  UNCHANGED lioVars /\ AuxInv' /\ Clouds' /\ kind' \in Kinds /\ Held'
<1>1. UNCHANGED lioVars /\ UNCHANGED <<kind, cloud>>
  BY DEF Receive, ReceiveAux
<1>2. UNCHANGED <<auxVars, lidarBuf>>
  BY <1>1, QueuesLeft
<1>3. group' = group
  BY <1>2 DEF auxVars
<1>4. AuxInv' /\ Clouds' /\ kind' \in Kinds
  BY <1>1, <1>2, <1>3, AuxStutters, CloudsStay DEF IntakeInv
<1>5. ASSUME NEW msg \in Messages[kind], Receive(msg) PROVE Held'
  <2>1. Timely(kind, msg)
    BY IntakeAssumption DEF IntakeInv
  <2>2. held' \in Seq(ScanSegment) /\ ~heldAux'
    BY <1>5, <2>1, SegmentsAre DEF Receive
  <2> QED BY <2>2 DEF Held
<1>6. ASSUME NEW msg \in AuxMessages, ReceiveAux(msg) PROVE Held'
  <2>1. held' \in Seq(AuxSegment) /\ heldAux'
    BY <1>6, AuxSegmentsAre DEF ReceiveAux
  <2> QED BY <2>1 DEF Held
<1> QED BY <1>1, <1>4, <1>5, <1>6

LEMMA PushMainSteps ==
  ASSUME IntakeInv, PushMain
  PROVE  [LioStep]_lioVars /\ AuxInv' /\ Clouds' /\ kind' \in Kinds /\ Held'
<1>1. /\ held # <<>> /\ held' = Tail(held) /\ held \in Seq(ScanSegment)
      /\ heldAux' = heldAux /\ kind' = kind /\ cloud' = cloud /\ ~heldAux
  BY DEF PushMain, IntakeInv, Held
<1>2. Head(held) \in ScanSegment /\ held' \in Seq(ScanSegment)
  <2> HIDE DEF ScanSegment
  <2> QED BY <1>1
<1>3. PICK points \in SubSamples(Head(held).points) :
        LET scan == [Head(held) EXCEPT !.points = points]
        IN \/ LioScan(scan)
           \/ ScanOverflow(scan) /\ LioStop
           \/ ~ScanAdmissible(scan) /\ UNCHANGED lioVars
  BY DEF PushMain
<1> DEFINE scan == [Head(held) EXCEPT !.points = points]
<1>4. scan \in ScanSegment /\ scan.begin \in Int /\ scan.end \in Int
  BY <1>2, SubSampledScan
<1>5. LioScan(scan) \/ LioStop \/ UNCHANGED lioVars
  BY <1>3
<1> HIDE DEF scan
<1>6. CASE LioScan(scan)
  <2>1. AuxInv' /\ Clouds'
    BY <1>1, <1>4, <1>6, ScanIsClean DEF IntakeInv
  <2>2. LioStep
    BY <1>4, <1>6 DEF LioStep
  <2> QED BY <1>1, <1>2, <2>1, <2>2 DEF Held, IntakeInv
<1>7. CASE LioStop \/ UNCHANGED lioVars
  <2>1. UNCHANGED <<auxVars, lidarBuf>>
    BY <1>7, QueuesLeft
  <2>2. group' = group
    BY <2>1 DEF auxVars
  <2>3. AuxInv' /\ Clouds'
    BY <1>1, <2>1, <2>2, AuxStutters, CloudsStay DEF IntakeInv
  <2>4. [LioStep]_lioVars
    BY <1>7 DEF LioStep
  <2> QED BY <1>1, <1>2, <2>3, <2>4 DEF Held, IntakeInv
<1> QED BY <1>5, <1>6, <1>7

LEMMA PushAuxiliarySteps ==
  ASSUME IntakeInv, PushAuxiliary
  PROVE  [LioStep]_lioVars /\ AuxInv' /\ Clouds' /\ kind' \in Kinds /\ Held'
<1>1. /\ held # <<>> /\ held' = Tail(held) /\ held \in Seq(AuxSegment)
      /\ heldAux' = heldAux /\ kind' = kind /\ cloud' = cloud /\ heldAux
  BY DEF PushAuxiliary, IntakeInv, Held
<1>2. Head(held) \in AuxSegment /\ held' \in Seq(AuxSegment)
  <2> HIDE DEF AuxSegment
  <2> QED BY <1>1
<1>3. PICK points \in SubSamples(Head(held).points) :
        LET packet == [Head(held) EXCEPT !.points = SortFinitePoints(points)]
        IN IF AuxAdmissible(packet)
           THEN PushAux(packet) /\ UNCHANGED frameVars
           ELSE UNCHANGED lioVars
  BY DEF PushAuxiliary
<1> DEFINE packet == [Head(held) EXCEPT !.points = SortFinitePoints(points)]
<1>4. packet \in AuxPacket
  BY <1>2, SubSampledPacket
<1>5. (PushAux(packet) /\ UNCHANGED frameVars) \/ UNCHANGED lioVars
  BY <1>3
<1> HIDE DEF packet
<1>6. CASE PushAux(packet) /\ UNCHANGED frameVars
  <2>1. AuxInv'
    BY <1>4, <1>6, PushKeepsAux DEF IntakeInv
  <2>2. UNCHANGED <<group, lidarBuf>>
    BY <1>6 DEF PushAux
  <2>3. Clouds'
    BY <1>1, <2>2, CloudsStay DEF IntakeInv
  <2>4. LioStep
    BY <1>6 DEF LioStep
  <2> QED BY <1>1, <1>2, <2>1, <2>3, <2>4 DEF Held, IntakeInv
<1>7. CASE UNCHANGED lioVars
  <2>1. UNCHANGED <<auxVars, lidarBuf>>
    BY <1>7, QueuesLeft
  <2>2. group' = group
    BY <2>1 DEF auxVars
  <2>3. AuxInv' /\ Clouds'
    BY <1>1, <2>1, <2>2, AuxStutters, CloudsStay DEF IntakeInv
  <2> QED BY <1>1, <1>2, <1>7, <2>3 DEF Held, IntakeInv
<1> QED BY <1>5, <1>6, <1>7

LEMMA OtherSteps ==
  ASSUME IntakeInv, \/ UNCHANGED allVars
                    \/ \E ts \in ImuStamps : GatedImu(ts)
                    \/ IntakeWorker
  PROVE  [LioStep]_lioVars /\ AuxInv' /\ Clouds' /\ kind' \in Kinds /\ Held'
<1>1. UNCHANGED <<kind, held, heldAux>>
  BY DEF allVars, intakeVars, GatedImu, IntakeWorker
<1>2. kind' \in Kinds /\ Held'
  BY <1>1 DEF IntakeInv, Held
<1>3. CASE IntakeWorker /\ TakeGroup
  <2>1. AuxInv' /\ Clouds'
    BY <1>3, TakeIsClean DEF IntakeInv, Clouds, IntakeWorker, TakeGroup
  <2> QED BY <1>2, <1>3, <2>1 DEF LioStep
<1> DEFINE rest == \/ \E ts \in Int : GatedPush(ts)
                   \/ LioStop \/ UNCHANGED lioVars
                   \/ ProcessGroup \/ SendState \/ MaintainMap
                   \/ FrameFails \/ FrameThrows \/ StopSeen
<1>4. CASE rest /\ (lidarBuf' = lidarBuf => cloud' = cloud)
  <2>1. UNCHANGED <<auxVars, lidarBuf>>
    BY <1>4, QueuesLeft
  <2>2. group' = group
    BY <2>1 DEF auxVars
  <2>3. AuxInv' /\ Clouds'
    BY <1>4, <2>1, <2>2, AuxStutters, CloudsStay DEF IntakeInv
  <2>4. [LioStep]_lioVars
    BY <1>4 DEF LioStep
  <2> QED BY <1>2, <2>3, <2>4
<1>5. CASE UNCHANGED allVars
  BY <1>4, <1>5 DEF allVars, intakeVars
<1>6. ASSUME NEW ts \in ImuStamps, GatedImu(ts)
      PROVE  rest /\ cloud' = cloud
  <2>1. ts \in Int
    BY IntakeAssumption
  <2> QED BY <1>6, <2>1 DEF GatedImu, GatedPush, intakeVars
<1>7. ASSUME IntakeWorker
      PROVE  TakeGroup \/ (rest /\ (lidarBuf' = lidarBuf => cloud' = cloud))
  BY <1>7 DEF IntakeWorker, WorkerRuns
<1> HIDE DEF rest
<1> QED BY <1>3, <1>4, <1>5, <1>6, <1>7

LEMMA IntakeIsLioStep ==
  ASSUME IntakeInv, [IntakeNext]_allVars
  PROVE  [LioStep]_lioVars /\ IntakeInv'
<1>1. [LioStep]_lioVars /\ AuxInv' /\ Clouds' /\ kind' \in Kinds /\ Held'
  BY CallbackSteps, PushMainSteps, PushAuxiliarySteps, OtherSteps DEF IntakeNext
<1>2. LioInv' /\ Trajectory'
  BY <1>1, LioStepPreserves, TrajectoryStays DEF IntakeInv
<1> QED BY <1>1, <1>2 DEF IntakeInv

\* The invariant holds of the LIO chain behind its callbacks.
THEOREM IntakeInvHolds == IntakeSpec => []IntakeInv
<1>1. IntakeInit => IntakeInv
  BY IntakeStarts
<1>2. IntakeInv /\ [IntakeNext]_allVars => IntakeInv'
  BY IntakeIsLioStep
<1> QED BY <1>1, <1>2, PTL DEF IntakeSpec

\* No sample is skipped by a group or handed to two of them but as a bracket,
\* and each group covers its scan (getMeasureMents), for all queue
\* capacities and delays.
THEOREM ImuRunCoversScanHolds == IntakeSpec => []ImuRunCoversScan
<1>1. IntakeInv => ImuRunCoversScan
  BY GroupedCovers DEF IntakeInv
<1> QED BY <1>1, IntakeInvHolds, PTL

\* No point of the auxiliary LiDAR enters two groups, and each one lies in
\* its scan's window, whatever backlog drops a packet in use and wherever the
\* cursor stands (getMeasureMents, CropAuxPoints).
THEOREM AuxPointsOnceHolds == IntakeSpec => []AuxPointsOnce
<1>1. IntakeInv => AuxPointsOnce
  BY DEF IntakeInv, AuxInv
<1> QED BY <1>1, IntakeInvHolds, PTL

\* No queued point of the window is overlooked: the packets follow each other,
\* so the first one the loop stops at has all later points behind it.
THEOREM AuxNoneOverlookedHolds == IntakeSpec => AuxNoneOverlooked
<1> DEFINE due == {a \in UNION {Unread(k) : k \in DOMAIN auxBuf} : InWindow(a, group')}
           taken == group'.aux = due \/ (group'.aux = {} /\ Cardinality(due) < MinAuxPoints)
<1>1. IntakeInv /\ [IntakeNext]_allVars => [group' # group => taken]_bufVars
  <2> SUFFICES ASSUME IntakeInv, [IntakeNext]_allVars, group' # group PROVE taken
    OBVIOUS
  <2>1. [LioStep]_lioVars
    BY IntakeIsLioStep
  <2>2. ~UNCHANGED <<auxVars, lidarBuf>>
    BY DEF auxVars
  <2>3. TakeGroup
    <3>1. ASSUME NEW s, LioScan(s) PROVE FALSE
      BY <3>1 DEF LioScan, PushScan
    <3>2. ASSUME NEW p, PushAux(p) PROVE FALSE
      BY <3>2 DEF PushAux
    <3> QED BY <2>1, <2>2, <3>1, <3>2, QueuesLeft DEF LioStep
  <2>4. GetMeasurements /\ lidarBuf # <<>> /\ lidarBuf \in Seq(ScanSegment) /\ AuxQueued
    BY <2>3 DEF TakeGroup, GetMeasurements, ScanReady, IntakeInv, Clouds, AuxInv
  <2>5. lidarBuf[1] \in ScanSegment
    <3> HIDE DEF ScanSegment
    <3> QED BY <2>4
  <2>6. lidarBuf[1].begin \in Int /\ lidarBuf[1].end \in Int
    BY <2>5 DEF ScanSegment
  <2> QED BY <2>4, <2>6, NoneOverlooked
<1> QED BY <1>1, IntakeInvHolds, PTL DEF IntakeSpec, AuxNoneOverlooked

\* The trajectory of a frame reaches every point of it, of either LiDAR, that
\* is not older than the filter: no kind of sensor times a point behind the
\* segment it is put into (the handlers' cuts), and the prediction goes up to
\* the segment's end (Predict, Undistort).
THEOREM DeskewCoversPointsHolds == IntakeSpec => []DeskewCoversPoints
<1>1. IntakeInv => DeskewCoversPoints
  <2> SUFFICES ASSUME IntakeInv, lpc = "send",
                      NEW t \in {p.stamp : p \in cloud} \union {a.stamp : a \in group.aux},
                      t >= startTime
               PROVE  \E i \in DOMAIN legs : legs[i].from <= t /\ t <= legs[i].to
    BY DEF DeskewCoversPoints
  <2>1. /\ legs \in Seq(Legs) /\ startTime \in Int /\ startTime < group.end
        /\ Path(legs, startTime, group.end) /\ group.end \in Int
    BY DEF IntakeInv, LioInv, LioTypes, Trajectory, PredictionIsExact
  <2>2. \A p \in cloud : p.stamp \in Int /\ p.stamp <= group.end
    BY DEF IntakeInv, Clouds
  <2>3. \A a \in group.aux : a.stamp \in Int /\ a.stamp < group.end
    BY DEF IntakeInv, AuxInv, AuxRead, AuxPointsOnce, InWindow
  <2>4. t \in Int /\ t <= group.end
    BY <2>1, <2>2, <2>3
  <2> QED BY <2>1, <2>4, PathCovers
<1> QED BY <1>1, IntakeInvHolds, PTL

\* Each frame is predicted over every interval of the stream between the
\* previous estimate and the scan's end, once (Predict and last_imu_).
THEOREM PredictionIsExactHolds == IntakeSpec => []PredictionIsExact
<1>1. IntakeInv => PredictionIsExact
  BY DEF IntakeInv, LioInv
<1> QED BY <1>1, IntakeInvHolds, PTL

\* Only frames that matched or seeded the map enter it, each under a number
\* of its own (ProcessMeasurements, poseEstimation).
THEOREM MapOnlyFromAcceptedHolds == IntakeSpec => []MapOnlyFromAccepted
<1>1. IntakeInv => MapOnlyFromAccepted
  BY DEF IntakeInv, LioInv
<1> QED BY <1>1, IntakeInvHolds, PTL

\* A scan that ends no later than the filter stands is the only one whose
\* prediction fails (Predict): no arrival order of samples and scans, no
\* rejected frame and no queue bound makes it fail otherwise.
THEOREM FaultsOnlyOnLateScanHolds == IntakeSpec => FaultsOnlyOnLateScan
<1>1. IntakeInv /\ [IntakeNext]_allVars
        => [predictionFault' /\ ~predictionFault => group.end <= eskfTime]_lioVars
  <2> SUFFICES ASSUME IntakeInv, [IntakeNext]_allVars, predictionFault', ~predictionFault
               PROVE  group.end <= eskfTime
    OBVIOUS
  <2> QED BY IntakeIsLioStep, FailsOnlyLate DEF IntakeInv
<1> QED BY <1>1, IntakeInvHolds, PTL DEF IntakeSpec, FaultsOnlyOnLateScan
=============================================================================
