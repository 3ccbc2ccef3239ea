--------------------------- MODULE SampleRuns_proofs ---------------------------
(***************************************************************************)
(* Runs of samples and the legs integrated over them: what the proofs      *)
(* about the queues, histories and filters of both chains share.           *)
(***************************************************************************)
EXTENDS Propagation, SequencesExt, SequenceTheorems, WellFoundedInduction, TLAPS

\* What a queue or a history holds is a run of the sample stream: s is the
\* run of t that ends at position n.
EndsAt(s, t, n) ==
  /\ Len(s) <= n /\ n <= Len(t)
  /\ \A i \in 1..Len(s) : s[i] = t[n - Len(s) + i]

\* What the quality gate guarantees of a stream.
Rising(s) == \A i, j \in 1..Len(s) : i < j => s[i] < s[j]

Spaced(s) ==
  /\ \A i \in 2..Len(s) : s[i] - s[i-1] \in 1..Gap
  /\ Rising(s)

Legs == [left : Int, right : Int, from : Int, to : Int]

\* Every inhabited set of naturals has a least element: the induction used
\* below for what is computed sample by sample.
LEMMA LeastNatural ==
  ASSUME NEW T \in SUBSET Nat, T # {}
  PROVE  \E m \in T : \A k \in T : m <= k
<1>1. IsWellFoundedOn(OpToRel(<, Nat), Nat)
  BY NatLessThanWellFounded
<1>2. PICK m \in T : \A k \in T : <<k, m>> \notin OpToRel(<, Nat)
  BY <1>1, WFMin
<1>3. \A k \in T : ~(k < m)
  BY <1>2 DEF OpToRel
<1> QED BY <1>3

\* The longest prefix of positions that are all in T.
LEMMA LongestPrefix ==
  ASSUME NEW N \in Nat, NEW T
  PROVE  \E n \in 0..N : (\A i \in 1..n : i \in T) /\ (n < N => n + 1 \notin T)
<1> DEFINE Out == {n \in 0..N : n < N /\ n + 1 \notin T}
<1>1. CASE Out = {}
  <2>1. \A i \in 1..N : i \in T
    <3> SUFFICES ASSUME NEW i \in 1..N PROVE i \in T
      OBVIOUS
    <3>1. i - 1 \in 0..N /\ i - 1 < N /\ (i - 1) + 1 = i
      OBVIOUS
    <3> QED BY <1>1, <3>1
  <2> QED BY <2>1
<1>2. CASE Out # {}
  <2>1. PICK n \in Out : \A k \in Out : n <= k
    <3>1. Out \in SUBSET Nat
      OBVIOUS
    <3> HIDE DEF Out
    <3> QED BY <1>2, <3>1, LeastNatural
  <2>2. \A i \in 1..n : i \in T
    <3> SUFFICES ASSUME NEW i \in 1..n PROVE i \in T
      OBVIOUS
    <3>1. i - 1 \in 0..N /\ i - 1 < N /\ (i - 1) + 1 = i /\ ~(n <= i - 1)
      BY <2>1
    <3> QED BY <2>1, <3>1
  <2> QED BY <2>1, <2>2
<1> QED BY <1>1, <1>2

LEMMA WholeRun ==
  ASSUME NEW t \in Seq(Int)
  PROVE  EndsAt(t, t, Len(t))
<1>1. Len(t) \in Nat
  OBVIOUS
<1>2. \A i \in 1..Len(t) : Len(t) - Len(t) + i = i
  BY <1>1
<1> QED BY <1>1, <1>2 DEF EndsAt

LEMMA SuffixEndsAt ==
  ASSUME NEW s \in Seq(Int), NEW d \in 0..Len(s), d < Len(s),
         NEW t \in Seq(Int), NEW n \in Nat, EndsAt(s, t, n)
  PROVE  /\ SubSeq(s, d + 1, Len(s)) \in Seq(Int)
         /\ SubSeq(s, d + 1, Len(s)) # <<>>
         /\ EndsAt(SubSeq(s, d + 1, Len(s)), t, n)
<1> DEFINE r == SubSeq(s, d + 1, Len(s))
<1>1. Len(s) \in Nat /\ d \in Nat /\ d < Len(s) /\ Len(t) \in Nat
  OBVIOUS
<1>2. /\ r \in Seq(Int)
      /\ Len(r) = Len(s) - d
      /\ \A i \in 1..(Len(s) - d) : r[i] = s[d + i]
  BY <1>1, SMTT(30)
<1> HIDE DEF r
<1>3. r # <<>>
  BY <1>1, <1>2
<1>4. \A i \in 1..Len(r) : r[i] = t[n - Len(r) + i]
  <2> SUFFICES ASSUME NEW i \in 1..Len(r) PROVE r[i] = t[n - Len(r) + i]
    OBVIOUS
  <2>1. r[i] = s[d + i] /\ d + i \in 1..Len(s)
    BY <1>1, <1>2
  <2>2. s[d + i] = t[n - Len(s) + (d + i)]
    BY <2>1 DEF EndsAt
  <2>3. n - Len(s) + (d + i) = n - Len(r) + i
    BY <1>1, <1>2
  <2> QED BY <2>1, <2>2, <2>3
<1>5. EndsAt(r, t, n)
  BY <1>1, <1>2, <1>4 DEF EndsAt
<1> QED BY <1>2, <1>3, <1>5 DEF r

\* A path continued.
LEMMA PathsJoin ==
  ASSUME NEW p \in Seq(Legs), NEW q \in Seq(Legs), NEW a, NEW c, NEW d,
         Path(p, a, c), Path(q, c, d)
  PROVE  p \o q \in Seq(Legs) /\ Path(p \o q, a, d)
<1>0. Len(p) \in Nat /\ Len(q) \in Nat
  OBVIOUS
<1>1. /\ p \o q \in Seq(Legs) /\ Len(p \o q) = Len(p) + Len(q)
      /\ \A i \in 1..Len(p) : (p \o q)[i] = p[i]
      /\ \A i \in 1..Len(q) : (p \o q)[Len(p) + i] = q[i]
  OBVIOUS
<1>2. CASE p = <<>>
  BY <1>2 DEF Path
<1>3. CASE q = <<>>
  BY <1>3 DEF Path
<1>4. CASE p # <<>> /\ q # <<>>
  <2> DEFINE r == p \o q
  <2>0. Len(p) \in 1..Len(p) /\ 1 \in 1..Len(p) /\ Len(q) \in 1..Len(q) /\ 1 \in 1..Len(q)
    BY <1>0, <1>4
  <2>1. r[1].from = a /\ r # <<>>
    BY <1>0, <1>1, <1>4, <2>0 DEF Path
  <2>2. r[Len(r)].to = d
    BY <1>0, <1>1, <1>4, <2>0 DEF Path
  <2>3. ASSUME NEW i \in 2..Len(r) PROVE r[i].from = r[i-1].to
    <3> HIDE DEF r
    <3>0. i \in 2..(Len(p) + Len(q))
      BY <1>1 DEF r
    <3>1. CASE i <= Len(p)
      <4>1. i \in 2..Len(p) /\ i \in 1..Len(p) /\ i - 1 \in 1..Len(p)
        BY <1>0, <3>0, <3>1
      <4>2. r[i] = p[i] /\ r[i - 1] = p[i - 1]
        BY <1>1, <4>1 DEF r
      <4> QED BY <1>4, <4>1, <4>2 DEF Path
    <3>2. CASE i = Len(p) + 1
      <4>1. i - 1 = Len(p)
        BY <1>0, <3>2
      <4>2. r[i] = q[1] /\ r[i - 1] = p[Len(p)]
        BY <1>1, <2>0, <3>2, <4>1 DEF r
      <4> QED BY <1>4, <4>2 DEF Path
    <3>3. CASE i > Len(p) + 1
      <4> DEFINE j == i - Len(p)
      <4>1. /\ j \in 2..Len(q) /\ j \in 1..Len(q) /\ j - 1 \in 1..Len(q)
            /\ i = Len(p) + j /\ i - 1 = Len(p) + (j - 1)
        BY <1>0, <3>0, <3>3
      <4> HIDE DEF j
      <4>2. r[i] = q[j] /\ r[i - 1] = q[j - 1]
        BY <1>1, <4>1 DEF r
      <4> QED BY <1>4, <4>1, <4>2 DEF Path
    <3> QED BY <1>0, <3>0, <3>1, <3>2, <3>3
  <2> QED BY <1>1, <2>1, <2>2, <2>3 DEF Path
<1> QED BY <1>2, <1>3, <1>4

\* Neighbours in a run of the stream are neighbours in the stream, and stay so.
LEMMA AdjacentInStream ==
  ASSUME NEW t \in Seq(Int), NEW n \in Nat, NEW h \in Seq(Int), EndsAt(h, t, n),
         NEW l, Adjacent(h, l)
  PROVE  Adjacent(t, l)
<1>1. PICK i \in 2..Len(h) : h[i-1] = l.left /\ h[i] = l.right
  BY DEF Adjacent
<1>0. Len(h) \in Nat /\ Len(t) \in Nat /\ Len(h) <= n /\ n <= Len(t)
  BY DEF EndsAt
<1>2. /\ i \in 1..Len(h) /\ i - 1 \in 1..Len(h)
      /\ Len(h) \in Nat /\ Len(t) \in Nat /\ Len(h) <= n /\ n <= Len(t)
  BY <1>0
<1>3. h[i] = t[n - Len(h) + i] /\ h[i-1] = t[n - Len(h) + (i - 1)]
  BY <1>2 DEF EndsAt
<1>4. n - Len(h) + i \in 2..Len(t) /\ n - Len(h) + (i - 1) = (n - Len(h) + i) - 1
  BY <1>2
<1> QED BY <1>1, <1>3, <1>4 DEF Adjacent

LEMMA AdjacentStays ==
  ASSUME NEW t \in Seq(Int), NEW x \in Int, NEW l, Adjacent(t, l)
  PROVE  Adjacent(Append(t, x), l)
<1>1. PICK i \in 2..Len(t) : t[i-1] = l.left /\ t[i] = l.right
  BY DEF Adjacent
<1>2. /\ i \in 1..Len(t) /\ i - 1 \in 1..Len(t) /\ Len(t) \in Nat
      /\ Len(Append(t, x)) = Len(t) + 1
  BY <1>1
<1>3. i \in 2..Len(Append(t, x))
  BY <1>2
<1>4. Append(t, x)[i] = t[i] /\ Append(t, x)[i - 1] = t[i - 1]
  BY <1>2
<1> QED BY <1>1, <1>3, <1>4 DEF Adjacent

\* A run of a spaced stream is spaced.
LEMMA RunIsSpaced ==
  ASSUME NEW t \in Seq(Int), Spaced(t), NEW n \in Nat,
         NEW h \in Seq(Int), EndsAt(h, t, n)
  PROVE  Spaced(h)
<1>0. Len(h) \in Nat /\ Len(t) \in Nat /\ Len(h) <= n /\ n <= Len(t)
  BY DEF EndsAt
<1>1. ASSUME NEW i \in 2..Len(h) PROVE h[i] - h[i-1] \in 1..Gap
  <2>1. i \in 1..Len(h) /\ i - 1 \in 1..Len(h)
    BY <1>0
  <2>2. h[i] = t[n - Len(h) + i] /\ h[i-1] = t[n - Len(h) + (i - 1)]
    BY <2>1 DEF EndsAt
  <2>3. n - Len(h) + i \in 2..Len(t) /\ n - Len(h) + (i - 1) = (n - Len(h) + i) - 1
    BY <1>0
  <2> QED BY <2>2, <2>3 DEF Spaced
<1>2. ASSUME NEW i \in 1..Len(h), NEW j \in 1..Len(h), i < j PROVE h[i] < h[j]
  <2>1. h[i] = t[n - Len(h) + i] /\ h[j] = t[n - Len(h) + j]
    BY DEF EndsAt
  <2>2. /\ n - Len(h) + i \in 1..Len(t) /\ n - Len(h) + j \in 1..Len(t)
        /\ n - Len(h) + i < n - Len(h) + j
    BY <1>0, <1>2, SMTT(30)
  <2> QED BY <2>1, <2>2 DEF Spaced, Rising
<1> QED BY <1>1, <1>2 DEF Spaced, Rising

LEMMA RunStays ==
  ASSUME NEW t \in Seq(Int), NEW x \in Int, NEW s \in Seq(Int), NEW n \in Nat,
         EndsAt(s, t, n)
  PROVE  EndsAt(s, Append(t, x), n)
<1> DEFINE u == Append(t, x)
<1>1. /\ Len(s) \in Nat /\ Len(t) \in Nat /\ Len(s) <= n /\ n <= Len(t)
      /\ Len(u) = Len(t) + 1 /\ \A i \in 1..Len(t) : u[i] = t[i]
  BY DEF EndsAt
<1> HIDE DEF u
<1>2. ASSUME NEW i \in 1..Len(s) PROVE s[i] = u[n - Len(s) + i]
  <2>1. n - Len(s) + i \in 1..Len(t)
    BY <1>1
  <2>2. u[n - Len(s) + i] = t[n - Len(s) + i]
    BY <1>1, <2>1
  <2> QED BY <2>2 DEF EndsAt
<1>3. Len(s) <= n /\ n <= Len(u)
  BY <1>1
<1>4. EndsAt(s, u, n)
  BY <1>2, <1>3 DEF EndsAt
<1> QED BY <1>4 DEF u

LEMMA RunGrows ==
  ASSUME NEW t \in Seq(Int), NEW x \in Int, NEW s \in Seq(Int),
         EndsAt(s, t, Len(t))
  PROVE  EndsAt(Append(s, x), Append(t, x), Len(t) + 1)
<1> DEFINE r == Append(s, x)
           u == Append(t, x)
<1>1. /\ Len(s) \in Nat /\ Len(t) \in Nat /\ Len(s) <= Len(t)
      /\ Len(u) = Len(t) + 1 /\ Len(r) = Len(s) + 1
      /\ u[Len(t) + 1] = x /\ r[Len(s) + 1] = x
      /\ \A i \in 1..Len(s) : r[i] = s[i]
      /\ \A i \in 1..Len(t) : u[i] = t[i]
  BY DEF EndsAt
<1> HIDE DEF r, u
<1>2. ASSUME NEW i \in 1..Len(r)
      PROVE  r[i] = u[Len(t) + 1 - Len(r) + i]
  <2>1. CASE i = Len(s) + 1
    <3>1. Len(t) + 1 - Len(r) + i = Len(t) + 1
      BY <1>1, <2>1
    <3> QED BY <1>1, <2>1, <3>1
  <2>2. CASE i \in 1..Len(s)
    <3>1. Len(t) + 1 - Len(r) + i = Len(t) - Len(s) + i /\ Len(t) - Len(s) + i \in 1..Len(t)
      BY <1>1, <2>2
    <3>2. s[i] = t[Len(t) - Len(s) + i]
      BY <2>2 DEF EndsAt
    <3> QED BY <1>1, <2>2, <3>1, <3>2
  <2> QED BY <1>1, <2>1, <2>2
<1>3. Len(r) <= Len(t) + 1 /\ Len(t) + 1 <= Len(u)
  BY <1>1
<1>4. EndsAt(r, u, Len(t) + 1)
  BY <1>2, <1>3 DEF EndsAt
<1> QED BY <1>4 DEF r, u

LEMMA SpacedGrows ==
  ASSUME NEW t \in Seq(Int), NEW x \in Int, Spaced(t),
         t # <<>> => x - Last(t) \in 1..Gap
  PROVE  Spaced(Append(t, x))
<1> DEFINE u == Append(t, x)
<1>1. /\ Len(t) \in Nat /\ Len(u) = Len(t) + 1 /\ u[Len(t) + 1] = x
      /\ \A i \in 1..Len(t) : u[i] = t[i] /\ t[i] \in Int
  OBVIOUS
<1> HIDE DEF u
<1>2. ASSUME NEW i \in 2..Len(u) PROVE u[i] - u[i-1] \in 1..Gap
  <2>1. CASE i = Len(u)
    <3>1. Len(t) \in 1..Len(t) /\ t # <<>> /\ i - 1 = Len(t)
      BY <1>1, <2>1
    <3> QED BY <1>1, <2>1, <3>1 DEF Last
  <2>2. CASE i # Len(u)
    <3>1. i \in 2..Len(t) /\ i \in 1..Len(t) /\ i - 1 \in 1..Len(t)
      BY <1>1, <2>2
    <3> QED BY <1>1, <3>1 DEF Spaced
  <2> QED BY <2>1, <2>2
<1>3. ASSUME NEW i \in 1..Len(t) PROVE t[i] < x
  <2>1. t # <<>> /\ Len(t) \in 1..Len(t)
    BY <1>1
  <2>2. t[Len(t)] < x /\ t[Len(t)] \in Int
    BY <1>1, <2>1, PropagationAssumption DEF Last
  <2>3. t[i] <= t[Len(t)]
    <3>1. i < Len(t) => t[i] < t[Len(t)]
      BY <2>1 DEF Spaced, Rising
    <3> QED BY <1>1, <2>2, <3>1
  <2> QED BY <1>1, <2>2, <2>3
<1>4. ASSUME NEW i \in 1..Len(u), NEW j \in 1..Len(u), i < j PROVE u[i] < u[j]
  <2>1. i \in 1..Len(t)
    BY <1>1, <1>4
  <2>2. CASE j = Len(u)
    BY <1>1, <1>3, <2>1, <2>2
  <2>3. CASE j # Len(u)
    <3>1. j \in 1..Len(t)
      BY <1>1, <2>3
    <3> QED BY <1>1, <1>4, <2>1, <3>1 DEF Spaced, Rising
  <2> QED BY <2>2, <2>3
<1> QED BY <1>2, <1>4 DEF Spaced, Rising, u

\* Legs over a run of spaced samples, from a time behind the sample before the
\* run, cut at a time in the run's last interval: an unbroken path of legs that
\* the integration accepts, each between neighbouring samples.
LEMMA LegsAlongPath ==
  ASSUME NEW h \in Seq(Int), Spaced(h), NEW n \in Nat,
         NEW run \in Seq(Int), run # <<>>, EndsAt(run, h, n), Len(run) < n,
         NEW left, left = h[n - Len(run)],
         NEW t \in Int, left <= t, t < run[1],
         NEW end \in Int, t < end, end <= Last(run),
         Len(run) > 1 => run[Len(run) - 1] < end
  PROVE  /\ LegsAlong(run, left, t, end) \in Seq(Legs)
         /\ LegsAlong(run, left, t, end) # <<>>
         /\ Len(LegsAlong(run, left, t, end)) = Len(run)
         /\ AllLegsOk(LegsAlong(run, left, t, end))
         /\ Path(LegsAlong(run, left, t, end), t, end)
         /\ \A i \in DOMAIN LegsAlong(run, left, t, end) :
              Adjacent(h, LegsAlong(run, left, t, end)[i])
<1> DEFINE L == LegsAlong(run, left, t, end)
           k == n - Len(run)
           m == Len(run)
<1>0. /\ m \in Nat \ {0} /\ Len(h) \in Nat /\ k \in Nat \ {0} /\ k + m = n /\ n <= Len(h)
      /\ Gap \in Nat /\ 1 \in 1..m /\ m \in 1..m
  BY PropagationAssumption DEF EndsAt
<1>1. \A i \in 1..m : run[i] = h[k + i] /\ run[i] \in Int /\ k + i \in 2..Len(h)
  BY <1>0, SMTT(30) DEF EndsAt
<1>2. L = [i \in 1..m |-> Leg(IF i = 1 THEN left ELSE run[i-1], run[i],
                             IF i = 1 THEN t ELSE run[i-1], Earlier(run[i], end))]
  BY DEF LegsAlong
<1> HIDE DEF L, k, m
<1>3. left = h[k] /\ left \in Int /\ end <= run[m]
  BY <1>0 DEF k, m, Last
<1>14. \A j \in 2..Len(h) : h[j-1] \in Int /\ h[j] - h[j-1] \in 1..Gap
  BY DEF Spaced
<1>4. ASSUME NEW i \in 1..m
      PROVE  /\ h[k+i-1] \in Int /\ h[k+i] - h[k+i-1] \in 1..Gap
             /\ (IF i = 1 THEN left ELSE run[i-1]) = h[k+i-1]
  <2>1. k + i \in 2..Len(h) /\ k + i - 1 \in 1..Len(h)
    BY <1>0, <1>1
  <2>2. h[k+i-1] \in Int /\ h[k+i] - h[k+i-1] \in 1..Gap
    BY <1>0, <2>1, <1>14
  <2>3. i = 1 => k + i - 1 = k
    BY <1>0
  <2>4. i # 1 => i - 1 \in 1..m /\ k + (i - 1) = k + i - 1
    BY <1>0
  <2> QED BY <1>1, <1>3, <2>2, <2>3, <2>4
<1>5. \A i \in 1..m : i # m => run[i] < end
  <2> SUFFICES ASSUME NEW i \in 1..m, i # m PROVE run[i] < end
    OBVIOUS
  <2>1. m > 1 /\ m - 1 \in 1..m
    BY <1>0
  <2>2. run[m - 1] < end
    BY <2>1 DEF m
  <2>3. i # m - 1 => run[i] < run[m - 1]
    <3>1. i # m - 1 => k + i < k + (m - 1) /\ k + i \in 1..Len(h) /\ k + (m - 1) \in 1..Len(h)
      BY <1>0, <1>1, <2>1
    <3> QED BY <1>1, <2>1, <3>1 DEF Spaced, Rising
  <2> QED
    <3>1. run[i] \in Int /\ run[m - 1] \in Int
      BY <1>1, <2>1
    <3> QED BY <2>2, <2>3, <3>1
<1>6. \A i \in 1..m : Earlier(run[i], end) = IF i = m THEN end ELSE run[i]
  <2> SUFFICES ASSUME NEW i \in 1..m
               PROVE  Earlier(run[i], end) = IF i = m THEN end ELSE run[i]
    OBVIOUS
  <2>1. CASE i = m
    BY <1>1, <1>3, <2>1, SMTT(30) DEF Earlier
  <2>2. CASE i # m
    BY <1>1, <1>5, <2>2, SMTT(30) DEF Earlier
  <2> QED BY <2>1, <2>2
<1>7. \A i \in 1..m : L[i] = Leg(h[k+i-1], h[k+i], IF i = 1 THEN t ELSE h[k+i-1],
                               IF i = m THEN end ELSE h[k+i])
  <2> SUFFICES ASSUME NEW i \in 1..m
               PROVE  L[i] = Leg(h[k+i-1], h[k+i], IF i = 1 THEN t ELSE h[k+i-1],
                                 IF i = m THEN end ELSE h[k+i])
    OBVIOUS
  <2>1. L[i] = Leg(IF i = 1 THEN left ELSE run[i-1], run[i],
                   IF i = 1 THEN t ELSE run[i-1], Earlier(run[i], end))
    BY <1>2
  <2>2. (IF i = 1 THEN t ELSE run[i-1]) = IF i = 1 THEN t ELSE h[k+i-1]
    BY <1>4
  <2>3. Earlier(run[i], end) = IF i = m THEN end ELSE h[k+i]
    BY <1>1, <1>6
  <2> QED BY <1>1, <1>4, <2>1, <2>2, <2>3
<1>8. \A i \in 1..m : /\ L[i].left = h[k+i-1] /\ L[i].right = h[k+i]
                      /\ L[i].from = (IF i = 1 THEN t ELSE h[k+i-1])
                      /\ L[i].to = (IF i = m THEN end ELSE h[k+i])
  <2> SUFFICES ASSUME NEW i \in 1..m
               PROVE  /\ L[i].left = h[k+i-1] /\ L[i].right = h[k+i]
                      /\ L[i].from = (IF i = 1 THEN t ELSE h[k+i-1])
                      /\ L[i].to = (IF i = m THEN end ELSE h[k+i])
    OBVIOUS
  <2>1. L[i] = Leg(h[k+i-1], h[k+i], IF i = 1 THEN t ELSE h[k+i-1],
                   IF i = m THEN end ELSE h[k+i])
    BY <1>7
  <2> QED BY <2>1 DEF Leg
<1>9. L \in Seq(Legs) /\ Len(L) = m /\ DOMAIN L = 1..m
  <2>1. \A i \in 1..m : L[i] \in Legs
    <3> SUFFICES ASSUME NEW i \in 1..m PROVE L[i] \in Legs
      OBVIOUS
    <3>1. /\ h[k+i-1] \in Int /\ h[k+i] \in Int
          /\ (IF i = 1 THEN t ELSE h[k+i-1]) \in Int /\ (IF i = m THEN end ELSE h[k+i]) \in Int
      <4>1. h[k+i-1] \in Int /\ h[k+i] \in Int
        BY <1>1, <1>4
      <4> QED BY <4>1
    <3>2. \A a, b, c, d \in Int : Leg(a, b, c, d) \in Legs
      BY DEF Leg, Legs
    <3>3. L[i] = Leg(h[k+i-1], h[k+i], IF i = 1 THEN t ELSE h[k+i-1],
                     IF i = m THEN end ELSE h[k+i])
      BY <1>7
    <3> QED BY ONLY <3>1, <3>2, <3>3
  <2>2. DOMAIN L = 1..m /\ L = [i \in 1..m |-> L[i]]
    BY <1>2
  <2>3. L \in [1..m -> Legs]
    BY <2>1, <2>2
  <2>4. L \in Seq(Legs)
    BY <1>0, <2>3
  <2>5. Len(L) \in Nat /\ DOMAIN L = 1..Len(L)
    BY <2>4
  <2> QED BY <1>0, <2>2, <2>4, <2>5
<1>10. ASSUME NEW i \in 1..m PROVE LegOk(L[i]) /\ Adjacent(h, L[i])
  <2>1. /\ L[i].left = h[k+i-1] /\ L[i].right = h[k+i]
        /\ L[i].from = (IF i = 1 THEN t ELSE h[k+i-1])
        /\ L[i].to = (IF i = m THEN end ELSE h[k+i])
    BY <1>8
  <2>2. /\ h[k+i-1] \in Int /\ h[k+i] \in Int /\ h[k+i-1] < h[k+i]
        /\ h[k+i] - h[k+i-1] <= Gap /\ k + i \in 2..Len(h)
    <3>1. h[k+i] \in Int /\ k + i \in 2..Len(h)
      BY <1>1
    <3>2. h[k+i-1] \in Int /\ h[k+i] - h[k+i-1] \in 1..Gap
      BY <1>4
    <3> QED BY <1>0, <3>1, <3>2, SMTT(30)
  <2>3. Adjacent(h, L[i])
    <3>1. PICK j \in 2..Len(h) : h[j-1] = h[k+i-1] /\ h[j] = h[k+i]
      BY <1>0, <2>2
    <3>2. h[j-1] = L[i].left /\ h[j] = L[i].right
      BY <2>1, <3>1
    <3> QED BY <3>2 DEF Adjacent
  <2>4. i = 1 => h[k+i-1] <= t /\ t < h[k+i]
    <3>1. i = 1 => k + i - 1 = k
      BY <1>0
    <3> QED BY <1>1, <1>3, <3>1
  <2>5. i # 1 => h[k+i-1] < end
    <3>1. i # 1 => i - 1 \in 1..m /\ i - 1 # m /\ k + (i - 1) = k + i - 1
      BY <1>0
    <3> QED BY <1>1, <1>5, <3>1
  <2>6. i = m => end <= h[k+i]
    BY <1>1, <1>3
  <2>7. L[i].from < L[i].to /\ L[i].left <= L[i].from /\ L[i].to <= L[i].right
    <3>1. L[i].from < L[i].to
      <4>1. CASE i = 1
        BY <2>1, <2>4, <4>1
      <4>2. CASE i # 1
        BY <2>1, <2>2, <2>5, <4>2
      <4> QED BY <4>1, <4>2
    <3>2. L[i].left <= L[i].from
      BY <2>1, <2>2, <2>4, SMTT(30)
    <3>3. L[i].to <= L[i].right
      BY <2>1, <2>2, <2>6
    <3> QED BY <3>1, <3>2, <3>3
  <2>8. LegOk(L[i])
    BY <2>1, <2>2, <2>7 DEF LegOk
  <2> QED BY <2>3, <2>8
<1>11. AllLegsOk(L) /\ \A i \in DOMAIN L : Adjacent(h, L[i])
  BY <1>9, <1>10 DEF AllLegsOk
<1>12. L # <<>>
  BY <1>0, <1>9
<1>13. Path(L, t, end)
  <2>1. L[1].from = t /\ L[Len(L)].to = end
    BY <1>0, <1>8, <1>9
  <2>2. ASSUME NEW i \in 2..Len(L) PROVE L[i].from = L[i-1].to
    <3>1. /\ i \in 1..m /\ i - 1 \in 1..m /\ i # 1 /\ i - 1 # m
          /\ k + (i - 1) = k + i - 1
      BY <1>0, <1>9
    <3> QED BY <1>8, <3>1
  <2> QED BY <1>12, <2>1, <2>2 DEF Path
<1> QED BY <1>9, <1>11, <1>12, <1>13 DEF L, m

\* Whenever the integration accepts the legs and they reach the time they were
\* cut at, that time lies ahead of the start and is covered by the samples.
LEMMA LegsAdvance ==
  ASSUME NEW run \in Seq(Int), run # <<>>, NEW left, NEW t \in Int, NEW end \in Int,
         AllLegsOk(LegsAlong(run, left, t, end)),
         Last(LegsAlong(run, left, t, end)).to = end
  PROVE  t < end /\ end <= Last(run)
<1> DEFINE L == LegsAlong(run, left, t, end)
           m == Len(run)
<1>1. m \in Nat \ {0} /\ 1 \in 1..m /\ m \in 1..m /\ \A i \in 1..m : run[i] \in Int
  OBVIOUS
<1>2. L = [i \in 1..m |-> Leg(IF i = 1 THEN left ELSE run[i-1], run[i],
                             IF i = 1 THEN t ELSE run[i-1], Earlier(run[i], end))]
  BY DEF LegsAlong
<1> HIDE DEF L, m
<1>3. DOMAIN L = 1..m /\ Len(L) = m
  BY <1>1, <1>2
<1>4. LegOk(L[1]) /\ LegOk(L[m])
  BY <1>1, <1>3 DEF AllLegsOk, L
<1>5. L[1].from = t /\ L[1].to = Earlier(run[1], end)
  <2>1. L[1] = Leg(left, run[1], t, Earlier(run[1], end))
    BY <1>1, <1>2
  <2> QED BY <2>1 DEF Leg
<1>6. t < Earlier(run[1], end)
  BY <1>4, <1>5 DEF LegOk
<1>7. t < end
  BY <1>1, <1>6 DEF Earlier
<1>8. L[m].right = run[m]
  <2> DEFINE a == IF m = 1 THEN left ELSE run[m-1]
             b == IF m = 1 THEN t ELSE run[m-1]
  <2>1. L[m] = Leg(a, run[m], b, Earlier(run[m], end))
    BY <1>1, <1>2
  <2> HIDE DEF a, b
  <2> QED BY <2>1 DEF Leg
<1>9. L[m].to = end
  BY <1>3 DEF L, Last
<1>10. end <= run[m]
  BY <1>4, <1>8, <1>9 DEF LegOk
<1> QED BY <1>7, <1>10 DEF m, Last
=============================================================================
