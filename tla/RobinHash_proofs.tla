--------------------------- MODULE RobinHash_proofs ---------------------------
(***************************************************************************)
(* Proofs about the hash table, for every set of keys, every hash of them, *)
(* every limit on displacement and every set of values.                    *)
(*                                                                         *)
(* A table is sound when its entries are as far from home as they say, no  *)
(* key is in it twice, from one bucket to the next entries are at most one *)
(* farther from home, and it is no more than half full.  In a sound table  *)
(* a search finds what is there and ends at a bucket for what is not; an   *)
(* insertion, a rehash and an erasure leave it sound and change the        *)
(* dictionary it stands for as they should.                                *)
(***************************************************************************)
EXTENDS RobinHash, Functions, FiniteSetTheorems, WellFoundedInduction, TLAPS

\* Every inhabited set of naturals has a least element.
LEMMA LeastNatural ==
  ASSUME NEW T \in SUBSET Nat, T # {}
  PROVE  \E m \in T : \A k \in T : m <= k
<1>1. IsWellFoundedOn(OpToRel(<, Nat), Nat)
  BY NatLessThanWellFounded
<1>2. PICK m \in T : \A k \in T : <<k, m>> \notin OpToRel(<, Nat)
  BY <1>1, WFMin
<1>3. \A k \in T : ~(k < m)
  BY <1>2 DEF OpToRel
<1> QED BY <1>3

\* Induction over the positions of a sequence, with a set in place of a property.
LEMMA UpTo ==
  ASSUME NEW N \in Nat, NEW T,
         0 \in T, \A n \in 1..N : n - 1 \in T => n \in T
  PROVE  \A n \in 0..N : n \in T
<1> DEFINE Bad == {n \in 0..N : n \notin T}
<1> SUFFICES ASSUME Bad # {} PROVE FALSE
  OBVIOUS
<1>1. PICK m \in Bad : \A k \in Bad : m <= k
  <2>1. Bad \in SUBSET Nat
    OBVIOUS
  <2> HIDE DEF Bad
  <2> QED BY <2>1, LeastNatural
<1>2. m \in 0..N /\ m \notin T
  BY <1>1
<1>3. m # 0
  BY <1>2, Zenon
<1>4. m \in 1..N /\ m - 1 \in 0..N /\ ~(m <= m - 1)
  BY <1>2, <1>3
<1>5. m - 1 \in Bad
  BY <1>2, <1>4
<1> QED BY <1>1, <1>4, <1>5

-----------------------------------------------------------------------------
(***************************************************************************)
(* The hash table.                                                         *)
(***************************************************************************)
Buckets(t) == 0..(Width(t) - 1)
EntriesOf(V) == [dist : Nat, key : Keys, value : V]

Shape(t, V) ==
  /\ t = [count |-> t.count, size |-> t.size, grow |-> t.grow, cells |-> t.cells]
  /\ t.count \in Nat /\ t.size \in Nat /\ t.grow \in BOOLEAN
  /\ t.cells \in [Buckets(t) -> EntriesOf(V) \cup {Vacant}]

\* Every entry is as far from its home as it says.
Located(t) ==
  \A i \in Filled(t) :
    /\ t.cells[i].dist < Width(t)
    /\ i = Along(t, Home(t, t.cells[i].key), t.cells[i].dist)

KeysOnce(t) ==
  \A i, j \in Filled(t) : t.cells[i].key = t.cells[j].key => i = j

\* From bucket to bucket entries are at most one farther from home: what stealing
\* from the richer maintains, and what lets a search end early.
Robin(t) ==
  \A i \in Buckets(t) : t.cells[NextBucket(t, i)].dist <= t.cells[i].dist + 1

Linked(t, V) == Shape(t, V) /\ Located(t) /\ KeysOnce(t) /\ Robin(t)

\* No more than half full, so that a vacant bucket is always left.
Counted(t) == t.size = Cardinality(Filled(t)) /\ 2 * t.size <= Width(t)

Sound(t, V) == Linked(t, V) /\ Counted(t)

-----------------------------------------------------------------------------
(* Round the table.                                                        *)
LEMMA Remainder ==
  ASSUME NEW w \in Nat \ {0}, NEW x \in Int
  PROVE  /\ x % w \in 0..(w - 1)
         /\ 0 <= x /\ x < w => x % w = x
         /\ w <= x /\ x < 2 * w => x % w = x - w
         /\ -w <= x /\ x < 0 => x % w = x + w
<1>1. x % w \in 0..(w - 1) /\ x = w * (x \div w) + (x % w) /\ x \div w \in Int
  OBVIOUS
<1> DEFINE q == x \div w
           r == x % w
<1>2. q \in Int /\ r \in Int /\ 0 <= r /\ r < w /\ x = w * q + r
  BY <1>1
<1> HIDE DEF q, r
<1>3. ASSUME q >= 1 PROVE w * q >= w
  BY <1>2, <1>3
<1>4. ASSUME q >= 2 PROVE w * q >= 2 * w
  BY <1>2, <1>4
<1>5. ASSUME q <= -1 PROVE w * q <= -w
  BY <1>2, <1>5
<1>6. ASSUME q <= -2 PROVE w * q <= -(2 * w)
  BY <1>2, <1>6
<1>7. q = 0 => w * q = 0
  BY <1>2
<1>8. q = 1 => w * q = w
  BY <1>2
<1>9. q = -1 => w * q = -w
  BY <1>2
<1>10. w * q \in Int
  BY <1>2
<1>11. ASSUME 0 <= x, x < w PROVE r = x
  BY <1>2, <1>3, <1>5, <1>7, <1>10, <1>11
<1>12. ASSUME w <= x, x < 2 * w PROVE r = x - w
  BY <1>2, <1>4, <1>5, <1>7, <1>8, <1>10, <1>12
<1>13. ASSUME -w <= x, x < 0 PROVE r = x + w
  BY <1>2, <1>3, <1>6, <1>7, <1>9, <1>10, <1>13
<1> QED BY <1>1, <1>11, <1>12, <1>13 DEF r

LEMMA Widths ==
  ASSUME NEW t, t.count \in Nat
  PROVE  /\ Width(t) \in Nat \ {0}
         /\ \A k \in Keys : Home(t, k) \in Buckets(t)
<1>1. Width(t) \in Nat \ {0}
  BY DEF Width
<1>2. ASSUME NEW k \in Keys PROVE Home(t, k) \in Buckets(t)
  <2>1. Hash[k] \in Int
    BY HashAssumption
  <2> QED BY <1>1, <2>1, Remainder DEF Home, Buckets
<1> QED BY <1>1, <1>2

LEMMA Onwards ==
  ASSUME NEW t, t.count \in Nat, NEW i \in Buckets(t), NEW d \in 0..Width(t)
  PROVE  /\ Along(t, i, d) \in Buckets(t)
         /\ Along(t, i, d) = IF i + d < Width(t) THEN i + d ELSE (i + d) - Width(t)
<1>1. Width(t) \in Nat \ {0}
  BY Widths
<1>2. i + d \in Int /\ 0 <= i + d /\ i + d < 2 * Width(t)
  BY <1>1 DEF Buckets
<1>3. (i + d) % Width(t) \in 0..(Width(t) - 1)
  BY <1>1, <1>2, Remainder
<1>4. i + d < Width(t) => (i + d) % Width(t) = i + d
  BY <1>1, <1>2, Remainder
<1>5. ASSUME ~(i + d < Width(t)) PROVE (i + d) % Width(t) = (i + d) - Width(t)
  <2>1. Width(t) <= i + d
    BY <1>1, <1>2, <1>5
  <2> QED BY <1>1, <1>2, <2>1, Remainder, Zenon
<1>6. Along(t, i, d) = (i + d) % Width(t)
  BY DEF Along
<1>7. Along(t, i, d) \in Buckets(t)
  BY <1>3, <1>6 DEF Buckets
<1> QED BY <1>4, <1>5, <1>6, <1>7

\* How far ahead of i the bucket j is.
Ahead(t, i, j) == (j - i) % Width(t)

\* Ahead undoes Along.
LEMMA Aheads ==
  ASSUME NEW t, t.count \in Nat, NEW i \in Buckets(t), NEW j \in Buckets(t)
  PROVE  /\ Ahead(t, i, j) \in Buckets(t)
         /\ Ahead(t, i, j) = IF i <= j THEN j - i ELSE (j - i) + Width(t)
         /\ Along(t, i, Ahead(t, i, j)) = j
         /\ \A d \in Buckets(t) : Along(t, i, d) = j => d = Ahead(t, i, j)
<1>1. Width(t) \in Nat \ {0}
  BY Widths
<1>2. Ahead(t, i, j) = IF i <= j THEN j - i ELSE (j - i) + Width(t)
  <2>1. j - i \in Int /\ -Width(t) <= j - i /\ j - i < Width(t)
    BY <1>1 DEF Buckets
  <2> DEFINE x == j - i
             w == Width(t)
  <2> HIDE DEF x, w
  <2>2. w \in Nat \ {0} /\ x \in Int /\ -w <= x /\ x < w
    BY <1>1, <2>1 DEF x, w
  <2>3. x % w = IF 0 <= x THEN x ELSE x + w
    <3>1. /\ 0 <= x /\ x < w => x % w = x
          /\ -w <= x /\ x < 0 => x % w = x + w
      BY <2>2, Remainder, Zenon
    <3> QED BY <2>2, <3>1
  <2>4. i \in Int /\ j \in Int /\ (0 <= x <=> i <= j)
    BY <1>1 DEF Buckets, x
  <2> QED BY <2>3, <2>4 DEF Ahead, x, w
<1>3. Ahead(t, i, j) \in Buckets(t)
  BY <1>1, <1>2 DEF Buckets
<1>4. Ahead(t, i, j) \in 0..Width(t)
  BY <1>1, <1>3 DEF Buckets
<1>5. Along(t, i, Ahead(t, i, j)) = j
  <2>1. Along(t, i, Ahead(t, i, j)) = IF i + Ahead(t, i, j) < Width(t) THEN i + Ahead(t, i, j)
                                      ELSE (i + Ahead(t, i, j)) - Width(t)
    BY <1>4, Onwards
  <2> QED BY <1>1, <1>2, <2>1 DEF Buckets
<1>6. ASSUME NEW d \in Buckets(t), Along(t, i, d) = j
      PROVE  d = Ahead(t, i, j)
  <2>1. d \in 0..Width(t)
    BY <1>1 DEF Buckets
  <2>2. j = IF i + d < Width(t) THEN i + d ELSE (i + d) - Width(t)
    BY <1>6, <2>1, Onwards
  <2> QED BY <1>1, <1>2, <2>2 DEF Buckets
<1> QED BY <1>2, <1>3, <1>5, <1>6

LEMMA AheadIs ==
  ASSUME NEW t, t.count \in Nat, NEW i \in Buckets(t), NEW d \in Buckets(t)
  PROVE  Ahead(t, i, Along(t, i, d)) = d
<1>1. d \in 0..Width(t)
  BY Widths DEF Buckets
<1>2. Along(t, i, d) \in Buckets(t)
  BY <1>1, Onwards
<1> QED BY <1>2, Aheads

LEMMA NextOnwards ==
  ASSUME NEW t, t.count \in Nat, NEW i \in Buckets(t)
  PROVE  /\ NextBucket(t, i) \in Buckets(t)
         /\ NextBucket(t, i) = IF i + 1 < Width(t) THEN i + 1 ELSE 0
         /\ \A d \in Buckets(t) : NextBucket(t, Along(t, i, d)) = Along(t, i, d + 1)
<1>1. Width(t) \in Nat \ {0}
  BY Widths
<1>2. \A j \in Buckets(t) : /\ NextBucket(t, j) \in Buckets(t)
                            /\ NextBucket(t, j) = IF j + 1 < Width(t) THEN j + 1 ELSE 0
  <2> TAKE j \in Buckets(t)
  <2>1. 1 \in 0..Width(t)
    BY <1>1
  <2>2. Along(t, j, 1) \in Buckets(t)
        /\ Along(t, j, 1) = IF j + 1 < Width(t) THEN j + 1 ELSE (j + 1) - Width(t)
    BY <2>1, Onwards
  <2> QED BY <1>1, <2>2 DEF NextBucket, Buckets
<1>3. ASSUME NEW d \in Buckets(t)
      PROVE  NextBucket(t, Along(t, i, d)) = Along(t, i, d + 1)
  <2>1. d \in 0..Width(t) /\ d + 1 \in 0..Width(t)
    BY <1>1 DEF Buckets
  <2>2. /\ Along(t, i, d) \in Buckets(t)
        /\ Along(t, i, d) = IF i + d < Width(t) THEN i + d ELSE (i + d) - Width(t)
    BY <2>1, Onwards
  <2>3. Along(t, i, d + 1) = IF i + (d + 1) < Width(t) THEN i + (d + 1)
                             ELSE (i + (d + 1)) - Width(t)
    BY <2>1, Onwards
  <2>4. NextBucket(t, Along(t, i, d))
          = IF Along(t, i, d) + 1 < Width(t) THEN Along(t, i, d) + 1 ELSE 0
    BY <1>2, <2>2
  <2> QED BY <1>1, <2>2, <2>3, <2>4 DEF Buckets
<1> QED BY <1>2, <1>3

-----------------------------------------------------------------------------
(* Looking up.                                                             *)
LEMMA Cells ==
  ASSUME NEW t, NEW V, Shape(t, V)
  PROVE  /\ t.count \in Nat /\ DOMAIN t.cells = Buckets(t) /\ Filled(t) \subseteq Buckets(t)
         /\ \A i \in Buckets(t) :
              \/ i \notin Filled(t) /\ t.cells[i] = Vacant /\ t.cells[i].dist = -1
              \/ /\ i \in Filled(t) /\ t.cells[i] \in EntriesOf(V)
                 /\ t.cells[i].dist \in Nat /\ t.cells[i].key \in Keys
                 /\ t.cells[i].value \in V
<1>1. t.count \in Nat /\ DOMAIN t.cells = Buckets(t)
  BY DEF Shape
<1>2. ASSUME NEW i \in Buckets(t)
      PROVE  \/ i \notin Filled(t) /\ t.cells[i] = Vacant /\ t.cells[i].dist = -1
             \/ /\ i \in Filled(t) /\ t.cells[i] \in EntriesOf(V)
                /\ t.cells[i].dist \in Nat /\ t.cells[i].key \in Keys
                /\ t.cells[i].value \in V
  <2>1. t.cells[i] \in EntriesOf(V) \/ t.cells[i] = Vacant
    BY DEF Shape
  <2>2. CASE t.cells[i] = Vacant
    BY <2>2 DEF Filled, Vacant
  <2>3. CASE t.cells[i] \in EntriesOf(V) /\ t.cells[i] # Vacant
    BY <1>1, <2>3 DEF Filled, EntriesOf
  <2> QED BY <2>1, <2>2, <2>3
<1> QED BY <1>1, <1>2 DEF Filled

\* The search takes the first bucket that ends it.
LEMMA FirstStop ==
  ASSUME NEW t, NEW k, NEW d \in 0..Width(t), Width(t) \in Nat,
         Stops(t, k, d), \A m \in 0..(d - 1) : ~Stops(t, k, m)
  PROVE  Find(t, k) = [at |-> Along(t, Home(t, k), d), dist |-> d,
                       found |-> ~PastHome(d, t.cells[Along(t, Home(t, k), d)])]
<1> DEFINE first(n) == Stops(t, k, n) /\ \A m \in 0..(n - 1) : ~Stops(t, k, m)
           c == CHOOSE n \in 0..Width(t) : first(n)
<1>1. c \in 0..Width(t) /\ first(c)
  <2>1. first(d)
    OBVIOUS
  <2> HIDE DEF first
  <2> QED BY <2>1
<1>2. c = d
  <2>1. c \in Int /\ d \in Int /\ (c < d => c \in 0..(d - 1)) /\ (d < c => d \in 0..(c - 1))
    <3> HIDE DEF c
    <3> QED BY <1>1
  <2>2. ~(c < d) /\ ~(d < c)
    BY <1>1, <2>1
  <2> HIDE DEF c
  <2> QED BY <2>1, <2>2
<1>3. Find(t, k) = [at |-> Along(t, Home(t, k), c), dist |-> c,
                    found |-> ~PastHome(c, t.cells[Along(t, Home(t, k), c)])]
  BY DEF Find
<1> HIDE DEF c
<1> QED BY <1>2, <1>3

\* On the way from its home to an entry no one is nearer to home than the way
\* is long.
LEMMA WayFromHome ==
  ASSUME NEW t, NEW V, Linked(t, V), NEW i \in Filled(t)
  PROVE  \A m \in 0..t.cells[i].dist :
           t.cells[Along(t, Home(t, t.cells[i].key), m)].dist >= m
<1> DEFINE D == t.cells[i].dist
           h == Home(t, t.cells[i].key)
           far(m) == t.cells[Along(t, h, m)].dist
           T == {n \in 0..D : far(D - n) >= D - n}
<1>1. /\ t.count \in Nat /\ i \in Buckets(t) /\ D \in Nat /\ t.cells[i].key \in Keys
      /\ D < Width(t) /\ Along(t, h, D) = i
      /\ \A j \in Buckets(t) : t.cells[j].dist \in Int
  BY Cells DEF Linked, Located
<1>2. Width(t) \in Nat \ {0} /\ h \in Buckets(t)
  BY <1>1, Widths
<1> HIDE DEF D, h
<1>3. \A m \in 0..D : Along(t, h, m) \in Buckets(t) /\ far(m) \in Int
  <2> TAKE m \in 0..D
  <2>1. m \in 0..Width(t)
    BY <1>1, <1>2
  <2> QED BY <1>1, <1>2, <2>1, Onwards
<1>4. 0 \in T
  <2>1. D - 0 = D /\ far(D) = D
    BY <1>1 DEF D
  <2> QED BY <1>1, <2>1
<1>5. ASSUME NEW n \in 1..D, n - 1 \in T
      PROVE  n \in T
  <2>1. D - n \in Buckets(t) /\ D - n \in 0..D /\ D - (n - 1) = (D - n) + 1
        /\ D - (n - 1) \in 0..D
    BY <1>1, <1>2 DEF Buckets
  <2>2. NextBucket(t, Along(t, h, D - n)) = Along(t, h, D - (n - 1))
    BY <1>1, <1>2, <2>1, NextOnwards
  <2>3. far(D - (n - 1)) <= far(D - n) + 1
    BY <1>3, <2>1, <2>2 DEF Linked, Robin
  <2>4. far(D - (n - 1)) >= D - (n - 1)
    BY <1>5
  <2>5. far(D - n) \in Int /\ far(D - (n - 1)) \in Int
    BY <1>3, <2>1
  <2> HIDE DEF far
  <2>6. far(D - n) >= D - n
    BY <1>1, <2>1, <2>3, <2>4, <2>5
  <2> QED BY <1>1, <2>6
<1>6. \A n \in 0..D : n \in T
  <2> HIDE DEF T
  <2> QED BY <1>1, <1>4, <1>5, UpTo
<1>7. ASSUME NEW m \in 0..D
      PROVE  far(m) >= m
  <2>1. D - m \in 0..D /\ D - (D - m) = m
    BY <1>1
  <2>2. far(D - (D - m)) >= D - (D - m)
    BY <1>6, <2>1
  <2> QED BY <2>1, <2>2
<1> QED BY <1>7 DEF D, h

\* find(key) for a key that is stored: on its way from home it passes only entries
\* at least as far from theirs, so no bucket ends the search before its own.
THEOREM SearchFinds ==
  ASSUME NEW t, NEW V, Linked(t, V), NEW i \in Filled(t)
  PROVE  LET k == t.cells[i].key
         IN /\ Find(t, k) = [at |-> i, dist |-> t.cells[i].dist, found |-> TRUE]
            /\ Holds(t, k) /\ ValueOf(t, k) = t.cells[i].value
<1> DEFINE D == t.cells[i].dist
           k == t.cells[i].key
           h == Home(t, k)
<1>1. /\ t.count \in Nat /\ i \in Buckets(t) /\ D \in Nat /\ k \in Keys
      /\ D < Width(t) /\ Along(t, h, D) = i
      /\ \A j \in Buckets(t) : /\ t.cells[j].dist \in Int
                               /\ t.cells[j].dist >= 0 => j \in Filled(t)
  BY Cells DEF Linked, Located
<1>2. Width(t) \in Nat \ {0} /\ h \in Buckets(t)
  BY <1>1, Widths
<1>3. \A m \in 0..D : t.cells[Along(t, h, m)].dist >= m
  BY WayFromHome
<1>4. ASSUME NEW m \in 0..(D - 1)
      PROVE  ~Stops(t, k, m)
  <2> DEFINE j == Along(t, h, m)
  <2>1. m \in 0..D /\ m \in Buckets(t) /\ m \in 0..Width(t) /\ D \in Buckets(t) /\ m # D
    BY <1>1, <1>2 DEF Buckets
  <2>2. j \in Buckets(t) /\ t.cells[j].dist >= m
    BY <1>1, <1>2, <1>3, <2>1, Onwards
  <2>3. j # i
    <3> SUFFICES ASSUME Along(t, h, m) = i PROVE FALSE
      OBVIOUS
    <3> HIDE DEF D, h
    <3>1. m = Ahead(t, h, i)
      BY <1>1, <1>2, <2>1, AheadIs
    <3>2. D = Ahead(t, h, i)
      BY <1>1, <1>2, <2>1, AheadIs
    <3> QED BY <2>1, <3>1, <3>2
  <2>4. j \in Filled(t) /\ ~(m > t.cells[j].dist)
    <3> HIDE DEF j
    <3>1. t.cells[j].dist \in Int /\ t.cells[j].dist >= m /\ m \in Nat
      BY <1>1, <2>1, <2>2 DEF Buckets
    <3>2. t.cells[j].dist >= 0 /\ ~(m > t.cells[j].dist)
      BY <3>1
    <3> QED BY <1>1, <2>2, <3>2
  <2>5. t.cells[j].key # k
    BY <2>3, <2>4 DEF Linked, KeysOnce
  <2> QED BY <2>4, <2>5 DEF Stops, PastHome
<1>5. Stops(t, k, D) /\ ~PastHome(D, t.cells[Along(t, h, D)])
  BY <1>1 DEF Stops, PastHome
<1>6. D \in 0..Width(t)
  BY <1>1, <1>2
<1>7. Find(t, k) = [at |-> Along(t, h, D), dist |-> D,
                    found |-> ~PastHome(D, t.cells[Along(t, h, D)])]
  <2> HIDE DEF D
  <2> QED BY <1>2, <1>4, <1>5, <1>6, FirstStop
<1>8. Find(t, k) = [at |-> i, dist |-> D, found |-> TRUE]
  BY <1>1, <1>5, <1>7
<1> QED BY <1>8 DEF Holds, ValueOf

\* find(key) for a key that is not stored: it ends at an entry nearer to its home,
\* where an insertion may put the key, and no later than at a vacant bucket.
THEOREM SearchFails ==
  ASSUME NEW t, NEW V, Linked(t, V), NEW v \in Buckets(t), t.cells[v] = Vacant,
         NEW k \in Keys, \A i \in Filled(t) : t.cells[i].key # k
  PROVE  LET h == Home(t, k)
             stop == Find(t, k)
         IN /\ ~Holds(t, k)
            /\ stop.dist \in 0..Ahead(t, h, v) /\ stop.at = Along(t, h, stop.dist)
            /\ stop.dist > t.cells[stop.at].dist
            /\ \A m \in 0..(stop.dist - 1) : t.cells[Along(t, h, m)].dist >= m
<1> DEFINE h == Home(t, k)
           A == Ahead(t, h, v)
           T == {n \in 0..A : Stops(t, k, n)}
<1>1. /\ t.count \in Nat
      /\ \A j \in Buckets(t) : /\ t.cells[j].dist \in Int
                               /\ t.cells[j].dist >= 0 => j \in Filled(t)
  BY Cells DEF Linked
<1>2. Width(t) \in Nat \ {0} /\ h \in Buckets(t)
  BY <1>1, Widths
<1>3. A \in Buckets(t) /\ A \in Nat /\ A < Width(t) /\ Along(t, h, A) = v
  BY <1>1, <1>2, Aheads DEF Buckets
<1>4. A \in T
  BY <1>3 DEF Stops, PastHome, Vacant
<1>5. PICK d \in T : \A n \in T : d <= n
  <2>1. T \in SUBSET Nat /\ T # {}
    BY <1>3, <1>4
  <2> HIDE DEF T
  <2> QED BY <2>1, LeastNatural
<1>6. d \in 0..A /\ d \in 0..Width(t) /\ Stops(t, k, d)
  BY <1>2, <1>3, <1>5
<1>7. \A m \in 0..(d - 1) : ~Stops(t, k, m)
  <2> SUFFICES ASSUME NEW m \in 0..(d - 1), Stops(t, k, m) PROVE FALSE
    OBVIOUS
  <2>1. m \in T /\ ~(d <= m)
    BY <1>3, <1>6
  <2> QED BY <1>5, <2>1
<1>8. Find(t, k) = [at |-> Along(t, h, d), dist |-> d,
                    found |-> ~PastHome(d, t.cells[Along(t, h, d)])]
  <2> HIDE DEF T
  <2> QED BY <1>2, <1>6, <1>7, FirstStop
<1>9. Along(t, h, d) \in Buckets(t)
  BY <1>1, <1>2, <1>6, Onwards
<1>10. d > t.cells[Along(t, h, d)].dist
  <2> SUFFICES ASSUME ~(d > t.cells[Along(t, h, d)].dist) PROVE FALSE
    OBVIOUS
  <2>1. t.cells[Along(t, h, d)].key = k
    BY <1>6 DEF Stops, PastHome
  <2>2. Along(t, h, d) \in Filled(t)
    BY <1>1, <1>3, <1>6, <1>9
  <2> QED BY <2>1, <2>2
<1>11. ASSUME NEW m \in 0..(d - 1)
       PROVE  t.cells[Along(t, h, m)].dist >= m
  <2>1. m \in 0..Width(t)
    BY <1>2, <1>6
  <2>2. Along(t, h, m) \in Buckets(t)
    BY <1>1, <1>2, <2>1, Onwards
  <2>3. ~(m > t.cells[Along(t, h, m)].dist)
    BY <1>7, <1>11 DEF Stops, PastHome
  <2> QED BY <1>1, <2>1, <2>2, <2>3
<1>12. Find(t, k).dist = d /\ Find(t, k).at = Along(t, h, d)
  BY <1>8
<1>13. ~Find(t, k).found
  <2>1. PastHome(d, t.cells[Along(t, h, d)])
    BY <1>10 DEF PastHome
  <2>2. Find(t, k) = [at |-> Along(t, h, d), dist |-> d, found |-> FALSE]
    BY <1>8, <2>1
  <2> QED BY <2>2
<1> QED BY <1>6, <1>10, <1>11, <1>12, <1>13 DEF Holds

-----------------------------------------------------------------------------
(* An entry is put into the table.                                         *)
LEMMA SameWidth ==
  ASSUME NEW t, NEW u, u.count = t.count
  PROVE  /\ Width(u) = Width(t) /\ Buckets(u) = Buckets(t)
         /\ \A i : NextBucket(u, i) = NextBucket(t, i)
         /\ \A i, d : Along(u, i, d) = Along(t, i, d) /\ Ahead(u, i, d) = Ahead(t, i, d)
         /\ \A k : Home(u, k) = Home(t, k)
<1>1. Width(u) = Width(t)
  BY DEF Width
<1> QED BY <1>1 DEF Buckets, NextBucket, Along, Ahead, Home

\* An entry fits a bucket: it is as far from home as it says, no farther than
\* the entry before it allows, and its key is a new one.
Fits(t, e, at) ==
  /\ at = Along(t, Home(t, e.key), e.dist) /\ e.dist < Width(t)
  /\ \A i \in Filled(t) : t.cells[i].key # e.key
  /\ \A j \in Buckets(t) : NextBucket(t, j) = at => e.dist <= t.cells[j].dist + 1

\* An entry that fits a bucket may take it: what was there, if anything, is nearer
\* to its home, and so is all that follows it.
LEMMA TakesBucket ==
  ASSUME NEW V, NEW t, Linked(t, V), NEW e \in EntriesOf(V), NEW at \in Buckets(t),
         Fits(t, e, at), e.dist > t.cells[at].dist,
         NEW u, Shape(u, V), u.count = t.count, u.cells = [t.cells EXCEPT ![at] = e]
  PROVE  Linked(u, V) /\ Filled(u) = Filled(t) \cup {at}
<1>1. /\ DOMAIN t.cells = Buckets(t) /\ t.count \in Nat /\ Filled(t) \subseteq Buckets(t)
      /\ \A i \in Buckets(t) : t.cells[i].dist \in Int
  BY Cells DEF Linked
<1>2. /\ u.cells[at] = e /\ DOMAIN u.cells = Buckets(t)
      /\ \A i \in Buckets(t) : i # at => u.cells[i] = t.cells[i]
  BY <1>1
<1>3. e # Vacant /\ e.dist \in Nat /\ e.key \in Keys
  BY DEF EntriesOf, Vacant
<1>4. Filled(u) = Filled(t) \cup {at}
  BY <1>1, <1>2, <1>3 DEF Filled
<1>5. /\ Width(u) = Width(t) /\ Buckets(u) = Buckets(t)
      /\ \A i : NextBucket(u, i) = NextBucket(t, i)
      /\ \A i, d : Along(u, i, d) = Along(t, i, d)
      /\ \A k : Home(u, k) = Home(t, k)
  BY SameWidth
<1>6. Located(u)
  <2> SUFFICES ASSUME NEW i \in Filled(u)
               PROVE  /\ u.cells[i].dist < Width(t)
                      /\ i = Along(t, Home(t, u.cells[i].key), u.cells[i].dist)
    BY <1>5 DEF Located
  <2>1. CASE i = at
    BY <1>2, <2>1 DEF Fits
  <2>2. CASE i # at
    <3>1. i \in Filled(t) /\ u.cells[i] = t.cells[i]
      BY <1>1, <1>2, <1>4, <2>2
    <3> QED BY <3>1 DEF Linked, Located
  <2> QED BY <2>1, <2>2
<1>7. KeysOnce(u)
  <2> SUFFICES ASSUME NEW i \in Filled(u), NEW j \in Filled(u),
                      u.cells[i].key = u.cells[j].key
               PROVE  i = j
    BY DEF KeysOnce
  <2>1. \A l \in Filled(u) : l # at => l \in Filled(t) /\ u.cells[l] = t.cells[l]
    BY <1>1, <1>2, <1>4
  <2>2. CASE i # at /\ j # at
    BY <2>1, <2>2 DEF Linked, KeysOnce
  <2>3. CASE i = at /\ j # at
    BY <1>2, <2>1, <2>3 DEF Fits
  <2>4. CASE i # at /\ j = at
    BY <1>2, <2>1, <2>4 DEF Fits
  <2> QED BY <2>2, <2>3, <2>4
<1>8. Robin(u)
  <2> SUFFICES ASSUME NEW i \in Buckets(t)
               PROVE  u.cells[NextBucket(t, i)].dist <= u.cells[i].dist + 1
    BY <1>5 DEF Robin
  <2> DEFINE next == NextBucket(t, i)
  <2>1. next \in Buckets(t) /\ t.cells[next].dist <= t.cells[i].dist + 1
    BY <1>1, NextOnwards DEF Linked, Robin
  <2>2. t.cells[next].dist \in Int /\ t.cells[i].dist \in Int /\ t.cells[at].dist \in Int
    BY <1>1, <2>1
  <2>3. next = at => e.dist <= t.cells[i].dist + 1
    BY DEF Fits
  <2>4. u.cells[next] = IF next = at THEN e ELSE t.cells[next]
    BY <1>2, <2>1
  <2>5. u.cells[i] = IF i = at THEN e ELSE t.cells[i]
    BY <1>2
  <2> HIDE DEF next
  <2> DEFINE tn == t.cells[next].dist
             ti == t.cells[i].dist
             ta == t.cells[at].dist
             d == e.dist
             un == u.cells[next].dist
             ui == u.cells[i].dist
  <2>6. /\ un = IF next = at THEN d ELSE tn
        /\ ui = IF i = at THEN d ELSE ti
    BY <2>4, <2>5
  <2>7. /\ d \in Int /\ tn \in Int /\ ti \in Int /\ ta \in Int
        /\ tn <= ti + 1 /\ d > ta /\ (next = at => d <= ti + 1)
        /\ (i = at => ti = ta)
    BY <1>3, <2>1, <2>2, <2>3
  <2> HIDE DEF tn, ti, ta, d, un, ui
  <2>8. un <= ui + 1
    BY <2>6, <2>7
  <2> QED BY <2>8 DEF un, ui, next
<1> QED BY <1>4, <1>6, <1>7, <1>8 DEF Linked

\* What the table and the entry in hand hold, as a function.
Stores(t, e, m) ==
  /\ m = [k \in DOMAIN m |-> m[k]]
  /\ \A i \in Filled(t) : /\ t.cells[i].key \in DOMAIN m
                          /\ m[t.cells[i].key] = t.cells[i].value
  /\ e # Vacant => e.key \in DOMAIN m /\ m[e.key] = e.value
  /\ \A k \in DOMAIN m : \/ e # Vacant /\ e.key = k
                         \/ \E i \in Filled(t) : t.cells[i].key = k

\* An entry is carried towards a vacant bucket.
Carrying(hand, V, v, m) ==
  /\ Linked(hand.table, V) /\ v \in Buckets(hand.table)
  /\ Stores(hand.table, hand.entry, m)
  /\ hand.entry # Vacant =>
       /\ hand.entry \in EntriesOf(V) /\ hand.at \in Buckets(hand.table)
       /\ Fits(hand.table, hand.entry, hand.at)
       /\ hand.table.cells[v] = Vacant
       /\ hand.entry.dist + Ahead(hand.table, hand.at, v) < Width(hand.table)

LEMMA NextAhead ==
  ASSUME NEW t, t.count \in Nat, NEW i \in Buckets(t), NEW v \in Buckets(t), i # v
  PROVE  Ahead(t, NextBucket(t, i), v) = Ahead(t, i, v) - 1
<1>1. Width(t) \in Nat \ {0}
  BY Widths
<1>2. /\ NextBucket(t, i) \in Buckets(t)
      /\ NextBucket(t, i) = IF i + 1 < Width(t) THEN i + 1 ELSE 0
  BY NextOnwards
<1> DEFINE j == NextBucket(t, i)
<1>3. Ahead(t, i, v) = IF i <= v THEN v - i ELSE (v - i) + Width(t)
  BY Aheads
<1>4. Ahead(t, j, v) = IF j <= v THEN v - j ELSE (v - j) + Width(t)
  BY <1>2, Aheads
<1> HIDE DEF j
<1>5. j = IF i + 1 < Width(t) THEN i + 1 ELSE 0
  BY <1>2 DEF j
<1>6. Ahead(t, j, v) = Ahead(t, i, v) - 1
  BY <1>1, <1>3, <1>4, <1>5 DEF Buckets
<1> QED BY <1>6 DEF j

\* The entry before a bucket is the only one.
LEMMA OneBefore ==
  ASSUME NEW t, t.count \in Nat, NEW i \in Buckets(t), NEW j \in Buckets(t),
         NextBucket(t, i) = NextBucket(t, j)
  PROVE  i = j
<1>1. Width(t) \in Nat \ {0}
  BY Widths
<1>2. /\ NextBucket(t, i) = IF i + 1 < Width(t) THEN i + 1 ELSE 0
      /\ NextBucket(t, j) = IF j + 1 < Width(t) THEN j + 1 ELSE 0
  BY NextOnwards
<1>3. i \in Int /\ j \in Int /\ 0 <= i /\ 0 <= j /\ i <= Width(t) - 1 /\ j <= Width(t) - 1
  BY <1>1 DEF Buckets
<1> DEFINE w == Width(t)
<1>4. (IF i + 1 < w THEN i + 1 ELSE 0) = (IF j + 1 < w THEN j + 1 ELSE 0)
  BY <1>2
<1>5. w \in Nat /\ i <= w - 1 /\ j <= w - 1
  BY <1>1, <1>3
<1> HIDE DEF w
<1> QED BY <1>3, <1>4, <1>5

\* Left at a bucket by one that is farther from home, an entry fits the next.
LEMMA GoesOn ==
  ASSUME NEW V, NEW t, Linked(t, V), NEW c \in EntriesOf(V), NEW at \in Buckets(t),
         NEW v \in Buckets(t), at # v, c.dist + Ahead(t, at, v) < Width(t),
         at = Along(t, Home(t, c.key), c.dist), c.dist <= t.cells[at].dist,
         \A i \in Filled(t) : t.cells[i].key # c.key
  PROVE  LET e == Displaced(c)
             next == NextBucket(t, at)
         IN /\ e \in EntriesOf(V) /\ e.key = c.key /\ e.value = c.value /\ next \in Buckets(t)
            /\ Fits(t, e, next)
            /\ Ahead(t, next, v) = Ahead(t, at, v) - 1
            /\ e.dist + Ahead(t, next, v) < Width(t)
<1> DEFINE e == Displaced(c)
           next == NextBucket(t, at)
<1>1. t.count \in Nat /\ \A i \in Buckets(t) : t.cells[i].dist \in Int
  BY Cells DEF Linked
<1>2. c = [dist |-> c.dist, key |-> c.key, value |-> c.value]
      /\ c.dist \in Nat /\ c.key \in Keys /\ c.value \in V /\ c # Vacant
  BY DEF EntriesOf, Vacant
<1>3. e = [dist |-> c.dist + 1, key |-> c.key, value |-> c.value]
  BY <1>2 DEF Displaced
<1>4. e \in EntriesOf(V) /\ e.dist = c.dist + 1 /\ e.key = c.key /\ e.value = c.value
  BY <1>2, <1>3 DEF EntriesOf
<1>5. /\ next \in Buckets(t) /\ Ahead(t, next, v) = Ahead(t, at, v) - 1
  BY <1>1, NextOnwards, NextAhead
<1>6. Ahead(t, next, v) \in Nat /\ Ahead(t, at, v) \in Nat /\ Width(t) \in Nat \ {0}
  BY <1>1, <1>5, Aheads, Widths DEF Buckets
<1> HIDE DEF e, next
<1>7. e.dist + Ahead(t, next, v) < Width(t) /\ e.dist < Width(t)
  BY <1>2, <1>4, <1>5, <1>6
<1>8. next = Along(t, Home(t, e.key), e.dist)
  <2>1. c.dist \in Buckets(t) /\ Home(t, c.key) \in Buckets(t)
    BY <1>1, <1>2, <1>4, <1>6, <1>7, Widths DEF Buckets
  <2>2. NextBucket(t, Along(t, Home(t, c.key), c.dist))
          = Along(t, Home(t, c.key), c.dist + 1)
    BY <1>1, <2>1, NextOnwards
  <2> QED BY <1>4, <2>2 DEF next
<1>9. ASSUME NEW j \in Buckets(t), NextBucket(t, j) = next
      PROVE  e.dist <= t.cells[j].dist + 1
  <2>1. j = at
    BY <1>1, <1>9, OneBefore DEF next
  <2>2. t.cells[at].dist \in Int
    BY <1>1
  <2> QED BY <1>2, <1>4, <2>1, <2>2
<1>10. Fits(t, e, next)
  BY <1>4, <1>7, <1>8, <1>9 DEF Fits
<1> QED BY <1>4, <1>5, <1>7, <1>10 DEF e, next

LEMMA Replaced ==
  ASSUME NEW V, NEW t, Shape(t, V), NEW e \in EntriesOf(V) \cup {Vacant}, NEW at \in Buckets(t)
  PROVE  LET u == Put(t, at, e)
         IN /\ Shape(u, V) /\ u.count = t.count /\ u.size = t.size /\ u.grow = t.grow
            /\ u.cells = [t.cells EXCEPT ![at] = e]
<1> DEFINE u == Put(t, at, e)
           cells == [t.cells EXCEPT ![at] = e]
<1>1. /\ t = [count |-> t.count, size |-> t.size, grow |-> t.grow, cells |-> t.cells]
      /\ t.count \in Nat /\ t.size \in Nat /\ t.grow \in BOOLEAN
      /\ t.cells \in [Buckets(t) -> EntriesOf(V) \cup {Vacant}]
  BY DEF Shape
<1>2. cells \in [Buckets(t) -> EntriesOf(V) \cup {Vacant}]
  BY <1>1
<1>3. u = [count |-> t.count, size |-> t.size, grow |-> t.grow, cells |-> cells]
  BY <1>1 DEF Put
<1> HIDE DEF cells, u
<1>4. u.count = t.count /\ u.size = t.size /\ u.grow = t.grow /\ u.cells = cells
  BY <1>3
<1>5. Buckets(u) = Buckets(t)
  BY <1>4, SameWidth
<1>6. Shape(u, V)
  BY <1>1, <1>2, <1>3, <1>4, <1>5 DEF Shape
<1> QED BY <1>4, <1>6 DEF u, cells

\* A table with its size or its mark changed.
LEMMA Recounted ==
  ASSUME NEW V, NEW t, Shape(t, V), NEW n \in Nat
  PROVE  LET u == [t EXCEPT !.size = n]
         IN /\ Shape(u, V) /\ u.count = t.count /\ u.cells = t.cells /\ u.size = n
            /\ u.grow = t.grow
<1> DEFINE u == [t EXCEPT !.size = n]
<1>1. /\ t = [count |-> t.count, size |-> t.size, grow |-> t.grow, cells |-> t.cells]
      /\ t.count \in Nat /\ t.grow \in BOOLEAN
      /\ t.cells \in [Buckets(t) -> EntriesOf(V) \cup {Vacant}]
  BY DEF Shape
<1>2. u = [count |-> t.count, size |-> n, grow |-> t.grow, cells |-> t.cells]
  BY <1>1
<1> HIDE DEF u
<1>3. u.count = t.count /\ u.size = n /\ u.grow = t.grow /\ u.cells = t.cells
  BY <1>2
<1>4. Buckets(u) = Buckets(t)
  BY <1>3, SameWidth
<1> QED BY <1>1, <1>2, <1>3, <1>4 DEF Shape, u

LEMMA Marked ==
  ASSUME NEW V, NEW t, Shape(t, V)
  PROVE  LET u == [t EXCEPT !.grow = TRUE]
         IN Shape(u, V) /\ u.count = t.count /\ u.cells = t.cells /\ u.size = t.size
<1> DEFINE yes == TRUE
           u == [t EXCEPT !.grow = yes]
<1> HIDE DEF yes
<1>1. /\ t = [count |-> t.count, size |-> t.size, grow |-> t.grow, cells |-> t.cells]
      /\ t.count \in Nat /\ t.size \in Nat
      /\ t.cells \in [Buckets(t) -> EntriesOf(V) \cup {Vacant}]
  BY DEF Shape
<1>2. u = [count |-> t.count, size |-> t.size, grow |-> yes, cells |-> t.cells]
  BY <1>1
<1> HIDE DEF u
<1>3. u.count = t.count /\ u.size = t.size /\ u.grow = yes /\ u.cells = t.cells
  BY <1>2
<1>4. Buckets(u) = Buckets(t)
  BY <1>3, SameWidth
<1>5. yes \in BOOLEAN
  BY DEF yes
<1>6. Shape(u, V)
  BY <1>1, <1>2, <1>3, <1>4, <1>5 DEF Shape
<1> QED BY <1>3, <1>6 DEF u, yes

\* Another step on the way.
LEMMA SettleKeeps ==
  ASSUME NEW V, NEW v, NEW m, NEW marks \in BOOLEAN, NEW hand, Carrying(hand, V, v, m)
  PROVE  LET new == Settle(hand, marks)
         IN /\ Carrying(new, V, v, m)
            /\ new.table.count = hand.table.count /\ new.table.size = hand.table.size
            /\ new.entry # Vacant =>
                 /\ hand.entry # Vacant
                 /\ Ahead(new.table, new.at, v) = Ahead(hand.table, hand.at, v) - 1
<1> DEFINE t == hand.table
           e == hand.entry
           at == hand.at
           cell == t.cells[at]
           new == Settle(hand, marks)
           next == NextBucket(t, at)
           far == marks /\ cell # Vacant /\ e.dist >= DistLimit
           s == IF far THEN [t EXCEPT !.grow = TRUE] ELSE t
           u == Put(s, at, e)
<1>1. CASE e = Vacant
  <2>1. new = hand
    BY <1>1 DEF Settle
  <2> QED BY <1>1, <2>1
<1>2. CASE e # Vacant
  <2>1. /\ Linked(t, V) /\ v \in Buckets(t) /\ Stores(t, e, m)
        /\ e \in EntriesOf(V) /\ at \in Buckets(t) /\ Fits(t, e, at)
        /\ t.cells[v] = Vacant /\ e.dist + Ahead(t, at, v) < Width(t)
    BY <1>2 DEF Carrying
  <2>2. /\ t.count \in Nat /\ DOMAIN t.cells = Buckets(t) /\ Filled(t) \subseteq Buckets(t)
        /\ \/ at \notin Filled(t) /\ cell = Vacant /\ cell.dist = -1
           \/ /\ at \in Filled(t) /\ cell \in EntriesOf(V) /\ cell # Vacant
              /\ cell.dist \in Nat /\ cell.key \in Keys /\ cell.value \in V
    BY <2>1, Cells DEF Linked, Filled
  <2>3. e.dist \in Nat /\ e.key \in Keys /\ e.value \in V
    BY <2>1 DEF EntriesOf
  <2>4. new = [table |-> IF e.dist > cell.dist THEN u ELSE t, at |-> next,
               entry |-> Displaced(IF e.dist > cell.dist THEN cell ELSE e)]
    BY <1>2 DEF Settle
  <2> HIDE DEF t, e, at, cell, new, next, far, s, u
  <2>5. CASE ~(e.dist > cell.dist)
    <3>1. new.table = t /\ new.at = next /\ new.entry = Displaced(e)
      BY <2>4, <2>5
    <3>2. at # v
      <4>1. Vacant.dist = -1
        BY DEF Vacant
      <4> QED BY <2>1, <2>3, <2>5, <4>1 DEF cell
    <3>3. e.dist <= cell.dist
      BY <2>2, <2>3, <2>5
    <3>4. /\ new.entry \in EntriesOf(V) /\ new.entry.key = e.key /\ new.entry.value = e.value
          /\ next \in Buckets(t) /\ Fits(t, new.entry, next)
          /\ Ahead(t, next, v) = Ahead(t, at, v) - 1
          /\ new.entry.dist + Ahead(t, next, v) < Width(t)
      BY <2>1, <3>1, <3>2, <3>3, GoesOn DEF Fits, cell, next
    <3>5. Stores(t, new.entry, m)
      <4>1. new.entry # Vacant
        BY <3>4 DEF EntriesOf, Vacant
      <4> QED BY <1>2, <2>1, <3>4, <4>1 DEF Stores
    <3>6. Carrying(new, V, v, m)
      BY <2>1, <3>1, <3>4, <3>5 DEF Carrying
    <3> QED BY <1>2, <3>1, <3>4, <3>6 DEF t, e, at, new
  <2>6. CASE e.dist > cell.dist
    <3>1. new.table = u /\ new.at = next /\ new.entry = Displaced(cell)
      BY <2>4, <2>6
    <3>2. /\ Shape(u, V) /\ u.count = t.count /\ u.size = t.size
          /\ u.cells = [t.cells EXCEPT ![at] = e]
      <4>1. Shape(t, V)
        BY <2>1 DEF Linked
      <4>2. Shape(s, V) /\ s.count = t.count /\ s.cells = t.cells /\ s.size = t.size
        BY <4>1, Marked DEF s
      <4>3. at \in Buckets(s)
        BY <2>1, <4>2, SameWidth
      <4> QED BY <2>1, <4>2, <4>3, Replaced DEF u
    <3>3. Linked(u, V) /\ Filled(u) = Filled(t) \cup {at}
      BY <2>1, <2>6, <3>2, TakesBucket DEF cell
    <3>4. u.cells[at] = e /\ \A i \in Buckets(t) : i # at => u.cells[i] = t.cells[i]
      BY <2>1, <2>2, <3>2
    <3>5. /\ Width(u) = Width(t) /\ Buckets(u) = Buckets(t)
          /\ next = NextBucket(u, at)
          /\ \A i, d : Along(u, i, d) = Along(t, i, d) /\ Ahead(u, i, d) = Ahead(t, i, d)
          /\ \A k : Home(u, k) = Home(t, k)
      BY <3>2, SameWidth DEF next
    <3>6. CASE at \notin Filled(t) /\ cell = Vacant
      <4>1. new.entry = Vacant
        BY <3>1, <3>6 DEF Displaced
      <4>2. Stores(u, Vacant, m)
        <5>1. ASSUME NEW i \in Filled(u)
              PROVE  u.cells[i].key \in DOMAIN m /\ m[u.cells[i].key] = u.cells[i].value
          <6>1. CASE i = at
            BY <1>2, <2>1, <3>4, <6>1 DEF Stores, e
          <6>2. CASE i # at
            BY <2>1, <2>2, <3>3, <3>4, <6>2 DEF Stores
          <6> QED BY <6>1, <6>2
        <5>2. ASSUME NEW k \in DOMAIN m
              PROVE  \E i \in Filled(u) : u.cells[i].key = k
          <6>1. CASE e.key = k
            BY <3>3, <3>4, <6>1
          <6>2. CASE \E i \in Filled(t) : t.cells[i].key = k
            BY <2>2, <3>3, <3>4, <3>6, <6>2
          <6> QED BY <2>1, <6>1, <6>2 DEF Stores
        <5> QED BY <2>1, <5>1, <5>2 DEF Stores
      <4>3. Carrying(new, V, v, m)
        BY <2>1, <3>1, <3>3, <3>5, <4>1, <4>2 DEF Carrying
      <4> QED BY <3>1, <3>2, <4>1, <4>3 DEF new, t
    <3>7. CASE /\ at \in Filled(t) /\ cell \in EntriesOf(V) /\ cell # Vacant
      <4>1. /\ cell.dist \in Nat /\ cell.key \in Keys /\ cell.value \in V
            /\ cell.dist < Width(t) /\ at = Along(t, Home(t, cell.key), cell.dist)
        BY <2>1, <2>2, <3>7 DEF Linked, Located, cell
      <4>2. at # v
        BY <2>1, <3>7 DEF cell
      <4>3. cell.dist + Ahead(u, at, v) < Width(u)
        <5>1. Ahead(t, at, v) \in Nat /\ Width(t) \in Nat
          BY <2>1, <2>2, Aheads, Widths DEF Buckets
        <5> QED BY <2>1, <2>3, <2>6, <3>5, <4>1, <5>1
      <4>4. at = Along(u, Home(u, cell.key), cell.dist) /\ cell.dist <= u.cells[at].dist
        BY <2>3, <2>6, <3>4, <3>5, <4>1
      <4>5. ASSUME NEW i \in Filled(u)
            PROVE  u.cells[i].key # cell.key
        <5>1. CASE i = at
          BY <2>1, <3>4, <3>7, <5>1 DEF Fits, cell
        <5>2. CASE i # at
          <6>1. i \in Filled(t) /\ u.cells[i] = t.cells[i]
            BY <2>2, <3>3, <3>4, <5>2
          <6> QED BY <2>1, <3>7, <5>2, <6>1 DEF Linked, KeysOnce, cell
        <5> QED BY <5>1, <5>2
      <4>6. /\ new.entry \in EntriesOf(V) /\ new.entry.key = cell.key
            /\ new.entry.value = cell.value
            /\ next \in Buckets(u) /\ Fits(u, new.entry, next)
            /\ Ahead(u, next, v) = Ahead(u, at, v) - 1
            /\ new.entry.dist + Ahead(u, next, v) < Width(u)
        BY <2>1, <3>1, <3>3, <3>5, <3>7, <4>2, <4>3, <4>4, <4>5, GoesOn
      <4>7. u.cells[v] = Vacant
        BY <2>1, <3>4, <4>2
      <4>8. Stores(u, new.entry, m)
        <5>1. new.entry # Vacant
          BY <4>6 DEF EntriesOf, Vacant
        <5>2. ASSUME NEW i \in Filled(u)
              PROVE  u.cells[i].key \in DOMAIN m /\ m[u.cells[i].key] = u.cells[i].value
          <6>1. CASE i = at
            BY <1>2, <2>1, <3>4, <6>1 DEF Stores, e
          <6>2. CASE i # at
            BY <2>1, <2>2, <3>3, <3>4, <6>2 DEF Stores
          <6> QED BY <6>1, <6>2
        <5>3. cell.key \in DOMAIN m /\ m[cell.key] = cell.value
          BY <2>1, <3>7 DEF Stores, cell
        <5>4. ASSUME NEW k \in DOMAIN m
              PROVE  cell.key = k \/ \E i \in Filled(u) : u.cells[i].key = k
          <6>1. CASE e.key = k
            BY <3>3, <3>4, <6>1
          <6>2. ASSUME NEW i \in Filled(t), t.cells[i].key = k
                PROVE  cell.key = k \/ \E j \in Filled(u) : u.cells[j].key = k
            <7>1. CASE i = at
              BY <6>2, <7>1 DEF cell
            <7>2. CASE i # at
              BY <2>2, <3>3, <3>4, <6>2, <7>2
            <7> QED BY <7>1, <7>2
          <6> QED BY <2>1, <6>1, <6>2 DEF Stores
        <5> QED BY <2>1, <4>6, <5>1, <5>2, <5>3, <5>4 DEF Stores
      <4>9. Carrying(new, V, v, m)
        BY <2>1, <3>1, <3>3, <3>5, <4>6, <4>7, <4>8 DEF Carrying
      <4> QED BY <1>2, <3>1, <3>2, <3>5, <4>6, <4>9 DEF new, t, e, at
    <3> QED BY <2>2, <3>6, <3>7
  <2> QED BY <2>5, <2>6
<1> QED BY <1>1, <1>2

-----------------------------------------------------------------------------
(* Recursive functions.                                                    *)

Iterated(g, N, first, F) ==
  g = [n \in 0..N |-> IF n = 0 THEN first ELSE F[n][g[n-1]]]

\* A function defined by recursion exists, and stays where its steps do.
LEMMA Iterates ==
  ASSUME NEW N \in Nat, NEW S, NEW F, NEW first, first \in S[0],
         \A n \in 1..N : \A s \in S[n-1] : F[n][s] \in S[n]
  PROVE  \E g : Iterated(g, N, first, F) /\ \A n \in 0..N : g[n] \in S[n]
<1> DEFINE Partial(g, m) == \A n \in 0..m : /\ g[n] = IF n = 0 THEN first ELSE F[n][g[n-1]]
                                            /\ g[n] \in S[n]
           T == {m \in 0..N : \E g : Partial(g, m)}
<1>1. 0 \in T
  <2> DEFINE f == [n \in 0..0 |-> first]
  <2>1. f[0] = first
    OBVIOUS
  <2> HIDE DEF f
  <2>2. \A n \in 0..0 : n = 0
    OBVIOUS
  <2>3. Partial(f, 0)
    BY <2>1, <2>2
  <2> QED BY <2>3
<1>2. ASSUME NEW m \in 1..N, m - 1 \in T
      PROVE  m \in T
  <2>1. PICK f : Partial(f, m - 1)
    BY <1>2
  <2> DEFINE x == F[m][f[m-1]]
             g == [n \in 0..m |-> IF n = m THEN x ELSE f[n]]
  <2>2. g[m] = x /\ \A n \in 0..(m - 1) : g[n] = f[n]
    OBVIOUS
  <2> HIDE DEF g
  <2>3. ASSUME NEW n \in 0..m
        PROVE  /\ g[n] = IF n = 0 THEN first ELSE F[n][g[n-1]]
               /\ g[n] \in S[n]
    <3>1. CASE n = m
      <4>1. m - 1 \in 0..(m - 1) /\ m # 0
        OBVIOUS
      <4>2. f[m-1] \in S[m-1]
        BY <2>1, <4>1
      <4>3. x \in S[m]
        BY <1>2, <4>2
      <4> QED BY <2>2, <3>1, <4>1, <4>3
    <3>2. CASE n # m
      <4>1. n \in 0..(m - 1) /\ (n # 0 => n - 1 \in 0..(m - 1))
        BY <3>2
      <4> QED BY <2>1, <2>2, <4>1
    <3> QED BY <3>1, <3>2
  <2> QED BY <2>3
<1>3. N \in T
  <2> HIDE DEF T
  <2> QED BY <1>1, <1>2, UpTo
<1>4. PICK f : Partial(f, N)
  BY <1>3
<1> DEFINE g == [n \in 0..N |-> f[n]]
<1>5. \A n \in 0..N : g[n] = f[n]
  OBVIOUS
<1>6. g = [n \in 0..N |-> g[n]]
  OBVIOUS
<1> HIDE DEF g
<1>7. ASSUME NEW n \in 0..N
      PROVE  /\ g[n] = IF n = 0 THEN first ELSE F[n][g[n-1]]
             /\ g[n] \in S[n]
  <2>1. n # 0 => n - 1 \in 0..N
    OBVIOUS
  <2> QED BY <1>4, <1>5, <2>1
<1>8. Iterated(g, N, first, F)
  BY <1>6, <1>7 DEF Iterated
<1> QED BY <1>7, <1>8

\* Every table of a shape.
TablesOf(V) ==
  [count : Nat, size : Nat, grow : BOOLEAN,
   cells : UNION {[0..n -> EntriesOf(V) \cup {Vacant}] : n \in Nat}]

LEMMA ShapeIsMembership ==
  ASSUME NEW V, NEW t, Shape(t, V)
  PROVE  t \in TablesOf(V)
<1>1. Width(t) \in Nat \ {0}
  BY Widths DEF Shape
<1>2. Width(t) - 1 \in Nat
  BY <1>1
<1>3. t.cells \in UNION {[0..n -> EntriesOf(V) \cup {Vacant}] : n \in Nat}
  BY <1>2 DEF Shape, Buckets
<1>4. /\ t = [count |-> t.count, size |-> t.size, grow |-> t.grow, cells |-> t.cells]
      /\ t.count \in Nat /\ t.size \in Nat /\ t.grow \in BOOLEAN
  BY DEF Shape
<1> DEFINE C == UNION {[0..n -> EntriesOf(V) \cup {Vacant}] : n \in Nat}
<1>5. t.cells \in C
  BY <1>3
<1> HIDE DEF C
<1>6. t \in [count : Nat, size : Nat, grow : BOOLEAN, cells : C]
  BY <1>4, <1>5
<1> QED BY <1>6 DEF TablesOf, C

\* Carried as far as there are buckets, an entry has found its own.
LEMMA CarriedArrives ==
  ASSUME NEW V, NEW v, NEW m, NEW marks \in BOOLEAN, NEW t, NEW i \in Nat,
         NEW e \in EntriesOf(V) \cup {Vacant},
         Carrying([table |-> t, at |-> i, entry |-> e], V, v, m)
  PROVE  LET u == Carried(t, i, e, marks)
         IN /\ Linked(u, V) /\ Stores(u, Vacant, m)
            /\ u.count = t.count /\ u.size = t.size
<1> DEFINE W == Width(t)
           first == [table |-> t, at |-> i, entry |-> e]
           Hands == [table : TablesOf(V), at : Nat, entry : EntriesOf(V) \cup {Vacant}]
           Near(h, n) == /\ Carrying(h, V, v, m)
                         /\ h.table.count = t.count /\ h.table.size = t.size
                         /\ h.entry # Vacant => Ahead(h.table, h.at, v) <= (W - 1) - n
           S == [n \in 0..W |-> {h \in Hands : Near(h, n)}]
           F == [n \in 1..W |-> [h \in S[n-1] |-> Settle(h, marks)]]
           c == CHOOSE f : f = [n \in 0..W |-> IF n = 0 THEN first ELSE Settle(f[n-1], marks)]
<1>1. Linked(t, V) /\ Shape(t, V) /\ t.count \in Nat /\ W \in Nat \ {0} /\ v \in Buckets(t)
  BY Widths DEF Carrying, Linked, Shape
<1>2. first \in S[0]
  <2>1. first.table = t /\ first.at = i /\ first.entry = e
    OBVIOUS
  <2>2. e # Vacant => Ahead(t, i, v) <= (W - 1) - 0
    <3> SUFFICES ASSUME e # Vacant PROVE Ahead(t, i, v) <= (W - 1) - 0
      OBVIOUS
    <3>1. i \in Buckets(t)
      BY <2>1 DEF Carrying
    <3>2. Ahead(t, i, v) \in 0..(W - 1)
      BY <1>1, <3>1, Aheads DEF Buckets
    <3> HIDE DEF W
    <3> QED BY <1>1, <3>2
  <2>3. t \in TablesOf(V)
    BY <1>1, ShapeIsMembership
  <2>4. first \in Hands
    BY <2>3
  <2>5. Near(first, 0)
    BY <2>1, <2>2
  <2> HIDE DEF W, first, Hands, Near
  <2> QED BY <1>1, <2>4, <2>5
<1>3. ASSUME NEW n \in 1..W, NEW h \in S[n-1]
      PROVE  Settle(h, marks) \in S[n]
  <2> DEFINE new == Settle(h, marks)
  <2>1. h \in Hands /\ Near(h, n - 1)
    <3>1. n - 1 \in 0..W
      BY <1>1
    <3> HIDE DEF Hands, Near, W
    <3> QED BY <3>1, <1>3
  <2>2. /\ Carrying(new, V, v, m)
        /\ new.table.count = h.table.count /\ new.table.size = h.table.size
        /\ new.entry # Vacant =>
             /\ h.entry # Vacant
             /\ Ahead(new.table, new.at, v) = Ahead(h.table, h.at, v) - 1
    BY <2>1, SettleKeeps
  <2>3. new \in Hands
    <3>1. CASE h.entry = Vacant
      BY <2>1, <3>1 DEF Settle
    <3>2. CASE h.entry # Vacant
      <4>1. \E a, b : new = [table |-> a, at |-> NextBucket(h.table, h.at), entry |-> b]
        BY <3>2 DEF Settle
      <4>2. new.table \in TablesOf(V)
        BY <2>2, ShapeIsMembership DEF Carrying, Linked
      <4>3. new.entry \in EntriesOf(V) \cup {Vacant}
        BY <2>2 DEF Carrying
      <4>4. NextBucket(h.table, h.at) \in Nat
        <5>1. h.at \in Buckets(h.table) /\ h.table.count \in Nat
          BY <1>1, <2>1, <3>2 DEF Carrying
        <5> QED BY <5>1, NextOnwards, Widths DEF Buckets
      <4> HIDE DEF new
      <4> QED BY <4>1, <4>2, <4>3, <4>4
    <3> QED BY <3>1, <3>2
  <2>4. new.entry # Vacant => Ahead(new.table, new.at, v) <= (W - 1) - n
    <3> SUFFICES ASSUME new.entry # Vacant
                 PROVE  Ahead(new.table, new.at, v) <= (W - 1) - n
      OBVIOUS
    <3>1. h.entry # Vacant /\ h.at \in Buckets(h.table) /\ v \in Buckets(h.table)
          /\ h.table.count \in Nat
      BY <1>1, <2>1, <2>2 DEF Carrying
    <3>2. Ahead(h.table, h.at, v) \in Int
      <4>1. Ahead(h.table, h.at, v) \in Buckets(h.table)
        BY <3>1, Aheads
      <4> QED BY <4>1 DEF Buckets
    <3>3. Ahead(h.table, h.at, v) <= (W - 1) - (n - 1)
      BY <2>1, <3>1
    <3> HIDE DEF W, new
    <3> QED BY <1>1, <2>2, <3>2, <3>3 DEF new
  <2>5. Near(new, n)
    BY <2>1, <2>2, <2>4
  <2> HIDE DEF Hands, Near, W, new
  <2>6. n \in 0..W
    BY <1>1
  <2>7. new \in S[n]
    BY <2>3, <2>5, <2>6
  <2> QED BY <2>7 DEF new
<1> HIDE DEF S, first
<1>4. c = [n \in 0..W |-> IF n = 0 THEN first ELSE Settle(c[n-1], marks)]
  <2>1. \A n \in 1..W : \A h \in S[n-1] : F[n][h] = Settle(h, marks)
    OBVIOUS
  <2>2. \A n \in 1..W : \A h \in S[n-1] : F[n][h] \in S[n]
    BY <1>3, <2>1
  <2> HIDE DEF F, W
  <2>3. PICK g : Iterated(g, W, first, F) /\ \A n \in 0..W : g[n] \in S[n]
    <3>1. W \in Nat
      BY <1>1
    <3> QED BY <1>2, <2>2, <3>1, Iterates
  <2>4. ASSUME NEW n \in 0..W
        PROVE  (IF n = 0 THEN first ELSE F[n][g[n-1]])
                 = (IF n = 0 THEN first ELSE Settle(g[n-1], marks))
    <3>1. n # 0 => n \in 1..W /\ n - 1 \in 0..W
      BY <1>1
    <3> QED BY <2>1, <2>3, <3>1
  <2>5. g = [n \in 0..W |-> IF n = 0 THEN first ELSE Settle(g[n-1], marks)]
    BY <2>3, <2>4 DEF Iterated
  <2> QED BY <2>5
<1>5. Carried(t, i, e, marks) = c[W].table
  BY DEF Carried, first
<1> HIDE DEF c, W
<1>6. \A n \in 0..W : c[n] = IF n = 0 THEN first ELSE Settle(c[n-1], marks)
  BY <1>4
<1>7. c[W] \in S[W]
  <2> DEFINE T == {n \in 0..W : c[n] \in S[n]}
  <2>1. 0 \in T
    BY <1>1, <1>2, <1>6
  <2>2. ASSUME NEW n \in 1..W, n - 1 \in T
        PROVE  n \in T
    BY <1>3, <1>6, <2>2
  <2> HIDE DEF T
  <2>3. W \in T
    BY <1>1, <2>1, <2>2, UpTo
  <2> QED BY <2>3 DEF T
<1>8. Near(c[W], W)
  <2> HIDE DEF Near, Hands
  <2> QED BY <1>1, <1>7 DEF S
<1>9. c[W].entry = Vacant
  <2> SUFFICES ASSUME c[W].entry # Vacant PROVE FALSE
    OBVIOUS
  <2> DEFINE u == c[W].table
             at == c[W].at
  <2>1. u.count \in Nat /\ at \in Buckets(u) /\ v \in Buckets(u)
    BY <1>1, <1>8 DEF Carrying
  <2>2. Ahead(u, at, v) \in Nat
    BY <2>1, Aheads, Widths DEF Buckets
  <2> QED BY <1>1, <1>8, <2>2
<1> QED BY <1>5, <1>8, <1>9 DEF Carrying

-----------------------------------------------------------------------------
(* What a table holds.                                                     *)
KeysIn(t) == {t.cells[i].key : i \in Filled(t)}
MapOf(t) == [k \in KeysIn(t) |-> ValueOf(t, k)]

\* A dictionary with a key mapped anew.
Updated(m, k, x) == [j \in DOMAIN m \cup {k} |-> IF j = k THEN x ELSE m[j]]

LEMMA SameCells ==
  ASSUME NEW V, NEW t, Linked(t, V), NEW u, Shape(u, V),
         u.count = t.count, u.cells = t.cells
  PROVE  /\ Linked(u, V) /\ Filled(u) = Filled(t)
         /\ \A m, e : Stores(t, e, m) <=> Stores(u, e, m)
<1>1. Filled(u) = Filled(t)
  BY DEF Filled
<1>2. /\ Width(u) = Width(t) /\ Buckets(u) = Buckets(t)
      /\ \A i : NextBucket(u, i) = NextBucket(t, i)
      /\ \A i, d : Along(u, i, d) = Along(t, i, d)
      /\ \A k : Home(u, k) = Home(t, k)
  BY SameWidth
<1>3. Located(u) /\ KeysOnce(u) /\ Robin(u)
  BY <1>1, <1>2 DEF Linked, Located, KeysOnce, Robin
<1>4. \A m, e : Stores(t, e, m) <=> Stores(u, e, m)
  BY <1>1 DEF Stores
<1> QED BY <1>1, <1>3, <1>4 DEF Linked

\* A table stands for one dictionary only.
LEMMA StoresMapOf ==
  ASSUME NEW V, NEW t, Linked(t, V)
  PROVE  /\ Stores(t, Vacant, MapOf(t)) /\ KeysIn(t) \subseteq Keys
         /\ MapOf(t) \in [KeysIn(t) -> V]
         /\ \A m : Stores(t, Vacant, m) => m = MapOf(t)
<1>1. ASSUME NEW i \in Filled(t)
      PROVE  /\ t.cells[i].key \in KeysIn(t) /\ t.cells[i].key \in Keys
             /\ MapOf(t)[t.cells[i].key] = t.cells[i].value /\ t.cells[i].value \in V
  <2>1. t.cells[i].key \in KeysIn(t)
    BY DEF KeysIn
  <2>2. ValueOf(t, t.cells[i].key) = t.cells[i].value
    BY SearchFinds
  <2>3. t.cells[i].key \in Keys /\ t.cells[i].value \in V
    BY Cells DEF Linked
  <2> QED BY <2>1, <2>2, <2>3 DEF MapOf
<1>2. DOMAIN MapOf(t) = KeysIn(t) /\ MapOf(t) = [k \in DOMAIN MapOf(t) |-> MapOf(t)[k]]
  BY DEF MapOf
<1>3. \A k \in KeysIn(t) : \E i \in Filled(t) : t.cells[i].key = k
  BY DEF KeysIn
<1>4. Stores(t, Vacant, MapOf(t))
  BY <1>1, <1>2, <1>3 DEF Stores
<1>5. MapOf(t) \in [KeysIn(t) -> V]
  BY <1>1, <1>2, <1>3
<1>6. ASSUME NEW m, Stores(t, Vacant, m)
      PROVE  m = MapOf(t)
  <2>1. DOMAIN m = KeysIn(t)
    BY <1>6 DEF Stores, KeysIn
  <2>2. \A k \in KeysIn(t) : m[k] = MapOf(t)[k]
    BY <1>1, <1>3, <1>6 DEF Stores
  <2> QED BY <1>2, <1>6, <2>1, <2>2 DEF Stores
<1> QED BY <1>1, <1>3, <1>4, <1>5, <1>6

\* As many keys as filled buckets.
LEMMA FilledCount ==
  ASSUME NEW V, NEW t, Linked(t, V)
  PROVE  /\ IsFiniteSet(Filled(t)) /\ Cardinality(Filled(t)) \in Nat
         /\ IsFiniteSet(KeysIn(t)) /\ Cardinality(KeysIn(t)) = Cardinality(Filled(t))
<1> DEFINE f == [i \in Filled(t) |-> t.cells[i].key]
<1>1. Filled(t) \subseteq Buckets(t) /\ Width(t) \in Nat \ {0}
  BY Cells, Widths DEF Linked
<1>2. IsFiniteSet(Buckets(t))
  BY <1>1, FS_Interval DEF Buckets
<1>3. IsFiniteSet(Filled(t)) /\ Cardinality(Filled(t)) \in Nat
  BY <1>1, <1>2, FS_Subset, FS_CardinalityType
<1>4. f \in Surjection(Filled(t), KeysIn(t))
  BY DEF Surjection, KeysIn
<1>5. f \in Injection(Filled(t), KeysIn(t))
  BY <1>4 DEF Injection, IsInjective, Surjection, Linked, KeysOnce
<1> HIDE DEF f
<1>6. IsFiniteSet(KeysIn(t)) /\ Cardinality(KeysIn(t)) = Cardinality(Filled(t))
  BY <1>3, <1>4, <1>5, FS_Surjection
<1> QED BY <1>3, <1>6

LEMMA Vacancy ==
  ASSUME NEW V, NEW t, Linked(t, V), Cardinality(Filled(t)) < Width(t)
  PROVE  \E v \in Buckets(t) : t.cells[v] = Vacant
<1>1. /\ DOMAIN t.cells = Buckets(t) /\ Width(t) \in Nat \ {0} /\ Filled(t) \subseteq Buckets(t)
  BY Cells, Widths DEF Linked
<1>2. Cardinality(Buckets(t)) = Width(t)
  <2>1. 0 \in Int /\ Width(t) - 1 \in Int /\ 0 <= Width(t) - 1 /\ (Width(t) - 1) - 0 + 1 = Width(t)
    BY <1>1
  <2>2. Cardinality(0..(Width(t) - 1)) = (Width(t) - 1) - 0 + 1
    BY <2>1, FS_Interval
  <2> QED BY <2>1, <2>2 DEF Buckets
<1>3. Filled(t) # Buckets(t)
  BY <1>1, <1>2
<1> QED BY <1>1, <1>3 DEF Filled

\* A sound table has a vacant bucket, where the longest search ends.
LEMMA SoundHasVacancy ==
  ASSUME NEW V, NEW t, Sound(t, V)
  PROVE  \E v \in Buckets(t) : t.cells[v] = Vacant
<1>1. Width(t) \in Nat \ {0} /\ t.size \in Nat
  BY Widths DEF Sound, Linked, Shape
<1>2. Cardinality(Filled(t)) < Width(t)
  BY <1>1 DEF Sound, Counted
<1> QED BY <1>2, Vacancy DEF Sound

\* A look-up succeeds for the keys that are stored, and returns their values.
LEMMA LooksUp ==
  ASSUME NEW V, NEW t, Sound(t, V), NEW k \in Keys
  PROVE  /\ Holds(t, k) <=> k \in KeysIn(t)
         /\ k \in KeysIn(t) => /\ ValueOf(t, k) = MapOf(t)[k] /\ ValueOf(t, k) \in V
                               /\ Find(t, k).at \in Filled(t)
                               /\ t.cells[Find(t, k).at].key = k
<1>1. CASE k \in KeysIn(t)
  <2>1. PICK i \in Filled(t) : t.cells[i].key = k
    BY <1>1 DEF KeysIn
  <2>2. /\ Find(t, k) = [at |-> i, dist |-> t.cells[i].dist, found |-> TRUE] /\ Holds(t, k)
    BY <2>1, SearchFinds DEF Sound
  <2>3. MapOf(t)[k] = ValueOf(t, k)
    BY <1>1 DEF MapOf
  <2>4. MapOf(t)[k] \in V
    BY <1>1, StoresMapOf DEF Sound
  <2> QED BY <1>1, <2>1, <2>2, <2>3, <2>4
<1>2. CASE k \notin KeysIn(t)
  <2>1. \A i \in Filled(t) : t.cells[i].key # k
    BY <1>2 DEF KeysIn
  <2>2. PICK v \in Buckets(t) : t.cells[v] = Vacant
    BY SoundHasVacancy
  <2>3. ~Holds(t, k)
    BY <2>1, <2>2, SearchFails DEF Sound
  <2> QED BY <1>2, <2>3
<1> QED BY <1>1, <1>2

-----------------------------------------------------------------------------
(* Placing, rehashing, inserting, assigning.                               *)
LEMMA PlacedAdds ==
  ASSUME NEW V, NEW u, Linked(u, V), NEW m, Stores(u, Vacant, m),
         NEW cell \in EntriesOf(V), cell.key \notin DOMAIN m,
         Cardinality(Filled(u)) < Width(u)
  PROVE  LET w == Placed(u, cell)
         IN /\ Linked(w, V) /\ Stores(w, Vacant, Updated(m, cell.key, cell.value))
            /\ w.count = u.count /\ w.size = u.size
<1> DEFINE k == cell.key
           x == cell.value
           e == [cell EXCEPT !.dist = 0]
           at == Home(u, k)
           hand == [table |-> u, at |-> at, entry |-> e]
           n == Updated(m, k, x)
<1>1. cell = [dist |-> cell.dist, key |-> k, value |-> x] /\ k \in Keys /\ x \in V
      /\ cell # Vacant
  BY DEF EntriesOf, Vacant
<1>2. e = [dist |-> 0, key |-> k, value |-> x]
  BY <1>1
<1>3. e.dist = 0 /\ e.key = k /\ e.value = x /\ e \in EntriesOf(V) /\ e # Vacant
  BY <1>1, <1>2 DEF EntriesOf, Vacant
<1>4. /\ u.count \in Nat /\ Width(u) \in Nat \ {0} /\ at \in Buckets(u)
      /\ \A i \in Buckets(u) : 0 <= u.cells[i].dist + 1
  <2>1. u.count \in Nat /\ \A i \in Buckets(u) : u.cells[i].dist = -1 \/ u.cells[i].dist \in Nat
    BY Cells DEF Linked
  <2> QED BY <1>1, <2>1, Widths
<1>5. PICK v \in Buckets(u) : u.cells[v] = Vacant
  BY Vacancy
<1> HIDE DEF at, e
<1>6. Along(u, at, 0) = at
  BY <1>4, Onwards DEF Buckets
<1>7. \A i \in Filled(u) : u.cells[i].key # k
  BY DEF Stores
<1>8. Fits(u, e, at)
  BY <1>3, <1>4, <1>6, <1>7 DEF Fits, at
<1>9. Stores(u, e, n)
  <2>1. DOMAIN n = DOMAIN m \cup {k} /\ n[k] = x /\ \A j \in DOMAIN m : j # k => n[j] = m[j]
    BY DEF Updated
  <2>2. n = [j \in DOMAIN n |-> n[j]]
    BY DEF Updated
  <2> HIDE DEF n
  <2>3. \A j \in DOMAIN n : \/ e.key = j
                            \/ \E i \in Filled(u) : u.cells[i].key = j
    BY <1>3, <2>1 DEF Stores
  <2>4. \A i \in Filled(u) : /\ u.cells[i].key \in DOMAIN n
                             /\ n[u.cells[i].key] = u.cells[i].value
    BY <1>7, <2>1 DEF Stores
  <2> QED BY <1>3, <2>1, <2>2, <2>3, <2>4 DEF Stores
<1>10. Ahead(u, at, v) < Width(u) /\ Ahead(u, at, v) \in Int
  BY <1>4, <1>5, Aheads DEF Buckets
<1>11. Carrying(hand, V, v, n)
  <2>1. hand.table = u /\ hand.at = at /\ hand.entry = e
    OBVIOUS
  <2>2. e.dist + Ahead(u, at, v) < Width(u)
    BY <1>3, <1>10
  <2> HIDE DEF hand, n
  <2> QED BY <1>3, <1>4, <1>5, <1>8, <1>9, <2>1, <2>2 DEF Carrying
<1>12. Placed(u, cell) = Carried(u, at, e, FALSE)
  BY <1>1 DEF Placed, at, e
<1>13. at \in Nat
  BY <1>4 DEF Buckets
<1> HIDE DEF n
<1>14. /\ Linked(Placed(u, cell), V) /\ Stores(Placed(u, cell), Vacant, n)
       /\ Placed(u, cell).count = u.count /\ Placed(u, cell).size = u.size
  <2>1. ASSUME NEW marks \in BOOLEAN
        PROVE  LET w == Carried(u, at, e, marks)
               IN /\ Linked(w, V) /\ Stores(w, Vacant, n)
                  /\ w.count = u.count /\ w.size = u.size
    BY <1>3, <1>11, <1>13, CarriedArrives
  <2>2. FALSE \in BOOLEAN
    OBVIOUS
  <2> QED BY <1>12, <2>1, <2>2, Zenon
<1> QED BY <1>14 DEF n

\* A new table is sound and holds nothing.
LEMMA NewTableEmpty ==
  ASSUME NEW V, NEW count \in Nat
  PROVE  LET t == NewTable(count)
         IN /\ Linked(t, V) /\ Filled(t) = {} /\ t.count = count /\ t.size = 0
            /\ KeysIn(t) = {} /\ Sound(t, V)
<1> DEFINE t == NewTable(count)
           last == IF count = 0 THEN 0 ELSE count - 1
           cells == [i \in 0..last |-> Vacant]
<1>1. t = [count |-> count, size |-> 0, grow |-> FALSE, cells |-> cells]
  BY DEF NewTable
<1> HIDE DEF cells, last, t
<1>2. t.count = count /\ t.size = 0 /\ t.grow = FALSE /\ t.cells = cells
  BY <1>1
<1>3. Width(t) = last + 1 /\ last \in Nat
  BY <1>2 DEF Width, last
<1>4. Buckets(t) = 0..last
  BY <1>3 DEF Buckets
<1>5. DOMAIN cells = 0..last /\ \A i \in 0..last : cells[i] = Vacant
  BY DEF cells
<1>6. Shape(t, V)
  <2>1. cells \in [0..last -> EntriesOf(V) \cup {Vacant}]
    BY DEF cells
  <2>2. t.grow \in BOOLEAN
    BY <1>2
  <2> QED BY <1>1, <1>2, <1>4, <2>1, <2>2 DEF Shape
<1>7. Filled(t) = {} /\ KeysIn(t) = {}
  BY <1>2, <1>5 DEF Filled, KeysIn
<1>8. Robin(t)
  <2> SUFFICES ASSUME NEW i \in Buckets(t)
               PROVE  t.cells[NextBucket(t, i)].dist <= t.cells[i].dist + 1
    BY DEF Robin
  <2>1. NextBucket(t, i) \in Buckets(t)
    BY <1>2, NextOnwards
  <2>2. t.cells[NextBucket(t, i)] = Vacant /\ t.cells[i] = Vacant
    BY <1>2, <1>4, <1>5, <2>1
  <2>3. Vacant.dist = -1
    BY DEF Vacant
  <2> QED BY <2>2, <2>3
<1>9. Linked(t, V)
  BY <1>6, <1>7, <1>8 DEF Linked, Located, KeysOnce
<1>10. Counted(t)
  BY <1>2, <1>3, <1>7, FS_EmptySet DEF Counted
<1> QED BY <1>2, <1>7, <1>9, <1>10 DEF t, Sound

\* A larger table holds what the smaller one did.
LEMMA RehashedHolds ==
  ASSUME NEW V, NEW t, Sound(t, V), NEW count \in Nat, Width(t) < count
  PROVE  LET u == Rehashed(t, count)
         IN Sound(u, V) /\ MapOf(u) = MapOf(t) /\ u.count = count /\ u.size = t.size
<1> DEFINE W == Width(t)
           first == NewTable(count)
           KeysUpTo(n) == {t.cells[i].key : i \in {j \in Filled(t) : j < n}}
           part(n) == [k \in KeysUpTo(n) |-> MapOf(t)[k]]
           Good(u, n) == /\ Linked(u, V) /\ u.count = count /\ u.size = 0
                         /\ Stores(u, Vacant, part(n))
           S == [n \in 0..W |-> {u \in TablesOf(V) : Good(u, n)}]
           F == [n \in 1..W |-> [u \in S[n-1] |-> Placed(u, t.cells[n-1])]]
           c == CHOOSE f : f = [n \in 0..W |->
                  IF n = 0 THEN first ELSE Placed(f[n-1], t.cells[n-1])]
<1>1. /\ Linked(t, V) /\ t.count \in Nat /\ W \in Nat \ {0} /\ t.size \in Nat
      /\ 2 * t.size <= W /\ Cardinality(Filled(t)) = t.size
      /\ Filled(t) \subseteq 0..(W - 1)
  BY Widths, Cells DEF Sound, Counted, Linked, Shape, Buckets
<1>2. first \in S[0]
  <2>1. Linked(first, V) /\ Filled(first) = {} /\ first.count = count /\ first.size = 0
    BY NewTableEmpty
  <2>2. first \in TablesOf(V)
    BY <2>1, ShapeIsMembership DEF Linked
  <2>3. {j \in Filled(t) : j < 0} = {}
    BY <1>1
  <2>4. DOMAIN part(0) = {}
    BY <2>3
  <2>5. part(0) = [k \in DOMAIN part(0) |-> part(0)[k]]
    OBVIOUS
  <2>6. Stores(first, Vacant, part(0))
    BY <2>1, <2>4, <2>5 DEF Stores
  <2>7. Good(first, 0)
    BY <2>1, <2>6
  <2> HIDE DEF Good, first, W
  <2> QED BY <1>1, <2>2, <2>7
<1>3. ASSUME NEW n \in 1..W, NEW u \in S[n-1]
      PROVE  Placed(u, t.cells[n-1]) \in S[n]
  <2> DEFINE cell == t.cells[n-1]
             new == Placed(u, cell)
  <2>1. Good(u, n - 1)
    <3>1. n - 1 \in 0..W
      BY <1>1
    <3> HIDE DEF Good, W
    <3> QED BY <3>1, <1>3
  <2>2. n - 1 \in Buckets(t) /\ n - 1 \in Int
    BY <1>1 DEF Buckets
  <2>3. u \in TablesOf(V)
    BY <2>1, ShapeIsMembership DEF Linked
  <2>4. CASE cell = Vacant
    <3>1. new = u
      BY <2>4 DEF Placed
    <3>2. n - 1 \notin Filled(t)
      BY <2>4 DEF Filled
    <3>3. {j \in Filled(t) : j < n} = {j \in Filled(t) : j < n - 1}
      BY <1>1, <3>2
    <3>4. part(n) = part(n - 1)
      BY <3>3
    <3>5. Good(new, n)
      BY <2>1, <3>1, <3>4
    <3> HIDE DEF Good, W, part, new
    <3> QED BY <2>3, <3>1, <3>5 DEF new
  <2>5. CASE cell # Vacant
    <3>1. n - 1 \in Filled(t) /\ cell \in EntriesOf(V)
      BY <1>1, <2>2, <2>5, Cells DEF Linked
    <3>2. cell.key \notin KeysUpTo(n - 1)
      <4> SUFFICES ASSUME NEW j \in Filled(t), j < n - 1, t.cells[j].key = cell.key
                   PROVE  FALSE
        OBVIOUS
      <4>1. j = n - 1
        BY <1>1, <3>1 DEF Linked, KeysOnce
      <4> QED BY <2>2, <4>1
    <3>3. /\ Stores(t, Vacant, MapOf(t)) /\ DOMAIN MapOf(t) = KeysIn(t)
      BY <1>1, StoresMapOf
    <3>4. MapOf(t)[cell.key] = cell.value
      BY <3>1, <3>3 DEF Stores
    <3>5. KeysUpTo(n) = KeysUpTo(n - 1) \cup {cell.key}
      <4>1. {j \in Filled(t) : j < n} = {j \in Filled(t) : j < n - 1} \cup {n - 1}
        BY <1>1, <2>2, <3>1
      <4> QED BY <4>1
    <3>6. part(n) = Updated(part(n - 1), cell.key, cell.value)
      <4>1. DOMAIN part(n - 1) = KeysUpTo(n - 1)
        OBVIOUS
      <4>2. \A k \in KeysUpTo(n) : MapOf(t)[k] =
              IF k = cell.key THEN cell.value ELSE part(n - 1)[k]
        BY <3>4, <3>5
      <4> HIDE DEF KeysUpTo, cell
      <4> QED BY <3>5, <4>1, <4>2 DEF Updated
    <3>7. Cardinality(Filled(u)) < Width(u)
      <4>1. DOMAIN part(n - 1) = KeysIn(u)
        <5> HIDE DEF part
        <5>1. part(n - 1) = MapOf(u)
          BY <2>1, StoresMapOf
        <5> QED BY <5>1 DEF MapOf
      <4>2. KeysIn(u) \subseteq KeysIn(t)
        <5>1. KeysIn(u) = KeysUpTo(n - 1)
          BY <4>1
        <5> QED BY <5>1 DEF KeysIn
      <4>3. Cardinality(KeysIn(u)) <= Cardinality(KeysIn(t))
        BY <1>1, <4>2, FilledCount, FS_Subset
      <4>4. /\ Cardinality(Filled(u)) = Cardinality(KeysIn(u))
            /\ Cardinality(KeysIn(t)) = t.size /\ Cardinality(Filled(u)) \in Nat
        BY <1>1, <2>1, FilledCount
      <4>5. Width(u) = count
        BY <1>1, <2>1 DEF Width
      <4> HIDE DEF W
      <4> QED BY <1>1, <4>3, <4>4, <4>5 DEF W
    <3>8. cell.key \notin DOMAIN part(n - 1)
      BY <3>2
    <3>9. /\ Linked(new, V) /\ new.count = u.count /\ new.size = u.size
          /\ Stores(new, Vacant, Updated(part(n - 1), cell.key, cell.value))
      <4> HIDE DEF part, cell
      <4> QED BY <2>1, <3>1, <3>7, <3>8, PlacedAdds
    <3>10. Good(new, n)
      BY <2>1, <3>6, <3>9
    <3>11. new \in TablesOf(V)
      BY <3>9, ShapeIsMembership DEF Linked
    <3> HIDE DEF Good, W, part, new
    <3> QED BY <3>10, <3>11 DEF new
  <2> QED BY <2>4, <2>5
<1> HIDE DEF S, first
<1>4. c = [n \in 0..W |-> IF n = 0 THEN first ELSE Placed(c[n-1], t.cells[n-1])]
  <2>1. \A n \in 1..W : \A u \in S[n-1] : F[n][u] = Placed(u, t.cells[n-1])
    OBVIOUS
  <2>2. \A n \in 1..W : \A u \in S[n-1] : F[n][u] \in S[n]
    BY <1>3, <2>1
  <2> HIDE DEF F, W
  <2>3. PICK g : Iterated(g, W, first, F) /\ \A n \in 0..W : g[n] \in S[n]
    <3>1. W \in Nat
      BY <1>1
    <3> QED BY <1>2, <2>2, <3>1, Iterates
  <2>4. ASSUME NEW n \in 0..W
        PROVE  (IF n = 0 THEN first ELSE F[n][g[n-1]])
                 = (IF n = 0 THEN first ELSE Placed(g[n-1], t.cells[n-1]))
    <3>1. n # 0 => n \in 1..W /\ n - 1 \in 0..W
      BY <1>1
    <3> QED BY <2>1, <2>3, <3>1
  <2>5. g = [n \in 0..W |-> IF n = 0 THEN first ELSE Placed(g[n-1], t.cells[n-1])]
    BY <2>3, <2>4 DEF Iterated
  <2> QED BY <2>5
<1>5. Rehashed(t, count) = [c[W] EXCEPT !.size = t.size]
  BY DEF Rehashed, first
<1> HIDE DEF c, W
<1>6. \A n \in 0..W : c[n] = IF n = 0 THEN first ELSE Placed(c[n-1], t.cells[n-1])
  BY <1>4
<1>7. c[W] \in S[W]
  <2> DEFINE T == {n \in 0..W : c[n] \in S[n]}
  <2>1. 0 \in T
    BY <1>1, <1>2, <1>6
  <2>2. ASSUME NEW n \in 1..W, n - 1 \in T
        PROVE  n \in T
    BY <1>3, <1>6, <2>2
  <2> HIDE DEF T
  <2>3. W \in T
    BY <1>1, <2>1, <2>2, UpTo
  <2> QED BY <2>3 DEF T
<1>8. Good(c[W], W)
  <2> HIDE DEF Good
  <2> QED BY <1>1, <1>7 DEF S
<1>9. part(W) = MapOf(t)
  <2>1. {j \in Filled(t) : j < W} = Filled(t)
    BY <1>1
  <2> QED BY <2>1 DEF MapOf, KeysIn
<1> DEFINE last == c[W]
           u == [last EXCEPT !.size = t.size]
<1> HIDE DEF last
<1>10. Linked(last, V) /\ last.count = count /\ Stores(last, Vacant, MapOf(t))
  BY <1>8, <1>9 DEF last
<1>11. Shape(u, V) /\ u.count = count /\ u.cells = last.cells /\ u.size = t.size
  BY <1>1, <1>10, Recounted DEF Linked
<1> HIDE DEF u
<1>12. Linked(u, V) /\ Stores(u, Vacant, MapOf(t))
  BY <1>10, <1>11, SameCells
<1>13. MapOf(u) = MapOf(t)
  BY <1>12, StoresMapOf
<1>14. Counted(u)
  <2>1. KeysIn(u) = KeysIn(t)
    BY <1>13 DEF MapOf
  <2>2. Cardinality(Filled(u)) = t.size
    BY <1>1, <1>12, <2>1, FilledCount
  <2>3. Width(u) = count
    BY <1>1, <1>11 DEF Width, W
  <2> QED BY <1>1, <1>11, <2>2, <2>3 DEF Counted, W
<1> QED BY <1>5, <1>11, <1>12, <1>13, <1>14 DEF Sound, u, last

\* An entry in hand counts as stored.
LEMMA UpdatedStores ==
  ASSUME NEW V, NEW t, Linked(t, V), NEW m, Stores(t, Vacant, m),
         NEW e \in EntriesOf(V), e.key \notin DOMAIN m
  PROVE  Stores(t, e, Updated(m, e.key, e.value))
<1> DEFINE k == e.key
           x == e.value
           n == Updated(m, k, x)
<1>1. e # Vacant
  BY DEF EntriesOf, Vacant
<1>2. \A i \in Filled(t) : t.cells[i].key # k
  BY DEF Stores
<1>3. DOMAIN n = DOMAIN m \cup {k} /\ n[k] = x /\ \A j \in DOMAIN m : j # k => n[j] = m[j]
  BY DEF Updated
<1>4. n = [j \in DOMAIN n |-> n[j]]
  BY DEF Updated
<1> HIDE DEF n
<1>5. \A j \in DOMAIN n : \/ k = j
                          \/ \E i \in Filled(t) : t.cells[i].key = j
  BY <1>3 DEF Stores
<1>6. \A i \in Filled(t) : /\ t.cells[i].key \in DOMAIN n
                           /\ n[t.cells[i].key] = t.cells[i].value
  BY <1>2, <1>3 DEF Stores
<1>7. Stores(t, e, n)
  BY <1>1, <1>3, <1>4, <1>5, <1>6 DEF Stores
<1> QED BY <1>7 DEF n

\* A key that a search does not find fits where the search stopped.
LEMMA NewKeyFits ==
  ASSUME NEW V, NEW t, Linked(t, V), NEW v \in Buckets(t), t.cells[v] = Vacant,
         NEW k \in Keys, k \notin KeysIn(t), NEW x \in V
  PROVE  LET stop == Find(t, k)
             e == [dist |-> stop.dist, key |-> k, value |-> x]
         IN /\ e \in EntriesOf(V) /\ stop.at \in Buckets(t) /\ Fits(t, e, stop.at)
            /\ e.dist > t.cells[stop.at].dist
            /\ e.dist + Ahead(t, stop.at, v) < Width(t)
<1> DEFINE h == Home(t, k)
           stop == Find(t, k)
           d == stop.dist
           at == stop.at
           e == [dist |-> d, key |-> k, value |-> x]
<1>1. \A i \in Filled(t) : t.cells[i].key # k
  BY DEF KeysIn
<1>2. /\ d \in 0..Ahead(t, h, v) /\ at = Along(t, h, d) /\ d > t.cells[at].dist
      /\ \A m \in 0..(d - 1) : t.cells[Along(t, h, m)].dist >= m
  BY <1>1, SearchFails
<1>3. /\ t.count \in Nat /\ Width(t) \in Nat \ {0} /\ h \in Buckets(t)
      /\ \A i \in Buckets(t) : t.cells[i].dist = -1 \/ t.cells[i].dist \in Nat
  <2>1. t.count \in Nat /\ \A i \in Buckets(t) : t.cells[i].dist = -1 \/ t.cells[i].dist \in Nat
    BY Cells DEF Linked
  <2> QED BY <2>1, Widths
<1>4. Ahead(t, h, v) \in Buckets(t) /\ Along(t, h, Ahead(t, h, v)) = v
  BY <1>3, Aheads
<1> HIDE DEF d, at, h
<1>5. d \in Nat /\ d \in Buckets(t) /\ d < Width(t) /\ d \in 0..Width(t)
  BY <1>2, <1>3, <1>4 DEF Buckets
<1>6. at \in Buckets(t)
  BY <1>2, <1>3, <1>5, Onwards
<1>7. e \in EntriesOf(V) /\ e.key = k /\ e.dist = d
  BY <1>5 DEF EntriesOf
<1>8. ASSUME NEW j \in Buckets(t), NextBucket(t, j) = at
      PROVE  d <= t.cells[j].dist + 1
  <2>1. CASE d = 0
    <3>1. t.cells[j].dist = -1 \/ t.cells[j].dist \in Nat
      BY <1>3
    <3> QED BY <2>1, <3>1
  <2>2. CASE d # 0
    <3>1. d - 1 \in Buckets(t) /\ d - 1 \in 0..Width(t) /\ d - 1 \in 0..(d - 1) /\ (d - 1) + 1 = d
      BY <1>3, <1>5, <2>2 DEF Buckets
    <3>2. Along(t, h, d - 1) \in Buckets(t) /\ NextBucket(t, Along(t, h, d - 1)) = at
      BY <1>2, <1>3, <3>1, Onwards, NextOnwards
    <3>3. j = Along(t, h, d - 1)
      BY <1>3, <1>8, <3>2, OneBefore
    <3>4. t.cells[j].dist >= d - 1
      BY <1>2, <3>1, <3>3
    <3>5. t.cells[j].dist \in Int
      <4>1. t.cells[j].dist = -1 \/ t.cells[j].dist \in Nat
        BY <1>3
      <4> QED BY <4>1
    <3> QED BY <1>5, <3>4, <3>5
  <2> QED BY <2>1, <2>2
<1>9. Fits(t, e, at)
  BY <1>1, <1>2, <1>5, <1>7, <1>8 DEF Fits, h
<1>10. d + Ahead(t, at, v) < Width(t)
  <2> DEFINE A == Ahead(t, h, v)
             B == Ahead(t, at, v)
  <2>1. A = IF h <= v THEN v - h ELSE (v - h) + Width(t)
    BY <1>3, Aheads
  <2>2. B = IF at <= v THEN v - at ELSE (v - at) + Width(t)
    BY <1>3, <1>6, Aheads
  <2>3. at = IF h + d < Width(t) THEN h + d ELSE (h + d) - Width(t)
    BY <1>2, <1>3, <1>5, Onwards
  <2>4. d <= A
    BY <1>2, <1>5
  <2>5. /\ h \in Int /\ 0 <= h /\ h < Width(t) /\ v \in Int /\ 0 <= v /\ v < Width(t)
        /\ at \in Int /\ d \in Int /\ 0 <= d /\ Width(t) \in Int
    BY <1>3, <1>5, <1>6 DEF Buckets
  <2> DEFINE w == Width(t)
  <2> HIDE DEF A, B, w
  <2>6. /\ A = IF h <= v THEN v - h ELSE (v - h) + w
        /\ B = IF at <= v THEN v - at ELSE (v - at) + w
        /\ at = IF h + d < w THEN h + d ELSE (h + d) - w
        /\ h < w /\ v < w /\ w \in Int
    BY <2>1, <2>2, <2>3, <2>5 DEF w
  <2>7. d + B < w
    BY <2>4, <2>5, <2>6
  <2> QED BY <2>7 DEF B, w
<1> QED BY <1>2, <1>6, <1>7, <1>9, <1>10 DEF d, at

\* An insertion makes room when there is little, and adds the key.
LEMMA InsertedAdds ==
  ASSUME NEW V, NEW t, Sound(t, V), NEW k \in Keys, k \notin KeysIn(t), NEW x \in V
  PROVE  LET u == Inserted(t, k, x)
         IN Sound(u, V) /\ MapOf(u) = Updated(MapOf(t), k, x)
<1> DEFINE room == IF Crowded(t) THEN Rehashed(t, 2 * Width(t)) ELSE t
           stop == Find(room, k)
           e == [dist |-> stop.dist, key |-> k, value |-> x]
           at == stop.at
           more == [room EXCEPT !.size = @ + 1]
           put == Put(more, at, e)
           next == NextBucket(put, at)
           rest == Displaced(room.cells[at])
           m == MapOf(t)
           n == Updated(m, k, x)
           u == Inserted(t, k, x)
<1>1. /\ Width(t) \in Nat \ {0} /\ t.size \in Nat /\ 2 * t.size <= Width(t)
      /\ t.count \in Nat /\ Shape(t, V)
  BY Widths DEF Sound, Counted, Linked, Shape
<1>2. /\ Sound(room, V) /\ MapOf(room) = m /\ room.size = t.size
      /\ 2 * (t.size + 1) <= Width(room)
  <2>1. CASE Crowded(t)
    <3>1. 2 * Width(t) \in Nat /\ Width(t) < 2 * Width(t) /\ 2 * Width(t) # 0
      BY <1>1
    <3>2. room = Rehashed(t, 2 * Width(t))
      BY <2>1
    <3> HIDE DEF room
    <3>3. Sound(room, V) /\ MapOf(room) = m /\ room.size = t.size /\ room.count = 2 * Width(t)
      BY <3>1, <3>2, RehashedHolds
    <3>4. Width(room) = 2 * Width(t)
      BY <3>1, <3>3 DEF Width
    <3>5. 2 * (t.size + 1) <= 2 * Width(t)
      BY <1>1
    <3> QED BY <3>3, <3>4, <3>5
  <2>2. CASE ~Crowded(t)
    <3>1. room = t
      BY <2>2
    <3>2. ~(t.size >= t.count \div 2)
      BY <2>2 DEF Crowded
    <3>3. t.count \div 2 \in Int /\ 2 * (t.count \div 2) <= t.count
      BY <1>1
    <3>4. t.count # 0
      BY <1>1, <3>2, <3>3
    <3>5. Width(t) = t.count
      BY <3>4 DEF Width
    <3> DEFINE half == t.count \div 2
    <3>6. half \in Int /\ 2 * half <= t.count /\ ~(t.size >= half)
      BY <3>2, <3>3
    <3> HIDE DEF half
    <3>7. 2 * (t.size + 1) <= t.count
      BY <1>1, <3>6
    <3> QED BY <3>1, <3>5, <3>7
  <2> QED BY <2>1, <2>2
<1> HIDE DEF room
<1>3. PICK v \in Buckets(room) : room.cells[v] = Vacant
  BY <1>2, SoundHasVacancy
<1>4. /\ Shape(more, V) /\ more.count = room.count /\ more.cells = room.cells
      /\ more.size = t.size + 1
  <2>1. more = [room EXCEPT !.size = room.size + 1]
    OBVIOUS
  <2>2. room.size + 1 \in Nat /\ Shape(room, V)
    BY <1>1, <1>2 DEF Sound, Linked
  <2> QED BY <1>2, <2>1, <2>2, Recounted
<1> HIDE DEF more
<1>5. k \notin KeysIn(room) /\ DOMAIN m = KeysIn(t)
  <2>1. DOMAIN MapOf(room) = KeysIn(room) /\ DOMAIN MapOf(t) = KeysIn(t)
    BY DEF MapOf
  <2> QED BY <1>2, <2>1
<1>6. Linked(more, V) /\ Stores(more, Vacant, m) /\ Filled(more) = Filled(room)
  BY <1>2, <1>4, SameCells, StoresMapOf DEF Sound
<1>7. /\ e \in EntriesOf(V) /\ at \in Buckets(room) /\ Fits(room, e, at)
      /\ e.dist > room.cells[at].dist /\ e.dist + Ahead(room, at, v) < Width(room)
      /\ e.key = k /\ e.value = x
  BY <1>2, <1>3, <1>5, NewKeyFits DEF Sound
<1> HIDE DEF e, at
<1>8. /\ Width(more) = Width(room) /\ Buckets(more) = Buckets(room)
      /\ \A i : NextBucket(more, i) = NextBucket(room, i)
      /\ \A i, d : Along(more, i, d) = Along(room, i, d) /\ Ahead(more, i, d) = Ahead(room, i, d)
      /\ \A j : Home(more, j) = Home(room, j)
  BY <1>4, SameWidth
<1>9. Fits(more, e, at)
  BY <1>4, <1>6, <1>7, <1>8 DEF Fits
<1>10. Stores(more, e, n)
  <2>1. e.key \notin DOMAIN m
    BY <1>5, <1>7
  <2> HIDE DEF m
  <2> QED BY <1>6, <1>7, <2>1, UpdatedStores
<1> HIDE DEF n
<1> DEFINE hand == [table |-> more, at |-> at, entry |-> e]
<1>11. e # Vacant
  BY <1>7 DEF EntriesOf, Vacant
<1>12. Carrying(hand, V, v, n)
  <2>1. hand.table = more /\ hand.at = at /\ hand.entry = e
    OBVIOUS
  <2> HIDE DEF hand
  <2> QED BY <1>3, <1>4, <1>6, <1>7, <1>8, <1>9, <1>10, <2>1 DEF Carrying
<1>13. /\ Shape(put, V) /\ put.count = more.count /\ put.size = more.size
       /\ put.cells = [more.cells EXCEPT ![at] = e]
  <2>1. Shape(more, V) /\ at \in Buckets(more) /\ e \in EntriesOf(V) \cup {Vacant}
    BY <1>4, <1>7, <1>8
  <2> HIDE DEF next, put, n, m, u, stop, rest
  <2> QED BY <2>1, Replaced DEF put
<1> DEFINE calm == FALSE
           after == Settle(hand, calm)
<1>14. after = [table |-> put, at |-> next, entry |-> rest]
  <2>1. hand.table = more /\ hand.at = at /\ hand.entry = e
    OBVIOUS
  <2>2. put.count = more.count
    BY <1>13
  <2>3. NextBucket(more, at) = next
    BY <2>2, SameWidth
  <2> HIDE DEF hand, put, next
  <2> QED BY <1>4, <1>7, <1>11, <2>1, <2>3 DEF Settle, put
<1>15. /\ Carrying(after, V, v, n)
       /\ after.table.count = more.count /\ after.table.size = more.size
  <2>1. calm \in BOOLEAN
    OBVIOUS
  <2>2. hand.table = more
    OBVIOUS
  <2> HIDE DEF calm, hand
  <2> QED BY <1>12, <2>1, <2>2, SettleKeeps
<1> HIDE DEF after, calm, put, rest, hand
<1>16. u = Carried(put, next, rest, TRUE)
  BY DEF Inserted, put, rest, at, e, more, room
<1>17. /\ put.count = more.count /\ put.size = more.size
       /\ Carrying([table |-> put, at |-> next, entry |-> rest], V, v, n)
  BY <1>14, <1>15
<1>18. rest \in EntriesOf(V) \cup {Vacant}
  BY <1>17 DEF Carrying
<1>19. next \in Nat
  BY <1>4, <1>7, <1>8, <1>17, NextOnwards, SameWidth, Widths DEF Buckets, Shape
<1> HIDE DEF next, u
<1>20. Linked(u, V) /\ Stores(u, Vacant, n) /\ u.count = put.count /\ u.size = put.size
  <2>1. ASSUME NEW marks \in BOOLEAN
        PROVE  LET w == Carried(put, next, rest, marks)
               IN /\ Linked(w, V) /\ Stores(w, Vacant, n)
                  /\ w.count = put.count /\ w.size = put.size
    BY <1>17, <1>18, <1>19, CarriedArrives
  <2>2. TRUE \in BOOLEAN
    OBVIOUS
  <2> QED BY <1>16, <2>1, <2>2, Zenon
<1>21. MapOf(u) = n
  BY <1>20, StoresMapOf
<1>22. Counted(u)
  <2>1. KeysIn(u) = KeysIn(t) \cup {k}
    <3>1. DOMAIN n = KeysIn(t) \cup {k}
      BY <1>5 DEF n, Updated
    <3>2. DOMAIN MapOf(u) = KeysIn(u)
      BY DEF MapOf
    <3> QED BY <1>21, <3>1, <3>2
  <2>2. /\ IsFiniteSet(KeysIn(t)) /\ Cardinality(KeysIn(t)) = t.size
        /\ Cardinality(KeysIn(u)) = Cardinality(Filled(u))
    BY <1>20, FilledCount DEF Sound, Counted
  <2>3. Cardinality(KeysIn(u)) = t.size + 1
    BY <2>1, <2>2, FS_AddElement
  <2>4. Width(u) = Width(room)
    BY <1>4, <1>17, <1>20, SameWidth
  <2> QED BY <1>2, <1>4, <1>17, <1>20, <2>2, <2>3, <2>4 DEF Counted
<1> QED BY <1>20, <1>21, <1>22 DEF Sound, u, n

\* map[key] = value changes the dictionary at the key alone, found or inserted.
THEOREM AssignedUpdates ==
  ASSUME NEW V, NEW t, Sound(t, V), NEW k \in Keys, NEW x \in V
  PROVE  LET u == Assigned(t, k, x)
         IN Sound(u, V) /\ MapOf(u) = Updated(MapOf(t), k, x)
<1>1. CASE k \notin KeysIn(t)
  <2>1. ~Find(t, k).found
    BY <1>1, LooksUp DEF Holds
  <2>2. Assigned(t, k, x) = Inserted(t, k, x)
    BY <2>1 DEF Assigned
  <2> QED BY <1>1, <2>2, InsertedAdds
<1>2. CASE k \in KeysIn(t)
  <2> DEFINE i == Find(t, k).at
             e == [t.cells[i] EXCEPT !.value = x]
             u == Put(t, i, e)
             m == MapOf(t)
             n == Updated(m, k, x)
  <2>1. Find(t, k).found /\ i \in Filled(t) /\ t.cells[i].key = k
    BY <1>2, LooksUp DEF Holds
  <2>2. Assigned(t, k, x) = u
    BY <2>1 DEF Assigned
  <2>3. /\ Linked(t, V) /\ Shape(t, V) /\ i \in Buckets(t) /\ t.cells[i] \in EntriesOf(V)
        /\ DOMAIN t.cells = Buckets(t) /\ Filled(t) \subseteq Buckets(t)
    BY <2>1, Cells DEF Sound, Linked
  <2> HIDE DEF i
  <2>4. e \in EntriesOf(V) /\ e.key = k /\ e.value = x /\ e.dist = t.cells[i].dist /\ e # Vacant
    <3>1. e = [dist |-> t.cells[i].dist, key |-> t.cells[i].key, value |-> x]
      BY <2>3 DEF EntriesOf
    <3>2. t.cells[i].dist \in Nat /\ t.cells[i].key \in Keys
      BY <2>3 DEF EntriesOf
    <3> HIDE DEF e
    <3>3. e \in EntriesOf(V) /\ e.dist # -1
      BY <3>1, <3>2 DEF EntriesOf
    <3> QED BY <2>1, <3>1, <3>3 DEF Vacant
  <2> HIDE DEF e
  <2>5. Shape(u, V) /\ u.count = t.count /\ u.size = t.size /\ u.cells = [t.cells EXCEPT ![i] = e]
    BY <2>3, <2>4, Replaced
  <2> HIDE DEF u
  <2>6. /\ u.cells[i] = e /\ DOMAIN u.cells = Buckets(t)
        /\ \A j \in Buckets(t) : j # i => u.cells[j] = t.cells[j]
    BY <2>3, <2>5
  <2>7. Filled(u) = Filled(t)
    BY <2>1, <2>3, <2>4, <2>6 DEF Filled
  <2>8. /\ Width(u) = Width(t) /\ Buckets(u) = Buckets(t)
        /\ \A j : NextBucket(u, j) = NextBucket(t, j)
        /\ \A j, d : Along(u, j, d) = Along(t, j, d)
        /\ \A j : Home(u, j) = Home(t, j)
    BY <2>5, SameWidth
  <2>9. /\ \A j \in Filled(t) : u.cells[j].key = t.cells[j].key
        /\ \A j \in Buckets(t) : u.cells[j].dist = t.cells[j].dist
    BY <2>1, <2>3, <2>4, <2>6
  <2>10. Located(u) /\ KeysOnce(u)
    BY <2>3, <2>7, <2>8, <2>9 DEF Linked, Located, KeysOnce
  <2>11. Robin(u)
    <3>1. t.count \in Nat
      BY <2>3 DEF Shape
    <3>2. \A j \in Buckets(t) : NextBucket(t, j) \in Buckets(t)
      BY <3>1, NextOnwards
    <3> QED BY <2>3, <2>8, <2>9, <3>2 DEF Linked, Robin
  <2>12. Linked(u, V)
    BY <2>5, <2>10, <2>11 DEF Linked
  <2>13. Stores(u, Vacant, n)
    <3>1. Stores(t, Vacant, m) /\ DOMAIN m = KeysIn(t)
      BY <2>3, StoresMapOf
    <3>2. DOMAIN n = KeysIn(t) /\ n[k] = x /\ \A j \in DOMAIN m : j # k => n[j] = m[j]
      BY <1>2, <3>1 DEF Updated
    <3>3. n = [j \in DOMAIN n |-> n[j]]
      BY DEF Updated
    <3> HIDE DEF n, m
    <3>4. ASSUME NEW j \in Filled(u)
          PROVE  u.cells[j].key \in DOMAIN n /\ n[u.cells[j].key] = u.cells[j].value
      <4>1. CASE j = i
        BY <1>2, <2>4, <2>6, <3>2, <4>1
      <4>2. CASE j # i
        <5>1. t.cells[j].key # k
          BY <2>1, <2>3, <2>7, <4>2 DEF Linked, KeysOnce
        <5> QED BY <2>3, <2>6, <2>7, <3>1, <3>2, <4>2, <5>1 DEF Stores
      <4> QED BY <4>1, <4>2
    <3>5. \A j \in DOMAIN n : \E l \in Filled(u) : u.cells[l].key = j
      BY <2>7, <2>9, <3>2 DEF KeysIn
    <3> QED BY <3>3, <3>4, <3>5 DEF Stores
  <2>14. MapOf(u) = n
    BY <2>12, <2>13, StoresMapOf
  <2>15. Counted(u)
    BY <2>5, <2>7, <2>8 DEF Counted, Sound
  <2> QED BY <2>2, <2>12, <2>14, <2>15 DEF Sound
<1> QED BY <1>1, <1>2

-----------------------------------------------------------------------------
(* Erasing.                                                                *)

\* A dictionary without a key.
Without(m, k) == [j \in DOMAIN m \ {k} |-> m[j]]

LEMMA NextFrom ==
  ASSUME NEW t, t.count \in Nat, NEW i \in Buckets(t), NEW j \in Buckets(t)
  PROVE  Ahead(t, i, NextBucket(t, j)) =
           IF Ahead(t, i, j) + 1 < Width(t) THEN Ahead(t, i, j) + 1 ELSE 0
<1> DEFINE w == Width(t)
           n == NextBucket(t, j)
           A == Ahead(t, i, j)
           B == Ahead(t, i, n)
<1>1. w \in Nat \ {0}
  BY Widths
<1>2. n \in Buckets(t) /\ n = IF j + 1 < w THEN j + 1 ELSE 0
  BY NextOnwards
<1>3. A = IF i <= j THEN j - i ELSE (j - i) + w
  BY Aheads
<1>4. B = IF i <= n THEN n - i ELSE (n - i) + w
  BY <1>2, Aheads
<1>5. i \in Int /\ 0 <= i /\ i <= w - 1 /\ j \in Int /\ 0 <= j /\ j <= w - 1
  BY <1>1 DEF Buckets
<1> HIDE DEF w, n, A, B
<1>6. B = IF A + 1 < w THEN A + 1 ELSE 0
  <2>1. CASE j + 1 < w
    <3>1. n = j + 1
      BY <1>2, <2>1
    <3> QED BY <1>1, <1>3, <1>4, <1>5, <2>1, <3>1
  <2>2. CASE ~(j + 1 < w)
    <3>1. n = 0 /\ j = w - 1
      BY <1>1, <1>2, <1>5, <2>2
    <3> QED BY <1>1, <1>3, <1>4, <1>5, <3>1
  <2> QED BY <2>1, <2>2
<1> QED BY <1>6 DEF w, n, A, B

\* An entry removed leaves a hole, which moves to the end of the run of
\* displaced entries behind it.
LEMMA ShiftsBack ==
  ASSUME NEW V, NEW t, Linked(t, V), NEW hole \in Filled(t),
         \E v \in Buckets(t) : t.cells[v] = Vacant,
         NEW s, Shape(s, V), s.count = t.count, s.cells = [t.cells EXCEPT ![hole] = Vacant]
  PROVE  LET u == ShiftedBack(s, hole)
         IN /\ Linked(u, V) /\ u.count = t.count /\ u.size = s.size
            /\ Stores(u, Vacant, Without(MapOf(t), t.cells[hole].key))
<1> DEFINE W == Width(t)
           displaced(n) == s.cells[Along(s, hole, n)].dist > 0
           ends(n) == ~displaced(n + 1) /\ \A l \in 1..n : displaced(l)
           run == CHOOSE n \in 0..Width(s) : ends(n)
           a(i) == Ahead(t, hole, i)
           next(i) == NextBucket(t, i)
           closer(i) == [s.cells[NextBucket(s, i)] EXCEPT !.dist = @ - 1]
           ahead(i) == (i - hole) % Width(s)
           cells == [i \in DOMAIN s.cells |->
                       CASE ahead(i) < run -> closer(i)
                         [] ahead(i) = run -> Vacant
                         [] OTHER          -> s.cells[i]]
           u == ShiftedBack(s, hole)
<1>1. /\ t.count \in Nat /\ W \in Nat \ {0} /\ DOMAIN t.cells = Buckets(t)
      /\ Filled(t) \subseteq Buckets(t) /\ hole \in Buckets(t)
      /\ \A i \in Buckets(t) : t.cells[i].dist = -1 \/ t.cells[i].dist \in Nat
  <2>1. t.count \in Nat /\ \A i \in Buckets(t) : t.cells[i].dist = -1 \/ t.cells[i].dist \in Nat
    BY Cells DEF Linked
  <2> QED BY <2>1, Cells, Widths DEF Linked
<1>2. /\ Width(s) = W /\ Buckets(s) = Buckets(t)
      /\ \A i : NextBucket(s, i) = NextBucket(t, i)
      /\ \A i, d : Along(s, i, d) = Along(t, i, d) /\ Ahead(s, i, d) = Ahead(t, i, d)
  BY SameWidth
<1>3. /\ s.cells[hole] = Vacant /\ DOMAIN s.cells = Buckets(t)
      /\ \A i \in Buckets(t) : i # hole => s.cells[i] = t.cells[i]
  BY <1>1
<1>4. Vacant.dist = -1
  BY DEF Vacant
<1>5. \A i \in Buckets(t) :
        a(i) \in 0..(W - 1) /\ Along(t, hole, a(i)) = i /\ (a(i) = 0 <=> i = hole)
  <2> TAKE i \in Buckets(t)
  <2>1. /\ a(i) \in Buckets(t) /\ Along(t, hole, a(i)) = i
        /\ a(i) = IF hole <= i THEN i - hole ELSE (i - hole) + W
    BY <1>1, Aheads
  <2>2. a(i) = 0 <=> i = hole
    <3>1. hole \in Int /\ i \in Int /\ 0 <= i /\ hole <= W - 1
      BY <1>1 DEF Buckets
    <3> HIDE DEF a, W
    <3> QED BY <1>1, <2>1, <3>1
  <2> QED BY <2>1, <2>2 DEF Buckets
<1>6. PICK v \in Buckets(t) : t.cells[v] = Vacant
  OBVIOUS
<1>7. v # hole /\ a(v) \in 1..(W - 1) /\ ~displaced(a(v))
  <2>1. v # hole
    BY <1>6 DEF Filled
  <2>2. a(v) \in 1..(W - 1)
    <3> HIDE DEF a
    <3> QED BY <1>1, <1>5, <2>1
  <2>3. Along(s, hole, a(v)) = v /\ s.cells[v].dist = -1
    BY <1>2, <1>3, <1>4, <1>5, <1>6, <2>1
  <2> QED BY <2>1, <2>2, <2>3
<1> HIDE DEF W, a
<1>8. \E n \in 0..Width(s) : ends(n)
  <2> DEFINE T == {n \in 0..(W - 1) : ~displaced(n + 1)}
  <2>1. a(v) - 1 \in T
    <3>1. a(v) - 1 \in 0..(W - 1) /\ (a(v) - 1) + 1 = a(v)
      BY <1>1, <1>7
    <3> HIDE DEF displaced
    <3> QED BY <1>7, <3>1
  <2>2. T \in SUBSET Nat /\ T # {}
    BY <2>1
  <2>3. PICK n \in T : \A l \in T : n <= l
    <3> HIDE DEF T
    <3> QED BY <2>2, LeastNatural
  <2>4. ASSUME NEW l \in 1..n
        PROVE  displaced(l)
    <3> SUFFICES ASSUME ~displaced(l) PROVE FALSE
      OBVIOUS
    <3>1. l - 1 \in 0..(W - 1) /\ (l - 1) + 1 = l /\ ~(n <= l - 1)
      BY <1>1
    <3> HIDE DEF displaced
    <3>2. l - 1 \in T
      BY <3>1
    <3> QED BY <2>3, <3>1, <3>2
  <2>5. n \in 0..Width(s) /\ ends(n)
    <3> HIDE DEF displaced
    <3> QED BY <1>1, <1>2, <2>4
  <2> QED BY <2>5
<1>9. run \in 0..Width(s) /\ ends(run)
  <2> HIDE DEF ends
  <2> QED BY <1>8
<1>10. u = [s EXCEPT !.cells = cells]
  BY DEF ShiftedBack
<1> HIDE DEF run
<1>11. run \in Nat /\ run < a(v) /\ run + 1 \in 1..(W - 1)
  <2>1. run \in Nat /\ a(v) \in Nat
    BY <1>1, <1>2, <1>7, <1>9
  <2>2. ~(a(v) \in 1..run)
    <3> HIDE DEF displaced
    <3> QED BY <1>7, <1>9
  <2> QED BY <1>1, <1>7, <2>1, <2>2
<1>12. \A i \in Buckets(t) : ahead(i) = a(i)
  BY <1>2 DEF Ahead, a
<1> HIDE DEF ahead, u
\* The run is of displaced entries, and it ends with one that is not.
<1>13. ASSUME NEW i \in Buckets(t)
       PROVE  /\ a(i) \in 1..run => /\ s.cells[i] = t.cells[i] /\ i \in Filled(t)
                                    /\ t.cells[i] \in EntriesOf(V) /\ t.cells[i].dist \in Nat \ {0}
              /\ a(i) = run + 1 => t.cells[i].dist <= 0 /\ i # hole
  <2>1. a(i) # 0 => i # hole /\ s.cells[i] = t.cells[i]
    BY <1>3, <1>5
  <2>2. Along(s, hole, a(i)) = i
    BY <1>2, <1>5
  <2>3. a(i) \in 1..run => s.cells[i].dist > 0
    BY <1>9, <2>2
  <2>4. a(i) = run + 1 => ~(s.cells[i].dist > 0)
    BY <1>9, <2>2
  <2>5. ASSUME a(i) \in 1..run
        PROVE  /\ s.cells[i] = t.cells[i] /\ i \in Filled(t)
               /\ t.cells[i] \in EntriesOf(V) /\ t.cells[i].dist \in Nat \ {0}
    <3>1. a(i) # 0
      BY <1>11, <2>5
    <3>2. t.cells[i].dist > 0 /\ s.cells[i] = t.cells[i]
      BY <2>1, <2>3, <2>5, <3>1
    <3>3. i \in Filled(t) /\ t.cells[i] \in EntriesOf(V) /\ t.cells[i].dist \in Nat
      BY <3>2, Cells DEF Linked
    <3> QED BY <3>2, <3>3
  <2>6. ASSUME a(i) = run + 1
        PROVE  t.cells[i].dist <= 0 /\ i # hole
    <3>1. a(i) # 0
      BY <1>11, <2>6
    <3>2. ~(t.cells[i].dist > 0) /\ i # hole
      BY <2>1, <2>4, <2>6, <3>1
    <3>3. t.cells[i].dist = -1 \/ t.cells[i].dist \in Nat
      BY <1>1
    <3> QED BY <3>2, <3>3
  <2> QED BY <2>5, <2>6
<1> HIDE DEF displaced, ends
<1>14. \A i \in Buckets(t) :
         /\ next(i) \in Buckets(t)
         /\ a(next(i)) = IF a(i) + 1 < W THEN a(i) + 1 ELSE 0
         /\ a(i) < run => a(next(i)) = a(i) + 1 /\ a(next(i)) \in 1..run
  <2> TAKE i \in Buckets(t)
  <2>1. next(i) \in Buckets(t) /\ a(next(i)) = IF a(i) + 1 < W THEN a(i) + 1 ELSE 0
    BY <1>1, NextOnwards, NextFrom DEF a, W
  <2>2. a(i) \in 0..(W - 1)
    BY <1>5
  <2> HIDE DEF next
  <2> QED BY <1>1, <1>11, <2>1, <2>2
\* Bucket by bucket.
<1>15. ASSUME NEW i \in Buckets(t)
       PROVE  /\ a(i) < run =>
                   /\ cells[i] \in EntriesOf(V) /\ cells[i] # Vacant
                   /\ cells[i].dist = t.cells[next(i)].dist - 1
                   /\ cells[i].key = t.cells[next(i)].key
                   /\ cells[i].value = t.cells[next(i)].value
              /\ a(i) = run => cells[i] = Vacant
              /\ a(i) > run => cells[i] = t.cells[i] /\ i # hole
  <2>1. a(i) \in Int
    BY <1>5
  <2>2. ahead(i) = a(i) /\ i \in DOMAIN s.cells
    BY <1>3, <1>12
  <2>3. ASSUME a(i) < run
        PROVE  /\ cells[i] \in EntriesOf(V) /\ cells[i] # Vacant
               /\ cells[i].dist = t.cells[next(i)].dist - 1
               /\ cells[i].key = t.cells[next(i)].key
               /\ cells[i].value = t.cells[next(i)].value
    <3>1. cells[i] = closer(i)
      <4>1. ahead(i) < run /\ ahead(i) # run
        BY <1>11, <2>1, <2>2, <2>3
      <4> HIDE DEF closer
      <4> QED BY <2>2, <4>1
    <3> DEFINE e == t.cells[next(i)]
    <3>2. NextBucket(s, i) = next(i) /\ s.cells[next(i)] = e
          /\ e \in EntriesOf(V) /\ e.dist \in Nat \ {0}
      BY <1>2, <1>13, <1>14, <2>3
    <3> HIDE DEF e, next
    <3>3. closer(i) = [dist |-> e.dist - 1, key |-> e.key, value |-> e.value]
      BY <3>2 DEF EntriesOf
    <3>4. e.dist - 1 \in Nat /\ e.key \in Keys /\ e.value \in V
      BY <3>2 DEF EntriesOf
    <3> HIDE DEF cells, closer
    <3>5. /\ cells[i] \in EntriesOf(V)
          /\ cells[i].dist = e.dist - 1 /\ cells[i].key = e.key /\ cells[i].value = e.value
      BY <3>1, <3>3, <3>4 DEF EntriesOf
    <3>6. cells[i] # Vacant
      BY <1>4, <3>4, <3>5
    <3> QED BY <3>5, <3>6 DEF e
  <2>4. ASSUME a(i) = run
        PROVE  cells[i] = Vacant
    <3>1. ~(a(i) < run)
      BY <1>11, <2>4
    <3> HIDE DEF closer
    <3> QED BY <2>2, <2>4, <3>1
  <2>5. ASSUME a(i) > run
        PROVE  cells[i] = t.cells[i] /\ i # hole
    <3>1. ~(a(i) < run) /\ a(i) # run /\ a(i) # 0
      BY <1>11, <2>1, <2>5
    <3>2. cells[i] = s.cells[i]
      <4> HIDE DEF closer
      <4> QED BY <2>2, <3>1
    <3>3. i # hole
      BY <1>5, <3>1
    <3> QED BY <1>3, <3>2, <3>3
  <2> QED BY <2>3, <2>4, <2>5
<1>16. DOMAIN cells = Buckets(t) /\ cells = [i \in Buckets(t) |-> cells[i]]
  BY <1>3
<1> HIDE DEF cells
<1>17. \A i \in Buckets(t) : cells[i] \in EntriesOf(V) \cup {Vacant}
  <2> TAKE i \in Buckets(t)
  <2>1. a(i) < run \/ a(i) = run \/ a(i) > run
    BY <1>5, <1>11
  <2>2. t.cells[i] \in EntriesOf(V) \cup {Vacant}
    BY DEF Linked, Shape
  <2> QED BY <1>15, <2>1, <2>2
<1>18. Shape(u, V) /\ u.count = t.count /\ u.size = s.size /\ u.cells = cells
  <2>1. /\ s = [count |-> s.count, size |-> s.size, grow |-> s.grow, cells |-> s.cells]
        /\ s.count \in Nat /\ s.size \in Nat /\ s.grow \in BOOLEAN
    BY DEF Shape
  <2>2. u = [count |-> s.count, size |-> s.size, grow |-> s.grow, cells |-> cells]
    BY <1>10, <2>1
  <2>3. u.count = s.count /\ u.size = s.size /\ u.grow = s.grow /\ u.cells = cells
    BY <2>2
  <2>4. Buckets(u) = Buckets(t)
    BY <2>3, SameWidth
  <2>5. cells \in [Buckets(t) -> EntriesOf(V) \cup {Vacant}]
    BY <1>16, <1>17
  <2> QED BY <2>1, <2>2, <2>3, <2>4, <2>5 DEF Shape
<1>19. /\ Width(u) = W /\ Buckets(u) = Buckets(t)
       /\ \A i : NextBucket(u, i) = NextBucket(t, i)
       /\ \A i, d : Along(u, i, d) = Along(t, i, d)
       /\ \A k : Home(u, k) = Home(t, k)
  BY <1>18, SameWidth DEF W
\* Where the entry of a bucket comes from.
<1> DEFINE from(i) == IF a(i) < run THEN next(i) ELSE i
<1>20. ASSUME NEW i \in Filled(u)
       PROVE  /\ i \in Buckets(t) /\ a(i) # run
              /\ from(i) \in Filled(t) /\ from(i) # hole
              /\ cells[i].key = t.cells[from(i)].key /\ cells[i].value = t.cells[from(i)].value
  <2>1. i \in Buckets(t) /\ cells[i] # Vacant
    BY <1>16, <1>18 DEF Filled
  <2>2. a(i) # run /\ (a(i) < run \/ a(i) > run)
    BY <1>5, <1>11, <1>15, <2>1
  <2>3. CASE a(i) < run
    <3>1. next(i) \in Buckets(t) /\ a(next(i)) \in 1..run
      BY <1>14, <2>1, <2>3
    <3>2. next(i) \in Filled(t) /\ next(i) # hole
      <4>1. a(next(i)) # 0
        BY <1>11, <3>1
      <4> QED BY <1>5, <1>13, <3>1, <4>1
    <3> QED BY <1>15, <2>1, <2>2, <2>3, <3>2
  <2>4. CASE a(i) > run
    <3>1. ~(a(i) < run)
      BY <1>5, <1>11, <2>1, <2>4
    <3>2. cells[i] = t.cells[i] /\ i # hole
      BY <1>15, <2>1, <2>4
    <3>3. i \in Filled(t)
      BY <1>1, <2>1, <3>2 DEF Filled
    <3> QED BY <2>1, <2>2, <3>1, <3>2, <3>3
  <2> QED BY <2>2, <2>3, <2>4
<1>21. Located(u)
  <2> SUFFICES ASSUME NEW i \in Filled(u)
               PROVE  /\ cells[i].dist < W
                      /\ i = Along(t, Home(t, cells[i].key), cells[i].dist)
    BY <1>18, <1>19 DEF Located
  <2>1. i \in Buckets(t) /\ a(i) # run
    BY <1>20
  <2>2. a(i) < run \/ a(i) > run
    BY <1>5, <1>11, <2>1
  <2>3. CASE a(i) < run
    <3> DEFINE j == next(i)
               d == t.cells[j].dist
               h == Home(t, t.cells[j].key)
    <3>1. /\ j \in Filled(t) /\ t.cells[j] \in EntriesOf(V) /\ d \in Nat \ {0}
      BY <1>13, <1>14, <2>1, <2>3
    <3>2. d < W /\ j = Along(t, h, d) /\ t.cells[j].key \in Keys
      BY <3>1, Cells DEF Linked, Located, W
    <3>3. h \in Buckets(t)
      BY <1>1, <3>2, Widths
    <3>4. cells[i].dist = d - 1 /\ cells[i].key = t.cells[j].key
      BY <1>15, <2>1, <2>3
    <3> HIDE DEF d, h
    <3>5. d - 1 \in Buckets(t) /\ (d - 1) + 1 = d /\ d - 1 \in 0..W
      BY <1>1, <3>1, <3>2 DEF Buckets, W
    <3>6. Along(t, h, d - 1) \in Buckets(t) /\ NextBucket(t, Along(t, h, d - 1)) = j
      <4>1. NextBucket(t, Along(t, h, d - 1)) = Along(t, h, (d - 1) + 1)
        BY <1>1, <3>3, <3>5, NextOnwards
      <4>2. Along(t, h, d - 1) \in Buckets(t)
        BY <1>1, <3>3, <3>5, Onwards DEF W
      <4> QED BY <3>2, <3>5, <4>1, <4>2
    <3>7. i = Along(t, h, d - 1)
      BY <1>1, <2>1, <3>6, OneBefore
    <3> QED BY <1>1, <3>1, <3>2, <3>4, <3>7 DEF h
  <2>4. CASE a(i) > run
    <3>1. cells[i] = t.cells[i] /\ i \in Filled(t)
      <4>1. ~(a(i) < run)
        BY <1>5, <1>11, <2>1, <2>4
      <4> QED BY <1>15, <1>20, <2>1, <2>4, <4>1
    <3> QED BY <3>1 DEF Linked, Located, W
  <2> QED BY <2>2, <2>3, <2>4
<1>22. KeysOnce(u)
  <2> SUFFICES ASSUME NEW i \in Filled(u), NEW j \in Filled(u), cells[i].key = cells[j].key
               PROVE  i = j
    BY <1>18 DEF KeysOnce
  <2>1. /\ i \in Buckets(t) /\ j \in Buckets(t) /\ a(i) # run /\ a(j) # run
        /\ from(i) \in Filled(t) /\ from(j) \in Filled(t)
        /\ t.cells[from(i)].key = t.cells[from(j)].key
    BY <1>20, Zenon
  <2>2. from(i) = from(j)
    <3> HIDE DEF from
    <3> QED BY <2>1 DEF Linked, KeysOnce
  <2>3. CASE a(i) < run /\ a(j) < run
    BY <1>1, <2>1, <2>2, <2>3, OneBefore
  <2>4. CASE ~(a(i) < run) /\ ~(a(j) < run)
    BY <2>2, <2>4
  <2>5. CASE a(i) < run /\ ~(a(j) < run)
    <3>1. j = next(i)
      BY <2>2, <2>5
    <3>2. a(j) <= run
      BY <1>11, <1>14, <2>1, <2>5, <3>1
    <3> QED BY <1>5, <1>11, <2>1, <2>5, <3>2
  <2>6. CASE ~(a(i) < run) /\ a(j) < run
    <3>1. i = next(j)
      BY <2>2, <2>6
    <3>2. a(i) <= run
      BY <1>11, <1>14, <2>1, <2>6, <3>1
    <3> QED BY <1>5, <1>11, <2>1, <2>6, <3>2
  <2> QED BY <2>3, <2>4, <2>5, <2>6
<1>23. Robin(u)
  <2> SUFFICES ASSUME NEW i \in Buckets(t)
               PROVE  cells[next(i)].dist <= cells[i].dist + 1
    BY <1>18, <1>19 DEF Robin
  <2> DEFINE n == next(i)
             x == t.cells[n].dist
             y == t.cells[next(n)].dist
             z == t.cells[i].dist
  <2>1. n \in Buckets(t) /\ next(n) \in Buckets(t) /\ a(i) \in 0..(W - 1) /\ a(n) \in 0..(W - 1)
    BY <1>5, <1>14
  <2>2. a(n) = IF a(i) + 1 < W THEN a(i) + 1 ELSE 0
    BY <1>14
  <2>3. x <= z + 1 /\ y <= x + 1
    BY <2>1 DEF Linked, Robin
  <2>4. x \in Int /\ y \in Int /\ z \in Int /\ x >= -1 /\ y >= -1 /\ z >= -1
    <3>1. \A j \in Buckets(t) : t.cells[j].dist \in Int /\ t.cells[j].dist >= -1
      <4> TAKE j \in Buckets(t)
      <4>1. t.cells[j].dist = -1 \/ t.cells[j].dist \in Nat
        BY <1>1
      <4> QED BY <4>1
    <3> QED BY <2>1, <3>1
  <2>5. /\ a(i) < run => cells[i].dist = x - 1 /\ x >= 1
        /\ a(i) = run => cells[i].dist = -1
        /\ a(i) > run => cells[i].dist = z
    BY <1>4, <1>13, <1>14, <1>15, <2>1
  <2>6. /\ a(n) < run => cells[n].dist = y - 1
        /\ a(n) = run => cells[n].dist = -1
        /\ a(n) > run => cells[n].dist = x
        /\ a(n) = run + 1 => x <= 0
    BY <1>4, <1>13, <1>15, <2>1
  <2> DEFINE p == cells[i].dist
             q == cells[n].dist
             b == a(i)
             c == a(n)
  <2>7. /\ b \in 0..(W - 1) /\ c = IF b + 1 < W THEN b + 1 ELSE 0
        /\ b < run => p = x - 1 /\ x >= 1
        /\ b = run => p = -1
        /\ b > run => p = z
        /\ c < run => q = y - 1
        /\ c = run => q = -1
        /\ c > run => q = x
        /\ c = run + 1 => x <= 0
    BY <2>1, <2>2, <2>5, <2>6
  <2> HIDE DEF n, x, y, z, p, q, b, c
  <2>8. q <= p + 1
    <3>1. CASE b < run
      <4>1. c = b + 1 /\ p = x - 1 /\ x >= 1
        BY <1>1, <1>11, <2>7, <3>1
      <4>2. CASE c < run
        BY <2>3, <2>4, <2>7, <4>1, <4>2
      <4>3. CASE ~(c < run)
        <5>1. c = run
          BY <1>11, <2>7, <3>1, <4>1, <4>3
        <5> QED BY <2>4, <2>7, <4>1, <5>1
      <4> QED BY <4>2, <4>3
    <3>2. CASE b = run
      <4>1. c = run + 1 /\ p = -1
        BY <1>1, <1>11, <2>7, <3>2
      <4>2. q = x /\ x <= 0
        BY <1>11, <2>7, <4>1
      <4> QED BY <2>4, <4>1, <4>2
    <3>3. CASE b > run
      <4>1. p = z
        BY <2>7, <3>3
      <4>2. CASE b + 1 < W
        <5>1. c = b + 1 /\ c > run
          BY <1>1, <1>11, <2>7, <3>3, <4>2
        <5> QED BY <2>3, <2>4, <2>7, <4>1, <5>1
      <4>3. CASE ~(b + 1 < W)
        <5>1. c = 0
          BY <2>7, <4>3
        <5>2. CASE run = 0
          BY <2>4, <2>7, <4>1, <5>1, <5>2
        <5>3. CASE run # 0
          <6>1. q = y - 1
            BY <1>11, <2>7, <5>1, <5>3
          <6> QED BY <2>3, <2>4, <4>1, <6>1
        <5> QED BY <5>2, <5>3
      <4> QED BY <4>2, <4>3
    <3> QED BY <1>11, <2>7, <3>1, <3>2, <3>3
  <2> QED BY <2>8 DEF p, q, n
<1>24. Linked(u, V)
  BY <1>18, <1>21, <1>22, <1>23 DEF Linked
<1> DEFINE gone == t.cells[hole].key
           m == MapOf(t)
           rest == Without(m, gone)
<1>25. Stores(u, Vacant, rest)
  <2>1. Stores(t, Vacant, m) /\ DOMAIN m = KeysIn(t)
    BY StoresMapOf
  <2>2. DOMAIN rest = DOMAIN m \ {gone} /\ \A k \in DOMAIN rest : rest[k] = m[k]
    BY DEF Without
  <2>3. rest = [k \in DOMAIN rest |-> rest[k]]
    BY DEF Without
  <2> HIDE DEF rest, m
  <2>4. ASSUME NEW i \in Filled(u)
        PROVE  cells[i].key \in DOMAIN rest /\ rest[cells[i].key] = cells[i].value
    <3> DEFINE j == from(i)
    <3>1. /\ j \in Filled(t) /\ j # hole
          /\ cells[i].key = t.cells[j].key /\ cells[i].value = t.cells[j].value
      BY <1>20
    <3> HIDE DEF j
    <3>2. t.cells[j].key # gone
      BY <3>1 DEF Linked, KeysOnce
    <3> QED BY <2>1, <2>2, <3>1, <3>2 DEF Stores
  <2>5. ASSUME NEW k \in DOMAIN rest
        PROVE  \E i \in Filled(u) : cells[i].key = k
    <3>1. PICK j \in Filled(t) : t.cells[j].key = k
      BY <2>1, <2>2 DEF KeysIn
    <3>2. j # hole /\ j \in Buckets(t) /\ a(j) \in 1..(W - 1)
      <4>1. j # hole /\ j \in Buckets(t)
        BY <1>1, <2>2, <3>1
      <4>2. a(j) # 0 /\ a(j) \in 0..(W - 1)
        BY <1>5, <4>1
      <4> QED BY <1>1, <4>1, <4>2
    <3>3. CASE a(j) > run
      <4>1. cells[j] = t.cells[j]
        BY <1>15, <3>2, <3>3
      <4>2. j \in Filled(u)
        BY <1>16, <1>18, <3>1, <3>2, <4>1 DEF Filled
      <4> QED BY <3>1, <4>1, <4>2
    <3>4. CASE ~(a(j) > run)
      <4> DEFINE d == a(j) - 1
                 i == Along(t, hole, d)
      <4>1. a(j) \in Buckets(t) /\ d \in Buckets(t) /\ d \in 0..W /\ d + 1 = a(j) /\ d < run
        <5>1. Buckets(t) = 0..(W - 1) /\ W \in Nat \ {0}
          BY <1>1 DEF Buckets, W
        <5>2. a(j) \in 1..(W - 1) /\ d \in 0..(W - 1) /\ d \in 0..W /\ d + 1 = a(j)
          BY <3>2, <5>1
        <5>3. d < run
          BY <1>11, <3>4, <5>2
        <5> QED BY <3>2, <5>1, <5>2, <5>3
      <4>2. i \in Buckets(t)
        BY <1>1, <4>1, Onwards DEF W
      <4>3. a(i) = d
        <5> HIDE DEF d
        <5> QED BY <1>1, <4>1, AheadIs DEF a
      <4>4. next(i) = j
        <5> HIDE DEF d
        <5>1. next(i) = Along(t, hole, d + 1)
          BY <1>1, <4>1, NextOnwards
        <5> QED BY <1>5, <3>2, <4>1, <5>1
      <4> HIDE DEF d, i
      <4>5. cells[i].key = k /\ cells[i] # Vacant
        BY <1>15, <3>1, <4>1, <4>2, <4>3, <4>4
      <4>6. i \in Filled(u)
        BY <1>16, <1>18, <4>2, <4>5 DEF Filled
      <4> QED BY <4>5, <4>6
    <3> QED BY <3>3, <3>4
  <2>6. u.cells = cells
    BY <1>18
  <2> QED BY <2>3, <2>4, <2>5, <2>6 DEF Stores
<1> QED BY <1>18, <1>24, <1>25 DEF u

\* erase(key) takes the key alone from the dictionary: the entries shifted back
\* stay where a search finds them.
THEOREM ErasedRemoves ==
  ASSUME NEW V, NEW t, Sound(t, V), NEW k \in Keys
  PROVE  LET u == Erased(t, k)
         IN Sound(u, V) /\ MapOf(u) = Without(MapOf(t), k)
<1>1. DOMAIN MapOf(t) = KeysIn(t) /\ MapOf(t) = [j \in KeysIn(t) |-> MapOf(t)[j]]
  BY DEF MapOf
<1>2. CASE k \notin KeysIn(t)
  <2>1. ~Find(t, k).found
    BY <1>2, LooksUp DEF Holds
  <2>2. Erased(t, k) = t
    BY <2>1 DEF Erased
  <2>3. Without(MapOf(t), k) = MapOf(t)
    <3>1. KeysIn(t) \ {k} = KeysIn(t)
      BY <1>2
    <3> QED BY <1>1, <3>1 DEF Without
  <2> QED BY <2>2, <2>3
<1>3. CASE k \in KeysIn(t)
  <2> DEFINE hole == Find(t, k).at
             fewer == [t EXCEPT !.size = @ - 1]
             s == Put(fewer, hole, Vacant)
             u == ShiftedBack(s, hole)
  <2>1. Find(t, k).found /\ hole \in Filled(t) /\ t.cells[hole].key = k
    BY <1>3, LooksUp DEF Holds
  <2>2. Erased(t, k) = u
    BY <2>1 DEF Erased
  <2>3. /\ Linked(t, V) /\ Shape(t, V) /\ hole \in Buckets(t) /\ t.size \in Nat
        /\ t.size = Cardinality(Filled(t)) /\ 2 * t.size <= Width(t) /\ Width(t) \in Nat
    BY <2>1, Cells, Widths DEF Sound, Linked, Shape, Counted
  <2>4. IsFiniteSet(KeysIn(t)) /\ Cardinality(KeysIn(t)) = t.size
    BY <2>3, FilledCount
  <2>5. t.size - 1 \in Nat
    <3>1. t.size # 0
      BY <1>3, <2>4, FS_EmptySet
    <3> QED BY <2>3, <3>1
  <2> HIDE DEF hole
  <2>6. /\ Shape(fewer, V) /\ fewer.count = t.count /\ fewer.cells = t.cells
        /\ fewer.size = t.size - 1
    <3>1. fewer = [t EXCEPT !.size = t.size - 1]
      OBVIOUS
    <3> QED BY <2>3, <2>5, <3>1, Recounted
  <2> HIDE DEF fewer
  <2>7. hole \in Buckets(fewer) /\ Vacant \in EntriesOf(V) \cup {Vacant}
    BY <2>3, <2>6, SameWidth
  <2>8. /\ Shape(s, V) /\ s.count = fewer.count /\ s.size = fewer.size
        /\ s.cells = [fewer.cells EXCEPT ![hole] = Vacant]
    <3> HIDE DEF u
    <3> QED BY <2>6, <2>7, Replaced
  <2> HIDE DEF s
  <2>9. \E v \in Buckets(t) : t.cells[v] = Vacant
    BY SoundHasVacancy
  <2>10. /\ Linked(u, V) /\ u.count = t.count /\ u.size = s.size
         /\ Stores(u, Vacant, Without(MapOf(t), k))
    <3>1. s.count = t.count /\ s.cells = [t.cells EXCEPT ![hole] = Vacant]
      BY <2>6, <2>8
    <3> QED BY <2>1, <2>3, <2>8, <2>9, <3>1, ShiftsBack
  <2> HIDE DEF u
  <2>11. MapOf(u) = Without(MapOf(t), k)
    BY <2>10, StoresMapOf
  <2>12. Counted(u)
    <3>1. KeysIn(u) = KeysIn(t) \ {k}
      <4>1. DOMAIN MapOf(u) = KeysIn(u)
        BY DEF MapOf
      <4> QED BY <1>1, <2>11, <4>1 DEF Without
    <3>2. Cardinality(KeysIn(u)) = t.size - 1
      BY <1>3, <2>4, <3>1, FS_RemoveElement
    <3>3. Cardinality(Filled(u)) = t.size - 1
      BY <2>10, <3>2, FilledCount
    <3>4. Width(u) = Width(t)
      BY <2>10, SameWidth
    <3> QED BY <2>3, <2>5, <2>6, <2>8, <2>10, <3>3, <3>4 DEF Counted
  <2> QED BY <2>2, <2>10, <2>11, <2>12 DEF Sound
<1> QED BY <1>2, <1>3

-----------------------------------------------------------------------------
(* reserve                                                                 *)
LEMMA RoundedUpType ==
  ASSUME NEW n \in Nat
  PROVE  RoundedUp(n) \in Nat
<1> DEFINE c == CHOOSE f : f = [k \in 0..n |-> IF k = 0 THEN 1 ELSE Doubled(f[k-1], n)]
           S == [k \in 0..n |-> Nat]
           F == [k \in 1..n |-> [p \in Nat |-> Doubled(p, n)]]
<1>1. RoundedUp(n) = c[n]
  BY DEF RoundedUp
<1>2. \A p \in Nat : Doubled(p, n) \in Nat
  BY DEF Doubled
<1>3. \A k \in 1..n : \A p \in S[k-1] : F[k][p] = Doubled(p, n) /\ F[k][p] \in S[k]
  BY <1>2
<1>4. 1 \in S[0]
  OBVIOUS
<1>5. \A k \in 0..n : S[k] = Nat
  OBVIOUS
<1> HIDE DEF S, F
<1>6. PICK g : Iterated(g, n, 1, F) /\ \A k \in 0..n : g[k] \in S[k]
  BY <1>3, <1>4, Iterates
<1>7. ASSUME NEW k \in 0..n
      PROVE  (IF k = 0 THEN 1 ELSE F[k][g[k-1]]) = (IF k = 0 THEN 1 ELSE Doubled(g[k-1], n))
  <2>1. k # 0 => k \in 1..n /\ k - 1 \in 0..n
    OBVIOUS
  <2> QED BY <1>3, <1>6, <2>1
<1>8. g = [k \in 0..n |-> IF k = 0 THEN 1 ELSE Doubled(g[k-1], n)]
  BY <1>6, <1>7 DEF Iterated
<1>9. c = [k \in 0..n |-> IF k = 0 THEN 1 ELSE Doubled(c[k-1], n)]
  BY <1>8
<1> HIDE DEF c
<1>10. \A k \in 0..n : c[k] = IF k = 0 THEN 1 ELSE Doubled(c[k-1], n)
  BY <1>9
<1> DEFINE T == {k \in 0..n : c[k] \in Nat}
<1>11. 0 \in T
  BY <1>10
<1>12. ASSUME NEW k \in 1..n, k - 1 \in T PROVE k \in T
  BY <1>2, <1>10, <1>12
<1>13. n \in T
  <2> HIDE DEF T
  <2> QED BY <1>11, <1>12, UpTo
<1> QED BY <1>1, <1>13

LEMMA ReservedSound ==
  ASSUME NEW V, NEW n \in Nat
  PROVE  Sound(Reserved(n), V) /\ KeysIn(Reserved(n)) = {}
<1> DEFINE count == IF n = 0 THEN 0 ELSE RoundedUp(2 * n)
<1>1. count \in Nat
  BY RoundedUpType
<1>2. Reserved(n) = NewTable(count)
  BY DEF Reserved
<1> HIDE DEF count
<1> QED BY <1>1, <1>2, NewTableEmpty
=============================================================================
