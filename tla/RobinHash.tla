----------------------------- MODULE RobinHash -----------------------------
(***************************************************************************)
(* The open-addressing hash map that holds the voxels (tessil's            *)
(* robin_map): a power of two of buckets, probed linearly; an entry takes  *)
(* the bucket of one that is nearer to its home and carries that one on;   *)
(* erasing shifts the entries that follow back by one.                     *)
(*                                                                         *)
(* The operators are pure: a table in, a table out.  Exceptions at the     *)
(* maximum size and the shrinking that a minimum load factor of zero       *)
(* disables are left out.                                                  *)
(***************************************************************************)
EXTENDS Integers

CONSTANTS Hash,      \* the hash of every key
          DistLimit  \* DIST_FROM_IDEAL_BUCKET_LIMIT

Keys == DOMAIN Hash

ASSUME HashAssumption == Keys \subseteq Int /\ Hash \in [Keys -> Nat] /\ DistLimit \in Nat

\* EMPTY_MARKER_DIST_FROM_IDEAL_BUCKET: nearer to home than any entry.
Vacant == [dist |-> -1]

\* A table of no buckets looks at one static bucket, which is never filled.
NewTable(count) ==
  [count |-> count, size |-> 0, grow |-> FALSE,
   cells |-> [i \in 0..(IF count = 0 THEN 0 ELSE count - 1) |-> Vacant]]

Width(t) == IF t.count = 0 THEN 1 ELSE t.count
Filled(t) == {i \in DOMAIN t.cells : t.cells[i] # Vacant}

Along(t, i, d) == (i + d) % Width(t)
NextBucket(t, i) == Along(t, i, 1)
Home(t, key) == Hash[key] % Width(t)

\* A key that was in the table would have taken this bucket.
PastHome(d, cell) == d > cell.dist

\* Does the search for a key end d buckets from its home?
Stops(t, key, d) ==
  LET cell == t.cells[Along(t, Home(t, key), d)]
  IN PastHome(d, cell) \/ cell.key = key

\* The first bucket where it does, and whether the key is in it.
Find(t, key) ==
  LET d == CHOOSE n \in 0..Width(t) :
             Stops(t, key, n) /\ \A m \in 0..(n-1) : ~Stops(t, key, m)
      at == Along(t, Home(t, key), d)
  IN [at |-> at, dist |-> d, found |-> ~PastHome(d, t.cells[at])]

Holds(t, key) == Find(t, key).found
ValueOf(t, key) == t.cells[Find(t, key).at].value

Displaced(cell) == IF cell = Vacant THEN Vacant ELSE [cell EXCEPT !.dist = @ + 1]

Put(t, i, cell) == [t EXCEPT !.cells[i] = cell]

\* An entry in hand at a bucket takes it or goes on, or leaves it with the one
\* that was there.  A swap far from home asks for a larger table, if marks are
\* made at all.
Settle(hand, marks) ==
  LET t == hand.table
      cell == t.cells[hand.at]
      takes == hand.entry.dist > cell.dist
      far == marks /\ cell # Vacant /\ hand.entry.dist >= DistLimit
  IN IF hand.entry = Vacant THEN hand
     ELSE [table |-> IF takes THEN Put(IF far THEN [t EXCEPT !.grow = TRUE] ELSE t,
                                       hand.at, hand.entry) ELSE t,
           at    |-> NextBucket(t, hand.at),
           entry |-> Displaced(IF takes THEN cell ELSE hand.entry)]

\* Once round the table every entry has found its bucket.
Carried(t, i, entry, marks) ==
  LET after[n \in 0..Width(t)] ==
        IF n = 0 THEN [table |-> t, at |-> i, entry |-> entry]
        ELSE Settle(after[n-1], marks)
  IN after[Width(t)].table

Placed(t, cell) ==
  IF cell = Vacant THEN t
  ELSE Carried(t, Home(t, cell.key), [cell EXCEPT !.dist = 0], FALSE)

\* rehash_impl: every entry is placed anew, in the order of the old buckets.
Rehashed(t, count) ==
  LET after[n \in 0..Width(t)] ==
        IF n = 0 THEN NewTable(count) ELSE Placed(after[n-1], t.cells[n-1])
  IN [after[Width(t)] EXCEPT !.size = t.size]

Crowded(t) == t.grow \/ t.size >= t.count \div 2

\* insert_impl for a key that is not in the table.
Inserted(t, key, value) ==
  LET room == IF Crowded(t) THEN Rehashed(t, 2 * Width(t)) ELSE t
      stop == Find(room, key)
      entry == [dist |-> stop.dist, key |-> key, value |-> value]
      put == Put([room EXCEPT !.size = @ + 1], stop.at, entry)
  IN Carried(put, NextBucket(put, stop.at), Displaced(room.cells[stop.at]), TRUE)

\* map[key] = value
Assigned(t, key, value) ==
  LET stop == Find(t, key)
  IN IF stop.found THEN Put(t, stop.at, [t.cells[stop.at] EXCEPT !.value = value])
     ELSE Inserted(t, key, value)

\* erase_from_bucket: the run of displaced entries moves one bucket back.
ShiftedBack(t, hole) ==
  LET displaced(n) == t.cells[Along(t, hole, n)].dist > 0
      run == CHOOSE n \in 0..Width(t) :
               ~displaced(n + 1) /\ \A m \in 1..n : displaced(m)
      ahead(i) == (i - hole) % Width(t)
  IN [t EXCEPT !.cells = [i \in DOMAIN t.cells |->
        CASE ahead(i) < run -> [t.cells[NextBucket(t, i)] EXCEPT !.dist = @ - 1]
          [] ahead(i) = run -> Vacant
          [] OTHER          -> t.cells[i]]]

\* Slip: the hole stays, and hides the entries displaced past it.
ErasedInPlace(t, key) ==
  LET stop == Find(t, key)
  IN IF ~stop.found THEN t
     ELSE Put([t EXCEPT !.size = @ - 1], stop.at, Vacant)

Erased(t, key) ==
  LET stop == Find(t, key)
  IN IF ~stop.found THEN t
     ELSE ShiftedBack(Put([t EXCEPT !.size = @ - 1], stop.at, Vacant), stop.at)

\* reserve on a table just made; the count is rounded up to a power of two.
Doubled(power, n) == IF power >= n THEN power ELSE 2 * power
RoundedUp(n) ==
  LET power[k \in 0..n] == IF k = 0 THEN 1 ELSE Doubled(power[k-1], n) IN power[n]
Reserved(n) == NewTable(IF n = 0 THEN 0 ELSE RoundedUp(2 * n))
=============================================================================
