------------------------- MODULE LidarDriver_proofs -------------------------
(***************************************************************************)
(* Proofs about the way of a packet through the driver: into the frames    *)
(* (PacketAssembly) and through the rings (LidarPackets), for every number *)
(* of LiDARs and packets, every clock, every ring size and every width of  *)
(* the indices it divides.                                                 *)
(*                                                                         *)
(* The first part is the raw packets' queue: what one LiDAR has in it      *)
(* grows at one end and shrinks at the other, and the packet thread moves  *)
(* it on.  The second is arithmetic: a ring read through indices that wrap *)
(* is a window that does the same.  The third shows that the two threads   *)
(* on either side of the rings keep to it.                                 *)
(***************************************************************************)
EXTENDS PacketAssembly, LidarPackets, SequenceTheorems, WellFoundedInduction, TLAPS

Raw == [lidar : Lidars, time : Int]

LEMMA JoinAssociative ==
  ASSUME NEW s \in Seq(Int), NEW t \in Seq(Int), NEW u \in Seq(Int)
  PROVE  (s \o t) \o u = s \o (t \o u)
  BY ConcatAssociative, SMTT(40)

LEMMA AppendOfConcat ==
  ASSUME NEW s \in Seq(Int), NEW t \in Seq(Int), NEW x \in Int
  PROVE  Append(s \o t, x) = s \o Append(t, x)
<1>1. s \o t \in Seq(Int) /\ <<x>> \in Seq(Int)
  OBVIOUS
<1>2. Append(s \o t, x) = (s \o t) \o <<x>> /\ Append(t, x) = t \o <<x>>
  BY <1>1, AppendIsConcat
<1>3. (s \o t) \o <<x>> = s \o (t \o <<x>>)
  BY <1>1, JoinAssociative
<1> QED BY <1>2, <1>3, Zenon

\* Induction over the positions of a queue, with a set in place of a property.
LEMMA UpTo ==
  ASSUME NEW N \in Nat, NEW T,
         0 \in T, \A n \in 1..N : n - 1 \in T => n \in T
  PROVE  \A n \in 0..N : n \in T
<1> DEFINE Bad == {n \in 0..N : n \notin T}
<1> SUFFICES ASSUME Bad # {} PROVE FALSE
  OBVIOUS
<1>1. IsWellFoundedOn(OpToRel(<, Nat), Nat)
  BY NatLessThanWellFounded
<1>2. PICK m \in Bad : \A k \in Bad : <<k, m>> \notin OpToRel(<, Nat)
  <2>1. Bad \in SUBSET Nat
    OBVIOUS
  <2> HIDE DEF Bad
  <2> QED BY <1>1, <2>1, WFMin
<1>3. m \in 0..N /\ m \notin T
  BY <1>2
<1>4. m # 0
  BY <1>3, Zenon
<1>5. m \in 1..N /\ m - 1 \in 0..N /\ m \in Nat /\ m - 1 \in Nat /\ m - 1 < m
  BY <1>3, <1>4
<1>6. m - 1 \in Bad
  BY <1>3, <1>5
<1>7. <<m - 1, m>> \in OpToRel(<, Nat)
  BY <1>5 DEF OpToRel
<1> QED BY <1>2, <1>6, <1>7

-----------------------------------------------------------------------------
(* A LiDAR's part of the raw packet queue.                                 *)

\* f[n] is what l has among the first n packets of a queue.
Parts(f, queue, l, m) ==
  f = [n \in 0..m |->
         IF n = 0 THEN <<>>
         ELSE IF queue[n].lidar = l THEN Append(f[n-1], queue[n].time) ELSE f[n-1]]

LEMMA PartsStep ==
  ASSUME NEW f, NEW queue, NEW l, NEW m \in Nat, Parts(f, queue, l, m),
         NEW n \in 0..m
  PROVE  f[n] = IF n = 0 THEN <<>>
                ELSE IF queue[n].lidar = l THEN Append(f[n-1], queue[n].time)
                ELSE f[n-1]
<1> DEFINE g == [j \in 0..m |->
         IF j = 0 THEN <<>>
         ELSE IF queue[j].lidar = l THEN Append(f[j-1], queue[j].time) ELSE f[j-1]]
<1>1. g[n] = IF n = 0 THEN <<>>
             ELSE IF queue[n].lidar = l THEN Append(f[n-1], queue[n].time)
             ELSE f[n-1]
  OBVIOUS
<1>2. f = g
  BY DEF Parts
<1> HIDE DEF g
<1> QED BY <1>1, <1>2, Zenon

LEMMA PartsExist ==
  ASSUME NEW queue, NEW l, NEW n \in Nat
  PROVE  \E f : Parts(f, queue, l, n)
<1> DEFINE Next(before, i) ==
             IF queue[i].lidar = l THEN Append(before, queue[i].time) ELSE before
           T == {m \in Nat : \E f : Parts(f, queue, l, m)}
<1>1. 0 \in T
  <2> DEFINE f == [i \in 0..0 |-> <<>>]
  <2>1. f = [i \in 0..0 |-> IF i = 0 THEN <<>> ELSE Next(f[i-1], i)]
    <3>1. \A i \in 0..0 : <<>> = IF i = 0 THEN <<>> ELSE Next(f[i-1], i)
      OBVIOUS
    <3> QED BY <3>1
  <2>2. Parts(f, queue, l, 0)
    BY <2>1 DEF Parts
  <2> QED BY <2>2
<1>2. ASSUME NEW m \in 1..n, m - 1 \in T
      PROVE  m \in T
  <2>1. PICK f : Parts(f, queue, l, m - 1)
    BY <1>2
  <2> DEFINE x == Next(f[m-1], m)
             g == [i \in 0..m |-> IF i = m THEN x ELSE f[i]]
  <2>2. m - 1 \in Nat
    OBVIOUS
  <2>3. \A i \in 0..(m - 1) : f[i] = IF i = 0 THEN <<>> ELSE Next(f[i-1], i)
    BY <2>1, <2>2, PartsStep
  <2>4. ASSUME NEW i \in 0..m
        PROVE  g[i] = IF i = 0 THEN <<>> ELSE Next(g[i-1], i)
    <3> HIDE DEF Next
    <3>1. CASE i = m
      <4>1. m # 0 /\ m - 1 \in 0..m /\ m - 1 # m
        OBVIOUS
      <4>2. g[i] = x /\ g[i-1] = f[m-1]
        BY <3>1, <4>1
      <4> QED BY <3>1, <4>1, <4>2
    <3>2. CASE i = 0
      <4>1. 0 \in 0..m /\ 0 # m /\ 0 \in 0..(m - 1)
        OBVIOUS
      <4>2. g[0] = f[0]
        BY <4>1
      <4> QED BY <2>3, <3>2, <4>1, <4>2
    <3>3. CASE i \in 1..(m - 1)
      <4>1. i - 1 \in 0..m /\ i - 1 # m /\ i \in 0..(m - 1) /\ i # m /\ i # 0
        BY <3>3
      <4>2. g[i] = f[i] /\ g[i-1] = f[i-1]
        BY <4>1
      <4> QED BY <2>3, <4>1, <4>2
    <3> QED BY <3>1, <3>2, <3>3
  <2>5. g = [i \in 0..m |-> g[i]]
    OBVIOUS
  <2> HIDE DEF g
  <2>6. Parts(g, queue, l, m)
    BY <2>4, <2>5 DEF Parts
  <2> QED BY <2>6
<1> HIDE DEF T
<1>3. n \in T
  BY <1>1, <1>2, UpTo
<1> QED BY <1>3 DEF T

Part(queue, l) == CHOOSE f : Parts(f, queue, l, Len(queue))

\* What the recursion of OfLidar computes, step by step.
LEMMA PartSteps ==
  ASSUME NEW queue \in Seq(Raw), NEW l
  PROVE  /\ OfLidar(queue, l) = Part(queue, l)[Len(queue)]
         /\ Part(queue, l)[0] = <<>>
         /\ \A n \in 1..Len(queue) :
              Part(queue, l)[n] = IF queue[n].lidar = l
                                    THEN Append(Part(queue, l)[n-1], queue[n].time)
                                    ELSE Part(queue, l)[n-1]
<1>0. Len(queue) \in Nat
  OBVIOUS
<1>1. OfLidar(queue, l) = Part(queue, l)[Len(queue)]
  BY DEF OfLidar, Part, Parts
<1>2. Parts(Part(queue, l), queue, l, Len(queue))
  <2>1. \E f : Parts(f, queue, l, Len(queue))
    BY <1>0, PartsExist
  <2> QED BY <2>1 DEF Part
<1> DEFINE f == Part(queue, l)
<1> HIDE DEF f
<1>3. \A n \in 0..Len(queue) :
        f[n] = IF n = 0 THEN <<>>
               ELSE IF queue[n].lidar = l THEN Append(f[n-1], queue[n].time)
               ELSE f[n-1]
  BY <1>0, <1>2, PartsStep DEF f
<1>4. f[0] = <<>>
  BY <1>0, <1>3
<1>5. \A n \in 1..Len(queue) :
        f[n] = IF queue[n].lidar = l THEN Append(f[n-1], queue[n].time) ELSE f[n-1]
  <2> SUFFICES ASSUME NEW n \in 1..Len(queue)
               PROVE f[n] = IF queue[n].lidar = l THEN Append(f[n-1], queue[n].time)
                            ELSE f[n-1]
    OBVIOUS
  <2>1. n \in 0..Len(queue) /\ n # 0
    BY <1>0
  <2> QED BY <1>3, <2>1
<1> QED BY <1>1, <1>4, <1>5 DEF f

LEMMA PartTyped ==
  ASSUME NEW queue \in Seq(Raw), NEW l
  PROVE  /\ \A n \in 0..Len(queue) : Part(queue, l)[n] \in Seq(Int)
         /\ OfLidar(queue, l) \in Seq(Int)
<1> DEFINE f == Part(queue, l)
           T == {n \in Nat : f[n] \in Seq(Int)}
<1>1. Len(queue) \in Nat /\ f[0] = <<>> /\ OfLidar(queue, l) = f[Len(queue)]
  BY PartSteps
<1>2. 0 \in T
  <2>1. f[0] \in Seq(Int)
    BY <1>1
  <2> QED BY <2>1
<1>3. ASSUME NEW n \in 1..Len(queue), n - 1 \in T
      PROVE  n \in T
  <2>1. f[n] = IF queue[n].lidar = l THEN Append(f[n-1], queue[n].time) ELSE f[n-1]
    BY PartSteps
  <2>2. queue[n].time \in Int
    <3>1. queue[n] \in Raw
      OBVIOUS
    <3> QED BY <3>1 DEF Raw
  <2>3. f[n-1] \in Seq(Int)
    BY <1>3
  <2> HIDE DEF f
  <2>4. f[n] \in Seq(Int)
    BY <2>1, <2>2, <2>3
  <2>5. n \in Nat
    BY <1>1
  <2> QED BY <2>4, <2>5
<1> HIDE DEF T
<1>4. \A n \in 0..Len(queue) : n \in T
  BY <1>1, <1>2, <1>3, UpTo
<1>5. \A n \in 0..Len(queue) : f[n] \in Seq(Int)
  BY <1>4 DEF T
<1> QED BY <1>1, <1>5

LEMMA OfNone ==
  ASSUME NEW l
  PROVE  OfLidar(<<>>, l) = <<>>
<1>1. <<>> \in Seq(Raw)
  OBVIOUS
<1>2. Len(<<>>) = 0
  OBVIOUS
<1>3. OfLidar(<<>>, l) = Part(<<>>, l)[Len(<<>>)] /\ Part(<<>>, l)[0] = <<>>
  BY <1>1, PartSteps, Zenon
<1> QED BY <1>2, <1>3, Zenon

\* A packet pushed behind a queue comes last.
LEMMA OfAppended ==
  ASSUME NEW queue \in Seq(Raw), NEW added \in Raw, NEW l
  PROVE  OfLidar(Append(queue, added), l) =
           IF added.lidar = l THEN Append(OfLidar(queue, l), added.time)
           ELSE OfLidar(queue, l)
<1> DEFINE longer == Append(queue, added)
           f == Part(queue, l)
           g == Part(longer, l)
           T == {n \in Nat : g[n] = f[n]}
<1>1. /\ longer \in Seq(Raw) /\ Len(queue) \in Nat /\ Len(longer) = Len(queue) + 1
      /\ \A n \in 1..Len(queue) : longer[n] = queue[n]
      /\ longer[Len(queue) + 1] = added
  OBVIOUS
<1> HIDE DEF longer
<1>2. 0 \in T
  BY <1>1, PartSteps
<1>3. ASSUME NEW n \in 1..Len(queue), n - 1 \in T
      PROVE  n \in T
  <2>1. f[n] = IF queue[n].lidar = l THEN Append(f[n-1], queue[n].time) ELSE f[n-1]
    BY PartSteps
  <2>2. n \in 1..Len(longer)
    BY <1>1
  <2>3. g[n] = IF longer[n].lidar = l THEN Append(g[n-1], longer[n].time) ELSE g[n-1]
    BY <1>1, <2>2, PartSteps
  <2>4. longer[n] = queue[n] /\ g[n-1] = f[n-1]
    BY <1>1, <1>3
  <2> HIDE DEF f, g
  <2>5. g[n] = f[n]
    BY <2>1, <2>3, <2>4
  <2> QED BY <1>1, <2>5
<1> HIDE DEF T
<1>4. Len(queue) \in T
  <2>1. \A n \in 0..Len(queue) : n \in T
    BY <1>1, <1>2, <1>3, UpTo
  <2> QED BY <1>1, <2>1
<1>5. g[Len(queue)] = f[Len(queue)]
  BY <1>4 DEF T
<1>6. OfLidar(longer, l) = g[Len(queue) + 1] /\ OfLidar(queue, l) = f[Len(queue)]
  BY <1>1, PartSteps
<1>7. g[Len(queue) + 1] = IF added.lidar = l THEN Append(g[Len(queue)], added.time)
                          ELSE g[Len(queue)]
  <2>1. Len(queue) + 1 \in 1..Len(longer) /\ Len(queue) + 1 - 1 = Len(queue)
    BY <1>1
  <2> QED BY <1>1, <2>1, PartSteps
<1> HIDE DEF f, g
<1> QED BY <1>5, <1>6, <1>7 DEF longer

\* What a packet adds to its LiDAR.
Times(entry, l) == IF entry.lidar = l THEN <<entry.time>> ELSE <<>>

\* The packet popped from a queue came first.
LEMMA OfPopped ==
  ASSUME NEW queue \in Seq(Raw), queue # <<>>, NEW l
  PROVE  OfLidar(queue, l) = Times(Head(queue), l) \o OfLidar(Tail(queue), l)
<1> DEFINE rest == Tail(queue)
           first == Times(Head(queue), l)
           f == Part(queue, l)
           g == Part(rest, l)
           T == {n \in Nat : f[n+1] = first \o g[n]}
<1>1. /\ rest \in Seq(Raw) /\ Len(queue) \in Nat /\ Len(rest) \in Nat
      /\ Len(queue) = Len(rest) + 1 /\ Head(queue) = queue[1] /\ Head(queue) \in Raw
      /\ \A n \in 1..Len(rest) : rest[n] = queue[n+1] /\ rest[n] \in Raw
  BY HeadTailProperties
<1>2. first \in Seq(Int)
  BY <1>1 DEF Times, Raw
<1> HIDE DEF rest
<1>3. 0 \in T
  <2>1. 1 \in 1..Len(queue) /\ 0 + 1 - 1 = 0
    BY <1>1
  <2>2. f[0] = <<>> /\ g[0] = <<>>
    BY <1>1, PartSteps
  <2>3. f[1] = IF queue[1].lidar = l THEN Append(f[0], queue[1].time) ELSE f[0]
    BY <2>1, PartSteps
  <2>4. f[1] = first
    BY <1>1, <2>2, <2>3 DEF Times
  <2> HIDE DEF f, g, first
  <2>5. first \o g[0] = first
    BY <1>2, <2>2, ConcatEmptySeq
  <2>6. f[0 + 1] = first \o g[0]
    BY <2>4, <2>5
  <2> QED BY <2>6
<1>4. ASSUME NEW n \in 1..Len(rest), n - 1 \in T
      PROVE  n \in T
  <2>1. n + 1 \in 1..Len(queue) /\ n \in 0..Len(rest) /\ n - 1 \in 0..Len(rest)
        /\ n + 1 - 1 = n /\ n - 1 + 1 = n
    BY <1>1
  <2>2. f[n+1] = IF queue[n+1].lidar = l THEN Append(f[n], queue[n+1].time) ELSE f[n]
    BY <2>1, PartSteps
  <2>3. g[n] = IF rest[n].lidar = l THEN Append(g[n-1], rest[n].time) ELSE g[n-1]
    BY <1>1, PartSteps
  <2>4. f[n] = first \o g[n-1] /\ queue[n+1] = rest[n]
    BY <1>1, <1>4, <2>1
  <2>5. g[n-1] \in Seq(Int)
    BY <1>1, <2>1, PartTyped
  <2>6. rest[n].time \in Int
    BY <1>1 DEF Raw
  <2> HIDE DEF f, g, first
  <2>7. Append(first \o g[n-1], rest[n].time) = first \o Append(g[n-1], rest[n].time)
    BY <1>2, <2>5, <2>6, AppendOfConcat
  <2>8. f[n+1] = first \o g[n]
    BY <2>2, <2>3, <2>4, <2>7
  <2> QED BY <2>8
<1> HIDE DEF T
<1>5. Len(rest) \in T
  <2>1. \A n \in 0..Len(rest) : n \in T
    BY <1>1, <1>3, <1>4, UpTo
  <2> QED BY <1>1, <2>1
<1>6. f[Len(rest) + 1] = first \o g[Len(rest)]
  BY <1>5 DEF T
<1>7. OfLidar(queue, l) = f[Len(rest) + 1] /\ OfLidar(rest, l) = g[Len(rest)]
  BY <1>1, PartSteps
<1> QED BY <1>6, <1>7 DEF rest

-----------------------------------------------------------------------------
(* The packet thread.                                                      *)
AssemblyTypes ==
  /\ rawQueue \in Seq(Raw) /\ now \in Nat
  /\ spc = "push" => arriving \in Raw
  /\ tpc = "assemble" => raw \in Raw
  /\ cloud \in [Lidars -> Seq(Int)] /\ points \in [Lidars -> Seq(Int)]
  /\ sent \in [Lidars -> Seq(Int)] /\ arrived \in [Lidars -> Seq(Int)]

AssemblyInv == AssemblyTypes /\ PointsConserved

LEMMA AssemblyStarts ==
  ASSUME AssemblyInit
  PROVE  AssemblyInv
<1>1. AssemblyTypes
  BY DEF AssemblyInit, AssemblyTypes
<1>2. ASSUME NEW l \in Lidars
      PROVE  /\ arrived[l] = sent[l] \o cloud[l] \o Popped(l) \o OfLidar(rawQueue, l)
             /\ points[l] = <<>>
  <2>1. /\ arrived[l] = <<>> /\ sent[l] = <<>> /\ cloud[l] = <<>> /\ points[l] = <<>>
        /\ Popped(l) = <<>>
    BY DEF AssemblyInit, Popped
  <2>2. OfLidar(rawQueue, l) = <<>>
    BY OfNone DEF AssemblyInit
  <2>3. <<>> \o <<>> = <<>>
    OBVIOUS
  <2> QED BY <2>1, <2>2, <2>3
<1> QED BY <1>1, <1>2 DEF AssemblyInv, PointsConserved

\* The steps that move no packet.
LEMMA NothingMoves ==
  ASSUME AssemblyInv, UNCHANGED <<rawQueue, frameVars, arrived>>,
         \A l \in Lidars : Popped(l)' = Popped(l)
  PROVE  PointsConserved'
<1> SUFFICES ASSUME NEW l \in Lidars
             PROVE  /\ arrived'[l] = sent'[l] \o cloud'[l] \o Popped(l)' \o OfLidar(rawQueue', l)
                    /\ points'[l] # <<>> => base'[l] = points'[l][1]
  BY DEF PointsConserved
<1>1. UNCHANGED <<rawQueue, arrived, sent, cloud, points, base>>
  BY DEF frameVars
<1> QED BY <1>1 DEF AssemblyInv, PointsConserved

LEMMA PushConserves ==
  ASSUME AssemblyInv, PushRaw
  PROVE  AssemblyInv'
<1>1. /\ rawQueue \in Seq(Raw) /\ arriving \in Raw /\ rawQueue' = Append(rawQueue, arriving)
      /\ arrived' = [arrived EXCEPT ![arriving.lidar] = Append(@, arriving.time)]
      /\ arriving.lidar \in Lidars /\ arriving.time \in Int
      /\ UNCHANGED <<cloud, sent, points, base, raw, tpc, now, arriving>> /\ spc' = "notify"
  BY DEF PushRaw, AssemblyInv, AssemblyTypes, Raw, frameVars
<1>2. AssemblyTypes'
  <2>1. rawQueue' \in Seq(Raw)
    BY <1>1
  <2>2. arrived' \in [Lidars -> Seq(Int)]
    BY <1>1 DEF AssemblyInv, AssemblyTypes
  <2> QED BY <1>1, <2>1, <2>2 DEF AssemblyInv, AssemblyTypes
<1>3. ASSUME NEW l \in Lidars
      PROVE  arrived'[l] = sent'[l] \o cloud'[l] \o Popped(l)' \o OfLidar(rawQueue', l)
  <2> DEFINE before == sent[l] \o cloud[l] \o Popped(l)
             queued == OfLidar(rawQueue, l)
  <2>1. arrived[l] = before \o queued
    BY DEF AssemblyInv, PointsConserved
  <2>2. before' = before
    BY <1>1 DEF Popped
  <2>3. before \in Seq(Int) /\ queued \in Seq(Int)
    <3>1. Popped(l) \in Seq(Int)
      BY DEF Popped, AssemblyInv, AssemblyTypes, Raw
    <3>2. sent[l] \in Seq(Int) /\ cloud[l] \in Seq(Int)
      BY DEF AssemblyInv, AssemblyTypes
    <3>3. queued \in Seq(Int)
      BY <1>1, PartTyped
    <3> QED BY <3>1, <3>2, <3>3, ConcatProperties
  <2>4. OfLidar(rawQueue', l) = IF arriving.lidar = l THEN Append(queued, arriving.time) ELSE queued
    BY <1>1, OfAppended
  <2>5. arrived'[l] = IF arriving.lidar = l THEN Append(arrived[l], arriving.time) ELSE arrived[l]
    BY <1>1 DEF AssemblyInv, AssemblyTypes
  <2>6. Append(before \o queued, arriving.time) = before \o Append(queued, arriving.time)
    BY <1>1, <2>3, AppendOfConcat
  <2>7. arrived'[l] = before' \o OfLidar(rawQueue', l)
    <3> HIDE DEF before, queued
    <3> QED BY <2>1, <2>2, <2>4, <2>5, <2>6
  <2> QED BY <2>7
<1>4. PointsConserved'
  BY <1>1, <1>3 DEF AssemblyInv, PointsConserved
<1> QED BY <1>2, <1>4 DEF AssemblyInv

LEMMA PopConserves ==
  ASSUME AssemblyInv, PopRaw
  PROVE  AssemblyInv'
<1>1. /\ rawQueue \in Seq(Raw) /\ rawQueue # <<>>
      /\ raw' = Head(rawQueue) /\ rawQueue' = Tail(rawQueue)
      /\ tpc # "assemble" /\ tpc' = "assemble"
      /\ UNCHANGED <<cloud, sent, points, base, arrived, now, spc, arriving>>
  BY DEF PopRaw, AssemblyInv, AssemblyTypes, sdkVars, frameVars
<1>2. raw' \in Raw /\ rawQueue' \in Seq(Raw)
  BY <1>1, HeadTailProperties
<1>3. AssemblyTypes'
  BY <1>1, <1>2 DEF AssemblyInv, AssemblyTypes
<1>4. ASSUME NEW l \in Lidars
      PROVE  arrived'[l] = sent'[l] \o cloud'[l] \o Popped(l)' \o OfLidar(rawQueue', l)
  <2> DEFINE before == sent[l] \o cloud[l]
             rest == OfLidar(rawQueue', l)
  <2>1. Popped(l) = <<>> /\ Popped(l)' = Times(Head(rawQueue), l)
    BY <1>1 DEF Popped, Times
  <2>2. before \in Seq(Int) /\ rest \in Seq(Int)
    <3>1. sent[l] \in Seq(Int) /\ cloud[l] \in Seq(Int)
      BY DEF AssemblyInv, AssemblyTypes
    <3> QED BY <1>2, <3>1, PartTyped, ConcatProperties
  <2>3. Popped(l)' \in Seq(Int)
    BY <1>2, <1>1 DEF Popped, Raw
  <2>4. OfLidar(rawQueue, l) = Popped(l)' \o rest
    BY <1>1, <2>1, OfPopped
  <2>5. arrived[l] = (before \o <<>>) \o (Popped(l)' \o rest)
    BY <2>1, <2>4 DEF AssemblyInv, PointsConserved
  <2>6. before \o <<>> = before
    BY <2>2, ConcatEmptySeq
  <2>7. before \o (Popped(l)' \o rest) = (before \o Popped(l)') \o rest
    <3> DEFINE popped == Popped(l)'
    <3>1. popped \in Seq(Int)
      BY <2>3
    <3> HIDE DEF before, rest, popped
    <3>2. before \in Seq(Int) /\ rest \in Seq(Int)
      BY <2>2
    <3>3. (before \o popped) \o rest = before \o (popped \o rest)
      BY <3>1, <3>2, JoinAssociative
    <3> QED BY <3>3 DEF popped
  <2>8. before' = before
    BY <1>1
  <2>9. arrived'[l] = before' \o Popped(l)' \o rest
    <3> HIDE DEF before, rest
    <3> QED BY <1>1, <2>5, <2>6, <2>7, <2>8
  <2> QED BY <2>9
<1>5. PointsConserved'
  BY <1>1, <1>4 DEF AssemblyInv, PointsConserved
<1> QED BY <1>3, <1>5 DEF AssemblyInv

\* A packet is collected behind its LiDAR's points; whoever's frame is due
\* gives all of them away and keeps none.
LEMMA AssembleConserves ==
  ASSUME AssemblyInv, Assemble
  PROVE  AssemblyInv'
<1>1. /\ raw \in Raw /\ raw.lidar \in Lidars /\ raw.time \in Int /\ tpc = "assemble"
      /\ tpc' = "top" /\ rawQueue \in Seq(Raw)
      /\ UNCHANGED <<rawQueue, arrived, now, spc, arriving>>
  BY DEF Assemble, AssemblyInv, AssemblyTypes, Raw, sdkVars
<1>2. Collected \in [Lidars -> Seq(Int)]
  BY <1>1 DEF Collected, AssemblyInv, AssemblyTypes
<1>3. ASSUME NEW l \in Lidars
      PROVE  /\ cloud'[l] = IF l \in Leaving THEN <<>> ELSE Collected[l]
             /\ points'[l] = IF l \in Leaving THEN Collected[l] ELSE points[l]
             /\ base'[l] = IF l \in Leaving /\ Collected[l] # <<>> THEN Collected[l][1] ELSE base[l]
             /\ sent'[l] = IF l \in Leaving THEN sent[l] \o Collected[l] ELSE sent[l]
  <2>1. /\ cloud'[l] = IF l \in Leaving THEN <<>> ELSE Collected[l]
        /\ points'[l] = IF l \in Leaving THEN Collected[l] ELSE points[l]
    BY DEF Assemble, Leftover
  <2>2. l \in FramesOut <=> l \in Leaving /\ Collected[l] # <<>>
    BY DEF FramesOut
  <2>3. base'[l] = IF l \in Leaving /\ Collected[l] # <<>> THEN Collected[l][1] ELSE base[l]
    BY <2>2 DEF Assemble, BaseTime
  <2>4. sent'[l] = IF l \in FramesOut THEN sent[l] \o Collected[l] ELSE sent[l]
    BY DEF Assemble
  <2>5. sent[l] \o <<>> = sent[l]
    BY ConcatEmptySeq DEF AssemblyInv, AssemblyTypes
  <2> QED BY <2>1, <2>2, <2>3, <2>4, <2>5
<1>4. AssemblyTypes'
  <2>1. ASSUME NEW l \in Lidars
        PROVE  cloud'[l] \in Seq(Int) /\ points'[l] \in Seq(Int) /\ sent'[l] \in Seq(Int)
    <3>1. Collected[l] \in Seq(Int) /\ points[l] \in Seq(Int) /\ sent[l] \in Seq(Int)
      BY <1>2 DEF AssemblyInv, AssemblyTypes
    <3>2. sent[l] \o Collected[l] \in Seq(Int)
      BY <3>1, ConcatProperties
    <3>3. <<>> \in Seq(Int)
      OBVIOUS
    <3>4. CASE l \in Leaving
      BY <1>3, <3>1, <3>2, <3>3, <3>4, Zenon
    <3>5. CASE l \notin Leaving
      BY <1>3, <3>1, <3>5, Zenon
    <3> QED BY <3>4, <3>5
  <2>2. /\ cloud' = [l \in Lidars |-> cloud'[l]] /\ points' = [l \in Lidars |-> points'[l]]
        /\ sent' = [l \in Lidars |-> sent'[l]]
    BY DEF Assemble
  <2>3. /\ cloud' \in [Lidars -> Seq(Int)] /\ points' \in [Lidars -> Seq(Int)]
        /\ sent' \in [Lidars -> Seq(Int)]
    BY <2>1, <2>2
  <2> QED BY <1>1, <2>3 DEF AssemblyInv, AssemblyTypes
<1>5. ASSUME NEW l \in Lidars
      PROVE  arrived'[l] = sent'[l] \o cloud'[l] \o Popped(l)' \o OfLidar(rawQueue', l)
  <2> DEFINE s == sent[l]
             c == cloud[l]
             p == Popped(l)
             all == Collected[l]
             queued == OfLidar(rawQueue, l)
  <2>1. s \in Seq(Int) /\ c \in Seq(Int) /\ p \in Seq(Int) /\ all \in Seq(Int)
    BY <1>1, <1>2 DEF Popped, AssemblyInv, AssemblyTypes
  <2>2. all = c \o p
    <3>1. all = IF raw.lidar = l THEN Append(c, raw.time) ELSE c
      BY <1>1 DEF Collected, AssemblyInv, AssemblyTypes
    <3>2. p = IF raw.lidar = l THEN <<raw.time>> ELSE <<>>
      BY <1>1 DEF Popped
    <3> HIDE DEF all, c, p
    <3>3. Append(c, raw.time) = c \o <<raw.time>> /\ c \o <<>> = c
      BY <1>1, <2>1, AppendIsConcat, ConcatEmptySeq
    <3> QED BY <3>1, <3>2, <3>3
  <2>3. arrived[l] = ((s \o c) \o p) \o queued
    BY DEF AssemblyInv, PointsConserved
  <2>4. Popped(l)' = <<>>
    BY <1>1 DEF Popped
  <2>5. (sent'[l] \o cloud'[l]) \o <<>> = s \o all
    <3>1. \/ sent'[l] = s \o all /\ cloud'[l] = <<>>
          \/ sent'[l] = s /\ cloud'[l] = all
      BY <1>3
    <3> HIDE DEF s, all
    <3>2. s \o all \in Seq(Int)
      BY <2>1, ConcatProperties
    <3>3. (s \o all) \o <<>> = s \o all
      BY <3>2, ConcatEmptySeq
    <3> QED BY <3>1, <3>3
  <2> HIDE DEF s, c, p, all
  <2>6. (s \o c) \o p = s \o (c \o p)
    BY <2>1, JoinAssociative
  <2>7. arrived[l] = ((sent'[l] \o cloud'[l]) \o <<>>) \o queued
    BY <2>2, <2>3, <2>5, <2>6
  <2> QED BY <1>1, <2>4, <2>7
<1>6. ASSUME NEW l \in Lidars
      PROVE  points'[l] # <<>> => base'[l] = points'[l][1]
  <2>1. points[l] # <<>> => base[l] = points[l][1]
    BY DEF AssemblyInv, PointsConserved
  <2> QED BY <1>3, <2>1
<1>7. PointsConserved'
  BY <1>5, <1>6 DEF PointsConserved
<1> QED BY <1>4, <1>7 DEF AssemblyInv

LEMMA AssemblyStays ==
  ASSUME AssemblyInv, [AssemblyNext]_assemblyVars
  PROVE  AssemblyInv'
<1>1. CASE UNCHANGED assemblyVars
  <2>1. UNCHANGED <<rawQueue, frameVars, arrived, tpc, raw, now, spc, arriving>>
    BY <1>1 DEF assemblyVars, sdkVars
  <2>2. AssemblyTypes'
    BY <2>1 DEF AssemblyInv, AssemblyTypes, frameVars
  <2>3. PointsConserved'
    BY <2>1, NothingMoves DEF Popped
  <2> QED BY <2>2, <2>3 DEF AssemblyInv
<1>2. ASSUME NEW l \in Lidars, Arrive(l)
      PROVE  AssemblyInv'
  <2>1. UNCHANGED <<rawQueue, frameVars, arrived, tpc, raw, now>>
    BY <1>2 DEF Arrive
  <2>2. arriving' \in Raw
    BY <1>2, AssemblyAssumption DEF Arrive, Raw, AssemblyInv, AssemblyTypes
  <2>3. AssemblyTypes'
    BY <2>1, <2>2 DEF AssemblyInv, AssemblyTypes, frameVars
  <2>4. PointsConserved'
    BY <2>1, NothingMoves DEF Popped
  <2> QED BY <2>3, <2>4 DEF AssemblyInv
<1>3. CASE Tick \/ NotifyRaw \/ RequestExit
           \/ LoopTop \/ SleepOnEmpty \/ WaitEnds \/ WokenForNothing
  <2>1. /\ UNCHANGED <<rawQueue, frameVars, arrived, raw, arriving>>
        /\ spc' = spc \/ spc' = "idle"
        /\ tpc' = tpc \/ (tpc # "assemble" /\ tpc' # "assemble")
        /\ now' = now \/ now' = now + 1
    BY <1>3 DEF Tick, NotifyRaw, RequestExit, LoopTop, SleepOnEmpty, WaitEnds,
                WokenForNothing, ThreadLocal, sdkVars
  <2>2. AssemblyTypes'
    BY <2>1 DEF AssemblyInv, AssemblyTypes, frameVars
  <2>3. PointsConserved'
    BY <2>1, NothingMoves DEF Popped
  <2> QED BY <2>2, <2>3 DEF AssemblyInv
<1> QED BY <1>1, <1>2, <1>3, PushConserves, PopConserves, AssembleConserves
        DEF AssemblyNext, Thread

\* No point is lost, repeated or reordered on its way into the frames, for any
\* number of LiDARs and packets, any clocks and any switching of the
\* synchronisation flag between a packet's arrival and its assembly
\* (RawDataProcess, CheckTimer), and each frame is stamped with its first point.
THEOREM PointsConservedHolds == AssemblySpec => []PointsConserved
<1>1. AssemblyInit => AssemblyInv
  BY AssemblyStarts
<1>2. AssemblyInv /\ [AssemblyNext]_assemblyVars => AssemblyInv'
  BY AssemblyStays
<1>3. AssemblyInv => PointsConserved
  BY DEF AssemblyInv
<1> QED BY <1>1, <1>2, <1>3, PTL DEF AssemblySpec

-----------------------------------------------------------------------------
(* The rings.                                                              *)
Idx == 0..(IndexMod - 1)
Places == 0..(Size - 1)
Ring == [Places -> Int]

\* From one index to another, and the packets a ring shows from an index on.
Dist(r, w) == (w - r) % IndexMod
Window(ring, r, n) == [i \in 1..n |-> ring[(r + i - 1) % Size]]

-----------------------------------------------------------------------------
(* Remainders.                                                             *)
LEMMA DivMod ==
  ASSUME NEW a \in Int, NEW n \in Nat \ {0}
  PROVE  a \div n \in Int /\ a % n \in 0..(n - 1) /\ a = n * (a \div n) + (a % n)
  OBVIOUS

LEMMA RemainderUnique ==
  ASSUME NEW n \in Nat \ {0}, NEW p \in Int, NEW q \in Int,
         NEW r \in 0..(n - 1), NEW s \in 0..(n - 1), n * p + r = n * q + s
  PROVE  r = s /\ p = q
  OBVIOUS

LEMMA SmallRemainder ==
  ASSUME NEW n \in Nat \ {0}, NEW a \in Int
  PROVE  /\ a \in 0..(n - 1) => a % n = a
         /\ a \in (-n)..(-1) => a % n = a + n
  OBVIOUS

LEMMA RemainderOfSum ==
  ASSUME NEW n \in Nat \ {0}, NEW a \in Int, NEW k \in Int
  PROVE  (a + n * k) % n = a % n
<1> DEFINE b == a + n * k
           q == a \div n
<1>1. n * k \in Int /\ b \in Int
  OBVIOUS
<1>2. /\ q \in Int /\ a % n \in 0..(n - 1) /\ a = n * q + (a % n)
      /\ b \div n \in Int /\ b % n \in 0..(n - 1) /\ b = n * (b \div n) + (b % n)
  BY <1>1, DivMod
<1>3. q + k \in Int /\ n * (q + k) = n * q + n * k
  BY <1>2
<1>4. b = n * (q + k) + (a % n)
  BY <1>2, <1>3
<1>5. n * (b \div n) + (b % n) = n * (q + k) + (a % n)
  BY <1>2, <1>4
<1> DEFINE x == b \div n
           y == q + k
           u == b % n
           v == a % n
<1>6. x \in Int /\ y \in Int /\ u \in 0..(n - 1) /\ v \in 0..(n - 1) /\ n * x + u = n * y + v
  BY <1>2, <1>3, <1>5
<1> HIDE DEF x, y, u, v
<1>7. u = v
  BY <1>6, RemainderUnique
<1> QED BY <1>7 DEF u, v

\* Two numbers less than n apart have different remainders.
LEMMA RemaindersDiffer ==
  ASSUME NEW n \in Nat \ {0}, NEW a \in Int, NEW b \in Int, a < b, b < a + n
  PROVE  a % n # b % n
<1> SUFFICES ASSUME a % n = b % n PROVE FALSE
  OBVIOUS
<1> DEFINE p == a \div n
           q == b \div n
<1>1. /\ p \in Int /\ a = n * p + (a % n) /\ q \in Int /\ b = n * q + (a % n)
      /\ a % n \in 0..(n - 1)
  BY DivMod
<1>2. n * q > n * p /\ n * q < n * p + n
  BY <1>1
<1>3. CASE q <= p
  <2>1. \A x, y \in Int : x <= y => n * x <= n * y
    OBVIOUS
  <2> QED BY <1>1, <1>2, <1>3, <2>1
<1>4. CASE q > p
  <2>1. \A x, y \in Int : x < y => n * x + n <= n * y
    OBVIOUS
  <2> QED BY <1>1, <1>2, <1>4, <2>1
<1> QED BY <1>1, <1>3, <1>4

-----------------------------------------------------------------------------
(* Indices that wrap.                                                      *)
LEMMA Sizes ==
  /\ Size \in Nat \ {0} /\ IndexMod \in Nat \ {0} /\ IndexMod > Size
  /\ IndexMod = Size * (IndexMod \div Size) /\ IndexMod \div Size \in Int
<1>1. Size \in Nat \ {0} /\ IndexMod \in Nat /\ IndexMod > Size /\ IndexMod % Size = 0
  BY PacketsAssumption
<1>2. IndexMod \div Size \in Int /\ IndexMod = Size * (IndexMod \div Size) + 0
  BY <1>1, DivMod
<1> QED BY <1>1, <1>2

LEMMA DistValue ==
  ASSUME NEW r \in Idx, NEW w \in Idx
  PROVE  /\ Dist(r, w) = IF w >= r THEN w - r ELSE w - r + IndexMod
         /\ Dist(r, w) \in Idx
         /\ Dist(r, w) = 0 <=> r = w
<1>1. w >= r => w - r \in 0..(IndexMod - 1)
  BY Sizes DEF Idx
<1>2. w < r => w - r \in (-IndexMod)..(-1)
  BY Sizes DEF Idx
<1>3. Dist(r, w) = IF w >= r THEN w - r ELSE w - r + IndexMod
  BY <1>1, <1>2, Sizes, SmallRemainder DEF Dist, Idx
<1> QED BY <1>3, Sizes DEF Idx

LEMMA NextIndex ==
  ASSUME NEW r \in Idx
  PROVE  /\ (r + 1) % IndexMod = IF r + 1 = IndexMod THEN 0 ELSE r + 1
         /\ (r + 1) % IndexMod \in Idx
<1>1. CASE r + 1 = IndexMod
  <2>1. IndexMod % IndexMod = 0
    BY Sizes
  <2> QED BY <1>1, <2>1, Sizes DEF Idx
<1>2. CASE r + 1 # IndexMod
  <2>1. r + 1 \in 0..(IndexMod - 1)
    BY <1>2, Sizes DEF Idx
  <2>2. (r + 1) % IndexMod = r + 1
    BY <2>1, Sizes, SmallRemainder
  <2> QED BY <1>2, <2>1, <2>2 DEF Idx
<1> QED BY <1>1, <1>2

LEMMA DistGrows ==
  ASSUME NEW r \in Idx, NEW w \in Idx, Dist(r, w) < Size
  PROVE  Dist(r, (w + 1) % IndexMod) = Dist(r, w) + 1
<1>1. /\ (w + 1) % IndexMod = IF w + 1 = IndexMod THEN 0 ELSE w + 1
      /\ (w + 1) % IndexMod \in Idx
  BY NextIndex
<1> DEFINE v == (w + 1) % IndexMod
<1>2. /\ Dist(r, w) = IF w >= r THEN w - r ELSE w - r + IndexMod
      /\ Dist(r, v) = IF v >= r THEN v - r ELSE v - r + IndexMod
  BY <1>1, DistValue
<1> HIDE DEF v
<1> QED BY <1>1, <1>2, Sizes DEF Idx, v

LEMMA DistShrinks ==
  ASSUME NEW r \in Idx, NEW w \in Idx, r # w
  PROVE  Dist((r + 1) % IndexMod, w) = Dist(r, w) - 1
<1>1. /\ (r + 1) % IndexMod = IF r + 1 = IndexMod THEN 0 ELSE r + 1
      /\ (r + 1) % IndexMod \in Idx
  BY NextIndex
<1> DEFINE v == (r + 1) % IndexMod
<1>2. /\ Dist(r, w) = IF w >= r THEN w - r ELSE w - r + IndexMod
      /\ Dist(v, w) = IF w >= v THEN w - v ELSE w - v + IndexMod
  BY <1>1, DistValue
<1> HIDE DEF v
<1> QED BY <1>1, <1>2, Sizes DEF Idx, v

\* The wrap of an index does not show in the slot it stands for.
LEMMA SlotAfterWrap ==
  ASSUME NEW a \in Int
  PROVE  (a + IndexMod) % Size = a % Size /\ a % Size \in Places
<1>1. (a + Size * (IndexMod \div Size)) % Size = a % Size
  BY Sizes, RemainderOfSum
<1>2. a % Size \in 0..(Size - 1)
  BY Sizes, DivMod
<1> QED BY <1>1, <1>2, Sizes DEF Places

LEMMA SlotOfWriter ==
  ASSUME NEW r \in Idx, NEW w \in Idx
  PROVE  w % Size = (r + Dist(r, w)) % Size
<1>1. CASE w >= r
  BY <1>1, DistValue DEF Idx
<1>2. CASE w < r
  <2>1. r + Dist(r, w) = w + IndexMod
    BY <1>2, DistValue, Sizes DEF Idx
  <2> QED BY <2>1, SlotAfterWrap DEF Idx
<1> QED BY <1>1, <1>2 DEF Idx

LEMMA SlotOfNext ==
  ASSUME NEW r \in Idx, NEW i \in Int
  PROVE  (((r + 1) % IndexMod) + i) % Size = (r + 1 + i) % Size
<1>1. CASE r + 1 = IndexMod
  <2>1. ((r + 1) % IndexMod) + i = i /\ r + 1 + i = i + IndexMod
    BY <1>1, NextIndex, Sizes DEF Idx
  <2> QED BY <2>1, SlotAfterWrap
<1>2. CASE r + 1 # IndexMod
  BY <1>2, NextIndex DEF Idx
<1> QED BY <1>1, <1>2

-----------------------------------------------------------------------------
(* Windows.                                                                *)
LEMMA WindowIsSeq ==
  ASSUME NEW ring \in Ring, NEW r \in Idx, NEW n \in Nat
  PROVE  /\ Window(ring, r, n) \in Seq(Int) /\ Len(Window(ring, r, n)) = n
         /\ \A i \in 1..n : Window(ring, r, n)[i] = ring[(r + i - 1) % Size]
<1>1. \A i \in 1..n : (r + i - 1) % Size \in Places
  BY SlotAfterWrap DEF Idx
<1>2. \A i \in 1..n : ring[(r + i - 1) % Size] \in Int
  BY <1>1 DEF Ring
<1> QED BY <1>2 DEF Window

LEMMA WindowGrows ==
  ASSUME NEW ring \in Ring, NEW r \in Idx, NEW n \in Nat
  PROVE  Window(ring, r, n + 1) = Append(Window(ring, r, n), ring[(r + n) % Size])
<1> DEFINE old == Window(ring, r, n)
           new == Window(ring, r, n + 1)
           last == ring[(r + n) % Size]
<1>1. /\ old \in Seq(Int) /\ Len(old) = n
      /\ \A i \in 1..n : old[i] = ring[(r + i - 1) % Size]
  BY WindowIsSeq
<1>2. /\ new \in Seq(Int) /\ Len(new) = n + 1
      /\ \A i \in 1..(n + 1) : new[i] = ring[(r + i - 1) % Size]
  BY WindowIsSeq
<1>3. last \in Int /\ new[n + 1] = last
  <2>1. r + (n + 1) - 1 = r + n /\ (r + n) % Size \in Places
    BY SlotAfterWrap DEF Idx
  <2> QED BY <1>2, <2>1 DEF Ring
<1> HIDE DEF old, new, last
<1>4. /\ Append(old, last) \in Seq(Int) /\ Len(Append(old, last)) = n + 1
      /\ \A i \in 1..n : Append(old, last)[i] = old[i]
      /\ Append(old, last)[n + 1] = last
  BY <1>1, <1>3
<1>5. \A i \in 1..(n + 1) : new[i] = Append(old, last)[i]
  <2> TAKE i \in 1..(n + 1)
  <2>1. CASE i = n + 1
    BY <1>3, <1>4, <2>1
  <2>2. CASE i \in 1..n
    BY <1>1, <1>2, <1>4, <2>2
  <2>3. i = n + 1 \/ i \in 1..n
    OBVIOUS
  <2> QED BY <2>1, <2>2, <2>3
<1>6. new = Append(old, last)
  BY <1>2, <1>4, <1>5, SeqEqual
<1> QED BY <1>6 DEF old, new, last

LEMMA WindowShrinks ==
  ASSUME NEW ring \in Ring, NEW r \in Idx, NEW n \in Nat \ {0}
  PROVE  /\ Window(ring, r, n) # <<>>
         /\ Head(Window(ring, r, n)) = ring[r % Size]
         /\ Window(ring, (r + 1) % IndexMod, n - 1) = Tail(Window(ring, r, n))
<1> DEFINE old == Window(ring, r, n)
           new == Window(ring, (r + 1) % IndexMod, n - 1)
<1>1. /\ old \in Seq(Int) /\ Len(old) = n
      /\ \A i \in 1..n : old[i] = ring[(r + i - 1) % Size]
  BY WindowIsSeq
<1>2. /\ new \in Seq(Int) /\ Len(new) = n - 1
      /\ \A i \in 1..(n - 1) : new[i] = ring[(((r + 1) % IndexMod) + i - 1) % Size]
  <2>1. (r + 1) % IndexMod \in Idx /\ n - 1 \in Nat
    BY NextIndex
  <2> QED BY <2>1, WindowIsSeq
<1>3. old[1] = ring[r % Size]
  <2>1. r + 1 - 1 = r
    BY DEF Idx
  <2> QED BY <1>1, <2>1
<1>4. \A i \in 1..(n - 1) : new[i] = old[i + 1]
  <2> TAKE i \in 1..(n - 1)
  <2>1. (((r + 1) % IndexMod) + (i - 1)) % Size = (r + 1 + (i - 1)) % Size
    BY SlotOfNext
  <2>2. /\ ((r + 1) % IndexMod) + (i - 1) = ((r + 1) % IndexMod) + i - 1
        /\ r + 1 + (i - 1) = r + (i + 1) - 1
        /\ i + 1 \in 1..n
    BY NextIndex DEF Idx
  <2>3. new[i] = ring[(r + 1 + (i - 1)) % Size]
    BY <1>2, <2>1, <2>2
  <2>4. old[i + 1] = ring[(r + (i + 1) - 1) % Size]
    BY <1>1, <2>2
  <2> HIDE DEF old, new
  <2> QED BY <2>2, <2>3, <2>4
<1> HIDE DEF old, new
<1>5. /\ old # <<>> /\ Head(old) = old[1]
      /\ Tail(old) \in Seq(Int) /\ Len(Tail(old)) = n - 1
      /\ \A i \in 1..(n - 1) : Tail(old)[i] = old[i + 1]
  BY <1>1, EmptySeq
<1>6. new = Tail(old)
  BY <1>2, <1>4, <1>5, SeqEqual
<1> QED BY <1>3, <1>5, <1>6 DEF old, new

\* Filling the slot right after a window that leaves room does not touch it.
LEMMA WindowKept ==
  ASSUME NEW ring \in Ring, NEW r \in Idx, NEW n \in Nat, n < Size, NEW p \in Int
  PROVE  Window([ring EXCEPT ![(r + n) % Size] = p], r, n) = Window(ring, r, n)
<1> DEFINE filled == [ring EXCEPT ![(r + n) % Size] = p]
<1>1. filled \in Ring
  BY DEF Ring
<1>2. \A i \in 1..n : filled[(r + i - 1) % Size] = ring[(r + i - 1) % Size]
  <2> TAKE i \in 1..n
  <2>1. /\ r + i - 1 \in Int /\ r + n \in Int
        /\ r + i - 1 < r + n /\ r + n < r + i - 1 + Size
    BY Sizes DEF Idx
  <2>2. (r + i - 1) % Size # (r + n) % Size
    BY <2>1, Sizes, RemaindersDiffer
  <2>3. (r + i - 1) % Size \in Places
    BY <2>1, SlotAfterWrap
  <2> QED BY <2>2, <2>3 DEF Ring
<1> QED BY <1>2 DEF Window

-----------------------------------------------------------------------------
(* What the two threads keep.                                              *)
RingTypes ==
  /\ slots \in [Devices -> Ring]
  /\ rdIdx \in [Devices -> Idx] /\ wrIdx \in [Devices -> Idx]
  /\ allocated \in [Devices -> BOOLEAN] /\ mask \in [Devices -> {0, Size - 1}]

WriterTypes ==
  /\ wpc \in {"idle", "init", "size", "test", "fill", "bump", "check", "hint", "signal"}
  /\ wdev \in Devices /\ packet \in 0..MaxPackets
  /\ wpc # "idle" => packet \in Packets

ReaderTypes ==
  /\ rpc \in {"top", "sem", "asleep", "visit", "poll", "burst", "pop", "future", "done"}
  /\ rdev \in Devices /\ pkg \in Int

\* A wakeup is owed only when the packet thread saw none outstanding.
OneWakeup == count \in 0..1 /\ (wpc = "signal" => count = 0)

\* Only a ring whose mask is set is ever written to.
Ready ==
  /\ \A d \in Devices : allocated[d] => mask[d] = Size - 1 \/ (wpc = "size" /\ d = wdev)
  /\ \A d \in Devices : mask[d] = Size - 1 \/ rdIdx[d] = wrIdx[d]
  /\ wpc \in {"test", "fill", "bump"} => mask[wdev] = Size - 1

\* The room the packet thread found is still there when it stores.
Fits ==
  /\ \A d \in Devices : Used(d) <= Size
  /\ wpc \in {"fill", "bump"} => Used(wdev) < Size

\* The slot is filled before the index shows it, and read before it is freed.
Filled == wpc = "bump" => slots[wdev][wrIdx[wdev] % Size] = packet
Carried ==
  rpc = "pop" =>
    rdIdx[rdev] # wrIdx[rdev] /\ pkg = slots[rdev][rdIdx[rdev] % Size]

PacketsInv ==
  /\ RingTypes /\ WriterTypes /\ ReaderTypes
  /\ OneWakeup /\ Ready /\ Fits /\ Filled /\ Carried

\* Used and Contents are the distance and the window of the first part.
LEMMA RingOf ==
  ASSUME RingTypes, NEW d \in Devices
  PROVE  /\ slots[d] \in Ring /\ rdIdx[d] \in Idx /\ wrIdx[d] \in Idx
         /\ Used(d) = Dist(rdIdx[d], wrIdx[d]) /\ Used(d) \in Nat
         /\ Contents(d) = Window(slots[d], rdIdx[d], Used(d))
         /\ Used(d) = 0 <=> rdIdx[d] = wrIdx[d]
<1>1. slots[d] \in Ring /\ rdIdx[d] \in Idx /\ wrIdx[d] \in Idx
  BY DEF RingTypes
<1>2. Used(d) = Dist(rdIdx[d], wrIdx[d])
  BY DEF Used, Dist
<1>3. Used(d) \in Nat /\ (Used(d) = 0 <=> rdIdx[d] = wrIdx[d])
  <2>1. Dist(rdIdx[d], wrIdx[d]) \in Idx /\ (Dist(rdIdx[d], wrIdx[d]) = 0 <=> rdIdx[d] = wrIdx[d])
    BY <1>1, DistValue
  <2>2. \A i \in Idx : i \in Nat
    BY DEF Idx
  <2> QED BY <1>2, <2>1, <2>2
<1>4. Contents(d) = Window(slots[d], rdIdx[d], Used(d))
  BY DEF Contents, Window
<1> QED BY <1>1, <1>2, <1>3, <1>4

LEMMA DeviceNumbers == 1 \in Devices /\ \A d \in Devices : d \in Int /\ (d < LidarCount => d + 1 \in Devices)
  BY PacketsAssumption DEF Devices

\* Every step is one of the following, and the quiet ones leave the rings.
LEMMA PacketsActions ==
  ASSUME [PacketsNext]_packetVars
  PROVE  \/ \E d \in Devices : Deliver(d) \/ BeginSampling(d)
         \/ InitQueue \/ TestFull \/ FillSlot \/ AdvanceWrite \/ CheckQueue
         \/ ReadCount \/ Signal
         \/ ReadExit \/ Wait \/ Visit \/ Poll \/ CopySlot \/ AdvanceRead
         \/ ReadFuture \/ SpuriousWakeup \/ AskToExit
         \/ UNCHANGED packetVars
  BY DEF PacketsNext, Writer, Reader

LEMMA RingsUntouched ==
  ASSUME \/ \E d \in Devices : Deliver(d) \/ BeginSampling(d)
         \/ TestFull \/ CheckQueue \/ ReadCount \/ Signal
         \/ ReadExit \/ Wait \/ Visit \/ Poll \/ CopySlot
         \/ ReadFuture \/ SpuriousWakeup \/ AskToExit
         \/ UNCHANGED packetVars
  PROVE  UNCHANGED ringVars
  BY DEF Deliver, BeginSampling, TestFull, CheckQueue, ReadCount, Signal, ReadExit,
         Wait, Visit, Poll, CopySlot, ReadFuture, SpuriousWakeup, AskToExit,
         ReaderLocal, packetVars

\* Steps of nobody, or of the poll thread, leave the packet thread alone.
LEMMA WriterUntouched ==
  ASSUME \/ \E d \in Devices : BeginSampling(d)
         \/ ReadExit \/ Wait \/ Visit \/ Poll \/ CopySlot \/ AdvanceRead
         \/ ReadFuture \/ SpuriousWakeup \/ AskToExit
         \/ UNCHANGED packetVars
  PROVE  UNCHANGED writerVars
  BY DEF BeginSampling, ReadExit, Wait, Visit, Poll, CopySlot, AdvanceRead, ReadFuture,
         SpuriousWakeup, AskToExit, ReaderLocal, packetVars

LEMMA ReaderUntouched ==
  ASSUME \/ \E d \in Devices : Deliver(d) \/ BeginSampling(d)
         \/ InitQueue \/ TestFull \/ FillSlot \/ AdvanceWrite \/ CheckQueue
         \/ ReadCount \/ AskToExit
         \/ UNCHANGED packetVars
  PROVE  UNCHANGED readerVars
  BY DEF Deliver, BeginSampling, InitQueue, TestFull, FillSlot, AdvanceWrite,
         CheckQueue, ReadCount, AskToExit, packetVars

-----------------------------------------------------------------------------
LEMMA RingTypesKept ==
  ASSUME RingTypes, WriterTypes, ReaderTypes, Ready, [PacketsNext]_packetVars
  PROVE  RingTypes'
<1>1. CASE InitQueue
  BY <1>1 DEF InitQueue, RingTypes, WriterTypes
<1>2. CASE FillSlot
  <2>1. /\ slots' = [slots EXCEPT ![wdev][Slot(wdev, wrIdx[wdev])] = packet]
        /\ UNCHANGED <<rdIdx, wrIdx, allocated, mask>>
    BY <1>2 DEF FillSlot
  <2>2. wdev \in Devices /\ packet \in Int /\ slots[wdev] \in Ring
    BY DEF RingTypes, WriterTypes
  <2>3. [slots[wdev] EXCEPT ![Slot(wdev, wrIdx[wdev])] = packet] \in Ring
    BY <2>2 DEF Ring
  <2>4. slots' \in [Devices -> Ring]
    BY <2>1, <2>3 DEF RingTypes
  <2> QED BY <2>1, <2>4 DEF RingTypes
<1>3. CASE AdvanceWrite
  <2>1. /\ wrIdx' = [wrIdx EXCEPT ![wdev] = (wrIdx[wdev] + 1) % IndexMod]
        /\ UNCHANGED <<slots, rdIdx, allocated, mask>>
    BY <1>3 DEF AdvanceWrite
  <2>2. wdev \in Devices /\ (wrIdx[wdev] + 1) % IndexMod \in Idx
    BY NextIndex DEF RingTypes, WriterTypes
  <2> QED BY <2>1, <2>2 DEF RingTypes
<1>4. CASE AdvanceRead
  <2>1. /\ rdIdx' = [rdIdx EXCEPT ![rdev] = (rdIdx[rdev] + 1) % IndexMod]
        /\ UNCHANGED <<slots, wrIdx, allocated, mask>>
    BY <1>4 DEF AdvanceRead
  <2>2. rdev \in Devices /\ (rdIdx[rdev] + 1) % IndexMod \in Idx
    BY NextIndex DEF RingTypes, ReaderTypes
  <2> QED BY <2>1, <2>2 DEF RingTypes
<1>5. CASE UNCHANGED ringVars
  BY <1>5 DEF ringVars, RingTypes
<1> QED BY <1>1, <1>2, <1>3, <1>4, <1>5, RingsUntouched, PacketsActions

LEMMA WriterTypesKept ==
  ASSUME WriterTypes, [PacketsNext]_packetVars
  PROVE  WriterTypes'
<1> USE DEF WriterTypes, WriterGoes
<1>1. ASSUME NEW d \in Devices, Deliver(d) PROVE WriterTypes'
  BY <1>1, PacketsAssumption DEF Deliver, Packets
<1>2. CASE InitQueue
  BY <1>2 DEF InitQueue
<1>3. CASE TestFull
  BY <1>3 DEF TestFull, RefusedGoes
<1>4. CASE FillSlot
  BY <1>4 DEF FillSlot
<1>5. CASE AdvanceWrite
  BY <1>5 DEF AdvanceWrite
<1>6. CASE CheckQueue \/ ReadCount \/ Signal
  BY <1>6 DEF CheckQueue, ReadCount, Signal
<1>7. CASE UNCHANGED writerVars
  BY <1>7 DEF writerVars
<1> QED BY <1>1, <1>2, <1>3, <1>4, <1>5, <1>6, <1>7, WriterUntouched, PacketsActions

LEMMA ReaderTypesKept ==
  ASSUME RingTypes, ReaderTypes, Ready, [PacketsNext]_packetVars
  PROVE  ReaderTypes'
<1> USE DEF ReaderTypes, ReaderGoes
<1>1. CASE ReadExit \/ ReadFuture \/ SpuriousWakeup
  BY <1>1 DEF ReadExit, ReadFuture, SpuriousWakeup
<1>2. CASE Wait
  BY <1>2, DeviceNumbers DEF Wait
<1>3. CASE Visit \/ Poll
  BY <1>3, DeviceNumbers DEF Visit, Poll, NextDevice
<1>4. CASE CopySlot
  <2>1. CASE QueueIsEmpty(rdev)
    BY <1>4, <2>1 DEF CopySlot
  <2>2. CASE ~QueueIsEmpty(rdev)
    <3>1. /\ rpc' = "pop" /\ rdev' = rdev
          /\ pkg' = slots[rdev][rdIdx[rdev] % (mask[rdev] + 1)]
      BY <1>4, <2>2 DEF CopySlot, Slot
    <3>2. mask[rdev] + 1 = Size
      BY <2>2, Sizes DEF QueueIsEmpty, Ready
    <3>3. slots[rdev] \in Ring /\ rdIdx[rdev] % Size \in Places
      BY SlotAfterWrap DEF RingTypes, Idx
    <3> QED BY <3>1, <3>2, <3>3 DEF Ring
  <2> QED BY <2>1, <2>2
<1>5. CASE AdvanceRead
  BY <1>5 DEF AdvanceRead, NoPacket
<1>6. CASE Signal
  BY <1>6 DEF Signal
<1>7. CASE UNCHANGED readerVars
  BY <1>7 DEF readerVars
<1> QED BY <1>1, <1>2, <1>3, <1>4, <1>5, <1>6, <1>7, ReaderUntouched, PacketsActions

LEMMA OneWakeupKept ==
  ASSUME OneWakeup, [PacketsNext]_packetVars
  PROVE  OneWakeup'
<1> USE DEF OneWakeup, WriterGoes
<1>1. ASSUME NEW d \in Devices, Deliver(d) PROVE OneWakeup'
  BY <1>1 DEF Deliver
<1>2. CASE InitQueue \/ FillSlot \/ AdvanceWrite \/ CheckQueue
  BY <1>2 DEF InitQueue, FillSlot, AdvanceWrite, CheckQueue
<1>3. CASE TestFull
  BY <1>3 DEF TestFull, RefusedGoes
<1>4. CASE ReadCount
  BY <1>4 DEF ReadCount, SignalNeeded
<1>5. CASE Signal
  BY <1>5 DEF Signal
<1>6. CASE Wait
  BY <1>6 DEF Wait, writerVars
<1>7. (\E d \in Devices : BeginSampling(d)) \/ ReadExit \/ Visit \/ Poll \/ CopySlot
        \/ AdvanceRead \/ ReadFuture \/ SpuriousWakeup \/ AskToExit \/ UNCHANGED packetVars
      => UNCHANGED <<count, wpc>>
  BY DEF BeginSampling, ReadExit, Visit, Poll, CopySlot, AdvanceRead, ReadFuture,
         SpuriousWakeup, AskToExit, ReaderLocal, packetVars, writerVars
<1>8. CASE UNCHANGED <<count, wpc>>
  BY <1>8
<1> QED BY <1>1, <1>2, <1>3, <1>4, <1>5, <1>6, <1>7, <1>8, PacketsActions

LEMMA ReadyKept ==
  ASSUME RingTypes, WriterTypes, ReaderTypes, Ready, Carried, [PacketsNext]_packetVars
  PROVE  Ready'
<1> USE DEF Ready, RingTypes, WriterTypes, WriterGoes
<1>1. ASSUME NEW d \in Devices, Deliver(d) PROVE Ready'
  BY <1>1 DEF Deliver, ringVars
<1>2. CASE InitQueue
  BY <1>2 DEF InitQueue
<1>3. CASE TestFull
  BY <1>3 DEF TestFull, RefusedGoes, ringVars
<1>4. CASE FillSlot
  BY <1>4 DEF FillSlot
<1>5. CASE AdvanceWrite
  BY <1>5 DEF AdvanceWrite
<1>6. CASE AdvanceRead
  <2>1. /\ rpc = "pop" /\ \A d \in Devices \ {rdev} : rdIdx'[d] = rdIdx[d]
        /\ UNCHANGED <<wrIdx, allocated, mask, wpc, wdev>>
    BY <1>6 DEF AdvanceRead, writerVars
  <2>2. mask[rdev] = Size - 1
    BY <2>1 DEF Carried, ReaderTypes
  <2> QED BY <2>1, <2>2
<1>7. CASE CheckQueue \/ ReadCount \/ Signal
  BY <1>7 DEF CheckQueue, ReadCount, Signal, ringVars
<1>8. CASE UNCHANGED <<ringVars, writerVars>>
  BY <1>8 DEF ringVars, writerVars
<1> QED BY <1>1, <1>2, <1>3, <1>4, <1>5, <1>6, <1>7, <1>8, WriterUntouched,
           RingsUntouched, PacketsActions

\* How the two moves of an index change the room in every ring.
LEMMA UsedAfterWrite ==
  ASSUME RingTypes, RingTypes', WriterTypes, AdvanceWrite, Used(wdev) < Size
  PROVE  /\ Used(wdev)' = Used(wdev) + 1
         /\ \A d \in Devices \ {wdev} : Used(d)' = Used(d)
<1>1. /\ wrIdx' = [wrIdx EXCEPT ![wdev] = (wrIdx[wdev] + 1) % IndexMod]
      /\ rdIdx' = rdIdx /\ wdev' = wdev
  BY DEF AdvanceWrite, WriterGoes
<1>2. wdev \in Devices /\ rdIdx[wdev] \in Idx /\ wrIdx[wdev] \in Idx
  BY DEF RingTypes, WriterTypes
<1>3. wrIdx'[wdev] = (wrIdx[wdev] + 1) % IndexMod
  BY <1>1, <1>2 DEF RingTypes
<1>4. Dist(rdIdx[wdev], wrIdx[wdev]) < Size
  BY DEF Used, Dist
<1>5. Dist(rdIdx[wdev], wrIdx'[wdev]) = Dist(rdIdx[wdev], wrIdx[wdev]) + 1
  BY <1>2, <1>3, <1>4, DistGrows
<1>6. \A d \in Devices \ {wdev} : wrIdx'[d] = wrIdx[d]
  BY <1>1 DEF RingTypes
<1> QED BY <1>1, <1>5, <1>6 DEF Used, Dist

LEMMA UsedAfterRead ==
  ASSUME RingTypes, ReaderTypes, Carried, AdvanceRead
  PROVE  /\ Used(rdev)' = Used(rdev) - 1
         /\ \A d \in Devices \ {rdev} : Used(d)' = Used(d)
<1>1. /\ rdIdx' = [rdIdx EXCEPT ![rdev] = (rdIdx[rdev] + 1) % IndexMod]
      /\ wrIdx' = wrIdx /\ rdev' = rdev /\ rpc = "pop"
  BY DEF AdvanceRead
<1>2. rdev \in Devices /\ rdIdx[rdev] \in Idx /\ wrIdx[rdev] \in Idx
  BY DEF RingTypes, ReaderTypes
<1>3. rdIdx'[rdev] = (rdIdx[rdev] + 1) % IndexMod
  BY <1>1, <1>2 DEF RingTypes
<1>4. Dist(rdIdx'[rdev], wrIdx[rdev]) = Dist(rdIdx[rdev], wrIdx[rdev]) - 1
  BY <1>1, <1>2, <1>3, DistShrinks DEF Carried
<1>5. \A d \in Devices \ {rdev} : rdIdx'[d] = rdIdx[d]
  BY <1>1 DEF RingTypes
<1> QED BY <1>1, <1>4, <1>5 DEF Used, Dist

LEMMA FitsKept ==
  ASSUME RingTypes, RingTypes', WriterTypes, ReaderTypes, Ready, Fits, Carried,
         [PacketsNext]_packetVars
  PROVE  Fits'
<1>1. \A d \in Devices : Used(d) \in Nat
  BY RingOf
<1>2. wdev \in Devices /\ rdev \in Devices
  BY DEF WriterTypes, ReaderTypes
<1>3. ASSUME NEW d \in Devices, Deliver(d) PROVE Fits'
  BY <1>3 DEF Deliver, ringVars, Fits, Used
<1>4. CASE TestFull
  <2>1. UNCHANGED <<rdIdx, wrIdx, wdev>> /\ \A d \in Devices : Used(d)' = Used(d)
    BY <1>4 DEF TestFull, ringVars, WriterGoes, Used
  <2>2. CASE QueueIsFull(wdev)
    <3>1. wpc' = "hint"
      BY <1>4, <2>2 DEF TestFull, WriterGoes, RefusedGoes
    <3> QED BY <2>1, <3>1 DEF Fits
  <2>3. CASE ~QueueIsFull(wdev)
    <3>1. mask[wdev] = Size - 1
      BY <1>4 DEF TestFull, Ready
    <3>2. ~(Used(wdev) > Size - 1)
      BY <2>3, <3>1 DEF QueueIsFull
    <3>3. Used(wdev) < Size
      BY <1>1, <1>2, <3>2, Sizes
    <3>4. Used(wdev)' < Size
      BY <1>2, <2>1, <3>3 DEF Used
    <3> QED BY <2>1, <3>4 DEF Fits
  <2> QED BY <2>2, <2>3
<1>5. CASE FillSlot
  BY <1>5 DEF FillSlot, WriterGoes, Fits, Used
<1>6. CASE AdvanceWrite
  <2>1. wpc = "bump" /\ wpc' = "check"
    BY <1>6 DEF AdvanceWrite, WriterGoes
  <2>2. Used(wdev) < Size
    BY <2>1 DEF Fits
  <2>3. \A d \in Devices : Used(d)' <= Size
    <3> TAKE d \in Devices
    <3>1. CASE d = wdev
      <4>1. wdev' = wdev
        BY <1>6 DEF AdvanceWrite, WriterGoes
      <4>2. Used(d)' = Used(wdev)'
        BY <3>1, <4>1 DEF Used
      <4>3. Used(wdev)' = Used(wdev) + 1
        BY <1>6, <2>2, UsedAfterWrite
      <4> QED BY <1>1, <1>2, <2>2, <4>2, <4>3, Sizes
    <3>2. CASE d # wdev
      BY <1>6, <2>2, <3>2, UsedAfterWrite DEF Fits
    <3> QED BY <3>1, <3>2
  <2> QED BY <2>1, <2>3 DEF Fits
<1>7. CASE AdvanceRead
  <2>1. wpc' = wpc /\ wdev' = wdev /\ rdev' = rdev
    BY <1>7 DEF AdvanceRead, writerVars
  <2>2. \A d \in Devices : Used(d)' <= Used(d) /\ Used(d)' \in Int
    <3> TAKE d \in Devices
    <3>1. CASE d = rdev
      <4>1. Used(d)' = Used(rdev)'
        BY <2>1, <3>1 DEF Used
      <4>2. Used(rdev)' = Used(rdev) - 1
        BY <1>7, UsedAfterRead
      <4> QED BY <1>1, <1>2, <3>1, <4>1, <4>2
    <3>2. CASE d # rdev
      <4>1. Used(d)' = Used(d)
        BY <1>7, <3>2, UsedAfterRead
      <4> QED BY <1>1, <4>1
    <3> QED BY <3>1, <3>2
  <2>3. Used(wdev)' <= Used(wdev) /\ Used(wdev)' \in Int
    BY <1>2, <2>1, <2>2 DEF Used
  <2> QED BY <1>1, <1>2, <2>1, <2>2, <2>3, Sizes DEF Fits
<1>8. CASE InitQueue \/ CheckQueue \/ ReadCount \/ Signal
  BY <1>8 DEF InitQueue, CheckQueue, ReadCount, Signal, WriterGoes, ringVars, Fits, Used
<1>9. CASE UNCHANGED <<ringVars, writerVars>>
  BY <1>9 DEF ringVars, writerVars, Fits, Used
<1> QED BY <1>3, <1>4, <1>5, <1>6, <1>7, <1>8, <1>9, WriterUntouched,
           RingsUntouched, PacketsActions

LEMMA FilledKept ==
  ASSUME RingTypes, WriterTypes, Ready, Filled, [PacketsNext]_packetVars
  PROVE  Filled'
<1>1. ASSUME NEW d \in Devices, Deliver(d) PROVE Filled'
  BY <1>1 DEF Deliver, Filled
<1>2. CASE InitQueue \/ TestFull \/ AdvanceWrite \/ CheckQueue \/ ReadCount \/ Signal
  BY <1>2 DEF InitQueue, TestFull, RefusedGoes, AdvanceWrite, CheckQueue, ReadCount,
              Signal, WriterGoes, Filled
<1>3. CASE FillSlot
  <2>1. /\ slots' = [slots EXCEPT ![wdev][wrIdx[wdev] % (mask[wdev] + 1)] = packet]
        /\ wpc = "fill" /\ UNCHANGED <<wrIdx, wdev, packet>>
    BY <1>3 DEF FillSlot, WriterGoes, Slot
  <2>2. mask[wdev] + 1 = Size
    BY <2>1, Sizes DEF Ready
  <2>3. wdev \in Devices /\ slots[wdev] \in Ring /\ wrIdx[wdev] % Size \in Places
    BY SlotAfterWrap DEF RingTypes, WriterTypes, Idx
  <2>4. slots'[wdev] = [slots[wdev] EXCEPT ![wrIdx[wdev] % Size] = packet]
    BY <2>1, <2>2, <2>3 DEF RingTypes
  <2>5. slots'[wdev][wrIdx[wdev] % Size] = packet
    BY <2>3, <2>4 DEF Ring
  <2> QED BY <2>1, <2>5 DEF Filled
<1>4. CASE AdvanceRead
  BY <1>4 DEF AdvanceRead, writerVars, Filled
<1>5. CASE UNCHANGED <<ringVars, writerVars>>
  BY <1>5 DEF ringVars, writerVars, Filled
<1> QED BY <1>1, <1>2, <1>3, <1>4, <1>5, WriterUntouched, RingsUntouched, PacketsActions

\* What FillSlot does to the rings: one slot, right after what the ring shows.
LEMMA RingAfterFill ==
  ASSUME RingTypes, WriterTypes, Ready, FillSlot
  PROVE  /\ UNCHANGED <<rdIdx, wrIdx>>
         /\ \A d \in Devices \ {wdev} : slots'[d] = slots[d]
         /\ slots'[wdev] =
              [slots[wdev] EXCEPT ![(rdIdx[wdev] + Used(wdev)) % Size] = packet]
<1>1. /\ slots' = [slots EXCEPT ![wdev][wrIdx[wdev] % (mask[wdev] + 1)] = packet]
      /\ wpc = "fill" /\ UNCHANGED <<rdIdx, wrIdx>>
  BY DEF FillSlot, Slot
<1>2. mask[wdev] + 1 = Size
  BY <1>1, Sizes DEF Ready
<1>3. wdev \in Devices
  BY DEF WriterTypes
<1>4. wrIdx[wdev] % Size = (rdIdx[wdev] + Used(wdev)) % Size
  BY <1>3, RingOf, SlotOfWriter
<1>5. slots'[wdev] = [slots[wdev] EXCEPT ![wrIdx[wdev] % Size] = packet]
  BY <1>1, <1>2, <1>3 DEF RingTypes
<1>6. \A d \in Devices \ {wdev} : slots'[d] = slots[d]
  BY <1>1, <1>2, <1>3 DEF RingTypes
<1> QED BY <1>1, <1>4, <1>5, <1>6

LEMMA CarriedKept ==
  ASSUME RingTypes, RingTypes', WriterTypes, ReaderTypes, Ready, Fits, Carried,
         [PacketsNext]_packetVars
  PROVE  Carried'
<1>1. wdev \in Devices /\ rdev \in Devices
  BY DEF WriterTypes, ReaderTypes
<1>2. CASE CopySlot
  <2>1. CASE QueueIsEmpty(rdev)
    BY <1>2, <2>1 DEF CopySlot, ReaderGoes, Carried
  <2>2. CASE ~QueueIsEmpty(rdev)
    <3>1. /\ rdev' = rdev /\ pkg' = slots[rdev][rdIdx[rdev] % (mask[rdev] + 1)]
          /\ UNCHANGED <<slots, rdIdx, wrIdx>>
      BY <1>2, <2>2 DEF CopySlot, Slot, ReaderLocal, ringVars
    <3>2. rdIdx[rdev] # wrIdx[rdev]
      BY <2>2 DEF QueueIsEmpty
    <3>3. mask[rdev] + 1 = Size
      BY <1>1, <3>2, Sizes DEF Ready
    <3> QED BY <3>1, <3>2, <3>3 DEF Carried
  <2> QED BY <2>1, <2>2
<1>3. CASE FillSlot
  <2>1. UNCHANGED <<rpc, rdev, pkg>> /\ wpc = "fill"
    BY <1>3 DEF FillSlot, readerVars
  <2>2. UNCHANGED <<rdIdx, wrIdx>>
    BY <1>3, RingAfterFill
  <2>3. CASE rdev # wdev
    <3>1. slots'[rdev] = slots[rdev]
      BY <1>1, <1>3, <2>3, RingAfterFill
    <3> QED BY <2>1, <2>2, <3>1 DEF Carried
  <2>4. CASE rdev = wdev /\ rpc = "pop"
    <3>1. slots'[rdev] = [slots[rdev] EXCEPT ![(rdIdx[rdev] + Used(rdev)) % Size] = packet]
      BY <1>3, <2>4, RingAfterFill
    <3>2. /\ rdIdx[rdev] \in Idx /\ slots[rdev] \in Ring /\ Used(rdev) \in Nat
          /\ Used(rdev) # 0
      BY <1>1, <2>4, RingOf DEF Carried
    <3>3. Used(rdev) < Size
      BY <2>1, <2>4 DEF Fits
    <3>4. rdIdx[rdev] % Size # (rdIdx[rdev] + Used(rdev)) % Size
      <4>1. /\ rdIdx[rdev] \in Int /\ rdIdx[rdev] + Used(rdev) \in Int
            /\ rdIdx[rdev] < rdIdx[rdev] + Used(rdev)
            /\ rdIdx[rdev] + Used(rdev) < rdIdx[rdev] + Size
        BY <3>2, <3>3, Sizes DEF Idx
      <4> QED BY <4>1, Sizes, RemaindersDiffer
    <3>5. rdIdx[rdev] % Size \in Places
      BY <3>2, SlotAfterWrap DEF Idx
    <3>6. slots'[rdev][rdIdx[rdev] % Size] = slots[rdev][rdIdx[rdev] % Size]
      BY <3>1, <3>2, <3>4, <3>5 DEF Ring
    <3> QED BY <2>1, <2>2, <2>4, <3>6 DEF Carried
  <2>5. CASE rpc # "pop"
    BY <2>1, <2>5 DEF Carried
  <2> QED BY <2>3, <2>4, <2>5
<1>4. CASE AdvanceWrite
  <2>1. UNCHANGED <<rpc, rdev, pkg, slots, rdIdx, wdev>> /\ wpc = "bump"
    BY <1>4 DEF AdvanceWrite, readerVars, WriterGoes
  <2>2. Used(wdev) < Size
    BY <2>1 DEF Fits
  <2>3. CASE rpc = "pop"
    <3>1. Used(rdev) \in Nat /\ Used(rdev) # 0
      BY <1>1, <2>3, RingOf DEF Carried
    <3>2. Used(rdev)' # 0
      <4>1. CASE rdev = wdev
        <5>1. Used(rdev)' = Used(wdev)'
          BY <2>1, <4>1 DEF Used
        <5>2. Used(wdev)' = Used(wdev) + 1
          BY <1>4, <2>2, UsedAfterWrite
        <5> QED BY <3>1, <4>1, <5>1, <5>2
      <4>2. CASE rdev # wdev
        <5>1. rdev' = rdev /\ \A d \in Devices \ {wdev} : (wrIdx' [d] - rdIdx'[d]) % IndexMod = Used(d)
          BY <1>4, <2>1, <2>2, UsedAfterWrite DEF Used
        <5>2. Used(rdev)' = Used(rdev)
          BY <1>1, <4>2, <5>1 DEF Used
        <5> QED BY <3>1, <5>2
      <4> QED BY <4>1, <4>2
    <3>3. wrIdx'[rdev] \in Idx /\ rdIdx'[rdev] \in Idx
      BY <1>1 DEF RingTypes
    <3>4. rdIdx'[rdev] # wrIdx'[rdev]
      <4>1. Used(rdev)' = Dist(rdIdx'[rdev], wrIdx'[rdev])
        BY <2>1 DEF Used, Dist
      <4> QED BY <3>2, <3>3, <4>1, DistValue
    <3> QED BY <2>1, <2>3, <3>4 DEF Carried
  <2>4. CASE rpc # "pop"
    BY <2>1, <2>4 DEF Carried
  <2> QED BY <2>3, <2>4
<1>5. CASE ReadExit \/ Wait \/ Visit \/ Poll \/ AdvanceRead \/ ReadFuture \/ SpuriousWakeup
  BY <1>5 DEF ReadExit, Wait, Visit, Poll, NextDevice, AdvanceRead, ReadFuture,
              SpuriousWakeup, ReaderGoes, Carried
<1>6. CASE Signal
  BY <1>6 DEF Signal, ringVars, Carried
<1>7. CASE InitQueue
  BY <1>7 DEF InitQueue, readerVars, Carried
<1>8. CASE UNCHANGED <<ringVars, readerVars>>
  BY <1>8 DEF ringVars, readerVars, Carried
<1> QED BY <1>2, <1>3, <1>4, <1>5, <1>6, <1>7, <1>8, ReaderUntouched,
           RingsUntouched, PacketsActions

-----------------------------------------------------------------------------
LEMMA PacketsInitInv ==
  ASSUME PacketsInit
  PROVE  PacketsInv
<1>1. 0 \in Idx /\ 0 \in 0..MaxPackets /\ 0 \in {0, Size - 1}
  BY Sizes, PacketsAssumption DEF Idx
<1>2. [i \in 0..(Size - 1) |-> NoPacket] \in Ring
  BY DEF Ring, Places, NoPacket
<1>3. RingTypes
  BY <1>1, <1>2 DEF PacketsInit, RingTypes
<1>4. WriterTypes /\ ReaderTypes
  BY <1>1, DeviceNumbers DEF PacketsInit, WriterTypes, ReaderTypes, NoPacket
<1>5. OneWakeup /\ Ready /\ Filled /\ Carried
  BY DEF PacketsInit, OneWakeup, Ready, Filled, Carried
<1>6. Fits
  <2>1. \A d \in Devices : rdIdx[d] = wrIdx[d]
    BY DEF PacketsInit
  <2>2. \A d \in Devices : Used(d) = 0
    BY <1>3, <2>1, RingOf
  <2>3. wpc = "idle"
    BY DEF PacketsInit
  <2> QED BY <2>2, <2>3, Sizes DEF Fits
<1> QED BY <1>3, <1>4, <1>5, <1>6 DEF PacketsInv

LEMMA PacketsNextInv ==
  ASSUME PacketsInv, [PacketsNext]_packetVars
  PROVE  PacketsInv'
<1>1. /\ RingTypes /\ WriterTypes /\ ReaderTypes
      /\ OneWakeup /\ Ready /\ Fits /\ Filled /\ Carried
  BY DEF PacketsInv
<1>2. RingTypes' /\ WriterTypes' /\ ReaderTypes'
  BY <1>1, RingTypesKept, WriterTypesKept, ReaderTypesKept
<1>3. OneWakeup' /\ Ready' /\ Filled'
  BY <1>1, OneWakeupKept, ReadyKept, FilledKept
<1>4. Fits' /\ Carried'
  BY <1>1, <1>2, FitsKept, CarriedKept
<1> QED BY <1>2, <1>3, <1>4 DEF PacketsInv

LEMMA PacketsInvariant == PacketsSpec => []PacketsInv
  BY PacketsInitInv, PacketsNextInv, PTL DEF PacketsSpec

\* However many packets of however many devices wait, at most one wakeup is
\* owed: the unlocked look at the count loses no exactness.
THEOREM WakeupsAreBinary == PacketsSpec => []SemaphoreIsBinary
<1>1. PacketsInv => SemaphoreIsBinary
  BY DEF PacketsInv, OneWakeup, SemaphoreIsBinary
<1> QED BY <1>1, PacketsInvariant, PTL

-----------------------------------------------------------------------------
(* The rings implement the queues.                                         *)
Shown == [d \in Devices |-> Contents(d)]

\* Storing: the window of the packet's ring gains the packet at its end.
LEMMA StoringPuts ==
  ASSUME PacketsInv, RingTypes', AdvanceWrite
  PROVE  /\ wdev \in Devices /\ packet \in Packets
         /\ Len(Contents(wdev)) < Size
         /\ Shown' = [Shown EXCEPT ![wdev] = Append(Contents(wdev), packet)]
         /\ UNCHANGED <<taken, lost>>
<1>1. /\ RingTypes /\ WriterTypes /\ Fits /\ Filled
      /\ wpc = "bump" /\ UNCHANGED <<slots, rdIdx, wdev, taken, lost>>
  BY DEF PacketsInv, AdvanceWrite, WriterGoes
<1>2. wdev \in Devices /\ packet \in Packets /\ Used(wdev) < Size
  BY <1>1 DEF WriterTypes, Fits
<1>3. /\ slots[wdev] \in Ring /\ rdIdx[wdev] \in Idx /\ wrIdx[wdev] \in Idx /\ Used(wdev) \in Nat
      /\ Used(wdev) = Dist(rdIdx[wdev], wrIdx[wdev])
      /\ Contents(wdev) = Window(slots[wdev], rdIdx[wdev], Used(wdev))
  BY <1>1, <1>2, RingOf
<1>4. Len(Contents(wdev)) = Used(wdev)
  BY <1>3, WindowIsSeq
<1>5. slots[wdev][(rdIdx[wdev] + Used(wdev)) % Size] = packet
  BY <1>1, <1>3, SlotOfWriter DEF Filled
<1>6. Window(slots[wdev], rdIdx[wdev], Used(wdev) + 1) = Append(Contents(wdev), packet)
  BY <1>3, <1>5, WindowGrows
<1>7. /\ Used(wdev)' = Used(wdev) + 1
      /\ \A d \in Devices \ {wdev} : Used(d)' = Used(d)
  BY <1>1, <1>2, UsedAfterWrite
<1>8. \A d \in Devices : Contents(d)' = Window(slots[d], rdIdx[d], Used(d)')
  BY <1>1 DEF Contents, Window
<1>9. \A d \in Devices \ {wdev} : Contents(d)' = Contents(d)
  BY <1>1, <1>7, <1>8, RingOf
<1>10. \A d \in Devices : d = wdev => Contents(d)' = Append(Contents(wdev), packet)
  <2>1. Used(wdev)' = (wrIdx'[wdev] - rdIdx'[wdev]) % IndexMod
    BY <1>1 DEF Used
  <2>2. \A d \in Devices : d = wdev => Used(d)' = Used(wdev)'
    BY <2>1 DEF Used
  <2> QED BY <1>6, <1>7, <1>8, <2>2
<1>11. \A d \in Devices : Shown'[d] = [Shown EXCEPT ![wdev] = Append(Contents(wdev), packet)][d]
  BY <1>2, <1>9, <1>10 DEF Shown
<1> QED BY <1>1, <1>2, <1>4, <1>11 DEF Shown

\* Taking: the packet in hand is the head, and the window loses it.
LEMMA ReadingTakes ==
  ASSUME PacketsInv, AdvanceRead
  PROVE  /\ rdev \in Devices /\ Contents(rdev) # <<>>
         /\ pkg = Head(Contents(rdev))
         /\ Shown' = [Shown EXCEPT ![rdev] = Tail(Contents(rdev))]
         /\ taken' = [taken EXCEPT ![rdev] = Append(@, pkg)]
         /\ lost' = lost
<1>1. /\ RingTypes /\ ReaderTypes /\ Carried
      /\ rpc = "pop" /\ UNCHANGED <<slots, wrIdx, rdev, lost>>
      /\ rdIdx' = [rdIdx EXCEPT ![rdev] = (rdIdx[rdev] + 1) % IndexMod]
      /\ taken' = [taken EXCEPT ![rdev] = Append(@, pkg)]
  BY DEF PacketsInv, AdvanceRead
<1>2. /\ rdev \in Devices /\ rdIdx[rdev] # wrIdx[rdev]
      /\ pkg = slots[rdev][rdIdx[rdev] % Size]
  BY <1>1 DEF ReaderTypes, Carried
<1>3. /\ slots[rdev] \in Ring /\ rdIdx[rdev] \in Idx /\ Used(rdev) \in Nat /\ Used(rdev) # 0
      /\ Contents(rdev) = Window(slots[rdev], rdIdx[rdev], Used(rdev))
  BY <1>1, <1>2, RingOf
<1>4. /\ Contents(rdev) # <<>> /\ Head(Contents(rdev)) = pkg
      /\ Window(slots[rdev], (rdIdx[rdev] + 1) % IndexMod, Used(rdev) - 1) = Tail(Contents(rdev))
  BY <1>2, <1>3, WindowShrinks
<1>5. /\ Used(rdev)' = Used(rdev) - 1
      /\ \A d \in Devices \ {rdev} : Used(d)' = Used(d)
  BY <1>1, UsedAfterRead
<1>6. /\ rdIdx'[rdev] = (rdIdx[rdev] + 1) % IndexMod
      /\ \A d \in Devices \ {rdev} : rdIdx'[d] = rdIdx[d]
  BY <1>1, <1>2 DEF RingTypes
<1>7. \A d \in Devices : Contents(d)' = Window(slots[d], rdIdx'[d], Used(d)')
  BY <1>1 DEF Contents, Window
<1>8. \A d \in Devices \ {rdev} : Contents(d)' = Contents(d)
  BY <1>1, <1>5, <1>6, <1>7, RingOf
<1>9. \A d \in Devices : d = rdev => Contents(d)' = Tail(Contents(rdev))
  <2>1. Used(rdev)' = (wrIdx'[rdev] - rdIdx'[rdev]) % IndexMod
    BY <1>1 DEF Used
  <2>2. \A d \in Devices : d = rdev => Used(d)' = Used(rdev)'
    BY <2>1 DEF Used
  <2> QED BY <1>4, <1>5, <1>6, <1>7, <2>2
<1>10. \A d \in Devices : Shown'[d] = [Shown EXCEPT ![rdev] = Tail(Contents(rdev))][d]
  BY <1>2, <1>8, <1>9 DEF Shown
<1> QED BY <1>1, <1>2, <1>4, <1>10 DEF Shown

\* Filling a slot shows nothing yet.
LEMMA FillingIsHidden ==
  ASSUME PacketsInv, FillSlot
  PROVE  Shown' = Shown
<1>1. /\ RingTypes /\ WriterTypes /\ Ready /\ wdev \in Devices /\ packet \in Int
      /\ Used(wdev) < Size
  BY DEF PacketsInv, WriterTypes, Fits, FillSlot
<1>2. /\ UNCHANGED <<rdIdx, wrIdx>>
      /\ \A d \in Devices \ {wdev} : slots'[d] = slots[d]
      /\ slots'[wdev] = [slots[wdev] EXCEPT ![(rdIdx[wdev] + Used(wdev)) % Size] = packet]
  BY <1>1, RingAfterFill
<1>3. \A d \in Devices : Contents(d)' = Window(slots'[d], rdIdx[d], Used(d))
  BY <1>2 DEF Contents, Window, Used
<1>4. Window(slots'[wdev], rdIdx[wdev], Used(wdev)) = Window(slots[wdev], rdIdx[wdev], Used(wdev))
  BY <1>1, <1>2, RingOf, WindowKept
<1>5. \A d \in Devices : Contents(d) = Window(slots[d], rdIdx[d], Used(d))
  BY <1>1, RingOf
<1>6. \A d \in Devices : Contents(d)' = Contents(d)
  BY <1>2, <1>3, <1>4, <1>5
<1> QED BY <1>6 DEF Shown

LEMMA RefusingIsFull ==
  ASSUME PacketsInv, TestFull
  PROVE  /\ Shown' = Shown /\ taken' = taken
         /\ \/ lost' = lost
            \/ /\ wdev \in Devices /\ packet \in Packets
               /\ Len(Contents(wdev)) = Size /\ lost' = lost \cup {packet}
<1>1. UNCHANGED <<slots, rdIdx, wrIdx, taken>>
  BY DEF TestFull, ringVars
<1>2. Shown' = Shown
  BY <1>1 DEF Shown, Contents, Used
<1>3. CASE QueueIsFull(wdev)
  <2>1. wpc = "test" /\ lost' = lost \cup {packet}
    BY <1>3 DEF TestFull
  <2>2. wdev \in Devices /\ packet \in Packets /\ mask[wdev] = Size - 1 /\ RingTypes /\ Used(wdev) <= Size
    BY <2>1 DEF PacketsInv, WriterTypes, Ready, Fits
  <2>3. /\ Used(wdev) \in Nat /\ slots[wdev] \in Ring /\ rdIdx[wdev] \in Idx
        /\ Contents(wdev) = Window(slots[wdev], rdIdx[wdev], Used(wdev))
    BY <2>2, RingOf
  <2>4. Used(wdev) = Size
    BY <1>3, <2>2, <2>3, Sizes DEF QueueIsFull
  <2>5. Len(Contents(wdev)) = Size
    BY <2>3, <2>4, WindowIsSeq
  <2> QED BY <1>1, <1>2, <2>1, <2>2, <2>5
<1>4. CASE ~QueueIsFull(wdev)
  BY <1>1, <1>2, <1>4 DEF TestFull
<1> QED BY <1>3, <1>4

LEMMA StepsAreFifoSteps ==
  ASSUME PacketsInv, PacketsInv', [PacketsNext]_packetVars
  PROVE  [Fifo!FifoNext]_(Fifo!fifoVars)
<1> USE DEF Fifo!FifoNext, Fifo!fifoVars
<1>1. Shown = [d \in Devices |-> Contents(d)] /\ \A d \in Devices : Shown[d] = Contents(d)
  BY DEF Shown
<1>2. CASE AdvanceWrite
  <2>1. RingTypes'
    BY DEF PacketsInv
  <2>2. Fifo!Put(wdev, packet)
    BY <1>1, <1>2, <2>1, StoringPuts DEF Fifo!Put, Shown
  <2>3. wdev \in Devices /\ packet \in Packets
    BY <1>2, <2>1, StoringPuts
  <2> QED BY <2>2, <2>3
<1>3. CASE AdvanceRead
  <2>1. Fifo!Take(rdev)
    BY <1>1, <1>3, ReadingTakes DEF Fifo!Take, Shown
  <2>2. rdev \in Devices
    BY <1>3, ReadingTakes
  <2> QED BY <2>1, <2>2
<1>4. CASE TestFull
  <2>1. CASE lost' = lost
    BY <1>4, <2>1, RefusingIsFull DEF Shown
  <2>2. CASE lost' # lost
    <3>1. Fifo!Refuse(wdev, packet) /\ wdev \in Devices /\ packet \in Packets
      BY <1>1, <1>4, <2>2, RefusingIsFull DEF Fifo!Refuse, Shown
    <3> QED BY <3>1
  <2> QED BY <2>1, <2>2
<1>5. CASE FillSlot
  <2>1. Shown' = Shown
    BY <1>5, FillingIsHidden
  <2>2. UNCHANGED <<taken, lost>>
    BY <1>5 DEF FillSlot, packetHistory
  <2> QED BY <2>1, <2>2 DEF Shown
<1>6. (\E d \in Devices : Deliver(d) \/ BeginSampling(d)) \/ InitQueue \/ CheckQueue
        \/ ReadCount \/ Signal \/ ReadExit \/ Wait \/ Visit \/ Poll \/ CopySlot
        \/ ReadFuture \/ SpuriousWakeup \/ AskToExit \/ UNCHANGED packetVars
      => UNCHANGED <<slots, rdIdx, wrIdx, taken, lost>>
  BY DEF Deliver, BeginSampling, InitQueue, CheckQueue, ReadCount, Signal, ReadExit,
         Wait, Visit, Poll, CopySlot, ReadFuture, SpuriousWakeup, AskToExit,
         ReaderLocal, packetVars, ringVars, packetHistory
<1>7. CASE UNCHANGED <<slots, rdIdx, wrIdx, taken, lost>>
  BY <1>7 DEF Contents, Used
<1> QED BY <1>2, <1>3, <1>4, <1>5, <1>6, <1>7, PacketsActions

\* Across the wrap of the indices, with no lock, every ring is a bounded
\* first-in first-out queue that refuses a packet only when it is full.
THEOREM RingsAreQueues == PacketsSpec => ImplementsFifo
<1>1. PacketsInit => Fifo!FifoInit
  <2> SUFFICES ASSUME PacketsInit PROVE Fifo!FifoInit
    OBVIOUS
  <2>1. \A d \in Devices : Used(d) = 0 /\ rdIdx[d] = 0
    <3>1. RingTypes /\ \A d \in Devices : rdIdx[d] = 0 /\ wrIdx[d] = 0
      BY PacketsInitInv DEF PacketsInv, PacketsInit
    <3> QED BY <3>1, RingOf
  <2>2. \A d \in Devices : Contents(d) = <<>>
    BY <2>1 DEF Contents
  <2> QED BY <2>2 DEF PacketsInit, Fifo!FifoInit
<1>2. PacketsInv /\ PacketsInv' /\ [PacketsNext]_packetVars => [Fifo!FifoNext]_(Fifo!fifoVars)
  BY StepsAreFifoSteps
<1> QED BY <1>1, <1>2, PacketsInvariant, PTL DEF PacketsSpec, ImplementsFifo, Fifo!FifoSpec

-----------------------------------------------------------------------------
(* Nothing is left behind.                                                 *)
Holds(d) == {Contents(d)[i] : i \in DOMAIN Contents(d)}

\* A ring that was never allocated is empty.
Allocated ==
  /\ \A d \in Devices : ~allocated[d] => rdIdx[d] = wrIdx[d]
  /\ wpc \in {"size", "test", "fill", "bump"} => allocated[wdev]

\* The packet in hand is in no ring yet, and not stored for anybody.
InHand == wpc \in {"init", "size", "test", "fill", "bump"}
Fresh ==
  /\ live \subseteq 0..packet /\ (InHand => packet \notin live)
  /\ \A d \in Devices : Holds(d) \subseteq 0..packet /\ (InHand => packet \notin Holds(d))

LiveShown == \A d \in Devices : Holds(d) \cap live # {} => sampling[d]

\* The poll thread has yet to pass the device in this round.
WillVisit(d) == rpc \in {"visit", "poll", "burst", "pop"} /\ rdev <= d

\* Somebody still owes the device a look, unless the loop is about to end.
Owed(d) ==
  \/ count = 1
  \/ wpc = "check" /\ wdev = d
  \/ wpc \in {"hint", "signal"}
  \/ WillVisit(d)
  \/ requestExit /\ rpc \notin {"sem", "asleep"}

LookIsOwed == \A d \in Devices : Holds(d) \cap live # {} => Owed(d)

WakeInv == PacketsInv /\ Allocated /\ Fresh /\ LiveShown /\ LookIsOwed

\* A ring that shows a packet is not empty.
LEMMA HoldsSomething ==
  ASSUME RingTypes, NEW d \in Devices, Holds(d) # {}
  PROVE  rdIdx[d] # wrIdx[d]
<1>1. Used(d) \in Nat
  BY RingOf
<1>2. DOMAIN Contents(d) = 1..Used(d)
  BY DEF Contents
<1>3. 1..Used(d) # {}
  BY <1>2 DEF Holds
<1>4. Used(d) # 0
  BY <1>3
<1> QED BY <1>4, RingOf

\* Only the packet thread's last step shows a packet, and only its own.
LEMMA HoldsAfter ==
  ASSUME PacketsInv, PacketsInv', [PacketsNext]_packetVars, NEW d \in Devices
  PROVE  \/ Holds(d)' \subseteq Holds(d)
         \/ AdvanceWrite /\ d = wdev /\ Holds(d)' \subseteq Holds(d) \cup {packet}
<1>1. RingTypes /\ RingTypes'
  BY DEF PacketsInv
<1>2. \A e \in Devices : Shown[e] = Contents(e) /\ Shown'[e] = Contents(e)'
  BY DEF Shown
<1>3. \A e \in Devices : Contents(e) \in Seq(Int)
  <2> TAKE e \in Devices
  <2>1. /\ slots[e] \in Ring /\ rdIdx[e] \in Idx /\ Used(e) \in Nat
        /\ Contents(e) = Window(slots[e], rdIdx[e], Used(e))
    BY <1>1, RingOf
  <2>2. Window(slots[e], rdIdx[e], Used(e)) \in Seq(Int)
    BY <2>1, WindowIsSeq
  <2> QED BY <2>1, <2>2
<1>4. CASE AdvanceWrite
  <2>1. Shown' = [Shown EXCEPT ![wdev] = Append(Contents(wdev), packet)]
    BY <1>1, <1>4, StoringPuts
  <2>2. CASE d # wdev
    <3>1. Contents(d)' = Contents(d)
      BY <1>2, <2>1, <2>2 DEF Shown
    <3> QED BY <3>1 DEF Holds
  <2>3. CASE d = wdev
    <3>1. Contents(d)' = Append(Contents(d), packet)
      BY <1>2, <2>1, <2>3 DEF Shown
    <3>2. packet \in Int
      BY DEF PacketsInv, WriterTypes
    <3>3. \A s \in Seq(Int), p \in Int :
            {Append(s, p)[i] : i \in DOMAIN Append(s, p)} \subseteq {s[i] : i \in DOMAIN s} \cup {p}
      <4> TAKE s \in Seq(Int), p \in Int
      <4>1. \A i \in DOMAIN Append(s, p) : i \in DOMAIN s \/ i = Len(s) + 1
        OBVIOUS
      <4>2. /\ \A i \in DOMAIN s : Append(s, p)[i] = s[i]
            /\ Append(s, p)[Len(s) + 1] = p
        OBVIOUS
      <4> QED BY <4>1, <4>2
    <3> QED BY <1>3, <1>4, <2>3, <3>1, <3>2, <3>3 DEF Holds
  <2> QED BY <2>2, <2>3
<1>5. CASE AdvanceRead
  <2>1. Shown' = [Shown EXCEPT ![rdev] = Tail(Contents(rdev))] /\ Contents(rdev) # <<>> /\ rdev \in Devices
    BY <1>5, ReadingTakes
  <2>2. CASE d # rdev
    <3>1. Contents(d)' = Contents(d)
      BY <1>2, <2>1, <2>2 DEF Shown
    <3> QED BY <3>1 DEF Holds
  <2>3. CASE d = rdev
    <3>1. Contents(d)' = Tail(Contents(d)) /\ Contents(d) # <<>>
      BY <1>2, <2>1, <2>3 DEF Shown
    <3>2. \A s \in Seq(Int) : s # <<>> =>
            {Tail(s)[i] : i \in DOMAIN Tail(s)} \subseteq {s[i] : i \in DOMAIN s}
      <4> SUFFICES ASSUME NEW s \in Seq(Int), s # <<>>
                   PROVE \A i \in DOMAIN Tail(s) : Tail(s)[i] = s[i + 1] /\ i + 1 \in DOMAIN s
        OBVIOUS
      <4> QED OBVIOUS
    <3> QED BY <1>3, <3>1, <3>2 DEF Holds
  <2> QED BY <2>2, <2>3
<1>6. CASE TestFull
  <2>1. Shown' = Shown
    BY <1>6, RefusingIsFull
  <2> QED BY <1>2, <2>1 DEF Holds
<1>7. CASE FillSlot
  <2>1. Shown' = Shown
    BY <1>7, FillingIsHidden
  <2> QED BY <1>2, <2>1 DEF Holds
<1>8. (\E e \in Devices : Deliver(e) \/ BeginSampling(e)) \/ InitQueue \/ CheckQueue
        \/ ReadCount \/ Signal \/ ReadExit \/ Wait \/ Visit \/ Poll \/ CopySlot
        \/ ReadFuture \/ SpuriousWakeup \/ AskToExit \/ UNCHANGED packetVars
      => UNCHANGED <<slots, rdIdx, wrIdx>>
  BY DEF Deliver, BeginSampling, InitQueue, CheckQueue, ReadCount, Signal, ReadExit,
         Wait, Visit, Poll, CopySlot, ReadFuture, SpuriousWakeup, AskToExit,
         ReaderLocal, packetVars, ringVars
<1>9. CASE UNCHANGED <<slots, rdIdx, wrIdx>>
  BY <1>9 DEF Holds, Contents, Used
<1> QED BY <1>4, <1>5, <1>6, <1>7, <1>8, <1>9, PacketsActions

LEMMA AllocatedKept ==
  ASSUME PacketsInv, Allocated, [PacketsNext]_packetVars
  PROVE  Allocated'
<1>0. RingTypes /\ WriterTypes /\ ReaderTypes /\ Carried
  BY DEF PacketsInv
<1> USE DEF Allocated, RingTypes, WriterTypes, WriterGoes
<1>1. ASSUME NEW d \in Devices, Deliver(d) PROVE Allocated'
  BY <1>0, <1>1 DEF Deliver, ringVars
<1>2. CASE InitQueue
  BY <1>0, <1>2 DEF InitQueue
<1>3. CASE TestFull
  BY <1>3 DEF TestFull, RefusedGoes, ringVars
<1>4. CASE FillSlot
  BY <1>4 DEF FillSlot
<1>5. CASE AdvanceWrite
  BY <1>0, <1>5 DEF AdvanceWrite
<1>6. CASE AdvanceRead
  <2>1. /\ rpc = "pop" /\ \A d \in Devices \ {rdev} : rdIdx'[d] = rdIdx[d]
        /\ UNCHANGED <<wrIdx, allocated, mask, wpc, wdev>>
    BY <1>0, <1>6 DEF AdvanceRead, writerVars
  <2>2. allocated[rdev]
    BY <1>0, <2>1 DEF Carried, ReaderTypes
  <2> QED BY <2>1, <2>2
<1>7. CASE CheckQueue \/ ReadCount \/ Signal
  BY <1>7 DEF CheckQueue, ReadCount, Signal, ringVars
<1>8. CASE UNCHANGED <<ringVars, writerVars>>
  BY <1>8 DEF ringVars, writerVars
<1> QED BY <1>1, <1>2, <1>3, <1>4, <1>5, <1>6, <1>7, <1>8, WriterUntouched,
           RingsUntouched, PacketsActions

LEMMA FreshKept ==
  ASSUME PacketsInv, PacketsInv', Fresh, [PacketsNext]_packetVars
  PROVE  Fresh'
<1>0. packet \in Nat /\ WriterTypes
  BY DEF PacketsInv, WriterTypes
<1>1. CASE AdvanceWrite
  <2>1. packet' = packet /\ live' \subseteq live \cup {packet} /\ ~InHand'
    BY <1>1 DEF AdvanceWrite, WriterGoes, InHand
  <2>2. \A d \in Devices : Holds(d)' \subseteq Holds(d) \cup {packet}
    BY HoldsAfter
  <2>3. packet \in 0..packet
    BY <1>0
  <2> QED BY <2>1, <2>2, <2>3 DEF Fresh
<1>2. ASSUME NEW e \in Devices, Deliver(e) PROVE Fresh'
  <2>1. packet' = packet + 1 /\ live' = live
    BY <1>2 DEF Deliver, packetHistory
  <2>2. ~AdvanceWrite
    BY <1>2 DEF Deliver, AdvanceWrite
  <2>3. \A d \in Devices : Holds(d)' \subseteq Holds(d)
    BY <2>2, HoldsAfter
  <2>4. 0..packet \subseteq 0..(packet + 1) /\ packet + 1 \notin 0..packet
    BY <1>0
  <2> QED BY <2>1, <2>3, <2>4 DEF Fresh
<1>3. CASE ~AdvanceWrite /\ ~\E e \in Devices : Deliver(e)
  <2>1. \A d \in Devices : Holds(d)' \subseteq Holds(d)
    BY <1>3, HoldsAfter
  <2>2. InitQueue \/ TestFull \/ FillSlot \/ CheckQueue \/ ReadCount \/ Signal
        => packet' = packet /\ live' = live /\ (InHand' => InHand)
    BY DEF InitQueue, TestFull, FillSlot, CheckQueue, ReadCount, Signal, WriterGoes,
           RefusedGoes, packetHistory, InHand
  <2>3. (\E d \in Devices : BeginSampling(d)) \/ ReadExit \/ Wait \/ Visit \/ Poll \/ CopySlot
          \/ AdvanceRead \/ ReadFuture \/ SpuriousWakeup \/ AskToExit \/ UNCHANGED packetVars
        => live' = live
    BY DEF BeginSampling, ReadExit, Wait, Visit, Poll, CopySlot, AdvanceRead, ReadFuture,
           SpuriousWakeup, AskToExit, ReaderLocal, packetVars, packetHistory
  <2>4. UNCHANGED writerVars => packet' = packet /\ (InHand' => InHand)
    BY DEF writerVars, InHand
  <2>5. packet' = packet /\ live' = live /\ (InHand' => InHand)
    BY <1>3, <2>2, <2>3, <2>4, WriterUntouched, PacketsActions
  <2> QED BY <2>1, <2>5 DEF Fresh
<1> QED BY <1>1, <1>2, <1>3

LEMMA LiveOnlyGrowsByStoring ==
  ASSUME [PacketsNext]_packetVars, ~AdvanceWrite
  PROVE  live' = live
<1>1. (\E d \in Devices : Deliver(d) \/ BeginSampling(d)) \/ InitQueue \/ TestFull \/ FillSlot
        \/ CheckQueue \/ ReadCount \/ Signal \/ ReadExit \/ Wait \/ Visit \/ Poll \/ CopySlot
        \/ AdvanceRead \/ ReadFuture \/ SpuriousWakeup \/ AskToExit \/ UNCHANGED packetVars
      => live' = live
  BY DEF Deliver, BeginSampling, InitQueue, TestFull, FillSlot, CheckQueue, ReadCount,
         Signal, ReadExit, Wait, Visit, Poll, CopySlot, AdvanceRead, ReadFuture,
         SpuriousWakeup, AskToExit, ReaderLocal, packetVars, packetHistory
<1> QED BY <1>1, PacketsActions

LEMMA LiveShownKept ==
  ASSUME PacketsInv, PacketsInv', Fresh, LiveShown, [PacketsNext]_packetVars
  PROVE  LiveShown'
<1>1. \A d \in Devices : sampling[d] => sampling'[d]
  <2>1. \A e \in Devices : BeginSampling(e) => \A d \in Devices : sampling[d] => sampling'[d]
    BY DEF BeginSampling
  <2>2. (\E e \in Devices : Deliver(e)) \/ InitQueue \/ TestFull \/ FillSlot \/ AdvanceWrite \/ CheckQueue
          \/ ReadCount \/ Signal \/ ReadExit \/ Wait \/ Visit \/ Poll \/ CopySlot
          \/ AdvanceRead \/ ReadFuture \/ SpuriousWakeup \/ AskToExit \/ UNCHANGED packetVars
        => sampling' = sampling
    BY DEF Deliver, InitQueue, TestFull, FillSlot, AdvanceWrite, CheckQueue, ReadCount,
           Signal, ReadExit, Wait, Visit, Poll, CopySlot, AdvanceRead, ReadFuture,
           SpuriousWakeup, AskToExit, ReaderLocal, packetVars
  <2> QED BY <2>1, <2>2, PacketsActions
<1>2. CASE AdvanceWrite
  <2>1. InHand /\ live' = (IF sampling[wdev] THEN live \cup {packet} ELSE live)
    BY <1>2 DEF AdvanceWrite, InHand
  <2>2. ASSUME NEW d \in Devices, Holds(d)' \cap live' # {} PROVE sampling[d]
    <3>1. packet \notin Holds(d) /\ packet \notin live
      BY <2>1 DEF Fresh
    <3>2. CASE d = wdev
      <4>1. Holds(d)' \subseteq Holds(d) \cup {packet}
        BY HoldsAfter
      <4>2. CASE ~sampling[wdev]
        <5>1. Holds(d) \cap live # {}
          BY <2>1, <2>2, <3>1, <4>1, <4>2
        <5> QED BY <5>1 DEF LiveShown
      <4> QED BY <3>2, <4>2
    <3>3. CASE d # wdev
      <4>1. Holds(d)' \subseteq Holds(d)
        BY <3>3, HoldsAfter
      <4>2. Holds(d) \cap live # {}
        BY <2>1, <2>2, <3>1, <4>1
      <4> QED BY <4>2 DEF LiveShown
    <3> QED BY <3>2, <3>3
  <2> QED BY <1>1, <2>2 DEF LiveShown
<1>3. CASE ~AdvanceWrite
  <2>1. \A d \in Devices : Holds(d)' \subseteq Holds(d)
    BY <1>3, HoldsAfter
  <2>2. live' = live
    BY <1>3, LiveOnlyGrowsByStoring
  <2> QED BY <1>1, <2>1, <2>2 DEF LiveShown
<1> QED BY <1>2, <1>3

\* Every other step keeps a look owed that was.
LEMMA OwedKept ==
  ASSUME PacketsInv, Allocated, LiveShown, [PacketsNext]_packetVars, ~AdvanceWrite,
         NEW d \in Devices, Holds(d) \cap live # {}, Owed(d)
  PROVE  Owed(d)'
<1>0. /\ sampling[d] /\ rdIdx[d] # wrIdx[d] /\ allocated[d]
      /\ count \in 0..1 /\ d \in Int /\ rdev \in Int /\ d <= LidarCount
  <2>1. sampling[d] /\ rdIdx[d] # wrIdx[d]
    BY HoldsSomething DEF LiveShown, PacketsInv
  <2>2. allocated[d]
    BY <2>1 DEF Allocated
  <2>3. d \in Int /\ d <= LidarCount /\ rdev \in Int /\ count \in 0..1
    BY DEF Devices, PacketsInv, ReaderTypes, OneWakeup
  <2> QED BY <2>1, <2>2, <2>3
<1> USE DEF Owed, WillVisit, WriterGoes, ReaderGoes
<1>1. ASSUME NEW e \in Devices, Deliver(e) PROVE Owed(d)'
  BY <1>1 DEF Deliver, readerVars, exitVars
<1>2. ASSUME NEW e \in Devices, BeginSampling(e) PROVE Owed(d)'
  BY <1>2 DEF BeginSampling, writerVars, readerVars, exitVars
<1>3. CASE InitQueue \/ FillSlot
  BY <1>3 DEF InitQueue, FillSlot, readerVars, exitVars
<1>4. CASE TestFull
  BY <1>4 DEF TestFull, RefusedGoes, readerVars, exitVars
<1>5. CASE CheckQueue
  BY <1>0, <1>5 DEF CheckQueue, WorthSignalling, QueueIsEmpty, readerVars, exitVars
<1>6. CASE ReadCount
  BY <1>0, <1>6 DEF ReadCount, SignalNeeded, readerVars, exitVars
<1>7. CASE Signal
  <2>1. count' = 1
    BY <1>7 DEF Signal, PacketsInv, OneWakeup
  <2> QED BY <2>1
<1>8. CASE ReadExit \/ ReadFuture
  BY <1>8 DEF ReadExit, ReadFuture, ReaderLocal, writerVars, exitVars
<1>9. CASE Wait
  <2>1. CASE count > 0
    <3>1. rpc' = "visit" /\ rdev' = 1
      BY <1>9, <2>1 DEF Wait
    <3>2. 1 <= d
      BY DEF Devices
    <3> QED BY <3>1, <3>2
  <2>2. CASE ~(count > 0)
    BY <1>0, <1>9, <2>2 DEF Wait, writerVars, exitVars
  <2> QED BY <2>1, <2>2
<1>passing. ASSUME NextDevice, rpc \in {"visit", "poll"}, rdev # d \/ requestExit,
              UNCHANGED <<count, wpc, wdev, requestExit>>
       PROVE  Owed(d)'
  <2>1. CASE requestExit
    BY <1>passing, <2>1 DEF NextDevice
  <2>2. CASE ~requestExit /\ rdev < d
    <3>1. rdev < LidarCount
      BY <1>0, <2>2, PacketsAssumption
    <3>2. rdev' = rdev + 1 /\ rpc' = "visit"
      BY <1>passing, <3>1 DEF NextDevice
    <3>3. rdev' <= d
      BY <1>0, <2>2, <3>2
    <3> QED BY <3>2, <3>3
  <2>3. CASE ~requestExit /\ ~(rdev < d)
    <3>1. ~(rdev <= d)
      BY <1>0, <1>passing, <2>3
    <3>2. count = 1 \/ (wpc = "check" /\ wdev = d) \/ wpc \in {"hint", "signal"}
      BY <2>3, <3>1
    <3> QED BY <1>passing, <3>2
  <2> QED BY <2>1, <2>2, <2>3
<1>10. CASE Visit
  <2>1. rpc = "visit" /\ UNCHANGED <<count, wpc, wdev, requestExit>>
    BY <1>10 DEF Visit, ReaderLocal, writerVars, exitVars
  <2>2. CASE sampling[rdev] /\ allocated[rdev]
    <3>1. rpc' = "poll" /\ rdev' = rdev
      BY <1>10, <2>2 DEF Visit
    <3> QED BY <2>1, <3>1
  <2>3. CASE ~(sampling[rdev] /\ allocated[rdev])
    <3>1. NextDevice /\ rdev # d
      BY <1>0, <1>10, <2>3 DEF Visit
    <3> QED BY <1>passing, <2>1, <3>1
  <2> QED BY <2>2, <2>3
<1>11. CASE Poll
  <2>1. rpc = "poll" /\ UNCHANGED <<count, wpc, wdev, requestExit>>
    BY <1>11 DEF Poll, ReaderLocal, writerVars, exitVars
  <2>2. CASE requestExit \/ QueueIsEmpty(rdev)
    <3>1. NextDevice /\ (rdev # d \/ requestExit)
      BY <1>0, <1>11, <2>2 DEF Poll, QueueIsEmpty
    <3> QED BY <1>passing, <2>1, <3>1
  <2>3. CASE ~(requestExit \/ QueueIsEmpty(rdev))
    <3>1. rpc' = "burst" /\ rdev' = rdev
      BY <1>11, <2>3 DEF Poll
    <3> QED BY <2>1, <3>1
  <2> QED BY <2>2, <2>3
<1>12. CASE CopySlot
  BY <1>12 DEF CopySlot, ReaderLocal, writerVars, exitVars
<1>13. CASE AdvanceRead
  BY <1>13 DEF AdvanceRead, writerVars, exitVars
<1>14. CASE SpuriousWakeup
  BY <1>14 DEF SpuriousWakeup, ReaderLocal, writerVars, exitVars
<1>15. CASE AskToExit
  BY <1>15 DEF AskToExit, writerVars, readerVars
<1>16. CASE UNCHANGED packetVars
  BY <1>16 DEF packetVars, writerVars, readerVars, exitVars
<1> QED BY <1>1, <1>2, <1>3, <1>4, <1>5, <1>6, <1>7, <1>8, <1>9, <1>10, <1>11,
           <1>12, <1>13, <1>14, <1>15, <1>16, PacketsActions

LEMMA LookIsOwedKept ==
  ASSUME PacketsInv, PacketsInv', Allocated, Fresh, LiveShown, LookIsOwed,
         [PacketsNext]_packetVars
  PROVE  LookIsOwed'
<1> SUFFICES ASSUME NEW d \in Devices, Holds(d)' \cap live' # {}
             PROVE  Owed(d)'
  BY DEF LookIsOwed
<1>1. CASE AdvanceWrite
  <2>1. /\ InHand /\ live' \subseteq live \cup {packet} /\ wpc' = "check" /\ wdev' = wdev
        /\ wpc = "bump" /\ UNCHANGED <<count, readerVars, exitVars>>
    BY <1>1 DEF AdvanceWrite, WriterGoes, InHand
  <2>2. CASE d = wdev
    BY <2>1, <2>2 DEF Owed
  <2>3. CASE d # wdev
    <3>1. Holds(d)' \subseteq Holds(d) /\ packet \notin Holds(d)
      BY <2>1, <2>3, HoldsAfter DEF Fresh
    <3>2. Holds(d) \cap live # {}
      BY <2>1, <3>1
    <3>3. Owed(d)
      BY <3>2 DEF LookIsOwed
    <3> QED BY <2>1, <3>3 DEF Owed, WillVisit, readerVars, exitVars
  <2> QED BY <2>2, <2>3
<1>2. CASE ~AdvanceWrite
  <2>1. Holds(d)' \subseteq Holds(d) /\ live' = live
    BY <1>2, HoldsAfter, LiveOnlyGrowsByStoring
  <2>2. Holds(d) \cap live # {}
    BY <2>1
  <2> QED BY <1>2, <2>2, OwedKept DEF LookIsOwed
<1> QED BY <1>1, <1>2

LEMMA WakeInvariant == PacketsSpec => []WakeInv
<1>1. PacketsInit => WakeInv
  <2> SUFFICES ASSUME PacketsInit PROVE WakeInv
    OBVIOUS
  <2>1. PacketsInv /\ RingTypes
    BY PacketsInitInv DEF PacketsInv
  <2>2. \A d \in Devices : rdIdx[d] = wrIdx[d]
    BY DEF PacketsInit
  <2>3. \A d \in Devices : Holds(d) = {}
    BY <2>1, <2>2, HoldsSomething
  <2>4. live = {} /\ wpc = "idle"
    BY DEF PacketsInit
  <2> QED BY <2>1, <2>2, <2>3, <2>4 DEF WakeInv, Allocated, Fresh, InHand, LiveShown, LookIsOwed
<1>2. WakeInv /\ [PacketsNext]_packetVars => WakeInv'
  <2> SUFFICES ASSUME WakeInv, [PacketsNext]_packetVars PROVE WakeInv'
    OBVIOUS
  <2>1. PacketsInv /\ Allocated /\ Fresh /\ LiveShown /\ LookIsOwed
    BY DEF WakeInv
  <2>2. PacketsInv'
    BY <2>1, PacketsNextInv
  <2>3. Allocated' /\ Fresh' /\ LiveShown' /\ LookIsOwed'
    BY <2>1, <2>2, AllocatedKept, FreshKept, LiveShownKept, LookIsOwedKept
  <2> QED BY <2>2, <2>3 DEF WakeInv
<1> QED BY <1>1, <1>2, PTL DEF PacketsSpec

\* When the poll thread sleeps and the packet thread is done, no packet that
\* was stored for a sampling device waits: the unlocked look at the count and
\* the round over all devices lose no wakeup, for any number of them.
THEOREM NothingIsLeftBehind == PacketsSpec => []NothingLeftBehind
<1>1. WakeInv => NothingLeftBehind
  <2> SUFFICES ASSUME WakeInv, rpc = "asleep", count = 0, wpc = "idle",
                      NEW d \in Devices, NEW p \in live,
                      NEW i \in DOMAIN Contents(d), Contents(d)[i] = p
               PROVE  FALSE
    BY DEF NothingLeftBehind
  <2>1. Holds(d) \cap live # {}
    BY DEF Holds
  <2>2. Owed(d)
    BY <2>1 DEF WakeInv, LookIsOwed
  <2> QED BY <2>2 DEF Owed, WillVisit
<1> QED BY <1>1, WakeInvariant, PTL
=============================================================================
