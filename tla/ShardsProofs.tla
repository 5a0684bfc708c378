---------------------------- MODULE ShardsProofs ----------------------------
(***************************************************************************)
(* Proofs about Shards.tla, for every window length, integer width and     *)
(* clock.                                                                  *)
(***************************************************************************)
EXTENDS Shards, SequenceTheorems, TLAPS

\* A function on 1..n is a sequence of length n.
LEMMA MakeSeq ==
    ASSUME NEW S, NEW n \in Nat, NEW f \in [1..n -> S]
    PROVE  f \in Seq(S) /\ Len(f) = n
<1>1. f \in Seq(S)
  BY SeqDef
<1>2. Len(f) \in Nat /\ DOMAIN f = 1..Len(f)
  BY <1>1, LenProperties
<1> QED
  BY <1>1, <1>2

-----------------------------------------------------------------------------
(* Arithmetic. *)

\* What division leaves, for a natural number.
LEMMA Division ==
    ASSUME NEW t \in Nat
    PROVE  /\ t % Window \in 0..(Window - 1)
           /\ t \div Window \in Nat
           /\ t = Window * (t \div Window) + (t % Window)
  BY ShardConstants

\* Aligning a natural number gives the multiple of the window at or below it.
LEMMA AlignedNat ==
    ASSUME NEW t \in Nat
    PROVE  /\ aligned(t) \in 0..t
           /\ t < aligned(t) + Window
           /\ Multiple(aligned(t))
<1>1. aligned(t) = t - (t % Window)
  BY DEF aligned, Remainder
<1>2. aligned(t) = (t \div Window) * Window
  BY <1>1, Division, ShardConstants
<1>3. Multiple(aligned(t))
  BY <1>2, Division DEF Multiple
<1>4. aligned(t) <= t /\ t < aligned(t) + Window
  BY <1>1, Division, ShardConstants
<1>5. aligned(t) >= 0
  <2>1. t \div Window >= 0 /\ Window >= 0
    BY Division, ShardConstants
  <2>2. \A a, b \in Nat : a * b >= 0
    OBVIOUS
  <2> QED
    BY <1>2, <2>1, <2>2, Division, ShardConstants
<1>6. aligned(t) \in Int
  BY <1>1, Division
<1> QED
  BY <1>3, <1>4, <1>5, <1>6

\* No multiple of the window lies between the aligned number and the number.
LEMMA AlignedHighest ==
    ASSUME NEW t \in Nat, NEW e \in Int, Multiple(e), e <= t
    PROVE  e <= aligned(t)
<1>1. PICK k \in Int : e = k * Window
  BY DEF Multiple
<1>2. PICK q \in Int : aligned(t) = q * Window
  BY AlignedNat DEF Multiple
<1>3. k * Window < (q + 1) * Window
  <2>1. e <= t /\ t < aligned(t) + Window
    BY AlignedNat
  <2>2. (q + 1) * Window = q * Window + Window
    BY ShardConstants
  <2>3. aligned(t) \in Int /\ Window \in Int
    BY AlignedNat, ShardConstants
  <2> QED
    BY <1>1, <1>2, <2>1, <2>2, <2>3
<1>4. k <= q
  <2> SUFFICES ASSUME k > q PROVE FALSE
    OBVIOUS
  <2>1. k - (q + 1) \in Nat
    OBVIOUS
  <2>2. (k - (q + 1)) * Window >= 0
    BY <2>1, ShardConstants
  <2>3. (k - (q + 1)) * Window = k * Window - (q + 1) * Window
    BY ShardConstants
  <2> QED
    BY <1>3, <2>2, <2>3, ShardConstants
<1>5. (q - k) * Window >= 0
  BY <1>4, ShardConstants
<1>6. (q - k) * Window = q * Window - k * Window
  BY ShardConstants
<1> QED
  BY <1>1, <1>2, <1>5, <1>6, ShardConstants

\* Aligning keeps a timestamp a timestamp, below zero too.
LEMMA AlignedType ==
    ASSUME NEW t \in Time
    PROVE  aligned(t) \in Time
<1>1. t \in Int /\ -MaxInt - 1 <= t /\ t <= MaxInt /\ MaxInt \in Nat
  BY ShardConstants DEF Time
<1>2. CASE t >= 0
  <2>1. aligned(t) \in 0..t
    BY <1>1, <1>2, AlignedNat
  <2> QED
    BY <1>1, <2>1 DEF Time
<1>3. CASE ~(t >= 0)
  <2>1. -t \in Nat
    BY <1>1, <1>3
  <2>2. aligned(t) = t + ((-t) % Window)
    BY <1>1, <1>3, <2>1, Division DEF aligned, Remainder
  <2>3. (-t) % Window \in 0..(-t)
    <3>1. /\ (-t) % Window \in 0..(Window - 1)
          /\ (-t) = Window * ((-t) \div Window) + ((-t) % Window)
          /\ (-t) \div Window \in Nat
      BY <2>1, Division
    <3>2. Window * ((-t) \div Window) >= 0
      BY <3>1, ShardConstants
    <3> QED
      BY <2>1, <3>1, <3>2, ShardConstants
  <2> QED
    BY <1>1, <2>1, <2>2, <2>3 DEF Time
<1> QED
  BY <1>2, <1>3

\* Adding a window gives a timestamp, and either the sum or one below the start.
LEMMA PlusWindow ==
    ASSUME NEW t \in Time
    PROVE  /\ Plus(t, Window) \in Time
           /\ Plus(t, Window) > t => Plus(t, Window) = t + Window
  BY ShardConstants DEF Time, Plus

LEMMA MultiplePlus ==
    ASSUME NEW t \in Int, Multiple(t)
    PROVE  Multiple(t + Window)
<1>1. PICK k \in Int : t = k * Window
  BY DEF Multiple
<1>2. t + Window = (k + 1) * Window
  BY <1>1, ShardConstants
<1> QED
  BY <1>2 DEF Multiple

-----------------------------------------------------------------------------
(* Steps on one shard. *)

\* A shard older by one step: the same window, a state that is no earlier.
Ages(s, t) ==
    /\ t.start = s.start /\ t.end = s.end
    /\ Rank(t.state) >= Rank(s.state)
    /\ s.blocks \subseteq t.blocks
    /\ t.state = "active" => s.state = "active"

LEMMA AgesReflexive == ASSUME NEW s \in Shard PROVE Ages(s, s)
  BY DEF Ages, Rank, Shard, State

LEMMA SealedShard ==
    ASSUME NEW s \in Shard
    PROVE  Sealed(s) \in Shard /\ Ages(s, Sealed(s)) /\ Sealed(s).state # "active"
<1>1. CASE s.state = "active"
  <2>1. Sealed(s) = [s EXCEPT !.state = "sealed"]
    BY <1>1 DEF Sealed
  <2> QED
    BY <1>1, <2>1 DEF Shard, State, Ages, Rank
<1>2. CASE s.state # "active"
  BY <1>2, AgesReflexive DEF Sealed
<1> QED
  BY <1>1, <1>2

LEMMA ArchivedShard ==
    ASSUME NEW s \in Shard
    PROVE  /\ Archived(s) \in Shard
           /\ Ages(s, Archived(s))
           /\ s.state = "active" => Archived(s).state = "active"
<1>1. CASE s.state = "sealed"
  <2>1. Archived(s) = [s EXCEPT !.state = "archived"]
    BY <1>1 DEF Archived
  <2> QED
    BY <1>1, <2>1 DEF Shard, State, Ages, Rank
<1>2. CASE s.state # "sealed"
  BY <1>2, AgesReflexive DEF Archived
<1> QED
  BY <1>1, <1>2

LEMMA BlockAdded ==
    ASSUME NEW s \in Shard, NEW b \in Block, NEW t, t = [s EXCEPT !.blocks = @ \cup {b}]
    PROVE  t \in Shard /\ Ages(s, t) /\ t.state = s.state
  BY DEF Shard, State, Ages, Rank

LEMMA NewShardType ==
    ASSUME ShardsTypeOK, NEW start \in Time
    PROVE  /\ NewShard(start) \in Shard
           /\ NewShard(start).start = start
           /\ NewShard(start).end = Plus(start, Window)
           /\ NewShard(start).state = "active"
<1>1. nextID \in Nat
  BY LenProperties DEF ShardsTypeOK
<1> QED
  BY <1>1, PlusWindow DEF NewShard, Shard, State

-----------------------------------------------------------------------------
(* Steps on the list. *)

LEMMA ShardsShape ==
    ASSUME ShardsTypeOK
    PROVE  /\ Len(shards) \in Nat \ {0}
           /\ DOMAIN shards = 1..Len(shards)
           /\ shards \in [1..Len(shards) -> Shard]
           /\ \A i \in DOMAIN shards : /\ shards[i] \in Shard
                                       /\ shards[i].start \in Time /\ shards[i].start \in Int
                                       /\ shards[i].end \in Time /\ shards[i].end \in Int
           /\ Last = shards[Len(shards)] /\ Last \in Shard
<1>1. shards \in Seq(Shard) /\ Len(shards) \in 1..MaxShards
  BY DEF ShardsTypeOK
<1>2. /\ Len(shards) \in Nat \ {0}
      /\ DOMAIN shards = 1..Len(shards)
      /\ shards \in [1..Len(shards) -> Shard]
  BY <1>1, LenProperties
<1>3. \A s \in Shard : s.start \in Time /\ s.end \in Time
  BY DEF Shard
<1>4. Time \subseteq Int
  BY ShardConstants DEF Time
<1>5. \A i \in DOMAIN shards : shards[i] \in Shard
  BY <1>2
<1>6. Last \in Shard /\ Last = shards[Len(shards)]
  <2>1. Len(shards) \in DOMAIN shards
    BY <1>2
  <2> QED
    BY <1>5, <2>1 DEF Last
<1>7. \A i \in DOMAIN shards : /\ shards[i].start \in Time /\ shards[i].start \in Int
                              /\ shards[i].end \in Time /\ shards[i].end \in Int
  BY <1>3, <1>4, <1>5
<1> QED
  BY <1>2, <1>5, <1>6, <1>7

\* Whatever only ages the shards of the list, and leaves the newest active,
\* keeps the invariant.
LEMMA AgingStep ==
    ASSUME ShardsIInv, nextID' = nextID,
           shards' \in [1..Len(shards) -> Shard],
           \A i \in DOMAIN shards : Ages(shards[i], shards'[i]),
           shards'[Len(shards)].state = shards[Len(shards)].state
    PROVE  ShardsIInv'
<1>1. shards' \in Seq(Shard) /\ Len(shards') = Len(shards) /\ DOMAIN shards' = DOMAIN shards
  BY MakeSeq, ShardsShape DEF ShardsIInv
<1>2. \A i \in DOMAIN shards : shards'[i].start = shards[i].start /\ shards'[i].end = shards[i].end
  BY DEF Ages
<1>3. ShardsTypeOK'
  BY <1>1 DEF ShardsIInv, ShardsTypeOK
<1>4. NoneWrapped' <=> NoneWrapped
  BY <1>1, <1>2 DEF NoneWrapped, Wrapped
<1>5. WindowsInOrder'
  BY <1>1, <1>2, <1>4 DEF ShardsIInv, WindowsInOrder
<1>6. OnlyNewestActive'
  <2> SUFFICES ASSUME NoneWrapped', NEW i \in DOMAIN shards'
               PROVE  shards'[i].state = "active" <=> i = Len(shards')
    BY DEF OnlyNewestActive
  <2>1. shards[i].state = "active" <=> i = Len(shards)
    BY <1>1, <1>4 DEF ShardsIInv, OnlyNewestActive
  <2> QED
    BY <1>1, <2>1 DEF Ages
<1>7. \A i \in DOMAIN shards' : shards'[i].end = Plus(shards'[i].start, Window)
  BY <1>1, <1>2 DEF ShardsIInv
<1>8. NoneWrapped' => \A i \in DOMAIN shards' : shards'[i].start >= 0 /\ Multiple(shards'[i].start)
  BY <1>1, <1>2, <1>4 DEF ShardsIInv
<1> QED
  BY <1>3, <1>5, <1>6, <1>7, <1>8 DEF ShardsIInv, Multiple

\* So does opening one more window, if it starts on a multiple at or after the
\* end of the newest, and every shard before it is no longer active.
LEMMA OpeningStep ==
    ASSUME ShardsIInv, nextID' = nextID + 1, Len(shards) < MaxShards, NEW start \in Time,
           shards' \in [1..(Len(shards) + 1) -> Shard],
           shards'[Len(shards) + 1].start = start,
           shards'[Len(shards) + 1].end = Plus(start, Window),
           shards'[Len(shards) + 1].state = "active",
           \A i \in DOMAIN shards : Ages(shards[i], shards'[i]),
           NoneWrapped =>
               /\ start >= Last.end /\ start >= 0 /\ Multiple(start)
               /\ \A i \in DOMAIN shards : shards'[i].state # "active"
    PROVE  ShardsIInv'
<1> DEFINE n == Len(shards)
<1>0. ShardsTypeOK
  BY DEF ShardsIInv
<1>1. n \in Nat \ {0} /\ DOMAIN shards = 1..n /\ Last = shards[n]
  BY <1>0, ShardsShape
<1>2. shards' \in Seq(Shard) /\ Len(shards') = n + 1 /\ DOMAIN shards' = 1..(n + 1)
  BY <1>1, MakeSeq
<1>3. \A i \in 1..n : shards'[i].start = shards[i].start /\ shards'[i].end = shards[i].end
  BY <1>1 DEF Ages
<1>4. /\ shards'[n + 1].start = start /\ shards'[n + 1].end = Plus(start, Window)
      /\ shards'[n + 1].state = "active"
  OBVIOUS
<1>5. ShardsTypeOK'
  BY <1>0, <1>1, <1>2, ShardConstants DEF ShardsTypeOK
<1>6. NoneWrapped' => NoneWrapped
  BY <1>1, <1>2, <1>3 DEF NoneWrapped, Wrapped
<1>7. \A i \in DOMAIN shards' : shards'[i].end = Plus(shards'[i].start, Window)
  <2> TAKE i \in DOMAIN shards'
  <2>1. CASE i = n + 1
    BY <1>4, <2>1
  <2>2. CASE i # n + 1
    <3>1. i \in 1..n
      BY <1>1, <1>2, <2>2
    <3> QED
      BY <1>1, <1>3, <3>1 DEF ShardsIInv
  <2> QED
    BY <2>1, <2>2
<1>8. NoneWrapped' => \A i \in DOMAIN shards' : shards'[i].start >= 0 /\ Multiple(shards'[i].start)
  <2> SUFFICES ASSUME NoneWrapped', NEW i \in DOMAIN shards'
               PROVE  shards'[i].start >= 0 /\ Multiple(shards'[i].start)
    OBVIOUS
  <2>1. CASE i = n + 1
    BY <1>4, <1>6, <2>1
  <2>2. CASE i # n + 1
    <3>1. i \in 1..n
      BY <1>1, <1>2, <2>2
    <3> QED
      BY <1>1, <1>3, <1>6, <3>1 DEF ShardsIInv
  <2> QED
    BY <2>1, <2>2
<1>9. WindowsInOrder'
  <2> SUFFICES ASSUME NoneWrapped', NEW i \in 1..(n + 1), NEW j \in 1..(n + 1), i < j
               PROVE  shards'[i].end <= shards'[j].start
    BY <1>2 DEF WindowsInOrder
  <2>1. \A k, l \in 1..n : k < l => shards[k].end <= shards[l].start
    BY <1>1, <1>6 DEF ShardsIInv, WindowsInOrder
  <2>2. i \in 1..n
    BY <1>1
  <2>3. CASE j = n + 1
    <3>1. start >= shards[n].end
      BY <1>1, <1>6
    <3>2. CASE i = n
      BY <1>1, <1>3, <1>4, <2>3, <3>1, <3>2
    <3>3. CASE i # n
      <4>1. i < n /\ n \in 1..n
        <5> HIDE DEF n
        <5> QED
          BY <1>1, <2>2, <3>3
      <4>2. shards[i].end <= shards[n].start /\ shards[n].start < shards[n].end
        <5>1. ~Wrapped(shards[n])
          BY <1>1, <1>6, <4>1 DEF NoneWrapped
        <5>2. shards[n].start \in Int /\ shards[n].end \in Int
          BY <1>0, <1>1, <4>1, ShardsShape
        <5> QED
          BY <2>1, <2>2, <4>1, <5>1, <5>2 DEF Wrapped
      <4>3. /\ shards[i].end \in Int /\ shards[n].start \in Int /\ shards[n].end \in Int
            /\ start \in Int
        <5>1. \A k \in 1..n : shards[k].start \in Int /\ shards[k].end \in Int
          BY <1>0, <1>1, ShardsShape
        <5>2. start \in Int
          BY ShardConstants DEF Time
        <5> QED
          BY <2>2, <4>1, <5>1, <5>2
      <4>4. shards[i].end <= start
        BY <3>1, <4>2, <4>3
      <4> QED
        BY <1>3, <1>4, <2>2, <2>3, <4>4
    <3> QED
      BY <3>2, <3>3
  <2>4. CASE j # n + 1
    <3>1. j \in 1..n
      BY <1>1, <2>4
    <3> QED
      BY <1>3, <2>1, <2>2, <3>1
  <2> QED
    BY <2>3, <2>4
<1>10. OnlyNewestActive'
  <2> SUFFICES ASSUME NoneWrapped', NEW i \in 1..(n + 1)
               PROVE  shards'[i].state = "active" <=> i = n + 1
    BY <1>2 DEF OnlyNewestActive
  <2>1. CASE i = n + 1
    BY <1>4, <2>1
  <2>2. CASE i # n + 1
    <3>1. i \in DOMAIN shards
      BY <1>1, <2>2
    <3> QED
      BY <1>6, <2>2, <3>1
  <2> QED
    BY <2>1, <2>2
<1> QED
  BY <1>5, <1>7, <1>8, <1>9, <1>10 DEF ShardsIInv, Multiple

-----------------------------------------------------------------------------
(* The actions. *)

LEMMA InitShardsIInv == ShardsInit => ShardsIInv
<1> SUFFICES ASSUME NEW now \in Clock, shards = FirstShards(now), nextID = 2
             PROVE  ShardsIInv
  BY DEF ShardsInit
<1> DEFINE s == [id |-> 1, start |-> aligned(now), end |-> Plus(aligned(now), Window),
                 state |-> "active", blocks |-> {}]
<1>1. now \in Nat /\ now \in Time
  BY ShardConstants DEF Time
<1>2. aligned(now) \in Nat /\ aligned(now) \in Time /\ Multiple(aligned(now))
  BY <1>1, AlignedNat, AlignedType
<1>3. s \in Shard
  BY <1>2, PlusWindow DEF Shard, State
<1>4. shards = <<s>>
  BY DEF FirstShards
<1> HIDE DEF s
<1>5. /\ shards \in Seq(Shard) /\ Len(shards) = 1 /\ DOMAIN shards = {1} /\ shards[1] = s
  BY <1>3, <1>4
<1>6. ShardsTypeOK
  BY <1>5, ShardConstants DEF ShardsTypeOK
<1>7. s.start = aligned(now) /\ s.end = Plus(s.start, Window) /\ s.state = "active"
  BY DEF s
<1> QED
  BY <1>2, <1>5, <1>6, <1>7 DEF ShardsIInv, WindowsInOrder, OnlyNewestActive

\* The list after a Route that opens a window.
LEMMA RoutedOpening ==
    ASSUME ShardsIInv, NEW t \in Time, RouteOpens(t), NEW R, R = RoutedShards(t)
    PROVE  /\ aligned(t) \in Time
           /\ R \in [1..(Len(shards) + 1) -> Shard]
           /\ R[Len(shards) + 1] = NewShard(aligned(t))
           /\ \A i \in DOMAIN shards : Ages(shards[i], R[i])
           /\ NoneWrapped =>
                  /\ aligned(t) >= Last.end /\ aligned(t) >= 0 /\ Multiple(aligned(t))
                  /\ \A i \in DOMAIN shards : R[i].state # "active"
<1> DEFINE n == Len(shards)
<1>0. ShardsTypeOK
  BY DEF ShardsIInv
<1>1. /\ n \in Nat \ {0} /\ DOMAIN shards = 1..n /\ Last = shards[n]
      /\ shards \in [1..n -> Shard]
      /\ \A i \in 1..n : shards[i] \in Shard
  BY <1>0, ShardsShape
<1>2. R = [i \in 1..(n + 1) |->
             IF i > n THEN NewShard(aligned(t))
             ELSE IF shards[i].end <= aligned(t) THEN Sealed(shards[i]) ELSE shards[i]]
  BY DEF RoutedShards
<1>3. aligned(t) \in Time
  BY AlignedType
<1>4. NewShard(aligned(t)) \in Shard
  BY <1>0, <1>3, NewShardType
<1>5. R[n + 1] = NewShard(aligned(t))
  BY <1>1, <1>2
<1>6. ASSUME NEW i \in 1..n
      PROVE  /\ R[i] = IF shards[i].end <= aligned(t) THEN Sealed(shards[i]) ELSE shards[i]
             /\ R[i] \in Shard /\ Ages(shards[i], R[i])
  <2>1. R[i] = IF shards[i].end <= aligned(t) THEN Sealed(shards[i]) ELSE shards[i]
    BY <1>1, <1>2
  <2> QED
    BY <1>1, <2>1, SealedShard, AgesReflexive
<1>7. R \in [1..(n + 1) -> Shard]
  BY <1>1, <1>2, <1>4, <1>6, SealedShard
<1>8. ASSUME NoneWrapped
      PROVE  /\ aligned(t) >= Last.end /\ aligned(t) >= 0 /\ Multiple(aligned(t))
             /\ \A i \in DOMAIN shards : R[i].state # "active"
  <2>1. n \in DOMAIN shards
    BY <1>1
  <2>2. /\ Last.start >= 0 /\ Multiple(Last.start) /\ Last.end = Plus(Last.start, Window)
        /\ ~Wrapped(Last)
    BY <1>1, <1>8, <2>1 DEF ShardsIInv, NoneWrapped
  <2>3. Last.start \in Time /\ Last.start \in Int /\ Last.end \in Int
    BY <1>0, <1>1, <2>1, ShardsShape
  <2>4. Last.end = Last.start + Window
    BY <2>2, <2>3, PlusWindow DEF Wrapped
  <2>5. Multiple(Last.end)
    BY <2>2, <2>3, <2>4, MultiplePlus
  <2>6. t \in Int /\ t >= Last.start /\ t >= Last.end
    BY <2>3, ShardConstants DEF RouteOpens, Covers, Time
  <2>7. t \in Nat
    BY <2>2, <2>3, <2>6
  <2>8. aligned(t) >= Last.end /\ aligned(t) >= 0 /\ Multiple(aligned(t))
    BY <2>3, <2>5, <2>6, <2>7, AlignedHighest, AlignedNat
  <2>9. ASSUME NEW i \in 1..n PROVE shards[i].end <= aligned(t)
    <3>1. CASE i = n
      BY <1>1, <2>8, <3>1
    <3>2. CASE i # n
      <4> HIDE DEF n
      <4>1. i < n /\ i \in DOMAIN shards
        BY <1>1, <3>2
      <4>2. shards[i].end <= Last.start
        BY <1>1, <1>8, <2>1, <4>1 DEF ShardsIInv, WindowsInOrder
      <4>3. shards[i].end \in Int
        BY <1>0, <4>1, ShardsShape
      <4>4. aligned(t) \in Int
        <5>1. aligned(t) \in 0..t
          BY <2>7, AlignedNat
        <5> QED
          BY <2>7, <5>1
      <4> QED
        BY <2>3, <2>4, <2>8, <4>2, <4>3, <4>4, ShardConstants
    <3> QED
      BY <3>1, <3>2
  <2>10. \A i \in 1..n : R[i].state # "active"
    BY <1>1, <1>6, <2>9, SealedShard
  <2> QED
    BY <1>1, <2>8, <2>10
<1> QED
  BY <1>1, <1>3, <1>5, <1>6, <1>7, <1>8

LEMMA RouteStep ==
    ASSUME ShardsIInv, NEW t \in Time, Route(t)
    PROVE  ShardsIInv' /\ \A i \in DOMAIN shards :
                              i \in DOMAIN shards' /\ Ages(shards[i], shards'[i])
<1>0. ShardsTypeOK
  BY DEF ShardsIInv
<1>1. /\ Len(shards) \in Nat \ {0} /\ DOMAIN shards = 1..Len(shards)
      /\ shards \in [1..Len(shards) -> Shard]
      /\ \A i \in DOMAIN shards : shards[i] \in Shard
  BY <1>0, ShardsShape
<1>2. CASE ~RouteOpens(t)
  <2>1. shards' = shards /\ nextID' = nextID
    BY <1>2 DEF Route, RoutedShards
  <2>2. \A i \in DOMAIN shards : Ages(shards[i], shards'[i])
    BY <1>1, <2>1, AgesReflexive
  <2>3. ShardsIInv'
    BY <1>1, <2>1, <2>2, AgingStep
  <2> QED
    BY <2>1, <2>2, <2>3
<1>3. CASE RouteOpens(t)
  <2>1. Len(shards) < MaxShards /\ nextID' = nextID + 1 /\ shards' = RoutedShards(t)
    BY <1>3 DEF Route
  <2>2. /\ aligned(t) \in Time
        /\ shards' \in [1..(Len(shards) + 1) -> Shard]
        /\ shards'[Len(shards) + 1] = NewShard(aligned(t))
        /\ \A i \in DOMAIN shards : Ages(shards[i], shards'[i])
        /\ NoneWrapped =>
               /\ aligned(t) >= Last.end /\ aligned(t) >= 0 /\ Multiple(aligned(t))
               /\ \A i \in DOMAIN shards : shards'[i].state # "active"
    BY <1>3, <2>1, RoutedOpening
  <2>3. ShardsIInv'
    BY <1>0, <2>1, <2>2, NewShardType, OpeningStep
  <2> QED
    BY <1>1, <2>2, <2>3
<1> QED
  BY <1>2, <1>3

LEMMA ForceRotateStep ==
    ASSUME ShardsIInv, ForceRotate
    PROVE  ShardsIInv' /\ \A i \in DOMAIN shards :
                              i \in DOMAIN shards' /\ Ages(shards[i], shards'[i])
<1> DEFINE n == Len(shards)
<1> DEFINE s == NewShard(Last.end)
<1>0. ShardsTypeOK
  BY DEF ShardsIInv
<1>1. /\ n \in Nat \ {0} /\ DOMAIN shards = 1..n /\ Last = shards[n]
      /\ shards \in [1..n -> Shard]
      /\ \A i \in 1..n : shards[i] \in Shard
  BY <1>0, ShardsShape
<1>2. /\ n < MaxShards /\ nextID' = nextID + 1
      /\ shards' = [i \in 1..(n + 1) |->
                       IF i > n THEN s
                       ELSE IF i = n THEN Sealed(shards[i]) ELSE shards[i]]
  BY DEF ForceRotate
<1>3. Last.end \in Time
  BY <1>0, <1>1, ShardsShape
<1>4. s \in Shard
  BY <1>0, <1>3, NewShardType
<1> HIDE DEF n, s
<1>5. shards'[n + 1] = s
  BY <1>1, <1>2
<1>6. ASSUME NEW i \in 1..n
      PROVE  /\ i \in DOMAIN shards'
             /\ shards'[i] = IF i = n THEN Sealed(shards[i]) ELSE shards[i]
             /\ shards'[i] \in Shard /\ Ages(shards[i], shards'[i])
  <2>1. i \in DOMAIN shards' /\ shards'[i] = IF i = n THEN Sealed(shards[i]) ELSE shards[i]
    BY <1>1, <1>2
  <2> QED
    BY <1>1, <2>1, SealedShard, AgesReflexive
<1>7. shards' \in [1..(n + 1) -> Shard]
  BY <1>1, <1>2, <1>4, SealedShard
<1>8. ASSUME NoneWrapped
      PROVE  /\ Last.end >= Last.end /\ Last.end >= 0 /\ Multiple(Last.end)
             /\ \A i \in DOMAIN shards : shards'[i].state # "active"
  <2>1. n \in DOMAIN shards
    BY <1>1
  <2>2. /\ Last.start >= 0 /\ Multiple(Last.start) /\ Last.end = Plus(Last.start, Window)
        /\ ~Wrapped(Last)
    BY <1>1, <1>8, <2>1 DEF ShardsIInv, NoneWrapped
  <2>3. Last.start \in Time /\ Last.start \in Int /\ Last.end \in Int
    BY <1>0, <1>1, <2>1, ShardsShape
  <2>4. Last.end = Last.start + Window
    BY <2>2, <2>3, PlusWindow DEF Wrapped
  <2>5. Multiple(Last.end)
    BY <2>2, <2>3, <2>4, MultiplePlus
  <2>6. Last.end >= 0
    BY <2>2, <2>3, <2>4, ShardConstants
  <2>7. ASSUME NEW i \in 1..n PROVE shards'[i].state # "active"
    <3>1. CASE i = n
      BY <1>1, <1>6, <3>1, SealedShard
    <3>2. CASE i # n
      BY <1>1, <1>6, <1>8, <3>2 DEF ShardsIInv, OnlyNewestActive
    <3> QED
      BY <3>1, <3>2
  <2> QED
    BY <1>1, <2>3, <2>5, <2>6, <2>7
<1>9. \A i \in DOMAIN shards : i \in DOMAIN shards' /\ Ages(shards[i], shards'[i])
  BY <1>1, <1>6
<1>10. ShardsIInv'
  BY <1>0, <1>2, <1>3, <1>5, <1>7, <1>8, <1>9, NewShardType, OpeningStep DEF n, s
<1> QED
  BY <1>9, <1>10

LEMMA ArchiveStep ==
    ASSUME ShardsIInv, NEW t, ArchiveOlderThan(t)
    PROVE  ShardsIInv' /\ \A i \in DOMAIN shards :
                              i \in DOMAIN shards' /\ Ages(shards[i], shards'[i])
<1>0. ShardsTypeOK
  BY DEF ShardsIInv
<1>1. /\ DOMAIN shards = 1..Len(shards) /\ Len(shards) \in DOMAIN shards
      /\ \A i \in DOMAIN shards : shards[i] \in Shard
  BY <1>0, ShardsShape
<1>2. shards' = [i \in 1..Len(shards) |->
                   IF shards[i].end <= t THEN Archived(shards[i]) ELSE shards[i]]
  BY DEF ArchiveOlderThan
<1>3. \A i \in DOMAIN shards :
          /\ shards'[i] \in Shard /\ Ages(shards[i], shards'[i])
          /\ shards[i].state = "active" => shards'[i].state = "active"
  BY <1>1, <1>2, ArchivedShard, AgesReflexive
<1>4. shards' \in [1..Len(shards) -> Shard]
  BY <1>1, <1>2, <1>3
<1>5. /\ nextID' = nextID
      /\ \A i \in DOMAIN shards : i \in DOMAIN shards' /\ Ages(shards[i], shards'[i])
  BY <1>1, <1>2, <1>3 DEF ArchiveOlderThan
\* Only the state of the newest shard matters for who is active.
<1>6. \A i \in DOMAIN shards : shards'[i].start = shards[i].start /\ shards'[i].end = shards[i].end
  BY <1>5 DEF Ages
<1>7. shards' \in Seq(Shard) /\ Len(shards') = Len(shards) /\ DOMAIN shards' = DOMAIN shards
  BY <1>0, <1>1, <1>4, MakeSeq, ShardsShape
<1>8. ShardsTypeOK'
  BY <1>0, <1>5, <1>7 DEF ShardsTypeOK
<1>9. NoneWrapped' <=> NoneWrapped
  BY <1>6, <1>7 DEF NoneWrapped, Wrapped
<1>10. WindowsInOrder'
  BY <1>6, <1>7, <1>9 DEF ShardsIInv, WindowsInOrder
<1>11. OnlyNewestActive'
  BY <1>3, <1>5, <1>7, <1>9 DEF ShardsIInv, OnlyNewestActive, Ages
<1>12. /\ \A i \in DOMAIN shards' : shards'[i].end = Plus(shards'[i].start, Window)
       /\ NoneWrapped' => \A i \in DOMAIN shards' : shards'[i].start >= 0 /\ Multiple(shards'[i].start)
  BY <1>6, <1>7, <1>9 DEF ShardsIInv
<1> QED
  BY <1>5, <1>8, <1>10, <1>11, <1>12 DEF ShardsIInv, Multiple

LEMMA AddBlockStep ==
    ASSUME ShardsIInv, NEW k \in DOMAIN shards, NEW b \in Block, AddBlock(k, b)
    PROVE  ShardsIInv' /\ \A i \in DOMAIN shards :
                              i \in DOMAIN shards' /\ Ages(shards[i], shards'[i])
<1>0. ShardsTypeOK
  BY DEF ShardsIInv
<1>1. /\ DOMAIN shards = 1..Len(shards) /\ Len(shards) \in DOMAIN shards
      /\ shards \in [1..Len(shards) -> Shard]
      /\ \A i \in DOMAIN shards : shards[i] \in Shard
  BY <1>0, ShardsShape
<1> DEFINE s == [shards[k] EXCEPT !.blocks = @ \cup {b}]
<1>2. s \in Shard /\ Ages(shards[k], s) /\ s.state = shards[k].state
  BY <1>1, BlockAdded
<1>3. shards' = [shards EXCEPT ![k] = s] /\ nextID' = nextID
  BY DEF AddBlock
<1> HIDE DEF s
<1>4. shards' \in [1..Len(shards) -> Shard]
  BY <1>1, <1>2, <1>3
<1>5. \A i \in DOMAIN shards : i \in DOMAIN shards' /\ Ages(shards[i], shards'[i])
  BY <1>1, <1>2, <1>3, AgesReflexive
<1>6. shards'[Len(shards)].state = shards[Len(shards)].state
  BY <1>1, <1>2, <1>3
<1>7. ShardsIInv'
  BY <1>3, <1>4, <1>5, <1>6, AgingStep
<1> QED
  BY <1>5, <1>7

\* What becomes of a function when one of its values is replaced.
LEMMA Replacing ==
    ASSUME NEW D, NEW T, NEW f \in [D -> T], NEW d \in D, NEW e \in T,
           NEW g, g = [f EXCEPT ![d] = e]
    PROVE  g \in [D -> T] /\ g[d] = e /\ \A i \in D : i # d => g[i] = f[i]
  OBVIOUS

\* Route and AddBlock to the shard it returns.
LEMMA AttachStep ==
    ASSUME ShardsIInv, NEW t \in Time, ~RouteRejects(t), NEW b \in Block,
           RouteOpens(t) => Len(shards) < MaxShards,
           NEW R, R = RoutedShards(t),
           shards' = [R EXCEPT ![Len(R)].blocks = @ \cup {b}],
           nextID' = IF RouteOpens(t) THEN nextID + 1 ELSE nextID
    PROVE  ShardsIInv' /\ \A i \in DOMAIN shards :
                              i \in DOMAIN shards' /\ Ages(shards[i], shards'[i])
<1>0. ShardsTypeOK
  BY DEF ShardsIInv
<1>1. /\ Len(shards) \in Nat \ {0} /\ DOMAIN shards = 1..Len(shards)
      /\ shards \in [1..Len(shards) -> Shard]
      /\ Len(shards) \in DOMAIN shards
  BY <1>0, ShardsShape
<1>2. CASE ~RouteOpens(t)
  <2>1. R = shards /\ AddBlock(Len(shards), b)
    BY <1>2 DEF RoutedShards, AddBlock
  <2> QED
    BY <1>1, <2>1, AddBlockStep
<1>3. CASE RouteOpens(t)
  <2> DEFINE n == Len(shards) + 1
             new == [R[n] EXCEPT !.blocks = @ \cup {b}]
  <2> HIDE DEF new
  <2>1. /\ aligned(t) \in Time
        /\ R \in [1..n -> Shard]
        /\ R[n] = NewShard(aligned(t))
        /\ \A i \in DOMAIN shards : Ages(shards[i], R[i])
        /\ NoneWrapped =>
               /\ aligned(t) >= Last.end /\ aligned(t) >= 0 /\ Multiple(aligned(t))
               /\ \A i \in DOMAIN shards : R[i].state # "active"
    BY <1>3, RoutedOpening
  <2>2. Len(R) = n
    BY <1>1, <2>1, MakeSeq
  <2>3. shards' = [R EXCEPT ![n] = new]
    BY <2>2 DEF new
  <2>4. new \in Shard /\ new.start = R[n].start /\ new.end = R[n].end /\ new.state = R[n].state
    <3>1. R[n] \in Shard
      BY <1>1, <2>1
    <3> QED
      BY <3>1, BlockAdded DEF new, Ages
  <2>5. /\ new.start = aligned(t) /\ new.end = Plus(aligned(t), Window) /\ new.state = "active"
    BY <1>0, <2>1, <2>4, NewShardType
  <2>6. /\ shards' \in [1..n -> Shard] /\ shards'[n] = new
        /\ \A i \in DOMAIN shards : i \in DOMAIN shards' /\ shards'[i] = R[i]
    <3>1. R \in [1..n -> Shard] /\ n \in 1..n /\ \A i \in DOMAIN shards : i \in 1..n /\ i # n
      BY <1>1, <2>1
    <3> HIDE DEF n
    <3>2. /\ shards' \in [1..n -> Shard] /\ shards'[n] = new
          /\ \A i \in 1..n : i # n => shards'[i] = R[i]
      <4> DEFINE g == shards'
                 f == R
      <4>1. g = [f EXCEPT ![n] = new] /\ f \in [1..n -> Shard] /\ n \in 1..n /\ new \in Shard
        BY <2>3, <2>4, <3>1
      <4> HIDE DEF g, f
      <4>2. /\ g \in [1..n -> Shard] /\ g[n] = new
            /\ \A i \in 1..n : i # n => g[i] = f[i]
        BY <4>1, Replacing
      <4> QED
        BY <4>2 DEF g, f
    <3> QED
      BY <3>1, <3>2
  <2>7. ShardsIInv'
    BY <1>3, <2>1, <2>5, <2>6, OpeningStep
  <2> QED
    BY <2>1, <2>6, <2>7
<1> QED
  BY <1>2, <1>3

-----------------------------------------------------------------------------
(* What the modules that use the shards need to know of an operation. *)

\* The windows, as the invariant has them.
Known ==
    /\ Len(shards) \in DOMAIN shards /\ DOMAIN shards = 1..Len(shards) /\ Len(shards) \in Nat
    /\ Last = shards[Len(shards)]
    /\ \A i \in DOMAIN shards : /\ shards[i] \in Shard /\ shards[i].blocks \subseteq Block
                                /\ shards[i].start \in Int /\ shards[i].end \in Int
    /\ NoneWrapped =>
           \A i \in DOMAIN shards :
               /\ 0 <= shards[i].start /\ shards[i].end = shards[i].start + Window
               /\ Multiple(shards[i].start)
               /\ i # Len(shards) => shards[i].end <= Last.start

LEMMA WindowsKnown == ShardsIInv => Known
<1> SUFFICES ASSUME ShardsIInv PROVE Known
  OBVIOUS
<1>1. ShardsTypeOK
  BY DEF ShardsIInv
<1>2. /\ Len(shards) \in Nat \ {0} /\ DOMAIN shards = 1..Len(shards)
      /\ Last = shards[Len(shards)]
      /\ \A i \in DOMAIN shards : /\ shards[i] \in Shard
                                  /\ shards[i].start \in Time /\ shards[i].start \in Int
                                  /\ shards[i].end \in Int
  BY <1>1, ShardsShape
<1>3. \A i \in DOMAIN shards : shards[i].blocks \subseteq Block
  BY <1>2 DEF Shard
<1>4. ASSUME NoneWrapped, NEW i \in DOMAIN shards
      PROVE  /\ 0 <= shards[i].start /\ shards[i].end = shards[i].start + Window
             /\ Multiple(shards[i].start)
             /\ i # Len(shards) => shards[i].end <= Last.start
  <2>1. 0 <= shards[i].start /\ Multiple(shards[i].start)
    BY <1>4 DEF ShardsIInv
  <2>2. shards[i].end = Plus(shards[i].start, Window) /\ shards[i].end > shards[i].start
    BY <1>2, <1>4 DEF ShardsIInv, NoneWrapped, Wrapped
  <2>3. shards[i].end = shards[i].start + Window
    BY <1>2, <2>2, PlusWindow
  <2>4. i # Len(shards) => shards[i].end <= Last.start
    BY <1>2, <1>4 DEF ShardsIInv, WindowsInOrder
  <2> QED
    BY <2>1, <2>3, <2>4
<1> QED
  BY <1>2, <1>3, <1>4 DEF Known

LEMMA WindowsKnownNext == ShardsIInv' => Known'
  BY WindowsKnown, PTL

\* No operation moves or drops a window, nor takes a wrapped one back.
Kept ==
    /\ ShardsIInv'
    /\ \A i \in DOMAIN shards :
          /\ i \in DOMAIN shards'
          /\ shards'[i].start = shards[i].start /\ shards'[i].end = shards[i].end
    /\ NoneWrapped' => NoneWrapped

ListOf(i) == IF i \in DOMAIN shards THEN shards[i].blocks ELSE {}

SameLists == \A i \in DOMAIN shards' : shards'[i].blocks = ListOf(i)

LEMMA AgedIsKept ==
    ASSUME ShardsIInv', \A i \in DOMAIN shards : i \in DOMAIN shards' /\ Ages(shards[i], shards'[i])
    PROVE  Kept
<1>1. \A i \in DOMAIN shards : /\ i \in DOMAIN shards'
                               /\ shards'[i].start = shards[i].start /\ shards'[i].end = shards[i].end
  BY DEF Ages
<1> QED
  BY <1>1 DEF Kept, NoneWrapped, Wrapped

\* A list of shards after a window has been opened, or not, for t.
LEMMA RoutedList ==
    ASSUME ShardsIInv, NEW t \in Time, NEW R, R = RoutedShards(t)
    PROVE  /\ Len(R) \in DOMAIN R /\ DOMAIN R = 1..Len(R) /\ Len(R) \in Nat
           /\ Len(R) = IF RouteOpens(t) THEN Len(shards) + 1 ELSE Len(shards)
           /\ \A i \in DOMAIN R : R[i] \in Shard /\ R[i].blocks = ListOf(i)
           /\ RouteOpens(t) => R[Len(R)] = NewShard(aligned(t))
           /\ ~RouteOpens(t) => R = shards
<1> DEFINE n == Len(shards)
<1>1. Known
  BY WindowsKnown
<1>2. CASE ~RouteOpens(t)
  BY <1>1, <1>2 DEF RoutedShards, Known, ListOf
<1>3. CASE RouteOpens(t)
  <2>1. /\ R \in [1..(n + 1) -> Shard] /\ R[n + 1] = NewShard(aligned(t))
    BY <1>3, RoutedOpening
  <2>2. Len(R) = n + 1 /\ DOMAIN R = 1..(n + 1)
    BY <1>1, <2>1, MakeSeq DEF Known
  <2>3. ASSUME NEW i \in DOMAIN shards PROVE R[i].blocks = shards[i].blocks
    <3>1. R[i] = Sealed(shards[i]) \/ R[i] = shards[i]
      BY <1>1, <1>3 DEF RoutedShards, Known
    <3> QED
      BY <1>1, <3>1 DEF Sealed, Shard, Known
  <2>4. R[n + 1].blocks = {}
    BY <2>1 DEF NewShard
  <2>5. n \in Nat /\ DOMAIN shards = 1..n
    BY <1>1 DEF Known
  <2>6. ASSUME NEW i \in DOMAIN R PROVE R[i] \in Shard /\ R[i].blocks = ListOf(i)
    <3>1. i \in DOMAIN shards \/ (i = n + 1 /\ i \notin DOMAIN shards)
      BY <2>2, <2>5
    <3> QED
      BY <2>1, <2>2, <2>3, <2>4, <3>1 DEF ListOf
  <2> QED
    BY <1>3, <2>1, <2>2, <2>5, <2>6
<1> QED
  BY <1>2, <1>3

\* What a new window makes of the shard for t is to cover t, unless it wraps.
LEMMA OpenedCovers ==
    ASSUME ShardsIInv, NEW t \in 0..MaxInt, NEW s, s.start = aligned(t),
           s.end = Plus(aligned(t), Window), s.end > s.start
    PROVE  Covers(s, t)
<1>1. /\ aligned(t) \in 0..t /\ t < aligned(t) + Window /\ aligned(t) \in Time
  BY AlignedNat, AlignedType, ShardConstants DEF Time
<1>2. Plus(aligned(t), Window) = aligned(t) + Window
  BY <1>1, PlusWindow
<1> QED
  BY <1>1, <1>2 DEF Covers

\* Route, and perhaps AddBlock to the shard it returns.
LEMMA RoutedKeeps ==
    ASSUME ShardsIInv, NEW t \in 0..MaxInt, NEW L, NEW R, R = RoutedShards(t),
           shards' = [R EXCEPT ![Len(R)].blocks = @ \cup L],
           ShardsIInv', \A i \in DOMAIN shards : i \in DOMAIN shards' /\ Ages(shards[i], shards'[i])
    PROVE  /\ Kept /\ DOMAIN shards' = 1..Len(shards') /\ Len(shards') \in DOMAIN shards'
           /\ \A i \in DOMAIN shards' :
                 shards'[i].blocks = ListOf(i) \cup (IF i = Len(shards') THEN L ELSE {})
           /\ NoneWrapped' /\ ~RouteRejects(t) => Covers(Last', t)
<1> DEFINE n == Len(R)
<1>1. t \in Time /\ t \in Nat
  BY ShardConstants DEF Time
<1>2. /\ n \in DOMAIN R /\ DOMAIN R = 1..n /\ n \in Nat
      /\ \A i \in DOMAIN R : R[i] \in Shard /\ R[i].blocks = ListOf(i)
      /\ RouteOpens(t) => R[n] = NewShard(aligned(t))
      /\ ~RouteOpens(t) => R = shards
  BY <1>1, RoutedList
<1>3. Kept /\ Known /\ Known'
  BY AgedIsKept, WindowsKnown, WindowsKnownNext
<1> HIDE DEF n
<1>4. DOMAIN shards' = DOMAIN R /\ Len(shards') = n
  <2>1. DOMAIN shards' = DOMAIN R
    OBVIOUS
  <2>2. Len(shards') \in Nat /\ 1..Len(shards') = 1..n /\ n \in 1..n
    BY <1>2, <1>3, <2>1 DEF Known
  <2> QED
    BY <1>2, <2>1, <2>2
<1>5. \A i \in DOMAIN R : i # n => shards'[i] = R[i]
  BY DEF n
<1>6. /\ shards'[n].blocks = R[n].blocks \cup L
      /\ shards'[n].start = R[n].start /\ shards'[n].end = R[n].end
  BY <1>2 DEF n, Shard
<1>7. ASSUME NEW i \in DOMAIN shards'
      PROVE  shards'[i].blocks = ListOf(i) \cup (IF i = Len(shards') THEN L ELSE {})
  BY <1>2, <1>4, <1>5, <1>6
<1>8. ASSUME NoneWrapped', ~RouteRejects(t) PROVE Covers(Last', t)
  <2>1. Last' = shards'[n] /\ shards'[n].start < shards'[n].end
    BY <1>2, <1>3, <1>4, <1>8 DEF Known, NoneWrapped, Wrapped
  <2>2. CASE RouteOpens(t)
    <3>1. R[n].start = aligned(t) /\ R[n].end = Plus(aligned(t), Window)
      BY <1>2, <2>2 DEF NewShard
    <3> QED
      BY <1>6, <2>1, <3>1, OpenedCovers
  <2>3. CASE ~RouteOpens(t)
    <3>1. R[n] = Last
      BY <1>2, <2>3 DEF n, Last
    <3>2. Last.start \in Int
      BY <1>3 DEF Known
    <3>3. Covers(Last, t)
      BY <1>1, <1>8, <2>3, <3>2 DEF RouteOpens, RouteRejects
    <3> QED
      BY <1>6, <2>1, <3>1, <3>3 DEF Covers
  <2> QED
    BY <2>2, <2>3
<1> QED
  BY <1>2, <1>3, <1>4, <1>7, <1>8

LEMMA RouteKeeps ==
    ASSUME ShardsIInv, NEW t \in 0..MaxInt, Route(t)
    PROVE  /\ Kept /\ SameLists
           /\ NoneWrapped' /\ ~RouteRejects(t) => Covers(Last', t)
<1> DEFINE R == RoutedShards(t)
<1>1. t \in Time
  BY ShardConstants DEF Time
<1>2. ShardsIInv' /\ \A i \in DOMAIN shards : i \in DOMAIN shards' /\ Ages(shards[i], shards'[i])
  BY <1>1, RouteStep
<1>3. \A i \in DOMAIN R : R[i] \in Shard
  BY <1>1, RoutedList
<1>4. [R EXCEPT ![Len(R)].blocks = @ \cup {}] = R
  <2>1. /\ Len(R) \in DOMAIN R /\ R[Len(R)] \in Shard
        /\ R = [i \in DOMAIN R |-> R[i]]
    BY <1>1, <1>3, RoutedList, ShardsShape DEF RoutedShards, ShardsIInv
  <2>2. [R[Len(R)] EXCEPT !.blocks = @ \cup {}] = R[Len(R)]
    BY <2>1 DEF Shard
  <2> HIDE DEF R
  <2> QED
    BY <2>1, <2>2
<1>5. shards' = R
  BY DEF Route
<1> HIDE DEF R
<1>6. R = RoutedShards(t) /\ shards' = [R EXCEPT ![Len(R)].blocks = @ \cup {}]
  BY <1>4, <1>5 DEF R
<1>7. /\ Kept
      /\ \A i \in DOMAIN shards' :
            shards'[i].blocks = ListOf(i) \cup (IF i = Len(shards') THEN {} ELSE {})
      /\ NoneWrapped' /\ ~RouteRejects(t) => Covers(Last', t)
  BY <1>2, <1>6, RoutedKeeps, Zenon
<1> QED
  BY <1>7 DEF SameLists

LEMMA AttachKeeps ==
    ASSUME ShardsIInv, NEW t \in 0..MaxInt, ~RouteRejects(t), NEW b \in Block,
           RouteOpens(t) => Len(shards) < MaxShards,
           NEW R, R = RoutedShards(t),
           shards' = [R EXCEPT ![Len(R)].blocks = @ \cup {b}],
           nextID' = IF RouteOpens(t) THEN nextID + 1 ELSE nextID
    PROVE  /\ Kept /\ DOMAIN shards' = 1..Len(shards') /\ Len(shards') \in DOMAIN shards'
           /\ \A i \in DOMAIN shards' :
                 shards'[i].blocks = ListOf(i) \cup (IF i = Len(shards') THEN {b} ELSE {})
           /\ NoneWrapped' => Covers(Last', t)
<1>1. t \in Time
  BY ShardConstants DEF Time
<1>2. ShardsIInv' /\ \A i \in DOMAIN shards : i \in DOMAIN shards' /\ Ages(shards[i], shards'[i])
  BY <1>1, AttachStep
<1> QED
  BY <1>2, RoutedKeeps

LEMMA RotateKeeps == ASSUME ShardsIInv, ForceRotate PROVE Kept /\ SameLists
<1> DEFINE n == Len(shards)
           new == NewShard(Last.end)
<1>1. Kept /\ Known
  BY ForceRotateStep, AgedIsKept, WindowsKnown
<1>2. new.blocks = {}
  BY DEF NewShard
<1> HIDE DEF new
<1>3. shards' = [i \in 1..(n + 1) |->
                   IF i > n THEN new
                   ELSE IF i = n THEN Sealed(shards[i]) ELSE shards[i]]
  BY DEF ForceRotate, new
<1>0. n \in Nat /\ DOMAIN shards = 1..n
  BY <1>1 DEF Known
<1> HIDE DEF n
<1>4. ASSUME NEW i \in DOMAIN shards' PROVE shards'[i].blocks = ListOf(i)
  <2>1. CASE i \in DOMAIN shards
    <3>1. shards'[i] = Sealed(shards[i]) \/ shards'[i] = shards[i]
      BY <1>0, <1>3, <2>1
    <3>2. shards[i] \in Shard
      BY <1>1, <2>1 DEF Known
    <3> QED
      BY <2>1, <3>1, <3>2 DEF ListOf, Sealed, Shard
  <2>2. CASE i \notin DOMAIN shards
    <3>1. shards'[i] = new
      BY <1>0, <1>3, <2>2
    <3> QED
      BY <1>2, <2>2, <3>1 DEF ListOf
  <2> QED
    BY <2>1, <2>2
<1> QED
  BY <1>1, <1>4 DEF SameLists

LEMMA ArchiveKeeps == ASSUME ShardsIInv, NEW t, ArchiveOlderThan(t) PROVE Kept /\ SameLists
<1>1. Kept /\ Known
  BY ArchiveStep, AgedIsKept, WindowsKnown
<1>2. ASSUME NEW i \in DOMAIN shards' PROVE shards'[i].blocks = ListOf(i)
  <2>1. i \in DOMAIN shards /\ (shards'[i] = Archived(shards[i]) \/ shards'[i] = shards[i])
    BY <1>1 DEF Known, ArchiveOlderThan
  <2>2. shards[i] \in Shard
    BY <1>1, <2>1 DEF Known
  <2> QED
    BY <2>1, <2>2 DEF ListOf, Archived, Shard
<1> QED
  BY <1>1, <1>2 DEF SameLists

LEMMA StayKeeps == ASSUME ShardsIInv, UNCHANGED shardVars PROVE Kept /\ SameLists
<1>1. ShardsIInv' /\ (NoneWrapped' => NoneWrapped)
  BY DEF shardVars, ShardsIInv, ShardsTypeOK, NoneWrapped, Wrapped, WindowsInOrder,
         OnlyNewestActive
<1> QED
  BY <1>1 DEF shardVars, Kept, SameLists, ListOf

\* The newest window is the same or a later one.
LEMMA LastMovesOn ==
    ASSUME ShardsIInv, Kept, NoneWrapped'
    PROVE  Last.start \in Int /\ Last'.start \in Int /\ Last.start <= Last'.start
<1>1. Known /\ Known' /\ NoneWrapped
  BY WindowsKnown, WindowsKnownNext DEF Kept
<1> DEFINE n == Len(shards)
           m == Len(shards')
<1>2. n \in DOMAIN shards /\ n \in DOMAIN shards' /\ m \in DOMAIN shards'
  BY <1>1 DEF Known, Kept
<1>3. /\ Last = shards[n] /\ Last' = shards'[m]
      /\ shards'[n].start = shards[n].start /\ shards'[n].end = shards[n].end
  BY <1>1, <1>2 DEF Known, Kept
<1>4. /\ shards[n].start \in Int /\ shards'[m].start \in Int
      /\ shards[n].end = shards[n].start + Window
  BY <1>1, <1>2 DEF Known
<1>5. \A i \in DOMAIN shards' : i # m => shards'[i].end <= Last'.start
  BY <1>1 DEF Known
<1> HIDE DEF n, m
<1> QED
  BY <1>2, <1>3, <1>4, <1>5, ShardConstants

-----------------------------------------------------------------------------
(* The theorems. *)

LEMMA ShardsStep ==
    ASSUME ShardsIInv, ShardsNext
    PROVE  ShardsIInv' /\ \A i \in DOMAIN shards :
                              i \in DOMAIN shards' /\ Ages(shards[i], shards'[i])
  BY RouteStep, ForceRotateStep, ArchiveStep, AddBlockStep DEF ShardsNext

THEOREM ShardsInductive == ShardsSpec => []ShardsIInv
<1>1. ShardsInit => ShardsIInv
  BY InitShardsIInv
<1>2. ShardsIInv /\ [ShardsNext]_shardVars => ShardsIInv'
  <2>1. CASE ShardsNext
    BY <2>1, ShardsStep
  <2>2. CASE UNCHANGED shardVars
    BY <2>2 DEF shardVars, ShardsIInv, ShardsTypeOK, NoneWrapped, Wrapped, WindowsInOrder,
                OnlyNewestActive, Multiple
  <2> QED
    BY <2>1, <2>2
<1> QED
  BY <1>1, <1>2, PTL DEF ShardsSpec

\* The list of shards keeps its type and its counter of ids (ShardsTypeOK).
THEOREM ShardsTypeCorrect == ShardsSpec => []ShardsTypeOK
<1>1. ShardsIInv => ShardsTypeOK
  BY DEF ShardsIInv
<1> QED
  BY <1>1, ShardsInductive, PTL

\* Windows are disjoint and in order until the int64 range is used up
\* (WindowsInOrder).
THEOREM OrderHolds == ShardsSpec => []WindowsInOrder
<1>1. ShardsIInv => WindowsInOrder
  BY DEF ShardsIInv
<1> QED
  BY <1>1, ShardsInductive, PTL

\* Until then exactly the newest shard is active (OnlyNewestActive).
THEOREM NewestActiveHolds == ShardsSpec => []OnlyNewestActive
<1>1. ShardsIInv => OnlyNewestActive
  BY DEF ShardsIInv
<1> QED
  BY <1>1, ShardsInductive, PTL

\* No step reopens, moves, drops or empties a shard (ShardsOnlyAge).
THEOREM OnlyAgeHolds == ShardsSpec => ShardsOnlyAge
<1> DEFINE A == \A i \in DOMAIN shards :
                   /\ i \in DOMAIN shards'
                   /\ shards'[i].start = shards[i].start /\ shards'[i].end = shards[i].end
                   /\ Rank(shards'[i].state) >= Rank(shards[i].state)
                   /\ shards[i].blocks \subseteq shards'[i].blocks
<1>1. ShardsIInv /\ [ShardsNext]_shardVars => [A]_shardVars
  BY ShardsStep DEF Ages
<1> QED
  BY <1>1, ShardsInductive, PTL DEF ShardsSpec, ShardsOnlyAge
=============================================================================
