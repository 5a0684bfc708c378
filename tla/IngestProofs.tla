---------------------------- MODULE IngestProofs ----------------------------
(***************************************************************************)
(* Proofs about Ingest.tla, for any samples, timestamps, sizes of windows, *)
(* of the memtable and of the log, and any number of faults.  They rest on *)
(* what ShardsProofs.tla proves of the operations of the shards.           *)
(***************************************************************************)
EXTENDS Ingest, TLAPS

SP == INSTANCE ShardsProofs WITH Block <- SUBSET Point

-----------------------------------------------------------------------------
(* The shards. *)

LEMMA ConstantsOfShards == SP!ShardConstants
  BY IngestConstants DEF SP!ShardConstants

LEMMA SameIInv == S!ShardsIInv <=> SP!ShardsIInv
  BY DEF S!ShardsIInv, S!ShardsTypeOK, S!NoneWrapped, S!Wrapped, S!WindowsInOrder,
         S!OnlyNewestActive, S!Multiple, S!Plus, S!Shard, S!Time, S!State,
         SP!ShardsIInv, SP!ShardsTypeOK, SP!NoneWrapped, SP!Wrapped, SP!WindowsInOrder,
         SP!OnlyNewestActive, SP!Multiple, SP!Plus, SP!Shard, SP!Time, SP!State

LEMMA SameIInvNext == S!ShardsIInv' <=> SP!ShardsIInv'
  BY DEF S!ShardsIInv, S!ShardsTypeOK, S!NoneWrapped, S!Wrapped, S!WindowsInOrder,
         S!OnlyNewestActive, S!Multiple, S!Plus, S!Shard, S!Time, S!State,
         SP!ShardsIInv, SP!ShardsTypeOK, SP!NoneWrapped, SP!Wrapped, SP!WindowsInOrder,
         SP!OnlyNewestActive, SP!Multiple, SP!Plus, SP!Shard, SP!Time, SP!State

LEMMA SameRoute ==
    ASSUME NEW t
    PROVE  /\ S!Route(t) <=> SP!Route(t)
           /\ S!RoutedShards(t) = SP!RoutedShards(t)
           /\ S!RouteOpens(t) <=> SP!RouteOpens(t)
           /\ S!RouteRejects(t) <=> SP!RouteRejects(t)
  BY DEF S!Route, S!RoutedShards, S!RouteOpens, S!RouteRejects, S!Covers, S!Last, S!NewShard,
         S!Plus, S!Sealed, S!aligned, S!Remainder,
         SP!Route, SP!RoutedShards, SP!RouteOpens, SP!RouteRejects, SP!Covers, SP!Last, SP!NewShard,
         SP!Plus, SP!Sealed, SP!aligned, SP!Remainder

LEMMA SameRotate == S!ForceRotate <=> SP!ForceRotate
  BY DEF S!ForceRotate, S!Last, S!NewShard, S!Plus, S!Sealed,
         SP!ForceRotate, SP!Last, SP!NewShard, SP!Plus, SP!Sealed

LEMMA SameInit == S!ShardsInit <=> SP!ShardsInit
  BY DEF S!ShardsInit, S!FirstShards, S!aligned, S!Plus, S!Remainder,
         SP!ShardsInit, SP!FirstShards, SP!aligned, SP!Plus, SP!Remainder

\* What the invariant of the shards says of their windows.
Known ==
    /\ Len(shards) \in DOMAIN shards /\ DOMAIN shards = 1..Len(shards) /\ Len(shards) \in Nat
    /\ S!Last = shards[Len(shards)]
    /\ \A i \in DOMAIN shards : /\ shards[i] \in S!Shard
                                /\ shards[i].start \in Int /\ shards[i].end \in Int
                                /\ shards[i].blocks \subseteq SUBSET Point
    /\ S!NoneWrapped =>
           \A i \in DOMAIN shards :
               /\ 0 <= shards[i].start /\ shards[i].start < shards[i].end
               /\ i # Len(shards) => shards[i].end <= S!Last.start

LEMMA ShardsKnown == S!ShardsIInv => Known
<1> SUFFICES ASSUME S!ShardsIInv PROVE Known
  OBVIOUS
<1>1. S!ShardsTypeOK /\ SP!ShardsTypeOK
  BY DEF S!ShardsIInv, S!ShardsTypeOK, SP!ShardsTypeOK, S!Shard, S!Time, S!State, SP!Shard, SP!Time, SP!State
<1>2. /\ Len(shards) \in Nat \ {0}
      /\ DOMAIN shards = 1..Len(shards)
      /\ \A i \in DOMAIN shards : /\ shards[i] \in SP!Shard
                                  /\ shards[i].start \in Int /\ shards[i].end \in Int
  BY <1>1, ConstantsOfShards, SP!ShardsShape
<1>3. \A i \in DOMAIN shards : shards[i] \in S!Shard /\ shards[i].blocks \subseteq SUBSET Point
  BY <1>2 DEF SP!Shard, S!Shard, SP!Time, S!Time, SP!State, S!State
<1>4. S!Last = shards[Len(shards)]
  BY DEF S!Last
<1>5. ASSUME S!NoneWrapped, NEW i \in DOMAIN shards
      PROVE  /\ 0 <= shards[i].start /\ shards[i].start < shards[i].end
             /\ i # Len(shards) => shards[i].end <= S!Last.start
  <2>1. 0 <= shards[i].start
    BY <1>2, <1>5 DEF S!ShardsIInv
  <2>2. shards[i].start < shards[i].end
    BY <1>2, <1>5 DEF S!NoneWrapped, S!Wrapped
  <2>3. i # Len(shards) => shards[i].end <= S!Last.start
    BY <1>2, <1>4, <1>5 DEF S!ShardsIInv, S!WindowsInOrder
  <2> QED
    BY <2>1, <2>2, <2>3
<1> QED
  BY <1>2, <1>3, <1>4, <1>5 DEF Known

LEMMA ShardsKnownNext == S!ShardsIInv' => Known'
  BY ShardsKnown, PTL

\* No operation moves or drops a window, nor takes a wrapped one back.
Kept ==
    /\ S!ShardsIInv'
    /\ \A i \in DOMAIN shards :
          /\ i \in DOMAIN shards'
          /\ shards'[i].start = shards[i].start /\ shards'[i].end = shards[i].end
    /\ S!NoneWrapped' => S!NoneWrapped

SameBlocks ==
    /\ \A i \in DOMAIN shards : shards'[i].blocks = shards[i].blocks
    /\ \A i \in DOMAIN shards' \ DOMAIN shards : shards'[i].blocks = {}

LEMMA AgedIsKept ==
    ASSUME S!ShardsIInv, SP!ShardsIInv',
           \A i \in DOMAIN shards : i \in DOMAIN shards' /\ SP!Ages(shards[i], shards'[i])
    PROVE  Kept
<1>1. \A i \in DOMAIN shards :
          /\ i \in DOMAIN shards'
          /\ shards'[i].start = shards[i].start /\ shards'[i].end = shards[i].end
  BY DEF SP!Ages
<1>2. S!NoneWrapped' => S!NoneWrapped
  BY <1>1 DEF S!NoneWrapped, S!Wrapped
<1> QED
  BY <1>1, <1>2, SameIInvNext DEF Kept

LEMMA RouteKeeps ==
    ASSUME S!ShardsIInv, NEW p \in Point, S!Route(TS[p])
    PROVE  /\ Kept /\ SameBlocks
           /\ ~S!RouteOpens(TS[p]) => UNCHANGED shards
           /\ S!NoneWrapped' /\ ~S!RouteRejects(TS[p]) => S!Covers(S!Last', TS[p])
<1> DEFINE n == Len(shards)
           t == TS[p]
<1>1. t \in SP!Time /\ t \in Nat
  BY IngestConstants DEF SP!Time
<1> HIDE DEF t
<1>2. SP!ShardsIInv' /\ \A i \in DOMAIN shards : i \in DOMAIN shards' /\ SP!Ages(shards[i], shards'[i])
  BY <1>1, SameIInv, SameRoute, ConstantsOfShards, SP!RouteStep DEF t
<1>3. Kept
  BY <1>2, AgedIsKept
<1>4. /\ n \in DOMAIN shards /\ DOMAIN shards = 1..n /\ n \in Nat
      /\ \A i \in DOMAIN shards : shards[i] \in S!Shard
  BY ShardsKnown DEF Known
<1>5. CASE ~S!RouteOpens(t)
  <2>1. UNCHANGED shards
    BY <1>5 DEF S!Route, S!RoutedShards, t
  <2>2. S!Last' = S!Last
    BY <2>1 DEF S!Last
  <2>3. S!Covers(S!Last, t) \/ S!RouteRejects(t)
    <3>1. S!Last.start \in Int
      BY ShardsKnown DEF Known
    <3> QED
      BY <1>1, <1>5, <3>1 DEF S!RouteOpens, S!RouteRejects
  <2> QED
    BY <1>3, <2>1, <2>2, <2>3 DEF SameBlocks, t
<1>6. CASE S!RouteOpens(t)
  <2>1. shards' = [i \in 1..(n + 1) |->
                     IF i > n THEN S!NewShard(S!aligned(t))
                     ELSE IF shards[i].end <= S!aligned(t) THEN S!Sealed(shards[i]) ELSE shards[i]]
    BY <1>6 DEF S!Route, S!RoutedShards, t
  <2>2. shards'[n + 1] = S!NewShard(S!aligned(t)) /\ DOMAIN shards' = 1..(n + 1)
    BY <1>4, <2>1
  <2>3. /\ shards'[n + 1].start = S!aligned(t) /\ shards'[n + 1].end = S!Plus(S!aligned(t), Window)
        /\ shards'[n + 1].blocks = {}
    BY <2>2 DEF S!NewShard
  <2>4. ASSUME NEW i \in DOMAIN shards PROVE shards'[i].blocks = shards[i].blocks
    <3>1. shards'[i] = S!Sealed(shards[i]) \/ shards'[i] = shards[i]
      BY <1>4, <2>1
    <3> QED
      BY <1>4, <3>1 DEF S!Sealed, S!Shard
  <2>5. SameBlocks
    BY <1>4, <2>2, <2>3, <2>4 DEF SameBlocks
  <2>6. S!Last' = shards'[n + 1]
    <3>1. S!ShardsTypeOK'
      BY <1>3 DEF Kept, S!ShardsIInv
    <3>2. shards' \in Seq(S!Shard)
      BY <3>1 DEF S!ShardsTypeOK, S!Shard, S!Time, S!State
    <3>3. Len(shards') = n + 1
      BY <1>4, <2>2, <3>2
    <3> QED
      BY <3>3 DEF S!Last
  <2>7. ASSUME S!NoneWrapped' PROVE S!Covers(S!Last', t)
    <3>1. /\ S!aligned(t) \in 0..t /\ t < S!aligned(t) + Window /\ S!aligned(t) \in SP!Time
      BY <1>1, ConstantsOfShards, SP!AlignedNat, SP!AlignedType
         DEF S!aligned, S!Remainder, SP!aligned, SP!Remainder
    <3>2. S!Plus(S!aligned(t), Window) > S!aligned(t)
      BY <1>4, <2>2, <2>3, <2>7, <3>1, SP!PlusWindow, ConstantsOfShards
         DEF S!NoneWrapped, S!Wrapped, S!Plus, SP!Plus, SP!Time
    <3>3. S!Plus(S!aligned(t), Window) = S!aligned(t) + Window
      BY <3>1, <3>2, ConstantsOfShards, SP!PlusWindow DEF S!Plus, SP!Plus
    <3> QED
      BY <1>1, <2>3, <2>6, <3>1, <3>3 DEF S!Covers
  <2> QED
    BY <1>3, <1>6, <2>5, <2>7 DEF t
<1> QED
  BY <1>5, <1>6

LEMMA RotateKeeps ==
    ASSUME S!ShardsIInv, S!ForceRotate
    PROVE  Kept /\ SameBlocks /\ S!Last'.start = S!Last.end
<1> DEFINE n == Len(shards)
           new == S!NewShard(S!Last.end)
<1> HIDE DEF n, new
<1>1. SP!ShardsIInv' /\ \A i \in DOMAIN shards : i \in DOMAIN shards' /\ SP!Ages(shards[i], shards'[i])
  BY SameIInv, SameRotate, ConstantsOfShards, SP!ForceRotateStep
<1>2. Kept
  BY <1>1, AgedIsKept
<1>3. /\ n \in DOMAIN shards /\ DOMAIN shards = 1..n /\ n \in Nat
      /\ \A i \in DOMAIN shards : shards[i] \in S!Shard
  BY ShardsKnown DEF n, Known
<1>4. shards' = [i \in 1..(n + 1) |->
                   IF i > n THEN new
                   ELSE IF i = n THEN S!Sealed(shards[i]) ELSE shards[i]]
  BY DEF S!ForceRotate, n, new
<1>5. shards'[n + 1] = new /\ DOMAIN shards' = 1..(n + 1)
  BY <1>3, <1>4
<1>6. shards'[n + 1].start = S!Last.end /\ shards'[n + 1].blocks = {}
  BY <1>5 DEF S!NewShard, new
<1>7. ASSUME NEW i \in DOMAIN shards PROVE shards'[i].blocks = shards[i].blocks
  <2>1. shards'[i] = S!Sealed(shards[i]) \/ shards'[i] = shards[i]
    BY <1>3, <1>4
  <2> QED
    BY <1>3, <2>1 DEF S!Sealed, S!Shard
<1>8. SameBlocks
  BY <1>3, <1>5, <1>6, <1>7 DEF SameBlocks
<1>9. S!Last' = shards'[n + 1]
  <2>1. S!ShardsTypeOK'
    BY <1>2 DEF Kept, S!ShardsIInv
  <2>2. shards' \in Seq(S!Shard)
    BY <2>1 DEF S!ShardsTypeOK, S!Shard, S!Time, S!State
  <2>3. Len(shards') = n + 1
    BY <1>3, <1>5, <2>2
  <2> QED
    BY <2>3 DEF S!Last
<1> QED
  BY <1>2, <1>6, <1>8, <1>9

LEMMA SameShardsKeep == ASSUME S!ShardsIInv, UNCHANGED shardVars PROVE Kept /\ SameBlocks
<1>1. S!ShardsIInv'
  BY DEF shardVars, S!ShardsIInv, S!ShardsTypeOK, S!NoneWrapped, S!Wrapped, S!WindowsInOrder,
         S!OnlyNewestActive, S!Multiple, S!Plus, S!Shard, S!Time, S!State
<1>2. S!NoneWrapped' => S!NoneWrapped
  BY DEF shardVars, S!NoneWrapped, S!Wrapped
<1> QED
  BY <1>1, <1>2 DEF shardVars, Kept, SameBlocks

\* The newest window is the same or a later one.
LEMMA LastMovesOn ==
    ASSUME S!ShardsIInv, Kept, S!NoneWrapped'
    PROVE  /\ S!Last.start \in Int /\ S!Last.end \in Int /\ S!Last.start < S!Last.end
           /\ S!Last'.start \in Int /\ S!Last'.end \in Int /\ S!Last'.start < S!Last'.end
           /\ S!Last.start <= S!Last'.start /\ S!Last.end <= S!Last'.end
           /\ \/ S!Last'.start = S!Last.start /\ S!Last'.end = S!Last.end
              \/ S!Last.end <= S!Last'.start
<1>1. Known /\ Known' /\ S!NoneWrapped
  BY ShardsKnown, ShardsKnownNext DEF Kept
<1> DEFINE n == Len(shards)
           m == Len(shards')
<1>2. n \in DOMAIN shards /\ n \in DOMAIN shards' /\ m \in DOMAIN shards'
  BY <1>1 DEF Known, Kept
<1>3. /\ S!Last = shards[n] /\ S!Last' = shards'[m]
      /\ shards'[n].start = shards[n].start /\ shards'[n].end = shards[n].end
  BY <1>1, <1>2 DEF Known, Kept
<1>4. /\ shards[n].start \in Int /\ shards[n].end \in Int /\ shards[n].start < shards[n].end
      /\ shards'[m].start \in Int /\ shards'[m].end \in Int /\ shards'[m].start < shards'[m].end
  BY <1>1, <1>2 DEF Known
<1>5. n = m \/ shards'[n].end <= S!Last'.start
  BY <1>1, <1>2 DEF Known
<1> HIDE DEF n, m
<1> QED
  BY <1>3, <1>4, <1>5

LEMMA StoredKept == ASSUME Kept, SameBlocks PROVE Stored' = Stored
  BY DEF Kept, SameBlocks, Stored

\* A block or a group stays in the window it is in.
LEMMA BlocksStay ==
    ASSUME Kept, SameBlocks, BlocksInTheirShard PROVE BlocksInTheirShard'
  BY DEF Kept, SameBlocks, BlocksInTheirShard, S!Covers

-----------------------------------------------------------------------------
(* Three shapes of step. *)

LEMMA NobodyIsNone == "none" \notin Point /\ "ticker" \notin Point /\ "recover" \notin Point
  BY IngestConstants

LEMMA StoredPoints == S!ShardsIInv => Stored \subseteq Point
  BY ShardsKnown DEF Known, Stored

LEMMA PassedStays ==
    ASSUME S!ShardsIInv, Kept, S!NoneWrapped', NEW p \in Point, Passed(p)
    PROVE  Passed(p)'
<1>1. TS[p] \in Int
  BY IngestConstants
<1> QED
  BY <1>1, LastMovesOn DEF Passed

\* Nothing moves between the memtable, the flush and the blocks.
LEMMA Quiet ==
    ASSUME IngestIInv, Kept, SameBlocks, Control',
           UNCHANGED <<snap, groups, mem, live, mu, server>>
    PROVE  IngestIInv'
<1> SUFFICES ASSUME S!NoneWrapped' PROVE (Owned /\ Routed /\ Placed)'
  BY DEF IngestIInv, Kept
<1>1. S!ShardsIInv /\ S!NoneWrapped /\ Owned /\ Routed /\ Placed
  BY DEF IngestIInv, Kept
<1>2. /\ Stored' = Stored /\ Grouped' = Grouped /\ Reachable' = Reachable
  BY StoredKept DEF Grouped, Reachable
<1>3. \A p \in Point : TS[p] \in Int
  BY IngestConstants
<1>4. Owned'
  BY <1>1, <1>2 DEF Owned
<1>5. Routed'
  BY <1>1, <1>2, <1>3, LastMovesOn DEF Routed, OneBlockPerFlush
<1>6. \A i \in DOMAIN groups' : InWindow(groups[i])'
  BY <1>1 DEF Placed, Kept, InWindow, S!Covers
<1>7. \A p \in mem' \cap Point : TS[p] < S!Last'.end
  BY <1>1, <1>3, LastMovesOn DEF Placed
<1>8. \A p \in live' \cup ({mu'} \cap Point) : p \in Reachable' \/ (p \in Point /\ Passed(p)')
  BY <1>1, <1>2, PassedStays DEF Placed
<1>9. Placed'
  BY <1>1, <1>6, <1>7, <1>8, BlocksStay DEF Placed
<1> QED
  BY <1>4, <1>5, <1>9

\* A flush takes over the points of the memtable, new ones among them.
LEMMA Swapping ==
    ASSUME IngestIInv, Kept, SameBlocks, Control', mu = "none", server # "down",
           NEW who, NEW seq, NEW points, Swap(who, seq, points),
           {who} \cap Point \subseteq points,
           live \subseteq live', live' \subseteq live \cup points,
           S!NoneWrapped' =>
               /\ mem \subseteq points /\ points \subseteq live' \cup {who}
               /\ who # "recover" => \A p \in points \cap Point : TS[p] < S!Last'.end
    PROVE  IngestIInv'
<1> SUFFICES ASSUME S!NoneWrapped' PROVE (Owned /\ Routed /\ Placed)'
  BY DEF IngestIInv, Kept
<1>1. S!ShardsIInv /\ S!NoneWrapped /\ Control /\ Owned /\ Routed /\ Placed
  BY DEF IngestIInv, Kept
<1>2. /\ snap = {} /\ groups = <<>>
      /\ mem' = {} /\ snap' = points /\ groups' = <<>> /\ mu' = who
  BY <1>1 DEF Control, Swap
<1>3. /\ Stored' = Stored /\ Grouped = {} /\ Grouped' = {}
  BY <1>2, StoredKept DEF Grouped
<1>4. Stored \subseteq live
  BY <1>1, StoredPoints, NobodyIsNone DEF Owned
<1>5. Owned'
  BY <1>2, <1>3, <1>4 DEF Owned
<1>6. Routed'
  BY <1>2, <1>3, <1>4 DEF Routed, OneBlockPerFlush
<1>7. ASSUME NEW p \in live' \cup ({mu'} \cap Point)
      PROVE  p \in Reachable' \/ (p \in Point /\ Passed(p)')
  <2>1. CASE p \in points
    BY <1>2, <2>1 DEF Reachable
  <2>2. CASE p \in live
    BY <1>1, <1>2, <1>3, <2>2, PassedStays DEF Placed, Reachable
  <2> QED
    BY <1>2, <2>1, <2>2
<1>8. Placed'
  BY <1>1, <1>2, <1>7, BlocksStay DEF Placed
<1> QED
  BY <1>5, <1>6, <1>8

\* The process ends.
LEMMA Ending == ASSUME IngestIInv, Gone PROVE IngestIInv'
<1>1. Kept /\ SameBlocks
  BY SameShardsKeep DEF IngestIInv, Gone
<1>2. /\ server' = "down" /\ mu' = "none" /\ mem' = {} /\ live' = {}
      /\ phase' = "idle" /\ snap' = {} /\ groups' = <<>>
  BY DEF Gone
<1>3. pc' = [p \in Point |-> IF pc[p] \in Running THEN "lost" ELSE pc[p]]
  BY DEF Gone
<1>4. \A p \in Point : pc'[p] \in {"new"} \cup Running \cup Done /\ pc'[p] \notin Running
  BY <1>3 DEF IngestIInv, Control, Running, Done
<1>5. pc' \in [Point -> {"new"} \cup Running \cup Done]
  BY <1>3, <1>4
<1>6. Control'
  BY <1>2, <1>4, <1>5, NobodyIsNone DEF Control, Running
<1> SUFFICES ASSUME S!NoneWrapped' PROVE (Owned /\ Routed /\ Placed)'
  BY <1>1, <1>6 DEF IngestIInv, Kept
<1>7. Placed
  BY <1>1 DEF IngestIInv, Kept
<1>8. Grouped' = {}
  BY <1>2 DEF Grouped
<1>9. (Owned /\ Routed)'
  BY <1>2, <1>8 DEF Owned, Routed, OneBlockPerFlush
<1>10. Placed'
  BY <1>1, <1>2, <1>7, BlocksStay, NobodyIsNone DEF Placed
<1> QED
  BY <1>9, <1>10

-----------------------------------------------------------------------------
(* One lemma per action, or per few of one shape. *)

LEMMA InitIngest == Init => IngestIInv
<1> SUFFICES ASSUME Init PROVE IngestIInv
  OBVIOUS
<1>1. S!ShardsIInv
  BY SP!InitShardsIInv, ConstantsOfShards, SameInit, SameIInv DEF Init
<1>2. Control
  BY NobodyIsNone DEF Init, Control, Running
<1>3. S!NoneWrapped => Owned /\ Routed /\ Placed
  BY NobodyIsNone
     DEF Init, Owned, Routed, Placed, OneBlockPerFlush, BlocksInTheirShard, Grouped, Stored,
         S!ShardsInit, S!FirstShards
<1> QED
  BY <1>1, <1>2, <1>3 DEF IngestIInv

LEMMA RequestIngest ==
    ASSUME NEW p \in Point, IngestIInv, Admit(p) \/ Refuse(p) \/ Log(p)
    PROVE  IngestIInv'
<1>1. /\ UNCHANGED <<shardVars, snap, groups, mem, live, mu, server, phase>>
      /\ server = "serving" \/ pc[p] = "admitted"
      /\ pc[p] \in {"new", "admitted"}
      /\ \E place \in {"admitted", "failed", "logged"} : pc' = [pc EXCEPT ![p] = place]
  BY DEF Admit, Refuse, Log, shardVars, flushVars
<1>2. Control'
  BY <1>1 DEF IngestIInv, Control, Running, Done
<1>3. Kept /\ SameBlocks
  BY <1>1, SameShardsKeep DEF IngestIInv
<1> QED
  BY <1>1, <1>2, <1>3, Quiet

LEMMA RotateIngest == ASSUME IngestIInv, Rotate PROVE IngestIInv'
<1>1. /\ UNCHANGED <<snap, groups, mem, live, mu, server, phase, pc>> /\ S!ForceRotate
  BY DEF Rotate, flushVars
<1>2. Control'
  BY <1>1 DEF IngestIInv, Control
<1> QED
  BY <1>1, <1>2, RotateKeeps, Quiet DEF IngestIInv

LEMMA TickerIngest == ASSUME IngestIInv, TickerFlush \/ TickerSync PROVE IngestIInv'
<1>1. Kept /\ SameBlocks /\ S!Last' = S!Last
  BY SameShardsKeep DEF IngestIInv, TickerFlush, TickerSync, S!Last, shardVars
<1>2. CASE TickerSync
  <2>1. UNCHANGED <<snap, groups, mem, live, mu, server, phase, pc>>
    BY <1>2 DEF TickerSync, flushVars
  <2>2. Control'
    BY <2>1 DEF IngestIInv, Control
  <2> QED
    BY <1>1, <2>1, <2>2, Quiet
<1>3. CASE TickerFlush
  <2>1. /\ UNCHANGED <<live, server, pc>> /\ server = "serving" /\ mu = "none"
        /\ Swap("ticker", nextSeq - 1, mem)
    BY <1>3 DEF TickerFlush
  <2>2. Control'
    BY <2>1, NobodyIsNone DEF IngestIInv, Control, Swap
  <2>3. S!NoneWrapped' =>
            /\ mem \subseteq live' \cup {"ticker"}
            /\ \A p \in mem \cap Point : TS[p] < S!Last'.end
    BY <1>1, <2>1 DEF IngestIInv, Kept, Owned, Placed
  <2> QED
    BY <1>1, <2>1, <2>2, <2>3, NobodyIsNone, Swapping
<1> QED
  BY <1>2, <1>3

LEMMA WriteIngest == ASSUME NEW p \in Point, IngestIInv, Write(p) PROVE IngestIInv'
<1>1. /\ pc[p] = "logged" /\ mu = "none" /\ S!Route(TS[p]) /\ UNCHANGED server
      /\ S!ShardsIInv /\ Control
  BY DEF Write, IngestIInv
<1>2. /\ server = "serving" /\ phase = "idle" /\ snap = {} /\ groups = <<>>
  BY <1>1 DEF Control, Running
<1>3. /\ Kept /\ SameBlocks
      /\ S!NoneWrapped' /\ ~S!RouteRejects(TS[p]) => TS[p] < S!Last'.end
  BY <1>1, RouteKeeps DEF S!Covers
<1>4. CASE UNCHANGED <<flushVars, mu, mem, live>> /\ pc' = [pc EXCEPT ![p] = "failed"]
  <2>1. Control'
    BY <1>1, <1>2, <1>4 DEF Control, Done, Running, flushVars
  <2> QED
    BY <1>1, <1>3, <1>4, <2>1, Quiet DEF flushVars
<1>5. CASE /\ ~S!RouteRejects(TS[p]) /\ mem' = mem \cup {p} /\ live' = live \cup {p}
           /\ pc' = [pc EXCEPT ![p] = "acked"] /\ UNCHANGED <<flushVars, mu>>
  <2>1. Control'
    BY <1>1, <1>2, <1>5 DEF Control, Done, Running, flushVars
  <2> SUFFICES ASSUME S!NoneWrapped' PROVE (Owned /\ Routed /\ Placed)'
    BY <1>3, <2>1 DEF IngestIInv, Kept
  <2>2. Owned /\ Routed /\ Placed
    BY <1>3 DEF IngestIInv, Kept
  <2>3. /\ Stored' = Stored /\ Grouped' = {} /\ snap' = {} /\ groups' = <<>> /\ Grouped = {}
    BY <1>2, <1>3, <1>5, StoredKept DEF flushVars, Grouped
  <2>4. Owned'
    BY <1>1, <1>5, <2>2, <2>3 DEF Owned
  <2>5. Routed'
    BY <2>3 DEF Routed, OneBlockPerFlush
  <2>6. \A q \in mem' \cap Point : TS[q] < S!Last'.end
    <3>1. \A q \in Point : TS[q] \in Int
      BY IngestConstants
    <3> QED
      BY <1>1, <1>3, <1>5, <2>2, <3>1, LastMovesOn DEF Placed
  <2>7. ASSUME NEW q \in live' \cup ({mu'} \cap Point)
        PROVE  q \in Reachable' \/ (q \in Point /\ Passed(q)')
    <3>1. CASE q = p
      BY <1>5, <3>1 DEF Reachable
    <3>2. CASE q \in live
      BY <1>1, <1>2, <1>3, <1>5, <2>2, <2>3, <3>2, PassedStays DEF Placed, Reachable
    <3> QED
      BY <1>1, <1>5, <3>1, <3>2, NobodyIsNone
  <2>8. Placed'
    BY <1>3, <2>2, <2>3, <2>6, <2>7, BlocksStay DEF Placed
  <2> QED
    BY <2>4, <2>5, <2>8
<1>6. CASE /\ ~S!RouteRejects(TS[p]) /\ Swap(p, seqOf[p], mem \cup {p})
           /\ pc' = [pc EXCEPT ![p] = "flushing"] /\ UNCHANGED live
  <2>1. Control'
    BY <1>1, <1>2, <1>6, NobodyIsNone DEF Control, Done, Running, Swap
  <2>2. ASSUME S!NoneWrapped'
        PROVE  /\ mem \cup {p} \subseteq live' \cup {p}
               /\ \A q \in (mem \cup {p}) \cap Point : TS[q] < S!Last'.end
    <3>1. Owned /\ Placed
      BY <1>3, <2>2 DEF IngestIInv, Kept
    <3>2. \A q \in Point : TS[q] \in Int
      BY IngestConstants
    <3> QED
      BY <1>1, <1>3, <1>6, <2>2, <3>1, <3>2, LastMovesOn DEF Owned, Placed
  <2> QED
    BY <1>1, <1>2, <1>3, <1>6, <2>1, <2>2, Swapping
<1> QED
  BY <1>4, <1>5, <1>6 DEF Write

LEMMA RecoverIngest == ASSUME IngestIInv, Recover PROVE IngestIInv'
<1> DEFINE replayed == {r.pt : r \in W!Replayed(nextReplay)}
<1> HIDE DEF replayed
<1>1. /\ server = "recovering" /\ mu = "none" /\ live' = live \cup replayed /\ UNCHANGED <<shardVars, pc>>
      /\ \/ replayed = {} /\ server' = "serving" /\ UNCHANGED <<flushVars, mu, mem>>
         \/ Swap("recover", nextSeq - 1, replayed) /\ UNCHANGED server
  BY DEF Recover, replayed
<1>2. Kept /\ SameBlocks
  BY <1>1, SameShardsKeep DEF IngestIInv
<1>3. mem = {} /\ live = {}
  BY <1>1 DEF IngestIInv, Control
<1>4. CASE replayed = {} /\ server' = "serving" /\ UNCHANGED <<flushVars, mu, mem>>
  <2>1. Control'
    BY <1>1, <1>4 DEF IngestIInv, Control, flushVars
  <2> SUFFICES ASSUME S!NoneWrapped' PROVE (Owned /\ Routed /\ Placed)'
    BY <1>2, <2>1 DEF IngestIInv, Kept
  <2>2. Owned /\ Routed /\ Placed /\ Control
    BY <1>2 DEF IngestIInv, Kept
  <2>3. /\ Stored' = Stored /\ Grouped' = {} /\ snap' = {} /\ groups' = <<>> /\ live' = {} /\ mem' = {}
    BY <1>1, <1>2, <1>3, <1>4, <2>2, StoredKept DEF flushVars, Grouped, Control
  <2>4. (Owned /\ Routed)'
    BY <1>1, <1>3, <1>4, <2>2, <2>3 DEF Owned, Routed, OneBlockPerFlush
  <2>5. Placed'
    BY <1>1, <1>2, <1>4, <2>2, <2>3, BlocksStay, NobodyIsNone DEF Placed
  <2> QED
    BY <2>4, <2>5
<1>5. CASE Swap("recover", nextSeq - 1, replayed) /\ UNCHANGED server
  <2>1. Control'
    BY <1>1, <1>5, NobodyIsNone DEF IngestIInv, Control, Swap
  <2> QED
    BY <1>1, <1>2, <1>3, <1>5, <2>1, NobodyIsNone, Swapping
<1> QED
  BY <1>1, <1>4, <1>5

Windowed == [start : S!Time, pts : SUBSET Point]
Groups == Seq(Windowed)

Within(g) == UNION {g[i].pts : i \in DOMAIN g}

\* AddToGroup adds one point, to a group or as a group.
LEMMA Adding ==
    ASSUME groups \in Groups, NEW start \in S!Time, NEW p \in Point, NEW g, g = AddToGroup(start, p)
    PROVE  /\ g \in Groups
           /\ Within(g) = Within(groups) \cup {p}
           /\ \A i \in DOMAIN g :
                  \/ i \in DOMAIN groups /\ g[i] = groups[i]
                  \/ i \in DOMAIN groups /\ groups[i].start = start
                     /\ g[i].start = start /\ g[i].pts = groups[i].pts \cup {p}
                  \/ g[i].start = start /\ g[i].pts = {p}
           /\ Len(g) <= Len(groups) \/ (Len(g) = Len(groups) + 1
                                        /\ \A i \in DOMAIN groups : groups[i].start # start)
<1> DEFINE n == Len(groups)
<1>1. n \in Nat /\ DOMAIN groups = 1..n /\ groups \in [1..n -> Windowed]
  BY DEF Groups
<1>2. CASE \E i \in DOMAIN groups : groups[i].start = start
  <2>1. g = [i \in 1..n |->
               IF groups[i].start = start THEN [groups[i] EXCEPT !.pts = @ \cup {p}] ELSE groups[i]]
    BY <1>1, <1>2 DEF AddToGroup
  <2>2. ASSUME NEW i \in 1..n
        PROVE  /\ g[i] \in Windowed /\ g[i].start = groups[i].start
               /\ g[i] = groups[i] \/ g[i].pts = groups[i].pts \cup {p}
               /\ groups[i].start = start => g[i].pts = groups[i].pts \cup {p}
               /\ groups[i].start # start => g[i] = groups[i]
    <3>1. groups[i] \in Windowed
      BY <1>1
    <3>2. g[i] = IF groups[i].start = start THEN [groups[i] EXCEPT !.pts = @ \cup {p}] ELSE groups[i]
      BY <2>1
    <3> QED
      BY <3>1, <3>2 DEF Windowed
  <2>3. g \in [1..n -> Windowed]
    BY <2>1, <2>2
  <2>4. g \in Groups /\ Len(g) = n /\ DOMAIN g = 1..n
    BY <1>1, <2>3, SP!MakeSeq, ConstantsOfShards DEF Groups
  <2>5. Within(g) = Within(groups) \cup {p}
    BY <1>1, <1>2, <2>2, <2>4 DEF Within
  <2> QED
    BY <1>1, <2>2, <2>4, <2>5
<1>3. CASE ~ \E i \in DOMAIN groups : groups[i].start = start
  <2>1. g = Append(groups, [start |-> start, pts |-> {p}])
    BY <1>3 DEF AddToGroup
  <2>2. [start |-> start, pts |-> {p}] \in Windowed
    BY DEF Windowed
  <2>3. /\ g \in Groups /\ Len(g) = n + 1 /\ DOMAIN g = 1..(n + 1)
        /\ g[n + 1] = [start |-> start, pts |-> {p}]
        /\ \A i \in 1..n : g[i] = groups[i]
    BY <1>1, <2>1, <2>2 DEF Groups
  <2>4. \A i \in 1..(n + 1) : i \in 1..n \/ i = n + 1
    BY <1>1
  <2>5. n + 1 \in 1..(n + 1) /\ \A i \in 1..n : i \in 1..(n + 1)
    BY <1>1
  <2> HIDE DEF n
  <2>6. Within(g) = Within(groups) \cup {p}
    BY <1>1, <2>3, <2>4, <2>5 DEF Within
  <2> QED
    BY <1>1, <1>3, <2>3, <2>4, <2>6 DEF n
<1> QED
  BY <1>2, <1>3

\* Two windows do not start together.
LEMMA NewestByStart ==
    ASSUME S!ShardsIInv', S!NoneWrapped', NEW j \in DOMAIN shards', shards'[j].start = S!Last'.start
    PROVE  shards'[j] = S!Last'
<1>1. Known'
  BY ShardsKnownNext
<1> DEFINE m == Len(shards')
<1>2. m \in DOMAIN shards' /\ S!Last' = shards'[m]
  BY <1>1 DEF Known
<1>3. ASSUME j # m PROVE FALSE
  <2>1. /\ shards'[j].end <= S!Last'.start /\ shards'[j].start < shards'[j].end
        /\ shards'[j].start \in Int /\ shards'[j].end \in Int
    BY <1>1, <1>3 DEF Known
  <2> QED
    BY <2>1
<1> QED
  BY <1>2, <1>3

LEMMA GroupIngest == ASSUME NEW p \in Point, IngestIInv, Group(p) PROVE IngestIInv'
<1> DEFINE start == S!Last'.start
<1>1. /\ phase = "group" /\ p \in snap /\ snap' = snap \ {p} /\ S!Route(TS[p])
      /\ groups' = IF S!RouteRejects(TS[p]) THEN groups ELSE AddToGroup(start, p)
      /\ UNCHANGED <<server, pc, mu, mem, phase, live>>
  BY DEF Group
<1>2. /\ S!ShardsIInv /\ Control /\ groups \in Groups /\ mu # "none" /\ mem = {}
  BY <1>1 DEF IngestIInv, Control, Groups, Windowed
<1>3. /\ Kept /\ SameBlocks
      /\ ~S!RouteOpens(TS[p]) => UNCHANGED shards
      /\ S!NoneWrapped' /\ ~S!RouteRejects(TS[p]) => S!Covers(S!Last', TS[p])
  BY <1>1, <1>2, RouteKeeps
<1>4. start \in S!Time
  BY <1>3, ShardsKnownNext DEF Kept, Known, S!Shard
<1> HIDE DEF start
<1>5. CASE S!RouteRejects(TS[p])
  <2>1. groups' = groups /\ ~S!RouteOpens(TS[p])
    BY <1>1, <1>5, IngestConstants, ShardsKnown, <1>2 DEF S!RouteRejects, S!RouteOpens, Known
  <2>2. UNCHANGED shards
    BY <1>3, <2>1
  <2>3. Control'
    BY <1>1, <1>2, <2>1 DEF Control
  <2> SUFFICES ASSUME S!NoneWrapped' PROVE (Owned /\ Routed /\ Placed)'
    BY <1>3, <2>3 DEF IngestIInv, Kept
  <2>4. S!NoneWrapped /\ Owned /\ Routed /\ Placed
    BY <1>3 DEF IngestIInv, Kept
  <2>5. Stored' = Stored /\ Grouped' = Grouped /\ S!Last' = S!Last /\ Passed(p)'
    BY <1>5, <2>1, <2>2 DEF Stored, Grouped, S!Last, Passed, S!RouteRejects
  <2>6. Owned'
    BY <1>1, <2>4, <2>5 DEF Owned
  <2>7. Routed'
    BY <1>1, <2>1, <2>4, <2>5 DEF Routed, OneBlockPerFlush
  <2>8. \A i \in DOMAIN groups' : InWindow(groups[i])'
    BY <1>3, <2>1, <2>4 DEF Placed, Kept, InWindow, S!Covers
  <2>9. \A q \in live' \cup ({mu'} \cap Point) : q \in Reachable' \/ (q \in Point /\ Passed(q)')
    BY <1>1, <1>2, <1>3, <2>4, <2>5, PassedStays DEF Placed, Reachable
  <2>10. Placed'
    BY <1>1, <1>2, <1>3, <2>4, <2>8, <2>9, BlocksStay DEF Placed
  <2> QED
    BY <2>6, <2>7, <2>10
<1>6. CASE ~S!RouteRejects(TS[p])
  <2>0. groups' = AddToGroup(start, p)
    BY <1>1, <1>6
  <2>1. /\ groups' \in Groups
        /\ Within(groups') = Within(groups) \cup {p}
        /\ \A i \in DOMAIN groups' :
              \/ i \in DOMAIN groups /\ groups'[i] = groups[i]
              \/ i \in DOMAIN groups /\ groups[i].start = start
                 /\ groups'[i].start = start /\ groups'[i].pts = groups[i].pts \cup {p}
              \/ groups'[i].start = start /\ groups'[i].pts = {p}
        /\ Len(groups') <= Len(groups) \/ (Len(groups') = Len(groups) + 1
                                           /\ \A i \in DOMAIN groups : groups[i].start # start)
    BY <1>2, <1>4, <2>0, Adding
  <2>2. Control'
    BY <1>1, <1>2, <2>1 DEF Control, Groups, Windowed
  <2> SUFFICES ASSUME S!NoneWrapped' PROVE (Owned /\ Routed /\ Placed)'
    BY <1>3, <2>2 DEF IngestIInv, Kept
  <2>3. S!NoneWrapped /\ Owned /\ Routed /\ Placed
    BY <1>3 DEF IngestIInv, Kept
  <2>4. Stored' = Stored /\ Grouped' = Grouped \cup {p}
    BY <1>3, <2>1, StoredKept DEF Grouped, Within
  <2>5. Owned'
    BY <1>1, <2>3, <2>4 DEF Owned
  <2>6. ASSUME mu # "recover"
        PROVE  /\ Len(groups') <= 1
               /\ \A q \in snap' \cap Point :
                      TS[q] < S!Last'.end /\ \A i \in DOMAIN groups' : groups'[i].start = S!Last'.start
               /\ Stored' \subseteq live'
    <3>1. S!Last.start \in Int /\ S!Last.end \in Int /\ TS[p] \in Int
      BY <1>3, LastMovesOn, <1>2, IngestConstants
    <3>2. TS[p] < S!Last.end /\ TS[p] >= S!Last.start
      BY <1>1, <1>6, <2>3, <2>6, <3>1 DEF Routed, S!RouteRejects, S!Covers
    <3>3. S!Last' = S!Last
      <4>1. ~S!RouteOpens(TS[p])
        BY <3>1, <3>2 DEF S!RouteOpens, S!Covers
      <4> QED
        BY <1>3, <4>1 DEF S!Last
    <3>4. \A i \in DOMAIN groups : groups[i].start = start
      BY <1>1, <2>3, <2>6, <3>2, <3>3 DEF Routed, start
    <3>5. Len(groups) \in Nat /\ Len(groups) <= 1 /\ DOMAIN groups = 1..Len(groups) /\ Len(groups') \in Nat
      BY <1>2, <2>1, <2>3, <2>6 DEF Groups, Routed, OneBlockPerFlush
    <3>6. Len(groups') <= 1
      BY <2>1, <3>4, <3>5
    <3>7. \A i \in DOMAIN groups' : groups'[i].start = S!Last'.start
      BY <2>1, <3>4 DEF start
    <3> QED
      BY <1>1, <2>3, <2>4, <2>6, <3>3, <3>6, <3>7 DEF Routed
  <2>7. Routed'
    BY <1>1, <2>6 DEF Routed, OneBlockPerFlush
  <2>8. ASSUME NEW i \in DOMAIN groups' PROVE InWindow(groups[i])'
    <3>1. S!Last' = shards'[Len(shards')] /\ Len(shards') \in DOMAIN shards' /\ S!Covers(S!Last', TS[p])
      BY <1>3, <1>6, ShardsKnownNext DEF Kept, Known
    <3>2. CASE i \in DOMAIN groups /\ groups'[i] = groups[i]
      BY <1>3, <2>3, <3>2 DEF Placed, Kept, InWindow, S!Covers
    <3>3. CASE i \in DOMAIN groups /\ groups[i].start = start
               /\ groups'[i].start = start /\ groups'[i].pts = groups[i].pts \cup {p}
      <4>1. PICK j \in DOMAIN shards :
                shards[j].start = start /\ \A q \in groups[i].pts : S!Covers(shards[j], TS[q])
        BY <2>3, <3>3 DEF Placed, InWindow
      <4>2. /\ j \in DOMAIN shards' /\ shards'[j].start = start
            /\ \A q \in groups[i].pts : S!Covers(shards'[j], TS[q])
        BY <1>3, <4>1 DEF Kept, S!Covers
      <4>3. S!Covers(shards'[j], TS[p])
        BY <1>3, <3>1, <4>2, NewestByStart DEF Kept, start
      <4> QED
        BY <3>3, <4>2, <4>3 DEF InWindow, S!Covers
    <3>4. CASE groups'[i].start = start /\ groups'[i].pts = {p}
      BY <3>1, <3>4 DEF InWindow, start, S!Covers
    <3> QED
      BY <2>1, <3>2, <3>3, <3>4
  <2>9. \A q \in live' \cup ({mu'} \cap Point) : q \in Reachable' \/ (q \in Point /\ Passed(q)')
    BY <1>1, <1>2, <1>3, <2>3, <2>4, PassedStays DEF Placed, Reachable
  <2>10. Placed'
    BY <1>1, <1>2, <1>3, <2>3, <2>8, <2>9, BlocksStay DEF Placed
  <2> QED
    BY <2>5, <2>7, <2>10
<1> QED
  BY <1>5, <1>6

\* The first group of those left.
LEMMA HeadOfGroups ==
    ASSUME groups \in Groups, groups # <<>>
    PROVE  /\ 1 \in DOMAIN groups /\ Head(groups) = groups[1] /\ groups[1].pts \subseteq Point
           /\ Tail(groups) \in Groups /\ Len(groups) \in Nat /\ Len(Tail(groups)) = Len(groups) - 1
           /\ \A i \in DOMAIN Tail(groups) :
                  i + 1 \in DOMAIN groups /\ Tail(groups)[i] = groups[i + 1]
           /\ \A i \in DOMAIN groups : i = 1 \/ (i - 1 \in DOMAIN Tail(groups) /\ i = (i - 1) + 1)
<1>1. /\ 1 \in DOMAIN groups /\ Head(groups) = groups[1] /\ groups[1] \in Windowed
      /\ Tail(groups) \in Groups /\ Len(groups) \in Nat /\ Len(Tail(groups)) = Len(groups) - 1
      /\ DOMAIN groups = 1..Len(groups) /\ DOMAIN Tail(groups) = 1..(Len(groups) - 1)
      /\ \A i \in 1..(Len(groups) - 1) : Tail(groups)[i] = groups[i + 1]
  BY DEF Groups
<1>2. groups[1].pts \subseteq Point
  BY <1>1 DEF Windowed
<1> QED
  BY <1>1, <1>2

\* The window the earliest point of a group routes to is the group's.
LEMMA GroupIsNewest ==
    ASSUME S!ShardsIInv, S!NoneWrapped, NEW g, InWindow(g), NEW p \in Point, Earliest(g, p),
           ~S!RouteRejects(TS[p])
    PROVE  ~S!RouteOpens(TS[p]) /\ \A q \in g.pts : S!Covers(S!Last, TS[q])
<1>1. Known /\ TS[p] \in Int /\ p \in g.pts
  BY ShardsKnown, IngestConstants DEF Earliest
<1>2. PICK j \in DOMAIN shards : \A q \in g.pts : S!Covers(shards[j], TS[q])
  BY DEF InWindow
<1>3. /\ S!Last.start \in Int /\ S!Last.end \in Int /\ S!Last = shards[Len(shards)]
      /\ shards[j].start \in Int /\ shards[j].end \in Int
      /\ j # Len(shards) => shards[j].end <= S!Last.start
  BY <1>1 DEF Known
<1>4. TS[p] >= S!Last.start /\ shards[j].start <= TS[p] /\ TS[p] < shards[j].end
  BY <1>1, <1>2, <1>3 DEF S!RouteRejects, S!Covers
<1>5. j = Len(shards)
  BY <1>1, <1>3, <1>4
<1> QED
  BY <1>1, <1>2, <1>3, <1>5 DEF S!RouteOpens

LEMMA StoreIngest == ASSUME IngestIInv, StoreGroup PROVE IngestIInv'
<1> DEFINE g == groups[1]
           n == Len(shards)
<1>1. /\ phase = "group" /\ snap = {} /\ groups # <<>> /\ groups' = Tail(groups)
      /\ UNCHANGED <<server, pc, mu, mem, phase, snap, live>>
  BY DEF StoreGroup
<1>2. /\ S!ShardsIInv /\ Control /\ groups \in Groups /\ mu # "none" /\ mem = {} /\ Known
  BY <1>1, ShardsKnown DEF IngestIInv, Control, Groups, Windowed
<1>3. Head(groups) = g /\ 1 \in DOMAIN groups /\ g.pts \subseteq Point /\ groups' \in Groups
  BY <1>1, <1>2, HeadOfGroups
<1>4. PICK p \in Point :
          /\ Earliest(g, p) /\ ~S!RouteRejects(TS[p])
          /\ S!RouteOpens(TS[p]) => n < MaxShards
          /\ shards' = [S!RoutedShards(TS[p]) EXCEPT
                           ![Len(S!RoutedShards(TS[p]))].blocks = @ \cup {g.pts}]
          /\ nextID' = IF S!RouteOpens(TS[p]) THEN nextID + 1 ELSE nextID
  BY <1>3 DEF StoreGroup
<1> HIDE DEF g
<1>5. Kept
  <2>1. TS[p] \in SP!Time
    BY IngestConstants DEF SP!Time
  <2>2. SP!ShardsIInv' /\ \A i \in DOMAIN shards : i \in DOMAIN shards' /\ SP!Ages(shards[i], shards'[i])
    BY <1>2, <1>3, <1>4, <2>1, SameIInv, SameRoute, ConstantsOfShards, SP!AttachStep
  <2> QED
    BY <1>2, <2>2, AgedIsKept
<1>6. Control'
  BY <1>1, <1>2, <1>3 DEF Control, Groups, Windowed
<1> SUFFICES ASSUME S!NoneWrapped' PROVE (Owned /\ Routed /\ Placed)'
  BY <1>5, <1>6 DEF IngestIInv, Kept
<1>7. S!NoneWrapped /\ Owned /\ Routed /\ Placed
  BY <1>5 DEF IngestIInv, Kept
<1>8. ~S!RouteOpens(TS[p]) /\ \A q \in g.pts : S!Covers(S!Last, TS[q])
  BY <1>2, <1>3, <1>4, <1>7, GroupIsNewest DEF Placed, g
<1>9. shards' = [shards EXCEPT ![n].blocks = @ \cup {g.pts}]
  BY <1>4, <1>8 DEF S!RoutedShards
<1>10. /\ DOMAIN shards' = DOMAIN shards /\ n \in DOMAIN shards /\ S!Last = shards[n]
       /\ shards'[n].blocks = shards[n].blocks \cup {g.pts}
       /\ \A i \in DOMAIN shards : i # n => shards'[i] = shards[i]
  <2>1. n \in DOMAIN shards /\ shards[n] \in S!Shard /\ S!Last = shards[n]
    BY <1>2 DEF Known
  <2> HIDE DEF n
  <2>2. shards'[n] = [shards[n] EXCEPT !.blocks = @ \cup {g.pts}]
    BY <1>9, <2>1
  <2> QED
    BY <1>9, <2>1, <2>2 DEF S!Shard
<1>11. Grouped = g.pts \cup Grouped'
  BY <1>1, <1>2, <1>3, HeadOfGroups DEF Grouped, g
<1>12. Stored' = Stored \cup g.pts
  BY <1>10 DEF Stored
<1>13. Owned'
  BY <1>1, <1>7, <1>11, <1>12 DEF Owned
<1>14. Routed'
  <2>1. ASSUME mu # "recover" PROVE Len(groups') = 0 /\ groups' = <<>>
    <3>1. Len(groups) \in Nat /\ Len(groups) <= 1 /\ Len(groups') = Len(groups) - 1 /\ Len(groups') \in Nat
      BY <1>1, <1>2, <1>3, <1>7, <2>1, HeadOfGroups DEF Routed, OneBlockPerFlush, Groups
    <3> QED
      BY <1>3, <3>1 DEF Groups
  <2> QED
    BY <1>1, <2>1 DEF Routed, OneBlockPerFlush
<1>15. BlocksInTheirShard'
  <2> SUFFICES ASSUME NEW i \in DOMAIN shards', NEW b \in shards'[i].blocks, NEW q \in b
               PROVE  S!Covers(shards'[i], TS[q])
    BY DEF BlocksInTheirShard, S!Covers
  <2>1. shards'[i].start = shards[i].start /\ shards'[i].end = shards[i].end
    BY <1>5, <1>10 DEF Kept
  <2>2. S!Covers(shards[i], TS[q])
    BY <1>7, <1>8, <1>10 DEF Placed, BlocksInTheirShard
  <2> QED
    BY <2>1, <2>2 DEF S!Covers
<1>16. ASSUME NEW i \in DOMAIN groups' PROVE InWindow(groups[i])'
  <2>1. i + 1 \in DOMAIN groups /\ groups'[i] = groups[i + 1]
    BY <1>1, <1>2, <1>16, HeadOfGroups
  <2>2. InWindow(groups[i + 1])
    BY <1>7, <2>1 DEF Placed
  <2> QED
    BY <1>5, <2>1, <2>2 DEF Kept, InWindow, S!Covers
<1>17. \A q \in live' \cup ({mu'} \cap Point) : q \in Reachable' \/ (q \in Point /\ Passed(q)')
  BY <1>1, <1>2, <1>5, <1>7, <1>11, <1>12, PassedStays DEF Placed, Reachable
<1>18. Placed'
  BY <1>1, <1>2, <1>15, <1>16, <1>17 DEF Placed
<1> QED
  BY <1>13, <1>14, <1>18

LEMMA ReturnControl ==
    ASSUME Control, mu # "none", NEW ok \in BOOLEAN, Return(ok), UNCHANGED mem
    PROVE  Control'
<1>1. /\ mem' = {} /\ mu' = "none" /\ phase' = "idle" /\ snap' = {} /\ groups' = <<>>
      /\ server' = "serving"
      /\ pc' = [p \in Point |-> IF p # mu THEN pc[p] ELSE IF ok THEN "acked" ELSE "failed"]
  BY DEF Control, Return
<1>2. \A p \in Point : pc'[p] \in {"new"} \cup Running \cup Done /\ pc'[p] # "flushing"
  BY <1>1 DEF Control, Running, Done
<1>3. pc' \in [Point -> {"new"} \cup Running \cup Done]
  BY <1>1, <1>2
<1> QED
  BY <1>1, <1>2, <1>3, NobodyIsNone DEF Control

LEMMA AbandonIngest == ASSUME IngestIInv, AbandonFlush PROVE IngestIInv'
<1> DEFINE g == groups[1]
<1>1. /\ phase = "group" /\ snap = {} /\ groups # <<>> /\ mu # "recover" /\ Return(FALSE)
      /\ UNCHANGED <<shardVars, mem>>
  BY DEF AbandonFlush
<1>2. /\ S!ShardsIInv /\ Control /\ groups \in Groups /\ mu # "none" /\ mem = {} /\ Known
  BY <1>1, ShardsKnown DEF IngestIInv, Control, Groups, Windowed
<1>3. Control'
  BY <1>1, <1>2, ReturnControl
<1>4. Kept /\ SameBlocks
  BY <1>1, <1>2, SameShardsKeep
<1> SUFFICES ASSUME S!NoneWrapped' PROVE (Owned /\ Routed /\ Placed)'
  BY <1>3, <1>4 DEF IngestIInv, Kept
<1>5. S!NoneWrapped /\ Owned /\ Routed /\ Placed
  BY <1>4 DEF IngestIInv, Kept
<1>6. /\ mu' = "none" /\ mem' = {} /\ snap' = {} /\ groups' = <<>> /\ live' = live
      /\ Grouped' = {} /\ Stored' = Stored
  BY <1>1, <1>2, <1>4, StoredKept DEF Return, Grouped
<1>7. Grouped = g.pts /\ g.pts \subseteq Point
  <2>1. Len(groups) \in Nat /\ Len(groups) <= 1 /\ DOMAIN groups = 1..Len(groups)
    BY <1>1, <1>2, <1>5 DEF Routed, OneBlockPerFlush, Groups
  <2>2. 1 \in DOMAIN groups /\ g.pts \subseteq Point
    BY <1>1, <1>2, HeadOfGroups
  <2>3. \A i \in DOMAIN groups : i = 1
    BY <2>1
  <2> QED
    BY <2>2, <2>3 DEF Grouped
<1>8. PICK p \in Point : Earliest(g, p) /\ S!RouteRejects(TS[p])
  BY <1>1, <1>2, HeadOfGroups DEF AbandonFlush
<1>9. ASSUME NEW q \in g.pts PROVE Passed(q)
  <2>1. PICK j \in DOMAIN shards : \A r \in g.pts : S!Covers(shards[j], TS[r])
    BY <1>1, <1>2, <1>5, HeadOfGroups DEF Placed, InWindow
  <2>2. /\ S!Last.start \in Int /\ S!Last.end \in Int /\ S!Last = shards[Len(shards)]
        /\ shards[j].start \in Int /\ shards[j].end \in Int
        /\ j # Len(shards) => shards[j].end <= S!Last.start
    BY <1>2, <1>5 DEF Known
  <2>3. p \in g.pts /\ TS[p] < S!Last.start /\ S!Covers(shards[j], TS[p])
    BY <1>8, <2>1 DEF Earliest, S!RouteRejects
  <2>4. TS[p] \in Int /\ TS[q] \in Int
    BY <1>7, IngestConstants
  <2>5. j # Len(shards)
    BY <2>2, <2>3, <2>4 DEF S!Covers
  <2>6. TS[q] < shards[j].end
    BY <2>1 DEF S!Covers
  <2> QED
    BY <2>2, <2>4, <2>5, <2>6 DEF Passed
<1> HIDE DEF g
<1>10. (Owned /\ Routed)'
  BY <1>1, <1>5, <1>6 DEF Owned, Routed, OneBlockPerFlush
<1>11. ASSUME NEW q \in live PROVE q \in Reachable' \/ (q \in Point /\ Passed(q)')
  <2>1. CASE q \in Stored
    BY <1>6, <2>1 DEF Reachable
  <2>2. CASE q \in g.pts
    BY <1>2, <1>4, <1>7, <1>9, <2>2, PassedStays
  <2>3. CASE q \in Point /\ Passed(q)
    BY <1>2, <1>4, <2>3, PassedStays
  <2> QED
    BY <1>1, <1>2, <1>5, <1>7, <2>1, <2>2, <2>3 DEF Placed, Reachable
<1>12. Placed'
  BY <1>4, <1>5, <1>6, <1>11, BlocksStay, NobodyIsNone DEF Placed
<1> QED
  BY <1>10, <1>12

LEMMA AdvanceIngest == ASSUME IngestIInv, AdvanceWatermark PROVE IngestIInv'
<1>1. /\ phase = "group" /\ phase' = "truncate" /\ snap = {} /\ groups = <<>>
      /\ UNCHANGED <<shardVars, server, pc, mu, mem, snap, groups, live>>
  BY DEF AdvanceWatermark
<1>2. Control'
  BY <1>1 DEF IngestIInv, Control
<1>3. Kept /\ SameBlocks
  BY <1>1, SameShardsKeep DEF IngestIInv
<1> QED
  BY <1>1, <1>2, <1>3, Quiet

LEMMA FinishIngest == ASSUME IngestIInv, FinishFlush PROVE IngestIInv'
<1>1. /\ phase = "truncate" /\ Return(TRUE) /\ UNCHANGED <<shardVars, mem>>
  BY DEF FinishFlush
<1>2. /\ S!ShardsIInv /\ Control /\ mu # "none" /\ mem = {} /\ snap = {} /\ groups = <<>>
      /\ server # "down"
  BY <1>1 DEF IngestIInv, Control
<1>3. Control'
  BY <1>1, <1>2, ReturnControl
<1>4. Kept /\ SameBlocks
  BY <1>1, <1>2, SameShardsKeep
<1> SUFFICES ASSUME S!NoneWrapped' PROVE (Owned /\ Routed /\ Placed)'
  BY <1>3, <1>4 DEF IngestIInv, Kept
<1>5. S!NoneWrapped /\ Owned /\ Routed /\ Placed
  BY <1>4 DEF IngestIInv, Kept
<1>6. /\ mu' = "none" /\ mem' = {} /\ snap' = {} /\ groups' = <<>>
      /\ live' = live \cup ({mu} \cap Point)
      /\ Grouped' = {} /\ Grouped = {} /\ Stored' = Stored
  BY <1>1, <1>2, <1>4, StoredKept DEF Return, Grouped
<1>7. Owned'
  BY <1>2, <1>5, <1>6, StoredPoints DEF Owned
<1>8. Routed'
  BY <1>6 DEF Routed, OneBlockPerFlush
<1>9. \A q \in live' : q \in Reachable' \/ (q \in Point /\ Passed(q)')
  BY <1>2, <1>4, <1>5, <1>6, PassedStays DEF Placed, Reachable
<1>10. Placed'
  BY <1>4, <1>5, <1>6, <1>9, BlocksStay, NobodyIsNone DEF Placed
<1> QED
  BY <1>7, <1>8, <1>10

LEMMA FreshShards == S!ShardsInit => S!ShardsIInv
  BY SP!InitShardsIInv, ConstantsOfShards, SameInit, SameIInv

LEMMA FreshShardsNext == S!ShardsInit' => S!ShardsIInv'
  BY FreshShards, PTL

LEMMA RestartIngest == ASSUME IngestIInv, Restart PROVE IngestIInv'
<1>1. /\ server = "down" /\ server' = "recovering" /\ UNCHANGED <<flushVars, pc, mu, mem, live>>
      /\ nextID' = 2
  BY DEF Restart
<1>2. PICK now \in Clock : shards' = S!FirstShards(now)
  BY DEF Restart
<1>3. /\ Control /\ mu = "none" /\ mem = {} /\ live = {} /\ phase = "idle"
      /\ snap = {} /\ groups = <<>>
  BY <1>1 DEF IngestIInv, Control
<1>4. S!ShardsIInv'
  <2>1. S!ShardsInit'
    BY <1>1, <1>2 DEF S!ShardsInit, S!FirstShards, S!aligned, S!Plus, S!Remainder
  <2> QED
    BY <2>1, FreshShardsNext
<1>5. Control'
  BY <1>1, <1>3 DEF Control, flushVars
<1>6. Stored' = {} /\ Grouped' = {} /\ BlocksInTheirShard'
  <2>1. DOMAIN shards' = {1} /\ shards'[1].blocks = {}
    BY <1>2 DEF S!FirstShards
  <2> QED
    BY <1>1, <1>3, <2>1 DEF Stored, Grouped, BlocksInTheirShard, flushVars
<1>7. (Owned /\ Routed)'
  BY <1>1, <1>3, <1>6 DEF Owned, Routed, OneBlockPerFlush, flushVars
<1>8. Placed'
  BY <1>1, <1>3, <1>6, NobodyIsNone DEF Placed, flushVars
<1> QED
  BY <1>4, <1>5, <1>7, <1>8 DEF IngestIInv

LEMMA IngestStep == ASSUME IngestIInv, [Next]_vars PROVE IngestIInv'
<1>1. ASSUME NEW p \in Point, Request(p) PROVE IngestIInv'
  BY <1>1, RequestIngest, WriteIngest DEF Request
<1>2. CASE TickerFlush \/ TickerSync
  BY <1>2, TickerIngest
<1>3. CASE FlushStep
  BY <1>3, GroupIngest, StoreIngest, AbandonIngest, AdvanceIngest, FinishIngest DEF FlushStep
<1>4. CASE Rotate
  BY <1>4, RotateIngest
<1>5. CASE Crash \/ Shutdown \/ FailRecovery
  <2>1. Gone
    BY <1>5 DEF Crash, Shutdown, FailRecovery
  <2> QED
    BY <2>1, Ending
<1>6. CASE Restart
  BY <1>6, RestartIngest
<1>7. CASE Recover
  BY <1>7, RecoverIngest
<1>8. CASE UNCHANGED vars
  <2>1. UNCHANGED <<shardVars, snap, groups, mem, live, mu, server, phase, pc>>
    BY <1>8 DEF vars, flushVars
  <2>2. Control'
    BY <2>1 DEF IngestIInv, Control
  <2>3. Kept /\ SameBlocks
    BY <2>1, SameShardsKeep DEF IngestIInv
  <2> QED
    BY <2>1, <2>2, <2>3, Quiet
<1> QED
  BY <1>1, <1>2, <1>3, <1>4, <1>5, <1>6, <1>7, <1>8 DEF Next

-----------------------------------------------------------------------------
(* The theorems. *)

\* The inductive invariant: the shards keep theirs, one holder of in.mu owns the
\* flush, and until the int64 range is used up every point is owned, routed and
\* placed (IngestIInv).
THEOREM IngestInductive == Spec => []IngestIInv
<1>1. IngestIInv /\ [Next]_vars => IngestIInv'
  BY IngestStep
<1> QED
  BY <1>1, InitIngest, PTL DEF Spec

\* Until a window's end wraps, a point that was acknowledged or replayed is in
\* the memtable, in the flush or in a block, or its window has passed: neither
\* an abandoned flush nor a rotation between its steps loses another
\* (StoredOrPassed).
THEOREM StoredOrPassedHolds == Spec => [](S!NoneWrapped => StoredOrPassed)
<1>1. IngestIInv => (S!NoneWrapped => StoredOrPassed)
  BY DEF IngestIInv, Placed, StoredOrPassed
<1> QED
  BY <1>1, IngestInductive, PTL

\* Until then, no block lands in a shard that does not cover its points, though
\* grouping and storing route one after the other (BlocksInTheirShard).
THEOREM InTheirShardHolds == Spec => [](S!NoneWrapped => BlocksInTheirShard)
<1>1. IngestIInv => (S!NoneWrapped => BlocksInTheirShard)
  BY DEF IngestIInv, Placed
<1> QED
  BY <1>1, IngestInductive, PTL

\* Until then, a serving process makes at most one block of a flush, so the
\* flush either stores all its points or none (OneBlockPerFlush).
THEOREM OneBlockHolds == Spec => [](S!NoneWrapped => OneBlockPerFlush)
<1>1. IngestIInv => (S!NoneWrapped => OneBlockPerFlush)
  BY DEF IngestIInv, Routed
<1> QED
  BY <1>1, IngestInductive, PTL

\* Until then, a sample whose request was answered with an error is in no
\* memtable, no flush and no block of this process, unless its record was
\* replayed (FailedLeavesNothing).
THEOREM FailedHolds == Spec => [](S!NoneWrapped => FailedLeavesNothing)
<1>1. IngestIInv => (S!NoneWrapped => FailedLeavesNothing)
  BY DEF IngestIInv, Control, Owned, FailedLeavesNothing, Reachable
<1> QED
  BY <1>1, IngestInductive, PTL

-----------------------------------------------------------------------------
(* The log.  Of WALProofs.tla only that each of its steps keeps its invariant  *)
(* is used.                                                                    *)

WP == INSTANCE WALProofs WITH Payload <- Point

LEMMA ConstantsOfLog == WP!ConstantsAssumption
  BY IngestConstants DEF WP!ConstantsAssumption

LEMMA SameRecord == W!Record = WP!Record
  BY DEF W!Record, WP!Record

LEMMA SameSizes == \A X : /\ W!Cardinality(X) = WP!Cardinality(X)
                          /\ W!IsFiniteSet(X) = WP!IsFiniteSet(X)
  BY DEF W!Cardinality, WP!Cardinality, W!IsFiniteSet, WP!IsFiniteSet

LEMMA SameSegment == W!Segment = WP!Segment
  BY SameRecord, SameSizes DEF W!Segment, WP!Segment

LEMMA SameHeld == \A s : W!Held(s) = WP!Held(s)
  BY DEF W!Held, WP!Held

LEMMA SameHighSeq == \A R : W!HighSeq(R) = WP!HighSeq(R)
  BY DEF W!HighSeq, WP!HighSeq, W!Max, WP!Max

LEMMA SameOldest == \A R, r : W!Oldest(R, r) <=> WP!Oldest(R, r)
  BY DEF W!Oldest, WP!Oldest

LEMMA SameLanded == ASSUME NEW s PROVE W!Landed(s) = WP!Landed(s)
  BY SameOldest DEF W!Landed, WP!Landed

LEMMA SameFlushed == ASSUME NEW s PROVE W!Flushed(s) = WP!Flushed(s)
  BY SameLanded DEF W!Flushed, WP!Flushed

LEMMA SameWritten == ASSUME NEW s, NEW r, NEW f PROVE W!Written(s, r, f) = WP!Written(s, r, f)
<1>1. W!Spills(s) <=> WP!Spills(s)
  BY SameSizes DEF W!Spills, WP!Spills
<1> QED
  BY <1>1, SameLanded DEF W!Written, WP!Written

LEMMA SameCrashed == ASSUME NEW s, NEW w PROVE W!Crashed(s, w) = WP!Crashed(s, w)
<1>1. W!Torn(s) = WP!Torn(s)
  BY SameOldest DEF W!Torn, WP!Torn
<1> QED
  BY <1>1, SameSizes DEF W!Crashed, WP!Crashed

LEMMA SameKept == ASSUME NEW s, NEW n PROVE W!Kept(s, n) = WP!Kept(s, n)
  BY DEF W!Kept, WP!Kept

LEMMA SameRewritten == ASSUME NEW s, NEW n PROVE W!Rewritten(s, n) = WP!Rewritten(s, n)
  BY SameKept, SameHighSeq, SameSizes DEF W!Rewritten, WP!Rewritten

LEMMA SameLoaded == ASSUME NEW s PROVE W!Loaded(s) = WP!Loaded(s)
  BY SameHighSeq DEF W!Loaded, WP!Loaded

LEMMA SameFirst == W!FirstSegment = WP!FirstSegment /\ W!EmptySegment = WP!EmptySegment
  BY DEF W!FirstSegment, WP!FirstSegment, W!EmptySegment, WP!EmptySegment

LEMMA SameHighest == \A i, D : W!Highest(i, D) <=> WP!Highest(i, D)
  BY DEF W!Highest, WP!Highest

LEMMA SameCurrent == \A i : W!Current(i) <=> WP!Current(i)
  BY SameHighest DEF W!Current, WP!Current

LEMMA SameUpTo == ASSUME NEW n PROVE W!UpTo(n) = WP!UpTo(n) /\ W!Below(n) = WP!Below(n)
  BY DEF W!UpTo, WP!UpTo, W!Below, WP!Below

LEMMA SameAppend ==
    ASSUME NEW p, NEW clean, NEW f
    PROVE  W!AppendRecord(p, clean, f) <=> WP!AppendRecord(p, clean, f)
<1>1. \A r : W!AppendInPlace(r, f) <=> WP!AppendInPlace(r, f)
  BY SameCurrent, SameWritten DEF W!AppendInPlace, WP!AppendInPlace
<1>2. \A r : W!AppendRotating(r, f) <=> WP!AppendRotating(r, f)
  BY SameCurrent, SameWritten, SameFlushed, SameFirst DEF W!AppendRotating, WP!AppendRotating
<1> QED
  BY <1>1, <1>2 DEF W!AppendRecord, WP!AppendRecord

LEMMA SameOpen == W!Open <=> WP!Open
  BY SameLoaded, SameFirst, SameHighSeq DEF W!Open, WP!Open, W!Max, WP!Max

LEMMA SameSync == W!Sync <=> WP!Sync
  BY SameCurrent, SameFlushed DEF W!Sync, WP!Sync

LEMMA SameSetReplayStart == ASSUME NEW n PROVE W!SetReplayStart(n) <=> WP!SetReplayStart(n)
  BY DEF W!SetReplayStart, WP!SetReplayStart

LEMMA SameTruncateTo == ASSUME NEW n PROVE W!TruncateTo(n) <=> WP!TruncateTo(n)
  BY SameUpTo, SameFirst, SameHighest, SameRewritten DEF W!TruncateTo, WP!TruncateTo

LEMMA SameTruncateBefore == ASSUME NEW n PROVE W!TruncateBefore(n) <=> WP!TruncateBefore(n)
  BY SameUpTo, SameFirst DEF W!TruncateBefore, WP!TruncateBefore, W!Without, WP!Without

LEMMA SameClose == W!Close <=> WP!Close
  BY SameFlushed DEF W!Close, WP!Close, W!MemoryLost, WP!MemoryLost

LEMMA SameCrash == ASSUME NEW w PROVE W!Crash(w) <=> WP!Crash(w)
  BY SameCrashed DEF W!Crash, WP!Crash, W!MemoryLost, WP!MemoryLost

LEMMA SameCrashInTruncateTo ==
    ASSUME NEW n, NEW gone, NEW reached
    PROVE  W!CrashInTruncateTo(n, gone, reached) <=> WP!CrashInTruncateTo(n, gone, reached)
  BY SameUpTo, SameCurrent, SameHighest, SameCrashed, SameFlushed, SameRewritten
     DEF W!CrashInTruncateTo, WP!CrashInTruncateTo, W!MemoryLost, WP!MemoryLost

LEMMA SameLogNext == [W!Next]_logVars <=> [WP!Next]_logVars
  BY SameAppend, SameOpen, SameSync, SameSetReplayStart, SameTruncateTo, SameTruncateBefore, SameClose,
     SameCrash, SameCrashInTruncateTo, Zenon DEF W!Next, WP!Next

LEMMA SameLogInit == W!Init <=> WP!Init
  BY SameFirst DEF W!Init, WP!Init

LEMMA SameLogIInv == W!IInv <=> WP!IInv
<1>1. W!TypeOK <=> WP!TypeOK
  BY SameSegment DEF W!TypeOK, WP!TypeOK
<1>2. W!ReplayAscending <=> WP!ReplayAscending
  BY SameHeld DEF W!ReplayAscending, WP!ReplayAscending, W!Ascending, WP!Ascending
<1> QED
  BY <1>1, <1>2, SameHeld DEF W!IInv, WP!IInv

LEMMA SameLogIInvNext == W!IInv' <=> WP!IInv'
  BY SameLogIInv, PTL

\* Each step of the write path is one that the log allows, or leaves it alone.
LEMMA LogUsed == ASSUME LogIInv, Control, [Next]_vars PROVE [W!Next]_logVars
<1>1. /\ nextSeq \in 0..MaxSeq /\ MaxSeq \in Nat /\ flushSeq \in 0..MaxSeq
      /\ phase # "idle" => flushSeq < nextSeq
  BY IngestConstants DEF LogIInv, W!IInv, W!TypeOK, TypeOK
<1>2. ASSUME NEW p \in Point, Log(p) PROVE W!Next
  BY <1>2, IngestConstants DEF Log, W!Next
<1>3. ASSUME NEW p \in Point, Admit(p) \/ Refuse(p) \/ Write(p) PROVE UNCHANGED logVars
  BY <1>3 DEF Admit, Refuse, Write
<1>4. CASE TickerSync
  BY <1>4 DEF TickerSync, W!Next
<1>5. CASE TickerFlush \/ Rotate \/ Recover
  BY <1>5 DEF TickerFlush, Rotate, Recover
<1>6. ASSUME NEW p \in Point, Group(p) PROVE UNCHANGED logVars
  BY <1>6 DEF Group
<1>7. CASE StoreGroup \/ AbandonFlush
  BY <1>7 DEF StoreGroup, AbandonFlush
<1>8. CASE AdvanceWatermark
  <2>1. flushSeq + 1 \in 1..nextSeq /\ W!SetReplayStart(flushSeq + 1)
    BY <1>1, <1>8 DEF AdvanceWatermark
  <2> QED
    BY <2>1 DEF W!Next
<1>9. CASE FinishFlush
  <2>1. flushSeq \in 0..(nextSeq - 1) /\ W!TruncateTo(flushSeq)
    BY <1>1, <1>9 DEF FinishFlush
  <2> QED
    BY <2>1 DEF W!Next
<1>10. CASE Crash
  <2>1. ASSUME NEW whole \in BOOLEAN, W!Crash(whole) PROVE W!Next
    BY <2>1 DEF W!Next
  <2>2. ASSUME phase = "truncate", NEW gone \in SUBSET DOMAIN segments,
               NEW reached \in {"unlink", "flush", "rename"},
               W!CrashInTruncateTo(flushSeq, gone, reached)
        PROVE  W!Next
    <3>1. flushSeq \in 0..(nextSeq - 1)
      BY <1>1, <2>2
    <3> QED
      BY <2>2, <3>1 DEF W!Next
  <2> QED
    BY <1>10, <2>1, <2>2 DEF Crash
<1>11. CASE Shutdown \/ Restart \/ FailRecovery
  BY <1>11 DEF Shutdown, Restart, FailRecovery, W!Next
<1>12. CASE UNCHANGED vars
  BY <1>12 DEF vars
<1> QED
  BY <1>2, <1>3, <1>4, <1>5, <1>6, <1>7, <1>8, <1>9, <1>10, <1>11, <1>12
     DEF Next, Request, FlushStep

LEMMA LogKept == ASSUME LogIInv, Control, [Next]_vars PROVE W!IInv'
<1>1. [WP!Next]_logVars /\ logVars = WP!vars /\ WP!IInv
  BY LogUsed, SameLogNext, SameLogIInv DEF LogIInv, logVars, WP!vars
<1>2. [WP!Next]_(WP!vars)
  BY <1>1 DEF logVars, WP!vars
<1> QED
  BY <1>1, <1>2, ConstantsOfLog, WP!LogStep, SameLogIInvNext

LEMMA DiskRecords ==
    ASSUME W!IInv, NEW i \in DOMAIN segments, NEW r \in segments[i].disk
    PROVE  r.seq \in Nat /\ r.pt \in Point
<1>1. segments[i] \in W!Segment
  BY DEF W!IInv, W!TypeOK
<1>2. r \in W!Record
  BY <1>1 DEF W!Segment
<1> QED
  BY <1>2 DEF W!Record

\* The numbers in use are of the log's present life, and the rest keeps its type.
Numbers ==
    /\ seqOf \in [Point -> 0..MaxSeq] /\ flushSeq \in 0..MaxSeq
    /\ \A p \in Point : pc[p] = "logged" => seqOf[p] < nextSeq
    /\ phase # "idle" => flushSeq < nextSeq

Sorts ==
    /\ server \in {"down", "recovering", "serving"}
    /\ mu \in Point \cup {"none", "ticker", "recover"}
    /\ mem \subseteq Point /\ snap \subseteq Point /\ live \subseteq Point
    /\ phase \in {"idle", "group", "truncate"}
    /\ faults \in [crashes : 0..MaxCrashes, stops : 0..MaxStops, rotations : 0..MaxRotations]

LEMMA LogParts ==
    Control => (LogIInv <=> W!IInv /\ Numbers /\ Sorts /\ (open <=> server # "down"))
  BY DEF Control, LogIInv, TypeOK, Numbers, Sorts

LEMMA LogPartsNext ==
    Control' => (LogIInv' <=> W!IInv' /\ Numbers' /\ Sorts' /\ (open' <=> server' # "down"))
  BY DEF Control, LogIInv, TypeOK, Numbers, Sorts

LEMMA NextSeqIs == LogIInv => nextSeq \in Nat /\ nextSeq <= MaxSeq /\ MaxSeq \in Nat
  BY IngestConstants DEF LogIInv, W!IInv, W!TypeOK

\* Who is told how far the log is.
LEMMA NumbersKept ==
    ASSUME LogIInv, Control, [Next]_vars
    PROVE  Numbers'
<1>1. Numbers /\ nextSeq \in Nat /\ nextSeq <= MaxSeq /\ MaxSeq \in Nat
  BY NextSeqIs, LogParts
<1>2. ASSUME NEW p \in Point, Admit(p) \/ Refuse(p) PROVE Numbers'
  BY <1>1, <1>2 DEF Admit, Refuse, Numbers, flushVars, logVars, Control
<1>3. ASSUME NEW p \in Point, Log(p) PROVE Numbers'
  <2>1. nextSeq' = nextSeq + 1 /\ nextSeq < MaxSeq
    BY <1>3 DEF Log, W!AppendRecord
  <2>2. /\ seqOf' = [seqOf EXCEPT ![p] = nextSeq] /\ UNCHANGED <<phase, flushSeq>>
        /\ pc' = [pc EXCEPT ![p] = "logged"]
    BY <1>3 DEF Log, flushVars
  <2> QED
    BY <1>1, <2>1, <2>2 DEF Numbers, Control
<1>4. ASSUME NEW p \in Point, Write(p) PROVE Numbers'
  <2>1. seqOf[p] \in 0..MaxSeq /\ seqOf[p] < nextSeq /\ UNCHANGED <<seqOf, nextSeq>>
    BY <1>1, <1>4 DEF Write, Numbers, logVars
  <2>2. \E s \in {"acked", "failed", "flushing"} : pc' = [pc EXCEPT ![p] = s]
    BY <1>4 DEF Write
  <2>3. UNCHANGED <<phase, flushSeq>> \/ flushSeq' = seqOf[p]
    BY <1>4 DEF Write, Swap, flushVars
  <2> QED
    BY <1>1, <2>1, <2>2, <2>3 DEF Numbers, Control
<1>5. CASE TickerFlush \/ TickerSync
  <2>1. UNCHANGED <<seqOf, nextSeq, pc>>
    BY <1>5 DEF TickerFlush, TickerSync, logVars, W!Sync
  <2>2. UNCHANGED <<phase, flushSeq>> \/ (nextSeq > 0 /\ flushSeq' = nextSeq - 1)
    BY <1>5 DEF TickerFlush, TickerSync, Swap, flushVars
  <2> QED
    BY <1>1, <2>1, <2>2 DEF Numbers
<1>6. ASSUME NEW p \in Point, Group(p) PROVE Numbers'
  BY <1>1, <1>6 DEF Group, Numbers, logVars
<1>7. CASE StoreGroup
  BY <1>1, <1>7 DEF StoreGroup, Numbers, logVars
<1>8. CASE AbandonFlush \/ FinishFlush
  <2>1. UNCHANGED <<seqOf, nextSeq>> /\ phase' = "idle" /\ flushSeq' = 0
    BY <1>8 DEF AbandonFlush, FinishFlush, Return, logVars, W!TruncateTo
  <2>2. \A p \in Point : pc'[p] = "logged" => pc[p] = "logged"
    BY <1>8 DEF AbandonFlush, FinishFlush, Return
  <2> QED
    BY <1>1, <2>1, <2>2 DEF Numbers
<1>9. CASE AdvanceWatermark
  BY <1>1, <1>9 DEF AdvanceWatermark, Numbers, W!SetReplayStart
<1>10. CASE Rotate
  BY <1>1, <1>10 DEF Rotate, Numbers, logVars, flushVars
<1>11. CASE Crash \/ Shutdown \/ FailRecovery
  <2>1. Gone
    BY <1>11 DEF Crash, Shutdown, FailRecovery
  <2>2. \A p \in Point : pc'[p] # "logged"
    BY <2>1 DEF Gone, Running
  <2> QED
    BY <1>1, <2>1, <2>2 DEF Gone, Numbers
<1>12. CASE Restart
  <2>1. mu = "none" /\ phase = "idle" /\ \A p \in Point : pc[p] # "logged"
    BY <1>12 DEF Restart, Control, Running
  <2>2. UNCHANGED <<seqOf, pc, phase, flushSeq>>
    BY <1>12 DEF Restart, flushVars
  <2> QED
    BY <1>1, <2>1, <2>2 DEF Numbers
<1>13. CASE Recover
  <2>1. UNCHANGED <<seqOf, pc, nextSeq>>
    BY <1>13 DEF Recover, logVars
  <2>2. UNCHANGED <<phase, flushSeq>> \/ (W!Replayed(nextReplay) # {} /\ flushSeq' = nextSeq - 1)
    BY <1>13 DEF Recover, Swap, flushVars
  <2>3. W!Replayed(nextReplay) # {} => nextSeq > 0
    <3>1. SUFFICES ASSUME NEW r \in W!Replayed(nextReplay) PROVE nextSeq > 0
      OBVIOUS
    <3>2. PICK i \in DOMAIN segments : r \in segments[i].disk
      BY DEF W!Replayed
    <3>3. open
      BY <1>13 DEF Recover, LogIInv
    <3>4. r.seq < nextSeq
      BY <3>2, <3>3 DEF LogIInv, W!IInv, W!ReplayAscending, W!Held
    <3>5. r.seq \in Nat
      BY <3>2, DiskRecords DEF LogIInv
    <3> QED
      BY <1>1, <3>4, <3>5
  <2> QED
    BY <1>1, <2>1, <2>2, <2>3 DEF Numbers
<1>14. CASE UNCHANGED vars
  BY <1>1, <1>14 DEF vars, logVars, flushVars, Numbers
<1> QED
  BY <1>2, <1>3, <1>4, <1>5, <1>6, <1>7, <1>8, <1>9, <1>10, <1>11, <1>12, <1>13, <1>14
     DEF Next, Request, FlushStep

\* The rest, and that the log is open while the process lives.
LEMMA SortsKept ==
    ASSUME LogIInv, Control, [Next]_vars
    PROVE  Sorts' /\ (open' <=> server' # "down")
<1>1. Sorts /\ (open <=> server # "down")
  BY LogParts
<1>2. ASSUME NEW p \in Point, Admit(p) \/ Refuse(p) \/ Log(p)
      PROVE  Sorts' /\ (open' <=> server' # "down")
  <2>1. UNCHANGED <<open, server, mu, mem, snap, live, phase, faults>>
    <3>1. CASE Log(p)
      BY <3>1 DEF Log, W!AppendRecord, flushVars
    <3> QED
      BY <1>2, <3>1 DEF Admit, Refuse, flushVars, logVars
  <2> QED
    BY <1>1, <2>1 DEF Sorts
<1>3. ASSUME NEW p \in Point, Write(p) PROVE Sorts' /\ (open' <=> server' # "down")
  BY <1>1, <1>3 DEF Write, Swap, Sorts, flushVars, logVars
<1>4. CASE TickerFlush \/ TickerSync
  BY <1>1, <1>4 DEF TickerFlush, TickerSync, W!Sync, Swap, Sorts, flushVars, logVars
<1>5. ASSUME NEW p \in Point, Group(p) PROVE Sorts' /\ (open' <=> server' # "down")
  BY <1>1, <1>5 DEF Group, Sorts, logVars
<1>6. CASE StoreGroup
  BY <1>1, <1>6 DEF StoreGroup, Sorts, logVars
<1>7. CASE AbandonFlush \/ FinishFlush
  <2>1. server # "down" /\ open' = open /\ UNCHANGED <<mem, faults>>
    BY <1>7 DEF AbandonFlush, FinishFlush, Control, logVars, W!TruncateTo
  <2>2. /\ server' = "serving" /\ mu' = "none" /\ phase' = "idle" /\ snap' = {}
        /\ live' \subseteq live \cup Point
    BY <1>7 DEF AbandonFlush, FinishFlush, Return
  <2> QED
    BY <1>1, <2>1, <2>2 DEF Sorts
<1>8. CASE AdvanceWatermark
  BY <1>1, <1>8 DEF AdvanceWatermark, Sorts, W!SetReplayStart
<1>9. CASE Rotate
  <2>1. UNCHANGED <<open, server, mu, mem, snap, live, phase>>
    BY <1>9 DEF Rotate, logVars, flushVars
  <2>2. faults' = [faults EXCEPT !.rotations = @ + 1] /\ faults.rotations < MaxRotations
    BY <1>9 DEF Rotate
  <2> QED
    BY <1>1, <2>1, <2>2, IngestConstants DEF Sorts
<1>10. CASE Crash \/ Shutdown \/ FailRecovery
  <2>1. Gone /\ open' = FALSE
    BY <1>10 DEF Crash, Shutdown, FailRecovery, W!Crash, W!CrashInTruncateTo, W!Close, W!MemoryLost
  <2>2. \/ faults' = [faults EXCEPT !.crashes = @ + 1] /\ faults.crashes < MaxCrashes
        \/ faults' = [faults EXCEPT !.stops = @ + 1] /\ faults.stops < MaxStops
        \/ UNCHANGED faults
    BY <1>10 DEF Crash, Shutdown, FailRecovery
  <2>3. faults' \in [crashes : 0..MaxCrashes, stops : 0..MaxStops, rotations : 0..MaxRotations]
    BY <1>1, <2>2, IngestConstants DEF Sorts
  <2> QED
    BY <2>1, <2>3 DEF Gone, Sorts
<1>11. CASE Restart
  BY <1>1, <1>11 DEF Restart, W!Open, Sorts, flushVars
<1>12. CASE Recover
  <2> DEFINE replayed == {r.pt : r \in W!Replayed(nextReplay)}
  <2>1. replayed \subseteq Point
    BY DiskRecords DEF W!Replayed, LogIInv
  <2>2. live' = live \cup replayed /\ UNCHANGED <<open, faults>> /\ server = "recovering"
    BY <1>12 DEF Recover, logVars
  <2>3. \/ server' = "serving" /\ UNCHANGED <<mu, mem, phase, snap>>
        \/ UNCHANGED server /\ mu' = "recover" /\ mem' = {} /\ phase' = "group" /\ snap' = replayed
    BY <1>12 DEF Recover, Swap, flushVars
  <2> HIDE DEF replayed
  <2> QED
    BY <1>1, <2>1, <2>2, <2>3 DEF Sorts
<1>13. CASE UNCHANGED vars
  BY <1>1, <1>13 DEF vars, logVars, flushVars, Sorts
<1> QED
  BY <1>2, <1>3, <1>4, <1>5, <1>6, <1>7, <1>8, <1>9, <1>10, <1>11, <1>12, <1>13
     DEF Next, Request, FlushStep

LEMMA InitLog == Init => LogIInv
<1> SUFFICES ASSUME Init PROVE LogIInv
  OBVIOUS
<1>1. Control
  BY InitIngest DEF IngestIInv
<1>2. W!IInv
  BY SameLogInit, SameLogIInv, ConstantsOfLog, WP!InitIInv DEF Init
<1>3. Numbers
  BY IngestConstants DEF Init, Numbers
<1>4. Sorts /\ (open <=> server # "down")
  BY IngestConstants DEF Init, Sorts, W!Init
<1> QED
  BY <1>1, <1>2, <1>3, <1>4, LogParts

\* The write path and the log keep to each other: numbers in use are of the
\* log's present life, and the log's own invariant holds (LogIInv).
THEOREM LogInductive == Spec => []LogIInv
<1>1. LogIInv /\ IngestIInv /\ IngestIInv' /\ [Next]_vars => LogIInv'
  BY LogKept, NumbersKept, SortsKept, LogPartsNext DEF IngestIInv
<1> QED
  BY <1>1, InitLog, IngestInductive, PTL DEF Spec

\* Every variable keeps its type (TypeOK).
THEOREM IngestTypeCorrect == Spec => []TypeOK
<1>1. LogIInv => TypeOK
  BY DEF LogIInv
<1> QED
  BY <1>1, LogInductive, PTL

\* The write path implements the log's specification: no flush, recovery,
\* crash or restart, in any order, passes the log a number it has not handed out
\* to this process or calls it while it is closed (LogAsSpecified).  So what
\* WALProofs.tla proves of the log holds in this composition.
THEOREM LogAsSpecifiedHolds == Spec => LogAsSpecified
<1>1. LogIInv /\ IngestIInv /\ [Next]_vars => [W!Next]_(W!vars)
  BY LogUsed DEF IngestIInv, logVars, W!vars
<1>2. Init => W!Init
  BY DEF Init
<1> QED
  BY <1>1, <1>2, LogInductive, IngestInductive, PTL DEF Spec, LogAsSpecified, W!Spec
=============================================================================
