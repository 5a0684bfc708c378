-------------------------- MODULE BlockLifeProofs --------------------------
(***************************************************************************)
(* Proofs about Blocks.tla beyond its reference counts: types, windows,    *)
(* and that compaction and retention neither lose nor double a sample, for *)
(* any number of samples, blocks, compactions and queries.  They rest on   *)
(* RefsIInv of BlocksProofs.tla and on what ShardsProofs.tla proves of the *)
(* operations of the shards.                                               *)
(***************************************************************************)
EXTENDS BlocksProofs, WellFoundedInduction

SP == INSTANCE ShardsProofs WITH Block <- 1..MaxBlocks

-----------------------------------------------------------------------------
(* The first and the last of some timestamps. *)

LEMMA MinIsFirst ==
    ASSUME NEW T \in SUBSET Nat, T # {}
    PROVE  Min(T) \in T /\ \A t \in T : Min(T) <= t
<1> DEFINE Less == {ss \in Nat \X Nat : ss[1] < ss[2]}
<1>1. OpToRel(<, Nat) = Less
  BY Zenon DEF OpToRel
<1>2. PICK x \in T : \A y \in T : <<y, x>> \notin OpToRel(<, Nat)
  BY NatLessThanWellFounded, WFMin
<1>3. ASSUME NEW y \in T PROVE x <= y
  <2>1. <<y, x>> \notin Less
    BY <1>1, <1>2
  <2>2. <<y, x>> \in Nat \X Nat
    OBVIOUS
  <2>3. ~(y < x)
    BY <2>1, <2>2
  <2> QED
    BY <2>3
<1> QED
  BY <1>3 DEF Min

LEMMA MaxIsLast ==
    ASSUME NEW n \in Nat, NEW T \in SUBSET (0..n), T # {}
    PROVE  Max(T) \in T /\ \A t \in T : t <= Max(T)
<1> DEFINE Back == {n - t : t \in T}
<1>1. \A t \in T : t \in Nat /\ t <= n
  OBVIOUS
<1>2. Back \in SUBSET Nat
  <2>1. \A t \in T : n - t \in Nat
    BY <1>1
  <2> QED
    BY <2>1
<1>3. Back # {}
  OBVIOUS
<1> DEFINE m == Min(Back)
<1>4. m \in Back /\ \A b \in Back : m <= b
  BY <1>2, <1>3, MinIsFirst
<1>5. PICK x \in T : m = n - x
  BY <1>4
<1>6. ASSUME NEW t \in T PROVE t <= x
  <2>1. n - t \in Back
    OBVIOUS
  <2>2. n - x <= n - t
    BY <1>4, <1>5, <2>1
  <2> QED
    BY <1>1, <2>2
<1>7. \A t \in T : x >= t
  BY <1>1, <1>6
<1> QED
  BY <1>1, <1>7 DEF Max

LEMMA StepDivides ==
    ASSUME NEW t \in Nat
    PROVE  StepOf(t) \in 0..t /\ t < StepOf(t) + Step
  BY BlocksConstants DEF StepOf

\* The times of a block's points, and the earliest, which it is routed by.
LEMMA TimesOf ==
    ASSUME NEW b \in Block, b.pts # {}
    PROVE  /\ Times(b) \in SUBSET (0..MaxInt) /\ Times(b) # {}
           /\ Min(Times(b)) \in Times(b) /\ Min(Times(b)) \in 0..MaxInt
           /\ \A t \in Times(b) : Min(Times(b)) <= t
           /\ Max(Times(b)) \in Times(b) /\ \A t \in Times(b) : t <= Max(Times(b))
           /\ \A p \in b.pts : \E t \in Times(b) : StepOf(TS[p]) <= t /\ t <= TS[p]
<1>1. b.pts \in SUBSET Sample
  BY DEF Block
<1>2. \A p \in Sample : TS[p] \in 0..MaxInt
  BY BlocksConstants
<1>3. \A p \in Sample : StepOf(TS[p]) \in 0..TS[p]
  BY <1>2, StepDivides
<1>4. MaxInt \in Nat
  BY BlocksConstants
<1>5. Times(b) \in SUBSET (0..MaxInt)
  BY <1>1, <1>2, <1>3, <1>4 DEF Times
<1>6. Times(b) # {} /\ Times(b) \in SUBSET Nat
  BY <1>4, <1>5 DEF Times
<1>7. \A p \in b.pts : \E t \in Times(b) : StepOf(TS[p]) <= t /\ t <= TS[p]
  <2> TAKE p \in b.pts
  <2>1. (IF b.coarse THEN StepOf(TS[p]) ELSE TS[p]) \in Times(b)
    BY DEF Times
  <2> QED
    BY <1>1, <1>2, <1>3, <1>4, <2>1
<1> QED
  BY <1>4, <1>5, <1>6, <1>7, MinIsFirst, MaxIsLast

-----------------------------------------------------------------------------
(* The shards. *)

LEMMA ConstantsOfShards == SP!ShardConstants
  BY BlocksConstants DEF SP!ShardConstants

LEMMA SameShards ==
    /\ S!ShardsInit <=> SP!ShardsInit
    /\ S!ShardsTypeOK <=> SP!ShardsTypeOK
    /\ S!NoneWrapped <=> SP!NoneWrapped
    /\ S!Last = SP!Last
  BY DEF S!ShardsInit, S!FirstShards, S!aligned, S!Plus, S!Remainder,
         S!ShardsTypeOK, S!Shard, S!Time, S!State, S!NoneWrapped, S!Wrapped, S!Last,
         SP!ShardsInit, SP!FirstShards, SP!aligned, SP!Plus, SP!Remainder,
         SP!ShardsTypeOK, SP!Shard, SP!Time, SP!State, SP!NoneWrapped, SP!Wrapped, SP!Last

LEMMA SameShardsNext ==
    /\ S!NoneWrapped' <=> SP!NoneWrapped'
    /\ S!Last' = SP!Last'
  BY DEF S!NoneWrapped, S!Wrapped, S!Last, SP!NoneWrapped, SP!Wrapped, SP!Last

LEMMA SameRotate == S!ForceRotate <=> SP!ForceRotate
  BY DEF S!ForceRotate, S!Last, S!NewShard, S!Plus, S!Sealed,
         SP!ForceRotate, SP!Last, SP!NewShard, SP!Plus, SP!Sealed

LEMMA SameArchive == ASSUME NEW t PROVE S!ArchiveOlderThan(t) <=> SP!ArchiveOlderThan(t)
  BY DEF S!ArchiveOlderThan, S!Archived, SP!ArchiveOlderThan, SP!Archived

LEMMA SameRoute ==
    ASSUME NEW t
    PROVE  /\ S!Route(t) <=> SP!Route(t)
           /\ S!RoutedShards(t) = SP!RoutedShards(t)
           /\ S!RouteOpens(t) <=> SP!RouteOpens(t)
           /\ S!RouteRejects(t) <=> SP!RouteRejects(t)
  BY DEF S!Route, S!RoutedShards, S!RouteOpens, S!RouteRejects, S!Covers, S!Last, S!NewShard,
         S!Plus, S!Sealed, S!aligned, S!Remainder,
         SP!Route, SP!RoutedShards, SP!RouteOpens, SP!RouteRejects, SP!Covers, SP!Last, SP!NewShard,
         SP!Plus, SP!Sealed, SP!aligned, SP!Remainder

\* A step of the shards that lists no block, and one that lists a block.
Quiet == SP!Kept /\ SP!SameLists

Lists(t, id) ==
    /\ SP!Kept
    /\ DOMAIN shards' = 1..Len(shards') /\ Len(shards') \in DOMAIN shards'
    /\ \A i \in DOMAIN shards' :
          shards'[i].blocks = SP!ListOf(i) \cup (IF i = Len(shards') THEN {id} ELSE {})
    /\ ~S!RouteRejects(t)
    /\ S!NoneWrapped' => S!Covers(S!Last', t)

LEMMA AttachLists ==
    ASSUME SP!ShardsIInv, NEW t \in 0..MaxInt, NEW id \in 1..MaxBlocks, Attach(t, id)
    PROVE  Lists(t, id)
<1> DEFINE R == S!RoutedShards(t)
<1>1. /\ ~S!RouteRejects(t) /\ (S!RouteOpens(t) => Len(shards) < MaxShards)
      /\ shards' = [R EXCEPT ![Len(R)].blocks = @ \cup {id}]
      /\ nextID' = IF S!RouteOpens(t) THEN nextID + 1 ELSE nextID
  BY DEF Attach
<1>2. /\ SP!Kept /\ DOMAIN shards' = 1..Len(shards') /\ Len(shards') \in DOMAIN shards'
      /\ \A i \in DOMAIN shards' :
            shards'[i].blocks = SP!ListOf(i) \cup (IF i = Len(shards') THEN {id} ELSE {})
      /\ SP!NoneWrapped' => SP!Covers(SP!Last', t)
  <2>1. /\ ~SP!RouteRejects(t) /\ (SP!RouteOpens(t) => Len(shards) < MaxShards)
        /\ R = SP!RoutedShards(t)
        /\ nextID' = IF SP!RouteOpens(t) THEN nextID + 1 ELSE nextID
    BY <1>1, SameRoute
  <2> HIDE DEF R
  <2> QED
    BY <1>1, <2>1, ConstantsOfShards, SP!AttachKeeps
<1>3. S!NoneWrapped' => S!Covers(S!Last', t)
  BY <1>2, SameShardsNext DEF S!Covers, SP!Covers
<1> QED
  BY <1>1, <1>2, <1>3 DEF Lists

LEMMA StayQuiet == ASSUME SP!ShardsIInv, UNCHANGED shardVars PROVE Quiet
  BY ConstantsOfShards, SP!StayKeeps DEF Quiet, shardVars, SP!shardVars

LEMMA RotateQuiet == ASSUME SP!ShardsIInv, Rotate PROVE Quiet
  BY ConstantsOfShards, SameRotate, SP!RotateKeeps DEF Quiet, Rotate

LEMMA SweepEndQuiet == ASSUME SP!ShardsIInv, SweepEnd PROVE Quiet
  BY ConstantsOfShards, SameArchive, SP!ArchiveKeeps DEF Quiet, SweepEnd

LEMMA FlushCreateQuiet ==
    ASSUME RefsIInv, SP!ShardsIInv, NEW P, FlushCreate(P)
    PROVE  Quiet
<1>1. PICK p \in P : S!Route(TS[p])
  BY DEF FlushCreate
<1>2. p \in Sample
  BY DEF FlushCreate, RefsIInv
<1>3. TS[p] \in 0..MaxInt
  BY <1>2, BlocksConstants
<1> QED
  BY <1>1, <1>3, ConstantsOfShards, SameRoute, SP!RouteKeeps DEF Quiet

-----------------------------------------------------------------------------
(* What a step can do to the blocks. *)

\* Blocks that stay keep their samples and their mark, and those that leave were
\* archived.
Lasts ==
    /\ DOMAIN blocks' \subseteq DOMAIN blocks
    /\ \A id \in DOMAIN blocks' :
          /\ blocks'[id].pts = blocks[id].pts /\ blocks'[id].coarse = blocks[id].coarse
          /\ blocks[id].archived => blocks'[id].archived
    /\ \A id \in DOMAIN blocks \ DOMAIN blocks' : blocks[id].archived

Unmarked == \A id \in DOMAIN blocks' : blocks'[id].archived = blocks[id].archived

LEMMA SameLasts == UNCHANGED blocks => Lasts /\ Unmarked
  BY DEF Lasts, Unmarked

LEMMA AcquiredLasts ==
    ASSUME RefsIInv, NEW a, NEW id, Opens(id), Acquired(a, id)
    PROVE  Lasts /\ Unmarked
<1>1. \A i \in DOMAIN blocks : blocks[i] \in Block
  BY DEF RefsIInv
<1> QED
  BY <1>1 DEF Opens, Acquired, Lasts, Unmarked, Block

LEMMA ClosedLasts ==
    ASSUME RefsIInv, NEW a, blocks' = Closed(blocks, a)
    PROVE  Lasts /\ Unmarked /\ DOMAIN blocks' = DOMAIN blocks
<1>1. \A i \in DOMAIN blocks : blocks[i] \in Block
  BY DEF RefsIInv
<1> QED
  BY <1>1 DEF Closed, Lasts, Unmarked, Block

LEMMA ReclaimedLasts == blocks' = Reclaimed => Lasts /\ Unmarked
  BY DEF Reclaimed, Reclaimable, Lasts, Unmarked

LEMMA ArchiveLasts ==
    ASSUME RefsIInv, NEW a, NEW id, NEW B, B = blocks \/ B = Closed(blocks, a), blocks' = Archive(B, id)
    PROVE  /\ Lasts /\ DOMAIN blocks' = DOMAIN blocks
           /\ \A i \in DOMAIN blocks : i # id => blocks'[i].archived = blocks[i].archived
<1>1. \A i \in DOMAIN blocks : blocks[i] \in Block
  BY DEF RefsIInv
<1>2. /\ DOMAIN B = DOMAIN blocks
      /\ \A i \in DOMAIN blocks :
            /\ B[i].pts = blocks[i].pts /\ B[i].coarse = blocks[i].coarse
            /\ B[i].archived = blocks[i].archived
            /\ B[i] = [B[i] EXCEPT !.archived = B[i].archived]
            /\ DOMAIN B[i] = DOMAIN blocks[i]
  BY <1>1 DEF Closed, Block
<1>3. "archived" \in DOMAIN blocks[id] \/ id \notin DOMAIN blocks
  BY <1>1 DEF Block
<1> QED
  BY <1>1, <1>2, <1>3 DEF Archive, Lasts

-----------------------------------------------------------------------------
(* Types. *)

\* Of a compaction: it is in the section or not, and has what it needs there.
Placed(c) ==
    /\ at[c] \in Section <=> cmu = c
    /\ at[c] = "opened" => nextBlock <= MaxBlocks
    /\ at[c] \in {"created", "added"} => work[c].new # 0

Todo == todo \in [Actor -> SUBSET (1..MaxBlocks)]

Work == work \in [Compactor -> [src : 0..(nextBlock - 1), new : 0..(nextBlock - 1)]]

LEMMA TypeParts ==
    TypeIInv <=>
        /\ nextBlock <= MaxBlocks + 1
        /\ adding = NoFlush \/ adding \in [id : 1..(nextBlock - 1), first : 0..MaxInt]
        /\ Todo /\ Work
        /\ cmu \in Compactor \cup {"none"} /\ cutoff \in Nat
        /\ \A c \in Compactor : Placed(c)
        /\ \A id \in DOMAIN blocks : blocks[id].pts # {}
  BY DEF TypeIInv, Placed, Todo, Work

\* Ids of blocks are within the bound.
LEMMA IdsBounded ==
    ASSUME RefsIInv, TypeIInv
    PROVE  /\ DOMAIN blocks \subseteq 1..MaxBlocks /\ nextBlock \in 1..(MaxBlocks + 1)
           /\ MaxBlocks \in Nat /\ nextBlock - 1 <= MaxBlocks
           /\ \A a \in Actor : held[a] \in 0..(nextBlock - 1)
           /\ \A c \in Compactor : c \in Actor /\ c # "sweep" /\ c # "none" /\ c \notin Reader
<1>1. /\ DOMAIN blocks \subseteq 1..MaxBlocks /\ nextBlock \in 1..(MaxBlocks + 1)
      /\ MaxBlocks \in Nat /\ nextBlock - 1 <= MaxBlocks /\ nextBlock \in Nat
  BY BlocksConstants DEF RefsIInv, TypeIInv
<1>2. \A a \in Actor : held[a] \in 0..(nextBlock - 1)
  BY <1>1 DEF RefsIInv, RefsExact
<1>3. \A c \in Compactor : c \in Actor /\ c # "sweep" /\ c # "none" /\ c \notin Reader
  BY BlocksConstants DEF Actor
<1> QED
  BY <1>1, <1>2, <1>3

\* A step of a flush's AddBlock, a rotation, a sweep or a query.
LEMMA ElsewhereTypes ==
    ASSUME TypeIInv, Lasts, UNCHANGED <<nextBlock, work, cmu>>,
           adding' = adding \/ adding' = NoFlush,
           \A c \in Compactor : at'[c] = at[c], Todo', cutoff' \in Nat
    PROVE  TypeIInv'
  BY DEF TypeIInv, Todo, Lasts

\* A step of a compaction that is not creating a block.
LEMMA CompactingTypes ==
    ASSUME TypeIInv, RefsIInv, Lasts, UNCHANGED <<nextBlock, adding, cutoff>>, Todo', Work',
           NEW c \in Compactor, NEW place, Goto(c, place),
           \A d \in Compactor \ {c} : work'[d] = work[d],
           \/ at[c] \notin Section /\ place \notin Section /\ cmu' = cmu
           \/ /\ cmu = "none" /\ cmu' = c /\ place \in Section
              /\ place = "opened" /\ nextBlock <= MaxBlocks
           \/ /\ at[c] \in Section /\ place \in Section /\ cmu' = cmu
              /\ place \in {"added", "archived", "reclaimed"}
              /\ work' = work /\ (place = "added" => at[c] = "created")
           \/ at[c] \in Section /\ cmu' = "none" /\ place \notin Section
    PROVE  TypeIInv'
<1>1. \A d \in Compactor : Placed(d) /\ d # "none" /\ d \in Actor
  BY TypeParts, IdsBounded
<1>2. at' = [at EXCEPT ![c] = place] /\ at \in [Actor -> Places] /\ c \in Actor
  BY <1>1 DEF Goto, RefsIInv
<1>3. at'[c] = place /\ \A d \in Compactor \ {c} : at'[d] = at[d]
  BY <1>1, <1>2
<1>4. ASSUME NEW d \in Compactor, d # c PROVE Placed(d)'
  <2>1. at'[d] = at[d] /\ work'[d] = work[d] /\ nextBlock' = nextBlock
    BY <1>3, <1>4
  <2>2. at[d] \in Section <=> cmu' = d
    BY <1>1, <1>4 DEF Placed
  <2> QED
    BY <1>1, <2>1, <2>2 DEF Placed
<1>5. Placed(c)'
  BY <1>1, <1>3 DEF Placed, Section
<1>6. \A d \in Compactor : Placed(d)'
  BY <1>4, <1>5
<1>7. \A id \in DOMAIN blocks' : blocks'[id].pts # {}
  BY DEF TypeIInv, Lasts
<1>8. cmu' \in Compactor \cup {"none"}
  BY TypeParts
<1> QED
  BY <1>6, <1>7, <1>8 DEF TypeIInv, Placed, Todo, Work

LEMMA InitTypes == Init => TypeIInv
<1> SUFFICES ASSUME Init PROVE TypeIInv
  OBVIOUS
<1>1. \A c \in Compactor : c # "none"
  BY BlocksConstants
<1>2. DOMAIN blocks = {} /\ MaxBlocks \in Nat
  BY BlocksConstants DEF Init
<1> QED
  BY <1>1, <1>2 DEF Init, TypeIInv, Section, NoWork, Actor

LEMMA FlushCreateTypes ==
    ASSUME TypeIInv, RefsIInv, NEW P, FlushCreate(P)
    PROVE  TypeIInv'
<1>1. /\ nextBlock + Reserved <= MaxBlocks /\ P # {} /\ P \subseteq Sample
      /\ blocks' = Create(blocks, nextBlock, NewBlock(P, FALSE))
      /\ nextBlock' = nextBlock + 1
      /\ adding' = [id |-> nextBlock, first |-> Min({TS[p] : p \in P})]
      /\ UNCHANGED <<at, todo, work, cmu, cutoff>>
  BY DEF FlushCreate, RefsIInv
<1>2. nextBlock \in Nat \ {0} /\ MaxBlocks \in Nat
  BY IdsBounded
<1>3. Min({TS[p] : p \in P}) \in 0..MaxInt
  <2>1. \A p \in P : TS[p] \in 0..MaxInt
    BY <1>1, BlocksConstants
  <2>2. {TS[p] : p \in P} \in SUBSET Nat /\ {TS[p] : p \in P} # {}
    BY <1>1, <2>1, BlocksConstants
  <2>3. Min({TS[p] : p \in P}) \in {TS[p] : p \in P}
    BY <2>2, MinIsFirst
  <2> QED
    BY <2>1, <2>3
<1>4. Reserved \in Nat /\ ((\E c \in Compactor : at[c] = "opened") => Reserved > 0)
  <2> DEFINE O == {c \in Compactor : at[c] = "opened"}
  <2>1. IsFiniteSet(O) /\ Cardinality(O) \in Nat /\ (O # {} => Cardinality(O) # 0)
    BY BlocksConstants, FS_Subset, FS_CardinalityType, FS_EmptySet
  <2> QED
    BY <2>1 DEF Reserved
<1>5. adding' \in [id : 1..(nextBlock' - 1), first : 0..MaxInt]
  BY <1>1, <1>2, <1>3
<1>6. \A id \in DOMAIN blocks' : blocks'[id].pts # {}
  BY <1>1 DEF TypeIInv, Create, NewBlock
<1>7. nextBlock' <= MaxBlocks + 1 /\ Todo' /\ Work'
  BY <1>1, <1>2, <1>4 DEF TypeIInv, Todo, Work
<1>8. ASSUME NEW c \in Compactor PROVE Placed(c)'
  <2>1. at[c] = "opened" => nextBlock' <= MaxBlocks
    BY <1>1, <1>2, <1>4
  <2>2. Placed(c)
    BY TypeParts
  <2> QED
    BY <1>1, <2>1, <2>2 DEF Placed
<1> QED
  BY <1>1, <1>5, <1>6, <1>7, <1>8 DEF TypeIInv, Placed, Todo, Work

LEMMA ShardStepTypes ==
    ASSUME TypeIInv, RefsIInv, FlushAdd \/ Rotate
    PROVE  TypeIInv'
<1>1. /\ UNCHANGED <<blocks, nextBlock, at, todo, work, cmu, cutoff>>
      /\ adding' = adding \/ adding' = NoFlush
  BY DEF FlushAdd, Rotate, storeVars
<1>2. Lasts /\ Todo' /\ cutoff' \in Nat
  BY <1>1, SameLasts DEF TypeIInv, Todo
<1> QED
  BY <1>1, <1>2, ElsewhereTypes

LEMMA PassTypes ==
    ASSUME TypeIInv, RefsIInv, NEW c \in Compactor, CompactAll(c) \/ EndPass(c)
    PROVE  TypeIInv'
<1>1. /\ UNCHANGED <<blocks, nextBlock, adding, cutoff, work, cmu>>
      /\ todo' = todo \/ todo' = [todo EXCEPT ![c] = DOMAIN blocks]
      /\ at[c] \notin Section
  BY DEF CompactAll, EndPass, storeVars, Section
<1>2. PICK place \in {"idle", "pass"} : Goto(c, place)
  BY DEF CompactAll, EndPass
<1>3. place \notin Section
  BY DEF Section
<1>4. Lasts /\ Todo' /\ Work'
  BY <1>1, SameLasts, IdsBounded DEF TypeIInv, Todo, Work
<1> QED
  BY <1>1, <1>2, <1>3, <1>4, CompactingTypes

LEMMA PeekTypes ==
    ASSUME TypeIInv, RefsIInv, NEW c \in Compactor, NEW id, Peek(c, id)
    PROVE  TypeIInv'
<1>1. /\ UNCHANGED <<nextBlock, adding, cutoff, work, cmu>>
      /\ todo' = [todo EXCEPT ![c] = @ \ {id}] /\ at[c] = "pass"
  BY DEF Peek
<1>2. Lasts
  BY SameLasts, AcquiredLasts DEF Peek
<1>3. Todo' /\ Work'
  BY <1>1, IdsBounded DEF TypeIInv, Todo, Work
<1>4. PICK place \in {"pass", "peek"} : Goto(c, place)
  BY <1>1 DEF Peek, Goto, RefsIInv
<1> QED
  BY <1>1, <1>2, <1>3, <1>4, CompactingTypes DEF Section

LEMMA PeekedTypes ==
    ASSUME TypeIInv, RefsIInv, NEW c \in Compactor, Peeked(c)
    PROVE  TypeIInv'
<1>1. /\ UNCHANGED <<nextBlock, adding, cutoff, todo, cmu>> /\ at[c] = "peek"
      /\ work' = work \/ work' = [work EXCEPT ![c].src = held[c]]
      /\ blocks' = Closed(blocks, c)
  BY DEF Peeked
<1>2. Lasts
  BY <1>1, ClosedLasts
<1>3. Todo' /\ Work' /\ \A d \in Compactor \ {c} : work'[d] = work[d]
  BY <1>1, IdsBounded DEF TypeIInv, Todo, Work
<1>4. PICK place \in {"pass", "wait"} : Goto(c, place)
  BY DEF Peeked
<1> QED
  BY <1>1, <1>2, <1>3, <1>4, CompactingTypes DEF Section

LEMMA CompactOpenTypes ==
    ASSUME TypeIInv, RefsIInv, NEW c \in Compactor, CompactOpen(c)
    PROVE  TypeIInv'
<1>1. UNCHANGED <<nextBlock, adding, cutoff>> /\ at[c] = "wait" /\ cmu = "none"
  BY DEF CompactOpen
<1>2. CASE Opens(work[c].src) /\ nextBlock <= MaxBlocks /\ Acquired(c, work[c].src)
           /\ Goto(c, "opened") /\ cmu' = c /\ UNCHANGED <<todo, work>>
  <2>1. Lasts /\ Todo' /\ Work'
    BY <1>1, <1>2, AcquiredLasts DEF TypeIInv, Todo, Work
  <2> QED
    BY <1>1, <1>2, <2>1, CompactingTypes DEF Section
<1>3. CASE UNCHANGED <<blocks, cmu>> /\ work' = [work EXCEPT ![c] = NoWork]
           /\ (Goto(c, "pass") \/ Goto(c, "idle"))
           /\ (todo' = todo \/ todo' = [todo EXCEPT ![c] = {}])
  <2>1. Lasts /\ Todo' /\ Work' /\ \A d \in Compactor \ {c} : work'[d] = work[d]
    BY <1>1, <1>3, SameLasts, IdsBounded DEF TypeIInv, Todo, Work, NoWork
  <2>2. PICK place \in {"pass", "idle"} : Goto(c, place)
    BY <1>3
  <2> QED
    BY <1>1, <1>3, <2>1, <2>2, CompactingTypes DEF Section
<1> QED
  BY <1>2, <1>3 DEF CompactOpen

LEMMA CompactCreateTypes ==
    ASSUME TypeIInv, RefsIInv, NEW c \in Compactor, CompactCreate(c)
    PROVE  TypeIInv'
<1> DEFINE src == held[c]
           B == [blocks EXCEPT ![src].state = "compacting"]
<1>1. /\ at[c] = "opened" /\ at' = [at EXCEPT ![c] = "created"]
      /\ blocks' = Create(B, nextBlock, NewBlock(blocks[src].pts, TRUE))
      /\ nextBlock' = nextBlock + 1 /\ work' = [work EXCEPT ![c].new = nextBlock]
      /\ UNCHANGED <<adding, todo, cmu, cutoff>>
  BY DEF CompactCreate, Goto
<1>2. /\ src \in DOMAIN blocks /\ nextBlock \in Nat \ {0} /\ MaxBlocks \in Nat
      /\ c \in Actor /\ at \in [Actor -> Places] /\ Compactor \subseteq Actor
      /\ \A i \in DOMAIN blocks : blocks[i] \in Block
  BY <1>1, RefsParts, IdsBounded DEF RefsIInv, RefsExact, Holding
<1>3. \A d \in Compactor : Placed(d)
  BY TypeParts
<1>4. nextBlock <= MaxBlocks /\ \A d \in Compactor \ {c} : at[d] # "opened"
  BY <1>1, <1>3 DEF Placed, Section
<1>5. \A id \in DOMAIN blocks' : blocks'[id].pts # {}
  <2>1. DOMAIN B = DOMAIN blocks /\ \A i \in DOMAIN blocks : B[i].pts = blocks[i].pts
    BY <1>2 DEF Block
  <2>2. /\ DOMAIN blocks' = DOMAIN blocks \cup {nextBlock}
        /\ blocks'[nextBlock].pts = blocks[src].pts
        /\ \A i \in DOMAIN blocks \ {nextBlock} : blocks'[i].pts = blocks[i].pts
    BY <1>1, <2>1 DEF Create, NewBlock
  <2> HIDE DEF B, src
  <2> QED
    BY <1>2, <2>2 DEF TypeIInv
<1>6. /\ adding' = NoFlush \/ adding' \in [id : 1..(nextBlock' - 1), first : 0..MaxInt]
      /\ nextBlock' <= MaxBlocks + 1 /\ Todo' /\ Work'
  BY <1>1, <1>2, <1>4 DEF TypeIInv, Todo, Work
<1>7. ASSUME NEW d \in Compactor PROVE Placed(d)'
  <2>1. CASE d = c
    BY <1>1, <1>2, <1>3, <2>1 DEF Placed, Section, TypeIInv
  <2>2. CASE d # c
    BY <1>1, <1>2, <1>3, <1>4, <2>2 DEF Placed, TypeIInv
  <2> QED
    BY <2>1, <2>2
<1>8. cmu' \in Compactor \cup {"none"} /\ cutoff' \in Nat
  BY <1>1 DEF TypeIInv
<1> QED
  BY <1>5, <1>6, <1>7, <1>8 DEF TypeIInv, Placed, Todo, Work

LEMMA CompactAddTypes ==
    ASSUME TypeIInv, RefsIInv, NEW c \in Compactor, CompactAdd(c) \/ CompactArchive(c) \/ CompactReclaim(c)
    PROVE  TypeIInv'
<1>1. /\ UNCHANGED <<nextBlock, adding, cutoff, work, cmu, todo>>
      /\ at[c] \in Section
  BY DEF CompactAdd, CompactArchive, CompactReclaim, storeVars, Section
<1>2. Lasts
  BY SameLasts, ArchiveLasts, ReclaimedLasts DEF CompactAdd, CompactArchive, CompactReclaim, storeVars
<1>3. Todo' /\ Work'
  BY <1>1 DEF TypeIInv, Todo, Work
<1>4. PICK place \in {"added", "archived", "reclaimed"} :
          Goto(c, place) /\ (place = "added" => at[c] = "created")
  BY DEF CompactAdd, CompactArchive, CompactReclaim
<1>5. place \in Section
  BY DEF Section
<1> QED
  BY <1>1, <1>2, <1>3, <1>4, <1>5, CompactingTypes

LEMMA LeaveTypes ==
    ASSUME TypeIInv, RefsIInv, NEW c \in Compactor, CompactFail(c) \/ CompactReturn(c)
    PROVE  TypeIInv'
<1>1. /\ UNCHANGED <<nextBlock, adding, cutoff>> /\ at[c] \in Section
      /\ cmu' = "none" /\ work' = [work EXCEPT ![c] = NoWork]
      /\ todo' = todo \/ todo' = [todo EXCEPT ![c] = {}]
      /\ blocks' = Closed(blocks, c)
  BY DEF CompactFail, CompactReturn, LeaveTo, Section
<1>2. Lasts
  BY <1>1, ClosedLasts
<1>3. Todo' /\ Work' /\ \A d \in Compactor \ {c} : work'[d] = work[d]
  BY <1>1, IdsBounded DEF TypeIInv, Todo, Work, NoWork
<1>4. PICK place \in {"pass", "idle"} : Goto(c, place)
  BY DEF CompactFail, CompactReturn, LeaveTo
<1>5. place \notin Section
  BY DEF Section
<1> QED
  BY <1>1, <1>2, <1>3, <1>4, <1>5, CompactingTypes

\* The steps of sweeps and queries, of which compactions notice the blocks.
LEMMA ApartSteps ==
    ASSUME RefsIInv, TypeIInv, NEW a \in Actor \ Compactor, NEW place,
           at' = at \/ at' = [at EXCEPT ![a] = place],
           NEW id, held' = held \/ held' = [held EXCEPT ![a] = id]
    PROVE  \A c \in Compactor : at'[c] = at[c] /\ held'[c] = held[c]
  BY IdsBounded DEF RefsIInv

LEMMA SweepIsApart ==
    ASSUME RefsIInv, TypeIInv, NEW t, SweepStart(t) \/ SweepStep
    PROVE  /\ \A c \in Compactor : at'[c] = at[c] /\ held'[c] = held[c]
           /\ UNCHANGED <<nextBlock, fresh, adding, work, cmu>> /\ Lasts
<1>1. "sweep" \in Actor \ Compactor
  BY BlocksConstants DEF Actor
<1>2. PICK place, id : /\ at' = at \/ at' = [at EXCEPT !["sweep"] = place]
                       /\ held' = held \/ held' = [held EXCEPT !["sweep"] = id]
  BY DEF SweepStart, SweepStep, SweepMark, SweepEnd, SweepOpen, Acquired, Goto
<1>3. UNCHANGED <<nextBlock, fresh, adding, work, cmu>>
  BY DEF SweepStart, SweepStep, SweepMark, SweepEnd, SweepOpen, storeVars
<1>4. Lasts
  BY SameLasts, ArchiveLasts, ClosedLasts, ReclaimedLasts, AcquiredLasts
  DEF SweepStart, SweepStep, SweepMark, SweepEnd, SweepOpen, storeVars
<1> QED
  BY <1>1, <1>2, <1>3, <1>4, ApartSteps

LEMMA QueryIsApart ==
    ASSUME RefsIInv, TypeIInv, NEW r \in Reader, NEW rng, Ask(r, rng) \/ ReadStep(r)
    PROVE  /\ \A c \in Compactor : at'[c] = at[c] /\ held'[c] = held[c]
           /\ UNCHANGED <<shardVars, nextBlock, fresh, adding, work, cmu, cutoff>> /\ Lasts /\ Unmarked
<1>1. r \in Actor \ Compactor
  BY BlocksConstants DEF Actor
<1>2. PICK place, id : /\ at' = at \/ at' = [at EXCEPT ![r] = place]
                       /\ held' = held \/ held' = [held EXCEPT ![r] = id]
  BY DEF Ask, ReadStep, ReadShard, ReadOpen, ReadRange, ReadPanics, Answer, EndQuery, Acquired, Goto
<1>3. UNCHANGED <<shardVars, nextBlock, fresh, adding, work, cmu, cutoff>>
  BY DEF Ask, ReadStep, ReadShard, ReadOpen, ReadRange, ReadPanics, Answer, storeVars
<1>4. Lasts /\ Unmarked
  BY SameLasts, ClosedLasts, AcquiredLasts
  DEF Ask, ReadStep, ReadShard, ReadOpen, ReadRange, ReadPanics, Answer, storeVars
<1> QED
  BY <1>1, <1>2, <1>3, <1>4, ApartSteps

LEMMA SweepTypes ==
    ASSUME TypeIInv, RefsIInv, NEW t, (t \in Cutoffs /\ SweepStart(t)) \/ SweepStep
    PROVE  TypeIInv'
<1>1. Todo'
  <2>1. todo \in [Actor -> SUBSET (1..MaxBlocks)] /\ DOMAIN blocks \subseteq 1..MaxBlocks
    BY IdsBounded DEF TypeIInv
  <2> QED
    BY <2>1 DEF Todo, SweepStart, SweepStep, SweepMark, SweepEnd, SweepOpen
<1>2. cutoff' \in Nat
  BY BlocksConstants DEF TypeIInv, SweepStart, SweepStep, SweepMark, SweepEnd, SweepOpen
<1> QED
  BY <1>1, <1>2, SweepIsApart, ElsewhereTypes

LEMMA QueryTypes ==
    ASSUME TypeIInv, RefsIInv, SP!ShardsIInv, QueriesTyped,
           NEW r \in Reader, NEW rng, Ask(r, rng) \/ ReadStep(r)
    PROVE  TypeIInv'
<1>1. Todo'
  <2>1. todo \in [Actor -> SUBSET (1..MaxBlocks)] /\ r \in Actor
    BY DEF TypeIInv, Actor
  <2>2. ASSUME ReadShard(r) PROVE shards[Min(asked[r].left)].blocks \subseteq 1..MaxBlocks
    <3>1. SP!Known
      BY ConstantsOfShards, SP!WindowsKnown
    <3>2. /\ DOMAIN shards = 1..Len(shards) /\ Len(shards) \in Nat
          /\ \A i \in DOMAIN shards : shards[i].blocks \subseteq 1..MaxBlocks
      BY <3>1 DEF SP!Known
    <3>3. asked[r].left \in SUBSET Nat /\ asked[r].left # {} /\ asked[r].left \subseteq DOMAIN shards
      BY <2>2, <3>2 DEF ReadShard, QueriesTyped
    <3> QED
      BY <3>2, <3>3, MinIsFirst
  <2>3. CASE ReadShard(r)
    BY <2>1, <2>2, <2>3 DEF Todo, ReadShard
  <2>4. CASE ~ReadShard(r)
    BY <2>1, <2>4 DEF Todo, Ask, ReadStep, ReadOpen, ReadRange, ReadPanics, Answer
  <2> QED
    BY <2>3, <2>4
<1> QED
  BY <1>1, QueryIsApart, ElsewhereTypes DEF TypeIInv

-----------------------------------------------------------------------------
(* What a step does to the shards. *)

LEMMA FlushAddShards ==
    ASSUME TypeIInv, RefsIInv, SP!ShardsIInv, FlushAdd
    PROVE  (S!RouteRejects(adding.first) /\ Quiet) \/ Lists(adding.first, adding.id)
<1>1. adding.first \in 0..MaxInt /\ adding.id \in 1..MaxBlocks
  BY IdsBounded DEF TypeIInv, FlushAdd
<1> QED
  BY <1>1, StayQuiet, AttachLists DEF FlushAdd

\* The block that a compaction reads, and the time its result is routed by.
LEMMA SourceOf ==
    ASSUME TypeIInv, RefsIInv, NEW c \in Compactor, at[c] \in Section
    PROVE  /\ held[c] \in DOMAIN blocks /\ blocks[held[c]] \in Block /\ blocks[held[c]].pts # {}
           /\ Min(Times(blocks[held[c]])) \in 0..MaxInt
<1>1. held[c] \in DOMAIN blocks
  BY IdsBounded, RefsParts DEF RefsIInv, RefsExact, Section, Holding
<1>2. blocks[held[c]] \in Block /\ blocks[held[c]].pts # {}
  BY <1>1 DEF RefsIInv, TypeIInv
<1> QED
  BY <1>1, <1>2, TimesOf

LEMMA CompactAddShards ==
    ASSUME TypeIInv, RefsIInv, SP!ShardsIInv, NEW c \in Compactor, CompactAdd(c)
    PROVE  /\ Lists(Min(Times(blocks[held[c]])), work[c].new)
           /\ work[c].new \in 1..(nextBlock - 1)
<1>1. at[c] = "created" /\ work[c].new \in 1..(nextBlock - 1)
  BY IdsBounded DEF TypeIInv, CompactAdd
<1>2. work[c].new \in 1..MaxBlocks
  BY <1>1, IdsBounded
<1>3. Min(Times(blocks[held[c]])) \in 0..MaxInt
  BY <1>1, SourceOf DEF Section
<1>4. Attach(Min(Times(blocks[held[c]])), work[c].new)
  BY DEF CompactAdd
<1> HIDE DEF Attach
<1> QED
  BY <1>1, <1>2, <1>3, <1>4, AttachLists

LEMMA OthersQuiet ==
    ASSUME RefsIInv, SP!ShardsIInv,
           \/ \E P \in SUBSET Sample : FlushCreate(P)
           \/ Rotate
           \/ \E t \in Cutoffs : SweepStart(t)
           \/ SweepStep
           \/ UNCHANGED shardVars
    PROVE  Quiet
  BY FlushCreateQuiet, RotateQuiet, SweepEndQuiet, StayQuiet
  DEF SweepStart, SweepStep, SweepMark, SweepOpen

LEMMA CompactionShards ==
    ASSUME RefsIInv, SP!ShardsIInv, NEW c \in Compactor, CompactAll(c) \/ CompactStep(c), ~CompactAdd(c)
    PROVE  UNCHANGED shardVars
  BY DEF CompactAll, CompactStep, EndPass, Peek, Peeked, CompactOpen, CompactCreate, CompactFail,
         CompactArchive, CompactReclaim, CompactReturn

LEMMA ShardsMove ==
    ASSUME TypeIInv, RefsIInv, SP!ShardsIInv, [Next]_vars
    PROVE  SP!Kept
<1>1. CASE FlushAdd
  BY <1>1, FlushAddShards DEF Lists, Quiet
<1>2. ASSUME NEW c \in Compactor, CompactAll(c) \/ CompactStep(c) PROVE SP!Kept
  BY <1>2, CompactAddShards, CompactionShards, OthersQuiet DEF Lists, Quiet
<1>3. ASSUME NEW r \in Reader, NEW rng, Ask(r, rng) \/ ReadStep(r) PROVE SP!Kept
  BY <1>3, QueryIsApart, OthersQuiet DEF Quiet
<1>4. CASE UNCHANGED vars
  BY <1>4, OthersQuiet DEF Quiet, vars
<1> QED
  BY <1>1, <1>2, <1>3, <1>4, OthersQuiet DEF Next, Quiet

-----------------------------------------------------------------------------
(* The types of queries. *)

Query == [range : (0..MaxInt) \X (0..MaxInt), left : SUBSET (DOMAIN shards),
          was : [Sample -> SUBSET (1..MaxBlocks)]]

LEMMA InitQueries == Init => QueriesTyped
<1> SUFFICES ASSUME Init PROVE QueriesTyped
  OBVIOUS
<1>1. NoQuery \in Query
  BY BlocksConstants DEF NoQuery, Query
<1> QED
  BY <1>1 DEF Init, QueriesTyped, Query

LEMMA QueriesTypes ==
    ASSUME TypeIInv, RefsIInv, SP!ShardsIInv, QueriesTyped, [Next]_vars
    PROVE  QueriesTyped'
<1>1. DOMAIN shards \subseteq DOMAIN shards'
  BY ShardsMove DEF SP!Kept
<1>2. CASE UNCHANGED queryVars
  BY <1>1, <1>2 DEF QueriesTyped, queryVars
<1>3. ASSUME NEW r \in Reader, NEW rng \in Ranges, Ask(r, rng) PROVE QueriesTyped'
  <2>1. \A p \in Sample : OnlyIn(p) \subseteq 1..MaxBlocks
    BY IdsBounded DEF OnlyIn, Showing, Opens
  <2>2. /\ Covering(rng) \subseteq DOMAIN shards
        /\ rng \in (0..MaxInt) \X (0..MaxInt)
    BY BlocksConstants DEF Covering
  <2>3. [range |-> rng, left |-> Covering(rng), was |-> [p \in Sample |-> OnlyIn(p)]] \in Query
    BY <2>1, <2>2 DEF Query
  <2>4. asked' = [asked EXCEPT ![r] = [range |-> rng, left |-> Covering(rng),
                                       was |-> [p \in Sample |-> OnlyIn(p)]]]
        /\ UNCHANGED <<shards, got, leaked>>
    BY <1>3 DEF Ask, shardVars
  <2> QED
    BY <2>3, <2>4 DEF QueriesTyped, Query
<1>4. ASSUME NEW r \in Reader, ReadShard(r) PROVE QueriesTyped'
  <2>1. PICK i : asked' = [asked EXCEPT ![r].left = @ \ {i}]
                 /\ UNCHANGED <<shards, got, leaked>>
    BY <1>4 DEF ReadShard, shardVars
  <2> QED
    BY <2>1 DEF QueriesTyped
<1>5. ASSUME NEW r \in Reader, ReadRange(r) PROVE QueriesTyped'
  <2>1. PICK met :
            got' = [got EXCEPT ![r] = [p \in Sample |-> IF p \in met THEN @[p] + 1 ELSE @[p]]]
            /\ UNCHANGED <<shards, asked, leaked>>
    BY <1>5 DEF ReadRange, shardVars
  <2>2. got[r] \in [Sample -> Nat]
    BY DEF QueriesTyped
  <2> QED
    BY <2>1, <2>2 DEF QueriesTyped
<1>6. ASSUME NEW r \in Reader, ReadPanics(r) \/ Answer(r) PROVE QueriesTyped'
  <2>1. /\ asked' = [asked EXCEPT ![r] = NoQuery] /\ UNCHANGED shards
        /\ got' = [got EXCEPT ![r] = [p \in Sample |-> 0]]
    BY <1>6 DEF ReadPanics, Answer, EndQuery, shardVars
  <2>2. NoQuery \in Query
    BY BlocksConstants DEF NoQuery, Query
  <2>3. leaked' \in Seq(1..MaxBlocks)
    <3>1. at[r] = "range" => held[r] \in 1..MaxBlocks
      BY IdsBounded, RefsParts DEF Actor, Holding, RefsIInv, RefsExact
    <3>2. leaked' = leaked \/ (at[r] = "range" /\ leaked' = Append(leaked, held[r]))
      BY <1>6 DEF ReadPanics, Answer
    <3>3. leaked \in Seq(1..MaxBlocks)
      BY DEF QueriesTyped
    <3>4. \A T : \A l \in Seq(T), x \in T : Append(l, x) \in Seq(T)
      OBVIOUS
    <3> QED
      BY <3>1, <3>2, <3>3, <3>4, Zenon
  <2> QED
    BY <2>1, <2>2, <2>3 DEF QueriesTyped, Query
<1>7. ASSUME NEW r \in Reader, NEW id, ReadOpen(r, id) PROVE QueriesTyped'
  BY <1>2, <1>7 DEF ReadOpen
<1>8. ASSUME NEW c \in Compactor, CompactAll(c) \/ CompactStep(c) PROVE QueriesTyped'
  BY <1>2, <1>8
  DEF CompactAll, CompactStep, EndPass, Peek, Peeked, CompactOpen, CompactCreate, CompactAdd,
      CompactFail, CompactArchive, CompactReclaim, CompactReturn
<1>9. ASSUME NEW t, SweepStart(t) \/ SweepStep PROVE QueriesTyped'
  BY <1>2, <1>9 DEF SweepStart, SweepStep, SweepMark, SweepEnd, SweepOpen
<1>10. ASSUME NEW P, FlushCreate(P) \/ FlushAdd \/ Rotate PROVE QueriesTyped'
  BY <1>2, <1>10 DEF FlushCreate, FlushAdd, Rotate
<1>11. CASE UNCHANGED vars
  BY <1>2, <1>11 DEF vars
<1> QED
  BY <1>3, <1>4, <1>5, <1>6, <1>7, <1>8, <1>9, <1>10, <1>11 DEF Next, ReadStep

-----------------------------------------------------------------------------
(* The first theorem: the types. *)

ControlIInv == TypeIInv /\ SP!ShardsIInv /\ QueriesTyped

LEMMA InitControl == Init => ControlIInv
  BY InitTypes, InitQueries, ConstantsOfShards, SameShards, SP!InitShardsIInv DEF ControlIInv, Init

LEMMA NextControl ==
    ASSUME ControlIInv, RefsIInv, [Next]_vars
    PROVE  ControlIInv'
<1>1. SP!ShardsIInv' /\ QueriesTyped'
  BY ShardsMove, QueriesTypes DEF ControlIInv, SP!Kept
<1>2. ASSUME NEW c \in Compactor, CompactAll(c) \/ CompactStep(c) PROVE TypeIInv'
  BY <1>2, PassTypes, PeekTypes, PeekedTypes, CompactOpenTypes, CompactCreateTypes, CompactAddTypes,
     LeaveTypes DEF ControlIInv, CompactStep
<1>3. ASSUME NEW r \in Reader, NEW rng, Ask(r, rng) \/ ReadStep(r) PROVE TypeIInv'
  BY <1>3, QueryTypes DEF ControlIInv
<1>4. ASSUME UNCHANGED vars PROVE TypeIInv'
  <2>1. /\ UNCHANGED <<blocks, nextBlock, adding, at, todo, work, cmu, cutoff>>
        /\ TypeIInv
    BY <1>4 DEF vars, storeVars, ControlIInv
  <2>2. Lasts /\ Todo' /\ cutoff' \in Nat
    BY <2>1, SameLasts DEF TypeIInv, Todo
  <2> QED
    BY <2>1, <2>2, ElsewhereTypes
<1>5. TypeIInv'
  BY <1>2, <1>3, <1>4, FlushCreateTypes, ShardStepTypes, SweepTypes
  DEF ControlIInv, Next
<1> QED
  BY <1>1, <1>5 DEF ControlIInv

\* Who is inside Compactor.mu, which ids have been given out and what a query has
\* left to visit is as the code has it in every reachable state, and the shards
\* keep their invariant under flushes, compactions and sweeps.
THEOREM ControlInductive == Spec => []ControlIInv
<1>1. ControlIInv /\ RefsIInv /\ [Next]_vars => ControlIInv'
  BY NextControl
<1> QED
  BY <1>1, InitControl, RefsInductive, PTL DEF Spec

\* The variables keep their types, for any number of samples, blocks, goroutines
\* and windows (BlocksTypeOK).
THEOREM BlocksTypeCorrect == Spec => []BlocksTypeOK
<1>1. ControlIInv /\ RefsIInv => BlocksTypeOK
  <2> SUFFICES ASSUME ControlIInv, RefsIInv PROVE BlocksTypeOK
    OBVIOUS
  <2>1. S!ShardsTypeOK /\ QueriesTyped
    BY SameShards DEF ControlIInv, SP!ShardsIInv
  <2>2. /\ nextBlock \in 1..(MaxBlocks + 1) /\ nextBlock - 1 <= MaxBlocks /\ MaxBlocks \in Nat
        /\ nextBlock \in Nat
    BY IdsBounded DEF ControlIInv
  <2>3. held \in [Actor -> 0..MaxBlocks]
    BY <2>2, IdsBounded DEF ControlIInv, RefsIInv
  <2>4. adding \in [id : 0..MaxBlocks, first : S!Time]
    BY <2>2, BlocksConstants DEF ControlIInv, TypeIInv, NoFlush, S!Time
  <2>5. work \in [Compactor -> [src : 0..MaxBlocks, new : 0..MaxBlocks]]
    BY <2>2 DEF ControlIInv, TypeIInv
  <2> QED
    BY <2>1, <2>2, <2>3, <2>4, <2>5 DEF ControlIInv, TypeIInv, RefsIInv, BlocksTypeOK
<1> QED
  BY <1>1, ControlInductive, RefsInductive, PTL

-----------------------------------------------------------------------------
(* What a step means for the samples: most steps stand aside. *)

Making == {"opened", "created", "added"}

\* A step that archives and stores no block, lists none, and is not one of a
\* compaction that has its source open.
Aside ==
    /\ Lasts /\ Unmarked /\ Quiet
    /\ UNCHANGED <<nextBlock, fresh, adding>> /\ cutoff' \in Nat /\ cutoff <= cutoff'
    /\ \A c \in Compactor : at[c] \in Making \/ at'[c] \in Making =>
           at'[c] = at[c] /\ held'[c] = held[c] /\ work'[c] = work[c]

CompactOpens(c) == CompactOpen(c) /\ Opens(work[c].src)

\* Of one compaction, which is not inside or leaves.
LEMMA CompactingAside ==
    ASSUME ControlIInv, RefsIInv, NEW c \in Compactor,
           at[c] \notin Making, NEW place, place \notin Making, at' = at \/ Goto(c, place),
           NEW id, held' = held \/ held' = [held EXCEPT ![c] = id],
           NEW w, work' = work \/ work' = [work EXCEPT ![c] = w],
           UNCHANGED <<shardVars, nextBlock, fresh, adding, cutoff>>, Lasts, Unmarked
    PROVE  Aside
<1>1. /\ c \in Actor /\ Compactor \subseteq Actor /\ at \in [Actor -> Places]
      /\ held \in [Actor -> Nat]
      /\ work \in [Compactor -> [src : 0..(nextBlock - 1), new : 0..(nextBlock - 1)]]
      /\ cutoff \in Nat
  BY IdsBounded DEF ControlIInv, RefsIInv, TypeIInv
<1>2. Quiet
  BY OthersQuiet DEF ControlIInv
<1>3. \A d \in Compactor : d # c => at'[d] = at[d] /\ held'[d] = held[d] /\ work'[d] = work[d]
  BY <1>1 DEF Goto
<1>4. at'[c] \notin Making
  BY <1>1 DEF Goto
<1> QED
  BY <1>1, <1>2, <1>3, <1>4 DEF Aside

LEMMA CompactionAside ==
    ASSUME ControlIInv, RefsIInv, NEW c \in Compactor, CompactAll(c) \/ CompactStep(c)
    PROVE  \/ Aside
           \/ CompactOpens(c) \/ CompactCreate(c) \/ CompactAdd(c) \/ CompactFail(c) \/ CompactArchive(c)
<1>1. CASE CompactAll(c) \/ EndPass(c)
  <2>1. /\ at[c] \notin Making
        /\ UNCHANGED <<shardVars, nextBlock, fresh, adding, cutoff, held, work, blocks>>
    BY <1>1 DEF CompactAll, EndPass, storeVars, Making
  <2>2. PICK place \in {"idle", "pass"} : Goto(c, place)
    BY <1>1 DEF CompactAll, EndPass
  <2> QED
    BY <2>1, <2>2, SameLasts, CompactingAside DEF Making
<1>2. ASSUME NEW id, Peek(c, id) PROVE Aside
  <2>1. /\ at[c] \notin Making
        /\ UNCHANGED <<shardVars, nextBlock, fresh, adding, cutoff, work>>
        /\ at' = at \/ Goto(c, "peek")
    BY <1>2 DEF Peek, Making
  <2>2. Lasts /\ Unmarked /\ (held' = held \/ held' = [held EXCEPT ![c] = id])
    BY <1>2, SameLasts, AcquiredLasts DEF Peek, Acquired
  <2> QED
    BY <2>1, <2>2, CompactingAside DEF Making
<1>3. CASE Peeked(c)
  <2>1. /\ at[c] \notin Making /\ blocks' = Closed(blocks, c)
        /\ UNCHANGED <<shardVars, nextBlock, fresh, adding, cutoff>>
        /\ held' = [held EXCEPT ![c] = 0]
        /\ work' = work \/ work' = [work EXCEPT ![c].src = held[c]]
    BY <1>3 DEF Peeked, Making
  <2>2. PICK place \in {"wait", "pass"} : Goto(c, place)
    BY <1>3 DEF Peeked
  <2>3. PICK w : work' = work \/ work' = [work EXCEPT ![c] = w]
    BY <2>1
  <2> QED
    BY <2>1, <2>2, <2>3, ClosedLasts, CompactingAside DEF Making
<1>4. CASE CompactOpen(c) /\ ~Opens(work[c].src)
  <2>1. /\ at[c] \notin Making
        /\ UNCHANGED <<shardVars, nextBlock, fresh, adding, cutoff, held, blocks>>
        /\ work' = [work EXCEPT ![c] = NoWork]
    BY <1>4 DEF CompactOpen, Making
  <2>2. PICK place \in {"idle", "pass"} : Goto(c, place)
    BY <1>4 DEF CompactOpen
  <2> QED
    BY <2>1, <2>2, SameLasts, CompactingAside DEF Making
<1>5. CASE CompactReclaim(c)
  <2>1. /\ at[c] \notin Making /\ Goto(c, "reclaimed") /\ blocks' = Reclaimed
        /\ UNCHANGED <<shardVars, nextBlock, fresh, adding, cutoff, held, work>>
    BY <1>5 DEF CompactReclaim, Making
  <2> QED
    BY <2>1, ReclaimedLasts, CompactingAside DEF Making
<1>6. CASE CompactReturn(c)
  <2>1. /\ at[c] \notin Making /\ Goto(c, "pass") /\ blocks' = Closed(blocks, c)
        /\ UNCHANGED <<shardVars, nextBlock, fresh, adding, cutoff>>
        /\ held' = [held EXCEPT ![c] = 0] /\ work' = [work EXCEPT ![c] = NoWork]
    BY <1>6 DEF CompactReturn, LeaveTo, Making
  <2> QED
    BY <2>1, ClosedLasts, CompactingAside DEF Making
<1> QED
  BY <1>1, <1>2, <1>3, <1>4, <1>5, <1>6 DEF CompactStep, CompactOpens

LEMMA SweepAside ==
    ASSUME ControlIInv, RefsIInv, NEW t, (t \in Cutoffs /\ SweepStart(t)) \/ SweepStep, ~SweepMark
    PROVE  Aside
<1>1. /\ \A c \in Compactor : at'[c] = at[c] /\ held'[c] = held[c]
      /\ UNCHANGED <<nextBlock, fresh, adding, work>>
  BY SweepIsApart DEF ControlIInv
<1>2. Lasts /\ Unmarked
  BY SameLasts, AcquiredLasts, ReclaimedLasts DEF SweepStart, SweepStep, SweepOpen, SweepEnd, storeVars
<1>3. cutoff' \in Nat /\ cutoff <= cutoff'
  <2>1. cutoff \in Nat /\ Cutoffs \subseteq Nat
    BY BlocksConstants DEF ControlIInv, TypeIInv
  <2>2. cutoff' = cutoff \/ (t \in Cutoffs /\ t >= cutoff /\ cutoff' = t)
    BY DEF SweepStart, SweepStep, SweepOpen, SweepEnd
  <2>3. CASE cutoff' = cutoff
    BY <2>1, <2>3
  <2>4. CASE t \in Nat /\ t >= cutoff /\ cutoff' = t
    BY <2>1, <2>4
  <2> QED
    BY <2>1, <2>2, <2>3, <2>4
<1>4. Quiet
  BY OthersQuiet DEF ControlIInv
<1> QED
  BY <1>1, <1>2, <1>3, <1>4 DEF Aside

LEMMA QueryAside ==
    ASSUME ControlIInv, RefsIInv, NEW r \in Reader, NEW rng, Ask(r, rng) \/ ReadStep(r)
    PROVE  Aside
<1>1. Quiet
  BY QueryIsApart, OthersQuiet DEF ControlIInv
<1>2. cutoff' = cutoff /\ cutoff \in Nat
  BY QueryIsApart DEF ControlIInv, TypeIInv
<1> QED
  BY <1>1, <1>2, QueryIsApart DEF Aside, ControlIInv

LEMMA RestAside ==
    ASSUME ControlIInv, RefsIInv, Rotate \/ UNCHANGED vars
    PROVE  Aside
<1>1. Quiet
  BY OthersQuiet DEF ControlIInv, vars
<1>2. UNCHANGED <<blocks, nextBlock, fresh, adding, cutoff, at, held, work>> /\ cutoff \in Nat
  BY DEF Rotate, vars, storeVars, ControlIInv, TypeIInv
<1> QED
  BY <1>1, <1>2, SameLasts DEF Aside

LEMMA StepKinds ==
    ASSUME ControlIInv, RefsIInv, [Next]_vars
    PROVE  \/ Aside
           \/ \E P \in SUBSET Sample : FlushCreate(P)
           \/ FlushAdd
           \/ \E c \in Compactor : \/ CompactOpens(c) \/ CompactCreate(c) \/ CompactAdd(c)
                                   \/ CompactFail(c) \/ CompactArchive(c)
           \/ SweepMark
<1>1. ASSUME NEW r \in Reader, NEW rng, Ask(r, rng) \/ ReadStep(r) PROVE Aside
  BY <1>1, QueryAside
<1> QED
  BY <1>1, CompactionAside, SweepAside, RestAside DEF Next

-----------------------------------------------------------------------------
(* No sample vanishes. *)

\* A step that stores a block of the samples P, under the next id.
Stores(P, coarse) ==
    /\ DOMAIN blocks' = DOMAIN blocks \cup {nextBlock}
    /\ \A id \in DOMAIN blocks :
          /\ blocks'[id].pts = blocks[id].pts /\ blocks'[id].coarse = blocks[id].coarse
          /\ blocks'[id].archived = blocks[id].archived
    /\ blocks'[nextBlock].pts = P /\ blocks'[nextBlock].coarse = coarse
    /\ ~blocks'[nextBlock].archived
    /\ nextBlock' = nextBlock + 1
    /\ nextBlock \in Nat /\ nextBlock # 0 /\ nextBlock \notin DOMAIN blocks
    /\ DOMAIN blocks \subseteq 1..(nextBlock - 1)

LEMMA FlushCreateStores == ASSUME RefsIInv, NEW P, FlushCreate(P) PROVE Stores(P, FALSE)
<1>1. blocks' = Create(blocks, nextBlock, NewBlock(P, FALSE)) /\ nextBlock' = nextBlock + 1
  BY DEF FlushCreate
<1> QED
  BY <1>1, RefsParts DEF Stores, Create, NewBlock, RefsIInv

LEMMA CompactCreateStores ==
    ASSUME ControlIInv, RefsIInv, NEW c \in Compactor, CompactCreate(c)
    PROVE  Stores(blocks[held[c]].pts, TRUE)
<1> DEFINE src == held[c]
           B == [blocks EXCEPT ![src].state = "compacting"]
<1>1. /\ blocks' = Create(B, nextBlock, NewBlock(blocks[src].pts, TRUE))
      /\ nextBlock' = nextBlock + 1 /\ at[c] = "opened"
  BY DEF CompactCreate
<1>2. \A i \in DOMAIN blocks : blocks[i] \in Block
  BY DEF RefsIInv
<1>3. /\ DOMAIN B = DOMAIN blocks
      /\ \A i \in DOMAIN blocks : /\ B[i].pts = blocks[i].pts /\ B[i].coarse = blocks[i].coarse
                                  /\ B[i].archived = blocks[i].archived
  BY <1>2 DEF Block
<1> HIDE DEF B, src
<1>4. /\ nextBlock \in Nat /\ nextBlock # 0 /\ nextBlock \notin DOMAIN blocks
      /\ DOMAIN blocks \subseteq 1..(nextBlock - 1)
  BY RefsParts DEF RefsIInv
<1> QED
  BY <1>1, <1>3, <1>4 DEF Stores, Create, NewBlock, src

\* The list of all shards' blocks.
LEMMA QuietListed == Quiet => Listed' = Listed
<1> SUFFICES ASSUME Quiet PROVE Listed' = Listed
  OBVIOUS
<1>1. /\ \A i \in DOMAIN shards : i \in DOMAIN shards'
      /\ \A i \in DOMAIN shards' :
            shards'[i].blocks = IF i \in DOMAIN shards THEN shards[i].blocks ELSE {}
  BY DEF Quiet, SP!Kept, SP!SameLists, SP!ListOf
<1> QED
  BY <1>1 DEF Listed

LEMMA ListsListed ==
    ASSUME NEW t, NEW id, Lists(t, id)
    PROVE  Listed' = Listed \cup {id}
<1>1. /\ \A i \in DOMAIN shards : i \in DOMAIN shards'
      /\ Len(shards') \in DOMAIN shards'
      /\ \A i \in DOMAIN shards' :
            shards'[i].blocks = (IF i \in DOMAIN shards THEN shards[i].blocks ELSE {})
                                \cup (IF i = Len(shards') THEN {id} ELSE {})
  BY DEF Lists, SP!Kept, SP!ListOf
<1> DEFINE m == Len(shards')
<1> HIDE DEF m
<1>2. ASSUME NEW x, x \in Listed' PROVE x \in Listed \/ x = id
  BY <1>1, <1>2 DEF Listed, m
<1>3. ASSUME NEW x, x \in Listed PROVE x \in Listed'
  BY <1>1, <1>3 DEF Listed
<1>4. id \in Listed'
  BY <1>1 DEF Listed
<1> QED
  BY <1>2, <1>3, <1>4

\* One compaction at a time is inside Compactor.mu.
LEMMA OneInside ==
    ASSUME ControlIInv, NEW c \in Compactor, NEW d \in Compactor,
           at[c] \in Section, at[d] \in Section
    PROVE  c = d
  BY TypeParts DEF ControlIInv, Placed

\* What a compaction has made and is about to use: different ids, both given out.
LEMMA Makes ==
    ASSUME ControlIInv, RefsIInv, NEW c \in Compactor, at[c] \in Section
    PROVE  /\ held[c] \in DOMAIN blocks /\ blocks[held[c]].pts \subseteq Sample
           /\ work[c].new \in 0..(nextBlock - 1) /\ work[c].new \in Int
           /\ held[c] \in Int /\ c \in Actor
<1>1. held[c] \in DOMAIN blocks /\ blocks[held[c]] \in Block
  BY SourceOf DEF ControlIInv
<1>2. work[c].new \in 0..(nextBlock - 1) /\ nextBlock \in Nat
  BY IdsBounded DEF ControlIInv, TypeIInv
<1> QED
  BY <1>1, <1>2, IdsBounded DEF Block, RefsIInv, ControlIInv

\* The step of a sample is reached when its block is swept.
LEMMA SweptSteps ==
    ASSUME NEW b \in Block, b.pts # {}, NEW n \in Nat, Max(Times(b)) <= n
    PROVE  \A p \in b.pts : StepOf(TS[p]) <= n
<1>1. /\ Max(Times(b)) \in Nat /\ \A t \in Times(b) : t \in Nat /\ t <= Max(Times(b))
      /\ \A p \in b.pts : \E t \in Times(b) : StepOf(TS[p]) <= t
  BY TimesOf, BlocksConstants
<1>2. \A p \in b.pts : StepOf(TS[p]) \in Nat
  <2>1. \A p \in b.pts : TS[p] \in Nat
    BY BlocksConstants DEF Block
  <2> QED
    BY <2>1, StepDivides
<1> QED
  BY <1>1, <1>2

\* A step that neither stores nor lists a block, and marks the result only when it
\* is swept.
LEMMA ReplacesStays ==
    ASSUME ControlIInv, RefsIInv, RefsIInv', NEW c \in Compactor, at[c] \in {"created", "added"},
           Replaces(c), Lasts,
           \/ work[c].new \in DOMAIN blocks' =>
                 blocks'[work[c].new].archived = blocks[work[c].new].archived
           \/ \A p \in blocks[held[c]].pts : StepOf(TS[p]) <= cutoff',
           Listed' = Listed, adding'.id \in {0, adding.id}, work[c].new # 0,
           cutoff \in Nat, cutoff' \in Nat, cutoff <= cutoff',
           at'[c] = at[c], held'[c] = held[c], work'[c] = work[c]
    PROVE  Replaces(c)'
<1> DEFINE new == work[c].new
           src == held[c]
<1>1. src \in DOMAIN blocks /\ src \in DOMAIN blocks' /\ blocks[src].pts \subseteq Sample
  <2>1. held'[c] \in DOMAIN blocks'
    <3>1. \A a \in Actor : held'[a] # 0 => held'[a] \in DOMAIN blocks'
      BY DEF RefsIInv, RefsExact
    <3>2. held[c] # 0
      BY RefsParts DEF Actor, Holding
    <3> QED
      BY <3>1, <3>2 DEF Actor
  <2> QED
    BY <2>1, Makes DEF Section
<1>2. blocks'[src].pts = blocks[src].pts
  BY <1>1 DEF Lasts
<1>3. new \in DOMAIN blocks' => /\ new \in DOMAIN blocks /\ blocks'[new].pts = blocks[new].pts
                                /\ blocks'[new].coarse = blocks[new].coarse
  BY DEF Lasts
<1>4. \A p \in Sample : StepOf(TS[p]) \in Nat
  BY BlocksConstants, StepDivides
<1>5. \/ new \in DOMAIN blocks' /\ ~blocks'[new].archived
      \/ \A p \in blocks[src].pts : StepOf(TS[p]) <= cutoff'
  <2>1. CASE \A p \in blocks[src].pts : StepOf(TS[p]) <= cutoff
    BY <1>1, <1>4, <2>1
  <2>2. CASE new \in DOMAIN blocks /\ ~blocks[new].archived
    BY <2>2 DEF Lasts
  <2> QED
    BY <2>1, <2>2 DEF Replaces
<1> QED
  BY <1>2, <1>3, <1>5 DEF Replaces

LEMMA InitWork == Init => WorkIInv
<1> SUFFICES ASSUME Init PROVE WorkIInv
  OBVIOUS
<1>1. Listed = {}
  BY DEF Init, S!ShardsInit, S!FirstShards, Listed
<1> QED
  BY <1>1 DEF Init, WorkIInv, Actor

LEMMA AsideWork ==
    ASSUME ControlIInv, RefsIInv, RefsIInv', WorkIInv, Aside
    PROVE  WorkIInv'
<1>1. Listed' = Listed /\ nextBlock' = nextBlock /\ fresh' = fresh /\ adding' = adding
  BY QuietListed DEF Aside
<1>2. \A id \in DOMAIN blocks' : blocks'[id].pts \cap fresh' = {}
  BY <1>1 DEF WorkIInv, Aside, Lasts
<1>3. ASSUME NEW c \in Compactor, at'[c] \in {"created", "added"} PROVE Replaces(c)'
  <2>1. at'[c] = at[c] /\ held'[c] = held[c] /\ work'[c] = work[c]
    BY <1>3 DEF Aside, Making
  <2>2. Replaces(c) /\ work[c].new # 0
    BY <1>3, <2>1, TypeParts DEF WorkIInv, ControlIInv, Placed
  <2>3. cutoff \in Nat /\ cutoff' \in Nat /\ cutoff <= cutoff'
    BY DEF Aside, ControlIInv, TypeIInv
  <2>4. /\ work[c].new \in DOMAIN blocks' =>
              blocks'[work[c].new].archived = blocks[work[c].new].archived
        /\ Lasts /\ adding'.id \in {0, adding.id} /\ at[c] \in {"created", "added"}
    BY <1>1, <1>3, <2>1 DEF Aside, Unmarked
  <2> QED
    BY <1>1, <2>1, <2>2, <2>3, <2>4, ReplacesStays
<1> QED
  BY <1>1, <1>2, <1>3 DEF WorkIInv

LEMMA FlushCreateWork ==
    ASSUME ControlIInv, RefsIInv, WorkIInv, NEW P \in SUBSET Sample, FlushCreate(P)
    PROVE  WorkIInv'
<1>1. /\ Stores(P, FALSE) /\ fresh' = fresh \ P /\ P \subseteq fresh /\ adding'.id = nextBlock
      /\ UNCHANGED <<at, held, work, cutoff>>
  BY FlushCreateStores DEF FlushCreate
<1>2. Listed' = Listed
  BY OthersQuiet, QuietListed DEF ControlIInv
<1>3. \A id \in DOMAIN blocks' : blocks'[id].pts \cap fresh' = {}
  BY <1>1 DEF WorkIInv, Stores
<1>4. ASSUME NEW c \in Compactor, at'[c] \in {"created", "added"} PROVE Replaces(c)'
  <2>1. Replaces(c) /\ at[c] \in Section
    BY <1>1, <1>4 DEF WorkIInv, Section
  <2>2. work[c].new # nextBlock /\ held[c] \in DOMAIN blocks
    BY <1>1, <2>1, Makes DEF Stores
  <2> QED
    BY <1>1, <1>2, <2>1, <2>2 DEF Replaces, Stores
<1>5. Listed' \subseteq 1..(nextBlock' - 1)
  BY <1>1, <1>2 DEF WorkIInv, Stores
<1> QED
  BY <1>3, <1>4, <1>5 DEF WorkIInv

LEMMA FlushAddWork ==
    ASSUME ControlIInv, RefsIInv, WorkIInv, FlushAdd
    PROVE  WorkIInv'
<1>1. /\ UNCHANGED <<blocks, nextBlock, fresh, at, held, work, cutoff>> /\ adding'.id = 0
      /\ adding.id \in 1..(nextBlock - 1)
  BY DEF FlushAdd, storeVars, NoFlush, ControlIInv, TypeIInv
<1>2. Listed' = Listed \/ Listed' = Listed \cup {adding.id}
  BY FlushAddShards, QuietListed, ListsListed DEF ControlIInv
<1>3. ASSUME NEW c \in Compactor, at'[c] \in {"created", "added"} PROVE Replaces(c)'
  <2>1. Replaces(c) /\ work[c].new # 0
    BY <1>1, <1>3, TypeParts DEF WorkIInv, ControlIInv, Placed
  <2> QED
    BY <1>1, <1>2, <2>1 DEF Replaces
<1> QED
  BY <1>1, <1>2, <1>3 DEF WorkIInv

LEMMA CompactOpensWork ==
    ASSUME ControlIInv, RefsIInv, RefsIInv', WorkIInv, NEW c \in Compactor, CompactOpens(c)
    PROVE  WorkIInv'
<1>1. /\ UNCHANGED <<shardVars, nextBlock, fresh, adding>> /\ Acquired(c, work[c].src)
      /\ at' = [at EXCEPT ![c] = "opened"] /\ cmu = "none" /\ c \in Actor
  BY DEF CompactOpens, CompactOpen, Opens, Goto, Actor
<1>2. Listed' = Listed /\ Lasts
  BY <1>1, AcquiredLasts DEF shardVars, Listed, CompactOpens
<1>3. \A d \in Compactor : at[d] \notin Section /\ d \in Actor
  BY <1>1, TypeParts, IdsBounded DEF ControlIInv, Placed
<1>4. \A d \in Compactor : at'[d] \notin {"created", "added"}
  BY <1>1, <1>3 DEF RefsIInv, Section
<1> QED
  BY <1>1, <1>2, <1>4 DEF WorkIInv, Lasts

LEMMA CompactCreateWork ==
    ASSUME ControlIInv, RefsIInv, WorkIInv, NEW c \in Compactor, CompactCreate(c)
    PROVE  WorkIInv'
<1>1. /\ at[c] = "opened" /\ at' = [at EXCEPT ![c] = "created"] /\ c \in Actor
      /\ work' = [work EXCEPT ![c].new = nextBlock]
      /\ UNCHANGED <<shardVars, held, fresh, adding, cutoff>>
      /\ Stores(blocks[held[c]].pts, TRUE) /\ held[c] \in DOMAIN blocks
  BY CompactCreateStores, Makes DEF CompactCreate, Goto, Section
<1>2. Listed' = Listed
  BY <1>1 DEF shardVars, Listed
<1>3. ASSUME NEW d \in Compactor, at'[d] \in {"created", "added"} PROVE d = c
  <2>1. d # c => at'[d] = at[d]
    BY <1>1 DEF RefsIInv, Actor
  <2> QED
    BY <1>1, <1>3, <2>1, OneInside DEF Section
<1>4. Replaces(c)'
  <2>1. at'[c] = "created" /\ work'[c].new = nextBlock /\ held'[c] = held[c]
    BY <1>1 DEF RefsIInv, ControlIInv, TypeIInv
  <2>2. nextBlock \notin Listed /\ nextBlock # adding.id /\ nextBlock # held[c]
    BY <1>1 DEF Stores, WorkIInv, ControlIInv, TypeIInv, NoFlush
  <2> QED
    BY <1>1, <1>2, <2>1, <2>2 DEF Replaces, Stores
<1>5. \A id \in DOMAIN blocks' : blocks'[id].pts \cap fresh' = {}
  BY <1>1 DEF Stores, WorkIInv
<1>6. Listed' \subseteq 1..(nextBlock' - 1)
  BY <1>1, <1>2 DEF Stores, WorkIInv
<1> QED
  BY <1>3, <1>4, <1>5, <1>6 DEF WorkIInv

LEMMA CompactAddWork ==
    ASSUME ControlIInv, RefsIInv, WorkIInv, NEW c \in Compactor, CompactAdd(c)
    PROVE  WorkIInv'
<1>1. /\ at[c] = "created" /\ at' = [at EXCEPT ![c] = "added"] /\ c \in Actor
      /\ UNCHANGED <<blocks, nextBlock, held, fresh, adding, work, cutoff>>
  BY DEF CompactAdd, Goto, Actor, storeVars
<1>2. Listed' = Listed \cup {work[c].new} /\ work[c].new \in 1..(nextBlock - 1)
  BY CompactAddShards, ListsListed DEF ControlIInv
<1>3. ASSUME NEW d \in Compactor, at'[d] \in {"created", "added"} PROVE d = c
  <2>1. d # c => at'[d] = at[d]
    BY <1>1 DEF RefsIInv, Actor
  <2> QED
    BY <1>1, <1>3, <2>1, OneInside DEF Section
<1>4. Replaces(c)'
  <2>1. Replaces(c) /\ at'[c] = "added"
    BY <1>1 DEF WorkIInv, RefsIInv
  <2> QED
    BY <1>1, <1>2, <2>1 DEF Replaces
<1> QED
  BY <1>1, <1>2, <1>3, <1>4 DEF WorkIInv

\* A compaction that leaves the moment in which its result and its source are
\* both there.
LEMMA CompactEndsWork ==
    ASSUME ControlIInv, RefsIInv, WorkIInv, NEW c \in Compactor, CompactFail(c) \/ CompactArchive(c)
    PROVE  WorkIInv'
<1>1. /\ at[c] \in Section /\ c \in Actor
      /\ UNCHANGED <<shardVars, nextBlock, fresh, adding>>
  BY DEF CompactFail, CompactArchive, Section, Actor
<1>2. PICK place \in {"idle", "archived"} : at' = [at EXCEPT ![c] = place]
  BY DEF CompactFail, CompactArchive, LeaveTo, Goto
<1>3. Lasts
  BY ClosedLasts, ArchiveLasts DEF CompactFail, CompactArchive
<1>4. ASSUME NEW d \in Compactor PROVE at'[d] \notin {"created", "added"}
  <2>1. d # c => at'[d] = at[d]
    BY <1>2 DEF RefsIInv, Actor
  <2>2. at'[c] = place
    BY <1>1, <1>2 DEF RefsIInv
  <2> QED
    BY <1>1, <2>1, <2>2, OneInside DEF Section
<1>5. Listed' = Listed
  BY <1>1 DEF shardVars, Listed
<1> QED
  BY <1>1, <1>3, <1>4, <1>5 DEF WorkIInv, Lasts

\* A sweep marks a block when the step of each of its samples is reached.
LEMMA SweepMarks ==
    ASSUME ControlIInv, RefsIInv, SweepMark
    PROVE  /\ Lasts /\ DOMAIN blocks' = DOMAIN blocks
           /\ UNCHANGED <<shardVars, nextBlock, fresh, adding, work, cutoff>>
           /\ \A c \in Compactor : at'[c] = at[c] /\ held'[c] = held[c]
           /\ \A id \in DOMAIN blocks : \/ blocks'[id].archived = blocks[id].archived
                                        \/ \A p \in blocks[id].pts : StepOf(TS[p]) <= cutoff
<1> DEFINE b == held["sweep"]
<1>1. /\ at["sweep"] = "peek" /\ "sweep" \in Actor
      /\ UNCHANGED <<shardVars, nextBlock, fresh, adding, work, cutoff>>
  BY DEF SweepMark, Actor
<1>2. b \in DOMAIN blocks
  BY <1>1, RefsParts DEF RefsIInv, RefsExact, Holding
<1>3. blocks[b] \in Block /\ blocks[b].pts # {} /\ cutoff \in Nat
  BY <1>2 DEF RefsIInv, ControlIInv, TypeIInv
<1>4. \A c \in Compactor : at'[c] = at[c] /\ held'[c] = held[c]
  BY SweepIsApart DEF SweepStep, ControlIInv
<1>5. CASE Max(Times(blocks[b])) <= cutoff /\ blocks' = Archive(Closed(blocks, "sweep"), b)
  <2>1. \A p \in blocks[b].pts : StepOf(TS[p]) <= cutoff
    BY <1>3, <1>5, SweptSteps
  <2> QED
    BY <1>1, <1>4, <1>5, <2>1, ArchiveLasts
<1>6. CASE blocks' = Closed(blocks, "sweep")
  BY <1>1, <1>4, <1>6, ClosedLasts DEF Unmarked
<1> QED
  BY <1>5, <1>6 DEF SweepMark

LEMMA SweepMarkWork ==
    ASSUME ControlIInv, RefsIInv, RefsIInv', WorkIInv, SweepMark
    PROVE  WorkIInv'
<1>1. /\ Lasts /\ DOMAIN blocks' = DOMAIN blocks
      /\ UNCHANGED <<shardVars, nextBlock, fresh, adding, work, cutoff>>
      /\ \A c \in Compactor : at'[c] = at[c] /\ held'[c] = held[c]
  BY SweepMarks
<1>2. Listed' = Listed
  BY <1>1 DEF shardVars, Listed
<1>3. ASSUME NEW c \in Compactor, at'[c] \in {"created", "added"} PROVE Replaces(c)'
  <2>1. Replaces(c) /\ work[c].new # 0 /\ at[c] \in {"created", "added"}
    BY <1>1, <1>3, TypeParts DEF WorkIInv, ControlIInv, Placed
  <2>2. cutoff \in Nat /\ cutoff' \in Nat /\ cutoff <= cutoff'
    BY <1>1 DEF ControlIInv, TypeIInv
  <2>3. \/ work[c].new \in DOMAIN blocks' =>
              blocks'[work[c].new].archived = blocks[work[c].new].archived
        \/ \A p \in blocks[held[c]].pts : StepOf(TS[p]) <= cutoff'
    <3>1. work[c].new \in DOMAIN blocks => blocks[work[c].new].pts = blocks[held[c]].pts
      BY <2>1 DEF Replaces
    <3> QED
      BY <1>1, <3>1, SweepMarks
  <2>4. adding'.id \in {0, adding.id} /\ at'[c] = at[c] /\ held'[c] = held[c] /\ work'[c] = work[c]
    BY <1>1
  <2> QED
    BY <1>1, <1>2, <2>1, <2>2, <2>3, <2>4, ReplacesStays
<1>4. \A id \in DOMAIN blocks' : blocks'[id].pts \cap fresh' = {}
  BY <1>1 DEF WorkIInv, Lasts
<1> QED
  BY <1>1, <1>2, <1>3, <1>4 DEF WorkIInv

LEMMA NextWork ==
    ASSUME ControlIInv, RefsIInv, RefsIInv', WorkIInv, [Next]_vars
    PROVE  WorkIInv'
  BY StepKinds, AsideWork, FlushCreateWork, FlushAddWork, CompactOpensWork, CompactCreateWork,
     CompactAddWork, CompactEndsWork, SweepMarkWork

\* What a compaction has made holds what its source held, or a sweep has reached
\* all of it; and ids of listed blocks have been given out.
THEOREM WorkInductive == Spec => []WorkIInv
<1>1. ControlIInv /\ RefsIInv /\ RefsIInv' /\ WorkIInv /\ [Next]_vars => WorkIInv'
  BY NextWork
<1> QED
  BY <1>1, InitWork, ControlInductive, RefsInductive, PTL DEF Spec

\* A step after which the blocks that showed a sample still do.
LEMMA ShowsOn ==
    ASSUME Listed \subseteq Listed', NEW p, NEW id \in Showing(p), id \in DOMAIN blocks',
           blocks'[id].pts = blocks[id].pts, blocks'[id].archived = blocks[id].archived
    PROVE  id \in Showing(p)'
  BY DEF Showing, Opens

Goes(p) == Showing(p) # {} => Showing(p)' # {} \/ StepOf(TS[p]) <= cutoff

LEMMA StaysShowing ==
    ASSUME Lasts, Unmarked, Listed \subseteq Listed', NEW p
    PROVE  Goes(p)
<1> SUFFICES ASSUME NEW id \in Showing(p) PROVE id \in Showing(p)'
  BY DEF Goes
<1>1. id \in DOMAIN blocks /\ ~blocks[id].archived
  BY DEF Showing, Opens
<1>2. id \in DOMAIN blocks'
  BY <1>1 DEF Lasts
<1> QED
  BY <1>2, ShowsOn DEF Lasts, Unmarked

LEMMA StoresShowing ==
    ASSUME NEW P, NEW coarse, Stores(P, coarse), Listed' = Listed, NEW p
    PROVE  Goes(p)
<1> SUFFICES ASSUME NEW id \in Showing(p) PROVE id \in Showing(p)'
  BY DEF Goes
<1>1. id \in DOMAIN blocks
  BY DEF Showing, Opens
<1> QED
  BY <1>1, ShowsOn DEF Stores

\* The source of a compaction is archived: the result shows its samples, unless
\* they were swept meanwhile.
LEMMA ArchiveShowing ==
    ASSUME ControlIInv, RefsIInv, WorkIInv, NEW c \in Compactor, CompactArchive(c), NEW p
    PROVE  Goes(p)
<1>1. /\ at[c] = "added" /\ UNCHANGED shardVars /\ blocks' = Archive(blocks, held[c])
      /\ held[c] \in DOMAIN blocks
  BY Makes DEF CompactArchive, Section
<1>2. /\ Listed' = Listed /\ DOMAIN blocks' = DOMAIN blocks /\ Lasts
      /\ \A i \in DOMAIN blocks : i # held[c] => blocks'[i].archived = blocks[i].archived
  BY <1>1, ArchiveLasts DEF shardVars, Listed
<1> SUFFICES ASSUME NEW id \in Showing(p), ~(StepOf(TS[p]) <= cutoff)
             PROVE  Showing(p)' # {}
  BY DEF Goes
<1>3. id \in DOMAIN blocks /\ id \in Listed /\ p \in blocks[id].pts
  BY DEF Showing, Opens
<1>4. CASE id # held[c]
  BY <1>2, <1>3, <1>4, ShowsOn DEF Lasts
<1>5. CASE id = held[c]
  <2> DEFINE new == work[c].new
  <2>1. /\ new # held[c] /\ new \in DOMAIN blocks /\ ~blocks[new].archived
        /\ blocks[new].pts = blocks[held[c]].pts /\ new \in Listed
    BY <1>1, <1>3, <1>5 DEF WorkIInv, Replaces
  <2>2. new \in Showing(p)
    BY <1>3, <1>5, <2>1 DEF Showing, Opens
  <2> QED
    BY <1>2, <2>1, <2>2, ShowsOn DEF Lasts
<1> QED
  BY <1>4, <1>5

LEMMA SweepMarkShowing ==
    ASSUME ControlIInv, RefsIInv, SweepMark, NEW p
    PROVE  Goes(p)
<1>1. /\ Lasts /\ DOMAIN blocks' = DOMAIN blocks /\ UNCHANGED shardVars
      /\ \A id \in DOMAIN blocks : \/ blocks'[id].archived = blocks[id].archived
                                   \/ \A q \in blocks[id].pts : StepOf(TS[q]) <= cutoff
  BY SweepMarks
<1>2. Listed' = Listed
  BY <1>1 DEF shardVars, Listed
<1> SUFFICES ASSUME NEW id \in Showing(p), ~(StepOf(TS[p]) <= cutoff)
             PROVE  Showing(p)' # {}
  BY DEF Goes
<1>3. id \in DOMAIN blocks /\ p \in blocks[id].pts
  BY DEF Showing, Opens
<1>4. blocks'[id].archived = blocks[id].archived
  BY <1>1, <1>3
<1> QED
  BY <1>1, <1>2, <1>3, <1>4, ShowsOn DEF Lasts

LEMMA NextShowing ==
    ASSUME ControlIInv, RefsIInv, WorkIInv, [Next]_vars, NEW p
    PROVE  Goes(p)
<1>1. CASE Aside
  BY <1>1, QuietListed, StaysShowing DEF Aside
<1>2. ASSUME NEW P \in SUBSET Sample, FlushCreate(P) PROVE Goes(p)
  BY <1>2, FlushCreateStores, OthersQuiet, QuietListed, StoresShowing DEF ControlIInv
<1>3. CASE FlushAdd
  <2>1. Listed \subseteq Listed'
    BY <1>3, FlushAddShards, QuietListed, ListsListed DEF ControlIInv
  <2> QED
    BY <1>3, <2>1, SameLasts, StaysShowing DEF FlushAdd, storeVars
<1>4. ASSUME NEW c \in Compactor, CompactOpens(c) \/ CompactFail(c) PROVE Goes(p)
  <2>1. UNCHANGED shardVars
    BY <1>4 DEF CompactOpens, CompactOpen, CompactFail
  <2>2. Listed' = Listed
    BY <2>1 DEF shardVars, Listed
  <2>3. blocks' = Closed(blocks, c) \/ (Opens(work[c].src) /\ Acquired(c, work[c].src))
    BY <1>4 DEF CompactOpens, CompactOpen, CompactFail, Opens
  <2>4. Lasts /\ Unmarked
    BY <2>3, AcquiredLasts, ClosedLasts
  <2> QED
    BY <2>2, <2>4, StaysShowing
<1>5. ASSUME NEW c \in Compactor, CompactCreate(c) PROVE Goes(p)
  <2>1. Listed' = Listed
    BY <1>5 DEF CompactCreate, shardVars, Listed
  <2> QED
    BY <1>5, <2>1, CompactCreateStores, StoresShowing
<1>6. ASSUME NEW c \in Compactor, CompactAdd(c) PROVE Goes(p)
  <2>1. Listed \subseteq Listed'
    BY <1>6, CompactAddShards, ListsListed DEF ControlIInv
  <2> QED
    BY <1>6, <2>1, SameLasts, StaysShowing DEF CompactAdd, storeVars
<1> QED
  BY <1>1, <1>2, <1>3, <1>4, <1>5, <1>6, StepKinds, ArchiveShowing, SweepMarkShowing

\* No step of flushes, compactions (that fail or not), sweeps, rotations and
\* queries makes a sample that shows vanish before a cutoff has reached its step
\* (NeverVanishes), wrapped windows or not.
THEOREM NeverVanishesHolds == Spec => NeverVanishes
<1> DEFINE A == \A p \in Sample :
                    Showing(p) # {} => Showing(p)' # {} \/ StepOf(TS[p]) <= cutoff
<1>1. ControlIInv /\ RefsIInv /\ WorkIInv /\ [Next]_vars => [A]_vars
  BY NextShowing DEF Goes
<1> QED
  BY <1>1, ControlInductive, RefsInductive, WorkInductive, PTL DEF Spec, NeverVanishes

-----------------------------------------------------------------------------
(* Windows and downsampling steps. *)

\* The configurations in which the starts of steps stay inside the window.
Divides == Window % Step = 0

LEMMA StepQuotient ==
    ASSUME NEW t \in Nat
    PROVE  /\ t \div Step \in Nat /\ t % Step \in 0..(Step - 1)
           /\ t = Step * (t \div Step) + (t % Step)
  BY BlocksConstants

\* The start of a step is not before a window that the step divides.
LEMMA StepInside ==
    ASSUME Divides, NEW e \in Nat, NEW k \in Int, e = k * Window, NEW t \in Nat, e <= t
    PROVE  e <= StepOf(t)
<1> DEFINE n == Window \div Step
           q == t \div Step
           j == k * n
<1>1. Window = Step * n /\ n \in Nat /\ Step \in Nat /\ Step > 0 /\ Window \in Nat
  BY StepQuotient, BlocksConstants DEF Divides
<1>2. t = Step * q + (t % Step) /\ q \in Nat /\ t % Step \in 0..(Step - 1)
  BY StepQuotient
<1>3. StepOf(t) = Step * q
  BY <1>1, <1>2 DEF StepOf
<1> HIDE DEF n, q
<1>4. e = Step * j /\ j \in Int
  <2>1. k * (Step * n) = Step * (k * n)
    BY <1>1
  <2> QED
    BY <1>1, <2>1
<1> HIDE DEF j
<1>5. Step * j < Step * (q + 1)
  <2>1. Step * (q + 1) = Step * q + Step
    BY <1>1, <1>2
  <2> QED
    BY <1>1, <1>2, <1>4, <2>1
<1>6. j <= q
  <2> SUFFICES ASSUME j >= q + 1 PROVE FALSE
    BY <1>2, <1>4
  <2>1. j - (q + 1) \in Nat
    BY <1>2, <1>4
  <2>2. Step * (j - (q + 1)) >= 0
    BY <1>1, <2>1
  <2>3. Step * (j - (q + 1)) = Step * j - Step * (q + 1)
    BY <1>1, <1>2, <1>4
  <2>4. Step * j \in Int /\ Step * (q + 1) \in Int
    BY <1>1, <1>2, <1>4
  <2> QED
    BY <1>5, <2>2, <2>3, <2>4
<1>7. Step * (q - j) >= 0
  <2>1. q - j \in Nat
    BY <1>2, <1>4, <1>6
  <2> QED
    BY <1>1, <2>1
<1>8. Step * (q - j) = Step * q - Step * j
  BY <1>1, <1>2, <1>4
<1>9. Step * q \in Int /\ Step * j \in Int
  BY <1>1, <1>2, <1>4
<1> QED
  BY <1>3, <1>4, <1>7, <1>8, <1>9

\* What the windows are until one wraps.
LEMMA Windows ==
    ASSUME SP!ShardsIInv, S!NoneWrapped
    PROVE  /\ Len(shards) \in DOMAIN shards /\ S!Last = shards[Len(shards)]
           /\ \A i \in DOMAIN shards :
                 /\ shards[i].start \in Nat /\ shards[i].end \in Int
                 /\ \E k \in Int : shards[i].start = k * Window
                 /\ i # Len(shards) => shards[i].end <= S!Last.start
<1>1. SP!Known
  BY ConstantsOfShards, SP!WindowsKnown
<1>2. SP!NoneWrapped /\ S!Last = SP!Last
  BY SameShards
<1>3. Len(shards) \in DOMAIN shards /\ SP!Last = shards[Len(shards)]
  BY <1>1 DEF SP!Known
<1>4. ASSUME NEW i \in DOMAIN shards
      PROVE  /\ shards[i].start \in Nat /\ shards[i].end \in Int
             /\ \E k \in Int : shards[i].start = k * Window
             /\ i # Len(shards) => shards[i].end <= SP!Last.start
  BY <1>1, <1>2 DEF SP!Known, SP!Multiple
<1> QED
  BY <1>2, <1>3, <1>4

\* A shard that covers the samples of a block covers its points.
LEMMA CoversPoints ==
    ASSUME Divides, SP!ShardsIInv, S!NoneWrapped, NEW i \in DOMAIN shards,
           NEW b \in Block, \A p \in b.pts : S!Covers(shards[i], TS[p])
    PROVE  \A t \in Times(b) : S!Covers(shards[i], t)
<1>1. /\ shards[i].start \in Nat /\ shards[i].end \in Int
      /\ \E k \in Int : shards[i].start = k * Window
  BY Windows
<1>2. ASSUME NEW p \in b.pts PROVE S!Covers(shards[i], StepOf(TS[p])) /\ S!Covers(shards[i], TS[p])
  <2>1. TS[p] \in Nat
    BY BlocksConstants DEF Block
  <2>2. shards[i].start <= TS[p] /\ TS[p] < shards[i].end
    BY DEF S!Covers
  <2>3. shards[i].start <= StepOf(TS[p])
    BY <1>1, <2>1, <2>2, StepInside
  <2>4. StepOf(TS[p]) \in 0..TS[p]
    BY <2>1, StepDivides
  <2> QED
    BY <1>1, <2>1, <2>2, <2>3, <2>4 DEF S!Covers
<1> QED
  BY <1>2 DEF Times

\* A block with a point that is not before the newest window is of that window.
LEMMA InNewest ==
    ASSUME SP!ShardsIInv, S!NoneWrapped, NEW i \in DOMAIN shards,
           NEW t \in Nat, S!Covers(shards[i], t), S!Last.start <= t
    PROVE  i = Len(shards)
  BY Windows DEF S!Covers

\* The newest window moves on.
LEMMA NewestMovesOn ==
    ASSUME SP!ShardsIInv, SP!Kept, S!NoneWrapped'
    PROVE  /\ S!NoneWrapped
           /\ S!Last.start \in Int /\ S!Last'.start \in Int /\ S!Last.start <= S!Last'.start
<1>1. SP!Last.start \in Int /\ SP!Last'.start \in Int /\ SP!Last.start <= SP!Last'.start
  BY ConstantsOfShards, SameShardsNext, SP!LastMovesOn
<1>2. S!NoneWrapped
  BY SameShards, SameShardsNext DEF SP!Kept
<1> QED
  BY <1>1, <1>2, SameShards, SameShardsNext

\* The window of a block's samples stays.
LEMMA HousedStays ==
    ASSUME SP!Kept, NEW id, Housed(id), blocks'[id].pts = blocks[id].pts
    PROVE  Housed(id)'
  BY DEF Housed, SP!Kept, S!Covers

-----------------------------------------------------------------------------
(* No two blocks show a sample. *)

TwinOK(x, y) ==
    x # y /\ Alive(x) /\ Alive(y) /\ blocks[x].pts \cap blocks[y].pts # {} =>
        InCompaction(x, y) \/ \E id \in {x, y} : id \notin Listed /\ Late(id)

LEMMA NoTwinsIs == NoTwins <=> \A x, y \in DOMAIN blocks : TwinOK(x, y)
  BY DEF NoTwins, TwinOK

FlushFirst ==
    adding # NoFlush /\ adding.id \in DOMAIN blocks => adding.first = Min(Times(blocks[adding.id]))

LEMMA WindowParts ==
    WindowIInv <=>
        (S!NoneWrapped => (\A id \in DOMAIN blocks : Housed(id)) /\ FlushFirst /\ NoTwins)
  BY DEF WindowIInv, FlushFirst

LEMMA FirstIsTime ==
    ASSUME ControlIInv, RefsIInv
    PROVE  \A id \in DOMAIN blocks : /\ blocks[id] \in Block /\ blocks[id].pts # {}
                                     /\ blocks[id].pts \subseteq Sample
                                     /\ Min(Times(blocks[id])) \in 0..MaxInt
                                     /\ Min(Times(blocks[id])) \in Nat
<1> TAKE id \in DOMAIN blocks
<1>1. blocks[id] \in Block /\ blocks[id].pts # {}
  BY DEF RefsIInv, ControlIInv, TypeIInv
<1> QED
  BY <1>1, TimesOf, BlocksConstants DEF Block

\* Downsampling again, or at all, does not make the first point later.
LEMMA CoarserFirst ==
    ASSUME NEW a \in Block, NEW b \in Block, a.pts # {}, b.pts = a.pts, b.coarse
    PROVE  Min(Times(b)) <= Min(Times(a))
<1>1. /\ Min(Times(a)) \in Times(a) /\ \A t \in Times(b) : Min(Times(b)) <= t
      /\ Min(Times(b)) \in Nat /\ Min(Times(a)) \in Nat
  BY TimesOf, BlocksConstants
<1>2. PICK p \in a.pts : Min(Times(a)) = IF a.coarse THEN StepOf(TS[p]) ELSE TS[p]
  BY <1>1 DEF Times
<1>3. TS[p] \in Nat
  BY BlocksConstants DEF Block
<1>4. StepOf(TS[p]) \in Times(b)
  BY DEF Times
<1>5. StepOf(TS[p]) <= TS[p] /\ StepOf(TS[p]) \in Nat
  BY <1>3, StepDivides
<1> QED
  BY <1>1, <1>2, <1>3, <1>4, <1>5

LEMMA SameTimes ==
    ASSUME NEW id, blocks'[id].pts = blocks[id].pts, blocks'[id].coarse = blocks[id].coarse
    PROVE  Times(blocks'[id]) = Times(blocks[id])
  BY DEF Times

LEMMA HeldNext ==
    ASSUME RefsIInv', NEW c \in Compactor, at'[c] \in Section
    PROVE  held'[c] \in DOMAIN blocks'
<1>1. /\ \A a \in Actor : held'[a] # 0 => held'[a] \in DOMAIN blocks'
      /\ \A a \in Actor : held'[a] # 0 <=> at'[a] \in Holding
  BY DEF RefsIInv, RefsExact
<1> QED
  BY <1>1 DEF Actor, Section, Holding

\* No compaction comes to have a result that is not listed.
Resumes ==
    \A c \in Compactor : at'[c] = "created" =>
        at[c] = "created" /\ held'[c] = held[c] /\ work'[c] = work[c]

LEMMA LateStays ==
    ASSUME ControlIInv, RefsIInv, SP!Kept, S!NoneWrapped', NEW id \in DOMAIN blocks, Late(id),
           Times(blocks'[id]) = Times(blocks[id]),
           \A c \in Compactor : at'[c] = "created" /\ work'[c].new = id =>
               /\ at[c] = "created" /\ work[c].new = id
               /\ held'[c] = held[c] /\ Times(blocks'[held[c]]) = Times(blocks[held[c]])
    PROVE  Late(id)'
<1>1. S!Last.start \in Int /\ S!Last'.start \in Int /\ S!Last.start <= S!Last'.start
  BY NewestMovesOn DEF ControlIInv
<1>2. Min(Times(blocks[id])) < S!Last'.start
  BY <1>1, FirstIsTime DEF Late
<1>3. ASSUME NEW c \in Compactor, at'[c] = "created", work'[c].new = id
      PROVE  Min(Times(blocks'[held'[c]])) < S!Last'.start
  <2>1. /\ at[c] = "created" /\ work[c].new = id /\ held'[c] = held[c]
        /\ Times(blocks'[held[c]]) = Times(blocks[held[c]])
    BY <1>3
  <2>2. Min(Times(blocks[held[c]])) \in Nat
    BY <2>1, FirstIsTime, Makes DEF Section
  <2>3. Min(Times(blocks[held[c]])) < S!Last.start
    BY <2>1 DEF Late
  <2>4. Min(Times(blocks[held[c]])) < S!Last'.start
    BY <1>1, <2>2, <2>3
  <2> QED
    BY <2>1, <2>4
<1> QED
  BY <1>2, <1>3 DEF Late

\* A step that stores no block.
LEMMA TwinsStay ==
    ASSUME ControlIInv, RefsIInv, RefsIInv', SP!Kept, S!NoneWrapped', NoTwins, Lasts, Resumes,
           \A id \in DOMAIN blocks' : Alive(id)' => Alive(id),
           \A id \in DOMAIN blocks' : id \notin Listed /\ Late(id) => id \notin Listed',
           \A x, y \in DOMAIN blocks' : InCompaction(x, y) /\ Alive(x)' /\ Alive(y)' =>
               InCompaction(x, y)' \/ \E id \in {x, y} : id \notin Listed' /\ Late(id)'
    PROVE  NoTwins'
<1> SUFFICES ASSUME NEW x \in DOMAIN blocks', NEW y \in DOMAIN blocks', x # y,
                    Alive(x)', Alive(y)', blocks'[x].pts \cap blocks'[y].pts # {}
             PROVE  InCompaction(x, y)' \/ \E id \in {x, y} : id \notin Listed' /\ Late(id)'
  BY DEF NoTwins
<1>1. /\ x \in DOMAIN blocks /\ y \in DOMAIN blocks
      /\ blocks'[x].pts = blocks[x].pts /\ blocks'[y].pts = blocks[y].pts
  BY DEF Lasts
<1>2. InCompaction(x, y) \/ \E id \in {x, y} : id \notin Listed /\ Late(id)
  BY <1>1 DEF NoTwins
<1>3. ASSUME NEW id \in {x, y}, id \notin Listed, Late(id)
      PROVE  id \notin Listed' /\ Late(id)'
  <2>1. id \in DOMAIN blocks /\ id \in DOMAIN blocks' /\ Times(blocks'[id]) = Times(blocks[id])
    BY <1>1, SameTimes DEF Lasts
  <2>2. ASSUME NEW c \in Compactor, at'[c] = "created", work'[c].new = id
        PROVE  /\ at[c] = "created" /\ work[c].new = id
               /\ held'[c] = held[c] /\ Times(blocks'[held[c]]) = Times(blocks[held[c]])
    <3>1. at[c] = "created" /\ work[c].new = id /\ held'[c] = held[c]
      BY <2>2 DEF Resumes
    <3>2. held[c] \in DOMAIN blocks'
      BY <2>2, <3>1, HeldNext DEF Section
    <3> QED
      BY <3>1, <3>2, SameTimes DEF Lasts
  <2>3. Late(id)'
    BY <1>3, <2>1, <2>2, LateStays
  <2> QED
    BY <1>3, <2>1, <2>3
<1> QED
  BY <1>2, <1>3

\* Nothing comes alive but by a new reference.
LEMMA AliveBefore ==
    ASSUME Lasts, NEW id \in DOMAIN blocks', Alive(id)',
           \A c \in Compactor : at'[c] \in Making /\ held'[c] = id =>
               \/ at[c] \in Making /\ held[c] = id
               \/ ~blocks[id].archived
    PROVE  Alive(id)
<1>1. id \in DOMAIN blocks /\ (~blocks'[id].archived => ~blocks[id].archived)
  BY DEF Lasts
<1> QED
  BY <1>1 DEF Alive, Making

LEMMA AsideTwins ==
    ASSUME ControlIInv, RefsIInv, RefsIInv', S!NoneWrapped', NoTwins, Aside
    PROVE  NoTwins'
<1>1. Lasts /\ SP!Kept /\ Listed' = Listed /\ Resumes
  BY QuietListed DEF Aside, Quiet, Resumes, Making
<1>2. \A id \in DOMAIN blocks' : Alive(id)' => Alive(id)
  BY <1>1, AliveBefore DEF Aside
<1>3. \A x, y \in DOMAIN blocks' : InCompaction(x, y) => InCompaction(x, y)'
  BY DEF InCompaction, Aside, Making
<1> QED
  BY <1>1, <1>2, <1>3, TwinsStay

LEMMA SweepMarkTwins ==
    ASSUME ControlIInv, RefsIInv, RefsIInv', SP!Kept, S!NoneWrapped', NoTwins, SweepMark
    PROVE  NoTwins'
<1>1. /\ Lasts /\ UNCHANGED <<shardVars, work>>
      /\ \A c \in Compactor : at'[c] = at[c] /\ held'[c] = held[c]
  BY SweepMarks
<1>2. Listed' = Listed /\ Resumes
  BY <1>1 DEF shardVars, Listed, Resumes
<1>3. \A id \in DOMAIN blocks' : Alive(id)' => Alive(id)
  BY <1>1, AliveBefore
<1>4. \A x, y \in DOMAIN blocks' : InCompaction(x, y) => InCompaction(x, y)'
  BY <1>1 DEF InCompaction
<1> QED
  BY <1>1, <1>2, <1>3, <1>4, TwinsStay

LEMMA FlushAddTwins ==
    ASSUME ControlIInv, RefsIInv, RefsIInv', SP!Kept, S!NoneWrapped', NoTwins, FlushFirst, FlushAdd
    PROVE  NoTwins'
<1>1. /\ UNCHANGED <<blocks, held, at, work>> /\ Lasts /\ adding # NoFlush
  BY SameLasts DEF FlushAdd, storeVars
<1>2. Resumes
  BY <1>1 DEF Resumes
<1>3. \A id \in DOMAIN blocks' : Alive(id)' => Alive(id)
  BY <1>1, AliveBefore
<1>4. \A x, y \in DOMAIN blocks' : InCompaction(x, y) => InCompaction(x, y)'
  BY <1>1 DEF InCompaction
<1>5. ASSUME NEW id \in DOMAIN blocks', id \notin Listed, Late(id) PROVE id \notin Listed'
  <2>1. CASE Quiet
    BY <1>5, <2>1, QuietListed
  <2>2. CASE Lists(adding.first, adding.id)
    <3>1. Listed' = Listed \cup {adding.id} /\ ~S!RouteRejects(adding.first)
      BY <2>2, ListsListed DEF Lists
    <3>2. S!Last.start \in Int /\ adding.first \in Nat
      BY NewestMovesOn, BlocksConstants, <1>1 DEF ControlIInv, TypeIInv
    <3>3. adding.first >= S!Last.start
      BY <3>1, <3>2 DEF S!RouteRejects, S!Covers
    <3>4. id # adding.id
      BY <1>1, <1>5, <3>2, <3>3 DEF FlushFirst, Late
    <3> QED
      BY <1>5, <3>1, <3>4
  <2> QED
    BY <2>1, <2>2, FlushAddShards DEF ControlIInv
<1> QED
  BY <1>1, <1>2, <1>3, <1>4, <1>5, TwinsStay

LEMMA CompactOpensTwins ==
    ASSUME ControlIInv, RefsIInv, RefsIInv', SP!Kept, S!NoneWrapped', NoTwins,
           NEW c \in Compactor, CompactOpens(c)
    PROVE  NoTwins'
<1>1. /\ UNCHANGED shardVars /\ Acquired(c, work[c].src) /\ Opens(work[c].src)
      /\ at' = [at EXCEPT ![c] = "opened"] /\ cmu = "none" /\ c \in Actor
  BY DEF CompactOpens, CompactOpen, Opens, Goto, Actor
<1>2. Listed' = Listed /\ Lasts
  BY <1>1, AcquiredLasts DEF shardVars, Listed
<1>3. \A d \in Compactor : at[d] \notin Section /\ d \in Actor
  BY <1>1, TypeParts, IdsBounded DEF ControlIInv, Placed
<1>4. /\ \A d \in Compactor : at'[d] \in Making => d = c
      /\ at'[c] = "opened" /\ held'[c] = work[c].src
  BY <1>1, <1>3 DEF RefsIInv, Section, Making, Acquired
<1>5. Resumes
  BY <1>4 DEF Resumes, Making
<1>6. \A id \in DOMAIN blocks' : Alive(id)' => Alive(id)
  BY <1>1, <1>2, <1>4, AliveBefore DEF Opens
<1>7. \A x, y \in DOMAIN blocks' : ~InCompaction(x, y)
  BY <1>3 DEF InCompaction, Section
<1> QED
  BY <1>2, <1>5, <1>6, <1>7, TwinsStay

LEMMA CompactAddTwins ==
    ASSUME ControlIInv, RefsIInv, RefsIInv', SP!Kept, S!NoneWrapped', NoTwins,
           NEW c \in Compactor, CompactAdd(c)
    PROVE  NoTwins'
<1>1. /\ UNCHANGED <<blocks, held, work>> /\ Lasts /\ at[c] = "created"
      /\ at' = [at EXCEPT ![c] = "added"] /\ c \in Actor
  BY SameLasts DEF CompactAdd, storeVars, Goto, Actor
<1>2. \A d \in Compactor : at'[d] = IF d = c THEN "added" ELSE at[d]
  BY <1>1 DEF RefsIInv, Actor
<1>3. Resumes
  BY <1>1, <1>2 DEF Resumes
<1>4. \A id \in DOMAIN blocks' : Alive(id)' => Alive(id)
  BY <1>1, <1>2, AliveBefore DEF Making
<1>5. \A x, y \in DOMAIN blocks' : InCompaction(x, y) => InCompaction(x, y)'
  BY <1>1, <1>2 DEF InCompaction
<1>6. ASSUME NEW id \in DOMAIN blocks', id \notin Listed, Late(id) PROVE id \notin Listed'
  <2> DEFINE t == Min(Times(blocks[held[c]]))
  <2>1. Lists(t, work[c].new)
    BY CompactAddShards DEF ControlIInv
  <2>2. t \in Nat /\ S!Last.start \in Int
    BY <1>1, FirstIsTime, Makes, NewestMovesOn DEF ControlIInv, Section
  <2>3. ~S!RouteRejects(t)
    BY <2>1 DEF Lists
  <2>4. id = work[c].new => t < S!Last.start
    BY <1>1, <1>6 DEF Late
  <2> HIDE DEF t
  <2>5. t >= S!Last.start
    BY <2>2, <2>3 DEF S!RouteRejects, S!Covers
  <2>6. Listed' = Listed \cup {work[c].new}
    BY <2>1, ListsListed
  <2> QED
    BY <1>6, <2>2, <2>4, <2>5, <2>6
<1> QED
  BY <1>1, <1>3, <1>4, <1>5, <1>6, TwinsStay

LEMMA CompactFailTwins ==
    ASSUME ControlIInv, RefsIInv, RefsIInv', WorkIInv, SP!Kept, S!NoneWrapped', NoTwins,
           NEW c \in Compactor, CompactFail(c)
    PROVE  NoTwins'
<1> DEFINE new == work[c].new
           src == held[c]
<1>1. /\ UNCHANGED shardVars /\ at[c] = "created" /\ blocks' = Closed(blocks, c)
      /\ at' = [at EXCEPT ![c] = "idle"] /\ held' = [held EXCEPT ![c] = 0]
      /\ work' = [work EXCEPT ![c] = NoWork] /\ c \in Actor
      /\ S!RouteRejects(Min(Times(blocks[src])))
  BY DEF CompactFail, LeaveTo, Goto, Actor
<1>2. Listed' = Listed /\ Lasts /\ S!Last' = S!Last /\ DOMAIN blocks' = DOMAIN blocks
  BY <1>1, ClosedLasts DEF shardVars, Listed, S!Last
<1>3. /\ \A d \in Compactor : at'[d] = IF d = c THEN "idle" ELSE at[d]
      /\ \A d \in Compactor : d # c => held'[d] = held[d] /\ work'[d] = work[d]
  BY <1>1, IdsBounded DEF RefsIInv, ControlIInv, TypeIInv
<1>4. \A d \in Compactor : at'[d] \in Making => d # c /\ at[d] \in Making /\ at'[d] = at[d]
  BY <1>3 DEF Making
<1>5. Resumes
  BY <1>3, <1>4 DEF Resumes, Making
<1>6. \A id \in DOMAIN blocks' : Alive(id)' => Alive(id)
  BY <1>2, <1>3, <1>4, AliveBefore
<1>7. \A d \in Compactor : at[d] \in {"created", "added"} => d = c
  BY <1>1, OneInside DEF Section
<1>8. ASSUME NEW x \in DOMAIN blocks', NEW y \in DOMAIN blocks', InCompaction(x, y)
      PROVE  \E id \in {x, y} : id \notin Listed' /\ Late(id)'
  <2>1. {x, y} = {src, new}
    BY <1>7, <1>8 DEF InCompaction
  <2>2. /\ new \in {x, y} /\ new \in DOMAIN blocks /\ src \in DOMAIN blocks
        /\ Times(blocks'[new]) = Times(blocks[new])
    BY <1>2, <2>1, SameTimes DEF Lasts
  <2>3. new \notin Listed /\ blocks[new].pts = blocks[src].pts /\ blocks[new].coarse
    BY <1>1, <2>2 DEF WorkIInv, Replaces
  <2>4. Min(Times(blocks[new])) <= Min(Times(blocks[src]))
    BY <2>2, <2>3, FirstIsTime, CoarserFirst
  <2>5. /\ Min(Times(blocks[src])) < S!Last.start /\ S!Last.start \in Int
        /\ Min(Times(blocks[src])) \in Nat /\ Min(Times(blocks[new])) \in Nat
    BY <1>1, <2>2, FirstIsTime, NewestMovesOn DEF S!RouteRejects, ControlIInv
  <2>6. Min(Times(blocks'[new])) < S!Last'.start
    BY <1>2, <2>2, <2>4, <2>5
  <2>7. \A d \in Compactor : at'[d] # "created"
    BY <1>4, <1>7 DEF Making
  <2> QED
    BY <1>2, <2>2, <2>3, <2>6, <2>7 DEF Late
<1> QED
  BY <1>2, <1>5, <1>6, <1>8, TwinsStay

LEMMA CompactArchiveTwins ==
    ASSUME ControlIInv, RefsIInv, RefsIInv', SP!Kept, S!NoneWrapped', NoTwins,
           NEW c \in Compactor, CompactArchive(c), NEW src, src = held[c]
    PROVE  NoTwins'
<1>1. /\ UNCHANGED <<shardVars, held, work>> /\ at[c] = "added"
      /\ blocks' = Archive(blocks, held[c])
      /\ at' = [at EXCEPT ![c] = "archived"] /\ c \in Actor /\ held[c] \in DOMAIN blocks
  BY Makes DEF CompactArchive, Goto, Section
<1>2. Listed' = Listed /\ Lasts
  BY <1>1, ArchiveLasts DEF shardVars, Listed
<1>3. \A d \in Compactor : at'[d] = IF d = c THEN "archived" ELSE at[d]
  BY <1>1, IdsBounded DEF RefsIInv
<1>4. \A d \in Compactor : at'[d] \in Making => d # c /\ at[d] \in Making /\ at'[d] = at[d]
  BY <1>3 DEF Making
<1>5. Resumes
  BY <1>1, <1>4 DEF Resumes, Making
<1>6. \A id \in DOMAIN blocks' : Alive(id)' => Alive(id)
  BY <1>1, <1>2, <1>4, AliveBefore
<1>7. \A d \in Compactor : at[d] \in Section => d = c
  BY <1>1, OneInside DEF Section
<1>8. ~Alive(src)'
  <2>1. blocks'[src].archived
    BY <1>1 DEF Archive, RefsIInv, Block
  <2>2. \A d \in Compactor : at'[d] \notin Making
    BY <1>3, <1>7, <1>1 DEF Making, Section
  <2> QED
    BY <2>1, <2>2 DEF Alive, Making
<1>9. ASSUME NEW x \in DOMAIN blocks', NEW y \in DOMAIN blocks', InCompaction(x, y)
      PROVE  ~Alive(x)' \/ ~Alive(y)'
  <2>1. src \in {x, y}
    BY <1>7, <1>9 DEF InCompaction, Section
  <2> QED
    BY <1>8, <2>1
<1> QED
  BY <1>2, <1>5, <1>6, <1>9, TwinsStay

\* Of two blocks that were there before a step that stores a third.
LEMMA OldTwins ==
    ASSUME ControlIInv, RefsIInv, SP!Kept, S!NoneWrapped', NoTwins, NEW P, NEW coarse,
           Stores(P, coarse), Listed' = Listed,
           \A c \in Compactor :
               /\ at'[c] \in Making => at[c] \in Making /\ held'[c] = held[c]
               /\ at'[c] = "created" =>
                     (at[c] = "created" /\ work'[c] = work[c]) \/ work'[c].new = nextBlock,
           \A x, y \in DOMAIN blocks : InCompaction(x, y) => InCompaction(x, y)',
           NEW x \in DOMAIN blocks, NEW y \in DOMAIN blocks
    PROVE  TwinOK(x, y)'
<1>1. \A id \in DOMAIN blocks : Alive(id)' => Alive(id)
  BY DEF Alive, Stores, Making
<1>2. /\ blocks'[x].pts = blocks[x].pts /\ blocks'[y].pts = blocks[y].pts
  BY DEF Stores
<1>3. ASSUME NEW id \in {x, y}, Late(id) PROVE Late(id)'
  <2>1. id \in DOMAIN blocks /\ id # nextBlock /\ Times(blocks'[id]) = Times(blocks[id])
    BY SameTimes DEF Stores
  <2>2. ASSUME NEW c \in Compactor, at'[c] = "created", work'[c].new = id
        PROVE  /\ at[c] = "created" /\ work[c].new = id
               /\ held'[c] = held[c] /\ Times(blocks'[held[c]]) = Times(blocks[held[c]])
    <3>1. at[c] = "created" /\ work[c].new = id /\ held'[c] = held[c]
      BY <2>1, <2>2 DEF Making
    <3>2. held[c] \in DOMAIN blocks
      BY <3>1, Makes DEF Section
    <3> QED
      BY <3>1, <3>2, SameTimes DEF Stores
  <2> QED
    BY <1>3, <2>1, <2>2, LateStays
<1> QED
  BY <1>1, <1>2, <1>3 DEF TwinOK, NoTwins

LEMMA FlushCreateTwins ==
    ASSUME ControlIInv, RefsIInv, WorkIInv, SP!Kept, S!NoneWrapped', NoTwins,
           NEW P \in SUBSET Sample, FlushCreate(P)
    PROVE  NoTwins'
<1>1. Stores(P, FALSE) /\ P \subseteq fresh /\ UNCHANGED <<at, held, work>>
  BY FlushCreateStores DEF FlushCreate
<1>2. Listed' = Listed
  BY OthersQuiet, QuietListed DEF ControlIInv
<1>3. \A x, y \in DOMAIN blocks : InCompaction(x, y) => InCompaction(x, y)'
  BY <1>1 DEF InCompaction
<1>4. \A x, y \in DOMAIN blocks : TwinOK(x, y)'
  BY <1>1, <1>2, <1>3, OldTwins
<1>5. \A y \in DOMAIN blocks : blocks'[nextBlock].pts \cap blocks'[y].pts = {}
  BY <1>1 DEF Stores, WorkIInv
<1>6. ASSUME NEW x \in DOMAIN blocks', NEW y \in DOMAIN blocks' PROVE TwinOK(x, y)'
  <2>1. CASE x \in DOMAIN blocks /\ y \in DOMAIN blocks
    BY <1>4, <2>1
  <2>2. CASE x = nextBlock \/ y = nextBlock
    <3>1. x = y \/ blocks'[x].pts \cap blocks'[y].pts = {}
      BY <1>1, <1>5, <2>2 DEF Stores
    <3> QED
      BY <3>1 DEF TwinOK
  <2> QED
    BY <1>1, <2>1, <2>2 DEF Stores
<1> QED
  BY <1>6 DEF NoTwins, TwinOK

LEMMA CompactCreateTwins ==
    ASSUME ControlIInv, RefsIInv, WorkIInv, SP!Kept, S!NoneWrapped', NoTwins,
           NEW c \in Compactor, CompactCreate(c),
           NEW src, src = held[c], NEW new, new = nextBlock
    PROVE  NoTwins'
<1>1. /\ at[c] = "opened" /\ at' = [at EXCEPT ![c] = "created"] /\ c \in Actor
      /\ work' = [work EXCEPT ![c].new = nextBlock]
      /\ UNCHANGED <<shardVars, held>>
      /\ Stores(blocks[src].pts, TRUE) /\ src \in DOMAIN blocks
  BY CompactCreateStores, Makes DEF CompactCreate, Goto, Section
<1>2. Listed' = Listed /\ S!Last' = S!Last
  BY <1>1 DEF shardVars, Listed, S!Last
<1>3. \A d \in Compactor : /\ at'[d] = IF d = c THEN "created" ELSE at[d]
                           /\ d # c => work'[d] = work[d]
                           /\ d = c => work'[d].new = nextBlock
  BY <1>1, IdsBounded DEF RefsIInv, ControlIInv, TypeIInv
<1>4. \A d \in Compactor : at[d] \in Section => d = c
  BY <1>1, OneInside DEF Section
<1>5. \A x, y : ~InCompaction(x, y)
  BY <1>1, <1>4 DEF InCompaction, Section
<1>6. \A x, y \in DOMAIN blocks : TwinOK(x, y)'
  <2>1. \A d \in Compactor :
            /\ at'[d] \in Making => at[d] \in Making /\ held'[d] = held[d]
            /\ at'[d] = "created" =>
                  (at[d] = "created" /\ work'[d] = work[d]) \/ work'[d].new = nextBlock
    BY <1>1, <1>3 DEF Making
  <2> QED
    BY <1>1, <1>2, <1>5, <2>1, OldTwins
<1>7. InCompaction(src, new)' /\ InCompaction(new, src)'
  BY <1>1, <1>3 DEF InCompaction
\* What shares a sample with the result shares it with the source.
<1>8. ASSUME NEW y \in DOMAIN blocks, y # src, Alive(y)',
             blocks'[new].pts \cap blocks'[y].pts # {}
      PROVE  \E id \in {new, y} : id \notin Listed' /\ Late(id)'
  <2>1. blocks[src].pts \cap blocks[y].pts # {}
    BY <1>1, <1>8 DEF Stores
  <2>2. Alive(src) /\ Alive(y)
    <3>1. Alive(src)
      BY <1>1 DEF Alive
    <3>2. CASE ~blocks'[y].archived
      BY <1>1, <1>8, <3>2 DEF Alive, Stores
    <3>3. CASE blocks'[y].archived
      <4>1. PICK d \in Compactor : held[d] = y /\ at'[d] \in Making
        BY <1>1, <1>8, <3>3 DEF Alive, Making
      <4>2. at[d] \in Section
        BY <1>1, <1>3, <4>1 DEF Making, Section
      <4> QED
        BY <1>4, <1>8, <4>1, <4>2
    <3> QED
      BY <3>1, <3>2, <3>3
  <2>3. PICK id \in {src, y} : id \notin Listed /\ Late(id)
    BY <1>1, <1>5, <1>8, <2>1, <2>2 DEF NoTwins
  <2>4. CASE id = y
    <3>1. Times(blocks'[y]) = Times(blocks[y]) /\ y # nextBlock
      BY <1>1, SameTimes DEF Stores
    <3>2. \A d \in Compactor : ~(at'[d] = "created" /\ work'[d].new = y)
      BY <1>3, <1>4, <3>1 DEF Section
    <3> QED
      BY <1>2, <2>3, <2>4, <3>1, <3>2 DEF Late
  <2>5. CASE id = src
    <3>1. Min(Times(blocks[src])) < S!Last.start /\ S!Last.start \in Int
      BY <2>3, <2>5, NewestMovesOn DEF Late, ControlIInv
    <3>2. /\ blocks'[new] \in Block /\ blocks'[new].pts = blocks[src].pts /\ blocks'[new].coarse
          /\ Times(blocks'[src]) = Times(blocks[src])
      <4>1. blocks'[new] = NewBlock(blocks[src].pts, TRUE)
        BY <1>1 DEF CompactCreate, Create
      <4>2. blocks[src].pts \in SUBSET Sample
        BY <1>1, FirstIsTime
      <4> QED
        BY <1>1, <4>1, <4>2, SameTimes DEF Stores, NewBlock, Block
    <3>3. /\ Min(Times(blocks'[new])) <= Min(Times(blocks[src]))
          /\ Min(Times(blocks'[new])) \in Nat /\ Min(Times(blocks[src])) \in Nat
      <4>1. blocks[src] \in Block /\ blocks[src].pts # {} /\ Min(Times(blocks[src])) \in Nat
        BY <1>1, FirstIsTime
      <4>2. Min(Times(blocks'[new])) \in Nat
        BY <3>2, <4>1, TimesOf, BlocksConstants
      <4> QED
        BY <3>2, <4>1, <4>2, CoarserFirst
    <3>4. Min(Times(blocks'[new])) < S!Last'.start
      BY <1>2, <3>1, <3>3
    <3>5. \A d \in Compactor : at'[d] = "created" => Min(Times(blocks'[held'[d]])) < S!Last'.start
      BY <1>1, <1>2, <1>3, <1>4, <3>1, <3>2 DEF Section
    <3>6. new \notin Listed'
      BY <1>1, <1>2 DEF WorkIInv, Stores
    <3> QED
      BY <3>4, <3>5, <3>6 DEF Late
  <2> QED
    BY <2>4, <2>5
<1>9. ASSUME NEW y \in DOMAIN blocks PROVE TwinOK(new, y)' /\ TwinOK(y, new)'
  BY <1>7, <1>8 DEF TwinOK
<1>10. ASSUME NEW x \in DOMAIN blocks', NEW y \in DOMAIN blocks' PROVE TwinOK(x, y)'
  <2>1. (x \in DOMAIN blocks \/ x = new) /\ (y \in DOMAIN blocks \/ y = new)
    BY <1>1 DEF Stores
  <2>2. CASE x = new /\ y = new
    BY <2>2 DEF TwinOK
  <2> QED
    BY <1>6, <1>9, <2>1, <2>2
<1> QED
  BY <1>10 DEF NoTwins, TwinOK

LEMMA NextTwins ==
    ASSUME ControlIInv, RefsIInv, RefsIInv', WorkIInv, SP!Kept, S!NoneWrapped', NoTwins, FlushFirst,
           [Next]_vars
    PROVE  NoTwins'
  BY StepKinds, AsideTwins, SweepMarkTwins, FlushAddTwins, CompactOpensTwins, CompactAddTwins,
     CompactFailTwins, CompactArchiveTwins, FlushCreateTwins, CompactCreateTwins


-----------------------------------------------------------------------------
(* The windows of the blocks, and the theorems that rest on them. *)

\* Most steps store no block; two kinds store one.
LEMMA LastsOrStores ==
    ASSUME ControlIInv, RefsIInv, [Next]_vars
    PROVE  \/ Lasts /\ nextBlock' = nextBlock /\ (adding' = adding \/ adding' = NoFlush)
           \/ \E P \in SUBSET Sample : FlushCreate(P)
           \/ \E c \in Compactor : CompactCreate(c)
<1> DEFINE Result == Lasts /\ nextBlock' = nextBlock /\ (adding' = adding \/ adding' = NoFlush)
<1>1. CASE Aside
  BY <1>1 DEF Aside
<1>2. CASE FlushAdd
  BY <1>2, SameLasts DEF FlushAdd, storeVars
<1>3. CASE SweepMark
  BY <1>3, SweepMarks
<1>4. ASSUME NEW c \in Compactor, CompactOpens(c) PROVE Result
  <2>1. /\ Opens(work[c].src) /\ Acquired(c, work[c].src)
        /\ UNCHANGED <<nextBlock, adding>>
    BY <1>4 DEF CompactOpens, CompactOpen, Opens
  <2> QED
    BY <2>1, AcquiredLasts
<1>5. ASSUME NEW c \in Compactor, CompactAdd(c) PROVE Result
  BY <1>5, SameLasts DEF CompactAdd, storeVars
<1>6. ASSUME NEW c \in Compactor, CompactFail(c) PROVE Result
  BY <1>6, ClosedLasts DEF CompactFail
<1>7. ASSUME NEW c \in Compactor, CompactArchive(c) PROVE Result
  BY <1>7, ArchiveLasts DEF CompactArchive
<1> QED
  BY <1>1, <1>2, <1>3, <1>4, <1>5, <1>6, <1>7, StepKinds

\* The next shards have a last one.
LEMMA LastNext ==
    ASSUME SP!ShardsIInv'
    PROVE  Len(shards') \in DOMAIN shards' /\ S!Last' = shards'[Len(shards')]
<1>1. SP!Known'
  BY ConstantsOfShards, SP!WindowsKnownNext
<1> QED
  BY <1>1 DEF SP!Known, S!Last

\* A flush stores samples of the newest window, a compaction those of its source.
LEMMA NextHoused ==
    ASSUME ControlIInv, RefsIInv, SP!Kept, [Next]_vars, \A id \in DOMAIN blocks : Housed(id)
    PROVE  \A id \in DOMAIN blocks' : Housed(id)'
<1>1. CASE Lasts
  BY <1>1, HousedStays DEF Lasts
<1>2. ASSUME NEW P \in SUBSET Sample, FlushCreate(P) PROVE \A id \in DOMAIN blocks' : Housed(id)'
  <2>1. Stores(P, FALSE)
    BY <1>2, FlushCreateStores
  <2>2. ASSUME NEW id \in DOMAIN blocks', id = nextBlock PROVE Housed(id)'
    <3>1. \A p \in P : S!Covers(S!Last', TS[p])
      BY <1>2 DEF FlushCreate
    <3>2. blocks'[id].pts = P
      BY <2>1, <2>2 DEF Stores
    <3> QED
      BY <3>1, <3>2, LastNext DEF Housed, SP!Kept, S!Covers
  <2> QED
    BY <2>1, <2>2, HousedStays DEF Stores
<1>3. ASSUME NEW c \in Compactor, CompactCreate(c) PROVE \A id \in DOMAIN blocks' : Housed(id)'
  <2>1. Stores(blocks[held[c]].pts, TRUE) /\ held[c] \in DOMAIN blocks
    BY <1>3, CompactCreateStores, Makes DEF CompactCreate, Section
  <2>2. ASSUME NEW id \in DOMAIN blocks', id = nextBlock PROVE Housed(id)'
    <3>1. PICK i \in DOMAIN shards : \A p \in blocks[held[c]].pts : S!Covers(shards[i], TS[p])
      BY <2>1 DEF Housed
    <3>2. blocks'[id].pts = blocks[held[c]].pts
      BY <2>1, <2>2 DEF Stores
    <3> QED
      BY <3>1, <3>2 DEF Housed, SP!Kept, S!Covers
  <2> QED
    BY <2>1, <2>2, HousedStays DEF Stores
<1> QED
  BY <1>1, <1>2, <1>3, LastsOrStores

\* A flush routes by the first point of the block it has stored.
LEMMA NextFlushFirst ==
    ASSUME ControlIInv, RefsIInv, FlushFirst, [Next]_vars
    PROVE  FlushFirst'
<1>1. CASE Lasts /\ (adding' = adding \/ adding' = NoFlush)
  BY <1>1, SameTimes DEF Lasts, FlushFirst
<1>2. ASSUME NEW P \in SUBSET Sample, FlushCreate(P) PROVE FlushFirst'
  <2>1. Stores(P, FALSE) /\ adding' = [id |-> nextBlock, first |-> Min({TS[p] : p \in P})]
    BY <1>2, FlushCreateStores DEF FlushCreate
  <2>2. Times(blocks'[nextBlock]) = {TS[p] : p \in P}
    BY <2>1 DEF Stores, Times
  <2> QED
    BY <2>1, <2>2 DEF FlushFirst
<1>3. ASSUME NEW c \in Compactor, CompactCreate(c) PROVE FlushFirst'
  <2>1. Stores(blocks[held[c]].pts, TRUE) /\ adding' = adding
    BY <1>3, CompactCreateStores DEF CompactCreate
  <2>2. adding # NoFlush => adding.id # nextBlock
    BY <2>1 DEF ControlIInv, TypeIInv, Stores
  <2>3. adding # NoFlush /\ adding.id \in DOMAIN blocks =>
            Times(blocks'[adding.id]) = Times(blocks[adding.id])
    BY <2>1, SameTimes DEF Stores
  <2> QED
    BY <2>1, <2>2, <2>3 DEF FlushFirst, Stores
<1> QED
  BY <1>1, <1>2, <1>3, LastsOrStores

LEMMA InitWindow == Init => WindowIInv
  BY DEF Init, WindowIInv, NoTwins

LEMMA NextWindow ==
    ASSUME ControlIInv, RefsIInv, RefsIInv', WorkIInv, WindowIInv, [Next]_vars
    PROVE  WindowIInv'
<1> SUFFICES ASSUME S!NoneWrapped'
             PROVE  (\A id \in DOMAIN blocks : Housed(id))' /\ FlushFirst' /\ NoTwins'
  BY DEF WindowIInv, FlushFirst
<1>1. SP!Kept
  BY ShardsMove DEF ControlIInv
<1>2. S!NoneWrapped
  BY <1>1, NewestMovesOn DEF ControlIInv
<1>3. (\A id \in DOMAIN blocks : Housed(id)) /\ FlushFirst /\ NoTwins
  BY <1>2, WindowParts
<1>4. (\A id \in DOMAIN blocks : Housed(id))'
  BY <1>1, <1>3, NextHoused
<1>5. FlushFirst' /\ NoTwins'
  BY <1>1, <1>3, NextFlushFirst, NextTwins
<1> QED
  BY <1>4, <1>5

\* Until a window wraps, the samples of a block are of one window, and two blocks
\* in use share one only as source and result of the compaction under way, or when
\* one of them will never be listed.
THEOREM WindowInductive == Spec => []WindowIInv
<1>1. ControlIInv /\ RefsIInv /\ RefsIInv' /\ WorkIInv /\ WindowIInv /\ [Next]_vars => WindowIInv'
  BY NextWindow
<1> QED
  BY <1>1, InitWindow, ControlInductive, RefsInductive, WorkInductive, PTL DEF Spec

LEMMA OneShows ==
    ASSUME ControlIInv, RefsIInv, WorkIInv, NoTwins, \A c \in Compactor : at[c] # "added",
           NEW p \in Sample, NEW x \in Showing(p), NEW y \in Showing(p)
    PROVE  x = y
<1> SUFFICES ASSUME x # y PROVE FALSE
  OBVIOUS
<1>1. /\ x \in DOMAIN blocks /\ y \in DOMAIN blocks /\ x \in Listed /\ y \in Listed
      /\ Alive(x) /\ Alive(y) /\ blocks[x].pts \cap blocks[y].pts # {}
  BY DEF Showing, Opens, Alive
<1>2. InCompaction(x, y)
  BY <1>1 DEF NoTwins
<1>3. PICK c \in Compactor : at[c] = "created" /\ {x, y} = {held[c], work[c].new}
  BY <1>2 DEF InCompaction
<1>4. work[c].new \in {x, y} /\ work[c].new \notin Listed
  BY <1>3 DEF WorkIInv, Replaces
<1> QED
  BY <1>1, <1>4

\* Until a window wraps, a sample shows in one block at most, outside the moment
\* between a compaction's AddBlock and its MarkArchived (ShownOnce).
THEOREM ShownOnceHolds == Spec => [](S!NoneWrapped => ShownOnce)
<1>1. ASSUME ControlIInv, RefsIInv, WorkIInv, WindowIInv, S!NoneWrapped
      PROVE  ShownOnce
  <2>1. NoTwins
    BY <1>1 DEF WindowIInv
  <2> SUFFICES ASSUME \A c \in Compactor : at[c] # "added", NEW p \in Sample
               PROVE  Cardinality(Showing(p)) <= 1
    BY DEF ShownOnce
  <2>2. CASE Showing(p) = {}
    BY <2>2, FS_EmptySet
  <2>3. ASSUME NEW x \in Showing(p) PROVE Cardinality(Showing(p)) <= 1
    <3>1. Showing(p) = {x}
      BY <1>1, <2>1, OneShows
    <3>2. Cardinality({x}) = 1
      BY FS_Singleton
    <3> QED
      BY <3>1, <3>2
  <2> QED
    BY <2>2, <2>3
<1>2. ControlIInv /\ RefsIInv /\ WorkIInv /\ WindowIInv => (S!NoneWrapped => ShownOnce)
  BY <1>1
<1> QED
  BY <1>2, ControlInductive, RefsInductive, WorkInductive, WindowInductive, PTL


-----------------------------------------------------------------------------
(* A listed block is inside the window that lists it. *)

Inside(id, i) == \A t \in Times(blocks[id]) : S!Covers(shards[i], t)

LEMMA InsideIs ==
    InsideWindow <=> \A i \in DOMAIN shards : \A id \in shards[i].blocks \cap DOMAIN blocks : Inside(id, i)
  BY DEF InsideWindow, Inside

\* A block that is listed by the first point of one with its samples is inside
\* the newest window.
LEMMA InsideNewest ==
    ASSUME Divides, SP!ShardsIInv, S!NoneWrapped,
           NEW i \in DOMAIN shards, NEW a \in Block, NEW b \in Block, a.pts # {}, b.pts = a.pts,
           \A p \in a.pts : S!Covers(shards[i], TS[p]),
           S!Covers(S!Last, Min(Times(a)))
    PROVE  \A t \in Times(b) : S!Covers(S!Last, t)
<1> DEFINE m == Min(Times(a))
<1>1. m \in Times(a) /\ m \in Nat
  BY TimesOf, BlocksConstants
<1>2. S!Covers(shards[i], m)
  BY <1>1, CoversPoints
<1>3. S!Last.start <= m
  BY DEF S!Covers
<1>4. i = Len(shards)
  BY <1>1, <1>2, <1>3, InNewest
<1>5. S!Last = shards[i]
  BY <1>4, Windows
<1> QED
  BY <1>5, CoversPoints

InsideNewestOf ==
    Divides /\ SP!ShardsIInv /\ S!NoneWrapped =>
        \A i \in DOMAIN shards : \A a, b \in Block :
            /\ a.pts # {} /\ b.pts = a.pts
            /\ \A p \in a.pts : S!Covers(shards[i], TS[p])
            /\ S!Covers(S!Last, Min(Times(a)))
            => \A t \in Times(b) : S!Covers(S!Last, t)

LEMMA InsideNewestNext == InsideNewestOf'
<1>1. InsideNewestOf
  BY InsideNewest DEF InsideNewestOf
<1> QED
  BY <1>1, PTL

\* A step that lists no block leaves those that are listed inside.
LEMMA QuietInside ==
    ASSUME SP!Kept, InsideWindow, NEW i \in DOMAIN shards, NEW id \in shards[i].blocks \cap DOMAIN blocks,
           Times(blocks'[id]) = Times(blocks[id])
    PROVE  \A t \in Times(blocks'[id]) : S!Covers(shards'[i], t)
  BY DEF InsideWindow, SP!Kept, S!Covers

\* A step that lists one puts it in the newest window.
LEMMA ListsInside ==
    ASSUME Divides, ControlIInv, RefsIInv, InsideWindow, S!NoneWrapped', UNCHANGED blocks,
           \A b \in DOMAIN blocks : Housed(b),
           NEW first, NEW new, Lists(first, new),
           new \in DOMAIN blocks => \E src \in DOMAIN blocks : /\ blocks[new].pts = blocks[src].pts
                                                              /\ first = Min(Times(blocks[src]))
    PROVE  InsideWindow'
<1> SUFFICES ASSUME NEW i \in DOMAIN shards', NEW id \in shards'[i].blocks \cap DOMAIN blocks,
                    NEW t \in Times(blocks[id])
             PROVE  S!Covers(shards'[i], t)
  BY DEF InsideWindow, Times
<1>1. CASE i \in DOMAIN shards /\ id \in shards[i].blocks
  BY <1>1, QuietInside DEF Lists
<1>2. CASE ~(i \in DOMAIN shards /\ id \in shards[i].blocks)
  <2>1. i = Len(shards') /\ id = new
    BY <1>2 DEF Lists, SP!ListOf
  <2>2. PICK src \in DOMAIN blocks : blocks[new].pts = blocks[src].pts /\ first = Min(Times(blocks[src]))
    BY <2>1
  <2>3. SP!ShardsIInv' /\ S!Last' = shards'[i] /\ S!Covers(S!Last', Min(Times(blocks[src])))
    BY <2>2, <2>1, LastNext DEF Lists, SP!Kept
  <2>4. /\ blocks[src] \in Block /\ blocks[id] \in Block /\ blocks[src].pts # {}
        /\ blocks[id].pts = blocks[src].pts
    BY <2>2, <2>1, FirstIsTime
  <2>5. PICK k \in DOMAIN shards : \A p \in blocks[src].pts : S!Covers(shards[k], TS[p])
    BY DEF Housed
  <2>6. k \in DOMAIN shards' /\ \A p \in blocks[src].pts : S!Covers(shards'[k], TS[p])
    BY <2>5 DEF Lists, SP!Kept, S!Covers
  <2>7. \A u \in Times(blocks[id]) : S!Covers(S!Last', u)
    BY <2>3, <2>4, <2>6, InsideNewestNext DEF InsideNewestOf, Divides, Times, Block
  <2> QED
    BY <2>3, <2>7
<1> QED
  BY <1>1, <1>2


\* Blocks are listed by a flush that ends and by a compaction.
LEMMA ListsOrQuiet ==
    ASSUME ControlIInv, RefsIInv, [Next]_vars
    PROVE  Quiet \/ FlushAdd \/ \E c \in Compactor : CompactAdd(c)
<1>1. ASSUME UNCHANGED shardVars PROVE Quiet
  BY <1>1, StayQuiet DEF ControlIInv
<1>2. CASE Aside
  BY <1>2 DEF Aside
<1>3. ASSUME NEW P \in SUBSET Sample, FlushCreate(P) PROVE Quiet
  BY <1>3, FlushCreateQuiet DEF ControlIInv
<1>4. CASE SweepMark
  BY <1>1, <1>4, SweepMarks
<1>5. ASSUME NEW c \in Compactor,
             CompactOpens(c) \/ CompactCreate(c) \/ CompactFail(c) \/ CompactArchive(c)
      PROVE  Quiet
  <2>1. UNCHANGED shardVars
    BY <1>5 DEF CompactOpens, CompactOpen, CompactCreate, CompactFail, CompactArchive
  <2> QED
    BY <1>1, <2>1
<1> QED
  BY <1>2, <1>3, <1>4, <1>5, StepKinds

LEMMA NextInside ==
    ASSUME Divides, ControlIInv, RefsIInv, WorkIInv, WindowIInv, InsideWindow, S!NoneWrapped',
           [Next]_vars
    PROVE  InsideWindow'
<1>1. SP!Kept
  BY ShardsMove DEF ControlIInv
<1>2. S!NoneWrapped
  BY <1>1, NewestMovesOn DEF ControlIInv
<1>3. (\A id \in DOMAIN blocks : Housed(id)) /\ FlushFirst
  BY <1>2, WindowParts
<1>4. CASE FlushAdd
  <2>1. CASE Lists(adding.first, adding.id)
    <3>1. adding # NoFlush /\ UNCHANGED blocks
      BY <1>4 DEF FlushAdd, storeVars
    <3>2. adding.id \in DOMAIN blocks => adding.first = Min(Times(blocks[adding.id]))
      BY <1>3, <3>1 DEF FlushFirst
    <3> QED
      BY <1>3, <2>1, <3>1, <3>2, ListsInside
  <2>2. CASE Quiet
    <3>1. UNCHANGED blocks
      BY <1>4 DEF FlushAdd, storeVars
    <3>2. \A i \in DOMAIN shards' : shards'[i].blocks = SP!ListOf(i)
      BY <2>2 DEF Quiet, SP!SameLists
    <3> QED
      BY <1>1, <3>1, <3>2, QuietInside DEF InsideWindow, SP!ListOf, Times
  <2> QED
    BY <1>4, <2>1, <2>2, FlushAddShards DEF ControlIInv
<1>5. ASSUME NEW c \in Compactor, CompactAdd(c) PROVE InsideWindow'
  <2>1. Lists(Min(Times(blocks[held[c]])), work[c].new)
    BY <1>5, CompactAddShards DEF ControlIInv
  <2>2. UNCHANGED blocks /\ held[c] \in DOMAIN blocks
    BY <1>5, Makes DEF CompactAdd, storeVars, Section
  <2>3. work[c].new \in DOMAIN blocks => blocks[work[c].new].pts = blocks[held[c]].pts
    BY <1>5 DEF CompactAdd, WorkIInv, Replaces
  <2> QED
    BY <1>3, <2>1, <2>2, <2>3, ListsInside
<1>6. CASE Quiet
  <2>1. ASSUME NEW id \in DOMAIN blocks, id \in DOMAIN blocks'
        PROVE  Times(blocks'[id]) = Times(blocks[id])
    <3>1. CASE Lasts
      BY <2>1, <3>1, SameTimes DEF Lasts
    <3>2. ASSUME NEW P, NEW coarse, Stores(P, coarse) PROVE Times(blocks'[id]) = Times(blocks[id])
      BY <2>1, <3>2, SameTimes DEF Stores
    <3> QED
      BY <3>1, <3>2, LastsOrStores, FlushCreateStores, CompactCreateStores
  <2>2. \A id \in DOMAIN blocks' \ DOMAIN blocks : id \notin Listed
    <3>1. CASE Lasts
      BY <3>1 DEF Lasts
    <3>2. ASSUME NEW P, NEW coarse, Stores(P, coarse)
          PROVE  \A id \in DOMAIN blocks' \ DOMAIN blocks : id \notin Listed
      BY <3>2 DEF Stores, WorkIInv
    <3> QED
      BY <3>1, <3>2, LastsOrStores, FlushCreateStores, CompactCreateStores
  <2>3. ASSUME NEW i \in DOMAIN shards', NEW id \in shards'[i].blocks \cap DOMAIN blocks'
        PROVE  \A t \in Times(blocks'[id]) : S!Covers(shards'[i], t)
    <3>1. i \in DOMAIN shards /\ id \in shards[i].blocks
      BY <1>6 DEF Quiet, SP!SameLists, SP!ListOf
    <3>2. id \in DOMAIN blocks
      BY <2>2, <3>1 DEF Listed
    <3> QED
      BY <1>1, <2>1, <3>1, <3>2, QuietInside
  <2> QED
    BY <2>3 DEF InsideWindow, Times
<1> QED
  BY <1>4, <1>5, <1>6, ListsOrQuiet

LEMMA InitInside == Init => InsideWindow
  BY DEF Init, InsideWindow

\* With a downsampling step that divides the window, every point of a block is in
\* the window of the shard that lists it, so a query by windows misses none
\* (InsideWindow), until a window wraps.
THEOREM InsideWindowHolds ==
    ASSUME Divides
    PROVE  Spec => [](S!NoneWrapped => InsideWindow)
<1> DEFINE IInv == S!NoneWrapped => InsideWindow
<1>1. ControlIInv /\ RefsIInv /\ WorkIInv /\ WindowIInv /\ IInv /\ [Next]_vars => IInv'
  <2> SUFFICES ASSUME ControlIInv, RefsIInv, WorkIInv, WindowIInv, IInv, [Next]_vars,
                      S!NoneWrapped'
               PROVE  InsideWindow'
    OBVIOUS
  <2>1. S!NoneWrapped
    BY ShardsMove, NewestMovesOn DEF ControlIInv
  <2> QED
    BY <2>1, NextInside
<1>2. Init => IInv
  BY InitInside
<1> HIDE DEF IInv
<1>3. Spec => []IInv
  BY <1>1, <1>2, ControlInductive, RefsInductive, WorkInductive, WindowInductive, PTL DEF Spec
<1> QED
  BY <1>3 DEF IInv
=============================================================================
