---------------------------- MODULE QueryProofs ----------------------------
(***************************************************************************)
(* Proofs about the queries of Blocks.tla: a query counts a sample once,   *)
(* whatever flushes, compactions, sweeps and rotations do meanwhile.  They *)
(* rest on the invariants of BlocksProofs.tla and BlockLifeProofs.tla.     *)
(***************************************************************************)
EXTENDS BlockLifeProofs

-----------------------------------------------------------------------------
(* What compactions have taken up is marked for good. *)

SameState == \A id \in DOMAIN blocks \cap DOMAIN blocks' : blocks'[id].state = blocks[id].state

Taken == {"created", "added"}

LEMMA AcquiredState ==
    ASSUME RefsIInv, NEW a, NEW id, Opens(id), Acquired(a, id)
    PROVE  SameState
  BY DEF SameState, Acquired, Opens, RefsIInv, Block

LEMMA ClosedState ==
    ASSUME RefsIInv, NEW a, blocks' = Closed(blocks, a)
    PROVE  SameState
  BY DEF SameState, Closed, RefsIInv, Block

LEMMA ArchiveState ==
    ASSUME RefsIInv, NEW a, NEW id, NEW B, B = blocks \/ B = Closed(blocks, a), blocks' = Archive(B, id)
    PROVE  SameState
<1>1. \A i \in DOMAIN blocks : blocks[i] \in Block
  BY DEF RefsIInv
<1>2. /\ DOMAIN B = DOMAIN blocks
      /\ \A i \in DOMAIN blocks : /\ B[i].state = blocks[i].state
                                   /\ DOMAIN B[i] = DOMAIN blocks[i]
  BY <1>1 DEF Closed, Block
<1>3. "state" \in DOMAIN blocks[id] \/ id \notin DOMAIN blocks
  BY <1>1 DEF Block
<1> QED
  BY <1>1, <1>2, <1>3 DEF SameState, Archive

LEMMA ReclaimedState == blocks' = Reclaimed => SameState
  BY DEF SameState, Reclaimed

LEMMA SameStateStays == UNCHANGED blocks => SameState
  BY DEF SameState

LEMMA CreatedState ==
    ASSUME RefsIInv, NEW P, FlushCreate(P)
    PROVE  SameState
  BY RefsParts DEF SameState, FlushCreate, Create

LEMMA CompactCreateState ==
    ASSUME ControlIInv, RefsIInv, NEW c \in Compactor, CompactCreate(c)
    PROVE  /\ \A id \in DOMAIN blocks : id # held[c] => blocks'[id].state = blocks[id].state
           /\ blocks'[held[c]].state = "compacting"
<1>1. held[c] \in DOMAIN blocks /\ nextBlock \notin DOMAIN blocks
  BY Makes, RefsParts DEF CompactCreate, Section
<1> QED
  BY <1>1 DEF CompactCreate, Create, RefsIInv, Block

LEMMA CompactionState ==
    ASSUME ControlIInv, RefsIInv, NEW c \in Compactor, CompactAll(c) \/ CompactStep(c), ~CompactCreate(c)
    PROVE  SameState
<1>1. CASE CompactAll(c) \/ EndPass(c) \/ CompactAdd(c)
  BY <1>1, SameStateStays DEF CompactAll, EndPass, CompactAdd, storeVars
<1>2. ASSUME NEW id, Peek(c, id) PROVE SameState
  BY <1>2, AcquiredState, SameStateStays DEF Peek
<1>3. CASE CompactOpen(c)
  BY <1>3, AcquiredState, SameStateStays DEF CompactOpen
<1>4. CASE Peeked(c) \/ CompactFail(c) \/ CompactReturn(c)
  BY <1>4, ClosedState DEF Peeked, CompactFail, CompactReturn
<1>5. CASE CompactArchive(c)
  BY <1>5, ArchiveState DEF CompactArchive
<1>6. CASE CompactReclaim(c)
  BY <1>6, ReclaimedState DEF CompactReclaim
<1> QED
  BY <1>1, <1>2, <1>3, <1>4, <1>5, <1>6 DEF CompactStep

LEMMA SweepState ==
    ASSUME RefsIInv, NEW t, SweepStart(t) \/ SweepStep
    PROVE  SameState
<1>1. CASE SweepStart(t)
  BY <1>1, SameStateStays DEF SweepStart, storeVars
<1>2. ASSUME NEW id, SweepOpen(id) PROVE SameState
  BY <1>2, AcquiredState, SameStateStays DEF SweepOpen
<1>3. CASE SweepMark
  BY <1>3, ArchiveState, ClosedState DEF SweepMark
<1>4. CASE SweepEnd
  BY <1>4, ReclaimedState DEF SweepEnd
<1> QED
  BY <1>1, <1>2, <1>3, <1>4 DEF SweepStep

LEMMA QueryState ==
    ASSUME RefsIInv, NEW r \in Reader, NEW rng, Ask(r, rng) \/ ReadStep(r)
    PROVE  SameState
<1>1. CASE Ask(r, rng) \/ ReadShard(r) \/ ReadPanics(r) \/ Answer(r)
  BY <1>1, SameStateStays DEF Ask, ReadShard, ReadPanics, Answer, storeVars
<1>2. ASSUME NEW id, ReadOpen(r, id) PROVE SameState
  BY <1>2, AcquiredState, SameStateStays DEF ReadOpen
<1>3. CASE ReadRange(r)
  BY <1>3, ClosedState DEF ReadRange
<1> QED
  BY <1>1, <1>2, <1>3 DEF ReadStep

\* A block that stays is the same but for its references and marks, and loses no
\* mark.
LEMMA BlocksAge ==
    ASSUME ControlIInv, RefsIInv, [Next]_vars
    PROVE  \A id \in DOMAIN blocks \cap DOMAIN blocks' :
               /\ blocks'[id].pts = blocks[id].pts /\ blocks'[id].coarse = blocks[id].coarse
               /\ blocks[id].archived => blocks'[id].archived
               /\ blocks[id].state = "compacting" => blocks'[id].state = "compacting"
<1>1. \A id \in DOMAIN blocks \cap DOMAIN blocks' :
          /\ blocks'[id].pts = blocks[id].pts /\ blocks'[id].coarse = blocks[id].coarse
          /\ blocks[id].archived => blocks'[id].archived
  BY LastsOrStores, FlushCreateStores, CompactCreateStores DEF Lasts, Stores
<1>2. SameState \/ \E c \in Compactor : CompactCreate(c)
  <2>1. ASSUME NEW P, FlushCreate(P) PROVE SameState
    BY <2>1, CreatedState
  <2>2. CASE FlushAdd \/ Rotate \/ UNCHANGED vars
    BY <2>2, SameStateStays DEF FlushAdd, Rotate, vars, storeVars
  <2> QED
    BY <2>1, <2>2, CompactionState, SweepState, QueryState DEF Next
<1>3. \A id \in DOMAIN blocks \cap DOMAIN blocks' :
          blocks[id].state = "compacting" => blocks'[id].state = "compacting"
  BY <1>2, CompactCreateState DEF SameState
<1> QED
  BY <1>1, <1>3
-----------------------------------------------------------------------------
(* A block is listed once. *)

\* What a compaction has taken up, and the step before it is listed.
LEMMA TakenUp ==
    ASSUME ControlIInv, RefsIInv, [Next]_vars, NEW c \in Compactor, at'[c] \in Taken
    PROVE  \/ at[c] \in Taken /\ held'[c] = held[c] /\ work'[c] = work[c]
           \/ at[c] \notin Taken /\ at'[c] = "created" /\ CompactCreate(c)
<1>1. at \in [Actor -> Places] /\ c \in Actor
  BY DEF RefsIInv, Actor
<1>2. CASE Aside
  BY <1>2 DEF Aside, Making, Taken
<1>3. CASE FlushAdd \/ SweepMark \/ \E P \in SUBSET Sample : FlushCreate(P)
  BY <1>3, SweepMarks DEF FlushAdd, FlushCreate, Taken
<1>4. ASSUME NEW d \in Compactor, CompactOpens(d)
      PROVE  at[c] \in Taken /\ held'[c] = held[c] /\ work'[c] = work[c]
  <2>1. /\ at' = [at EXCEPT ![d] = "opened"] /\ UNCHANGED work
        /\ held' = [held EXCEPT ![d] = work[d].src] /\ held \in [Actor -> Nat]
    BY <1>4, RefsParts DEF CompactOpens, CompactOpen, Opens, Acquired, Goto
  <2> QED
    BY <1>1, <2>1 DEF Taken
<1>5. ASSUME NEW d \in Compactor, CompactCreate(d)
      PROVE  \/ at[c] \in Taken /\ held'[c] = held[c] /\ work'[c] = work[c]
             \/ at[c] \notin Taken /\ at'[c] = "created" /\ CompactCreate(c)
  <2>1. /\ at[d] = "opened" /\ at' = [at EXCEPT ![d] = "created"] /\ UNCHANGED held
        /\ work' = [work EXCEPT ![d].new = nextBlock]
    BY <1>5 DEF CompactCreate, Goto
  <2>2. CASE c = d
    BY <1>1, <1>5, <2>1, <2>2 DEF Taken
  <2>3. CASE c # d
    BY <1>1, <2>1, <2>3 DEF Taken, ControlIInv, TypeIInv
  <2> QED
    BY <2>2, <2>3
<1>6. ASSUME NEW d \in Compactor, CompactAdd(d)
      PROVE  at[c] \in Taken /\ held'[c] = held[c] /\ work'[c] = work[c]
  <2>1. at[d] = "created" /\ at' = [at EXCEPT ![d] = "added"] /\ UNCHANGED <<held, work>>
    BY <1>6 DEF CompactAdd, Goto
  <2> QED
    BY <1>1, <2>1 DEF Taken
<1>7. ASSUME NEW d \in Compactor, CompactFail(d)
      PROVE  at[c] \in Taken /\ held'[c] = held[c] /\ work'[c] = work[c]
  <2>1. /\ at' = [at EXCEPT ![d] = "idle"] /\ held' = [held EXCEPT ![d] = 0]
        /\ work' = [work EXCEPT ![d] = NoWork]
    BY <1>7 DEF CompactFail, LeaveTo, Goto
  <2> QED
    BY <1>1, <2>1, RefsParts DEF Taken, ControlIInv, TypeIInv
<1>8. ASSUME NEW d \in Compactor, CompactArchive(d)
      PROVE  at[c] \in Taken /\ held'[c] = held[c] /\ work'[c] = work[c]
  <2>1. at' = [at EXCEPT ![d] = "archived"] /\ UNCHANGED <<held, work>>
    BY <1>8 DEF CompactArchive, Goto
  <2> QED
    BY <1>1, <2>1 DEF Taken
<1> QED
  BY <1>2, <1>3, <1>4, <1>5, <1>6, <1>7, <1>8, StepKinds

\* The lists grow by ids that were on none.
Grows ==
    /\ DOMAIN shards \subseteq DOMAIN shards' /\ Listed \subseteq Listed'
    /\ \A i \in DOMAIN shards : \A id \in Listed : id \in shards'[i].blocks <=> id \in shards[i].blocks

Disjoint == \A i, j \in DOMAIN shards : i # j => shards[i].blocks \cap shards[j].blocks = {}

LEMMA QuietGrows ==
    ASSUME Quiet, Disjoint
    PROVE  Grows /\ Disjoint'
<1>1. Listed' = Listed
  BY QuietListed
<1> QED
  BY <1>1 DEF Quiet, SP!Kept, SP!SameLists, SP!ListOf, Grows, Disjoint

LEMMA ListsGrows ==
    ASSUME NEW t, NEW id, id \notin Listed, Lists(t, id), Disjoint
    PROVE  Grows /\ Disjoint'
<1>1. Listed' = Listed \cup {id}
  BY ListsListed
<1>2. DOMAIN shards \subseteq DOMAIN shards'
  BY DEF Lists, SP!Kept
<1>3. \A i \in DOMAIN shards : id \notin shards[i].blocks
  BY DEF Listed
<1>4. \A i \in DOMAIN shards' :
          /\ id \notin SP!ListOf(i)
          /\ shards'[i].blocks = SP!ListOf(i) \cup (IF i = Len(shards') THEN {id} ELSE {})
          /\ i \in DOMAIN shards => SP!ListOf(i) = shards[i].blocks
  BY <1>3 DEF Lists, SP!ListOf
<1>5. \A i, j \in DOMAIN shards' : i # j => SP!ListOf(i) \cap SP!ListOf(j) = {}
  BY DEF SP!ListOf, Disjoint
<1>6. Disjoint'
  BY <1>4, <1>5 DEF Disjoint
<1>7. \A i \in DOMAIN shards : \A x \in Listed : x \in shards'[i].blocks <=> x \in shards[i].blocks
  BY <1>2, <1>4
<1> QED
  BY <1>1, <1>2, <1>6, <1>7 DEF Grows

LEMMA NextGrows ==
    ASSUME ControlIInv, RefsIInv, WorkIInv, ListIInv, [Next]_vars
    PROVE  Grows /\ Disjoint'
<1>1. Disjoint
  BY DEF ListIInv, Disjoint
<1>2. CASE Quiet
  BY <1>1, <1>2, QuietGrows
<1>3. CASE FlushAdd
  <2>1. adding.id \notin Listed
    BY <1>3 DEF FlushAdd, ListIInv
  <2> QED
    BY <1>1, <1>2, <1>3, <2>1, FlushAddShards, ListsGrows DEF ControlIInv
<1>4. ASSUME NEW c \in Compactor, CompactAdd(c) PROVE Grows /\ Disjoint'
  <2>1. work[c].new \notin Listed
    BY <1>4 DEF CompactAdd, WorkIInv, Replaces
  <2> QED
    BY <1>1, <1>4, <2>1, CompactAddShards, ListsGrows DEF ControlIInv
<1> QED
  BY <1>2, <1>3, <1>4, ListsOrQuiet

LEMMA NextUnlisted ==
    ASSUME ControlIInv, RefsIInv, WorkIInv, ListIInv, [Next]_vars, adding' # NoFlush
    PROVE  adding'.id \notin Listed'
<1>1. ASSUME NEW P \in SUBSET Sample, FlushCreate(P) PROVE adding'.id \notin Listed'
  <2>1. Listed' = Listed /\ adding'.id = nextBlock
    BY <1>1, FlushCreateQuiet, QuietListed DEF FlushCreate, ControlIInv
  <2>2. nextBlock \notin Listed
    BY RefsParts DEF WorkIInv
  <2> QED
    BY <2>1, <2>2
<1>2. ASSUME NEW c \in Compactor, CompactAdd(c) PROVE adding'.id \notin Listed'
  <2>1. UNCHANGED adding /\ work[c].new # adding.id /\ adding.id \notin Listed
    BY <1>2 DEF CompactAdd, WorkIInv, Replaces, ListIInv
  <2>2. Listed' = Listed \cup {work[c].new}
    BY <1>2, CompactAddShards, ListsListed DEF ControlIInv
  <2> QED
    BY <2>1, <2>2
<1>3. CASE FlushAdd
  BY <1>3 DEF FlushAdd
<1>4. CASE Quiet /\ UNCHANGED adding
  BY <1>4, QuietListed DEF ListIInv
<1>5. ASSUME NEW c \in Compactor, CompactCreate(c) PROVE UNCHANGED adding
  BY <1>5 DEF CompactCreate
<1> QED
  BY <1>1, <1>2, <1>3, <1>4, <1>5, ListsOrQuiet, LastsOrStores

LEMMA NextList ==
    ASSUME ControlIInv, RefsIInv, RefsIInv', WorkIInv, ListIInv, [Next]_vars
    PROVE  ListIInv'
<1>1. ASSUME NEW c \in Compactor, at'[c] \in Taken
      PROVE  blocks'[held'[c]].state = "compacting"
  <2>1. CASE at[c] \in Taken /\ held'[c] = held[c]
    <3>1. held[c] \in DOMAIN blocks /\ held[c] \in DOMAIN blocks'
      BY <1>1, <2>1, Makes, HeldNext DEF Taken, Section
    <3>2. blocks[held[c]].state = "compacting"
      BY <2>1 DEF ListIInv, Taken
    <3> QED
      BY <2>1, <3>1, <3>2, BlocksAge
  <2>2. CASE CompactCreate(c)
    BY <2>2, CompactCreateState DEF CompactCreate
  <2> QED
    BY <1>1, <2>1, <2>2, TakenUp
<1>2. Disjoint' /\ (adding' # NoFlush => adding'.id \notin Listed')
  BY NextGrows, NextUnlisted
<1> QED
  BY <1>1, <1>2 DEF ListIInv, Disjoint, Taken

LEMMA InitList == Init => ListIInv
<1> SUFFICES ASSUME Init PROVE ListIInv
  OBVIOUS
<1>1. SP!ShardsInit
  BY SameShards DEF Init
<1>2. DOMAIN shards = {1}
  BY <1>1 DEF SP!ShardsInit, SP!FirstShards
<1> QED
  BY <1>2 DEF Init, ListIInv, Actor

\* Every block is in at most one shard's list, once, and what a compaction has
\* taken up stays marked, so that no other finds it immutable.
THEOREM ListInductive == Spec => []ListIInv
<1>1. ControlIInv /\ RefsIInv /\ RefsIInv' /\ WorkIInv /\ ListIInv /\ [Next]_vars => ListIInv'
  BY NextList
<1> QED
  BY <1>1, InitList, ControlInductive, RefsInductive, WorkInductive, PTL DEF Spec
-----------------------------------------------------------------------------
(* A query and what goes on around it. *)

LEMMA ReaderKinds ==
    ASSUME ControlIInv, RefsIInv, [Next]_vars, NEW r \in Reader
    PROVE  \/ /\ at'[r] = at[r] /\ held'[r] = held[r] /\ todo'[r] = todo[r]
              /\ asked'[r] = asked[r] /\ got'[r] = got[r]
           \/ \E rng \in Ranges : Ask(r, rng)
           \/ ReadStep(r)
<1> DEFINE Same == /\ at'[r] = at[r] /\ held'[r] = held[r] /\ todo'[r] = todo[r]
                   /\ asked'[r] = asked[r] /\ got'[r] = got[r]
<1>1. /\ r # "sweep" /\ r \in Actor
      /\ at \in [Actor -> Places] /\ held \in [Actor -> Nat]
      /\ todo \in [Actor -> SUBSET (1..MaxBlocks)]
      /\ DOMAIN asked = Reader /\ DOMAIN got = Reader
      /\ \A c \in Compactor : c # r
  BY BlocksConstants DEF Actor, RefsIInv, ControlIInv, TypeIInv, QueriesTyped
<1>2. ASSUME NEW a, a # r, NEW place, at' = at \/ at' = [at EXCEPT ![a] = place],
             NEW id, held' = held \/ held' = [held EXCEPT ![a] = id],
             NEW T, todo' = todo \/ todo' = [todo EXCEPT ![a] = T],
             UNCHANGED <<asked, got>>
      PROVE  Same
  BY <1>1, <1>2
<1>3. ASSUME NEW c \in Compactor, CompactAll(c) \/ CompactStep(c) PROVE Same
  <2>1. PICK place : at' = at \/ at' = [at EXCEPT ![c] = place]
    BY <1>3
    DEF CompactAll, CompactStep, EndPass, Peek, Peeked, CompactOpen, CompactCreate, CompactAdd,
        CompactFail, CompactArchive, CompactReclaim, CompactReturn, LeaveTo, Goto
  <2>2. PICK id : held' = held \/ held' = [held EXCEPT ![c] = id]
    BY <1>3
    DEF CompactAll, CompactStep, EndPass, Peek, Peeked, CompactOpen, CompactCreate, CompactAdd,
        CompactFail, CompactArchive, CompactReclaim, CompactReturn, Acquired, LeaveTo
  <2>3. PICK T : todo' = todo \/ todo' = [todo EXCEPT ![c] = T]
    BY <1>3
    DEF CompactAll, CompactStep, EndPass, Peek, Peeked, CompactOpen, CompactCreate, CompactAdd,
        CompactFail, CompactArchive, CompactReclaim, CompactReturn
  <2>4. UNCHANGED <<asked, got>>
    BY <1>3
    DEF CompactAll, CompactStep, EndPass, Peek, Peeked, CompactOpen, CompactCreate, CompactAdd,
        CompactFail, CompactArchive, CompactReclaim, CompactReturn, queryVars
  <2> QED
    BY <1>1, <1>2, <2>1, <2>2, <2>3, <2>4
<1>4. ASSUME NEW t, SweepStart(t) \/ SweepStep PROVE Same
  <2>1. PICK place, id, T : /\ at' = at \/ at' = [at EXCEPT !["sweep"] = place]
                            /\ held' = held \/ held' = [held EXCEPT !["sweep"] = id]
                            /\ todo' = todo \/ todo' = [todo EXCEPT !["sweep"] = T]
    BY <1>4 DEF SweepStart, SweepStep, SweepMark, SweepEnd, SweepOpen, Acquired, Goto
  <2>2. UNCHANGED <<asked, got>>
    BY <1>4 DEF SweepStart, SweepStep, SweepMark, SweepEnd, SweepOpen, queryVars
  <2> QED
    BY <1>1, <1>2, <2>1, <2>2
<1>5. ASSUME NEW q \in Reader, q # r, NEW rng, Ask(q, rng) \/ ReadStep(q) PROVE Same
  <2>1. PICK place, id, T : /\ at' = at \/ at' = [at EXCEPT ![q] = place]
                            /\ held' = held \/ held' = [held EXCEPT ![q] = id]
                            /\ todo' = todo \/ todo' = [todo EXCEPT ![q] = T]
    BY <1>5
    DEF Ask, ReadStep, ReadShard, ReadOpen, ReadRange, ReadPanics, Answer, EndQuery, Acquired, Goto
  <2>2. PICK query, counts : /\ asked' = asked \/ asked' = [asked EXCEPT ![q] = query]
                             /\ got' = got \/ got' = [got EXCEPT ![q] = counts]
    BY <1>5 DEF Ask, ReadStep, ReadShard, ReadOpen, ReadRange, ReadPanics, Answer, EndQuery, queryVars
  <2> QED
    BY <1>1, <1>5, <2>1, <2>2
<1>6. ASSUME NEW P, FlushCreate(P) \/ FlushAdd \/ Rotate \/ UNCHANGED vars PROVE Same
  BY <1>6 DEF FlushCreate, FlushAdd, Rotate, vars, queryVars
<1> QED
  BY <1>3, <1>4, <1>5, <1>6 DEF Next

\* No other block that is listed and can be opened has a sample that one has alone.
LEMMA Alone ==
    ASSUME WorkIInv, ListIInv, NoTwins, NEW p, NEW id \in DOMAIN blocks, Settled(id),
           blocks[id].state = "immutable", ~blocks[id].archived, p \in blocks[id].pts,
           NEW other \in Listed, Opens(other), p \in blocks[other].pts
    PROVE  other = id
<1> SUFFICES ASSUME other # id PROVE FALSE
  OBVIOUS
<1>1. /\ other \in DOMAIN blocks /\ Alive(id) /\ Alive(other)
      /\ blocks[id].pts \cap blocks[other].pts # {} /\ id \in Listed
  BY DEF Opens, Alive, Settled
<1>2. InCompaction(id, other)
  BY <1>1 DEF NoTwins
<1>3. PICK c \in Compactor : at[c] \in Taken /\ {id, other} = {held[c], work[c].new}
  BY <1>2 DEF InCompaction, Taken
<1>4. blocks[held[c]].state = "compacting"
  BY <1>3 DEF ListIInv, Taken
<1>5. id = work[c].new /\ other = held[c]
  BY <1>3, <1>4
<1>6. at[c] = "added"
  BY <1>1, <1>3, <1>5 DEF WorkIInv, Replaces, Taken
<1> QED
  BY <1>5, <1>6 DEF Settled, Opens

LEMMA SettledStays ==
    ASSUME ControlIInv, RefsIInv, RefsIInv', WorkIInv, ListIInv, [Next]_vars, NEW id, Settled(id)
    PROVE  Settled(id)'
<1>1. id \in Listed /\ id \in Listed'
  BY NextGrows DEF Settled, Grows
<1>2. ASSUME NEW c \in Compactor, at'[c] = "added", work'[c].new = id
      PROVE  blocks'[held'[c]].archived
  <2>1. at[c] \in Taken /\ held'[c] = held[c] /\ work'[c] = work[c]
    BY <1>2, TakenUp DEF Taken
  <2>2. at[c] = "added"
    BY <1>1, <1>2, <2>1 DEF WorkIInv, Replaces, Taken
  <2>3. held[c] \in DOMAIN blocks /\ held[c] \in DOMAIN blocks'
    BY <1>2, <2>1, <2>2, Makes, HeldNext DEF Section
  <2>4. blocks[held[c]].archived
    BY <1>2, <2>1, <2>2 DEF Settled
  <2> QED
    BY <2>1, <2>3, <2>4, BlocksAge
<1> QED
  BY <1>1, <1>2 DEF Settled

\* What a query seeks at the end it has sought all along.
LEMMA SoughtBefore ==
    ASSUME ControlIInv, RefsIInv, WorkIInv, [Next]_vars,
           NEW r \in Reader, asked'[r].was = asked[r].was, asked'[r].range = asked[r].range,
           NEW p, NEW id \in Sought(r, p)', Settled(id)
    PROVE  /\ id \in Sought(r, p) /\ id \in DOMAIN blocks'
           /\ p \in blocks[id].pts /\ p \in blocks'[id].pts
<1>1. /\ id \in asked[r].was[p] /\ id \in DOMAIN blocks'
      /\ blocks'[id].state = "immutable" /\ ~blocks'[id].archived
      /\ p \in InRange(blocks'[id], asked[r].range)
  BY DEF Sought, InRange
<1>2. id \in DOMAIN blocks
  <2>1. id # nextBlock
    BY RefsParts DEF Settled, WorkIInv
  <2>2. DOMAIN blocks' \subseteq DOMAIN blocks \cup {nextBlock}
    BY LastsOrStores, FlushCreateStores, CompactCreateStores DEF Lasts, Stores
  <2> QED
    BY <1>1, <2>1, <2>2
<1>3. /\ blocks'[id].pts = blocks[id].pts /\ blocks'[id].coarse = blocks[id].coarse
      /\ ~blocks[id].archived /\ blocks[id].state # "compacting"
  BY <1>1, <1>2, BlocksAge
<1>4. blocks[id].state = "immutable"
  BY <1>2, <1>3 DEF RefsIInv, Block
<1>5. p \in InRange(blocks[id], asked[r].range)
  BY <1>1, <1>3 DEF InRange
<1> QED
  BY <1>1, <1>2, <1>3, <1>4, <1>5 DEF Sought, InRange

\* A query visits the shard of a block that has a point in its range.
LEMMA CoveringFinds ==
    ASSUME ControlIInv, InsideWindow, NEW id \in Listed \cap DOMAIN blocks,
           blocks[id] \in Block, NEW rng \in (0..MaxInt) \X (0..MaxInt),
           NEW p \in InRange(blocks[id], rng)
    PROVE  \E i \in Covering(rng) : id \in shards[i].blocks
<1>1. PICK i \in DOMAIN shards : id \in shards[i].blocks
  BY DEF Listed
<1> DEFINE t == IF blocks[id].coarse THEN StepOf(TS[p]) ELSE TS[p]
<1>2. p \in blocks[id].pts /\ rng[1] <= t /\ t < rng[2]
  BY DEF InRange
<1>3. t \in Times(blocks[id])
  BY <1>2 DEF Times
<1>4. shards[i].start <= t /\ t < shards[i].end
  BY <1>1, <1>3 DEF InsideWindow, S!Covers
<1>5. t \in Int /\ rng[1] \in Int /\ rng[2] \in Int
  <2>1. TS[p] \in Nat
    BY <1>2, BlocksConstants DEF Block
  <2>2. StepOf(TS[p]) \in Int
    BY <2>1, StepDivides
  <2> QED
    BY <2>1, <2>2, BlocksConstants
<1>6. shards[i].start \in Int /\ shards[i].end \in Int
  BY ConstantsOfShards, SP!WindowsKnown DEF SP!Known, ControlIInv
<1> HIDE DEF t
<1>7. shards[i].start < rng[2] /\ shards[i].end > rng[1]
  BY <1>2, <1>4, <1>5, <1>6
<1> QED
  BY <1>1, <1>7 DEF Covering
-----------------------------------------------------------------------------
(* What a query has counted. *)

\* The parts of QueryIInv, of one query.
Ready(r) == at[r] = "idle" => todo[r] = {} /\ \A p \in Sample : got[r][p] = 0

Apart(r) == todo[r] \subseteq Listed /\ \A i \in asked[r].left : shards[i].blocks \cap todo[r] = {}

WatchesSettled(r) == \A p \in Sample : \A id \in asked[r].was[p] : Settled(id)

Counted(r, p, id) ==
    /\ Ahead(r, id) => held[r] # id
    /\ got[r][p] = IF Ahead(r, id) \/ held[r] = id THEN 0 ELSE 1
    /\ at[r] = "range" /\ p \in blocks[held[r]].pts => held[r] = id

QueryOK(r) ==
    /\ Ready(r) /\ Apart(r) /\ WatchesSettled(r)
    /\ \A p \in Sample : \A id \in Sought(r, p) : Counted(r, p, id)

LEMMA QueryParts == QueryIInv <=> \A r \in Reader : QueryOK(r)
  BY DEF QueryIInv, QueryOK, Ready, Apart, WatchesSettled, Counted

Invariants == ControlIInv /\ RefsIInv /\ RefsIInv' /\ WorkIInv /\ ListIInv

LEMMA ReaderTypes ==
    ASSUME ControlIInv, RefsIInv, NEW r \in Reader
    PROVE  /\ r \in Actor /\ asked[r].left \subseteq DOMAIN shards
           /\ todo[r] \in SUBSET (1..MaxBlocks)
           /\ asked[r].range \in (0..MaxInt) \X (0..MaxInt)
           /\ at[r] \notin Holding => held[r] = 0
           /\ held[r] # 0 => held[r] \in DOMAIN blocks
           /\ DOMAIN asked = Reader /\ DOMAIN got = Reader /\ DOMAIN todo = Actor
           /\ DOMAIN at = Actor /\ DOMAIN held = Actor
           /\ asked[r] = [range |-> asked[r].range, left |-> asked[r].left, was |-> asked[r].was]
           /\ got[r] \in [Sample -> Nat] /\ asked[r].was \in [Sample -> SUBSET (1..MaxBlocks)]
<1>1. asked[r] \in Query /\ DOMAIN asked = Reader /\ DOMAIN got = Reader /\ got[r] \in [Sample -> Nat]
  BY DEF ControlIInv, QueriesTyped, Query
<1>2. r \in Actor /\ DOMAIN todo = Actor /\ todo[r] \in SUBSET (1..MaxBlocks)
  BY DEF Actor, ControlIInv, TypeIInv
<1> QED
  BY <1>1, <1>2 DEF Query, RefsIInv, RefsExact

\* A step of somebody else.
LEMMA OthersQuery ==
    ASSUME Invariants, [Next]_vars, NEW r \in Reader, QueryOK(r),
           at'[r] = at[r], held'[r] = held[r], todo'[r] = todo[r],
           asked'[r] = asked[r], got'[r] = got[r]
    PROVE  QueryOK(r)'
<1>1. Ready(r)'
  BY DEF QueryOK, Ready
<1>2. Grows /\ asked[r].left \subseteq DOMAIN shards
  BY NextGrows, ReaderTypes DEF Invariants
<1>3. Apart(r)'
  <2>1. Apart(r)
    BY DEF QueryOK
  <2>2. todo'[r] \subseteq Listed'
    BY <1>2, <2>1 DEF Apart, Grows
  <2>3. \A i \in asked[r].left : \A id \in todo[r] : id \notin shards'[i].blocks
    BY <1>2, <2>1 DEF Apart, Grows
  <2> QED
    BY <2>2, <2>3 DEF Apart
<1>4. WatchesSettled(r)
  BY DEF QueryOK
<1>5. WatchesSettled(r)'
  BY <1>4, SettledStays DEF Invariants, WatchesSettled
<1>6. ASSUME NEW p \in Sample, NEW id \in Sought(r, p)' PROVE Counted(r, p, id)'
  <2>1. id \in asked[r].was[p]
    BY <1>6 DEF Sought
  <2>2. Settled(id)
    BY <1>4, <2>1 DEF WatchesSettled
  <2>3. id \in Sought(r, p)
    BY <1>6, <2>2, SoughtBefore DEF Invariants
  <2>4. Counted(r, p, id)
    BY <2>3 DEF QueryOK
  <2>5. Ahead(r, id)' <=> Ahead(r, id)
    BY <1>2, <2>2 DEF Ahead, Grows, Settled
  <2>6. at[r] = "range" => blocks'[held[r]].pts = blocks[held[r]].pts
    <3>1. at[r] = "range" => held[r] \in DOMAIN blocks /\ held'[r] \in DOMAIN blocks'
      BY ReaderTypes DEF Invariants, RefsIInv, RefsExact, Holding, Actor
    <3> QED
      BY <3>1, BlocksAge DEF Invariants
  <2> QED
    BY <2>4, <2>5, <2>6 DEF Counted
<1> QED
  BY <1>1, <1>3, <1>5, <1>6 DEF QueryOK

\* The query begins: what it will seek is in shards it is to visit.
LEMMA AskQuery ==
    ASSUME Invariants, NEW r \in Reader, NEW rng \in Ranges, Ask(r, rng), QueryOK(r), InsideWindow
    PROVE  QueryOK(r)'
<1>1. /\ r \in Actor /\ r \notin Compactor /\ DOMAIN at = Actor /\ DOMAIN asked = Reader
      /\ at[r] \notin Holding => held[r] = 0
  BY ReaderTypes, BlocksConstants DEF Invariants
<1>2. /\ at[r] = "idle" /\ at' = [at EXCEPT ![r] = "read"]
      /\ asked' = [asked EXCEPT ![r] = [range |-> rng, left |-> Covering(rng),
                                         was |-> [p \in Sample |-> OnlyIn(p)]]]
      /\ UNCHANGED <<shards, blocks, held, todo, work, got>>
  BY DEF Ask, Goto, shardVars, storeVars
<1>3. /\ at'[r] = "read" /\ held[r] = 0 /\ todo[r] = {}
      /\ asked'[r] = [range |-> rng, left |-> Covering(rng), was |-> [p \in Sample |-> OnlyIn(p)]]
      /\ \A p \in Sample : got[r][p] = 0
      /\ \A c \in Compactor : at'[c] = at[c]
  BY <1>1, <1>2 DEF QueryOK, Ready, Holding
<1>4. Listed' = Listed
  BY <1>2 DEF Listed
<1>5. ASSUME NEW p \in Sample, NEW id \in OnlyIn(p)
      PROVE  Settled(id)' /\ id \in Listed \cap DOMAIN blocks
  <2>1. id \in Listed /\ Opens(id) /\ id \in DOMAIN blocks /\ p \in blocks[id].pts
    BY <1>5 DEF OnlyIn, Showing, Opens
  <2>2. ASSUME NEW c \in Compactor, at[c] = "added", work[c].new = id
        PROVE  blocks[held[c]].archived
    <3>1. held[c] \in DOMAIN blocks /\ held[c] # id /\ p \in blocks[held[c]].pts
      BY <2>1, <2>2, Makes DEF Invariants, WorkIInv, Replaces, Section
    <3>2. ~Opens(held[c])
      BY <1>5, <3>1 DEF OnlyIn
    <3> QED
      BY <3>1, <3>2 DEF Opens
  <2> QED
    BY <1>2, <1>3, <1>4, <2>1, <2>2 DEF Settled
<1>6. ASSUME NEW p \in Sample, NEW id \in Sought(r, p)' PROVE Counted(r, p, id)'
  <2>1. id \in OnlyIn(p) /\ p \in InRange(blocks[id], rng)
    BY <1>2, <1>3, <1>6 DEF Sought, InRange
  <2>2. id \in Listed \cap DOMAIN blocks /\ id # 0 /\ blocks[id] \in Block
    BY <1>5, <2>1, RefsParts DEF Invariants, RefsIInv
  <2>3. rng \in (0..MaxInt) \X (0..MaxInt)
    BY BlocksConstants
  <2>4. \E i \in Covering(rng) : id \in shards[i].blocks
    BY <2>1, <2>2, <2>3, CoveringFinds DEF Invariants
  <2>5. Ahead(r, id)'
    BY <1>2, <1>3, <2>4 DEF Ahead
  <2> QED
    BY <1>2, <1>3, <2>2, <2>5 DEF Counted
<1>7. WatchesSettled(r)'
  BY <1>3, <1>5 DEF WatchesSettled
<1>8. Ready(r)' /\ Apart(r)'
  BY <1>2, <1>3 DEF Ready, Apart
<1> QED
  BY <1>6, <1>7, <1>8 DEF QueryOK

\* The query ends.
LEMMA EndQueryQuery ==
    ASSUME Invariants, NEW r \in Reader, ReadPanics(r) \/ Answer(r), QueryOK(r)
    PROVE  QueryOK(r)'
<1>1. /\ at'[r] = "idle" /\ todo'[r] = {} /\ asked'[r] = NoQuery
      /\ \A p \in Sample : got'[r][p] = 0
  <2>1. /\ at' = [at EXCEPT ![r] = "idle"] /\ asked' = [asked EXCEPT ![r] = NoQuery]
        /\ got' = [got EXCEPT ![r] = [p \in Sample |-> 0]]
        /\ (todo' = [todo EXCEPT ![r] = {}]) \/ (todo[r] = {} /\ UNCHANGED todo)
    BY DEF ReadPanics, Answer, EndQuery, Goto
  <2>2. DOMAIN at = Actor /\ DOMAIN asked = Reader /\ DOMAIN got = Reader /\ DOMAIN todo = Actor /\ r \in Actor
    BY ReaderTypes DEF Invariants
  <2> QED
    BY <2>1, <2>2
<1>2. asked'[r].left = {} /\ \A p \in Sample : asked'[r].was[p] = {}
  BY <1>1 DEF NoQuery
<1>3. \A p \in Sample : Sought(r, p)' = {}
  BY <1>2 DEF Sought
<1> QED
  BY <1>1, <1>2, <1>3 DEF QueryOK, Ready, Apart, WatchesSettled
\* A query reads the list of the next shard: what is ahead stays ahead.
LEMMA ReadShardQuery ==
    ASSUME Invariants, NEW r \in Reader, ReadShard(r), QueryOK(r),
           \A id : Settled(id) => Settled(id)',
           \A p \in Sample : \A id : id \in Sought(r, p)' => id \in Sought(r, p)
    PROVE  QueryOK(r)'
<1>1. /\ r \in Actor /\ asked[r].left \subseteq DOMAIN shards
      /\ DOMAIN asked = Reader /\ DOMAIN todo = Actor
      /\ asked[r] = [range |-> asked[r].range, left |-> asked[r].left, was |-> asked[r].was]
      /\ at[r] \notin Holding => held[r] = 0
  BY ReaderTypes DEF Invariants
<1> DEFINE left == asked[r].left
<1>2. PICK i \in left : /\ i \in DOMAIN shards /\ todo'[r] = shards[i].blocks
                        /\ asked'[r].left = left \ {i} /\ asked'[r].was = asked[r].was
  <2>1. left \in SUBSET Nat /\ left # {}
    BY <1>1, SP!WindowsKnown, ConstantsOfShards DEF Invariants, ControlIInv, SP!Known, ReadShard
  <2>2. Min(left) \in left
    BY <2>1, MinIsFirst
  <2>3. todo'[r] = shards[Min(left)].blocks /\ asked'[r] = [asked[r] EXCEPT !.left = left \ {Min(left)}]
    BY <1>1 DEF ReadShard
  <2> QED
    BY <1>1, <2>2, <2>3
<1>3. /\ at[r] = "read" /\ todo[r] = {} /\ held[r] = 0
      /\ UNCHANGED <<shards, blocks, held, at, got, work>>
  BY <1>1 DEF ReadShard, shardVars, storeVars, Holding
<1>4. Listed' = Listed
  BY <1>3 DEF Listed
<1>5. Apart(r)'
  BY <1>1, <1>2, <1>3, <1>4 DEF Apart, Invariants, ListIInv, Listed
<1>6. WatchesSettled(r)'
  BY <1>2 DEF QueryOK, WatchesSettled
<1>7. \A id : Ahead(r, id)' <=> Ahead(r, id)
  BY <1>2, <1>3 DEF Ahead
<1>8. ASSUME NEW p \in Sample, NEW id \in Sought(r, p)' PROVE Counted(r, p, id)'
  <2>1. Counted(r, p, id)
    BY <1>8 DEF QueryOK
  <2> QED
    BY <1>3, <1>7, <2>1 DEF Counted
<1>9. Ready(r)'
  BY <1>3 DEF Ready
<1> QED
  BY <1>5, <1>6, <1>8, <1>9 DEF QueryOK

\* A query opens the next block, or finds it gone or archived.
LEMMA ReadOpenQuery ==
    ASSUME Invariants, NoTwins, NEW r \in Reader, NEW x, ReadOpen(r, x), QueryOK(r),
           \A id : Settled(id) => Settled(id)',
           \A p \in Sample : \A id : id \in Sought(r, p)' => id \in Sought(r, p),
           \A id \in DOMAIN blocks \cap DOMAIN blocks' : blocks'[id].pts = blocks[id].pts
    PROVE  QueryOK(r)'
<1>1. /\ r \in Actor /\ DOMAIN todo = Actor /\ DOMAIN held = Actor /\ DOMAIN at = Actor
      /\ at[r] \notin Holding => held[r] = 0
  BY ReaderTypes DEF Invariants
<1>2. /\ at[r] = "read" /\ x \in todo[r] /\ held[r] = 0 /\ todo'[r] = todo[r] \ {x}
      /\ UNCHANGED <<shards, asked, got>>
  BY <1>1 DEF ReadOpen, shardVars, queryVars, Holding
<1>3. \/ Opens(x) /\ held'[r] = x /\ at'[r] = "range" /\ x \in DOMAIN blocks'
      \/ ~Opens(x) /\ held'[r] = 0 /\ at'[r] = "read"
  <2>1. CASE Opens(x)
    <3>1. /\ blocks' = [blocks EXCEPT ![x].refs = @ + 1]
          /\ held' = [held EXCEPT ![r] = x] /\ at' = [at EXCEPT ![r] = "range"]
      BY <2>1 DEF ReadOpen, Acquired, Goto
    <3>2. held'[r] = x /\ at'[r] = "range"
      BY <1>1, <3>1
    <3>3. x \in DOMAIN blocks'
      BY <2>1, <3>1 DEF Opens
    <3> QED
      BY <2>1, <3>2, <3>3
  <2>2. CASE ~Opens(x)
    BY <1>2, <2>2 DEF ReadOpen
  <2> QED
    BY <2>1, <2>2
<1>4. Listed' = Listed /\ x \in Listed
  BY <1>2 DEF Listed, QueryOK, Apart
<1>5. Ready(r)' /\ Apart(r)'
  BY <1>2, <1>3, <1>4 DEF QueryOK, Ready, Apart
<1>6. WatchesSettled(r)'
  BY <1>2 DEF QueryOK, WatchesSettled
<1>7. \A id : id # x => (Ahead(r, id)' <=> Ahead(r, id))
  BY <1>2 DEF Ahead
<1>8. ~Ahead(r, x)' /\ Ahead(r, x)
  BY <1>2 DEF Ahead, QueryOK, Apart
<1>9. ASSUME NEW p \in Sample, NEW id \in Sought(r, p)' PROVE Counted(r, p, id)'
  <2>1. Counted(r, p, id) /\ id \in Sought(r, p)
    BY <1>9 DEF QueryOK
  <2>2. /\ id \in DOMAIN blocks /\ blocks[id].state = "immutable" /\ ~blocks[id].archived
        /\ p \in blocks[id].pts /\ Settled(id) /\ Opens(id) /\ id # 0
    BY <2>1, RefsParts DEF Sought, InRange, QueryOK, WatchesSettled, Opens, Invariants
  <2>3. CASE id = x
    BY <1>2, <1>3, <1>8, <2>1, <2>2, <2>3 DEF Counted
  <2>4. CASE id # x
    <3>1. at'[r] = "range" => p \notin blocks'[held'[r]].pts
      <4> SUFFICES ASSUME at'[r] = "range", p \in blocks'[held'[r]].pts PROVE FALSE
        OBVIOUS
      <4>1. Opens(x) /\ held'[r] = x /\ x \in DOMAIN blocks'
        BY <1>3
      <4>2. p \in blocks[x].pts
        BY <4>1 DEF Opens
      <4> QED
        BY <1>4, <2>2, <2>4, <4>1, <4>2, Alone DEF Invariants
    <3> QED
      BY <1>2, <1>3, <1>7, <2>1, <2>2, <2>4, <3>1 DEF Counted
  <2> QED
    BY <2>3, <2>4
<1> QED
  BY <1>5, <1>6, <1>9 DEF QueryOK

\* A query counts what a block has in the range.
LEMMA ReadRangeQuery ==
    ASSUME Invariants, NEW r \in Reader, ReadRange(r), QueryOK(r),
           \A id : Settled(id) => Settled(id)',
           \A p \in Sample : \A id : id \in Sought(r, p)' => id \in Sought(r, p)
    PROVE  QueryOK(r)'
<1> DEFINE met == InRange(blocks[held[r]], asked[r].range)
<1>1. /\ r \in Actor /\ DOMAIN got = Reader /\ DOMAIN held = Actor /\ DOMAIN at = Actor
      /\ got[r] \in [Sample -> Nat]
  BY ReaderTypes DEF Invariants
<1>2. /\ at[r] = "range" /\ held'[r] = 0 /\ at'[r] = "read"
      /\ UNCHANGED <<shards, asked, todo>>
  BY <1>1 DEF ReadRange, shardVars, Goto
<1>3. \A p \in Sample : got'[r][p] = IF p \in met THEN got[r][p] + 1 ELSE got[r][p]
  BY <1>1 DEF ReadRange
<1>4. Listed' = Listed
  BY <1>2 DEF Listed
<1>5. Ready(r)' /\ Apart(r)' /\ WatchesSettled(r)'
  BY <1>2, <1>4 DEF QueryOK, Ready, Apart, WatchesSettled
<1>6. \A id : Ahead(r, id)' <=> Ahead(r, id)
  BY <1>2 DEF Ahead
<1>7. ASSUME NEW p \in Sample, NEW id \in Sought(r, p)' PROVE Counted(r, p, id)'
  <2>1. Counted(r, p, id) /\ id \in Sought(r, p) /\ got[r][p] \in Nat
    BY <1>1, <1>7 DEF QueryOK
  <2>2. id \in DOMAIN blocks /\ p \in InRange(blocks[id], asked[r].range) /\ id # 0
    BY <2>1, RefsParts DEF Sought, Invariants
  <2>3. p \in met <=> held[r] = id
    <3>1. p \in met => p \in blocks[held[r]].pts
      BY DEF InRange
    <3> QED
      BY <1>2, <2>1, <2>2, <3>1 DEF Counted
  <2>4. got'[r][p] = IF held[r] = id THEN got[r][p] + 1 ELSE got[r][p]
    BY <1>3, <2>3
  <2> QED
    BY <1>2, <1>6, <2>1, <2>2, <2>4 DEF Counted
<1> QED
  BY <1>5, <1>7 DEF QueryOK
LEMMA NextQuery ==
    ASSUME Invariants, NoTwins, InsideWindow, QueryIInv, [Next]_vars
    PROVE  QueryIInv'
<1> SUFFICES ASSUME NEW r \in Reader PROVE QueryOK(r)'
  BY DEF QueryIInv, QueryOK, Ready, Apart, WatchesSettled, Counted
<1>1. QueryOK(r)
  BY QueryParts
<1>2. \A id : Settled(id) => Settled(id)'
  BY SettledStays DEF Invariants
<1>3. ASSUME asked'[r].was = asked[r].was, asked'[r].range = asked[r].range
      PROVE  \A p \in Sample : \A id : id \in Sought(r, p)' => id \in Sought(r, p)
  <2> SUFFICES ASSUME NEW p \in Sample, NEW id \in Sought(r, p)' PROVE id \in Sought(r, p)
    OBVIOUS
  <2>1. id \in asked[r].was[p]
    BY <1>3 DEF Sought
  <2>2. Settled(id)
    BY <1>1, <2>1 DEF QueryOK, WatchesSettled
  <2> QED
    BY <1>3, <2>2, SoughtBefore DEF Invariants
<1>4. \A id \in DOMAIN blocks \cap DOMAIN blocks' : blocks'[id].pts = blocks[id].pts
  BY BlocksAge DEF Invariants
<1>5. DOMAIN asked = Reader
      /\ asked[r] = [range |-> asked[r].range, left |-> asked[r].left, was |-> asked[r].was]
  BY ReaderTypes DEF Invariants
<1>6. CASE ReadShard(r)
  <2>1. asked'[r].was = asked[r].was /\ asked'[r].range = asked[r].range
    BY <1>5, <1>6 DEF ReadShard
  <2> QED
    BY <1>1, <1>2, <1>3, <1>6, <2>1, ReadShardQuery
<1>7. ASSUME NEW x, ReadOpen(r, x) PROVE QueryOK(r)'
  <2>1. asked' = asked
    BY <1>7 DEF ReadOpen, queryVars
  <2> QED
    BY <1>1, <1>2, <1>3, <1>4, <1>7, <2>1, ReadOpenQuery
<1>8. CASE ReadRange(r)
  <2>1. asked' = asked
    BY <1>8 DEF ReadRange
  <2> QED
    BY <1>1, <1>2, <1>3, <1>8, <2>1, ReadRangeQuery
<1>9. CASE ReadPanics(r) \/ Answer(r)
  BY <1>1, <1>9, EndQueryQuery
<1>10. ASSUME NEW rng \in Ranges, Ask(r, rng) PROVE QueryOK(r)'
  BY <1>1, <1>10, AskQuery
<1>11. CASE /\ at'[r] = at[r] /\ held'[r] = held[r] /\ todo'[r] = todo[r]
            /\ asked'[r] = asked[r] /\ got'[r] = got[r]
  BY <1>1, <1>11, OthersQuery
<1> QED
  BY <1>6, <1>7, <1>8, <1>9, <1>10, <1>11, ReaderKinds DEF Invariants, ReadStep

LEMMA InitQuery == Init => QueryIInv
<1> SUFFICES ASSUME Init, NEW r \in Reader PROVE QueryOK(r)
  BY QueryParts
<1>1. r \in Actor
  BY DEF Actor
<1>2. /\ at[r] = "idle" /\ todo[r] = {} /\ asked[r] = NoQuery
      /\ \A p \in Sample : got[r][p] = 0
  BY <1>1 DEF Init
<1>3. asked[r].left = {} /\ \A p \in Sample : asked[r].was[p] = {}
  BY <1>2 DEF NoQuery
<1>4. \A p \in Sample : Sought(r, p) = {}
  BY <1>3 DEF Sought
<1> QED
  BY <1>2, <1>3, <1>4 DEF QueryOK, Ready, Apart, WatchesSettled

\* Until a window wraps, every query has counted of the samples that it seeks
\* those it is past and no others, and comes to the rest yet.
THEOREM QueryInductive ==
    ASSUME Divides
    PROVE  Spec => [](S!NoneWrapped => QueryIInv)
<1> DEFINE IInv == S!NoneWrapped => QueryIInv
           Within == S!NoneWrapped => InsideWindow
<1>1. /\ ControlIInv /\ RefsIInv /\ RefsIInv' /\ WorkIInv /\ ListIInv /\ WindowIInv
      /\ Within /\ IInv /\ [Next]_vars
      => IInv'
  <2> SUFFICES ASSUME Invariants, WindowIInv, Within, IInv, [Next]_vars, S!NoneWrapped'
               PROVE  QueryIInv'
    BY DEF Invariants
  <2>1. S!NoneWrapped
    BY ShardsMove, NewestMovesOn DEF Invariants, ControlIInv
  <2> QED
    BY <2>1, NextQuery DEF WindowIInv
<1>2. Init => IInv
  BY InitQuery
<1>3. Spec => []Within
  BY InsideWindowHolds
<1> HIDE DEF IInv, Within
<1>4. Spec => []IInv
  BY <1>1, <1>2, <1>3, ControlInductive, RefsInductive, WorkInductive, ListInductive,
     WindowInductive, PTL DEF Spec
<1> QED
  BY <1>4 DEF IInv

\* With a downsampling step that divides the window, and until a window wraps, a
\* query has at its end counted exactly once every sample that was in one block as
\* it began and stayed there (QueryExact), however flushes, rotations, sweeps,
\* panicking queries and compactions of other blocks came in between.
THEOREM QueryExactHolds ==
    ASSUME Divides
    PROVE  Spec => [](S!NoneWrapped => QueryExact)
<1>1. ControlIInv /\ RefsIInv /\ QueryIInv => QueryExact
  <2> SUFFICES ASSUME ControlIInv, RefsIInv, QueryIInv, NEW r \in Reader,
                      at[r] = "read", todo[r] = {}, asked[r].left = {},
                      NEW p \in Sample, NEW id \in Sought(r, p)
               PROVE  got[r][p] = 1
    BY DEF QueryExact
  <2>1. held[r] = 0 /\ id # 0
    BY ReaderTypes, RefsParts DEF Holding, Sought
  <2>2. ~Ahead(r, id)
    BY DEF Ahead
  <2> QED
    BY <2>1, <2>2 DEF QueryIInv
<1> DEFINE IInv == S!NoneWrapped => QueryIInv
           Exactly == S!NoneWrapped => QueryExact
<1>2. ControlIInv /\ RefsIInv /\ IInv => Exactly
  BY <1>1
<1>3. Spec => []IInv
  BY QueryInductive
<1> HIDE DEF IInv, Exactly
<1>4. Spec => []Exactly
  BY <1>2, <1>3, ControlInductive, RefsInductive, PTL
<1> QED
  BY <1>4 DEF Exactly
=============================================================================
