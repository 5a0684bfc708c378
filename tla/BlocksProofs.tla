---------------------------- MODULE BlocksProofs ----------------------------
(***************************************************************************)
(* Proof that reference counting in Blocks.tla is exact, for any number of *)
(* samples, blocks, compactions and queries.                               *)
(***************************************************************************)
EXTENDS Blocks, FiniteSetTheorems, TLAPS

\* Who holds a block, and the places of a block in a sequence.
Of(h, id) == {a \in Actor : h[a] = id}

At(l, id) == {i \in DOMAIN l : l[i] = id}

\* RefsExact of any store B, references h and leaks l.
Exact(B, h, l) ==
    /\ \A a \in Actor : h[a] # 0 => h[a] \in DOMAIN B
    /\ \A id \in DOMAIN B : B[id].refs = Cardinality(Of(h, id)) + Cardinality(At(l, id))

Typed(B) == B \in [DOMAIN B -> Block]

LEMMA ActorsFinite == IsFiniteSet(Actor)
  BY BlocksConstants, FS_Union, FS_AddElement, FS_EmptySet, FS_Singleton DEF Actor

LEMMA RefsExactIs == RefsExact <=> Exact(blocks, held, leaked)
  BY DEF RefsExact, Exact, Holders, Leaks, Of, At

LEMMA NextRefsExactIs == RefsExact' <=> Exact(blocks', held', leaked')
  BY DEF RefsExact, Exact, Holders, Leaks, Of, At

\* The goroutines that hold a block are finitely many.
LEMMA HoldersFinite ==
    ASSUME NEW h, NEW id
    PROVE  IsFiniteSet(Of(h, id)) /\ Cardinality(Of(h, id)) \in Nat
<1>1. Of(h, id) \subseteq Actor
  BY DEF Of
<1> QED
  BY <1>1, ActorsFinite, FS_Subset, FS_CardinalityType

\* So are the leaks of a block.
LEMMA LeaksFinite ==
    ASSUME NEW T, NEW l \in Seq(T), NEW id
    PROVE  IsFiniteSet(At(l, id)) /\ Cardinality(At(l, id)) \in Nat
<1>1. At(l, id) \subseteq 1..Len(l)
  BY DEF At
<1>2. IsFiniteSet(1..Len(l))
  BY FS_Interval
<1> QED
  BY <1>1, <1>2, FS_Subset, FS_CardinalityType

\* A set with a member more, or less.
LEMMA OneMore ==
    ASSUME NEW X, IsFiniteSet(X), NEW x, x \notin X, NEW Y, Y = X \cup {x}
    PROVE  Cardinality(Y) = Cardinality(X) + 1
  BY FS_AddElement

LEMMA OneLess ==
    ASSUME NEW X, IsFiniteSet(X), NEW x, x \in X, NEW Y, Y = X \ {x}
    PROVE  Cardinality(Y) = Cardinality(X) - 1
  BY FS_RemoveElement

\* A count goes up or down by one.
LEMMA CountedBlock ==
    ASSUME NEW b \in Block, NEW n \in Nat
    PROVE  [b EXCEPT !.refs = n] \in Block /\ [b EXCEPT !.refs = n].refs = n
  BY DEF Block

\* A goroutine takes a reference.
LEMMA AcquireExact ==
    ASSUME NEW B, NEW h \in [Actor -> Nat], NEW T, NEW l \in Seq(T), Typed(B), Exact(B, h, l),
           0 \notin DOMAIN B, NEW a \in Actor, h[a] = 0, NEW id \in DOMAIN B
    PROVE  /\ Exact([B EXCEPT ![id].refs = @ + 1], [h EXCEPT ![a] = id], l)
           /\ Typed([B EXCEPT ![id].refs = @ + 1])
<1> DEFINE C == [B EXCEPT ![id].refs = @ + 1]
           g == [h EXCEPT ![a] = id]
<1>1. \A i \in DOMAIN B : B[i] \in Block
  BY DEF Typed
<1>2. /\ DOMAIN C = DOMAIN B
      /\ \A i \in DOMAIN B : C[i] \in Block
      /\ C[id].refs = B[id].refs + 1
      /\ \A i \in DOMAIN B \ {id} : C[i] = B[i]
  BY <1>1 DEF Block
<1>3. Of(g, id) = Of(h, id) \cup {a} /\ a \notin Of(h, id)
  BY DEF Of, Exact
<1>4. Cardinality(Of(g, id)) = Cardinality(Of(h, id)) + 1
  BY <1>3, HoldersFinite, OneMore
<1>5. \A i \in DOMAIN B \ {id} : Of(g, i) = Of(h, i)
  BY DEF Of
<1> HIDE DEF C, g
<1>6. ASSUME NEW i \in DOMAIN B
      PROVE  C[i].refs = Cardinality(Of(g, i)) + Cardinality(At(l, i))
  <2>1. B[i].refs = Cardinality(Of(h, i)) + Cardinality(At(l, i))
    BY DEF Exact
  <2>2. CASE i = id
    BY <2>1, <2>2, <1>2, <1>4, HoldersFinite, LeaksFinite
  <2>3. CASE i # id
    BY <2>1, <2>3, <1>2, <1>5
  <2> QED
    BY <2>2, <2>3
<1>7. \A b \in Actor : g[b] # 0 => g[b] \in DOMAIN B
  BY DEF Exact, g
<1>8. C = [i \in DOMAIN C |-> C[i]]
  BY DEF C
<1> QED
  BY <1>2, <1>6, <1>7, <1>8 DEF Exact, Typed, C, g

\* A goroutine that has a reference gives it back, and it was counted.
LEMMA CloseExact ==
    ASSUME NEW B, NEW h \in [Actor -> Nat], NEW T, NEW l \in Seq(T), Typed(B), Exact(B, h, l),
           0 \notin DOMAIN B, NEW a \in Actor, h[a] # 0
    PROVE  /\ h[a] \in DOMAIN B /\ B[h[a]].refs > 0
           /\ Exact([B EXCEPT ![h[a]].refs = @ - 1], [h EXCEPT ![a] = 0], l)
           /\ Typed([B EXCEPT ![h[a]].refs = @ - 1])
<1> DEFINE id == h[a]
           C == [B EXCEPT ![id].refs = @ - 1]
           g == [h EXCEPT ![a] = 0]
<1>1. id \in DOMAIN B /\ \A i \in DOMAIN B : B[i] \in Block
  BY DEF Typed, Exact
<1>2. Of(g, id) = Of(h, id) \ {a} /\ a \in Of(h, id)
  BY DEF Of
<1>3. Cardinality(Of(g, id)) = Cardinality(Of(h, id)) - 1 /\ Cardinality(Of(g, id)) \in Nat
  <2> HIDE DEF g, id
  <2> QED
    BY <1>2, HoldersFinite, OneLess
<1>4. B[id].refs > 0 /\ B[id].refs \in Nat
  <2>1. B[id].refs = Cardinality(Of(h, id)) + Cardinality(At(l, id))
    BY <1>1 DEF Exact
  <2> QED
    BY <2>1, <1>3, HoldersFinite, LeaksFinite
<1>5. /\ DOMAIN C = DOMAIN B
      /\ \A i \in DOMAIN B : C[i] \in Block
      /\ C[id].refs = B[id].refs - 1
      /\ \A i \in DOMAIN B \ {id} : C[i] = B[i]
  <2>1. /\ DOMAIN C = DOMAIN B /\ C[id] = [B[id] EXCEPT !.refs = @ - 1]
        /\ \A i \in DOMAIN B \ {id} : C[i] = B[i]
    BY <1>1
  <2>2. B[id] \in Block /\ B[id].refs - 1 \in Nat
    BY <1>1, <1>4
  <2> HIDE DEF C
  <2>3. C[id] \in Block /\ C[id].refs = B[id].refs - 1
    BY <2>1, <2>2, CountedBlock
  <2> QED
    BY <1>1, <2>1, <2>3
<1>6. \A i \in DOMAIN B \ {id} : Of(g, i) = Of(h, i)
  BY DEF Of
<1> HIDE DEF C, g
<1>7. ASSUME NEW i \in DOMAIN B
      PROVE  C[i].refs = Cardinality(Of(g, i)) + Cardinality(At(l, i))
  <2>1. B[i].refs = Cardinality(Of(h, i)) + Cardinality(At(l, i))
    BY DEF Exact
  <2>2. CASE i = id
    BY <2>1, <2>2, <1>3, <1>5, HoldersFinite, LeaksFinite
  <2>3. CASE i # id
    BY <2>1, <2>3, <1>5, <1>6
  <2> QED
    BY <2>2, <2>3
<1>8. \A b \in Actor : g[b] # 0 => g[b] \in DOMAIN B
  BY DEF Exact, g
<1>9. C = [i \in DOMAIN C |-> C[i]]
  BY DEF C
<1> QED
  BY <1>1, <1>4, <1>5, <1>7, <1>8, <1>9 DEF Exact, Typed, C, g

\* A goroutine panics with a reference: it holds the block no more, and the
\* count stays.
LEMMA LeakExact ==
    ASSUME NEW B, NEW h \in [Actor -> Nat], NEW T, NEW l \in Seq(T), Exact(B, h, l),
           0 \notin DOMAIN B, NEW a \in Actor, h[a] # 0, h[a] \in T
    PROVE  Exact(B, [h EXCEPT ![a] = 0], Append(l, h[a]))
<1> DEFINE id == h[a]
           g == [h EXCEPT ![a] = 0]
           k == Append(l, id)
<1>1. Of(g, id) = Of(h, id) \ {a} /\ a \in Of(h, id)
  BY DEF Of
<1> HIDE DEF g, id
<1>2. Cardinality(Of(g, id)) = Cardinality(Of(h, id)) - 1 /\ Cardinality(Of(g, id)) \in Nat
  BY <1>1, HoldersFinite, OneLess
<1> USE DEF g, id
<1>3. /\ DOMAIN k = DOMAIN l \cup {Len(l) + 1} /\ Len(l) + 1 \notin DOMAIN l
      /\ k[Len(l) + 1] = id /\ \A j \in DOMAIN l : k[j] = l[j]
  OBVIOUS
<1>4. At(k, id) = At(l, id) \cup {Len(l) + 1} /\ Len(l) + 1 \notin At(l, id)
  BY <1>3 DEF At
<1>5. Cardinality(At(k, id)) = Cardinality(At(l, id)) + 1
  BY <1>4, LeaksFinite, OneMore
<1>6. \A i \in DOMAIN B \ {id} : Of(g, i) = Of(h, i) /\ At(k, i) = At(l, i)
  BY <1>3 DEF Of, At
<1>7. ASSUME NEW i \in DOMAIN B
      PROVE  B[i].refs = Cardinality(Of(g, i)) + Cardinality(At(k, i))
  <2>1. B[i].refs = Cardinality(Of(h, i)) + Cardinality(At(l, i))
    BY DEF Exact
  <2>2. CASE i = id
    BY <2>1, <2>2, <1>2, <1>5, HoldersFinite, LeaksFinite
  <2>3. CASE i # id
    BY <2>1, <2>3, <1>6
  <2> QED
    BY <2>2, <2>3
<1>8. \A b \in Actor : g[b] # 0 => g[b] \in DOMAIN B
  BY DEF Exact
<1> QED
  BY <1>7, <1>8 DEF Exact

\* The id of a new block is not in use.
Creatable(B, h, l, id) ==
    /\ Typed(B) /\ Exact(B, h, l)
    /\ id # 0 /\ id \notin DOMAIN B /\ At(l, id) = {}

\* A new block, which nobody has a reference to.
LEMMA CreateExact ==
    ASSUME NEW B, NEW h, NEW l, NEW id, Creatable(B, h, l, id), NEW b \in Block, b.refs = 0
    PROVE  Exact(Create(B, id, b), h, l) /\ Typed(Create(B, id, b))
<1> DEFINE C == Create(B, id, b)
<1>1. /\ DOMAIN C = DOMAIN B \cup {id}
      /\ C[id] = b /\ \A i \in DOMAIN B : C[i] = B[i]
  BY DEF Create, Creatable
<1>2. C = [i \in DOMAIN C |-> C[i]]
  BY DEF Create, Creatable
<1>3. Typed(C)
  BY <1>1, <1>2 DEF Typed, Creatable
<1>4. Of(h, id) = {}
  BY DEF Exact, Of, Creatable
<1>5. C[id].refs = Cardinality(Of(h, id)) + Cardinality(At(l, id))
  BY <1>1, <1>4, FS_EmptySet DEF Creatable
<1> QED
  BY <1>1, <1>3, <1>5 DEF Exact, Creatable

\* A change of anything but references.
LEMMA SameExact ==
    ASSUME NEW B, NEW h, NEW l, Exact(B, h, l), NEW C, DOMAIN C = DOMAIN B,
           \A id \in DOMAIN B : C[id].refs = B[id].refs
    PROVE  Exact(C, h, l)
  BY DEF Exact

\* A reclaim drops blocks without references only.
LEMMA ReclaimExact ==
    ASSUME Typed(blocks), NEW h \in [Actor -> Nat], NEW T, NEW l \in Seq(T), Exact(blocks, h, l),
           0 \notin DOMAIN blocks
    PROVE  /\ Exact(Reclaimed, h, l) /\ Typed(Reclaimed)
           /\ DOMAIN Reclaimed \subseteq DOMAIN blocks
<1>1. /\ DOMAIN Reclaimed = {i \in DOMAIN blocks : ~Reclaimable(blocks[i])}
      /\ \A i \in DOMAIN Reclaimed : Reclaimed[i] = blocks[i]
      /\ Reclaimed = [i \in DOMAIN Reclaimed |-> Reclaimed[i]]
  BY DEF Reclaimed
<1>2. ASSUME NEW a \in Actor, h[a] # 0 PROVE h[a] \in DOMAIN Reclaimed
  <2>1. h[a] \in DOMAIN blocks /\ blocks[h[a]].refs > 0
    BY <1>2, CloseExact
  <2> QED
    BY <2>1, <1>1 DEF Reclaimable
<1> QED
  BY <1>1, <1>2 DEF Exact, Typed

-----------------------------------------------------------------------------
(* The shapes of step. *)

\* What the invariant says, in the form the lemmas above use.
LEMMA RefsParts ==
    ASSUME RefsIInv
    PROVE  /\ Typed(blocks) /\ Exact(blocks, held, leaked)
           /\ 0 \notin DOMAIN blocks /\ nextBlock \notin DOMAIN blocks
           /\ nextBlock \in Nat /\ nextBlock # 0
           /\ held \in [Actor -> Nat] /\ at \in [Actor -> Places]
           /\ leaked \in Seq(1..(nextBlock - 1)) /\ At(leaked, nextBlock) = {}
           /\ \A a \in Actor : held[a] # 0 <=> at[a] \in Holding
<1>1. At(leaked, nextBlock) = {}
  BY DEF RefsIInv, At
<1> QED
  BY <1>1, RefsExactIs DEF RefsIInv, Typed

\* References and holders stay: a step between two calls, or one of the shards.
LEMMA Passing ==
    ASSUME RefsIInv, UNCHANGED <<blocks, nextBlock, held, fresh, leaked>>,
           at' \in [Actor -> Places], \A a \in Actor : at'[a] \in Holding <=> at[a] \in Holding
    PROVE  RefsIInv'
<1>1. RefsExact'
  BY RefsParts, NextRefsExactIs
<1> QED
  BY <1>1 DEF RefsIInv

\* A goroutine opens a block.
LEMMA Opening ==
    ASSUME RefsIInv, NEW a \in Actor, at[a] \notin Holding, NEW id, Opens(id), Acquired(a, id),
           NEW place \in Holding, Goto(a, place), UNCHANGED <<nextBlock, fresh, leaked>>
    PROVE  RefsIInv'
<1>1. /\ held[a] = 0 /\ id \in DOMAIN blocks /\ id \in Nat /\ id # 0
      /\ blocks' = [blocks EXCEPT ![id].refs = @ + 1] /\ held' = [held EXCEPT ![a] = id]
  BY RefsParts DEF Opens, Acquired, RefsIInv
<1>2. Exact(blocks', held', leaked') /\ Typed(blocks')
  BY <1>1, RefsParts, AcquireExact
<1>3. DOMAIN blocks' = DOMAIN blocks
  BY <1>1
<1>4. held' \in [Actor -> Nat] /\ at' \in [Actor -> Places]
  BY <1>1, RefsParts DEF Goto, Holding, Places
<1>5. \A b \in Actor : held'[b] # 0 <=> at'[b] \in Holding
  BY <1>1, RefsParts DEF Goto
<1> QED
  BY <1>2, <1>3, <1>4, <1>5, NextRefsExactIs DEF RefsIInv, Typed

\* A goroutine closes its block, and perhaps archives it.
LEMMA Closing ==
    ASSUME RefsIInv, NEW a \in Actor, at[a] \in Holding,
           \/ blocks' = Closed(blocks, a)
           \/ blocks' = Archive(Closed(blocks, a), held[a]),
           held' = [held EXCEPT ![a] = 0],
           NEW place \in Places \ Holding, Goto(a, place), UNCHANGED <<nextBlock, fresh, leaked>>
    PROVE  RefsIInv'
<1> DEFINE C == [blocks EXCEPT ![held[a]].refs = @ - 1]
<1>1. /\ held[a] # 0 /\ held[a] \in DOMAIN blocks /\ blocks[held[a]].refs > 0
      /\ Exact(C, held', leaked) /\ Typed(C)
  BY RefsParts, CloseExact
<1>2. Closed(blocks, a) = C /\ DOMAIN C = DOMAIN blocks
  BY <1>1 DEF Closed
<1> HIDE DEF C
<1>3. Exact(blocks', held', leaked) /\ Typed(blocks') /\ DOMAIN blocks' = DOMAIN C
  <2>1. CASE blocks' = C
    BY <2>1, <1>1
  <2>2. CASE blocks' = [C EXCEPT ![held[a]].archived = TRUE]
    <3>1. \A i \in DOMAIN C : C[i] \in Block
      BY <1>1 DEF Typed
    <3>2. /\ DOMAIN blocks' = DOMAIN C
          /\ \A i \in DOMAIN C : blocks'[i] \in Block /\ blocks'[i].refs = C[i].refs
      BY <2>2, <3>1 DEF Block
    <3> QED
      BY <1>1, <2>2, <3>2, SameExact DEF Typed
  <2> QED
    BY <1>1, <1>2, <2>1, <2>2 DEF Archive
<1>4. held' \in [Actor -> Nat] /\ at' \in [Actor -> Places]
  BY RefsParts DEF Goto
<1>5. \A b \in Actor : held'[b] # 0 <=> at'[b] \in Holding
  BY RefsParts DEF Goto
<1> QED
  BY <1>2, <1>3, <1>4, <1>5, NextRefsExactIs DEF RefsIInv, Typed

\* The blocks change, and no reference to one does.
LEMMA Storing ==
    ASSUME RefsIInv, UNCHANGED <<held, leaked>>, nextBlock' \in Nat, nextBlock' >= nextBlock,
           Typed(blocks'), Exact(blocks', held, leaked), DOMAIN blocks' \subseteq 1..(nextBlock' - 1),
           fresh' \subseteq Sample, at' \in [Actor -> Places],
           \A a \in Actor : at'[a] \in Holding <=> at[a] \in Holding
    PROVE  RefsIInv'
<1>1. leaked' \in Seq(1..(nextBlock' - 1))
  BY RefsParts
<1> QED
  BY <1>1, NextRefsExactIs DEF RefsIInv, Typed

-----------------------------------------------------------------------------
(* One lemma per action. *)

LEMMA InitRefs == Init => RefsIInv
<1> SUFFICES ASSUME Init PROVE RefsIInv
  OBVIOUS
<1>1. DOMAIN blocks = {} /\ blocks \in [DOMAIN blocks -> Block]
  BY DEF Init
<1>2. RefsExact
  BY <1>1 DEF Init, RefsExact
<1> QED
  BY <1>1, <1>2 DEF Init, RefsIInv, Places, Holding

LEMMA FlushCreateRefs == ASSUME NEW P, RefsIInv, FlushCreate(P) PROVE RefsIInv'
<1> DEFINE new == NewBlock(P, FALSE)
<1> HIDE DEF new
<1>1. new \in Block /\ new.refs = 0
  BY DEF FlushCreate, RefsIInv, NewBlock, Block, new
<1>2. blocks' = Create(blocks, nextBlock, new)
  BY DEF FlushCreate, new
<1>3. Creatable(blocks, held, leaked, nextBlock)
  BY RefsParts DEF Creatable
<1>4. /\ Exact(Create(blocks, nextBlock, new), held, leaked)
      /\ Typed(Create(blocks, nextBlock, new))
  BY <1>1, <1>3, CreateExact
<1>5. /\ UNCHANGED <<held, leaked, at>> /\ nextBlock' = nextBlock + 1 /\ fresh' \subseteq Sample
  <2>1. fresh \subseteq Sample
    BY DEF RefsIInv
  <2> QED
    BY <2>1 DEF FlushCreate, queryVars
<1>6. /\ Exact(blocks', held, leaked) /\ Typed(blocks')
      /\ DOMAIN blocks' = DOMAIN blocks \cup {nextBlock}
  BY <1>2, <1>4 DEF Create
<1>7. DOMAIN blocks' \subseteq 1..(nextBlock' - 1)
  BY <1>5, <1>6, RefsParts DEF RefsIInv
<1> QED
  BY <1>5, <1>6, <1>7, RefsParts, Storing

LEMMA ShardStepRefs == RefsIInv /\ (FlushAdd \/ Rotate) => RefsIInv'
  BY RefsParts, Passing DEF FlushAdd, Rotate, storeVars, queryVars

LEMMA PeekRefs == ASSUME NEW c \in Compactor, NEW id, RefsIInv, Peek(c, id) PROVE RefsIInv'
<1>1. c \in Actor /\ at[c] = "pass" /\ UNCHANGED <<nextBlock, fresh, leaked>>
  BY DEF Peek, Actor, queryVars
<1>2. CASE Opens(id)
  BY <1>1, <1>2, Opening DEF Peek, Holding
<1>3. CASE ~Opens(id)
  BY <1>1, <1>3, RefsParts, Passing DEF Peek
<1> QED
  BY <1>2, <1>3

LEMMA PassRefs ==
    ASSUME NEW c \in Compactor, RefsIInv, CompactAll(c) \/ EndPass(c) \/ CompactAdd(c)
    PROVE  RefsIInv'
<1>1. c \in Actor /\ UNCHANGED <<blocks, nextBlock, held, fresh, leaked>>
  BY DEF CompactAll, EndPass, CompactAdd, Actor, storeVars, queryVars
<1>2. PICK place \in Places : at' = [at EXCEPT ![c] = place] /\ (place \in Holding <=> at[c] \in Holding)
  BY DEF CompactAll, EndPass, CompactAdd, Goto, Places, Holding
<1>3. at' \in [Actor -> Places] /\ \A a \in Actor : at'[a] \in Holding <=> at[a] \in Holding
  BY <1>1, <1>2, RefsParts
<1> QED
  BY <1>1, <1>3, Passing

LEMMA PeekedRefs == ASSUME NEW c \in Compactor, RefsIInv, Peeked(c) PROVE RefsIInv'
<1>1. /\ c \in Actor /\ at[c] \in Holding /\ UNCHANGED <<nextBlock, fresh, leaked>>
      /\ blocks' = Closed(blocks, c) /\ held' = [held EXCEPT ![c] = 0]
  BY DEF Peeked, Actor, Holding, queryVars
<1>2. Goto(c, "wait") \/ Goto(c, "pass")
  BY DEF Peeked
<1>3. {"wait", "pass"} \subseteq Places \ Holding
  BY DEF Places, Holding
<1> QED
  BY <1>1, <1>2, <1>3, Closing

LEMMA CompactOpenRefs == ASSUME NEW c \in Compactor, RefsIInv, CompactOpen(c) PROVE RefsIInv'
<1>1. c \in Actor /\ at[c] = "wait" /\ UNCHANGED <<nextBlock, fresh, leaked>>
  BY DEF CompactOpen, Actor, queryVars
<1>2. CASE Opens(work[c].src) /\ Acquired(c, work[c].src) /\ Goto(c, "opened")
  BY <1>1, <1>2, Opening DEF Holding
<1>3. CASE UNCHANGED <<blocks, held>> /\ (Goto(c, "pass") \/ Goto(c, "idle"))
  <2>1. at' \in [Actor -> Places] /\ \A a \in Actor : at'[a] \in Holding <=> at[a] \in Holding
    BY <1>1, <1>3, RefsParts DEF Goto, Places, Holding
  <2> QED
    BY <1>1, <1>3, <2>1, Passing
<1> QED
  BY <1>2, <1>3 DEF CompactOpen

LEMMA CompactCreateRefs == ASSUME NEW c \in Compactor, RefsIInv, CompactCreate(c) PROVE RefsIInv'
<1> DEFINE src == held[c]
           B == [blocks EXCEPT ![src].state = "compacting"]
           new == NewBlock(blocks[src].pts, TRUE)
<1> HIDE DEF B, new
<1>1. c \in Actor /\ at[c] = "opened"
  BY DEF CompactCreate, Actor
<1>2. src \in DOMAIN blocks /\ \A i \in DOMAIN blocks : blocks[i] \in Block
  BY <1>1, RefsParts DEF RefsIInv, RefsExact, Holding
<1>3. /\ DOMAIN B = DOMAIN blocks
      /\ \A i \in DOMAIN blocks : B[i] \in Block /\ B[i].refs = blocks[i].refs
  BY <1>2 DEF Block, B
<1>4. Exact(B, held, leaked) /\ Typed(B)
  BY <1>3, RefsParts, SameExact DEF Typed, B
<1>5. new \in Block /\ new.refs = 0
  BY <1>2 DEF NewBlock, Block, new
<1>6. blocks' = Create(B, nextBlock, new)
  BY DEF CompactCreate, B, new
<1>7. Creatable(B, held, leaked, nextBlock)
  BY <1>3, <1>4, RefsParts DEF Creatable
<1>8. /\ Exact(Create(B, nextBlock, new), held, leaked)
      /\ Typed(Create(B, nextBlock, new))
  BY <1>5, <1>7, CreateExact
<1>9. /\ UNCHANGED <<held, leaked, fresh>> /\ nextBlock' = nextBlock + 1 /\ fresh' \subseteq Sample
      /\ at' = [at EXCEPT ![c] = "created"]
  BY DEF CompactCreate, RefsIInv, queryVars, Goto
<1>10. at' \in [Actor -> Places] /\ \A a \in Actor : at'[a] \in Holding <=> at[a] \in Holding
  BY <1>1, <1>9, RefsParts DEF Places, Holding
<1>11. /\ Exact(blocks', held, leaked) /\ Typed(blocks')
       /\ DOMAIN blocks' = DOMAIN blocks \cup {nextBlock}
  BY <1>3, <1>6, <1>8 DEF Create
<1>12. DOMAIN blocks' \subseteq 1..(nextBlock' - 1)
  BY <1>9, <1>11, RefsParts DEF RefsIInv
<1> QED
  BY <1>9, <1>10, <1>11, <1>12, RefsParts, Storing

LEMMA LeaveRefs ==
    ASSUME NEW c \in Compactor, RefsIInv, CompactFail(c) \/ CompactReturn(c)
    PROVE  RefsIInv'
<1>1. /\ c \in Actor /\ at[c] \in Holding /\ UNCHANGED <<nextBlock, fresh, leaked>>
      /\ blocks' = Closed(blocks, c) /\ held' = [held EXCEPT ![c] = 0]
      /\ Goto(c, "idle") \/ Goto(c, "pass")
  BY DEF CompactFail, CompactReturn, LeaveTo, Actor, Holding, queryVars
<1>2. {"idle", "pass"} \subseteq Places \ Holding
  BY DEF Places, Holding
<1> QED
  BY <1>1, <1>2, Closing

LEMMA CompactArchiveRefs == ASSUME NEW c \in Compactor, RefsIInv, CompactArchive(c) PROVE RefsIInv'
<1>1. /\ c \in Actor /\ at[c] = "added" /\ UNCHANGED <<nextBlock, held, fresh, leaked>>
      /\ blocks' = Archive(blocks, held[c]) /\ at' = [at EXCEPT ![c] = "archived"]
  BY DEF CompactArchive, Actor, Goto, queryVars
<1>2. \A i \in DOMAIN blocks : blocks[i] \in Block
  BY DEF RefsIInv
<1>3. /\ DOMAIN blocks' = DOMAIN blocks /\ blocks' = [i \in DOMAIN blocks |-> blocks'[i]]
      /\ \A i \in DOMAIN blocks : blocks'[i] \in Block /\ blocks'[i].refs = blocks[i].refs
  BY <1>1, <1>2 DEF Archive, Block, RefsIInv
<1>4. Exact(blocks', held, leaked) /\ Typed(blocks')
  BY <1>3, RefsParts, SameExact DEF Typed
<1>5. at' \in [Actor -> Places] /\ \A a \in Actor : at'[a] \in Holding <=> at[a] \in Holding
  BY <1>1, RefsParts DEF Places, Holding
<1> QED
  BY <1>1, <1>3, <1>4, <1>5, RefsParts, Storing DEF RefsIInv

LEMMA ReclaimRefs ==
    ASSUME RefsIInv, SweepEnd \/ \E c \in Compactor : CompactReclaim(c)
    PROVE  RefsIInv'
<1>1. blocks' = Reclaimed /\ UNCHANGED <<nextBlock, held, fresh, leaked>>
  BY DEF SweepEnd, CompactReclaim, queryVars
<1>2. Exact(blocks', held, leaked) /\ Typed(blocks') /\ DOMAIN blocks' \subseteq DOMAIN blocks
  BY <1>1, RefsParts, ReclaimExact
<1>3. PICK who \in Actor, place \in Places :
          at' = [at EXCEPT ![who] = place] /\ (place \in Holding <=> at[who] \in Holding)
  BY DEF SweepEnd, CompactReclaim, Goto, Actor, Places, Holding
<1>4. at' \in [Actor -> Places] /\ \A a \in Actor : at'[a] \in Holding <=> at[a] \in Holding
  BY <1>3, RefsParts
<1> QED
  BY <1>1, <1>2, <1>4, RefsParts, Storing DEF RefsIInv

LEMMA SweepStartRefs == ASSUME NEW t, RefsIInv, SweepStart(t) PROVE RefsIInv'
<1>1. /\ at["sweep"] = "idle" /\ at' = [at EXCEPT !["sweep"] = "pass"] /\ "sweep" \in Actor
      /\ UNCHANGED <<blocks, nextBlock, held, fresh, leaked>>
  BY DEF SweepStart, Goto, Actor, storeVars, queryVars
<1>2. at' \in [Actor -> Places] /\ \A a \in Actor : at'[a] \in Holding <=> at[a] \in Holding
  BY <1>1, RefsParts DEF Places, Holding
<1> QED
  BY <1>1, <1>2, Passing

LEMMA SweepOpenRefs == ASSUME NEW id, RefsIInv, SweepOpen(id) PROVE RefsIInv'
<1>1. "sweep" \in Actor /\ at["sweep"] = "pass" /\ UNCHANGED <<nextBlock, fresh, leaked>>
  BY DEF SweepOpen, Actor, queryVars
<1>2. CASE Opens(id)
  BY <1>1, <1>2, Opening DEF SweepOpen, Holding
<1>3. CASE ~Opens(id)
  BY <1>1, <1>3, RefsParts, Passing DEF SweepOpen
<1> QED
  BY <1>2, <1>3

LEMMA SweepMarkRefs == RefsIInv /\ SweepMark => RefsIInv'
<1> SUFFICES ASSUME RefsIInv, SweepMark PROVE RefsIInv'
  OBVIOUS
<1>1. /\ "sweep" \in Actor /\ at["sweep"] \in Holding /\ UNCHANGED <<nextBlock, fresh, leaked>>
      /\ held' = [held EXCEPT !["sweep"] = 0] /\ Goto("sweep", "pass")
  BY DEF SweepMark, Actor, Holding, queryVars
<1>2. \/ blocks' = Closed(blocks, "sweep")
      \/ blocks' = Archive(Closed(blocks, "sweep"), held["sweep"])
  BY DEF SweepMark
<1>3. "pass" \in Places \ Holding
  BY DEF Places, Holding
<1> QED
  BY <1>1, <1>2, <1>3, Closing

LEMMA QueryStepRefs ==
    ASSUME NEW r \in Reader, NEW rng, RefsIInv, Ask(r, rng) \/ ReadShard(r) \/ Answer(r)
    PROVE  RefsIInv'
<1>1. /\ r \in Actor /\ at[r] \in {"idle", "read"}
      /\ UNCHANGED <<blocks, nextBlock, held, fresh, leaked>>
      /\ at' = at \/ \E place \in {"idle", "read"} : at' = [at EXCEPT ![r] = place]
  BY DEF Ask, ReadShard, Answer, EndQuery, Goto, Actor, storeVars
<1>2. at' \in [Actor -> Places] /\ \A a \in Actor : at'[a] \in Holding <=> at[a] \in Holding
  BY <1>1, RefsParts DEF Places, Holding
<1> QED
  BY <1>1, <1>2, Passing

LEMMA ReadOpenRefs == ASSUME NEW r \in Reader, NEW id, RefsIInv, ReadOpen(r, id) PROVE RefsIInv'
<1>1. r \in Actor /\ at[r] = "read" /\ UNCHANGED <<nextBlock, fresh, leaked>>
  BY DEF ReadOpen, Actor, queryVars
<1>2. CASE Opens(id)
  BY <1>1, <1>2, Opening DEF ReadOpen, Holding
<1>3. CASE ~Opens(id)
  BY <1>1, <1>3, RefsParts, Passing DEF ReadOpen
<1> QED
  BY <1>2, <1>3

LEMMA ReadRangeRefs == ASSUME NEW r \in Reader, RefsIInv, ReadRange(r) PROVE RefsIInv'
<1>1. /\ r \in Actor /\ at[r] \in Holding /\ UNCHANGED <<nextBlock, fresh, leaked>>
      /\ blocks' = Closed(blocks, r) /\ held' = [held EXCEPT ![r] = 0] /\ Goto(r, "read")
  BY DEF ReadRange, Actor, Holding
<1>2. "read" \in Places \ Holding
  BY DEF Places, Holding
<1> QED
  BY <1>1, <1>2, Closing

LEMMA ReadPanicsRefs == ASSUME NEW r \in Reader, RefsIInv, ReadPanics(r) PROVE RefsIInv'
<1>1. /\ r \in Actor /\ at[r] = "range" /\ UNCHANGED <<blocks, nextBlock, fresh>>
      /\ held' = [held EXCEPT ![r] = 0] /\ leaked' = Append(leaked, held[r])
      /\ at' = [at EXCEPT ![r] = "idle"]
  BY DEF ReadPanics, EndQuery, Goto, Actor, storeVars
<1>2. held[r] # 0 /\ held[r] \in 1..(nextBlock - 1)
  BY <1>1, RefsParts DEF RefsIInv, RefsExact, Holding
<1>3. Exact(blocks', held', leaked')
  BY <1>1, <1>2, RefsParts, LeakExact
<1>4. leaked' \in Seq(1..(nextBlock' - 1))
  BY <1>1, <1>2, RefsParts
<1>5. held' \in [Actor -> Nat] /\ at' \in [Actor -> Places]
  BY <1>1, RefsParts DEF Places
<1>6. \A a \in Actor : held'[a] # 0 <=> at'[a] \in Holding
  BY <1>1, RefsParts DEF Holding
<1> QED
  BY <1>1, <1>3, <1>4, <1>5, <1>6, NextRefsExactIs DEF RefsIInv

-----------------------------------------------------------------------------
\* The strengthening is inductive: it holds initially, and flushes, compactions,
\* sweeps, rotations and queries preserve it.
THEOREM RefsInductive == Spec => []RefsIInv
<1>1. RefsIInv /\ [Next]_vars => RefsIInv'
  <2> SUFFICES ASSUME RefsIInv, [Next]_vars PROVE RefsIInv'
    OBVIOUS
  <2>1. ASSUME NEW c \in Compactor, CompactAll(c) \/ CompactStep(c) PROVE RefsIInv'
    BY <2>1, PassRefs, PeekRefs, PeekedRefs, CompactOpenRefs, CompactCreateRefs, LeaveRefs,
       CompactArchiveRefs, ReclaimRefs DEF CompactStep
  <2>2. ASSUME SweepStep PROVE RefsIInv'
    BY <2>2, SweepOpenRefs, SweepMarkRefs, ReclaimRefs DEF SweepStep
  <2>3. ASSUME NEW r \in Reader, ReadStep(r) PROVE RefsIInv'
    BY <2>3, QueryStepRefs, ReadOpenRefs, ReadRangeRefs, ReadPanicsRefs DEF ReadStep
  <2>4. ASSUME NEW r \in Reader, NEW rng, Ask(r, rng) PROVE RefsIInv'
    BY <2>4, QueryStepRefs
  <2>5. CASE UNCHANGED vars
    BY <2>5, RefsParts, Passing DEF vars, storeVars, queryVars
  <2> QED
    BY <2>1, <2>2, <2>3, <2>4, <2>5, FlushCreateRefs, ShardStepRefs, SweepStartRefs DEF Next
<1> QED
  BY <1>1, InitRefs, PTL DEF Spec

\* The count of a block is the number of those that hold it or panicked in it,
\* and no block is reclaimed from under a holder (block.go:10-12, store.go:63-77).
THEOREM RefsExactHolds == Spec => []RefsExact
<1>1. RefsIInv => RefsExact
  BY DEF RefsIInv
<1> QED
  BY <1>1, RefsInductive, PTL
=============================================================================
