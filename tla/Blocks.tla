------------------------------- MODULE Blocks -------------------------------
(***************************************************************************)
(* The life of storage blocks: flushes create them (internal/storage,      *)
(* internal/ingest), compaction replaces them by coarser ones              *)
(* (internal/compact), retention archives and reclaims them                *)
(* (internal/retention) and queries read them (internal/query), all at     *)
(* once and on top of the time shards (Shards.tla).                        *)
(*                                                                         *)
(* The store, a block and the list of shards each have a mutex of their    *)
(* own, held for one call.  A step is therefore a call, or several in a    *)
(* row of which only one touches what another goroutine can change.  The   *)
(* points of a block never change: a block is the set of samples it stands *)
(* for, at their own times or (coarse) at the starts of their steps.       *)
(***************************************************************************)
EXTENDS Integers, Sequences, FiniteSets, FiniteSetsExt

CONSTANTS
    Sample,     \* samples, each of its own series
    TS,         \* the timestamp of each
    Step,       \* DownsamplePolicy.Window
    Compactor,  \* goroutines in CompactAll: the ticker's and administrators'
    Reader,     \* goroutines in a query
    Ranges,     \* ranges queries ask for, as pairs (start, end)
    Cutoffs,    \* readings of now - MaxAge
    MaxBlocks,  \* bound of the model: blocks created
    MaxPanics,  \* bound of the model: queries that panic
    Window, MaxInt, Clock, MaxShards         \* of Shards

ASSUME BlocksConstants ==
    /\ TS \in [Sample -> 0..MaxInt]
    /\ Step \in Nat \ {0}
    /\ Ranges \subseteq (0..MaxInt) \X (0..MaxInt)
    /\ Cutoffs \subseteq Nat
    /\ MaxBlocks \in Nat /\ MaxPanics \in Nat
    /\ IsFiniteSet(Compactor) /\ IsFiniteSet(Reader) /\ Compactor \cap Reader = {}
    /\ {"none", "sweep"} \cap (Compactor \cup Reader) = {}
    /\ Window \in Nat \ {0} /\ MaxInt \in Nat /\ Window <= MaxInt
    /\ Clock \subseteq 0..MaxInt
    /\ MaxShards \in Nat \ {0}

VARIABLES
    shards, nextID,  \* the shards
    blocks,          \* Store.blocks: id -> block
    nextBlock,       \* Store.nextID
    held,            \* the block each goroutine has a reference to, 0 for none
    fresh,           \* samples not flushed yet
    adding,          \* the block a flush has created and not yet added to a shard
    at,              \* where each goroutine is
    todo,            \* the ids it still has to visit
    work,            \* the block each compaction reads and the one it has made
    cmu,             \* the holder of Compactor.mu
    cutoff,          \* the cutoff of the latest sweep
    asked,           \* the range of each query, the shards it has yet to visit, and
                     \* (history) the block each sample was in as it began
    got,             \* how often it has met each sample
    leaked           \* (history) the blocks that queries had a reference to when they panicked

S == INSTANCE Shards WITH Block <- 1..MaxBlocks

Actor == Compactor \cup Reader \cup {"sweep"}

shardVars == <<shards, nextID>>
storeVars == <<blocks, nextBlock>>
queryVars == <<asked, got, leaked>>
vars == <<shardVars, storeVars, held, fresh, adding, at, todo, work, cmu, cutoff, queryVars>>

Block == [pts : SUBSET Sample, coarse : BOOLEAN, state : {"immutable", "compacting"},
          archived : BOOLEAN, refs : Nat]

NoFlush == [id |-> 0, first |-> 0]
NoWork == [src |-> 0, new |-> 0]
NoQuery == [range |-> <<0, 0>>, left |-> {}, was |-> [p \in Sample |-> {}]]

-----------------------------------------------------------------------------
(* Blocks and the store. *)

StepOf(t) == t - (t % Step)

\* The times of a block's points.
Times(b) == {IF b.coarse THEN StepOf(TS[p]) ELSE TS[p] : p \in b.pts}

NewBlock(P, coarse) ==
    [pts |-> P, coarse |-> coarse, state |-> "immutable", archived |-> FALSE, refs |-> 0]

\* Store.Create.
Create(B, id, b) == [i \in DOMAIN B \cup {id} |-> IF i = id THEN b ELSE B[i]]

\* Store.Open succeeds: the block is there and Acquire does not refuse.
Opens(id) == id \in DOMAIN blocks /\ ~blocks[id].archived

Acquired(a, id) ==
    /\ blocks' = [blocks EXCEPT ![id].refs = @ + 1]
    /\ held' = [held EXCEPT ![a] = id]

\* Store.Close, when the caller has a reference.
Closed(B, a) ==
    IF held[a] \in DOMAIN B /\ B[held[a]].refs > 0 THEN [B EXCEPT ![held[a]].refs = @ - 1] ELSE B

Archive(B, id) == IF id \in DOMAIN B THEN [B EXCEPT ![id].archived = TRUE] ELSE B

\* A faulty Reclaimable, which forgets the readers.
ReclaimableUnchecked(b) == b.archived

Reclaimable(b) == b.archived /\ b.refs = 0

\* Store.Reclaim.
Reclaimed == [i \in {j \in DOMAIN blocks : ~Reclaimable(blocks[j])} |-> blocks[i]]

-----------------------------------------------------------------------------
Init ==
    /\ S!ShardsInit
    /\ blocks = [i \in {} |-> NewBlock({}, FALSE)]
    /\ nextBlock = 1
    /\ held = [a \in Actor |-> 0]
    /\ fresh = Sample
    /\ adding = NoFlush
    /\ at = [a \in Actor |-> "idle"]
    /\ todo = [a \in Actor |-> {}]
    /\ work = [c \in Compactor |-> NoWork]
    /\ cmu = "none"
    /\ cutoff = 0
    /\ asked = [r \in Reader |-> NoQuery]
    /\ got = [r \in Reader |-> [p \in Sample |-> 0]]
    /\ leaked = <<>>

Goto(a, place) == at' = [at EXCEPT ![a] = place]

\* Bound of the model: a compaction under way has its id reserved.
Reserved == Cardinality({c \in Compactor : at[c] = "opened"})

-----------------------------------------------------------------------------
(* Flush: the loop body of flushLocked (ingest.go), under in.mu. *)

\* groupByShard puts points of the active window together, and Create stores them.
FlushCreate(P) ==
    /\ adding = NoFlush
    /\ nextBlock + Reserved <= MaxBlocks
    /\ P # {} /\ P \subseteq fresh
    /\ \E p \in P : ~S!RouteRejects(TS[p]) /\ S!Route(TS[p])
    /\ \A p \in P : S!Covers(S!Last', TS[p])
    /\ fresh' = fresh \ P
    /\ blocks' = Create(blocks, nextBlock, NewBlock(P, FALSE))
    /\ nextBlock' = nextBlock + 1
    /\ adding' = [id |-> nextBlock, first |-> Min({TS[p] : p \in P})]
    /\ UNCHANGED <<held, at, todo, work, cmu, cutoff, queryVars>>

\* Route(t) and, when it succeeds, AddBlock(id).
Attach(t, id) ==
    /\ ~S!RouteRejects(t)
    /\ S!RouteOpens(t) => Len(shards) < MaxShards
    /\ LET routed == S!RoutedShards(t)
       IN  shards' = [routed EXCEPT ![Len(routed)].blocks = @ \cup {id}]
    /\ nextID' = IF S!RouteOpens(t) THEN nextID + 1 ELSE nextID

\* When Route fails the flush returns, and its block stays in the store without
\* a shard.
FlushAdd ==
    /\ adding # NoFlush
    /\ adding' = NoFlush
    /\ \/ S!RouteRejects(adding.first) /\ UNCHANGED shardVars
       \/ Attach(adding.first, adding.id)
    /\ UNCHANGED <<storeVars, held, fresh, at, todo, work, cmu, cutoff, queryVars>>

Rotate ==
    /\ S!ForceRotate
    /\ UNCHANGED <<storeVars, held, fresh, adding, at, todo, work, cmu, cutoff, queryVars>>
-----------------------------------------------------------------------------
(* CompactAll: list the blocks, peek at each, compact the immutable ones. *)

CompactAll(c) ==
    /\ at[c] = "idle"
    /\ Goto(c, "pass")
    /\ todo' = [todo EXCEPT ![c] = DOMAIN blocks]
    /\ UNCHANGED <<shardVars, storeVars, held, fresh, adding, work, cmu, cutoff, queryVars>>

EndPass(c) ==
    /\ at[c] = "pass" /\ todo[c] = {}
    /\ Goto(c, "idle")
    /\ UNCHANGED <<shardVars, storeVars, held, fresh, adding, todo, work, cmu, cutoff, queryVars>>

\* Open the next block to look at its state; skip it when that fails.
Peek(c, id) ==
    /\ at[c] = "pass" /\ id \in todo[c]
    /\ todo' = [todo EXCEPT ![c] = @ \ {id}]
    /\ IF Opens(id) THEN Acquired(c, id) /\ Goto(c, "peek") ELSE UNCHANGED <<blocks, held, at>>
    /\ UNCHANGED <<shardVars, nextBlock, fresh, adding, work, cmu, cutoff, queryVars>>

\* Close it.  The state read here is not read again.
Peeked(c) ==
    /\ at[c] = "peek"
    /\ blocks' = Closed(blocks, c)
    /\ held' = [held EXCEPT ![c] = 0]
    /\ IF blocks[held[c]].state = "immutable"
       THEN Goto(c, "wait") /\ work' = [work EXCEPT ![c].src = held[c]]
       ELSE Goto(c, "pass") /\ UNCHANGED work
    /\ UNCHANGED <<shardVars, nextBlock, fresh, adding, todo, cmu, cutoff, queryVars>>

\* Compact: lock, and open the source again.  It may be gone (nothing to do) or
\* archived (an error, which ends the pass).
CompactOpen(c) ==
    /\ at[c] = "wait" /\ cmu = "none"
    /\ \/ /\ Opens(work[c].src)
          /\ nextBlock <= MaxBlocks
          /\ Acquired(c, work[c].src)
          /\ Goto(c, "opened") /\ cmu' = c
          /\ UNCHANGED <<todo, work>>
       \/ /\ work[c].src \notin DOMAIN blocks
          /\ Goto(c, "pass")
          /\ work' = [work EXCEPT ![c] = NoWork]
          /\ UNCHANGED <<blocks, held, todo, cmu>>
       \/ /\ work[c].src \in DOMAIN blocks /\ ~Opens(work[c].src)
          /\ Goto(c, "idle")
          /\ work' = [work EXCEPT ![c] = NoWork]
          /\ todo' = [todo EXCEPT ![c] = {}]
          /\ UNCHANGED <<blocks, held, cmu>>
    /\ UNCHANGED <<shardVars, nextBlock, fresh, adding, cutoff, queryVars>>

\* A faulty CompactCreate, which uses the next id without taking it.
CompactCreateSameID(c) ==
    /\ at[c] = "opened"
    /\ Goto(c, "created")
    /\ LET src == blocks[held[c]]
       IN  blocks' = Create([blocks EXCEPT ![held[c]].state = "compacting"],
                            nextBlock, NewBlock(src.pts, TRUE))
    /\ work' = [work EXCEPT ![c].new = nextBlock]
    /\ UNCHANGED <<shardVars, nextBlock, held, fresh, adding, todo, cmu, cutoff, queryVars>>

\* Downsample, MarkCompacting and Create.
CompactCreate(c) ==
    /\ at[c] = "opened"
    /\ Goto(c, "created")
    /\ LET src == blocks[held[c]]
       IN  blocks' = Create([blocks EXCEPT ![held[c]].state = "compacting"],
                            nextBlock, NewBlock(src.pts, TRUE))
    /\ nextBlock' = nextBlock + 1
    /\ work' = [work EXCEPT ![c].new = nextBlock]
    /\ UNCHANGED <<shardVars, held, fresh, adding, todo, cmu, cutoff, queryVars>>

\* The deferred Close of the source and unlock.
LeaveTo(c, place) ==
    /\ Goto(c, place)
    /\ held' = [held EXCEPT ![c] = 0]
    /\ work' = [work EXCEPT ![c] = NoWork]
    /\ cmu' = "none"

\* A faulty CompactAdd, which takes the newest shard instead of routing.
CompactAddNewest(c) ==
    /\ at[c] = "created"
    /\ shards' = [shards EXCEPT ![Len(shards)].blocks = @ \cup {work[c].new}]
    /\ Goto(c, "added")
    /\ UNCHANGED <<nextID, storeVars, held, fresh, adding, todo, work, cmu, cutoff, queryVars>>

\* The new block goes to the shard the source's first point routes to.
CompactAdd(c) ==
    /\ at[c] = "created"
    /\ Attach(Min(Times(blocks[held[c]])), work[c].new)
    /\ Goto(c, "added")
    /\ UNCHANGED <<storeVars, held, fresh, adding, todo, work, cmu, cutoff, queryVars>>

\* That window has passed: an error, which ends the pass.  The new block stays
\* in the store without a shard, the source compacting.
CompactFail(c) ==
    /\ at[c] = "created"
    /\ S!RouteRejects(Min(Times(blocks[held[c]])))
    /\ blocks' = Closed(blocks, c)
    /\ LeaveTo(c, "idle")
    /\ todo' = [todo EXCEPT ![c] = {}]
    /\ UNCHANGED <<shardVars, nextBlock, fresh, adding, cutoff, queryVars>>

\* A faulty CompactArchive, which leaves the source as it is.
CompactKeep(c) ==
    /\ at[c] = "added"
    /\ Goto(c, "archived")
    /\ UNCHANGED <<shardVars, storeVars, held, fresh, adding, todo, work, cmu, cutoff, queryVars>>

CompactArchive(c) ==
    /\ at[c] = "added"
    /\ blocks' = Archive(blocks, held[c])
    /\ Goto(c, "archived")
    /\ UNCHANGED <<shardVars, nextBlock, held, fresh, adding, todo, work, cmu, cutoff, queryVars>>

\* Reclaim, with the reference to the source still held.
CompactReclaim(c) ==
    /\ at[c] = "archived"
    /\ blocks' = Reclaimed
    /\ Goto(c, "reclaimed")
    /\ UNCHANGED <<shardVars, nextBlock, held, fresh, adding, todo, work, cmu, cutoff, queryVars>>

CompactReturn(c) ==
    /\ at[c] = "reclaimed"
    /\ blocks' = Closed(blocks, c)
    /\ LeaveTo(c, "pass")
    /\ UNCHANGED <<shardVars, nextBlock, fresh, adding, todo, cutoff, queryVars>>

CompactStep(c) ==
    \/ EndPass(c) \/ Peeked(c) \/ \E id \in todo[c] : Peek(c, id)
    \/ CompactOpen(c) \/ CompactCreate(c) \/ CompactAdd(c) \/ CompactFail(c)
    \/ CompactArchive(c) \/ CompactReclaim(c) \/ CompactReturn(c)

-----------------------------------------------------------------------------
(* Retention.Sweep, one at a time under its mutex. *)

\* now - MaxAge does not go back.
SweepStart(t) ==
    /\ at["sweep"] = "idle"
    /\ t >= cutoff
    /\ cutoff' = t
    /\ Goto("sweep", "pass")
    /\ todo' = [todo EXCEPT !["sweep"] = DOMAIN blocks]
    /\ UNCHANGED <<shardVars, storeVars, held, fresh, adding, work, cmu, queryVars>>

SweepOpen(id) ==
    /\ at["sweep"] = "pass" /\ id \in todo["sweep"]
    /\ todo' = [todo EXCEPT !["sweep"] = @ \ {id}]
    /\ IF Opens(id) THEN Acquired("sweep", id) /\ Goto("sweep", "peek")
       ELSE UNCHANGED <<blocks, held, at>>
    /\ UNCHANGED <<shardVars, nextBlock, fresh, adding, work, cmu, cutoff, queryVars>>

\* A faulty SweepMark, which archives by the start of the block.
SweepMarkByMin ==
    /\ at["sweep"] = "peek"
    /\ LET id == held["sweep"]
       IN  blocks' = IF Min(Times(blocks[id])) <= cutoff
                     THEN Archive(Closed(blocks, "sweep"), id) ELSE Closed(blocks, "sweep")
    /\ held' = [held EXCEPT !["sweep"] = 0]
    /\ Goto("sweep", "pass")
    /\ UNCHANGED <<shardVars, nextBlock, fresh, adding, todo, work, cmu, cutoff, queryVars>>

\* MinMax, Close and MarkArchived.
SweepMark ==
    /\ at["sweep"] = "peek"
    /\ LET id == held["sweep"]
       IN  blocks' = IF Max(Times(blocks[id])) <= cutoff
                     THEN Archive(Closed(blocks, "sweep"), id) ELSE Closed(blocks, "sweep")
    /\ held' = [held EXCEPT !["sweep"] = 0]
    /\ Goto("sweep", "pass")
    /\ UNCHANGED <<shardVars, nextBlock, fresh, adding, todo, work, cmu, cutoff, queryVars>>

\* A faulty SweepEnd, which leaves reclaiming to compactions.
SweepEndUnreclaimed ==
    /\ at["sweep"] = "pass" /\ todo["sweep"] = {}
    /\ S!ArchiveOlderThan(cutoff)
    /\ Goto("sweep", "idle")
    /\ UNCHANGED <<storeVars, held, fresh, adding, todo, work, cmu, cutoff, queryVars>>

SweepEnd ==
    /\ at["sweep"] = "pass" /\ todo["sweep"] = {}
    /\ blocks' = Reclaimed
    /\ S!ArchiveOlderThan(cutoff)
    /\ Goto("sweep", "idle")
    /\ UNCHANGED <<nextBlock, held, fresh, adding, todo, work, cmu, cutoff, queryVars>>

SweepStep == SweepMark \/ SweepEnd \/ \E id \in todo["sweep"] : SweepOpen(id)

-----------------------------------------------------------------------------
Listed == UNION {shards[i].blocks : i \in DOMAIN shards}

\* The blocks in which a query can meet a sample.
Showing(p) == {id \in Listed : Opens(id) /\ p \in blocks[id].pts}

\* The block in which a sample shows, when no other block in the store has it.
OnlyIn(p) ==
    {id \in Showing(p) :
        \A other \in DOMAIN blocks : Opens(other) /\ p \in blocks[other].pts => other = id}

(* Engine.collect, the part that reads blocks. *)

\* A faulty Covering, which wants the start of the window in the range.
CoveringStart(rng) == {i \in DOMAIN shards : shards[i].start < rng[2] /\ shards[i].start >= rng[1]}

\* ShardsCovering: the shards whose window overlaps the half-open range.
Covering(rng) == {i \in DOMAIN shards : shards[i].start < rng[2] /\ shards[i].end > rng[1]}

Ask(r, rng) ==
    /\ at[r] = "idle"
    /\ Goto(r, "read")
    /\ asked' = [asked EXCEPT ![r] = [range |-> rng, left |-> Covering(rng),
                                       was |-> [p \in Sample |-> OnlyIn(p)]]]
    /\ UNCHANGED <<shardVars, storeVars, held, fresh, adding, todo, work, cmu, cutoff, got, leaked>>

\* Shard.Blocks of the next shard: a copy of its list.
ReadShard(r) ==
    /\ at[r] = "read" /\ todo[r] = {} /\ asked[r].left # {}
    /\ LET i == Min(asked[r].left)
       IN  /\ todo' = [todo EXCEPT ![r] = shards[i].blocks]
           /\ asked' = [asked EXCEPT ![r].left = @ \ {i}]
    /\ UNCHANGED <<shardVars, storeVars, held, fresh, adding, at, work, cmu, cutoff, got, leaked>>

ReadOpen(r, id) ==
    /\ at[r] = "read" /\ id \in todo[r]
    /\ todo' = [todo EXCEPT ![r] = @ \ {id}]
    /\ IF Opens(id) THEN Acquired(r, id) /\ Goto(r, "range") ELSE UNCHANGED <<blocks, held, at>>
    /\ UNCHANGED <<shardVars, nextBlock, fresh, adding, work, cmu, cutoff, queryVars>>

\* The samples of a block whose points lie in the range.
InRange(b, rng) ==
    {p \in b.pts : LET t == IF b.coarse THEN StepOf(TS[p]) ELSE TS[p] IN rng[1] <= t /\ t < rng[2]}

\* Range, then Close.
ReadRange(r) ==
    /\ at[r] = "range"
    /\ LET met == InRange(blocks[held[r]], asked[r].range)
       IN  got' = [got EXCEPT ![r] = [p \in Sample |-> IF p \in met THEN @[p] + 1 ELSE @[p]]]
    /\ blocks' = Closed(blocks, r)
    /\ held' = [held EXCEPT ![r] = 0]
    /\ Goto(r, "read")
    /\ UNCHANGED <<shardVars, nextBlock, fresh, adding, todo, work, cmu, cutoff, asked, leaked>>

\* The query is over, one way or the other.
EndQuery(r) ==
    /\ Goto(r, "idle")
    /\ asked' = [asked EXCEPT ![r] = NoQuery]
    /\ got' = [got EXCEPT ![r] = [p \in Sample |-> 0]]

\* Range panics when the end of the range lies before its start and a point of
\* the series in between; the handler's goroutine ends, and Close is not deferred.
\* (In ReadRange the query is about a series without such a point.)
ReadPanics(r) ==
    /\ at[r] = "range"
    /\ InRange(blocks[held[r]], <<asked[r].range[2], asked[r].range[1]>>) # {}
    /\ Len(leaked) < MaxPanics
    /\ leaked' = Append(leaked, held[r])
    /\ held' = [held EXCEPT ![r] = 0]
    /\ todo' = [todo EXCEPT ![r] = {}]
    /\ EndQuery(r)
    /\ UNCHANGED <<shardVars, storeVars, fresh, adding, work, cmu, cutoff>>

Answer(r) ==
    /\ at[r] = "read" /\ todo[r] = {} /\ asked[r].left = {}
    /\ EndQuery(r)
    /\ UNCHANGED <<shardVars, storeVars, held, fresh, adding, todo, work, cmu, cutoff, leaked>>

ReadStep(r) == ReadShard(r) \/ ReadRange(r) \/ ReadPanics(r) \/ Answer(r) \/ \E id \in todo[r] : ReadOpen(r, id)

-----------------------------------------------------------------------------
Next ==
    \/ \E P \in SUBSET Sample : FlushCreate(P)
    \/ FlushAdd
    \/ Rotate
    \/ \E c \in Compactor : CompactAll(c) \/ CompactStep(c)
    \/ \E t \in Cutoffs : SweepStart(t)
    \/ SweepStep
    \/ \E r \in Reader, rng \in Ranges : Ask(r, rng)
    \/ \E r \in Reader : ReadStep(r)

Spec == Init /\ [][Next]_vars

\* A goroutine that can run runs: nothing but Compactor.mu makes one wait, and
\* waiting there holds no reference.  The retention ticker keeps firing.
Fairness ==
    /\ \A c \in Compactor : WF_vars(CompactStep(c))
    /\ WF_vars(\E t \in Cutoffs : SweepStart(t)) /\ WF_vars(SweepStep)
    /\ \A r \in Reader : WF_vars(ReadStep(r))

FairSpec == Spec /\ Fairness

-----------------------------------------------------------------------------
(* Properties. *)

QueriesTyped ==
    /\ asked \in [Reader -> [range : (0..MaxInt) \X (0..MaxInt), left : SUBSET (DOMAIN shards),
                             was : [Sample -> SUBSET (1..MaxBlocks)]]]
    /\ got \in [Reader -> [Sample -> Nat]]
    /\ leaked \in Seq(1..MaxBlocks)

BlocksTypeOK ==
    /\ S!ShardsTypeOK
    /\ DOMAIN blocks = DOMAIN blocks \cap 1..(nextBlock - 1)
    /\ blocks \in [DOMAIN blocks -> Block]
    /\ nextBlock \in 1..(MaxBlocks + 1)
    /\ held \in [Actor -> 0..MaxBlocks]
    /\ fresh \subseteq Sample
    /\ adding \in [id : 0..MaxBlocks, first : S!Time]
    /\ todo \in [Actor -> SUBSET (1..MaxBlocks)]
    /\ work \in [Compactor -> [src : 0..MaxBlocks, new : 0..MaxBlocks]]
    /\ cmu \in Compactor \cup {"none"}
    /\ cutoff \in Nat
    /\ QueriesTyped

Holders(id) == {a \in Actor : held[a] = id}

Leaks(id) == {i \in DOMAIN leaked : leaked[i] = id}

\* Reference counting: refs counts exactly the goroutines that hold the block
\* and the queries that panicked in it, and a block somebody holds is in the
\* store.  So Reclaim never takes a block from a reader, a compaction or a sweep
\* (block.go:10-12, downsample.go:12-14), and no reference leaks on any of
\* Compact's error paths.
RefsExact ==
    /\ \A a \in Actor : held[a] # 0 => held[a] \in DOMAIN blocks
    /\ \A id \in DOMAIN blocks : blocks[id].refs = Cardinality(Holders(id)) + Cardinality(Leaks(id))

\* The strengthening of RefsExact that is inductive: who is between an Open and
\* its Close has a reference and nobody else has, and ids are not used twice.
Places == {"idle", "pass", "peek", "wait", "opened", "created", "added", "archived", "reclaimed",
           "read", "range"}

Holding == {"peek", "opened", "created", "added", "archived", "reclaimed", "range"}

RefsIInv ==
    /\ nextBlock \in Nat \ {0}
    /\ DOMAIN blocks \subseteq 1..(nextBlock - 1)
    /\ blocks \in [DOMAIN blocks -> Block]
    /\ fresh \subseteq Sample
    /\ held \in [Actor -> Nat] /\ at \in [Actor -> Places]
    /\ \A a \in Actor : held[a] # 0 <=> at[a] \in Holding
    /\ leaked \in Seq(1..(nextBlock - 1))
    /\ RefsExact

\* The strengthening of BlocksTypeOK that is inductive, with RefsIInv and what
\* the shards keep: ids that are spoken for have been given out, and who is
\* inside Compactor.mu.
Section == {"opened", "created", "added", "archived", "reclaimed"}

TypeIInv ==
    /\ nextBlock <= MaxBlocks + 1
    /\ adding = NoFlush \/ adding \in [id : 1..(nextBlock - 1), first : 0..MaxInt]
    /\ todo \in [Actor -> SUBSET (1..MaxBlocks)]
    /\ work \in [Compactor -> [src : 0..(nextBlock - 1), new : 0..(nextBlock - 1)]]
    /\ cmu \in Compactor \cup {"none"} /\ cutoff \in Nat
    /\ \A c \in Compactor : /\ at[c] \in Section <=> cmu = c
                            /\ at[c] = "opened" => nextBlock <= MaxBlocks
                            /\ at[c] \in {"created", "added"} => work[c].new # 0
    /\ \A id \in DOMAIN blocks : blocks[id].pts # {}

\* What NeverVanishes rests on: what a compaction has made holds the samples of
\* its source, or has been swept with them.
Replaces(c) ==
    LET new == work[c].new
        src == held[c]
    IN  /\ new # src
        /\ new \in DOMAIN blocks => blocks[new].pts = blocks[src].pts /\ blocks[new].coarse
        /\ at[c] = "created" => new \notin Listed /\ new # adding.id
        /\ at[c] = "added" => new \in Listed
        /\ \/ new \in DOMAIN blocks /\ ~blocks[new].archived
           \/ \A p \in blocks[src].pts : StepOf(TS[p]) <= cutoff

WorkIInv ==
    /\ Listed \subseteq 1..(nextBlock - 1)
    /\ \A id \in DOMAIN blocks : blocks[id].pts \cap fresh = {}
    /\ \A c \in Compactor : at[c] \in {"created", "added"} => Replaces(c)

\* However flushes, compactions of the same list by two goroutines and sweeps
\* interleave, a sample shows in one block at most, but for the moment between
\* the AddBlock and the MarkArchived of a compaction (downsample.go:79-80).
ShownOnce ==
    (\A c \in Compactor : at[c] # "added") => \A p \in Sample : Cardinality(Showing(p)) <= 1

\* A listed block's points are all inside the window of the shard that lists
\* it, so a query that visits shards by their windows (query.go:60) misses none.
\* It takes a downsampling step that divides the window.
InsideWindow ==
    \A i \in DOMAIN shards : \A id \in shards[i].blocks \cap DOMAIN blocks :
        \A t \in Times(blocks[id]) : S!Covers(shards[i], t)

\* The strengthening of ShownOnce and InsideWindow that is inductive, until a
\* window wraps.  The samples of a block are of one window.  Two blocks that have
\* a sample and are not archived are the source and the result of the compaction
\* under way, or one of them is not listed and is too late to be.
Housed(id) == \E i \in DOMAIN shards : \A p \in blocks[id].pts : S!Covers(shards[i], TS[p])

\* The first point has left the newest window, and that of the source too if the
\* block is about to be listed.
Late(id) ==
    /\ Min(Times(blocks[id])) < S!Last.start
    /\ \A c \in Compactor : at[c] = "created" /\ work[c].new = id =>
           Min(Times(blocks[held[c]])) < S!Last.start

\* A block that is swept while a compaction reads it goes on in the result.
Alive(id) ==
    /\ id \in DOMAIN blocks
    /\ \/ ~blocks[id].archived
       \/ \E c \in Compactor : held[c] = id /\ at[c] \in {"opened", "created", "added"}

InCompaction(x, y) ==
    \E c \in Compactor : at[c] \in {"created", "added"} /\ {x, y} = {held[c], work[c].new}

NoTwins ==
    \A x, y \in DOMAIN blocks :
        x # y /\ Alive(x) /\ Alive(y) /\ blocks[x].pts \cap blocks[y].pts # {} =>
            InCompaction(x, y) \/ \E id \in {x, y} : id \notin Listed /\ Late(id)

WindowIInv ==
    S!NoneWrapped =>
        /\ \A id \in DOMAIN blocks : Housed(id)
        /\ adding # NoFlush /\ adding.id \in DOMAIN blocks =>
               adding.first = Min(Times(blocks[adding.id]))
        /\ NoTwins

\* A sample that shows goes on showing, through compaction and whoever fails,
\* until a sweep whose cutoff its step has reached (retention.go:29-53).
NeverVanishes ==
    [][\A p \in Sample : Showing(p) # {} => Showing(p)' # {} \/ StepOf(TS[p]) <= cutoff]_vars

\* The blocks that had a sample alone as the query began, and have it in the
\* range, while no compaction has taken them up nor sweep archived them.
Sought(r, p) ==
    {id \in asked[r].was[p] \cap DOMAIN blocks :
        /\ blocks[id].state = "immutable" /\ ~blocks[id].archived
        /\ p \in InRange(blocks[id], asked[r].range)}

\* A query returns a sample exactly once if it was in one block as the query
\* began, and no compaction has taken up nor sweep archived that block by its
\* end: whatever flushes, compactions of others, sweeps and rotations did in
\* between, and whatever part of the window the query asked for
\* (query.go:57-71).  A compaction that overlaps may make it two.
QueryExact ==
    \A r \in Reader : at[r] = "read" /\ todo[r] = {} /\ asked[r].left = {} =>
        \A p \in Sample : \A id \in Sought(r, p) : got[r][p] = 1

\* What QueryExact rests on besides: a block is listed once, and what a compaction
\* has taken up is marked.
ListIInv ==
    /\ \A i, j \in DOMAIN shards : i # j => shards[i].blocks \cap shards[j].blocks = {}
    /\ adding # NoFlush => adding.id \notin Listed
    /\ \A c \in Compactor : at[c] \in {"created", "added"} => blocks[held[c]].state = "compacting"

\* A block that had a sample alone is listed for good, and not the result of a
\* compaction whose source can still be opened.
Settled(id) ==
    /\ id \in Listed
    /\ \A c \in Compactor : at[c] = "added" /\ work[c].new = id => blocks[held[c]].archived

\* A query has yet to come to a block, in a shard or in the list it goes through.
Ahead(r, id) == id \in todo[r] \/ \E i \in asked[r].left : id \in shards[i].blocks

\* The strengthening of QueryExact that is inductive, until a window wraps.
QueryIInv ==
    \A r \in Reader :
        /\ at[r] = "idle" => todo[r] = {} /\ \A p \in Sample : got[r][p] = 0
        /\ todo[r] \subseteq Listed
        /\ \A i \in asked[r].left : shards[i].blocks \cap todo[r] = {}
        /\ \A p \in Sample : \A id \in asked[r].was[p] : Settled(id)
        /\ \A p \in Sample : \A id \in Sought(r, p) :
              /\ Ahead(r, id) => held[r] # id
              /\ got[r][p] = IF Ahead(r, id) \/ held[r] = id THEN 0 ELSE 1
              /\ at[r] = "range" /\ p \in blocks[held[r]].pts => held[r] = id

\* "Blocks that still have active readers are left for a later sweep"
\* (retention.go:28): an archived block leaves the store in the end, whatever
\* queries and compactions come in between, if none of its readers panics
\* (query.go:66-67).
ArchivedLeave ==
    \A id \in 1..MaxBlocks :
        (id \in DOMAIN blocks /\ blocks[id].archived)
            ~> (id \notin DOMAIN blocks \/ Leaks(id) # {})
=============================================================================
