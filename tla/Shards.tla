------------------------------- MODULE Shards -------------------------------
(***************************************************************************)
(* The time shards of internal/shard: the list of windows a shard.Manager  *)
(* keeps, how Route opens a new one, and the one-way life of a shard.      *)
(*                                                                         *)
(* Every method of Manager runs under its mutex, so one action is one      *)
(* call.  Timestamps are int64 in the code: here they are signed numbers   *)
(* of a small width, and the additions wrap as the code's do.              *)
(***************************************************************************)
EXTENDS Integers, Sequences

CONSTANTS
    Window,     \* the length of a window (Manager.window)
    MaxInt,     \* the largest timestamp, math.MaxInt64 in the code
    Clock,      \* readings of the clock NewManager may start from
    Block,      \* identifiers of storage blocks
    MaxShards   \* bound of the model: no window is opened beyond this many

ASSUME ShardConstants ==
    /\ Window \in Nat \ {0}
    /\ MaxInt \in Nat
    /\ Window <= MaxInt
    /\ Clock \subseteq 0..MaxInt
    /\ MaxShards \in Nat \ {0}

VARIABLES
    shards,     \* m.shards, oldest first
    nextID      \* m.nextID

shardVars == <<shards, nextID>>

Time == (-MaxInt - 1)..MaxInt

State == {"active", "sealed", "archived"}

Shard == [id : Nat, start : Time, end : Time, state : State, blocks : SUBSET Block]

-----------------------------------------------------------------------------

\* A faulty Plus, which counts the end as part of the window.
PlusInclusive(t, d) == IF t + d + 1 > MaxInt THEN t + d + 1 - 2 * (MaxInt + 1) ELSE t + d + 1

\* The sum of a timestamp and a window, in two's complement.
Plus(t, d) == IF t + d > MaxInt THEN t + d - 2 * (MaxInt + 1) ELSE t + d

\* Go's % takes the sign of its first operand.
Remainder(t, d) == IF t >= 0 THEN t % d ELSE -((-t) % d)

aligned(t) == t - Remainder(t, Window)

NewShard(start) ==
    [id |-> nextID, start |-> start, end |-> Plus(start, Window),
     state |-> "active", blocks |-> {}]

Last == shards[Len(shards)]

Covers(s, t) == s.start <= t /\ t < s.end

\* A faulty Sealed, which seals a shard in any state.
SealedAgain(s) == [s EXCEPT !.state = "sealed"]

\* Seal passes through the sealing state under the shard's mutex; nobody sees it.
Sealed(s) == IF s.state = "active" THEN [s EXCEPT !.state = "sealed"] ELSE s

Archived(s) == IF s.state = "sealed" THEN [s EXCEPT !.state = "archived"] ELSE s

\* The outcomes of Route: the newest shard covers t, t is too old for it, or a
\* new window has to be opened.
RouteHits(t) == Covers(Last, t)
RouteRejects(t) == ~Covers(Last, t) /\ t < Last.start
RouteOpens(t) == ~Covers(Last, t) /\ t >= Last.start

\* A faulty RoutedShards, which leaves the neighbour of the new window open.
RoutedShardsStrict(t) ==
    IF RouteOpens(t)
    THEN [i \in 1..(Len(shards) + 1) |->
             IF i > Len(shards) THEN NewShard(aligned(t))
             ELSE IF shards[i].end < aligned(t) THEN Sealed(shards[i]) ELSE shards[i]]
    ELSE shards

\* The list of shards after Route(t).  A window is sealed when it ends before
\* the new one starts.
RoutedShards(t) ==
    IF RouteOpens(t)
    THEN [i \in 1..(Len(shards) + 1) |->
             IF i > Len(shards) THEN NewShard(aligned(t))
             ELSE IF shards[i].end <= aligned(t) THEN Sealed(shards[i]) ELSE shards[i]]
    ELSE shards

-----------------------------------------------------------------------------
\* NewManager: one active window around the clock's reading.
FirstShards(now) ==
    <<[id |-> 1, start |-> aligned(now), end |-> Plus(aligned(now), Window),
       state |-> "active", blocks |-> {}]>>

ShardsInit == nextID = 2 /\ \E now \in Clock : shards = FirstShards(now)

\* A faulty Route, which gives the same id again.
RouteSameID(t) ==
    /\ RouteOpens(t) => Len(shards) < MaxShards
    /\ shards' = RoutedShards(t)
    /\ UNCHANGED nextID

Route(t) ==
    /\ RouteOpens(t) => Len(shards) < MaxShards
    /\ shards' = RoutedShards(t)
    /\ nextID' = IF RouteOpens(t) THEN nextID + 1 ELSE nextID

ForceRotate ==
    /\ Len(shards) < MaxShards
    /\ shards' = [i \in 1..(Len(shards) + 1) |->
                     IF i > Len(shards) THEN NewShard(Last.end)
                     ELSE IF i = Len(shards) THEN Sealed(shards[i]) ELSE shards[i]]
    /\ nextID' = nextID + 1

ArchiveOlderThan(t) ==
    /\ shards' = [i \in 1..Len(shards) |->
                     IF shards[i].end <= t THEN Archived(shards[i]) ELSE shards[i]]
    /\ UNCHANGED nextID

\* The caller holds the shard from an earlier Route, so it may have been sealed
\* or archived since.
AddBlock(i, b) ==
    /\ shards' = [shards EXCEPT ![i].blocks = @ \cup {b}]
    /\ UNCHANGED nextID

ShardsNext ==
    \/ ForceRotate
    \/ \E t \in Time : Route(t)
    \/ \E t \in Time : ArchiveOlderThan(t)
    \/ \E i \in DOMAIN shards, b \in Block : AddBlock(i, b)

ShardsSpec == ShardsInit /\ [][ShardsNext]_shardVars

-----------------------------------------------------------------------------
(* Properties. *)

\* The last window of the int64 range has its end wrapped round to a number
\* below its start.
Wrapped(s) == s.end <= s.start

NoneWrapped == \A i \in DOMAIN shards : ~Wrapped(shards[i])

ShardsTypeOK ==
    /\ shards \in Seq(Shard)
    /\ Len(shards) \in 1..MaxShards
    /\ nextID = Len(shards) + 1

\* Up to the last window of the int64 range the windows are disjoint and in
\* order, however Route and ForceRotate take turns: a timestamp belongs to at
\* most one shard, so a query over a range meets each block once
\* (shard.go:115-141, rotation.go:7-22).
WindowsInOrder ==
    NoneWrapped => \A i, j \in DOMAIN shards : i < j => shards[i].end <= shards[j].start

\* Route seals by comparing ends with the new start, not by position.  Still
\* nothing but the newest shard stays active (shard.go:133-138).
OnlyNewestActive ==
    NoneWrapped => \A i \in DOMAIN shards : shards[i].state = "active" <=> i = Len(shards)

\* The strengthening that is inductive: until the range is used up, windows
\* start on multiples of their length and not before zero.
Multiple(t) == \E k \in Int : t = k * Window

ShardsIInv ==
    /\ ShardsTypeOK
    /\ \A i \in DOMAIN shards : shards[i].end = Plus(shards[i].start, Window)
    /\ NoneWrapped => \A i \in DOMAIN shards : shards[i].start >= 0 /\ Multiple(shards[i].start)
    /\ WindowsInOrder
    /\ OnlyNewestActive

Rank(state) == CASE state = "active" -> 0 [] state = "sealed" -> 1 [] state = "archived" -> 2

\* A shard is never dropped, never reopened, never changes its window and never
\* forgets a block, whoever still holds a pointer to it (shard.go:38-63).
ShardsOnlyAge ==
    [][\A i \in DOMAIN shards :
          /\ i \in DOMAIN shards'
          /\ shards'[i].start = shards[i].start /\ shards'[i].end = shards[i].end
          /\ Rank(shards'[i].state) >= Rank(shards[i].state)
          /\ shards[i].blocks \subseteq shards'[i].blocks]_shardVars

=============================================================================
