------------------------------- MODULE Ingest -------------------------------
(***************************************************************************)
(* The write path of internal/ingest: requests that append samples, the    *)
(* flush of the memtable into blocks, and recovery after a restart, on top *)
(* of the write-ahead log (WAL.tla) and the time shards (Shards.tla).      *)
(*                                                                         *)
(* Every sample is its own request: AppendBatch is a loop over Append.     *)
(* The steps of a request are what runs between two points where another   *)
(* goroutine can act on the same state: taking a slot, logging (under the  *)
(* lock of the log only), and the part under in.mu.  A flush holds in.mu   *)
(* throughout, but the log and the shards have locks of their own, so      *)
(* logging, rotation and crashes fall between its steps.                   *)
(***************************************************************************)
EXTENDS Integers, Sequences, FiniteSets

CONSTANTS
    Point,          \* samples, each of its own series
    TS,             \* the timestamp of each
    Concurrency,    \* slots for requests in progress
    FlushThreshold, \* points in the memtable that make a request flush
    Framing,        \* whether a record can be split by a line feed: a set of BOOLEAN
    MaxCrashes,     \* bound of the model: crashes
    MaxStops,       \* bound of the model: orderly shutdowns
    MaxRotations,   \* bound of the model: calls of ForceRotate
    MaxSize, BufCap, MaxSeq, MaxIdx,         \* of WAL
    Window, MaxInt, Clock, MaxShards         \* of Shards

ASSUME IngestConstants ==
    /\ TS \in [Point -> 0..MaxInt]
    /\ Concurrency \in Nat \ {0}
    /\ FlushThreshold \in Nat \ {0}
    /\ Framing \subseteq BOOLEAN
    /\ {MaxCrashes, MaxStops, MaxRotations} \subseteq Nat
    /\ Point \cap {"none", "ticker", "recover"} = {}
    /\ {MaxSize, BufCap, MaxSeq, MaxIdx} \subseteq Nat \ {0}
    /\ Window \in Nat \ {0} /\ MaxInt \in Nat /\ Window <= MaxInt
    /\ Clock \subseteq 0..MaxInt /\ MaxShards \in Nat \ {0}

VARIABLES
    open, segments, nextSeq, nextReplay, checkpoint,   \* the log
    shards, nextID,                                    \* the shards
    server,     \* "down", "recovering" or "serving"
    pc,         \* where each request is
    seqOf,      \* the sequence number the log gave a request
    mu,         \* the holder of in.mu: nobody, a request, the ticker, recovery
    mem,        \* points in the live memtable
    phase,      \* how far the flush under way is
    flushSeq,   \* its seq argument
    snap,       \* points of the swapped-out snapshot not yet grouped
    groups,     \* point sets of the flush, one per shard, in order
    live,       \* points this process has acknowledged or replayed
    faults      \* crashes, stops and rotations so far

W == INSTANCE WAL WITH Payload <- Point
S == INSTANCE Shards WITH Block <- SUBSET Point

logVars == <<open, segments, nextSeq, nextReplay, checkpoint>>
shardVars == <<shards, nextID>>
flushVars == <<phase, flushSeq, snap, groups>>
vars == <<logVars, shardVars, flushVars, server, pc, seqOf, mu, mem, live, faults>>

Running == {"admitted", "logged", "flushing"}
Done == {"acked", "failed", "lost"}

\* Points in the blocks the shards list; a query finds no others.
Stored == UNION UNION {shards[i].blocks : i \in DOMAIN shards}

Grouped == UNION {groups[i].pts : i \in DOMAIN groups}

-----------------------------------------------------------------------------
Init ==
    /\ W!Init
    /\ S!ShardsInit
    /\ server = "down"
    /\ pc = [p \in Point |-> "new"]
    /\ seqOf = [p \in Point |-> 0]
    /\ mu = "none"
    /\ mem = {}
    /\ phase = "idle" /\ flushSeq = 0 /\ snap = {} /\ groups = <<>>
    /\ live = {}
    /\ faults = [crashes |-> 0, stops |-> 0, rotations |-> 0]

-----------------------------------------------------------------------------
(* Requests: Ingest.Append. *)

\* The slots channel admits at most Concurrency requests.
Admit(p) ==
    /\ server = "serving"
    /\ pc[p] = "new"
    /\ Cardinality({q \in Point : pc[q] \in Running}) < Concurrency
    /\ pc' = [pc EXCEPT ![p] = "admitted"]
    /\ UNCHANGED <<logVars, shardVars, flushVars, server, seqOf, mu, mem, live, faults>>

\* SeriesOf refuses a bad name or bad labels.
Refuse(p) ==
    /\ pc[p] = "admitted"
    /\ pc' = [pc EXCEPT ![p] = "failed"]
    /\ UNCHANGED <<logVars, shardVars, flushVars, server, seqOf, mu, mem, live, faults>>

\* The record goes to the log without in.mu.
Log(p) ==
    /\ pc[p] = "admitted"
    /\ \E clean \in Framing, f \in {"none", "live"} : W!AppendRecord(p, clean, f)
    /\ seqOf' = [seqOf EXCEPT ![p] = nextSeq]
    /\ pc' = [pc EXCEPT ![p] = "logged"]
    /\ UNCHANGED <<shardVars, flushVars, server, mu, mem, live, faults>>

\* A faulty Swap, which takes seq for the first sequence number not flushed.
SwapOffByOne(who, seq, points) ==
    /\ mu' = who
    /\ mem' = {}
    /\ phase' = "group" /\ flushSeq' = seq - 1 /\ snap' = points /\ groups' = <<>>

\* flushLocked up to and with the swap of the memtable.
Swap(who, seq, points) ==
    /\ mu' = who
    /\ mem' = {}
    /\ phase' = "group" /\ flushSeq' = seq /\ snap' = points /\ groups' = <<>>

\* A faulty Write, which writes to the memtable before it looks at the route.
WriteFirst(p) ==
    /\ pc[p] = "logged"
    /\ mu = "none"
    /\ S!Route(TS[p])
    /\ \/ /\ S!RouteRejects(TS[p])
          /\ pc' = [pc EXCEPT ![p] = "failed"]
          /\ mem' = mem \cup {p}
          /\ UNCHANGED <<flushVars, mu, live>>
       \/ /\ ~S!RouteRejects(TS[p])
          /\ mem' = mem \cup {p}
          /\ pc' = [pc EXCEPT ![p] = "acked"]
          /\ live' = live \cup {p}
          /\ UNCHANGED <<flushVars, mu>>
    /\ UNCHANGED <<logVars, server, seqOf, faults>>

\* Under in.mu: route, write to the memtable, and flush when it is full.  A
\* sample that does not route fails, though its record stays in the log.
Write(p) ==
    /\ pc[p] = "logged"
    /\ mu = "none"
    /\ S!Route(TS[p])
    /\ \/ /\ S!RouteRejects(TS[p])
          /\ pc' = [pc EXCEPT ![p] = "failed"]
          /\ UNCHANGED <<flushVars, mu, mem, live>>
       \/ /\ ~S!RouteRejects(TS[p])
          /\ Cardinality(mem \cup {p}) < FlushThreshold
          /\ mem' = mem \cup {p}
          /\ pc' = [pc EXCEPT ![p] = "acked"]
          /\ live' = live \cup {p}
          /\ UNCHANGED <<flushVars, mu>>
       \/ /\ ~S!RouteRejects(TS[p])
          /\ Cardinality(mem \cup {p}) >= FlushThreshold
          /\ Swap(p, seqOf[p], mem \cup {p})
          /\ pc' = [pc EXCEPT ![p] = "flushing"]
          /\ UNCHANGED live
    /\ UNCHANGED <<logVars, server, seqOf, faults>>

-----------------------------------------------------------------------------
(* The ticker's goroutine: Flush, then Sync. *)

\* A faulty TickerFlush, which takes NextSeq for the last number handed out.
TickerFlushAhead ==
    /\ server = "serving"
    /\ mu = "none"
    /\ nextSeq > 0
    /\ mem # {}
    /\ Swap("ticker", nextSeq, mem)
    /\ UNCHANGED <<logVars, shardVars, server, pc, seqOf, live, faults>>

\* A faulty TickerFlush, which waits for a full memtable as requests do.
TickerFlushWhenFull ==
    /\ server = "serving"
    /\ mu = "none"
    /\ nextSeq > 0
    /\ Cardinality(mem) >= FlushThreshold
    /\ Swap("ticker", nextSeq - 1, mem)
    /\ UNCHANGED <<logVars, shardVars, server, pc, seqOf, live, faults>>

TickerFlush ==
    /\ server = "serving"
    /\ mu = "none"
    /\ nextSeq > 0
    /\ mem # {}
    /\ Swap("ticker", nextSeq - 1, mem)
    /\ UNCHANGED <<logVars, shardVars, server, pc, seqOf, live, faults>>

TickerSync ==
    /\ server = "serving"
    /\ mu # "ticker"
    /\ W!Sync
    /\ UNCHANGED <<shardVars, flushVars, server, pc, seqOf, mu, mem, live, faults>>

-----------------------------------------------------------------------------
(* flushLocked, after the swap. *)

\* Faulty variants of AddToGroup: a group per point; a group's last point only.
AddToNewGroup(start, p) == Append(groups, [start |-> start, pts |-> {p}])
AddToGroupAlone(start, p) ==
    IF \E i \in DOMAIN groups : groups[i].start = start
    THEN [i \in DOMAIN groups |->
             IF groups[i].start = start THEN [groups[i] EXCEPT !.pts = {p}] ELSE groups[i]]
    ELSE Append(groups, [start |-> start, pts |-> {p}])

\* The point joins the group of its window, or starts it.
AddToGroup(start, p) ==
    IF \E i \in DOMAIN groups : groups[i].start = start
    THEN [i \in DOMAIN groups |->
             IF groups[i].start = start THEN [groups[i] EXCEPT !.pts = @ \cup {p}] ELSE groups[i]]
    ELSE Append(groups, [start |-> start, pts |-> {p}])

\* groupByShard routes the points of the snapshot one by one, in the order of a
\* Go map.  A point that no longer routes is skipped.
Group(p) ==
    /\ phase = "group"
    /\ p \in snap
    /\ snap' = snap \ {p}
    /\ S!Route(TS[p])
    /\ groups' = IF S!RouteRejects(TS[p]) THEN groups ELSE AddToGroup(S!Last'.start, p)
    /\ UNCHANGED <<logVars, server, pc, seqOf, mu, mem, phase, flushSeq, live, faults>>

\* groupMinMax: p is the earliest of the group.
Earliest(g, p) == p \in g.pts /\ \A q \in g.pts : TS[p] <= TS[q]

\* A faulty Return, which keeps in.mu when the flush failed.
ReturnHolding(ok) ==
    /\ mu' = IF ok THEN "none" ELSE mu
    /\ phase' = "idle" /\ flushSeq' = 0 /\ snap' = {} /\ groups' = <<>>
    /\ pc' = [p \in Point |-> IF p # mu THEN pc[p] ELSE IF ok THEN "acked" ELSE "failed"]
    /\ live' = IF ok THEN live \cup ({mu} \cap Point) ELSE live
    /\ server' = "serving"

\* The return of flushLocked, with or without an error, to whoever called it.
\* (An error in Recover is fatal: see FailRecovery.)
Return(ok) ==
    /\ mu' = "none"
    /\ phase' = "idle" /\ flushSeq' = 0 /\ snap' = {} /\ groups' = <<>>
    /\ pc' = [p \in Point |-> IF p # mu THEN pc[p] ELSE IF ok THEN "acked" ELSE "failed"]
    /\ live' = IF ok THEN live \cup ({mu} \cap Point) ELSE live
    /\ server' = "serving"

\* A faulty StoreGroup, which takes the newest shard instead of routing.
StoreGroupInNewest ==
    /\ phase = "group" /\ snap = {} /\ groups # <<>>
    /\ shards' = [shards EXCEPT ![Len(shards)].blocks = @ \cup {Head(groups).pts}]
    /\ groups' = Tail(groups)
    /\ UNCHANGED <<logVars, nextID, server, pc, seqOf, mu, mem, phase, flushSeq, snap, live, faults>>

\* The next group becomes a block of the shard its earliest point routes to.
\* Create, Seal, Route and AddBlock in one step: only Route looks at state that
\* others change.
StoreGroup ==
    /\ phase = "group" /\ snap = {} /\ groups # <<>>
    /\ \E p \in Point :
           /\ Earliest(Head(groups), p)
           /\ ~S!RouteRejects(TS[p])
           /\ S!RouteOpens(TS[p]) => Len(shards) < MaxShards
           /\ LET routed == S!RoutedShards(TS[p])
              IN  shards' = [routed EXCEPT ![Len(routed)].blocks = @ \cup {Head(groups).pts}]
           /\ nextID' = IF S!RouteOpens(TS[p]) THEN nextID + 1 ELSE nextID
    /\ groups' = Tail(groups)
    /\ UNCHANGED <<logVars, server, pc, seqOf, mu, mem, phase, flushSeq, snap, live, faults>>

\* The group's window has passed: the flush gives up, with the rest of the
\* snapshot and without touching the log.
AbandonFlush ==
    /\ phase = "group" /\ snap = {} /\ groups # <<>>
    /\ mu # "recover"
    /\ \E p \in Point : Earliest(Head(groups), p) /\ S!RouteRejects(TS[p])
    /\ Return(FALSE)
    /\ UNCHANGED <<logVars, shardVars, seqOf, mem, faults>>

AdvanceWatermark ==
    /\ phase = "group" /\ snap = {} /\ groups = <<>>
    /\ phase' = "truncate"
    /\ W!SetReplayStart(flushSeq + 1)
    /\ UNCHANGED <<shardVars, server, pc, seqOf, mu, mem, flushSeq, snap, groups, live, faults>>

FinishFlush ==
    /\ phase = "truncate"
    /\ W!TruncateTo(flushSeq)
    /\ Return(TRUE)
    /\ UNCHANGED <<shardVars, seqOf, mem, faults>>

-----------------------------------------------------------------------------
(* The administrator, and the life of the process. *)

Rotate ==
    /\ server = "serving"
    /\ faults.rotations < MaxRotations
    /\ S!ForceRotate
    /\ faults' = [faults EXCEPT !.rotations = @ + 1]
    /\ UNCHANGED <<logVars, flushVars, server, pc, seqOf, mu, mem, live>>

\* Everything but the files is gone: the blocks and the shards live in memory.
Gone ==
    /\ server' = "down"
    /\ pc' = [p \in Point |-> IF pc[p] \in Running THEN "lost" ELSE pc[p]]
    /\ seqOf' = [p \in Point |-> 0]
    /\ mu' = "none" /\ mem' = {} /\ live' = {}
    /\ phase' = "idle" /\ flushSeq' = 0 /\ snap' = {} /\ groups' = <<>>
    /\ UNCHANGED shardVars

Crash ==
    /\ server # "down"
    /\ faults.crashes < MaxCrashes
    /\ \/ \E whole \in BOOLEAN : W!Crash(whole)
       \/ /\ phase = "truncate"
          /\ \E gone \in SUBSET DOMAIN segments, reached \in {"unlink", "flush", "rename"} :
                 W!CrashInTruncateTo(flushSeq, gone, reached)
    /\ Gone
    /\ faults' = [faults EXCEPT !.crashes = @ + 1]

\* SIGTERM: main returns while requests may be in progress, and its deferred
\* Close flushes the log.  The memtable is not flushed.
Shutdown ==
    /\ server = "serving"
    /\ faults.stops < MaxStops
    /\ W!Close
    /\ Gone
    /\ faults' = [faults EXCEPT !.stops = @ + 1]

Restart ==
    /\ server = "down"
    /\ server' = "recovering"
    /\ W!Open
    /\ \E now \in Clock : shards' = S!FirstShards(now)
    /\ nextID' = 2
    /\ UNCHANGED <<flushVars, pc, seqOf, mu, mem, live, faults>>

\* Recover: replay into the memtable without routing, then Flush.
Recover ==
    /\ server = "recovering"
    /\ mu = "none"
    /\ LET replayed == {r.pt : r \in W!Replayed(nextReplay)}
       IN  /\ live' = live \cup replayed
           /\ \/ /\ replayed = {}
                 /\ server' = "serving"
                 /\ UNCHANGED <<flushVars, mu, mem>>
              \/ /\ replayed # {}
                 /\ Swap("recover", nextSeq - 1, replayed)
                 /\ UNCHANGED server
    /\ UNCHANGED <<logVars, shardVars, pc, seqOf, faults>>

\* log.Fatalf: the process ends without closing the log.
FailRecovery ==
    /\ mu = "recover"
    /\ phase = "group" /\ snap = {} /\ groups # <<>>
    /\ \E p \in Point : Earliest(Head(groups), p) /\ S!RouteRejects(TS[p])
    /\ W!Crash(FALSE)
    /\ Gone
    /\ UNCHANGED faults

Request(p) == Admit(p) \/ Refuse(p) \/ Log(p) \/ Write(p)

FlushStep ==
    \/ \E p \in Point : Group(p)
    \/ StoreGroup \/ AbandonFlush \/ AdvanceWatermark \/ FinishFlush

Next ==
    \/ \E p \in Point : Request(p)
    \/ TickerFlush \/ TickerSync
    \/ FlushStep
    \/ Rotate
    \/ Crash \/ Shutdown \/ Restart \/ Recover \/ FailRecovery

Spec == Init /\ [][Next]_vars

\* A request that can run runs.  Write and TickerFlush wait for in.mu and Admit
\* for a slot, which others take in between: Go hands a mutex to a waiter that
\* has starved and a channel to its waiters in order, hence strong fairness.
\* The ticker keeps firing, the supervisor starts the process again.  Nothing
\* obliges a client, an administrator or a crash.
Fairness ==
    /\ \A p \in Point : WF_vars(Log(p)) /\ SF_vars(Write(p))
    /\ WF_vars(FlushStep \/ FailRecovery)
    /\ SF_vars(TickerFlush)
    /\ WF_vars(Restart) /\ WF_vars(Recover)

FairSpec == Spec /\ Fairness

-----------------------------------------------------------------------------
(* Properties. *)

TypeOK ==
    /\ server \in {"down", "recovering", "serving"}
    /\ pc \in [Point -> {"new"} \cup Running \cup Done]
    /\ seqOf \in [Point -> 0..MaxSeq]
    /\ mu \in Point \cup {"none", "ticker", "recover"}
    /\ mem \subseteq Point /\ snap \subseteq Point /\ live \subseteq Point
    /\ phase \in {"idle", "group", "truncate"}
    /\ flushSeq \in 0..MaxSeq
    /\ groups \in Seq([start : S!Time, pts : SUBSET Point])
    /\ faults \in [crashes : 0..MaxCrashes, stops : 0..MaxStops, rotations : 0..MaxRotations]

\* Where a query, now or once the flush under way is over, can find a point.
Reachable == mem \cup snap \cup Grouped \cup Stored

Passed(p) == TS[p] < S!Last.start

\* A point this process acknowledged or replayed is in the memtable, in the
\* flush under way or in a block, for as long as its window is the active one:
\* rotation is the only way to lose it while the process lives
\* (ingest.go:134-163).
StoredOrPassed == \A p \in live : p \in Reachable \/ Passed(p)

\* "a block is always owned by the shard covering its data" (ingest.go:165-166):
\* grouping and storing route separately and shards rotate in between, yet no
\* block lands in a shard that a query over its points would not visit.
BlocksInTheirShard ==
    \A i \in DOMAIN shards : \A b \in shards[i].blocks : \A p \in b : S!Covers(shards[i], TS[p])

\* Requests route before they write, so the points a serving process flushes
\* all belong to the active window or to one that has passed: the flush makes
\* one block at most, and the points of a passed window go nowhere
\* (ingest.go:111-114, 167-195).
OneBlockPerFlush == mu # "recover" => Len(groups) <= 1

\* Every admitted request returns, whatever the flushes, rotations and crashes
\* in between: nobody keeps in.mu or a slot (ingest.go:96-120).
RequestsReturn == \A p \in Point : pc[p] = "admitted" ~> pc[p] \in Done

\* The ticker gets every point of a living process out of the memtable: into a
\* block, or past its window (main.go:107-125).
PointsReachBlocks ==
    \A p \in Point : p \in live ~> p \in Stored \/ Passed(p) \/ server = "down"

\* A sample whose request was answered with an error is nowhere a query looks,
\* whichever step failed: the route before the write, or the flush after it
\* (ingest.go:111-118, 151-154).  Until the next start, that is: its record is in
\* the log and Recover brings it back (then it is in live).
FailedLeavesNothing ==
    server # "down" => \A p \in Point : pc[p] = "failed" => p \in live \/ p \notin Reachable

\* Whatever the write path does with the log is what WAL.tla lets its callers do:
\* a flush moves the watermark and truncates by numbers the log has handed out
\* to this process, and nobody calls it while it is closed (ingest.go:134-163,
\* 245-276).  So all that is proved of the log holds in this composition.
LogAsSpecified == W!Spec

-----------------------------------------------------------------------------
(* The strengthening of the first properties that is inductive. *)

\* Who holds in.mu, and what there is while nobody does or nobody serves.
Control ==
    /\ pc \in [Point -> {"new"} \cup Running \cup Done]
    /\ groups \in Seq([start : S!Time, pts : SUBSET Point])
    /\ phase = "idle" <=> mu = "none"
    /\ phase # "group" => snap = {} /\ groups = <<>>
    /\ mu # "none" => mem = {}
    /\ \A p \in Point : pc[p] = "flushing" <=> mu = p
    /\ server # "serving" => \A p \in Point : pc[p] \notin Running
    /\ server = "down" => mu = "none"
    /\ server # "serving" /\ mu = "none" => mem = {} /\ live = {}
    /\ mu = "recover" => server = "recovering"

\* Nothing is on its way to a block, or in one, but what was acknowledged,
\* replayed, or is of the request that flushes.
Owned ==
    /\ mem \subseteq live
    /\ snap \cup Grouped \subseteq live \cup {mu}
    /\ server # "down" => Stored \subseteq live \cup {mu}

\* The points of a group are of the window it is named for.
InWindow(g) ==
    \E i \in DOMAIN shards :
        shards[i].start = g.start /\ \A p \in g.pts : S!Covers(shards[i], TS[p])

\* A flush of routed points: those left to group are of the window of its group,
\* or of a window that has passed, and none is stored before the group is.
Routed ==
    /\ OneBlockPerFlush
    /\ mu # "recover" =>
          /\ \A p \in snap \cap Point :
                 /\ TS[p] < S!Last.end
                 /\ TS[p] >= S!Last.start => \A i \in DOMAIN groups : groups[i].start = S!Last.start
          /\ snap # {} \/ groups # <<>> => Stored \subseteq live

Placed ==
    /\ \A p \in mem \cap Point : TS[p] < S!Last.end
    /\ \A i \in DOMAIN groups : InWindow(groups[i])
    /\ BlocksInTheirShard
    /\ \A p \in live \cup ({mu} \cap Point) : p \in Reachable \/ (p \in Point /\ Passed(p))

\* What the write path relies on in the log, and the log in the write path: a
\* request and a flush carry numbers that this process has had from the log.
LogIInv ==
    /\ W!IInv
    /\ TypeOK
    /\ open <=> server # "down"
    /\ \A p \in Point : pc[p] = "logged" => seqOf[p] < nextSeq
    /\ phase # "idle" => flushSeq < nextSeq

IngestIInv ==
    /\ S!ShardsIInv /\ Control
    /\ S!NoneWrapped => Owned /\ Routed /\ Placed

-----------------------------------------------------------------------------
(* What comments promise and the code does not keep. *)

\* "It is only safe to call after the affected records were flushed to storage
\* blocks" (wal.go:384-385): an acknowledged point that is in no block, nor in
\* the flush under way, has a record the next start would replay.
AckedIsReplayable ==
    server = "serving" =>
        \A p \in live :
            \/ p \in snap \cup Grouped \cup Stored \/ Passed(p)
            \/ \E i \in DOMAIN segments : \E r \in W!Held(segments[i]) :
                   r.pt = p /\ r.seq >= nextReplay

\* "acknowledged writes are not lost across restarts" (ingest.go:245-246): once
\* Recover is over, what was acknowledged before an orderly stop is there.
AckedSurviveRestart ==
    server = "serving" => \A p \in Point : pc[p] = "acked" => p \in Reachable \/ Passed(p)
=============================================================================
