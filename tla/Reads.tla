-------------------------------- MODULE Reads --------------------------------
(***************************************************************************)
(* Queries against writes and flushes: Engine.collect of internal/query    *)
(* over the memtable (Memtable.tla) and the blocks, while Ingest.Append    *)
(* writes and flushLocked moves the memtable into a block.                 *)
(*                                                                         *)
(* in.mu orders writes and flushes; queries do not take it.  A query reads *)
(* the memtable first and the blocks after.  One time shard and one        *)
(* series; what compaction and retention do to blocks is in Blocks.tla,    *)
(* and which block a flush makes, or fails to make, in Ingest.tla.         *)
(***************************************************************************)
EXTENDS Memtable, Aggregate

CONSTANTS
    FlushThreshold,     \* points in the memtable that make a write flush
    Step,               \* the width of the windows a query aggregates by
    MaxFlushes,         \* bound of the model: flushes
    MaxHeld             \* bound of the model: points in the table and the blocks

ASSUME ReadsConstants ==
    /\ FlushThreshold \in Nat \ {0}
    /\ Step \in Nat \ {0}
    /\ MaxFlushes \in Nat

VARIABLES
    mu,         \* in.mu: "none", or how far the flush of its holder is
    flight,     \* the points of the snapshot a flush has swapped out
    stored,     \* the blocks the shard lists, oldest first
    query       \* each query after its memtable read, and (history) what was where

vars == <<memVars, mu, flight, stored, query>>

NoQuery == [at |-> "idle", range |-> <<0, 0>>, pts |-> <<>>,
            mem |-> {}, late |-> {}, before |-> 0, listed |-> 0, shifts |-> 0]

\* The points of a block in a range, by two binary searches; blocks are immutable.
RangeOf(block, rng) == SubSeq(block, Search(block, rng[1]) + 1, Search(block, rng[2]))

\* rangeLocked panics when the end of the range lies before its start and the
\* block has a point in between.
RangePanics(block, rng) == Search(block, rng[2]) < Search(block, rng[1])

-----------------------------------------------------------------------------
Init ==
    /\ MemInit
    /\ mu = "none" /\ flight = <<>> /\ stored = <<>>
    /\ query = [r \in Reader |-> NoQuery]

\* The timestamps of a set that a range covers.
Asked(rng, T) == {t \in T : rng[1] <= t /\ t < rng[2]}

Held == Len(slice) + Len(FlattenSeq(stored))

\* Queries that are yet to read the memtable may meet this write.
Noticed(p) ==
    [r \in Reader |->
        IF query[r].at = "mem"
        THEN [query[r] EXCEPT !.late = @ \cup (Asked(query[r].range, {p.ts}) \ query[r].mem)]
        ELSE query[r]]

\* A faulty Write, which counts the points the table holds.
WriteCountsHeld(p) ==
    /\ mu = "none" /\ Held < MaxHeld
    /\ MemWrite(p)
    /\ mu' = IF Len(slice') >= FlushThreshold THEN "full" ELSE "none"
    /\ query' = Noticed(p)
    /\ UNCHANGED <<flight, stored>>

\* Append under in.mu.  At the threshold it goes on to flush.
Write(p) ==
    /\ mu = "none" /\ Held < MaxHeld
    /\ MemWrite(p)
    /\ mu' = IF points' >= FlushThreshold THEN "full" ELSE "none"
    /\ query' = Noticed(p)
    /\ UNCHANGED <<flight, stored>>

\* flushLocked up to the swap, by the request that filled the memtable or by
\* the ticker.
Swap ==
    /\ gen <= MaxFlushes
    /\ mu = "full" \/ (mu = "none" /\ points > 0)
    /\ MemFlush
    /\ flight' = slice
    /\ mu' = "flushing"
    /\ UNCHANGED <<stored, query>>

\* The rest of it: the block, or no block when Route refuses it; then the
\* deferred Release and Unlock.
EndFlush ==
    /\ mu = "flushing"
    /\ \/ stored' = Append(stored, flight)
       \/ UNCHANGED stored
    /\ flight' = <<>>
    /\ refs' = Released(refs, gen - 1)
    /\ mu' = "none"
    /\ UNCHANGED <<slice, capacity, points, span, gen, scan, query>>

-----------------------------------------------------------------------------
(* Engine.collect and aggregate. *)

Begin(r, rng) ==
    /\ query[r].at = "idle"
    /\ Latest(r, rng)
    /\ query' = [query EXCEPT ![r] =
                    [NoQuery EXCEPT !.at = "mem", !.range = rng, !.mem = Asked(rng, TSof(slice)),
                                    !.before = Len(stored)]]
    /\ UNCHANGED <<mu, flight, stored>>

ReadMap(r) == Lookup(r) /\ UNCHANGED <<mu, flight, stored, query>>

ReadLo(r) == SearchLo(r) /\ UNCHANGED <<mu, flight, stored, query>>

ReadHi(r) == SearchHi(r) /\ UNCHANGED <<mu, flight, stored, query>>

\* The memtable's points are copied and the snapshot released.
GotMem(r) ==
    /\ CopyEnd(r)
    /\ \E out \in Copies(r) :
           query' = [query EXCEPT ![r] = [@ EXCEPT !.at = "blocks", !.pts = out,
                                                   !.shifts = scan[r].shifts]]
    /\ UNCHANGED <<mu, flight, stored>>

\* The handler's goroutine panics, which the HTTP server turns into a closed
\* connection.
Abort(r) ==
    /\ \/ ScanPanics(r)
       \/ /\ query[r].at = "blocks"
          /\ \E i \in DOMAIN stored : RangePanics(stored[i], query[r].range)
          /\ UNCHANGED memVars
    /\ query' = [query EXCEPT ![r] = NoQuery]
    /\ UNCHANGED <<mu, flight, stored>>

\* What a query has collected is in parts, the memtable's being part 0 and a
\* block's its number in the list.
Collected(r) ==
    [i \in 0..Len(stored) |-> IF i = 0 THEN query[r].pts ELSE RangeOf(stored[i], query[r].range)]

Places(parts) == UNION {{i} \X DOMAIN parts[i] : i \in DOMAIN parts}

PointAt(parts, x) == parts[x[1]][x[2]]

Precedes(parts, x, y) ==
    \/ PointAt(parts, x).ts < PointAt(parts, y).ts
    \/ /\ PointAt(parts, x).ts = PointAt(parts, y).ts
       /\ x[1] < y[1] \/ (x[1] = y[1] /\ x[2] < y[2])

\* append and sort.Slice: a point goes behind as many as precede it.  (Points of
\* one timestamp may come in any order, which no window depends on.)
Sorted(parts) ==
    LET rank == [x \in Places(parts) |->
                    Cardinality({y \in Places(parts) : Precedes(parts, y, x)}) + 1]
    IN  [n \in 1..Cardinality(Places(parts)) |->
            PointAt(parts, CHOOSE x \in Places(parts) : rank[x] = n)]

\* A faulty Answer, which leaves the points in the order it met them.
AnswerUnsorted(r) ==
    /\ query[r].at = "blocks"
    /\ query' = [query EXCEPT ![r] =
                    [@ EXCEPT !.at = "answered", !.listed = Len(stored),
                              !.pts = FlattenSeq([i \in 1..(Len(stored) + 1) |-> Collected(r)[i - 1]])]]
    /\ UNCHANGED <<memVars, mu, flight, stored>>

\* The blocks of the shard are listed and read, and all points sorted.
Answer(r) ==
    /\ query[r].at = "blocks"
    /\ \A i \in DOMAIN stored : ~RangePanics(stored[i], query[r].range)
    /\ query' = [query EXCEPT ![r] = [@ EXCEPT !.at = "answered", !.listed = Len(stored),
                                               !.pts = Sorted(Collected(r))]]
    /\ UNCHANGED <<memVars, mu, flight, stored>>

Finish(r) ==
    /\ query[r].at = "answered"
    /\ query' = [query EXCEPT ![r] = NoQuery]
    /\ UNCHANGED <<memVars, mu, flight, stored>>

\* Lookup reads the map while a write of a new timestamp assigns to it: the Go
\* runtime may notice and end the process.  What the next one recovers is in
\* Ingest.tla; here it starts afresh.
MapRace(r) ==
    /\ scan[r].at = "pinned" /\ ~scan[r].own
    /\ mu = "none" /\ \E p \in Sample : ~Overwrites(p)
    /\ slice' = <<>> /\ capacity' = 0 /\ points' = 0 /\ span' = <<0, 0>>
    /\ gen' = 1 /\ refs' = <<1>>
    /\ scan' = [q \in Reader |-> NoScan]
    /\ mu' = "none" /\ flight' = <<>> /\ stored' = <<>>
    /\ query' = [q \in Reader |-> NoQuery]

Next ==
    \/ \E p \in Sample : Write(p)
    \/ Swap
    \/ EndFlush
    \/ \E r \in Reader, rng \in Ranges : Begin(r, rng)
    \/ \E r \in Reader : \/ ReadMap(r) \/ ReadLo(r) \/ ReadHi(r) \/ GotMem(r)
                         \/ Answer(r) \/ Finish(r) \/ Abort(r) \/ MapRace(r)

Spec == Init /\ [][Next]_vars

-----------------------------------------------------------------------------
(* Properties. *)

Ascending(pts) == \A i, j \in DOMAIN pts : i < j => pts[i].ts < pts[j].ts

ReadsTypeOK ==
    /\ mu \in {"none", "full", "flushing"}
    /\ gen \in 1..(MaxFlushes + 1) /\ Len(refs) = gen
    /\ Len(slice) <= capacity
    /\ TSof(slice) \cup TSof(flight) \subseteq {p.ts : p \in Sample}
    /\ mu # "flushing" => flight = <<>>
    /\ \A r \in Reader : scan[r].at # "idle" <=> query[r].at = "mem"

\* The order that every binary search relies on, of the live slice and of what
\* it became in blocks, holds with appends in place, overwrites and flushes; and
\* the bounds that Stats reports are its ends (memtable.go:96-116).
KeptInOrder ==
    /\ Ascending(slice)
    /\ \A i \in DOMAIN stored : Ascending(stored[i])
    /\ slice # <<>> => span = <<slice[1].ts, slice[Len(slice)].ts>>

\* points counts overwrites too, so a flush may come early but never late: when
\* nobody holds in.mu, the table is below the threshold (memtable.go:115,
\* ingest.go:116).
BufferBounded ==
    /\ Len(slice) <= points
    /\ mu = "none" => points < FlushThreshold

\* A snapshot's references are the table's or flush's and one of each reader
\* that has it pinned, also after a panic (memtable.go:18-40, 147-149).
SnapshotRefs ==
    \A g \in DOMAIN refs :
        refs[g] = (IF g = gen \/ (g = gen - 1 /\ mu = "flushing") THEN 1 ELSE 0)
                      + Cardinality({r \in Reader : scan[r].at # "idle" /\ scan[r].gen = g})

\* The strengthening of these four that is inductive.  The flush holds what the
\* slice was when it was swapped out, and has emptied the table.
Cell == [ts : Int, val : Int]

TablesIInv ==
    /\ slice \in Seq(Cell) /\ flight \in Seq(Cell) /\ stored \in Seq(Seq(Cell))
    /\ capacity \in Nat /\ points \in Nat
    /\ mu \in {"none", "full", "flushing"}
    /\ Len(slice) <= capacity
    /\ TSof(slice) \cup TSof(flight) \subseteq {p.ts : p \in Sample}
    /\ mu # "flushing" => flight = <<>>
    /\ mu = "flushing" => points = 0
    /\ slice = <<>> <=> points = 0
    /\ Ascending(flight)
    /\ KeptInOrder
    /\ BufferBounded

PinsIInv ==
    /\ gen \in 1..(MaxFlushes + 1)
    /\ refs \in Seq(Nat) /\ Len(refs) = gen
    /\ mu = "flushing" => gen > 1
    /\ DOMAIN scan = Reader /\ DOMAIN query = Reader
    /\ \A r \in Reader :
          /\ {"at", "gen"} \subseteq DOMAIN scan[r] /\ "at" \in DOMAIN query[r]
          /\ scan[r].at \in {"idle"} \cup Pinned
          /\ scan[r].at # "idle" => scan[r].gen \in 1..gen
          /\ scan[r].at # "idle" <=> query[r].at = "mem"
    /\ SnapshotRefs

Times(pts, t) == Cardinality({i \in DOMAIN pts : pts[i].ts = t})

SampleTimes == {p.ts : p \in Sample}

BlocksWith(blocks, t, n) == Cardinality({i \in 1..n : t \in TSof(blocks[i])})

\* The copies of what a query asks for that were there as it began: <<0, t>> in
\* memory, <<i, t>> in a block.
CopiesOf(q, blocks) ==
    {c \in (0..q.before) \X Asked(q.range, SampleTimes) :
        c[2] \in (IF c[1] = 0 THEN q.mem ELSE TSof(blocks[c[1]]))}

Least(q, blocks, t) == (IF t \in q.mem THEN 1 ELSE 0) + BlocksWith(blocks, t, q.before)

Most(q, blocks, t) == (IF t \in q.mem \cup q.late THEN 1 ELSE 0) + BlocksWith(blocks, t, q.listed)

\* What a query counts of each timestamp it asks for: at least the copies that
\* were in memory or in blocks as it began, at most those, later writes, and
\* the blocks added before it listed them.  So a point counts twice only if a
\* flush moved it during the query, and is missed only if it was in a flush's
\* hands all along (query.go:57-69).  The exception is a read whose array
\* insertions shifted meanwhile: it may repeat points for others, and be one
\* short for each of them (memtable.go:103-106, 44-54).
QueryAccounts ==
    \A r \in Reader :
        LET q == query[r]
        IN  q.at = "answered" =>
                /\ Len(q.pts) >= Cardinality(CopiesOf(q, stored)) - q.shifts
                /\ q.shifts = 0 =>
                       \A t \in Asked(q.range, SampleTimes) :
                           Times(q.pts, t) \in Least(q, stored, t)..Most(q, stored, t)

\* Only a read whose array was shifted returns a point nobody wrote or one
\* outside the range, and not even that one returns a point at or after the end
\* of the range: insertions move points up.
QueryInRange ==
    \A r \in Reader : query[r].at = "answered" =>
        /\ \A i \in DOMAIN query[r].pts : query[r].pts[i].ts < query[r].range[2]
        /\ query[r].shifts = 0 =>
               \A i \in DOMAIN query[r].pts : /\ query[r].pts[i] \in Sample
                                              /\ query[r].range[1] <= query[r].pts[i].ts

\* "Range returns the points of one series within the given time range"
\* (memtable.go:43), of a snapshot that is "an immutable copy" (memtable.go:10):
\* so does what a query has from memory, and its answer.  QueryInRange is as much
\* of it as the code keeps.
WithinRange ==
    \A r \in Reader : query[r].at \in {"blocks", "answered"} =>
        \A i \in DOMAIN query[r].pts :
            query[r].range[1] <= query[r].pts[i].ts /\ query[r].pts[i].ts < query[r].range[2]

\* The strengthening of QueryAccounts and QueryInRange that is inductive.  Of a
\* scan, w is what it has yet to look through: the live slice until it has taken
\* the header, and then as many cells as that says, of the live array or of the
\* one left to it.
Within(s, live) ==
    IF s.own THEN s.view ELSE IF s.at = "pinned" THEN live ELSE SubSeq(live, 1, s.len)

\* The positions of what a range covers.
Covered(rng, w) == {k \in DOMAIN w : rng[1] <= w[k].ts /\ w[k].ts < rng[2]}

\* Those beyond the first lo that are before a time.
Below(w, lo, t) == {k \in (lo + 1)..Len(w) : w[k].ts < t}

\* All that was in memory as the query began, and else only later writes.
Accounted(q, w) == q.mem \subseteq TSof(w) /\ Asked(q.range, TSof(w)) \subseteq q.mem \cup q.late

\* A shift makes room by moving points up: it pushes at most one of them out of
\* the cells of a scan that has not searched, and none over the start of one
\* that has.
LookedIInv(q, s, w) ==
    Cardinality(q.mem) <= Cardinality(Covered(q.range, w)) + s.shifts

SearchedIInv(q, s, w) ==
    /\ s.lo <= s.len
    /\ s.shifts = 0 => s.lo = Search(w, q.range[1])
    /\ Cardinality(q.mem) <= Cardinality(Below(w, s.lo, q.range[2])) + s.shifts

CopyingIInv(q, s, w) ==
    /\ s.lo + Len(s.seen) <= s.len
    /\ s.shifts = 0 => Covered(q.range, w) = (s.lo + 1)..(s.lo + Len(s.seen))
    /\ Cardinality(q.mem) <= Len(s.seen) + s.shifts
    /\ \A i \in DOMAIN s.seen :
           /\ w[s.lo + i] \in s.seen[i]
           /\ \A c \in s.seen[i] : c.ts < q.range[2] /\ (s.shifts = 0 => c.ts = w[s.lo + i].ts)

ScanIInv(q, s, w) ==
    /\ w \in Seq(Sample) /\ Ascending(w)
    /\ s.range = q.range
    /\ s.at = "pinned" => s.shifts = 0
    /\ s.at # "pinned" => Len(w) = s.len
    /\ s.at # "copying" => s.seen = <<>>
    /\ s.shifts = 0 => Accounted(q, w)
    /\ s.at = "looked" => LookedIInv(q, s, w)
    /\ s.at = "searched" => SearchedIInv(q, s, w)
    /\ s.at = "copying" => CopyingIInv(q, s, w)

\* What a query has got from memory.
GotIInv(q) ==
    /\ Cardinality(q.mem) <= Len(q.pts) + q.shifts
    /\ \A i \in DOMAIN q.pts : q.pts[i].ts < q.range[2]
    /\ q.shifts = 0 => /\ q.pts \in Seq(Sample) /\ Ascending(q.pts) /\ Accounted(q, q.pts)
                       /\ \A i \in DOMAIN q.pts : q.range[1] <= q.pts[i].ts

AnswersIInv ==
    /\ slice \in Seq(Sample) /\ flight \in Seq(Sample) /\ stored \in Seq(Seq(Sample))
    /\ scan \in [Reader -> [at : {"idle"} \cup Pinned, range : Int \X Int, gen : Nat, own : BOOLEAN,
                            view : Seq(Sample), len : Nat, lo : Nat, seen : Seq(SUBSET Sample),
                            shifts : Nat]]
    /\ query \in [Reader -> [at : {"idle", "mem", "blocks", "answered"}, range : Int \X Int,
                             pts : Seq(Cell), mem : SUBSET Int, late : SUBSET Int, before : Nat,
                             listed : Nat, shifts : Nat]]
    /\ \A r \in Reader :
           /\ query[r].at # "idle" => /\ IsFiniteSet(query[r].mem)
                                      /\ query[r].mem \subseteq Asked(query[r].range, query[r].mem)
                                      /\ query[r].before <= Len(stored)
           /\ query[r].at = "mem" => /\ ScanIInv(query[r], scan[r], Within(scan[r], slice))
                                     /\ scan[r].own \/ scan[r].len <= Len(slice)
           /\ query[r].at = "blocks" => GotIInv(query[r])
           /\ query[r].at = "answered" => query[r].listed <= Len(stored)
    /\ QueryAccounts /\ QueryInRange

\* What the aggregates rest on: an answer is sorted, and has no timestamps but
\* those of samples, even where it has points that nobody wrote.
SortedIInv ==
    \A r \in Reader :
        LET q == query[r]
        IN  /\ q.at \in {"blocks", "answered"} => TSof(q.pts) \subseteq SampleTimes
            /\ q.at = "answered" => \A i, j \in DOMAIN q.pts : i < j => q.pts[i].ts <= q.pts[j].ts

\* The loop over the sorted points of an answer makes one window of each step,
\* in order, with all of its points: a point met twice and points from blocks
\* behind points from memory included (query.go:99-127).
AggregateExact ==
    \A r \in Reader : query[r].at = "answered" =>
        LET windows == aggregate(query[r].pts, Step)
        IN  Summarises(windows, query[r].pts, Step) /\ Bounds(windows, query[r].pts, Step)

\* Downsampling a block loses no sample, "including the last": its windows have
\* gathered the sums and counts that a query by the same step gathers from the
\* raw block, before either divides them; doing it again moves nothing
\* (downsample.go:87-119).
DownsampleAgrees ==
    \A i \in DOMAIN stored :
        LET coarse == aggregateWindow(stored[i], Step)
            again == aggregateWindow(AsPoints(coarse), Step)
        IN  /\ Summarises(coarse, stored[i], Step)
            /\ Len(again) = Len(coarse)
            /\ \A k \in DOMAIN coarse : again[k].ts = coarse[k].ts /\ again[k].sum = coarse[k].sum
=============================================================================
