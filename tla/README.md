# Verification of the metric store

TLA+ models of the Go time-series store in `src/`, TLC configurations that check
them on small instances, and proofs that TLAPS checks for every value of the
constants. Paths below are relative to `src/`.

## 1. The system

One process (`cmd/metricstore`). Clients post samples over HTTP; a sample is
logged, buffered in a memtable, flushed into immutable blocks that a time shard
lists, later downsampled by compaction, and finally dropped by retention.
Queries read the memtable and the blocks.

| Component | State | Operations | Locks |
| --- | --- | --- | --- |
| write-ahead log, `internal/wal` | segment files, one `bufio.Writer` each, `nextSeq`, `nextReplay`, checkpoint file | Open, Append, Sync, Replay, SetReplayStart, TruncateTo, TruncateBefore, Close | `WAL.mu`, the whole call |
| time shards, `internal/shard` | list of windows with a state and block ids, `nextID` | Route, ForceRotate, ArchiveOlderThan, ShardsCovering, AddBlock | `Manager.mu`, then `Shard.mu` |
| ingest, `internal/ingest` | slots channel, live memtable, counters | Append, AppendBatch, Flush, Recover | `in.mu`, not around the log append |
| memtable, `internal/memtable` | live snapshot of points by series, its references, point count | Write, Latest, Flush, Read, Len; Acquire, Release, Range of a snapshot | `MemTable.mu` for a write or the swap |
| block store, `internal/storage` | blocks with state, archived flag, reference count | Create, Open, Close, MarkArchived, MarkCompacting, Reclaim | `Store.mu`, then `Block.mu` |
| compaction, `internal/compact` | none besides its mutex | CompactAll, Compact, Downsample | `Compactor.mu`, one Compact |
| retention, `internal/retention` | policy | Sweep | its own mutex, one Sweep |
| query engine, `internal/query` | none | collect, aggregates | none |
| series index, `internal/series` | hash buckets of series, `nextID` | Register, Lookup, MetaByID, Expand | `Index.mu`, but not the check of the size in Expand |
| server, `cmd/metricstore/main.go` | tickers for flush, compaction, retention; signal handler | start, admin endpoints, stop | none |

How they interact. `Ingest.Append` calls the index, the log, the shards and the
memtable, in that order; a flush calls the memtable, the shards, the store and
then the log (watermark, truncation). Compaction and retention call the store
and the shards from goroutines of their own, and so do requests to the admin
endpoints; nothing above the single calls keeps these apart. Queries take a
reference on each block while they read it.

What is hard here:

- `Append` logs before it takes `in.mu`, so a flush by another goroutine can
  fall between the record and the memtable write.
- A flush routes every point twice (`groupByShard`, then the first of each
  group), each time under a lock it gives up, while rotation and compaction
  change the list of shards.
- The log keeps a cached last sequence number per segment that replay and
  truncation trust, rewrites a segment that has buffered records, and finds the
  next number at Open from what is left on disk.
- A crash may fall anywhere, also between the unlinks of `TruncateTo`.
- A query takes no part in `in.mu`. It pins the live memtable, not a copy of it,
  and goes through its slices without a lock while writes shift or replace them;
  then a flush may move points into a block it is still to read.
- Series are numbered in memory, and records and points carry only the numbers.
- `CompactAll` peeks at the state of a block, lets it go, waits for a mutex, and
  opens it again; sweeps, readers and a second `CompactAll` act in between.
- Window ends are int64 sums that may wrap.

What makes each part correct: the log is replayed in order and loses nothing it
was not told to drop; windows are disjoint with one active; an acknowledged
point stays reachable; blocks lie where queries look for them; references are
exact; compaction neither loses nor doubles a sample; a query counts what was
there when it began; a point is found under its own series; every request
returns and everything archived is reclaimed.

## 2. Modules

| Module | Models | Kind |
| --- | --- | --- |
| `WAL` | `internal/wal/wal.go` | component |
| `Shards` | `internal/shard` | component |
| `Ingest` | `internal/ingest`, start, stop and crash of the process | composes `WAL` and `Shards` by INSTANCE |
| `Blocks` | `internal/storage`, `internal/compact`, `internal/retention`, block part of `internal/query` and of a flush | composes with `Shards` by INSTANCE |
| `Memtable` | `internal/memtable`: the slice of a series, its growth, snapshots, and a reader's steps through them | component |
| `Aggregate` | the loops of `internal/query` (`aggregate`) and `internal/compact` (`aggregateWindow`) | functions, with a reference definition |
| `Reads` | `collect` of `internal/query` against writes and flushes | composes `Memtable` and `Aggregate` by EXTENDS |
| `SeriesIndex` | `internal/series`, `SeriesOf`, `SeriesID`, restarts | component |
| `SeriesMap` | what the index promises: a map that only grows | abstract specification, implemented by `SeriesIndex` |
| `MCIngest`, `MCBlocks`, `MCReads`, `MCSeries` | timestamps, ranges, keys and symmetry for TLC | instances |
| `MCLogShards` | `WAL` and `Shards`, each by itself, in one run | instance |
| `WALProofs`, `ShardsProofs`, `SeriesProofs`, `BlocksProofs`, `BlockLifeProofs`, `QueryProofs`, `IngestProofs`, `ReadsProofs` | theorems | proofs |

A step is what the code does between two points where another goroutine can act
on the same state. Where a method holds one mutex throughout, it is one action
of the same name.

**WAL.** `segments` is both `w.segments` and the files: `disk` holds the records
a scan would read back, `buf` those in the `bufio.Writer`, `frag` says whether
the file ends in a piece of a record. Records are binary but framed by line
feeds, so a record with a line-feed byte inside (or a carriage return at its
end) is split by the scan and lost: such a record is not `clean`. A buffer that
is full spills, perhaps with the front of the next record (`Written`). A crash drops
the buffer; the piece left behind can be complete but for its line feed
(`whole`), or glue itself to the next record (`Landed`). `Crash` and
`CrashInTruncateTo` are the two places where a process can die. `AppendRecord` is
the code's `Append`, a name that TLA+ has for sequences. Sizes count records, not
bytes.

**Shards.** `shards` and `nextID` as in `Manager`. Timestamps are signed numbers
of a small width, and `Plus` wraps as int64 does. A shard's `sealing` state
never leaves its mutex.

**Ingest.** A request goes `new`, `admitted` (slot), `logged`, then under `in.mu`
`acked`, `failed` or `flushing`. A flush, whoever started it, goes through
`Group` point by point, `StoreGroup` or `AbandonFlush` per group,
`AdvanceWatermark` and `FinishFlush`; the log and the shards have their own
locks, so `Log`, `Rotate` and crashes fall in between. `Shutdown` is SIGTERM, `Restart` and `Recover` the next start.

**Blocks.** `at` is the program counter of every compaction, query and sweep,
`held` the block it has a reference to. Actions carry the name of the method and
the call they stop after: `CompactOpen`, `CompactCreate`, `CompactAdd`,
`CompactArchive`, `CompactReclaim`, `CompactReturn`, and `CompactFail` for the
error path. A block is the set of samples it stands for, and `coarse` once their
times are the starts of their downsampling steps. `ReadPanics` is a query whose
range ends before it starts: `Range` panics when the series has a point in
between, and the reference of the block is never given back. `asked[r].was` and
`leaked` are history variables of the properties.

**Memtable and Reads.** One series, whose points are `slice`, an array of size
`capacity`. The array doubles when it is full, which is what Go does with small
slices; Go grows large ones by less, but no property depends on how much the
array grows. What a reader sees of later writes depends on Go's slices, so a scan
is modelled by the header it took: it reads the live array (`Cells`) until an
append moves the table to an array of twice the size or a flush swaps the
snapshot (`Detached`). A reader steps through `Latest`, `Lookup` (map),
`SearchLo`, `SearchHi`, and a copy that ends with `CopyEnd`; a cell written
during the copy may give either word of either content (`Copies`). `MapRace` is
Go's fatal error for a map that is read during an assignment. In `Reads`, `mu`
says how far the holder of `in.mu` is, `stored` are the blocks, and `query` holds
a query after its memtable read with (history) what was where as it began.
`Answer` sorts what is `Collected`, the memtable's part and one of each block
listed; of equal timestamps `Sorted` fixes an order, where `sort.Slice` promises
none, and no window depends on it.

**SeriesIndex.** `buckets` is the table, each bucket a map. A request is
`Lookup`, perhaps `Register`, and `Write`; `Expand` is split where the code is,
between the check of the size (`CheckSize`) and the lock. `Migrated` is the new
table. Records and points carry the id, and as history the key they were for.
`View`, the keys a lookup finds with their ids, is the refinement mapping to
`SeriesMap`.

Operators whose comment starts with "A faulty" are not part of any
specification. Each is a plausible bug in the definition that follows it, kept
to show that the property named for it in `PROJECT.json` is able to fail.

## 3. Runs

| Run | Question | States |
| --- | --- | --- |
| `log_shards` | the log under every order of its calls, crashes included; the windows under every order of theirs, wrapped ends included | 24 thousand |
| `ingest` | requests, flushes, rotation, crashes, stops, recovery together | 1.3 million |
| `ingest_live` | do requests return, do points leave the memtable, and is the log used as specified | 79 thousand |
| `blocks` | two compactions, a sweep, flushes and rotations together | 1.5 million |
| `blocks_live` | a query, panics included, against a compaction and a sweep; reclaiming | 475 thousand |
| `reads` | a query against writes that overwrite, shift or move the live slice, and flushes | 1.2 million |
| `series` | requests, expansions and restarts over the index | 23 thousand |
| `wal_restart`, `ingest_race`, `ingest_restart`, `reads_range`, `series_restart` | one promise of a comment each, which the code does not keep | to a counterexample |

**What the passing runs show.**

- `log_shards`, the log: earlier segments hold smaller numbers than later ones, no two records share one, and `nextSeq` is above
  all (`ReplayAscending`); the cached last numbers never make replay skip a
  record (`ReplayDelivers`); a readable record disappears only by a truncation
  up to its number (`DurableUntilTruncated`); the watermark never moves back
  (`CheckpointMonotone`).
- `log_shards`, the shards: windows disjoint and ordered (`WindowsInOrder`), only the newest
  active (`OnlyNewestActive`), both until a window's end wraps; shards never
  reopen, move or forget a block (`ShardsOnlyAge`), wrapped or not.
- `ingest`: what the living process has acknowledged or replayed is in the memtable, in the flush under way or in a
  block while its window is the active one (`StoredOrPassed`); a block is in a
  shard that covers all of it (`BlocksInTheirShard`); a flush outside recovery
  makes one block at most (`OneBlockPerFlush`); a sample whose request failed is
  nowhere a query looks, until a recovery replays it (`FailedLeavesNothing`).
- `ingest_live`: `RequestsReturn` and `PointsReachBlocks`; whatever requests,
  flushes, recovery, stops and crashes do to the log is a step that `WAL` has
  (`LogAsSpecified`), so what is proved of the log alone holds in the pipeline.
- `blocks`, `blocks_live`: exact references (`RefsExact`); a sample shows in one
  block at most except between `AddBlock` and `MarkArchived` of a compaction
  (`ShownOnce`); listed blocks lie inside their window (`InsideWindow`); no
  sample vanishes before the cutoff reaches its step (`NeverVanishes`); a query
  that no compaction of its block overlaps counts a sample exactly once
  (`QueryExact`); every archived block leaves the store unless a query panicked
  in it (`ArchivedLeave`).
- `reads`: slices stay in the order that binary searches rely on
  (`KeptInOrder`); the memtable never outgrows the threshold (`BufferBounded`);
  references of snapshots are exact, after panics too (`SnapshotRefs`). A query
  counts of each timestamp at least what was in memory and in blocks as it
  began, and at most that, later writes and blocks added before it listed them:
  twice only when a flush moved the point meanwhile, never only when the point
  was in a flush's hands all along. The exception is a scan whose array
  insertions shifted: it repeats a point for another, one for each insertion
  (`QueryAccounts`), or takes one from below the range. `QueryInRange` is the
  bound that remains: nothing at or after the end of the range and, without a
  shift, nothing before its start and nothing that nobody wrote. The comments
  promise more, as `reads_range` shows.
  Aggregation makes one window per step with all of its points
  (`AggregateExact`), and downsampling gathers the same sums and counts in its
  windows (`DownsampleAgrees`; the code stores their quotient, the average).
- `series`: a key is in its bucket and in no other and no two share an id
  (`IndexSound`); a resolved id stays the key's (`CallsCurrent`); a query by name
  finds the points written under the name (`OwnPoints`); no expansion, however
  it races, loses a registration or shows at all (`ImplementsMap`).

**What the other runs show** (details under "findings" in `PROJECT.json`).

- `wal_restart`: a truncation that empties the log makes the next process start
  at number 0, below the persisted watermark; recovery then skips new records.
- `ingest_race`: a ticker's flush truncates the record of a request that has
  logged and not yet written to the memtable.
- `ingest_restart`: blocks live in memory, yet flushing one truncates its records, so an
  orderly restart loses flushed points.
- `reads_range`: `memtable.go:43` says that Range returns points "within the
  given time range", of an "immutable copy". It searches the live slice, twice;
  a write of an earlier timestamp in between moves a point from below the range to
  the position the first search found, and the query returns it (`WithinRange`).
- `series_restart`: recovery replays points under the numbers of the previous
  process, and a new index gives these to whichever series come first.

Four more comments are stronger than the code; the models have the behaviour,
and the properties above are stated so as to allow it. `TruncateTo` rewrites the
current segment from the file before it flushes the writer, and drops later records that were only
buffered (`wal.go:408`, `Rewritten`). After `ForceRotate` the present timestamps
no longer route (`rotation.go:11`, `RouteRejects`). Retention compares the start
of the last downsampling step with the cutoff, so samples up to a step later
than the cutoff go (`retention.go:43`; `NeverVanishes` says by how much). A
query does not take "a consistent shard snapshot first" (`query.go:34-35`): it reads
the memtable, then lists the shards, and the blocks of each when it comes to it
(`query.go:57-62`), so a point that a flush or a compaction moves meanwhile may count
twice (`QueryAccounts`, `QueryExact` say when it does not).

**Bounds.** Each is a CONSTANT named as a bound, or one of the counters in
`faults`. In `log_shards` a behaviour is one of the log beside untouched shards, or of
the shards beside a log nobody opens: they share no state, and interleaving them would
only multiply the states. Two records per segment, a one-record buffer and three segment indices
let the log rotate twice, spill, and be emptied and renumbered. Three samples over two
windows with a flush at two points give a flush by a request, by the ticker and
by recovery, a group that no longer routes, and a request that waits for a flush.
One crash, one stop and one rotation in `ingest` meet each of these; more of
them repeat starts from states already explored. Three blocks in `blocks` are two
flushed ones and a compacted one, or one block compacted twice over; a cutoff of 1
reaches the step of one sample and leaves the other's, so that a sweep marks one
of two blocks and a sample behind the cutoff may go while the other has to stay. Five-bit
signed timestamps reach a wrapped window in a few steps. `blocks_live` has two
blocks and one goroutine of each kind because its temporal property is costly,
and one panic: more of them add to a count. In `reads`, four timestamps and a
threshold of four let the array grow to four cells with one to spare, so that a
scan meets shifts in place, moves and overwrites; two flushes put a timestamp
into two blocks and memory at once, or between a query's two reads; `MaxHeld`
lets table and blocks hold five points together, one more than fill the array. One reader
is enough, as readers do not change what others see; steps of two timestamps
make windows with one and two points. In `series`, two keys share a bucket of
one and of two and not of three, and two administrators may finish in either order.
`Framing` is `{TRUE}` in the live and the violating runs: unreadable records
are not needed there.

**Deadlock** is checked in every run; none of the configurations turns it off.
The next-state relations always have a step at their bounds: a ticker sync, an
archive, a new `CompactAll`.

**Fairness.** `Ingest`: weak fairness for the steps of a running goroutine, of
recovery and of the restart by a supervisor; strong fairness for taking `in.mu`
(`Write`, `TickerFlush`), which others take in between: Go's `sync.Mutex` goes
to a waiter that has starved for a millisecond. No fairness for admission,
refusal, rotation, stops or crashes; crashes are bounded, since a process that
always dies first serves nobody. `Blocks`: weak
fairness for each goroutine's step and for the retention ticker, none for
flushes, rotations, new queries or new compaction passes.

## 4. Proofs

`tlapm` checks every step; nothing is assumed but the named ASSUMEs on constants,
the library's theorems, and what a theorem's own statement says: that no window's
end has wrapped, `Divides`, or `SinceZero`.

**`WALProofs`** assumes `ConstantsAssumption` (positive sizes and bounds).
`ReplayAscending` is not inductive: `Open` computes `nextSeq` from the records on disk,
so nothing may be buffered while the log is closed, and `TruncateTo`
deletes by the cached last number. `IInv` adds that a cached last number is not
below any record of its segment, that a closed log has empty buffers, and that the
checkpoint file is not ahead of memory. One lemma per action (`OpenIInv`,
`AppendIInv`, ...) shows that it preserves `IInv`; lemmas on one segment
(`WrittenSegment`, `RewrittenSegment`, ...) carry the work, and `BoundedMax`
with `HighSeqCovers` says that the maximum taken by the scan exists.
From `Inductive` follow `TypeCorrect`, `AscendingHolds`, `DeliversHolds`,
`CheckpointHolds` and, with one lemma per action on `Readable`,
`DurabilityHolds`: all five properties of the log in `log_shards`, for any payload, sizes
and bounds. `LogStep` states the inductive step alone, for modules that embed the log.

**`ShardsProofs`** assumes `ShardConstants` (a positive window that fits the
integer width, a clock that is not negative). The order of windows is not
inductive: `Route` aligns the timestamp, and that the aligned start is not
below the newest end holds because all starts are multiples of the window, and
not negative (Go's remainder takes the sign of the dividend, so below zero
alignment rounds up). `ShardsIInv` says so until a window wraps. `AlignedNat`,
`AlignedHighest` and `PlusWindow` are the arithmetic; `AgingStep` and
`OpeningStep` treat the two shapes of step, and one lemma per action reduces it
to them; `AttachStep` is the flush's Route and AddBlock at once. All four properties of the shards in `log_shards` follow.

**`SeriesProofs`** assumes `SeriesConstants`. `OwnPoints` needs the id of a
request in progress to be current (`CallsCurrent`), that needs keys to be found
where the hash says and ids to be distinct (`IndexSound`), and `SeriesIInv` is
their conjunction with the types. `HeldIsFound` and `FoundIsHeld` connect a
key's bucket with what a lookup finds, `MigrationKeeps` says that a migration to
any number of buckets, smaller ones included, changes neither. The theorem
`IndexRefinesMap` shows that initial states map to initial states of
`SeriesMap`, a registration of a new key to `Assign`, a restart to `Forget`, and
every other step to a stutter. All five properties of the run `series` follow,
for any hash function.

**`BlocksProofs`** assumes `BlocksConstants`, in it that compactions and queries
are finitely many. `RefsExact` counts holders; that a `Close` finds the
reference it gives back needs to know who has one, so `RefsIInv` adds that
exactly the goroutines between an Open and its Close (`Holding`) do, and that no
id below `nextBlock` is given out again, so that a new block starts without holders
and without leaks. `AcquireExact`, `CloseExact`, `LeakExact`, `CreateExact` and
`ReclaimExact` are the five ways in which a step can touch a count, by
cardinalities of finite sets; one lemma per action reduces it to one of them.

**`BlockLifeProofs`** extends it, and takes the operations of the shards from
`ShardsProofs` by INSTANCE. It builds in layers, each of which uses the ones
below. `ControlIInv`: one goroutine at most is inside `Compactor.mu`, what a goroutine is still to
visit was given out, and the shards keep their invariant. `WorkIInv`: what
a compaction has made holds the samples of its source and is listed from its
`AddBlock` on, or else a sweep has reached all of it; `NeverVanishesHolds` follows from it step by step, wrapped or not.
`WindowIInv`, until a window wraps: the samples of a block are of one window
(`Housed`), and two blocks in use share a sample only as source and result of the
compaction under way, or if one is unlisted and its window has passed
(`NoTwins`); this is what `ShownOnce` and `InsideWindow` lack to be inductive.
`StepKinds` sorts the steps into those that touch blocks and those that stand
`Aside`. `InsideWindowHolds` needs a downsampling step that divides
the window (`Divides`), as the defaults do; `ShownOnceHolds` does not. Steps that
do not divide it move a compacted point out of the window, as the code would.

**`QueryProofs`** extends that. `ListIInv` adds that a block is listed once, and that what a
compaction has taken up is marked. `QueryExact` speaks of the moment before
a query returns; `QueryIInv` says of every moment what has been counted: a block
that had the sample alone when the query began is still listed (`Settled`), and
the query has counted the sample once if it is past the block and not at all
if the block is `Ahead` or in its hands. `CoveringFinds` is where the shards'
windows and `InsideWindow` meet: the shard that lists the block is among those the
query's range takes. `Grows` says that lists only get longer, `Alone` that
no other listed block that a query could open has a sample it seeks, so nothing
else can count it, and `OthersQuery` that the steps of others leave
all this as it is. Its theorem assumes `Divides` and holds until a window wraps.

**`IngestProofs`** assumes `IngestConstants`, and takes the operations of the
shards from `ShardsProofs` by INSTANCE. `OneBlockPerFlush` holds because what is
left to group is of the newest window or of a passed one, and it stays so when
another goroutine rotates; `BlocksInTheirShard` because a group keeps to the
window it is named for (`InWindow`), which is the newest if its earliest point
still routes; `StoredOrPassed` needs both, since an abandoned flush drops its
group as a whole; `FailedLeavesNothing` needs to know whose points a flush
carries. `IngestIInv` is the invariant of the shards, who holds `in.mu`
(`Control`), and, until a window's end wraps, `Owned`, `Routed` and `Placed`.
`LastMovesOn` says what rotation can do to the newest window; `Quiet`,
`Swapping` and `Ending` are the shapes of most steps. Of the log only that
recovery replays some set of points is used. These theorems hold while no window
has wrapped; the configuration's timestamps never wrap one.

The module then turns to the log itself. `LogAsSpecifiedHolds` maps every step of
the pipeline to a step of `WAL` or a stutter (`LogUsed`): a flush truncates an open
log once it has stored its groups, and opening, stopping and crashing the process
open, close and crash the log with it. That makes the inductive step of
`WALProofs` available here, by INSTANCE. `LogIInv` is its `IInv` with `TypeOK`,
that the log is open exactly while the process is up, and that the sequence number a
request has logged, or a flush will truncate to, is one the log has given out, which
is what `WAL` asks of a truncation. `IngestTypeCorrect` follows, wrapped windows or not.

**`ReadsProofs`** assumes `MemtableConstants` (finitely many readers) and
`ReadsConstants`. `SearchFinds` is the contract of `sort.Search` on points in
order, from `ClosedIsInterval`, a fact about sets of positions that needs the
least number principle of the library; `InsertedShape`, `InsertKeepsOrder` and
`ReplaceKeepsOrder` say what a write makes of a slice. `TablesIInv` adds to
`KeptInOrder` and `BufferBounded` that a flush holds a slice that was in order
and has emptied the table, `PinsIInv` to `SnapshotRefs` that a pinned snapshot
exists. `StayPins` and `ReleasePins` are the two shapes of a reader's step.

Its second half proves what an answer holds. `QueryAccounts` and `QueryInRange`
speak of answers only; `AnswersIInv` says of every step of a scan what is still
to be found in the cells it has yet to look through (`Within`): without a shift
just what was in memory as the query began and what was written since, and with
shifts at least as many points less one for each. An insertion below a scan's
header pushes one point at most out of the cells of a scan that has not searched
(`PushedOut`), and none over the start of one that has (`PushedAhead`), which is why points come
twice or from below the range but never from behind its end. `InPlaceFits` and
`WroteFits` carry the invariant through a write, in place or into a new array
(`DetachedKeeps`), `CopyGot` from the cells to what a copy returns. `SortedPermutes`
and `TimesSorted` say that sorting keeps each point, so that the answer has a timestamp as
often as its parts do; `AnswerTimes`, `AnswerLong` and `AnswerInRange` then
follow by `RangeOfShape` for each block. Its three theorems hold for any samples, ranges,
array growth and numbers of readers, and for ranges that end before they start.

Its last part is about the window loops, recursive functions on the number of turns.
`Induct` is induction on the members of a set of numbers, from `ClosedIsInterval`;
`Recursion` says that a function with such an equation exists, so that `TurnsAre`
and `SumsAre` may use the equations. `Grouped` is the invariant of the loop: after n
turns there is one window for each step that the first n points touch, in order,
the last one being that of the last point, and each has the count, sum and extremes
of its points (`Summed`). `OpenedGrouped` and `JoinedGrouped` are the two kinds of turn, and
`SameStart` the division they rest on. They ask for points in order and not
before time zero (`InTime`). Blocks have them from `KeptInOrder`, answers from
`SortedIInv`, which is inductive on its own; so `AggregateExactHolds` and
`DownsampleAgreesHolds` assume `SinceZero`: below zero Go's remainder rounds
up, and the window at zero is twice as wide.

**Only model-checked.** Liveness (`RequestsReturn`, `PointsReachBlocks`,
`ArchivedLeave`), which is out of the prover's reach. Every safety property of
a passing run is proved, under the hypotheses named above.

## 5. What is left out, and why

- Power loss and I/O errors: a crash is the end of the process, and what it
  wrote to a file stays. No file operation fails.
- `lastFlushSeq`, metrics and `Stats`: read by nothing but status pages.
- In `Ingest` and `Blocks` every sample is its own series, so no sample
  overwrites another; overwriting is in `Reads`. A batch is a
  sequence of requests. `StoreGroup` makes Create, Seal, Route and AddBlock one
  step, since only Route reads what others change there; `Blocks` splits them.
- Shutdown takes requests in progress with it, as `main` does when it returns.
- `Blocks` assumes a wall clock that does not step back, and its configurations have
  a downsampling step that divides the window, as the defaults do. Compact's
  branch for a block without points is left out: no flush makes one.
- `Reads` has one series and one shard. A slice header is read at once: a torn
  header, which Go leaves undefined on the map's cell, is left out, and `MapRace`
  starts afresh instead of recovering, which `Ingest` has. The deltas between
  windows and the choice of average, sum, minimum, maximum or count at the end
  are not modelled; `QueryMulti` is a sequence of queries. Values are integers:
  the rounding of sums of floats, which depends on the order of equal
  timestamps, is left out.
- How a key is made of a name and labels, and the checks that refuse them.
- HTTP parsing, the web console, metrics, and the vendored hash.

## 6. Plan

Done: `WAL`, `Shards`, `SeriesIndex`, all of the safety of `Blocks` and `Ingest`,
and of `Reads` and `Aggregate`, with proofs.

Next, in this order:

1. Abstract specifications: a record log with a low-water mark that `WAL`
   implements, and a set of visible samples that `Blocks` implements, both with
   refinement mappings.
2. `LabelsKey` and `SanitizeLabels` as functions on small label sets.
