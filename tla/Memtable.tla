------------------------------ MODULE Memtable ------------------------------
(***************************************************************************)
(* The memtable of internal/memtable: the live snapshot that writes change *)
(* under MemTable.mu, the swap of a flush, and readers, which pin the live *)
(* snapshot under the mutex and then read it without.                      *)
(*                                                                         *)
(* One series.  What a reader sees depends on Go's slices: the header it   *)
(* takes from the map fixes an array and a length, and a later write       *)
(* either shifts points inside that array, when it has spare capacity, or  *)
(* moves to an array of twice the size and leaves the reader the old one.  *)
(***************************************************************************)
EXTENDS Integers, Sequences, SequencesExt, FiniteSets, FiniteSetsExt

CONSTANTS
    Sample,     \* what clients write: records of a timestamp and a value
    Reader,     \* goroutines that read
    Ranges      \* the ranges they ask for, as pairs (start, end)

ASSUME MemtableConstants ==
    /\ Sample \subseteq [ts : Int, val : Int]
    /\ Ranges \subseteq Int \X Int
    /\ IsFiniteSet(Reader)

VARIABLES
    slice,      \* m.current.byID[id]
    capacity,   \* of its array
    points,     \* m.points
    span,       \* m.current.minTS and maxTS
    gen,        \* the number of the live snapshot
    refs,       \* the references of each snapshot so far
    scan        \* each reader's Range call

memVars == <<slice, capacity, points, span, gen, refs, scan>>

TSof(pts) == {pts[i].ts : i \in DOMAIN pts}

\* sort.Search: the number of points before t, of those in order.
Search(pts, t) == Cardinality({i \in DOMAIN pts : pts[i].ts < t})

-----------------------------------------------------------------------------
(* Readers.  A scan is on the live snapshot while own = FALSE, and reads the *)
(* live array; once that is replaced, view is what is left to the reader.    *)

NoScan == [at |-> "idle", range |-> <<0, 0>>, gen |-> 0, own |-> FALSE, view |-> <<>>, len |-> 0,
           lo |-> 0, seen |-> <<>>, shifts |-> 0]

Pinned == {"pinned", "looked", "searched", "copying"}

\* The cells a reader's header reaches.
Cells(r) == IF scan[r].own THEN scan[r].view ELSE SubSeq(slice, 1, scan[r].len)

\* A scan loses the live array (or, before its lookup, the live snapshot).
Detached(s) ==
    IF s.own \/ s.at \notin Pinned THEN s
    ELSE [s EXCEPT !.own = TRUE,
                   !.view = IF s.at = "pinned" THEN slice ELSE SubSeq(slice, 1, s.len)]

\* A scan on the live array meets new contents in it.  shifts counts (history)
\* the insertions below the end of the scan.
Shifted(s, new, idx) ==
    IF s.own \/ s.at \notin Pinned \ {"pinned"} THEN s
    ELSE [s EXCEPT !.shifts = IF idx < s.len /\ new[idx + 1].ts # slice[idx + 1].ts
                              THEN @ + 1 ELSE @,
                   !.seen = [i \in DOMAIN @ |-> @[i] \cup {new[s.lo + i]}]]

-----------------------------------------------------------------------------
MemInit ==
    /\ slice = <<>> /\ capacity = 0 /\ points = 0 /\ span = <<0, 0>>
    /\ gen = 1 /\ refs = <<1>>
    /\ scan = [r \in Reader |-> NoScan]

\* Where Write puts a point.
Position(p) == Search(slice, p.ts)

Overwrites(p) == p.ts \in TSof(slice)

\* append and copy: the slice with the point in its place.
Inserted(p) == InsertAt(slice, Position(p) + 1, p)

Replaced(p) == ReplaceAt(slice, Position(p) + 1, p)

\* A faulty Insert, which appends and leaves the order to the reader.
InsertAtEnd(p) ==
    /\ slice' = Append(slice, p)
    /\ capacity' = IF Len(slice) < capacity THEN capacity ELSE 2 * capacity + 1
    /\ UNCHANGED scan

\* A faulty Insert, which extends the slice in place whatever its capacity.
InsertInPlace(p) ==
    /\ slice' = Inserted(p)
    /\ scan' = [r \in Reader |-> Shifted(scan[r], Inserted(p), Position(p))]
    /\ UNCHANGED capacity

\* The array grows from 0 to 1 and then by doubling; readers keep the old one.
Insert(p) ==
    /\ slice' = Inserted(p)
    /\ \/ /\ Len(slice) < capacity
          /\ scan' = [r \in Reader |-> Shifted(scan[r], Inserted(p), Position(p))]
          /\ UNCHANGED capacity
       \/ /\ Len(slice) = capacity
          /\ scan' = [r \in Reader |-> IF scan[r].at = "pinned" THEN scan[r] ELSE Detached(scan[r])]
          /\ capacity' = IF capacity = 0 THEN 1 ELSE 2 * capacity

Overwrite(p) ==
    /\ slice' = Replaced(p)
    /\ scan' = [r \in Reader |-> Shifted(scan[r], Replaced(p), Position(p))]
    /\ UNCHANGED capacity

\* MemTable.Write.
MemWrite(p) ==
    /\ IF Overwrites(p) THEN Overwrite(p) ELSE Insert(p)
    /\ span' = IF points = 0 THEN <<p.ts, p.ts>>
               ELSE <<Min({span[1], p.ts}), Max({span[2], p.ts})>>
    /\ points' = points + 1
    /\ UNCHANGED <<gen, refs>>

\* MemTable.Flush.  The old snapshot is the caller's, who keeps its reference.
MemFlush ==
    /\ slice' = <<>> /\ capacity' = 0 /\ points' = 0 /\ span' = <<0, 0>>
    /\ gen' = gen + 1
    /\ refs' = Append(refs, 1)
    /\ scan' = [r \in Reader |-> Detached(scan[r])]

Released(rs, g) == [rs EXCEPT ![g] = IF @ > 0 THEN @ - 1 ELSE 0]

-----------------------------------------------------------------------------
(* MemTable.Read, step by step. *)

\* Latest.
Latest(r, rng) ==
    /\ scan[r].at = "idle"
    /\ scan' = [scan EXCEPT ![r] = [NoScan EXCEPT !.at = "pinned", !.range = rng, !.gen = gen]]
    /\ refs' = [refs EXCEPT ![gen] = @ + 1]
    /\ UNCHANGED <<slice, capacity, points, span, gen>>

\* A faulty Lookup, which goes to the live snapshot instead of the pinned one.
LookupLive(r) ==
    /\ scan[r].at = "pinned"
    /\ scan' = [scan EXCEPT ![r] = [@ EXCEPT !.at = "looked", !.own = FALSE, !.view = <<>>,
                                             !.len = Len(slice)]]
    /\ UNCHANGED <<slice, capacity, points, span, gen, refs>>

\* The map is read and the slice header copied.
Lookup(r) ==
    /\ scan[r].at = "pinned"
    /\ scan' = [scan EXCEPT ![r] = [@ EXCEPT !.at = "looked",
                                             !.len = IF scan[r].own THEN Len(scan[r].view)
                                                    ELSE Len(slice)]]
    /\ UNCHANGED <<slice, capacity, points, span, gen, refs>>

SearchLo(r) ==
    /\ scan[r].at = "looked"
    /\ scan' = [scan EXCEPT ![r] = [@ EXCEPT !.at = "searched",
                                             !.lo = Search(Cells(r), scan[r].range[1])]]
    /\ UNCHANGED <<slice, capacity, points, span, gen, refs>>

\* A faulty SearchHi, which takes the end of the range for its last timestamp.
SearchHiInclusive(r) ==
    /\ scan[r].at = "searched"
    /\ LET hi == Search(Cells(r), scan[r].range[2] + 1)
       IN  /\ hi >= scan[r].lo
           /\ scan' = [scan EXCEPT ![r] =
                          [@ EXCEPT !.at = "copying",
                                    !.seen = [i \in 1..(hi - scan[r].lo) |->
                                                 {Cells(r)[scan[r].lo + i]}]]]
    /\ UNCHANGED <<slice, capacity, points, span, gen, refs>>

\* The second search, and the copy of the points between begins.
SearchHi(r) ==
    /\ scan[r].at = "searched"
    /\ LET hi == Search(Cells(r), scan[r].range[2])
       IN  /\ hi >= scan[r].lo
           /\ scan' = [scan EXCEPT ![r] =
                          [@ EXCEPT !.at = "copying",
                                    !.seen = [i \in 1..(hi - scan[r].lo) |->
                                                 {Cells(r)[scan[r].lo + i]}]]]
    /\ UNCHANGED <<slice, capacity, points, span, gen, refs>>

\* A faulty ScanPanics, with a Release that is not deferred.
ScanPanicsHolding(r) ==
    /\ scan[r].at = "searched"
    /\ Search(Cells(r), scan[r].range[2]) < scan[r].lo
    /\ scan' = [scan EXCEPT ![r] = NoScan]
    /\ UNCHANGED <<slice, capacity, points, span, gen, refs>>

\* make([]Point, 0, hi-lo) panics; the deferred Release runs.
ScanPanics(r) ==
    /\ scan[r].at = "searched"
    /\ Search(Cells(r), scan[r].range[2]) < scan[r].lo
    /\ scan' = [scan EXCEPT ![r] = NoScan]
    /\ refs' = Released(refs, scan[r].gen)
    /\ UNCHANGED <<slice, capacity, points, span, gen>>

\* What the copy may hold: of a cell that was written meanwhile, either word of
\* either content.
Copies(r) ==
    LET seen == scan[r].seen
        Words(cell) == {[ts |-> a.ts, val |-> b.val] : a \in cell, b \in cell}
    IN  {out \in [DOMAIN seen -> UNION {Words(seen[i]) : i \in DOMAIN seen}] :
            \A i \in DOMAIN seen : out[i] \in Words(seen[i])}

CopyEnd(r) ==
    /\ scan[r].at = "copying"
    /\ scan' = [scan EXCEPT ![r] = NoScan]
    /\ refs' = Released(refs, scan[r].gen)
    /\ UNCHANGED <<slice, capacity, points, span, gen>>
=============================================================================
