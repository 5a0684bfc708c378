-------------------------------- MODULE WAL --------------------------------
(***************************************************************************)
(* The write-ahead log of internal/wal/wal.go.                             *)
(*                                                                         *)
(* A directory of segment files plus a checkpoint file.  Every exported    *)
(* method runs under WAL.mu, so one action is one call.  The model keeps,  *)
(* for each segment, which records a scan of the file on disk would read   *)
(* back (disk), which records sit only in the bufio.Writer in front of it  *)
(* (buf), and the one piece of byte-level state a scan depends on: whether *)
(* the file ends in a piece of a record (frag).  While the process is down *)
(* only what a new process would find on disk is kept.                     *)
(*                                                                         *)
(* A crash is a crash of the process: what was written to the file stays,  *)
(* what was in a bufio.Writer is gone.  File operations never fail.        *)
(***************************************************************************)
EXTENDS Integers, FiniteSets, FiniteSetsExt

CONSTANTS
    Payload,    \* what a record carries besides its sequence number
    MaxSize,    \* records a segment holds before Append rotates (maxSize)
    BufCap,     \* whole records the bufio.Writer holds before it spills
    MaxSeq,     \* bound of the model: sequence numbers stay below it
    MaxIdx      \* bound of the model: segment indices stay up to it

ASSUME ConstantsAssumption ==
    /\ MaxSize \in Nat \ {0}
    /\ BufCap \in Nat \ {0}
    /\ MaxSeq \in Nat \ {0}
    /\ MaxIdx \in Nat \ {0}

VARIABLES
    open,        \* a process has the log open
    segments,    \* segment index -> segment (w.segments; the files when down)
    nextSeq,     \* w.nextSeq
    nextReplay,  \* w.nextReplay
    checkpoint   \* the number in the checkpoint file, 0 when there is none

vars == <<open, segments, nextSeq, nextReplay, checkpoint>>

\* A record is "clean" when none of its 36 bytes is a line feed and the last
\* one is not a carriage return: records are framed by line feeds, so the
\* scanner splits any other record and skips its pieces.
Record == [seq : 0..(MaxSeq - 1), pt : Payload, clean : BOOLEAN]

\* frag is "live" when the file ends in the front part of the oldest buffered
\* record, and "dead" when the rest of that record was lost in a crash.
Segment ==
    {s \in [disk : SUBSET Record, buf : SUBSET Record, frag : {"none", "live", "dead"},
            last : 0..(MaxSeq - 1), size : Nat] :
        IsFiniteSet(s.disk) /\ IsFiniteSet(s.buf) /\ Cardinality(s.buf) <= s.size}

EmptySegment == [disk |-> {}, buf |-> {}, frag |-> "none", last |-> 0, size |-> 0]

-----------------------------------------------------------------------------
(* Segments. *)

Held(s) == s.disk \cup s.buf

Readable == UNION {segments[i].disk : i \in DOMAIN segments}

Oldest(R, r) == r \in R /\ \A q \in R : r.seq <= q.seq

\* Faulty variants of HighSeq: one past the last number; the first number.
HighSeqOffByOne(R) == Max({r.seq : r \in R} \cup {0}) + 1
HighSeqFirst(R) == IF R = {} THEN 0 ELSE Min({r.seq : r \in R})

\* The last sequence number of a set of records, 0 when there is none.
HighSeq(R) == Max({r.seq : r \in R} \cup {0})

\* What becomes readable when the buffer reaches the file: the clean records,
\* but for the one that is glued to a dead fragment.
Landed(s) == {r \in s.buf : r.clean /\ ~(s.frag = "dead" /\ Oldest(s.buf, r))}

Flushed(s) ==
    [disk |-> s.disk \cup Landed(s), buf |-> {},
     frag |-> IF s.buf = {} THEN s.frag ELSE "none",
     last |-> s.last, size |-> s.size]

\* Segment.write: the record goes to the bufio.Writer.  A full writer first
\* spills, as whole records or with the front of the new one behind them.
Spills(s) == Cardinality(s.buf) >= BufCap

Written(s, r, f) ==
    [disk |-> IF Spills(s) THEN s.disk \cup Landed(s) ELSE s.disk,
     buf  |-> IF Spills(s) THEN {r} ELSE s.buf \cup {r},
     frag |-> IF Spills(s) THEN f ELSE s.frag,
     last |-> IF r.seq > s.last THEN r.seq ELSE s.last,
     size |-> s.size + 1]

\* What a crash leaves.  If the fragment was a record complete but for its
\* line feed (whole), a scan still reads that record.
Torn(s) == {r \in s.buf : s.frag = "live" /\ Oldest(s.buf, r) /\ r.clean}

Crashed(s, whole) ==
    [disk |-> IF whole THEN s.disk \cup Torn(s) ELSE s.disk, buf |-> {},
     frag |-> IF s.frag = "live" THEN "dead" ELSE s.frag,
     last |-> s.last, size |-> s.size - Cardinality(s.buf)]

\* A faulty Kept, which takes n for the first number to keep less one.
KeptOffByOne(s, n) == {r \in s.disk : r.seq > n + 1}

\* The current segment as TruncateTo rewrites it, from what is on disk.
Kept(s, n) == {r \in s.disk : r.seq > n}

Rewritten(s, n) ==
    [disk |-> Kept(s, n), buf |-> {}, frag |-> "none",
     last |-> HighSeq(Kept(s, n)), size |-> Cardinality(Kept(s, n))]

Loaded(s) == [s EXCEPT !.last = HighSeq(s.disk)]

-----------------------------------------------------------------------------
(* The directory. *)

Without(D) == [i \in DOMAIN segments \ D |-> segments[i]]

\* i is the highest index of D.
Highest(i, D) == i \in D /\ \A j \in D : j <= i

\* currentLocked: the segment with the highest index.
Current(i) == Highest(i, DOMAIN segments)

\* The segments a truncation deletes.
UpTo(n) == {i \in DOMAIN segments : segments[i].last <= n}
Below(n) == {i \in DOMAIN segments : segments[i].last < n}

FirstSegment == [i \in {1} |-> EmptySegment]

\* A faulty Replayed, which skips a segment whose last record is the first asked for.
ReplayedStrict(from) ==
    UNION {{r \in segments[i].disk : r.seq >= from} :
               i \in {j \in DOMAIN segments : segments[j].last > from}}

\* Replay(from): whole segments are skipped by their last sequence number,
\* then records by their own.
Replayed(from) ==
    UNION {{r \in segments[i].disk : r.seq >= from} :
               i \in {j \in DOMAIN segments : segments[j].last >= from}}

-----------------------------------------------------------------------------
Init ==
    /\ open = FALSE
    /\ segments = [i \in {} |-> EmptySegment]
    /\ nextSeq = 0
    /\ nextReplay = 0
    /\ checkpoint = 0

\* Open: load every segment file, then the checkpoint; a directory without
\* segments gets its first one.
Open ==
    /\ ~open
    /\ open' = TRUE
    /\ segments' = IF DOMAIN segments = {} THEN FirstSegment
                   ELSE [i \in DOMAIN segments |-> Loaded(segments[i])]
    /\ nextSeq' = IF DOMAIN segments = {} THEN 0
                  ELSE 1 + Max({HighSeq(segments[i].disk) : i \in DOMAIN segments})
    /\ nextReplay' = checkpoint
    /\ UNCHANGED checkpoint

\* Append into the current segment, which still has room.
AppendInPlace(r, f) ==
    \E i \in DOMAIN segments :
        /\ Current(i)
        /\ segments[i].size < MaxSize
        /\ segments' = [segments EXCEPT ![i] = Written(@, r, f)]

\* Append when the current segment is full: flush it and open the next file.
AppendRotating(r, f) ==
    \E i \in DOMAIN segments :
        /\ Current(i)
        /\ segments[i].size >= MaxSize
        /\ i < MaxIdx
        /\ segments' = [j \in DOMAIN segments \cup {i + 1} |->
                           IF j = i THEN Flushed(segments[i])
                           ELSE IF j = i + 1 THEN Written(EmptySegment, r, f)
                           ELSE segments[j]]

\* WAL.Append (Append alone is the operator of Sequences).
AppendRecord(p, clean, f) ==
    LET r == [seq |-> nextSeq, pt |-> p, clean |-> clean]
    IN  /\ open
        /\ nextSeq < MaxSeq
        /\ AppendInPlace(r, f) \/ AppendRotating(r, f)
        /\ nextSeq' = nextSeq + 1
        /\ UNCHANGED <<open, nextReplay, checkpoint>>

Sync ==
    /\ open
    /\ \E i \in DOMAIN segments :
           Current(i) /\ segments' = [segments EXCEPT ![i] = Flushed(@)]
    /\ UNCHANGED <<open, nextSeq, nextReplay, checkpoint>>

\* A faulty SetReplayStart, which takes any number.
SetReplayStartAnywhere(n) ==
    /\ open
    /\ nextReplay' = n
    /\ checkpoint' = n
    /\ UNCHANGED <<open, segments, nextSeq>>

\* The watermark only rises; the file is replaced by a rename.
SetReplayStart(n) ==
    /\ open
    /\ nextReplay' = IF n > nextReplay THEN n ELSE nextReplay
    /\ checkpoint' = nextReplay'
    /\ UNCHANGED <<open, segments, nextSeq>>

TruncateTo(n) ==
    /\ open
    /\ segments' =
         IF UpTo(n) = DOMAIN segments THEN FirstSegment
         ELSE [i \in DOMAIN segments \ UpTo(n) |->
                  IF Highest(i, DOMAIN segments \ UpTo(n))
                  THEN Rewritten(segments[i], n) ELSE segments[i]]
    /\ UNCHANGED <<open, nextSeq, nextReplay, checkpoint>>

TruncateBefore(n) ==
    /\ open
    /\ segments' = IF Below(n) = DOMAIN segments THEN FirstSegment
                   ELSE Without(Below(n))
    /\ UNCHANGED <<open, nextSeq, nextReplay, checkpoint>>

\* The process is gone: its variables mean nothing until the next Open.
MemoryLost ==
    /\ open' = FALSE
    /\ nextSeq' = 0
    /\ nextReplay' = 0
    /\ UNCHANGED checkpoint

\* Close flushes every segment; only the files remain.
Close ==
    /\ open
    /\ segments' = [i \in DOMAIN segments |-> Flushed(segments[i])]
    /\ MemoryLost

Crash(whole) ==
    /\ open
    /\ segments' = [i \in DOMAIN segments |-> Crashed(segments[i], whole)]
    /\ MemoryLost

\* A crash inside TruncateTo(n): some of the segments are deleted, and the
\* segment that is next to go, or the one rewritten, may have been flushed; or
\* the rewritten file is already in place.
CrashInTruncateTo(n, gone, reached) ==
    /\ open
    /\ gone \in SUBSET UpTo(n)
    /\ reached = "rename" => gone = UpTo(n)
    /\ reached = "flush" => gone = UpTo(n) \/ \E i \in UpTo(n) : Current(i)
    /\ segments' = [i \in DOMAIN segments \ gone |->
                       IF reached = "unlink" \/ ~Highest(i, DOMAIN segments \ gone)
                       THEN Crashed(segments[i], FALSE)
                       ELSE IF reached = "flush" THEN Flushed(segments[i])
                       ELSE Rewritten(segments[i], n)]
    /\ MemoryLost

\* The arguments the callers can pass: sequence numbers already handed out for
\* a truncation, and up to one past the last for the replay watermark.
Next ==
    \/ Open
    \/ \E p \in Payload, clean \in BOOLEAN, f \in {"none", "live"} : AppendRecord(p, clean, f)
    \/ Sync
    \/ \E n \in 1..nextSeq : SetReplayStart(n)
    \/ \E n \in 0..(nextSeq - 1) : TruncateTo(n)
    \/ \E n \in 0..nextSeq : TruncateBefore(n)
    \/ Close
    \/ \E whole \in BOOLEAN : Crash(whole)
    \/ \E n \in 0..(nextSeq - 1), gone \in SUBSET DOMAIN segments,
          reached \in {"unlink", "flush", "rename"} : CrashInTruncateTo(n, gone, reached)

Spec == Init /\ [][Next]_vars

-----------------------------------------------------------------------------
(* Properties. *)

TypeOK ==
    /\ open \in BOOLEAN
    /\ DOMAIN segments \subseteq 1..MaxIdx
    /\ segments \in [DOMAIN segments -> Segment]
    /\ nextSeq \in 0..MaxSeq
    /\ nextReplay \in Nat
    /\ checkpoint \in Nat

Ascending(files) ==
    \A i, j \in DOMAIN files : \A r \in Held(files[i]), q \in Held(files[j]) :
        /\ i < j => r.seq < q.seq
        /\ i = j /\ r.seq = q.seq => r = q

\* Replay walks the segments in index order and each file from its front, and
\* promises ascending sequence numbers (wal.go:270).  So every record of an
\* earlier segment is below every record of a later one, no two records share a
\* number, and the number Append hands out next is above all of them, across
\* rotations, truncations, crashes and the renumbering done by Open.
ReplayAscending ==
    /\ Ascending(segments)
    /\ open => \A i \in DOMAIN segments : \A r \in Held(segments[i]) : r.seq < nextSeq

\* Replay skips a whole segment on the strength of its cached last sequence
\* number (wal.go:281).  The cache, kept by write, by the scan at Open and by
\* the rewrite in TruncateTo, never makes it skip a record it was asked for.
ReplayDelivers ==
    open => \A from \in 0..MaxSeq : Replayed(from) = {r \in Readable : r.seq >= from}

\* A record a scan of the files can read back stays readable until a truncation
\* up to its own number; no rotation, rewrite, sync, crash (inside a truncation
\* too) or reopening loses it (wal.go:383-385).
DurableUntilTruncated ==
    [][\A r \in Readable \ Readable' :
          \E n \in r.seq..MaxSeq :
              \/ TruncateTo(n)
              \/ TruncateBefore(n + 1)
              \/ \E gone \in SUBSET DOMAIN segments, reached \in {"unlink", "flush", "rename"} :
                     CrashInTruncateTo(n, gone, reached)]_vars

\* The persisted replay watermark never moves back, whatever order flushes
\* finish in and across any number of restarts (wal.go:331-333).
CheckpointMonotone == [][checkpoint' >= checkpoint]_vars

\* The strengthening of ReplayAscending that is inductive: the cached last
\* number of a segment covers its records, a crash or Close leaves nothing
\* buffered, and the checkpoint file is never ahead of the memory of the
\* process that wrote it.
IInv ==
    /\ TypeOK
    /\ ReplayAscending
    /\ open => /\ \A i \in DOMAIN segments :
                     \A r \in Held(segments[i]) : r.seq <= segments[i].last
               /\ checkpoint <= nextReplay
    /\ ~open => \A i \in DOMAIN segments : segments[i].buf = {}

-----------------------------------------------------------------------------
(* What the comments of wal.go promise and the code does not keep. *)

\* "Records with a smaller sequence were already flushed to blocks"
\* (wal.go:332-333): a number that Append can still hand out is not below the
\* replay watermark.
NextSeqAboveReplayStart == open => nextSeq >= nextReplay
=============================================================================
