------------------------------ MODULE WALProofs ------------------------------
(***************************************************************************)
(* Proofs about WAL.tla, for every value of its constants.                 *)
(*                                                                         *)
(* The inductive invariant is IInv below: the type invariant, the ordering *)
(* property ReplayAscending, and three facts about the bookkeeping around  *)
(* it: the cached last sequence number of a segment covers its records,    *)
(* nothing is buffered while no process runs, and the persisted watermark  *)
(* is not ahead of the one in memory.                                      *)
(***************************************************************************)
EXTENDS WAL, FiniteSetTheorems, WellFoundedInduction, TLAPS

\* A nonempty set of naturals has a smallest member.
LEMMA NatMinimum ==
    ASSUME NEW T \in SUBSET Nat, T # {}
    PROVE  \E x \in T : \A y \in T : x <= y
<1>1. IsWellFoundedOn(OpToRel(<, Nat), Nat)
  BY NatLessThanWellFounded
<1>2. PICK x \in T : \A y \in T : <<y, x>> \notin OpToRel(<, Nat)
  BY <1>1, WFMin
<1>3. \A y \in T : ~(y < x)
  BY <1>2 DEF OpToRel
<1> QED
  BY <1>3

\* A nonempty set of naturals with an upper bound has a greatest member, and
\* that is what Max chooses.
LEMMA BoundedMax ==
    ASSUME NEW b \in Nat, NEW S \in SUBSET (0..b), S # {}
    PROVE  Max(S) \in S /\ \A y \in S : y <= Max(S)
<1> DEFINE U == {u \in Nat : \A y \in S : y <= u}
<1>1. b \in U
  OBVIOUS
<1>2. PICK m \in U : \A u \in U : m <= u
  BY <1>1, NatMinimum
<1>3. m \in S
  <2> SUFFICES ASSUME m \notin S PROVE FALSE
    OBVIOUS
  <2>1. PICK y \in S : TRUE
    OBVIOUS
  <2>2. \A z \in S : z < m
    BY <1>2
  <2>3. m - 1 \in U
    BY <2>1, <2>2
  <2> QED
    BY <1>2, <2>3
<1>4. \A y \in S : m >= y
  BY <1>2
<1>5. Max(S) \in S /\ \A y \in S : Max(S) >= y
  BY <1>3, <1>4 DEF Max
<1> QED
  BY <1>5

\* HighSeq is a sequence number and covers the records it is taken over.
LEMMA HighSeqCovers ==
    ASSUME NEW R \in SUBSET Record
    PROVE  /\ HighSeq(R) \in 0..(MaxSeq - 1)
           /\ \A r \in R : r.seq <= HighSeq(R)
<1> DEFINE S == {r.seq : r \in R} \cup {0}
<1>1. S \in SUBSET (0..(MaxSeq - 1)) /\ S # {}
  BY ConstantsAssumption DEF Record
<1>2. MaxSeq - 1 \in Nat
  BY ConstantsAssumption
<1>3. Max(S) \in S /\ \A y \in S : y <= Max(S)
  BY <1>1, <1>2, BoundedMax
<1> QED
  BY <1>1, <1>3 DEF HighSeq

-----------------------------------------------------------------------------
(* What each operation on one segment preserves. *)

\* The fields of a segment, and how one is put together.
LEMMA SegmentFields ==
    ASSUME NEW s \in Segment
    PROVE  /\ s.disk \in SUBSET Record /\ IsFiniteSet(s.disk)
           /\ s.buf \in SUBSET Record /\ IsFiniteSet(s.buf)
           /\ s.frag \in {"none", "live", "dead"}
           /\ s.last \in 0..(MaxSeq - 1)
           /\ s.size \in Nat /\ Cardinality(s.buf) <= s.size
  BY DEF Segment

LEMMA MakeSegment ==
    ASSUME NEW d \in SUBSET Record, IsFiniteSet(d),
           NEW b \in SUBSET Record, IsFiniteSet(b),
           NEW f \in {"none", "live", "dead"},
           NEW l \in 0..(MaxSeq - 1),
           NEW z \in Nat, Cardinality(b) <= z
    PROVE  [disk |-> d, buf |-> b, frag |-> f, last |-> l, size |-> z] \in Segment
  BY DEF Segment

LEMMA EmptySegmentType == EmptySegment \in Segment /\ Held(EmptySegment) = {}
  BY FS_EmptySet, ConstantsAssumption DEF EmptySegment, Segment, Held

LEMMA FlushedSegment ==
    ASSUME NEW s \in Segment
    PROVE  /\ Flushed(s) \in Segment
           /\ Held(Flushed(s)) \subseteq Held(s)
           /\ s.disk \subseteq Flushed(s).disk
           /\ Flushed(s).last = s.last
           /\ Flushed(s).buf = {}
<1>1. Landed(s) \subseteq s.buf
  BY DEF Landed
<1>2. IsFiniteSet(s.disk \cup Landed(s)) /\ IsFiniteSet({}) /\ Cardinality({}) = 0
  BY <1>1, FS_Subset, FS_Union, FS_EmptySet DEF Segment
<1> QED
  BY <1>1, <1>2 DEF Flushed, Segment, Held

LEMMA CrashedSegment ==
    ASSUME NEW s \in Segment, NEW whole \in BOOLEAN
    PROVE  /\ Crashed(s, whole) \in Segment
           /\ Held(Crashed(s, whole)) \subseteq Held(s)
           /\ s.disk \subseteq Crashed(s, whole).disk
           /\ Crashed(s, whole).buf = {}
<1>1. Torn(s) \subseteq s.buf
  BY DEF Torn
<1>2. IsFiniteSet(s.disk \cup Torn(s)) /\ IsFiniteSet({}) /\ Cardinality({}) = 0
  BY <1>1, FS_Subset, FS_Union, FS_EmptySet DEF Segment
<1>3. s.size - Cardinality(s.buf) \in Nat
  BY FS_CardinalityType DEF Segment
<1> QED
  BY <1>1, <1>2, <1>3 DEF Crashed, Segment, Held

LEMMA RewrittenSegment ==
    ASSUME NEW s \in Segment, NEW n \in Int
    PROVE  /\ Rewritten(s, n) \in Segment
           /\ Held(Rewritten(s, n)) \subseteq Held(s)
           /\ \A r \in s.disk : r.seq > n => r \in Rewritten(s, n).disk
           /\ \A r \in Held(Rewritten(s, n)) : r.seq <= Rewritten(s, n).last
           /\ Rewritten(s, n).buf = {}
<1>1. Kept(s, n) \in SUBSET Record /\ Kept(s, n) \subseteq s.disk
  BY DEF Kept, Segment
<1>2. IsFiniteSet(Kept(s, n)) /\ Cardinality(Kept(s, n)) \in Nat
  BY <1>1, FS_Subset, FS_CardinalityType DEF Segment
<1>3. HighSeq(Kept(s, n)) \in 0..(MaxSeq - 1) /\ \A r \in Kept(s, n) : r.seq <= HighSeq(Kept(s, n))
  BY <1>1, HighSeqCovers
<1>4. /\ {} \in SUBSET Record
      /\ IsFiniteSet({})
      /\ Cardinality({}) <= Cardinality(Kept(s, n))
  BY <1>2, FS_EmptySet
<1>5. Rewritten(s, n) \in Segment
  <2>1. [disk |-> Kept(s, n), buf |-> {}, frag |-> "none", last |-> HighSeq(Kept(s, n)),
         size |-> Cardinality(Kept(s, n))] \in Segment
    BY <1>1, <1>2, <1>3, <1>4, MakeSegment
  <2> QED
    BY <2>1 DEF Rewritten
<1>6. Held(Rewritten(s, n)) = Kept(s, n)
  BY DEF Rewritten, Held
<1>7. /\ Rewritten(s, n).last = HighSeq(Kept(s, n))
      /\ Rewritten(s, n).disk = Kept(s, n)
      /\ Rewritten(s, n).buf = {}
  BY DEF Rewritten
<1>8. \A r \in s.disk : r.seq > n => r \in Rewritten(s, n).disk
  BY <1>7 DEF Kept
<1>9. Held(Rewritten(s, n)) \subseteq Held(s)
  BY <1>1, <1>6 DEF Held
<1> QED
  BY <1>3, <1>5, <1>6, <1>7, <1>8, <1>9

LEMMA LoadedSegment ==
    ASSUME NEW s \in Segment
    PROVE  /\ Loaded(s) \in Segment
           /\ Loaded(s).disk = s.disk
           /\ Loaded(s).buf = s.buf
           /\ \A r \in s.disk : r.seq <= Loaded(s).last
           /\ Loaded(s).last = HighSeq(s.disk)
<1>1. s.disk \in SUBSET Record
  BY DEF Segment
<1>2. HighSeq(s.disk) \in 0..(MaxSeq - 1) /\ \A r \in s.disk : r.seq <= HighSeq(s.disk)
  BY <1>1, HighSeqCovers
<1>3. DOMAIN s = {"disk", "buf", "frag", "last", "size"}
  BY DEF Segment
<1>4. Loaded(s) = [disk |-> s.disk, buf |-> s.buf, frag |-> s.frag,
                   last |-> HighSeq(s.disk), size |-> s.size]
  BY <1>3 DEF Loaded, Segment
<1>5. Loaded(s) \in Segment
  BY <1>2, <1>4, SegmentFields, MakeSegment
<1> QED
  BY <1>2, <1>4, <1>5

LEMMA WrittenSegment ==
    ASSUME NEW s \in Segment, NEW r \in Record, NEW f \in {"none", "live"}
    PROVE  /\ Written(s, r, f) \in Segment
           /\ Held(Written(s, r, f)) \subseteq Held(s) \cup {r}
           /\ s.disk \subseteq Written(s, r, f).disk
           /\ Written(s, r, f).last >= s.last
           /\ Written(s, r, f).last >= r.seq
<1>1. Landed(s) \subseteq s.buf
  BY DEF Landed
<1>2. IsFiniteSet(s.disk \cup Landed(s))
  BY <1>1, FS_Subset, FS_Union DEF Segment
<1>3. IsFiniteSet({r}) /\ Cardinality({r}) = 1
  BY FS_Singleton
<1>4. /\ IsFiniteSet(s.buf \cup {r})
      /\ Cardinality(s.buf) \in Nat
      /\ Cardinality(s.buf \cup {r}) <= Cardinality(s.buf) + 1
  <2>1. IsFiniteSet(s.buf) /\ Cardinality(s.buf) \in Nat
    BY SegmentFields, FS_CardinalityType
  <2>2. /\ IsFiniteSet(s.buf \cup {r})
        /\ \/ Cardinality(s.buf \cup {r}) = Cardinality(s.buf)
           \/ Cardinality(s.buf \cup {r}) = Cardinality(s.buf) + 1
    BY <2>1, FS_AddElement
  <2> QED
    BY <2>1, <2>2
<1>5. r.seq \in 0..(MaxSeq - 1)
  BY DEF Record
<1> DEFINE l == IF r.seq > s.last THEN r.seq ELSE s.last
<1>6. l \in 0..(MaxSeq - 1) /\ l >= s.last /\ l >= r.seq
  BY <1>5, SegmentFields, ConstantsAssumption
<1>7. Written(s, r, f).last = l
  BY DEF Written
<1>8. CASE Spills(s)
  <2>1. Written(s, r, f) = [disk |-> s.disk \cup Landed(s), buf |-> {r}, frag |-> f,
                            last |-> l, size |-> s.size + 1]
    BY <1>8 DEF Written
  <2>2. s.disk \cup Landed(s) \in SUBSET Record /\ {r} \in SUBSET Record
    BY <1>1, SegmentFields
  <2>3. s.size + 1 \in Nat /\ Cardinality({r}) <= s.size + 1
    BY <1>3, SegmentFields
  <2>4. IsFiniteSet(s.disk \cup Landed(s)) /\ IsFiniteSet({r}) /\ f \in {"none", "live", "dead"}
    BY <1>2, <1>3
  <2>5. Written(s, r, f) \in Segment
    <3> DEFINE d == s.disk \cup Landed(s)
               b == {r}
               z == s.size + 1
    <3> HIDE DEF d, b, z, l
    <3>1. [disk |-> d, buf |-> b, frag |-> f, last |-> l, size |-> z] \in Segment
      BY <1>6, <2>2, <2>3, <2>4, MakeSegment DEF d, b, z
    <3> QED
      BY <2>1, <3>1 DEF d, b, z
  <2> QED
    BY <1>1, <1>6, <1>7, <2>1, <2>5 DEF Held
<1>9. CASE ~Spills(s)
  <2>1. Written(s, r, f) = [disk |-> s.disk, buf |-> s.buf \cup {r}, frag |-> s.frag,
                            last |-> l, size |-> s.size + 1]
    BY <1>9 DEF Written
  <2>2. s.size + 1 \in Nat /\ Cardinality(s.buf \cup {r}) <= s.size + 1
    <3>1. s.size \in Nat /\ Cardinality(s.buf) <= s.size
      BY SegmentFields
    <3>2. Cardinality(s.buf \cup {r}) \in Nat
      BY <1>4, FS_CardinalityType
    <3> QED
      BY <1>4, <3>1, <3>2
  <2>3. Written(s, r, f) \in Segment
    BY <1>4, <1>6, <2>1, <2>2, SegmentFields, MakeSegment
  <2> QED
    BY <1>6, <1>7, <2>1, <2>3 DEF Held
<1> QED
  BY <1>8, <1>9

-----------------------------------------------------------------------------
(* The directory as a whole. *)

\* Deleting segments and losing records keeps the order.
LEMMA ShrinkingKeepsOrder ==
    ASSUME NEW f, NEW g, Ascending(f), DOMAIN g \subseteq DOMAIN f,
           \A i \in DOMAIN g : Held(g[i]) \subseteq Held(f[i])
    PROVE  Ascending(g)
  BY DEF Ascending

\* The records of the types the step lemmas below work with.
LEMMA HeldRecords ==
    ASSUME NEW s \in Segment
    PROVE  Held(s) \in SUBSET Record /\ \A r \in Held(s) : r.seq \in 0..(MaxSeq - 1)
  BY SegmentFields DEF Held, Record

\* The initial directory is empty.
LEMMA InitIInv == Init => IInv
<1> SUFFICES ASSUME Init PROVE IInv
  OBVIOUS
<1>1. DOMAIN segments = {}
  BY DEF Init
<1>2. TypeOK
  <2>1. segments \in [DOMAIN segments -> Segment]
    BY <1>1 DEF Init
  <2>2. open \in BOOLEAN /\ nextReplay \in Nat /\ checkpoint \in Nat /\ nextSeq = 0
    BY DEF Init
  <2>3. 0 \in 0..MaxSeq
    BY ConstantsAssumption
  <2>4. DOMAIN segments \subseteq 1..MaxIdx
    BY <1>1
  <2> QED
    BY <2>1, <2>2, <2>3, <2>4 DEF TypeOK
<1>3. ReplayAscending
  BY <1>1 DEF ReplayAscending, Ascending
<1> QED
  BY <1>1, <1>2, <1>3 DEF IInv, Init

\* Open renumbers from the highest record it can read.
LEMMA OpenIInv == IInv /\ Open => IInv'
<1> SUFFICES ASSUME IInv, Open PROVE IInv'
  OBVIOUS
<1> USE DEF IInv
<1>1. /\ open = FALSE /\ open' = TRUE
      /\ nextReplay' = checkpoint /\ checkpoint' = checkpoint
      /\ checkpoint \in Nat
  BY DEF Open, TypeOK
<1>2. CASE DOMAIN segments = {}
  <2>1. segments' = FirstSegment /\ nextSeq' = 0
    BY <1>2 DEF Open
  <2>2. DOMAIN segments' = {1} /\ segments'[1] = EmptySegment
    BY <2>1 DEF FirstSegment
  <2>3. segments' \in [DOMAIN segments' -> Segment]
    BY <2>1, EmptySegmentType DEF FirstSegment
  <2>4. \A i \in DOMAIN segments' : Held(segments'[i]) = {}
    BY <2>2, EmptySegmentType
  <2>5. TypeOK'
    BY <1>1, <2>1, <2>2, <2>3, ConstantsAssumption DEF TypeOK
  <2>6. ReplayAscending'
    BY <2>4 DEF ReplayAscending, Ascending
  <2> QED
    BY <1>1, <2>4, <2>5, <2>6
<1>3. CASE DOMAIN segments # {}
  <2>1. segments' = [i \in DOMAIN segments |-> Loaded(segments[i])]
    BY <1>3 DEF Open
  <2>2. \A i \in DOMAIN segments :
            /\ segments[i] \in Segment
            /\ segments[i].buf = {}
            /\ segments'[i] = Loaded(segments[i])
            /\ segments'[i] \in Segment
            /\ Held(segments'[i]) = segments[i].disk
            /\ Held(segments[i]) = segments[i].disk
            /\ \A r \in segments[i].disk : r.seq <= segments'[i].last
            /\ segments'[i].last = HighSeq(segments[i].disk)
    BY <1>1, <2>1, LoadedSegment DEF TypeOK, Held
  <2> DEFINE highs == {HighSeq(segments[i].disk) : i \in DOMAIN segments}
  <2>3. nextSeq' = 1 + Max(highs)
    BY <1>3 DEF Open
  <2>4. highs \in SUBSET (0..(MaxSeq - 1)) /\ highs # {}
    BY <1>3, <2>2, SegmentFields
  <2>5. Max(highs) \in highs /\ \A h \in highs : h <= Max(highs)
    <3>1. MaxSeq - 1 \in Nat
      BY ConstantsAssumption
    <3> QED
      BY <2>4, <3>1, BoundedMax
  <2>6. nextSeq' \in 0..MaxSeq
    BY <2>3, <2>4, <2>5, ConstantsAssumption
  <2>7. \A i \in DOMAIN segments : \A r \in Held(segments'[i]) : r.seq < nextSeq'
    <3> SUFFICES ASSUME NEW i \in DOMAIN segments, NEW r \in Held(segments'[i])
                 PROVE  r.seq < nextSeq'
      OBVIOUS
    <3>1. r.seq \in 0..(MaxSeq - 1)
      BY <2>2, HeldRecords
    <3>2. r.seq <= HighSeq(segments[i].disk)
      BY <2>2
    <3>3. HighSeq(segments[i].disk) \in highs
      OBVIOUS
    <3>4. HighSeq(segments[i].disk) \in Int /\ Max(highs) \in Int /\ r.seq \in Int
      BY <2>4, <2>5, <3>1, <3>3
    <3>5. HighSeq(segments[i].disk) <= Max(highs)
      BY <2>5, <3>3
    <3> HIDE DEF highs
    <3> QED
      BY <2>3, <3>2, <3>4, <3>5
  <2>8. DOMAIN segments' = DOMAIN segments
    BY <2>1
  <2>9. TypeOK'
    BY <1>1, <2>1, <2>2, <2>6, <2>8 DEF TypeOK
  <2>10. Ascending(segments')
    BY <2>2, <2>8, ShrinkingKeepsOrder DEF ReplayAscending
  <2> QED
    BY <1>1, <2>2, <2>7, <2>8, <2>9, <2>10 DEF ReplayAscending
<1> QED
  BY <1>2, <1>3

\* A running process that only loses records, and keeps the cached last
\* numbers above the rest, preserves the invariant.
LEMMA ShrinkIInv ==
    ASSUME IInv, open, open' = open, nextSeq' = nextSeq,
           nextReplay' = nextReplay, checkpoint' = checkpoint,
           DOMAIN segments' \subseteq DOMAIN segments,
           segments' \in [DOMAIN segments' -> Segment],
           \A i \in DOMAIN segments' :
               /\ Held(segments'[i]) \subseteq Held(segments[i])
               /\ \A r \in Held(segments'[i]) : r.seq <= segments'[i].last
    PROVE  IInv'
<1>1. Ascending(segments')
  BY ShrinkingKeepsOrder DEF IInv, ReplayAscending
<1>2. \A i \in DOMAIN segments' : \A r \in Held(segments'[i]) : r.seq < nextSeq'
  BY DEF IInv, ReplayAscending
<1>3. TypeOK'
  BY DEF IInv, TypeOK
<1> QED
  BY <1>1, <1>2, <1>3 DEF IInv, ReplayAscending

\* So does starting over with one empty segment.
LEMMA RestartIInv ==
    ASSUME IInv, open, open' = open, nextSeq' = nextSeq,
           nextReplay' = nextReplay, checkpoint' = checkpoint,
           segments' = FirstSegment
    PROVE  IInv'
<1>1. DOMAIN segments' = {1} /\ segments'[1] = EmptySegment
  BY DEF FirstSegment
<1>2. segments' \in [DOMAIN segments' -> Segment]
  BY EmptySegmentType DEF FirstSegment
<1>3. \A i \in DOMAIN segments' : Held(segments'[i]) = {}
  BY <1>1, EmptySegmentType
<1>4. TypeOK'
  BY <1>1, <1>2, ConstantsAssumption DEF IInv, TypeOK
<1>5. ReplayAscending'
  BY <1>3 DEF ReplayAscending, Ascending
<1> QED
  BY <1>3, <1>4, <1>5 DEF IInv

\* So does the end of the process, whatever part of the files it leaves.
LEMMA DownIInv ==
    ASSUME IInv, MemoryLost,
           DOMAIN segments' \subseteq DOMAIN segments,
           segments' \in [DOMAIN segments' -> Segment],
           \A i \in DOMAIN segments' :
               /\ Held(segments'[i]) \subseteq Held(segments[i])
               /\ segments'[i].buf = {}
    PROVE  IInv'
<1>1. Ascending(segments')
  BY ShrinkingKeepsOrder DEF IInv, ReplayAscending
<1>2. /\ open' = FALSE /\ nextSeq' = 0 /\ nextReplay' = 0
      /\ checkpoint' = checkpoint
  BY DEF MemoryLost
<1>3. TypeOK'
  <2>1. 0 \in 0..MaxSeq /\ 0 \in Nat
    BY ConstantsAssumption
  <2>2. DOMAIN segments' \subseteq 1..MaxIdx /\ checkpoint' \in Nat
    BY <1>2 DEF IInv, TypeOK
  <2> QED
    BY <1>2, <2>1, <2>2 DEF TypeOK
<1> QED
  BY <1>1, <1>2, <1>3 DEF IInv, ReplayAscending

LEMMA SyncIInv == IInv /\ Sync => IInv'
<1> SUFFICES ASSUME IInv, Sync PROVE IInv'
  OBVIOUS
<1>1. PICK i \in DOMAIN segments : segments' = [segments EXCEPT ![i] = Flushed(@)]
  BY DEF Sync
<1>2. /\ open /\ open' = open /\ nextSeq' = nextSeq
      /\ nextReplay' = nextReplay /\ checkpoint' = checkpoint
  BY DEF Sync
<1>3. segments \in [DOMAIN segments -> Segment]
  BY DEF IInv, TypeOK
<1>4. /\ Flushed(segments[i]) \in Segment
      /\ Held(Flushed(segments[i])) \subseteq Held(segments[i])
      /\ Flushed(segments[i]).last = segments[i].last
  BY <1>1, <1>3, FlushedSegment
<1>5. /\ DOMAIN segments' = DOMAIN segments
      /\ segments' \in [DOMAIN segments' -> Segment]
  BY <1>1, <1>3, <1>4
<1>6. \A j \in DOMAIN segments' :
          /\ Held(segments'[j]) \subseteq Held(segments[j])
          /\ segments'[j].last = segments[j].last
  BY <1>1, <1>3, <1>4
<1>7. \A j \in DOMAIN segments' : \A r \in Held(segments'[j]) : r.seq <= segments'[j].last
  BY <1>2, <1>5, <1>6 DEF IInv
<1> QED
  BY <1>2, <1>5, <1>6, <1>7, ShrinkIInv

LEMMA SetReplayStartIInv ==
    ASSUME NEW n \in Nat PROVE IInv /\ SetReplayStart(n) => IInv'
<1> SUFFICES ASSUME IInv, SetReplayStart(n) PROVE IInv'
  OBVIOUS
<1>1. /\ open /\ open' = open /\ segments' = segments /\ nextSeq' = nextSeq
      /\ nextReplay' \in Nat /\ checkpoint' = nextReplay'
  BY DEF SetReplayStart, IInv, TypeOK
<1>2. TypeOK'
  BY <1>1 DEF IInv, TypeOK
<1>3. ReplayAscending'
  BY <1>1 DEF IInv, ReplayAscending
<1> QED
  BY <1>1, <1>2, <1>3 DEF IInv

LEMMA TruncateToIInv ==
    ASSUME NEW n \in Int PROVE IInv /\ TruncateTo(n) => IInv'
<1> SUFFICES ASSUME IInv, TruncateTo(n) PROVE IInv'
  OBVIOUS
<1>1. /\ open /\ open' = open /\ nextSeq' = nextSeq
      /\ nextReplay' = nextReplay /\ checkpoint' = checkpoint
  BY DEF TruncateTo
<1>2. CASE UpTo(n) = DOMAIN segments
  BY <1>1, <1>2, RestartIInv DEF TruncateTo
<1>3. CASE UpTo(n) # DOMAIN segments
  <2> DEFINE rest == DOMAIN segments \ UpTo(n)
  <2>1. segments' = [i \in rest |-> IF Highest(i, rest) THEN Rewritten(segments[i], n)
                                    ELSE segments[i]]
    BY <1>3 DEF TruncateTo
  <2>2. DOMAIN segments' = rest /\ rest \subseteq DOMAIN segments
    BY <2>1
  <2>3. ASSUME NEW i \in rest
        PROVE  /\ segments'[i] \in Segment
               /\ Held(segments'[i]) \subseteq Held(segments[i])
               /\ \A r \in Held(segments'[i]) : r.seq <= segments'[i].last
    <3>1. segments[i] \in Segment
      BY DEF IInv, TypeOK
    <3>2. \A r \in Held(segments[i]) : r.seq <= segments[i].last
      BY <1>1 DEF IInv
    <3>3. CASE Highest(i, rest)
      BY <2>1, <3>1, <3>3, RewrittenSegment
    <3>4. CASE ~Highest(i, rest)
      BY <2>1, <3>1, <3>2, <3>4
    <3> QED
      BY <3>3, <3>4
  <2>4. segments' \in [DOMAIN segments' -> Segment]
    BY <2>1, <2>2, <2>3
  <2> QED
    BY <1>1, <2>2, <2>3, <2>4, ShrinkIInv
<1> QED
  BY <1>2, <1>3

LEMMA TruncateBeforeIInv ==
    ASSUME NEW n \in Int PROVE IInv /\ TruncateBefore(n) => IInv'
<1> SUFFICES ASSUME IInv, TruncateBefore(n) PROVE IInv'
  OBVIOUS
<1>1. /\ open /\ open' = open /\ nextSeq' = nextSeq
      /\ nextReplay' = nextReplay /\ checkpoint' = checkpoint
  BY DEF TruncateBefore
<1>2. CASE Below(n) = DOMAIN segments
  BY <1>1, <1>2, RestartIInv DEF TruncateBefore
<1>3. CASE Below(n) # DOMAIN segments
  <2>1. segments' = [i \in DOMAIN segments \ Below(n) |-> segments[i]]
    BY <1>3 DEF TruncateBefore, Without
  <2>2. segments \in [DOMAIN segments -> Segment]
    BY DEF IInv, TypeOK
  <2>3. \A i \in DOMAIN segments' : i \in DOMAIN segments /\ segments'[i] = segments[i]
    BY <2>1
  <2>4. segments' \in [DOMAIN segments' -> Segment]
    BY <2>1, <2>2
  <2>5. \A i \in DOMAIN segments' : \A r \in Held(segments'[i]) : r.seq <= segments'[i].last
    BY <1>1, <2>3 DEF IInv
  <2> QED
    BY <1>1, <2>3, <2>4, <2>5, ShrinkIInv
<1> QED
  BY <1>2, <1>3

LEMMA CloseIInv == IInv /\ Close => IInv'
<1> SUFFICES ASSUME IInv, Close PROVE IInv'
  OBVIOUS
<1>1. segments \in [DOMAIN segments -> Segment]
  BY DEF IInv, TypeOK
<1>2. segments' = [i \in DOMAIN segments |-> Flushed(segments[i])] /\ MemoryLost
  BY DEF Close
<1>3. \A i \in DOMAIN segments : /\ Flushed(segments[i]) \in Segment
                                 /\ Held(Flushed(segments[i])) \subseteq Held(segments[i])
                                 /\ Flushed(segments[i]).buf = {}
  BY <1>1, FlushedSegment
<1> QED
  BY <1>2, <1>3, DownIInv

LEMMA CrashIInv ==
    ASSUME NEW whole \in BOOLEAN PROVE IInv /\ Crash(whole) => IInv'
<1> SUFFICES ASSUME IInv, Crash(whole) PROVE IInv'
  OBVIOUS
<1>1. segments \in [DOMAIN segments -> Segment]
  BY DEF IInv, TypeOK
<1>2. segments' = [i \in DOMAIN segments |-> Crashed(segments[i], whole)] /\ MemoryLost
  BY DEF Crash
<1>3. \A i \in DOMAIN segments : /\ Crashed(segments[i], whole) \in Segment
                                 /\ Held(Crashed(segments[i], whole)) \subseteq Held(segments[i])
                                 /\ Crashed(segments[i], whole).buf = {}
  BY <1>1, CrashedSegment
<1> QED
  BY <1>2, <1>3, DownIInv

\* What each of the three forms of a segment in a crash of TruncateTo keeps.
LEMMA InterruptedSegment ==
    ASSUME NEW s \in Segment, NEW n \in Int, NEW t,
           t \in {Crashed(s, FALSE), Flushed(s), Rewritten(s, n)}
    PROVE  /\ t \in Segment
           /\ Held(t) \subseteq Held(s)
           /\ t.buf = {}
           /\ \A r \in s.disk : r.seq > n => r \in t.disk
<1>1. CASE t = Crashed(s, FALSE)
  BY <1>1, CrashedSegment
<1>2. CASE t = Flushed(s)
  BY <1>2, FlushedSegment
<1>3. CASE t = Rewritten(s, n)
  BY <1>3, RewrittenSegment
<1> QED
  BY <1>1, <1>2, <1>3

LEMMA CrashInTruncateToIInv ==
    ASSUME NEW n \in Int, NEW gone, NEW reached
    PROVE  IInv /\ CrashInTruncateTo(n, gone, reached) => IInv'
<1> SUFFICES ASSUME IInv, CrashInTruncateTo(n, gone, reached) PROVE IInv'
  OBVIOUS
<1>1. segments \in [DOMAIN segments -> Segment]
  BY DEF IInv, TypeOK
<1>2. MemoryLost /\ DOMAIN segments' = DOMAIN segments \ gone
  BY DEF CrashInTruncateTo
<1>3. \A i \in DOMAIN segments' :
          segments'[i] \in {Crashed(segments[i], FALSE), Flushed(segments[i]),
                            Rewritten(segments[i], n)}
  BY DEF CrashInTruncateTo
<1>4. \A i \in DOMAIN segments' : /\ segments'[i] \in Segment
                                  /\ Held(segments'[i]) \subseteq Held(segments[i])
                                  /\ segments'[i].buf = {}
  <2> TAKE i \in DOMAIN segments'
  <2>1. segments[i] \in Segment
    BY <1>1, <1>2
  <2> QED
    BY <1>3, <2>1, InterruptedSegment
<1>5. segments' \in [DOMAIN segments' -> Segment]
  BY <1>4 DEF CrashInTruncateTo
<1> QED
  BY <1>2, <1>4, <1>5, DownIInv

\* Append puts one record, numbered above all others, into the last segment.
LEMMA AppendIInv ==
    ASSUME NEW p \in Payload, NEW clean \in BOOLEAN, NEW f \in {"none", "live"}
    PROVE  IInv /\ AppendRecord(p, clean, f) => IInv'
<1> SUFFICES ASSUME IInv, AppendRecord(p, clean, f) PROVE IInv'
  OBVIOUS
<1> DEFINE r == [seq |-> nextSeq, pt |-> p, clean |-> clean]
<1>1. /\ open /\ open' = open /\ nextSeq' = nextSeq + 1 /\ nextSeq < MaxSeq
      /\ nextReplay' = nextReplay /\ checkpoint' = checkpoint
      /\ AppendInPlace(r, f) \/ AppendRotating(r, f)
  BY DEF AppendRecord
<1>2. segments \in [DOMAIN segments -> Segment] /\ nextSeq \in 0..MaxSeq
  BY DEF IInv, TypeOK
<1>3. r \in Record /\ r.seq = nextSeq
  BY <1>1, <1>2, ConstantsAssumption DEF Record
<1>4. \A i \in DOMAIN segments : /\ segments[i] \in Segment
                                 /\ Held(segments[i]) \in SUBSET Record
                                 /\ \A q \in Held(segments[i]) :
                                       q.seq \in Nat /\ q.seq < nextSeq /\ q.seq <= segments[i].last
  BY <1>1, <1>2, HeldRecords DEF IInv, ReplayAscending
<1> HIDE DEF r
\* In both cases: r is in the segment with the highest index, and nowhere else.
<1>5. ASSUME NEW D, DOMAIN segments' = D, D \subseteq 1..MaxIdx,
             NEW k \in D, \A j \in D : j <= k,
             \A j \in D : /\ segments'[j] \in Segment
                          /\ \A q \in Held(segments'[j]) :
                                /\ q.seq <= segments'[j].last
                                /\ \/ j \in DOMAIN segments /\ q \in Held(segments[j])
                                   \/ j = k /\ q = r,
             segments' \in [DOMAIN segments' -> Segment]
      PROVE  IInv'
  <2>1. TypeOK'
    <3>1. nextSeq' \in 0..MaxSeq
      BY <1>1, <1>2, ConstantsAssumption
    <3>2. open' \in BOOLEAN /\ nextReplay' \in Nat /\ checkpoint' \in Nat
      BY <1>1 DEF IInv, TypeOK
    <3> QED
      BY <1>5, <3>1, <3>2 DEF TypeOK
  <2>2. Ascending(segments')
    <3> SUFFICES ASSUME NEW i \in D, NEW j \in D,
                        NEW a \in Held(segments'[i]), NEW b \in Held(segments'[j])
                 PROVE  /\ i < j => a.seq < b.seq
                        /\ i = j /\ a.seq = b.seq => a = b
      BY <1>5 DEF Ascending
    <3>1. CASE a = r /\ b = r
      <4>1. ~(i < j)
        <5> SUFFICES ASSUME i < j PROVE FALSE
          OBVIOUS
        <5>1. i # k
          BY <1>5
        <5>2. i \in DOMAIN segments /\ r \in Held(segments[i])
          BY <1>5, <3>1, <5>1
        <5> QED
          BY <1>2, <1>3, <1>4, <5>2
      <4> QED
        BY <3>1, <4>1
    <3>2. CASE a = r /\ b # r
      <4>1. j \in DOMAIN segments /\ b \in Held(segments[j])
        BY <1>5, <3>2
      <4>2. ~(i < j)
        <5> SUFFICES ASSUME i < j PROVE FALSE
          OBVIOUS
        <5>1. i # k
          BY <1>5
        <5>2. i \in DOMAIN segments /\ r \in Held(segments[i])
          BY <1>5, <3>2, <5>1
        <5> QED
          BY <1>2, <1>3, <1>4, <5>2
      <4> QED
        BY <1>2, <1>3, <1>4, <3>2, <4>1, <4>2
    <3>3. CASE a # r /\ b = r
      <4>1. i \in DOMAIN segments /\ a \in Held(segments[i])
        BY <1>5, <3>3
      <4> QED
        BY <1>2, <1>3, <1>4, <3>3, <4>1
    <3>4. CASE a # r /\ b # r
      <4>1. /\ i \in DOMAIN segments /\ a \in Held(segments[i])
            /\ j \in DOMAIN segments /\ b \in Held(segments[j])
        BY <1>5, <3>4
      <4> QED
        BY <4>1 DEF IInv, ReplayAscending, Ascending
    <3> QED
      BY <3>1, <3>2, <3>3, <3>4
  <2>3. \A i \in DOMAIN segments' : \A q \in Held(segments'[i]) : q.seq < nextSeq'
    BY <1>1, <1>2, <1>3, <1>4, <1>5
  <2> QED
    BY <1>1, <1>5, <2>1, <2>2, <2>3 DEF IInv, ReplayAscending
<1>6. CASE AppendInPlace(r, f)
  <2>1. PICK k \in DOMAIN segments : /\ Current(k)
                                     /\ segments' = [segments EXCEPT ![k] = Written(@, r, f)]
    BY <1>6 DEF AppendInPlace
  <2>2. /\ Written(segments[k], r, f) \in Segment
        /\ Held(Written(segments[k], r, f)) \subseteq Held(segments[k]) \cup {r}
        /\ Written(segments[k], r, f).last >= segments[k].last
        /\ Written(segments[k], r, f).last >= r.seq
    BY <1>3, <1>4, WrittenSegment
  <2>3. /\ DOMAIN segments' = DOMAIN segments
        /\ segments'[k] = Written(segments[k], r, f)
        /\ \A j \in DOMAIN segments : j # k => segments'[j] = segments[j]
        /\ segments' \in [DOMAIN segments' -> Segment]
    BY <1>2, <2>1, <2>2
  <2>4. \A j \in DOMAIN segments : j <= k
    BY <2>1 DEF Current, Highest
  <2>5. \A q \in Held(segments'[k]) : /\ q.seq <= segments'[k].last
                                      /\ q \in Held(segments[k]) \/ q = r
    <3>1. segments[k].last \in Nat /\ Written(segments[k], r, f).last \in Nat
      BY <1>4, <2>2, SegmentFields
    <3> QED
      BY <1>2, <1>3, <1>4, <2>2, <2>3, <3>1
  <2>6. DOMAIN segments \subseteq 1..MaxIdx
    BY DEF IInv, TypeOK
  <2>7. \A j \in DOMAIN segments :
            /\ segments'[j] \in Segment
            /\ \A q \in Held(segments'[j]) :
                  /\ q.seq <= segments'[j].last
                  /\ \/ j \in DOMAIN segments /\ q \in Held(segments[j])
                     \/ j = k /\ q = r
    BY <1>4, <2>2, <2>3, <2>5
  <2> QED
    BY <1>5, <2>3, <2>4, <2>6, <2>7
<1>7. CASE AppendRotating(r, f)
  <2>1. PICK c \in DOMAIN segments :
            /\ Current(c)
            /\ c < MaxIdx
            /\ segments' = [j \in DOMAIN segments \cup {c + 1} |->
                               IF j = c THEN Flushed(segments[c])
                               ELSE IF j = c + 1 THEN Written(EmptySegment, r, f)
                               ELSE segments[j]]
    BY <1>7 DEF AppendRotating
  <2> DEFINE D == DOMAIN segments \cup {c + 1}
  <2>2. DOMAIN segments \subseteq 1..MaxIdx /\ c \in 1..MaxIdx
    BY <2>1 DEF IInv, TypeOK
  <2>3. DOMAIN segments' = D /\ D \subseteq 1..MaxIdx /\ \A j \in D : j <= c + 1
    BY <2>1, <2>2, ConstantsAssumption DEF Current, Highest
  <2>4. /\ Written(EmptySegment, r, f) \in Segment
        /\ Held(Written(EmptySegment, r, f)) \subseteq {r}
        /\ Written(EmptySegment, r, f).last >= r.seq
    BY <1>3, EmptySegmentType, WrittenSegment
  <2>5. /\ Flushed(segments[c]) \in Segment
        /\ Held(Flushed(segments[c])) \subseteq Held(segments[c])
        /\ Flushed(segments[c]).last = segments[c].last
    BY <1>4, FlushedSegment
  <2>6. ASSUME NEW j \in D
        PROVE  /\ segments'[j] \in Segment
               /\ \A q \in Held(segments'[j]) :
                     /\ q.seq <= segments'[j].last
                     /\ \/ j \in DOMAIN segments /\ q \in Held(segments[j])
                        \/ j = c + 1 /\ q = r
    <3>1. CASE j = c
      <4>1. segments'[j] = Flushed(segments[c])
        BY <2>1, <3>1
      <4> QED
        BY <1>4, <2>5, <3>1, <4>1
    <3>2. CASE j = c + 1
      <4>1. segments'[j] = Written(EmptySegment, r, f)
        BY <2>1, <2>2, <3>2
      <4>2. r.seq <= Written(EmptySegment, r, f).last
        BY <1>2, <1>3, <2>4, SegmentFields
      <4> QED
        BY <2>4, <3>2, <4>1, <4>2
    <3>3. CASE j # c /\ j # c + 1
      <4>1. j \in DOMAIN segments /\ segments'[j] = segments[j]
        BY <2>1, <3>3
      <4> QED
        BY <1>4, <4>1
    <3> QED
      BY <3>1, <3>2, <3>3
  <2>7. segments' \in [DOMAIN segments' -> Segment]
    BY <2>1, <2>3, <2>6
  <2>8. c + 1 \in D
    OBVIOUS
  <2> HIDE DEF D
  <2> QED
    BY <1>5, <2>3, <2>6, <2>7, <2>8
<1> QED
  BY <1>1, <1>6, <1>7

\* The log keeps its invariant, whatever its callers do.
LEMMA LogStep == ASSUME IInv, [Next]_vars PROVE IInv'
<1>1. CASE Open
  BY <1>1, OpenIInv
<1>2. ASSUME NEW p \in Payload, NEW clean \in BOOLEAN, NEW f \in {"none", "live"},
             AppendRecord(p, clean, f)
      PROVE  IInv'
  BY <1>2, AppendIInv
<1>3. CASE Sync
  BY <1>3, SyncIInv
<1>4. nextSeq \in 0..MaxSeq
  BY DEF IInv, TypeOK
<1>5. ASSUME NEW n \in 1..nextSeq, SetReplayStart(n) PROVE IInv'
  BY <1>4, <1>5, SetReplayStartIInv
<1>6. ASSUME NEW n \in 0..(nextSeq - 1), TruncateTo(n) PROVE IInv'
  BY <1>6, TruncateToIInv
<1>7. ASSUME NEW n \in 0..nextSeq, TruncateBefore(n) PROVE IInv'
  BY <1>7, TruncateBeforeIInv
<1>8. CASE Close
  BY <1>8, CloseIInv
<1>9. ASSUME NEW whole \in BOOLEAN, Crash(whole) PROVE IInv'
  BY <1>9, CrashIInv
<1>10. ASSUME NEW n \in 0..(nextSeq - 1), NEW gone \in SUBSET DOMAIN segments,
              NEW reached \in {"unlink", "flush", "rename"},
              CrashInTruncateTo(n, gone, reached)
       PROVE  IInv'
  BY <1>10, CrashInTruncateToIInv
<1>11. CASE UNCHANGED vars
  BY <1>11 DEF vars, IInv, TypeOK, ReplayAscending
<1> QED
  BY <1>1, <1>2, <1>3, <1>5, <1>6, <1>7, <1>8, <1>9, <1>10, <1>11 DEF Next

-----------------------------------------------------------------------------
(* The theorems. *)

THEOREM Inductive == Spec => []IInv
<1>1. IInv /\ [Next]_vars => IInv'
  BY LogStep
<1> QED
  BY <1>1, InitIInv, PTL DEF Spec

\* Every variable keeps its type (TypeOK).
THEOREM TypeCorrect == Spec => []TypeOK
<1>1. IInv => TypeOK
  BY DEF IInv
<1> QED
  BY <1>1, Inductive, PTL

\* Replay delivers ascending, distinct numbers and Append never reuses the
\* number of a record that can still be read (ReplayAscending).
THEOREM AscendingHolds == Spec => []ReplayAscending
<1>1. IInv => ReplayAscending
  BY DEF IInv
<1> QED
  BY <1>1, Inductive, PTL

\* Skipping whole segments by their cached last number loses nothing
\* (ReplayDelivers).
THEOREM DeliversHolds == Spec => []ReplayDelivers
<1>1. IInv => ReplayDelivers
  <2> SUFFICES ASSUME IInv, open, NEW from \in 0..MaxSeq
               PROVE  Replayed(from) = {r \in Readable : r.seq >= from}
    BY DEF ReplayDelivers
  <2>1. Replayed(from) \subseteq {r \in Readable : r.seq >= from}
    BY DEF Replayed, Readable
  <2>2. ASSUME NEW i \in DOMAIN segments, NEW r \in segments[i].disk, r.seq >= from
        PROVE  r \in Replayed(from)
    <3>1. segments[i] \in Segment /\ r \in Held(segments[i])
      BY DEF IInv, TypeOK, Held
    <3>2. r.seq \in Int /\ segments[i].last \in Int /\ r.seq <= segments[i].last
      BY <3>1, HeldRecords, SegmentFields DEF IInv
    <3>3. segments[i].last >= from
      BY <2>2, <3>2
    <3> QED
      BY <2>2, <3>3 DEF Replayed
  <2>3. {r \in Readable : r.seq >= from} \subseteq Replayed(from)
    BY <2>2 DEF Readable
  <2> QED
    BY <2>1, <2>3
<1> QED
  BY <1>1, Inductive, PTL

\* The checkpoint file never moves back (CheckpointMonotone).
THEOREM CheckpointHolds == Spec => CheckpointMonotone
<1>1. IInv /\ [Next]_vars => [checkpoint' >= checkpoint]_vars
  <2> SUFFICES ASSUME IInv, Next PROVE checkpoint' >= checkpoint
    OBVIOUS
  <2>1. checkpoint \in Nat /\ nextReplay \in Nat /\ nextSeq \in 0..MaxSeq
    BY DEF IInv, TypeOK
  <2>2. ASSUME NEW n \in 1..nextSeq, SetReplayStart(n) PROVE checkpoint' >= checkpoint
    <3>1. checkpoint <= nextReplay
      BY <2>2 DEF SetReplayStart, IInv
    <3>2. checkpoint' = (IF n > nextReplay THEN n ELSE nextReplay)
      BY <2>2 DEF SetReplayStart
    <3> QED
      BY <2>1, <3>1, <3>2
  <2>3. CASE checkpoint' = checkpoint
    BY <2>1, <2>3
  <2> QED
    BY <2>2, <2>3 DEF Next, Open, AppendRecord, Sync, TruncateTo, TruncateBefore,
                      Close, Crash, CrashInTruncateTo, MemoryLost
<1> QED
  BY <1>1, Inductive, PTL DEF Spec, CheckpointMonotone

-----------------------------------------------------------------------------
(* Durability. *)

\* A step that leaves every file with at least its readable records.
LEMMA GrowingKeeps ==
    ASSUME DOMAIN segments \subseteq DOMAIN segments',
           \A i \in DOMAIN segments : segments[i].disk \subseteq segments'[i].disk
    PROVE  Readable \subseteq Readable'
  BY DEF Readable

LEMMA OpenKeeps == IInv /\ Open => Readable \subseteq Readable'
<1> SUFFICES ASSUME IInv, Open PROVE Readable \subseteq Readable'
  OBVIOUS
<1>1. CASE DOMAIN segments = {}
  BY <1>1 DEF Readable
<1>2. CASE DOMAIN segments # {}
  <2>1. segments' = [i \in DOMAIN segments |-> Loaded(segments[i])]
    BY <1>2 DEF Open
  <2>2. \A i \in DOMAIN segments : Loaded(segments[i]).disk = segments[i].disk
    BY LoadedSegment DEF IInv, TypeOK
  <2> QED
    BY <2>1, <2>2, GrowingKeeps
<1> QED
  BY <1>1, <1>2

LEMMA AppendKeeps ==
    ASSUME NEW p \in Payload, NEW clean \in BOOLEAN, NEW f \in {"none", "live"}
    PROVE  IInv /\ AppendRecord(p, clean, f) => Readable \subseteq Readable'
<1> SUFFICES ASSUME IInv, AppendRecord(p, clean, f) PROVE Readable \subseteq Readable'
  OBVIOUS
<1> DEFINE r == [seq |-> nextSeq, pt |-> p, clean |-> clean]
<1>1. segments \in [DOMAIN segments -> Segment] /\ DOMAIN segments \subseteq 1..MaxIdx
  BY DEF IInv, TypeOK
<1>2. r \in Record
  BY ConstantsAssumption DEF AppendRecord, IInv, TypeOK, Record
<1>3. \A i \in DOMAIN segments :
          /\ segments[i].disk \subseteq Written(segments[i], r, f).disk
          /\ segments[i].disk \subseteq Flushed(segments[i]).disk
  BY <1>1, <1>2, WrittenSegment, FlushedSegment
<1> HIDE DEF r
<1>4. CASE AppendInPlace(r, f)
  <2>1. PICK k \in DOMAIN segments : segments' = [segments EXCEPT ![k] = Written(@, r, f)]
    BY <1>4 DEF AppendInPlace
  <2> QED
    BY <1>1, <1>3, <2>1, GrowingKeeps
<1>5. CASE AppendRotating(r, f)
  <2>1. PICK c \in DOMAIN segments :
            /\ Current(c)
            /\ segments' = [j \in DOMAIN segments \cup {c + 1} |->
                               IF j = c THEN Flushed(segments[c])
                               ELSE IF j = c + 1 THEN Written(EmptySegment, r, f)
                               ELSE segments[j]]
    BY <1>5 DEF AppendRotating
  <2>2. c + 1 \notin DOMAIN segments
    BY <1>1, <2>1 DEF Current, Highest
  <2>3. \A j \in DOMAIN segments : segments[j].disk \subseteq segments'[j].disk
    BY <1>3, <2>1, <2>2
  <2>4. DOMAIN segments \subseteq DOMAIN segments'
    BY <2>1
  <2> QED
    BY <2>3, <2>4, GrowingKeeps
<1> QED
  BY <1>4, <1>5 DEF AppendRecord, r

LEMMA SyncKeeps == IInv /\ Sync => Readable \subseteq Readable'
<1> SUFFICES ASSUME IInv, Sync PROVE Readable \subseteq Readable'
  OBVIOUS
<1>1. PICK i \in DOMAIN segments : segments' = [segments EXCEPT ![i] = Flushed(@)]
  BY DEF Sync
<1>2. segments[i].disk \subseteq Flushed(segments[i]).disk
  BY FlushedSegment DEF IInv, TypeOK
<1> QED
  BY <1>1, <1>2, GrowingKeeps DEF IInv, TypeOK

LEMMA DownKeeps ==
    ASSUME NEW whole \in BOOLEAN
    PROVE  IInv /\ (Close \/ Crash(whole)) => Readable \subseteq Readable'
<1> SUFFICES ASSUME IInv, Close \/ Crash(whole) PROVE Readable \subseteq Readable'
  OBVIOUS
<1>1. \A i \in DOMAIN segments : /\ segments[i].disk \subseteq Flushed(segments[i]).disk
                                 /\ segments[i].disk \subseteq Crashed(segments[i], whole).disk
  BY FlushedSegment, CrashedSegment DEF IInv, TypeOK
<1> QED
  BY <1>1, GrowingKeeps DEF Close, Crash

\* A truncation up to n, interrupted or not, only takes records up to n.
LEMMA TruncateToKeepsAbove ==
    ASSUME NEW n \in Int, IInv, TruncateTo(n), NEW r \in Readable, r.seq > n
    PROVE  r \in Readable'
<1>1. PICK i \in DOMAIN segments : r \in segments[i].disk
  BY DEF Readable
<1>2. /\ segments[i] \in Segment
      /\ r.seq \in Int /\ segments[i].last \in Int /\ r.seq <= segments[i].last
  BY <1>1, HeldRecords, SegmentFields DEF IInv, TypeOK, Held, TruncateTo
<1>3. i \notin UpTo(n)
  BY <1>2 DEF UpTo
<1>4. segments'[i] = (IF Highest(i, DOMAIN segments \ UpTo(n))
                      THEN Rewritten(segments[i], n) ELSE segments[i])
  BY <1>3 DEF TruncateTo
<1>5. r \in segments'[i].disk
  BY <1>1, <1>2, <1>4, RewrittenSegment
<1>6. i \in DOMAIN segments'
  BY <1>3 DEF TruncateTo
<1> QED
  BY <1>5, <1>6 DEF Readable

LEMMA CrashInTruncateToKeepsAbove ==
    ASSUME NEW n \in Int, NEW gone, NEW reached, IInv, CrashInTruncateTo(n, gone, reached),
           NEW r \in Readable, r.seq > n
    PROVE  r \in Readable'
<1>1. PICK i \in DOMAIN segments : r \in segments[i].disk
  BY DEF Readable
<1>2. /\ segments[i] \in Segment
      /\ r.seq \in Int /\ segments[i].last \in Int /\ r.seq <= segments[i].last
  BY <1>1, HeldRecords, SegmentFields DEF IInv, TypeOK, Held, CrashInTruncateTo
<1>3. i \notin gone
  BY <1>2 DEF CrashInTruncateTo, UpTo
<1>4. /\ i \in DOMAIN segments'
      /\ segments'[i] \in {Crashed(segments[i], FALSE), Flushed(segments[i]),
                           Rewritten(segments[i], n)}
  BY <1>3 DEF CrashInTruncateTo
<1>5. r \in segments'[i].disk
  BY <1>1, <1>2, <1>4, InterruptedSegment
<1> QED
  BY <1>4, <1>5 DEF Readable

LEMMA TruncateBeforeKeepsFrom ==
    ASSUME NEW n \in Int, IInv, TruncateBefore(n), NEW r \in Readable, r.seq >= n
    PROVE  r \in Readable'
<1>1. PICK i \in DOMAIN segments : r \in segments[i].disk
  BY DEF Readable
<1>2. r.seq \in Int /\ segments[i].last \in Int /\ r.seq <= segments[i].last
  BY <1>1, HeldRecords, SegmentFields DEF IInv, TypeOK, Held, TruncateBefore
<1>3. i \notin Below(n)
  BY <1>2 DEF Below
<1>4. i \in DOMAIN segments' /\ segments'[i] = segments[i]
  BY <1>3 DEF TruncateBefore, Without
<1> QED
  BY <1>1, <1>4 DEF Readable

\* A readable record is lost only by a truncation up to its own number
\* (DurableUntilTruncated).
THEOREM DurabilityHolds == Spec => DurableUntilTruncated
<1> DEFINE Truncates(n) ==
        \/ TruncateTo(n)
        \/ TruncateBefore(n + 1)
        \/ \E gone \in SUBSET DOMAIN segments, reached \in {"unlink", "flush", "rename"} :
               CrashInTruncateTo(n, gone, reached)
<1> DEFINE Durable == \A r \in Readable \ Readable' : \E n \in r.seq..MaxSeq : Truncates(n)
<1>1. IInv /\ [Next]_vars => [Durable]_vars
  <2> SUFFICES ASSUME IInv, Next PROVE Durable
    OBVIOUS
  <2>1. nextSeq \in 0..MaxSeq
    BY DEF IInv, TypeOK
  <2>2. \A r \in Readable : r.seq \in Nat
    BY HeldRecords DEF Readable, IInv, TypeOK, Held
  <2>3. CASE Readable \subseteq Readable'
    BY <2>3
  <2>4. ASSUME NEW n \in 0..(nextSeq - 1), TruncateTo(n) PROVE Durable
    <3>1. n \in 0..MaxSeq
      BY <2>1, ConstantsAssumption
    <3>2. \A r \in Readable \ Readable' : r.seq <= n
      BY <2>2, <2>4, TruncateToKeepsAbove
    <3>3. \A r \in Readable \ Readable' : n \in r.seq..MaxSeq
      BY <2>2, <3>1, <3>2
    <3> QED
      BY <2>4, <3>3
  <2>5. ASSUME NEW n \in 0..nextSeq, TruncateBefore(n) PROVE Durable
    <3>1. n - 1 \in Int /\ n - 1 <= MaxSeq /\ (n - 1) + 1 = n
      BY <2>1, ConstantsAssumption
    <3>2. \A r \in Readable \ Readable' : r.seq < n
      BY <2>2, <2>5, TruncateBeforeKeepsFrom
    <3>3. \A r \in Readable \ Readable' : n - 1 \in r.seq..MaxSeq
      BY <2>1, <2>2, <3>2, ConstantsAssumption
    <3>4. Truncates(n - 1)
      BY <2>5, <3>1
    <3> QED
      BY <3>3, <3>4
  <2>6. ASSUME NEW n \in 0..(nextSeq - 1), NEW gone \in SUBSET DOMAIN segments,
               NEW reached \in {"unlink", "flush", "rename"},
               CrashInTruncateTo(n, gone, reached)
        PROVE  Durable
    <3>1. n \in 0..MaxSeq
      BY <2>1, ConstantsAssumption
    <3>2. \A r \in Readable \ Readable' : r.seq <= n
      BY <2>2, <2>6, CrashInTruncateToKeepsAbove
    <3>3. \A r \in Readable \ Readable' : n \in r.seq..MaxSeq
      BY <2>2, <3>1, <3>2
    <3> QED
      BY <2>6, <3>3
  <2>7. ASSUME NEW n, SetReplayStart(n) PROVE Readable \subseteq Readable'
    BY <2>7 DEF SetReplayStart, Readable
  <2> HIDE DEF Durable
  <2> QED
    BY <2>3, <2>4, <2>5, <2>6, <2>7, OpenKeeps, AppendKeeps, SyncKeeps, DownKeeps DEF Next
<1> QED
  BY <1>1, Inductive, PTL DEF Spec, DurableUntilTruncated
=============================================================================
