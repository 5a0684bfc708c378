----------------------------- MODULE ReadsProofs -----------------------------
(***************************************************************************)
(* Proofs about Reads.tla and the memtable under it, for any samples,      *)
(* thresholds, numbers of readers and of flushes.                          *)
(***************************************************************************)
EXTENDS Reads, FiniteSetTheorems, FunctionTheorems, SequenceTheorems, WellFoundedInduction, TLAPS

-----------------------------------------------------------------------------
(* Binary search. *)

\* A set of positions that is closed downwards is an interval, as long as it
\* has members.
LEMMA ClosedIsInterval ==
    ASSUME NEW n \in Nat, NEW D \in SUBSET (1..n), \A i \in D : \A j \in 1..i : j \in D
    PROVE  Cardinality(D) \in 0..n /\ D = 1..Cardinality(D)
<1> DEFINE Out == {k \in Nat : k + 1 \notin D}
<1>1. n \in Out
  OBVIOUS
<1>2. PICK k \in Out : \A m \in Out : k <= m
  <2>1. IsWellFoundedOn(OpToRel(<, Nat), Nat)
    BY NatLessThanWellFounded
  <2>2. PICK x \in Out : \A y \in Out : <<y, x>> \notin OpToRel(<, Nat)
    BY <1>1, <2>1, WFMin
  <2>3. \A y \in Out : ~(y < x)
    BY <2>2 DEF OpToRel
  <2> QED
    BY <2>3
<1>3. k \in 0..n
  BY <1>1, <1>2
<1>4. ASSUME NEW i \in D PROVE i \in 1..k
  <2>1. i \in 1..n
    OBVIOUS
  <2>2. ASSUME i > k PROVE FALSE
    <3>1. k + 1 \in 1..i
      BY <1>2, <2>1, <2>2
    <3> QED
      BY <1>2, <3>1
  <2> QED
    BY <1>3, <2>1, <2>2
<1>5. ASSUME NEW i \in 1..k PROVE i \in D
  <2>1. i - 1 \in Nat /\ i - 1 < k /\ (i - 1) + 1 = i
    BY <1>3
  <2>2. i - 1 \notin Out
    BY <1>2, <1>3, <2>1
  <2> QED
    BY <2>1, <2>2
<1>6. D = 1..k
  BY <1>4, <1>5
<1>7. Cardinality(D) = k
  BY <1>3, <1>6, FS_Interval
<1> QED
  BY <1>3, <1>6, <1>7

\* What sort.Search relies on and returns: of points in order, those before t
\* come first, and Search is their number.
LEMMA SearchFinds ==
    ASSUME NEW pts \in Seq(Cell), Ascending(pts), NEW t \in Int
    PROVE  /\ Search(pts, t) \in 0..Len(pts)
           /\ \A i \in DOMAIN pts : pts[i].ts < t <=> i <= Search(pts, t)
<1> DEFINE D == {i \in DOMAIN pts : pts[i].ts < t}
<1>1. /\ Len(pts) \in Nat /\ DOMAIN pts = 1..Len(pts)
      /\ \A i \in DOMAIN pts : pts[i].ts \in Int
  <2>1. \A i \in DOMAIN pts : pts[i] \in Cell
    OBVIOUS
  <2> QED
    BY <2>1 DEF Cell
<1>2. ASSUME NEW i \in D, NEW j \in 1..i PROVE j \in D
  <2>1. i \in DOMAIN pts /\ j \in DOMAIN pts
    BY <1>1
  <2>2. j = i \/ pts[j].ts < pts[i].ts
    BY <1>1, <2>1 DEF Ascending
  <2> QED
    BY <1>1, <2>1, <2>2
<1>3. D \in SUBSET (1..Len(pts))
  BY <1>1
<1> HIDE DEF D
<1>4. Cardinality(D) \in 0..Len(pts) /\ D = 1..Cardinality(D)
  BY <1>1, <1>2, <1>3, ClosedIsInterval
<1>5. Search(pts, t) = Cardinality(D)
  BY DEF Search, D
<1>6. ASSUME NEW i \in DOMAIN pts PROVE pts[i].ts < t <=> i <= Cardinality(D)
  <2>1. pts[i].ts < t <=> i \in D
    BY DEF D
  <2>2. i \in 1..Len(pts)
    BY <1>1
  <2> QED
    BY <1>1, <1>4, <2>1, <2>2
<1> QED
  BY <1>4, <1>5, <1>6

-----------------------------------------------------------------------------
(* The slice of a series. *)

\* The sequence with p behind its first k members.
Inserts(new, s, k, p) ==
    /\ new \in Seq(Cell) /\ Len(new) = Len(s) + 1
    /\ \A i \in 1..(Len(s) + 1) :
           new[i] = IF i <= k THEN s[i] ELSE IF i = k + 1 THEN p ELSE s[i - 1]

\* append and copy.
LEMMA InsertedShape ==
    ASSUME NEW s \in Seq(Cell), NEW k \in 0..Len(s), NEW p \in Cell
    PROVE  Inserts(InsertAt(s, k + 1, p), s, k, p)
<1> DEFINE new == InsertAt(s, k + 1, p)
           n == Len(s)
           a == SubSeq(s, 1, k)
           b == SubSeq(s, k + 1, n)
           c == a \o <<p>>
<1>1. n \in Nat /\ k \in Nat /\ k <= n /\ \A i \in 1..n : s[i] \in Cell
  OBVIOUS
<1>2. /\ a \in Seq(Cell) /\ Len(a) = k /\ \A i \in 1..k : a[i] = s[i]
  <2>1. \A i \in 1..k : s[i] \in Cell
    BY <1>1
  <2> QED
    BY <1>1, <2>1, SubSeqProperties
<1>3. b \in Seq(Cell) /\ Len(b) = n - k /\ \A i \in 1..(n - k) : b[i] = s[k + i]
  <2>1. \A i \in (k + 1)..n : s[i] \in Cell
    BY <1>1
  <2>2. /\ b \in Seq(Cell) /\ Len(b) = (IF k + 1 <= n THEN n - (k + 1) + 1 ELSE 0)
        /\ \A i \in 1..(n - (k + 1) + 1) : b[i] = s[(k + 1) + i - 1]
    BY <1>1, <2>1, SubSeqProperties
  <2> QED
    BY <1>1, <2>2
<1>4. <<p>> \in Seq(Cell) /\ Len(<<p>>) = 1 /\ <<p>>[1] = p
  OBVIOUS
<1>5. new = c \o b
  <2>1. (k + 1) - 1 = k
    BY <1>1
  <2> QED
    BY <2>1 DEF InsertAt
<1> HIDE DEF a, b
<1>6. /\ c \in Seq(Cell) /\ Len(c) = k + 1
      /\ \A i \in 1..(k + 1) : c[i] = IF i <= k THEN a[i] ELSE <<p>>[i - k]
  BY <1>1, <1>2, <1>4, ConcatProperties
<1> HIDE DEF c, new
<1>7. /\ new \in Seq(Cell) /\ Len(new) = n + 1
      /\ \A i \in 1..(n + 1) : new[i] = IF i <= k + 1 THEN c[i] ELSE b[i - (k + 1)]
  <2>1. Len(c) + Len(b) = n + 1
    BY <1>1, <1>3, <1>6
  <2>2. /\ new \in Seq(Cell) /\ Len(new) = Len(c) + Len(b)
        /\ \A i \in 1..(Len(c) + Len(b)) : new[i] = IF i <= Len(c) THEN c[i] ELSE b[i - Len(c)]
    <3>1. c \in Seq(Cell) /\ b \in Seq(Cell)
      BY <1>3, <1>6
    <3> QED
      BY <1>5, <3>1, ConcatProperties
  <2>3. Len(c) = k + 1
    BY <1>6
  <2> HIDE DEF n
  <2> QED
    BY <2>1, <2>2, <2>3
<1>8. ASSUME NEW i \in 1..(n + 1)
      PROVE  new[i] = IF i <= k THEN s[i] ELSE IF i = k + 1 THEN p ELSE s[i - 1]
  <2>1. CASE i <= k
    BY <1>1, <1>2, <1>6, <1>7, <2>1
  <2>2. CASE i = k + 1
    BY <1>1, <1>4, <1>6, <1>7, <2>2
  <2>3. CASE i > k + 1
    <3>1. /\ i - (k + 1) \in 1..(n - k) /\ k + (i - (k + 1)) = i - 1
          /\ ~(i <= k) /\ i # k + 1 /\ ~(i <= k + 1)
      BY <1>1, <2>3
    <3>2. new[i] = b[i - (k + 1)]
      BY <1>7, <3>1
    <3>3. b[i - (k + 1)] = s[k + (i - (k + 1))]
      BY <1>3, <3>1
    <3> QED
      BY <3>1, <3>2, <3>3
  <2> QED
    BY <1>1, <2>1, <2>2, <2>3
<1> QED
  BY <1>7, <1>8 DEF Inserts, new

\* Min and Max of two numbers.
LEMMA TwoBounds ==
    ASSUME NEW a \in Int, NEW b \in Int
    PROVE  Min({a, b}) = (IF a <= b THEN a ELSE b) /\ Max({a, b}) = (IF a >= b THEN a ELSE b)
<1> DEFINE lo == IF a <= b THEN a ELSE b
           hi == IF a >= b THEN a ELSE b
<1>1. lo \in {a, b} /\ \A y \in {a, b} : lo <= y
  OBVIOUS
<1>2. hi \in {a, b} /\ \A y \in {a, b} : hi >= y
  OBVIOUS
<1>3. lo \in Int /\ hi \in Int
  OBVIOUS
<1> HIDE DEF lo, hi
<1>4. Min({a, b}) \in {a, b} /\ \A y \in {a, b} : Min({a, b}) <= y
  BY <1>1 DEF Min
<1>5. Max({a, b}) \in {a, b} /\ \A y \in {a, b} : Max({a, b}) >= y
  BY <1>2 DEF Max
<1> QED
  BY <1>4, <1>5 DEF lo, hi

\* The first and the last timestamp after a write of t.
Ends(new, s, t) ==
    /\ Len(new) >= 1
    /\ new[1].ts = (IF Len(s) = 0 \/ t < s[1].ts THEN t ELSE s[1].ts)
    /\ new[Len(new)].ts = (IF Len(s) = 0 \/ t > s[Len(s)].ts THEN t ELSE s[Len(s)].ts)

LEMMA CellTimes ==
    ASSUME NEW s \in Seq(Cell)
    PROVE  /\ Len(s) \in Nat /\ DOMAIN s = 1..Len(s)
           /\ \A i \in 1..Len(s) : s[i] \in Cell /\ s[i].ts \in Int
<1>1. Len(s) \in Nat /\ DOMAIN s = 1..Len(s) /\ \A i \in 1..Len(s) : s[i] \in Cell
  OBVIOUS
<1> QED
  BY <1>1 DEF Cell

\* A point with a timestamp of its own goes between those before and after it.
LEMMA InsertKeepsOrder ==
    ASSUME NEW s \in Seq(Cell), Ascending(s), NEW p \in Cell, p.ts \notin TSof(s),
           NEW new, new = InsertAt(s, Search(s, p.ts) + 1, p)
    PROVE  /\ new \in Seq(Cell) /\ Len(new) = Len(s) + 1
           /\ Ascending(new) /\ TSof(new) \subseteq TSof(s) \cup {p.ts} /\ Ends(new, s, p.ts)
<1> DEFINE n == Len(s)
           k == Search(s, p.ts)
           t == p.ts
<1>1. t \in Int
  BY DEF Cell
<1>2. n \in Nat /\ DOMAIN s = 1..n /\ \A i \in 1..n : s[i] \in Cell /\ s[i].ts \in Int
  BY CellTimes
<1>3. k \in 0..n /\ \A i \in 1..n : s[i].ts < t <=> i <= k
  BY <1>1, <1>2, SearchFinds
<1>4. \A i \in 1..n : s[i].ts # t
  BY <1>2 DEF TSof
<1>5. /\ new \in Seq(Cell) /\ Len(new) = n + 1
      /\ \A i \in 1..k : new[i] = s[i]
      /\ new[k + 1] = p
      /\ \A i \in (k + 2)..(n + 1) : new[i] = s[i - 1]
  <2>1. k \in 0..Len(s) /\ new = InsertAt(s, k + 1, p)
    BY <1>3
  <2> HIDE DEF k
  <2>2. /\ new \in Seq(Cell) /\ Len(new) = Len(s) + 1
        /\ \A i \in 1..(Len(s) + 1) :
               new[i] = IF i <= k THEN s[i] ELSE IF i = k + 1 THEN p ELSE s[i - 1]
    <3>1. Inserts(new, s, k, p)
      BY <2>1, InsertedShape
    <3> QED
      BY <3>1 DEF Inserts
  <2>3. \A i \in 1..k : i \in 1..(n + 1) /\ i <= k
    BY <1>2, <2>1
  <2>4. k + 1 \in 1..(n + 1) /\ ~(k + 1 <= k)
    BY <1>2, <2>1
  <2>5. \A i \in (k + 2)..(n + 1) : i \in 1..(n + 1) /\ ~(i <= k) /\ i # k + 1
    BY <1>2, <2>1
  <2> QED
    BY <2>2, <2>3, <2>4, <2>5
<1>6. DOMAIN new = 1..(n + 1) /\ \A i \in 1..(n + 1) : new[i].ts \in Int
  BY <1>5, CellTimes
<1>7. \A i, j \in 1..n : i < j => s[i].ts < s[j].ts
  BY <1>2 DEF Ascending
<1> HIDE DEF n, k, t
<1>8. \A i \in 1..(n + 1) : \/ i \in 1..k /\ i \in 1..n /\ new[i] = s[i] /\ s[i].ts < t
                            \/ i = k + 1 /\ new[i].ts = t
                            \/ i \in (k + 2)..(n + 1) /\ i - 1 \in 1..n /\ new[i] = s[i - 1]
                               /\ s[i - 1].ts > t
  <2> TAKE i \in 1..(n + 1)
  <2>1. CASE i <= k
    BY <1>2, <1>3, <1>5, <2>1
  <2>2. CASE i = k + 1
    BY <1>5, <2>2 DEF t
  <2>3. CASE i > k + 1
    <3>1. i \in (k + 2)..(n + 1) /\ i - 1 \in 1..n /\ i - 1 > k
      BY <1>2, <1>3, <2>3
    <3> QED
      BY <1>1, <1>2, <1>3, <1>4, <1>5, <3>1 DEF t
  <2> QED
    BY <1>2, <1>3, <2>1, <2>2, <2>3
<1>9. Ascending(new)
  <2> SUFFICES ASSUME NEW i \in 1..(n + 1), NEW j \in 1..(n + 1), i < j
               PROVE  new[i].ts < new[j].ts
    BY <1>6 DEF Ascending
  <2>1. CASE i \in 1..k /\ j \in 1..k
    <3>1. i \in 1..n /\ j \in 1..n /\ new[i] = s[i] /\ new[j] = s[j]
      BY <1>2, <1>3, <1>5, <2>1
    <3> QED
      BY <1>7, <3>1
  <2>2. CASE i \in (k + 2)..(n + 1) /\ j \in (k + 2)..(n + 1)
    <3>1. i - 1 \in 1..n /\ j - 1 \in 1..n /\ i - 1 < j - 1
      BY <1>2, <1>3, <2>2
    <3>2. new[i] = s[i - 1] /\ new[j] = s[j - 1]
      BY <1>5, <2>2
    <3> QED
      BY <1>7, <3>1, <3>2
  <2>3. CASE i \in 1..(k + 1) /\ j \in (k + 1)..(n + 1)
    <3>1. new[i].ts < t \/ (i = k + 1 /\ new[i].ts = t)
      BY <1>2, <1>3, <1>8, <2>3
    <3>2. new[j].ts > t \/ (j = k + 1 /\ new[j].ts = t)
      BY <1>2, <1>3, <1>8, <2>3
    <3> QED
      BY <1>1, <1>6, <3>1, <3>2
  <2> QED
    BY <1>2, <1>3, <2>1, <2>2, <2>3
<1>10. TSof(new) \subseteq TSof(s) \cup {t}
  <2>1. TSof(new) = {new[i].ts : i \in 1..(n + 1)} /\ \A j \in 1..n : s[j].ts \in TSof(s)
    BY <1>2, <1>6 DEF TSof
  <2>2. \A i \in 1..(n + 1) : new[i].ts \in TSof(s) \cup {t}
    BY <1>8, <2>1
  <2> QED
    BY <2>1, <2>2
<1>11. Ends(new, s, t)
  <2>1. 1 \in 1..(n + 1) /\ n + 1 \in 1..(n + 1) /\ (n # 0 => 1 \in 1..n /\ n \in 1..n)
    BY <1>2
  <2>2. new[1].ts = (IF n = 0 \/ t < s[1].ts THEN t ELSE s[1].ts)
    <3>1. CASE k = 0
      BY <1>1, <1>2, <1>3, <1>4, <1>5, <2>1, <3>1 DEF t
    <3>2. CASE k # 0
      BY <1>1, <1>2, <1>3, <1>5, <2>1, <3>2
    <3> QED
      BY <3>1, <3>2
  <2>3. new[n + 1].ts = (IF n = 0 \/ t > s[n].ts THEN t ELSE s[n].ts)
    <3>1. CASE k = n
      BY <1>1, <1>2, <1>3, <1>5, <2>1, <3>1 DEF t
    <3>2. CASE k # n
      <4>1. n + 1 \in (k + 2)..(n + 1) /\ (n + 1) - 1 = n
        BY <1>2, <1>3, <3>2
      <4>2. ~(n <= k) /\ n # 0
        BY <1>2, <1>3, <3>2
      <4> QED
        BY <1>1, <1>2, <1>3, <1>5, <2>1, <4>1, <4>2
    <3> QED
      BY <3>1, <3>2
  <2> QED
    BY <1>2, <1>5, <2>2, <2>3 DEF Ends, n
<1> QED
  BY <1>5, <1>9, <1>10, <1>11 DEF n, t

\* A point with a timestamp that is there takes the place of the old one.
LEMMA ReplaceKeepsOrder ==
    ASSUME NEW s \in Seq(Cell), Ascending(s), NEW p \in Cell, p.ts \in TSof(s),
           NEW new, new = ReplaceAt(s, Search(s, p.ts) + 1, p)
    PROVE  /\ new \in Seq(Cell) /\ Len(new) = Len(s)
           /\ \A j \in 1..Len(s) : new[j].ts = s[j].ts /\ new[j] \in {p, s[j]}
           /\ Ascending(new) /\ TSof(new) \subseteq TSof(s) \cup {p.ts} /\ Ends(new, s, p.ts)
<1> DEFINE n == Len(s)
           k == Search(s, p.ts)
           t == p.ts
<1>1. t \in Int
  BY DEF Cell
<1>2. n \in Nat /\ DOMAIN s = 1..n /\ \A i \in 1..n : s[i] \in Cell /\ s[i].ts \in Int
  BY CellTimes
<1>3. k \in 0..n /\ \A i \in 1..n : s[i].ts < t <=> i <= k
  BY <1>1, <1>2, SearchFinds
<1>4. PICK m \in 1..n : s[m].ts = t
  BY <1>2 DEF TSof
<1>5. \A i, j \in 1..n : i < j => s[i].ts < s[j].ts
  BY <1>2 DEF Ascending
<1> HIDE DEF n, k, t
<1>6. k + 1 \in 1..n /\ s[k + 1].ts = t
  <2>1. m > k
    BY <1>1, <1>2, <1>3, <1>4
  <2>2. k + 1 \in 1..n /\ k + 1 <= m /\ ~(k + 1 <= k)
    BY <1>2, <1>3, <2>1
  <2>3. s[k + 1].ts >= t
    BY <1>1, <1>2, <1>3, <2>2
  <2>4. k + 1 = m \/ s[k + 1].ts < s[m].ts
    BY <1>2, <1>3, <1>5, <2>2
  <2> QED
    BY <1>1, <1>2, <1>4, <2>2, <2>3, <2>4
<1>7. /\ new \in Seq(Cell) /\ Len(new) = n
      /\ \A j \in 1..n : new[j] = IF j = k + 1 THEN p ELSE s[j]
  <2>1. new = [s EXCEPT ![k + 1] = p]
    BY DEF ReplaceAt, k
  <2>2. k + 1 \in 1..Len(s)
    BY <1>6 DEF n
  <2> QED
    BY <2>1, <2>2, ExceptSeq DEF n
<1>8. DOMAIN new = 1..n /\ \A j \in 1..n : new[j].ts = s[j].ts
  BY <1>6, <1>7, CellTimes DEF t
<1>9. Ascending(new)
  <2>1. \A i, j \in 1..n : i < j => new[i].ts < new[j].ts
    BY <1>5, <1>8
  <2> QED
    BY <1>8, <2>1 DEF Ascending
<1>10. TSof(new) \subseteq TSof(s) \cup {t}
  BY <1>2, <1>8 DEF TSof
<1>11. Ends(new, s, t)
  <2>1. 1 \in 1..n /\ n \in 1..n /\ n # 0
    BY <1>2, <1>6
  <2>2. s[1].ts <= t /\ t <= s[n].ts
    <3>1. 1 = m \/ s[1].ts < s[m].ts
      BY <1>2, <1>5, <2>1
    <3>2. n = m \/ s[m].ts < s[n].ts
      BY <1>2, <1>5, <2>1
    <3> QED
      BY <1>1, <1>2, <1>4, <2>1, <3>1, <3>2
  <2>3. new[1].ts = s[1].ts /\ new[n].ts = s[n].ts /\ s[1].ts \in Int /\ s[n].ts \in Int
    BY <1>2, <1>8, <2>1
  <2>4. ~(t < s[1].ts) /\ ~(t > s[n].ts)
    BY <1>1, <2>2, <2>3
  <2> QED
    BY <1>2, <1>7, <2>1, <2>3, <2>4 DEF Ends, n
<1> QED
  BY <1>7, <1>8, <1>9, <1>10, <1>11 DEF n, t

-----------------------------------------------------------------------------
(* The tables: the live slice, the flush and the blocks. *)

LEMMA SampleCells == Sample \subseteq Cell
  BY MemtableConstants DEF Cell

LEMMA InitTables == Init => TablesIInv
  BY ReadsConstants DEF Init, MemInit, TablesIInv, TSof, Ascending, KeptInOrder, BufferBounded

\* What a write makes of the slice, the span and the array.
LEMMA WriteSlice ==
    ASSUME TablesIInv, NEW p \in Sample, MemWrite(p)
    PROVE  /\ slice' \in Seq(Cell) /\ capacity' \in Nat /\ Len(slice') <= capacity'
           /\ Len(slice') <= Len(slice) + 1
           /\ Ascending(slice') /\ TSof(slice') \subseteq TSof(slice) \cup {p.ts}
           /\ Ends(slice', slice, p.ts)
<1>1. /\ slice \in Seq(Cell) /\ Len(slice) \in Nat /\ capacity \in Nat /\ Len(slice) <= capacity
      /\ Ascending(slice) /\ p \in Cell
  BY SampleCells DEF TablesIInv, KeptInOrder
<1>2. CASE Overwrites(p)
  <2>1. slice' = ReplaceAt(slice, Search(slice, p.ts) + 1, p) /\ capacity' = capacity
        /\ p.ts \in TSof(slice)
    BY <1>2 DEF MemWrite, Overwrite, Overwrites, Replaced, Position
  <2>2. /\ slice' \in Seq(Cell) /\ Len(slice') = Len(slice)
        /\ Ascending(slice') /\ TSof(slice') \subseteq TSof(slice) \cup {p.ts}
        /\ Ends(slice', slice, p.ts)
    BY <1>1, <2>1, ReplaceKeepsOrder
  <2> QED
    BY <1>1, <2>1, <2>2
<1>3. CASE ~Overwrites(p)
  <2>1. slice' = InsertAt(slice, Search(slice, p.ts) + 1, p) /\ p.ts \notin TSof(slice)
    BY <1>3 DEF MemWrite, Insert, Overwrites, Inserted, Position
  <2>2. /\ slice' \in Seq(Cell) /\ Len(slice') = Len(slice) + 1
        /\ Ascending(slice') /\ TSof(slice') \subseteq TSof(slice) \cup {p.ts}
        /\ Ends(slice', slice, p.ts)
    BY <1>1, <2>1, InsertKeepsOrder
  <2>3. \/ Len(slice) < capacity /\ capacity' = capacity
        \/ Len(slice) = capacity /\ capacity' = IF capacity = 0 THEN 1 ELSE 2 * capacity
    BY <1>3 DEF MemWrite, Insert
  <2>4. capacity' \in Nat /\ Len(slice) + 1 <= capacity'
    BY <1>1, <2>3
  <2> QED
    BY <1>1, <2>2, <2>4
<1> QED
  BY <1>2, <1>3

LEMMA WriteTables == ASSUME TablesIInv, NEW p \in Sample, Write(p) PROVE TablesIInv'
<1>1. /\ MemWrite(p) /\ mu = "none" /\ UNCHANGED <<flight, stored>>
      /\ points' = points + 1
      /\ mu' = IF points' >= FlushThreshold THEN "full" ELSE "none"
      /\ span' = IF points = 0 THEN <<p.ts, p.ts>>
                 ELSE <<Min({span[1], p.ts}), Max({span[2], p.ts})>>
  BY DEF Write, MemWrite
<1>2. /\ slice' \in Seq(Cell) /\ capacity' \in Nat /\ Len(slice') <= capacity'
      /\ Len(slice') <= Len(slice) + 1
      /\ Ascending(slice') /\ TSof(slice') \subseteq TSof(slice) \cup {p.ts}
      /\ Ends(slice', slice, p.ts)
  BY <1>1, WriteSlice
<1>3. /\ slice \in Seq(Cell) /\ points \in Nat /\ Len(slice) <= points /\ p \in Cell
      /\ slice = <<>> <=> points = 0
      /\ slice # <<>> => span = <<slice[1].ts, slice[Len(slice)].ts>>
  BY SampleCells DEF TablesIInv, KeptInOrder, BufferBounded
<1>4. /\ slice' # <<>> /\ points' \in Nat /\ points' # 0 /\ Len(slice') \in Nat
      /\ Len(slice') <= points'
  BY <1>1, <1>2, <1>3 DEF Ends
<1>5. span' = <<slice'[1].ts, slice'[Len(slice')].ts>>
  <2>1. p.ts \in Int
    BY <1>3 DEF Cell
  <2>2. CASE points = 0
    <3>1. Len(slice) = 0
      BY <1>3, <2>2
    <3> QED
      BY <1>1, <1>2, <2>2, <3>1 DEF Ends
  <2>3. CASE points # 0
    <3>1. Len(slice) \in Nat /\ Len(slice) # 0
      BY <1>3, <2>3
    <3>2. slice[1].ts \in Int /\ slice[Len(slice)].ts \in Int
      BY <1>3, <3>1, CellTimes
    <3>3. span[1] = slice[1].ts /\ span[2] = slice[Len(slice)].ts
      BY <1>3, <2>3
    <3>4. /\ Min({slice[1].ts, p.ts}) = (IF slice[1].ts <= p.ts THEN slice[1].ts ELSE p.ts)
          /\ Max({slice[Len(slice)].ts, p.ts}) =
                 (IF slice[Len(slice)].ts >= p.ts THEN slice[Len(slice)].ts ELSE p.ts)
      BY <2>1, <3>2, TwoBounds
    <3>5. /\ slice'[1].ts = (IF p.ts < slice[1].ts THEN p.ts ELSE slice[1].ts)
          /\ slice'[Len(slice')].ts =
                 (IF p.ts > slice[Len(slice)].ts THEN p.ts ELSE slice[Len(slice)].ts)
      BY <1>2, <3>1 DEF Ends
    <3>6. /\ Min({slice[1].ts, p.ts}) = slice'[1].ts
          /\ Max({slice[Len(slice)].ts, p.ts}) = slice'[Len(slice')].ts
      BY <2>1, <3>2, <3>4, <3>5
    <3> QED
      BY <1>1, <2>3, <3>3, <3>6
  <2> QED
    BY <2>2, <2>3
<1>6. KeptInOrder'
  BY <1>1, <1>2, <1>5 DEF TablesIInv, KeptInOrder, Ascending
<1>7. BufferBounded'
  BY <1>1, <1>4, ReadsConstants DEF BufferBounded
<1>8. TSof(slice)' \cup TSof(flight)' \subseteq {q.ts : q \in Sample}
  BY <1>1, <1>2 DEF TablesIInv, TSof
<1> QED
  BY <1>1, <1>2, <1>4, <1>6, <1>7, <1>8 DEF TablesIInv, Ascending

LEMMA SwapTables == ASSUME TablesIInv, Swap PROVE TablesIInv'
<1>1. /\ slice' = <<>> /\ capacity' = 0 /\ points' = 0 /\ flight' = slice /\ mu' = "flushing"
      /\ UNCHANGED stored
  BY DEF Swap, MemFlush
<1>2. KeptInOrder' /\ BufferBounded'
  BY <1>1 DEF TablesIInv, KeptInOrder, BufferBounded, Ascending
<1>3. TSof(slice)' \cup TSof(flight)' \subseteq {q.ts : q \in Sample}
  BY <1>1 DEF TablesIInv, TSof
<1> QED
  BY <1>1, <1>2, <1>3 DEF TablesIInv, KeptInOrder, Ascending

LEMMA EndTables == ASSUME TablesIInv, EndFlush PROVE TablesIInv'
<1>1. /\ mu = "flushing" /\ mu' = "none" /\ flight' = <<>>
      /\ stored' = Append(stored, flight) \/ stored' = stored
      /\ UNCHANGED <<slice, capacity, points, span>>
  BY DEF EndFlush
<1>2. /\ stored' \in Seq(Seq(Cell))
      /\ \A i \in DOMAIN stored' : stored'[i] = flight \/ (i \in DOMAIN stored /\ stored'[i] = stored[i])
  <2> DEFINE T == Seq(Cell)
  <2>1. stored \in Seq(T) /\ flight \in T
    BY DEF TablesIInv
  <2> HIDE DEF T
  <2>2. /\ stored' \in Seq(T)
        /\ \A i \in DOMAIN stored' :
               stored'[i] = flight \/ (i \in DOMAIN stored /\ stored'[i] = stored[i])
    BY <1>1, <2>1
  <2> QED
    BY <2>2 DEF T
<1>3. KeptInOrder' /\ Ascending(flight)'
  BY <1>1, <1>2 DEF TablesIInv, KeptInOrder, Ascending
<1>4. BufferBounded'
  BY <1>1, ReadsConstants DEF TablesIInv, BufferBounded
<1>5. TSof(slice)' \cup TSof(flight)' \subseteq {q.ts : q \in Sample}
  BY <1>1 DEF TablesIInv, TSof
<1> QED
  BY <1>1, <1>2, <1>3, <1>4, <1>5 DEF TablesIInv

LEMMA RaceTables == ASSUME NEW r \in Reader, MapRace(r) PROVE TablesIInv'
<1>1. /\ slice' = <<>> /\ capacity' = 0 /\ points' = 0 /\ flight' = <<>> /\ stored' = <<>>
      /\ mu' = "none"
  BY DEF MapRace
<1> QED
  BY <1>1, ReadsConstants DEF TablesIInv, TSof, Ascending, KeptInOrder, BufferBounded

\* Queries change none of them.
LEMMA StillTables ==
    ASSUME TablesIInv, UNCHANGED <<slice, capacity, points, span, mu, flight, stored>>
    PROVE  TablesIInv'
  BY DEF TablesIInv, TSof, Ascending, KeptInOrder, BufferBounded

-----------------------------------------------------------------------------
(* The references of snapshots. *)

\* The readers that have a snapshot pinned.
Pins(s, g) == {r \in Reader : s[r].at # "idle" /\ s[r].gen = g}

Own(m, n, g) == IF g = n \/ (g = n - 1 /\ m = "flushing") THEN 1 ELSE 0

LEMMA PinsFinite == ASSUME NEW s, NEW g PROVE IsFiniteSet(Pins(s, g)) /\ Cardinality(Pins(s, g)) \in Nat
<1>1. Pins(s, g) \in SUBSET Reader
  BY DEF Pins
<1> QED
  BY <1>1, MemtableConstants, FS_Subset, FS_CardinalityType

LEMMA RefsAre ==
    SnapshotRefs <=> \A g \in DOMAIN refs : refs[g] = Own(mu, gen, g) + Cardinality(Pins(scan, g))
  BY DEF SnapshotRefs, Own, Pins

LEMMA RefsAreNext ==
    SnapshotRefs' <=> \A g \in DOMAIN refs' : refs'[g] = Own(mu', gen', g) + Cardinality(Pins(scan', g))
  BY DEF SnapshotRefs, Own, Pins

\* A scan as the invariant sees it.
Scans(s, q, n) ==
    /\ {"at", "gen"} \subseteq DOMAIN s /\ "at" \in DOMAIN q
    /\ s.at \in {"idle"} \cup Pinned
    /\ s.at # "idle" => s.gen \in 1..n
    /\ s.at # "idle" <=> q.at = "mem"

LEMMA PinsIs ==
    PinsIInv <=> /\ gen \in 1..(MaxFlushes + 1)
                 /\ refs \in Seq(Nat) /\ Len(refs) = gen
                 /\ mu = "flushing" => gen > 1
                 /\ DOMAIN scan = Reader /\ DOMAIN query = Reader
                 /\ \A r \in Reader : Scans(scan[r], query[r], gen)
                 /\ SnapshotRefs
  BY DEF PinsIInv, Scans

LEMMA PinsIsNext ==
    PinsIInv' <=> /\ gen' \in 1..(MaxFlushes + 1)
                  /\ refs' \in Seq(Nat) /\ Len(refs') = gen'
                  /\ mu' = "flushing" => gen' > 1
                  /\ DOMAIN scan' = Reader /\ DOMAIN query' = Reader
                  /\ \A r \in Reader : Scans(scan'[r], query'[r], gen')
                  /\ SnapshotRefs'
  BY DEF PinsIInv, Scans

\* A scan that keeps its snapshot pinned, or stays idle.
SamePin(s, t) ==
    /\ DOMAIN t = DOMAIN s /\ t.gen = s.gen
    /\ t.at \in {"idle"} \cup Pinned
    /\ t.at = "idle" <=> s.at = "idle"

\* Nothing is pinned or released.
LEMMA StayPins ==
    ASSUME PinsIInv, UNCHANGED <<gen, refs>>, mu' = "flushing" <=> mu = "flushing",
           DOMAIN scan' = Reader, DOMAIN query' = Reader,
           \A r \in Reader : /\ SamePin(scan[r], scan'[r])
                             /\ "at" \in DOMAIN query'[r]
                             /\ query'[r].at = "mem" <=> query[r].at = "mem"
    PROVE  PinsIInv'
<1>1. \A g : Pins(scan', g) = Pins(scan, g)
  BY DEF Pins, SamePin
<1>2. \A g : Own(mu', gen', g) = Own(mu, gen, g)
  BY DEF Own
<1>3. SnapshotRefs'
  BY <1>1, <1>2, PinsIs, RefsAre, RefsAreNext
<1>4. \A r \in Reader : Scans(scan'[r], query'[r], gen')
  BY PinsIs DEF Scans, SamePin
<1> QED
  BY <1>3, <1>4, PinsIs, PinsIsNext

\* A reader is done, or panics, and releases its snapshot.
LEMMA ReleasePins ==
    ASSUME PinsIInv, NEW r \in Reader, scan[r].at # "idle",
           scan' = [scan EXCEPT ![r] = NoScan], refs' = Released(refs, scan[r].gen),
           UNCHANGED <<gen, mu>>,
           NEW q, query' = [query EXCEPT ![r] = q], "at" \in DOMAIN q, q.at # "mem"
    PROVE  PinsIInv'
<1> DEFINE g == scan[r].gen
<1>1. /\ gen \in Nat /\ refs \in Seq(Nat) /\ Len(refs) = gen /\ DOMAIN refs = 1..gen /\ g \in 1..gen
      /\ DOMAIN scan = Reader /\ DOMAIN query = Reader
  BY PinsIs DEF Scans
<1>2. Pins(scan', g) = Pins(scan, g) \ {r} /\ r \in Pins(scan, g)
  BY <1>1 DEF Pins, NoScan
<1>3. \A k : k # g => Pins(scan', k) = Pins(scan, k)
  BY <1>1 DEF Pins, NoScan
<1> HIDE DEF g
<1>4. Cardinality(Pins(scan', g)) = Cardinality(Pins(scan, g)) - 1
  BY <1>2, PinsFinite, FS_RemoveElement
<1>5. refs[g] = Own(mu, gen, g) + Cardinality(Pins(scan, g)) /\ refs[g] \in Nat /\ Own(mu, gen, g) \in {0, 1}
  <2>1. refs[g] \in Nat
    BY <1>1
  <2>2. SnapshotRefs
    BY PinsIs
  <2>3. refs[g] = Own(mu, gen, g) + Cardinality(Pins(scan, g))
    BY <1>1, <2>2, RefsAre
  <2> QED
    BY <2>1, <2>3 DEF Own
<1>6. Cardinality(Pins(scan', g)) \in Nat /\ Cardinality(Pins(scan, g)) \in Nat
  BY PinsFinite
<1>7. refs[g] > 0 /\ refs[g] - 1 = Own(mu, gen, g) + Cardinality(Pins(scan', g))
  BY <1>4, <1>5, <1>6
<1>8. refs' = [refs EXCEPT ![g] = refs[g] - 1]
  BY <1>1, <1>7 DEF Released, g
<1>9. /\ refs' \in Seq(Nat) /\ Len(refs') = gen /\ DOMAIN refs' = 1..gen
      /\ refs'[g] = refs[g] - 1 /\ \A k \in 1..gen : k # g => refs'[k] = refs[k]
  BY <1>1, <1>5, <1>7, <1>8
<1>10. \A k \in 1..gen : refs'[k] = Own(mu, gen, k) + Cardinality(Pins(scan', k))
  BY <1>1, <1>3, <1>7, <1>9, PinsIs, RefsAre
<1>11. SnapshotRefs'
  BY <1>9, <1>10, RefsAreNext
<1>12. \A k \in Reader : Scans(scan'[k], query'[k], gen')
  <2> TAKE k \in Reader
  <2>1. CASE k = r
    BY <1>1, <2>1 DEF Scans, NoScan
  <2>2. CASE k # r
    BY <1>1, <2>2, PinsIs
  <2> QED
    BY <2>1, <2>2
<1> QED
  BY <1>1, <1>9, <1>11, <1>12, PinsIs, PinsIsNext

LEMMA InitPins == Init => PinsIInv
<1> SUFFICES ASSUME Init PROVE PinsIInv
  OBVIOUS
<1>1. /\ gen = 1 /\ refs = <<1>> /\ mu = "none"
      /\ scan = [r \in Reader |-> NoScan] /\ query = [r \in Reader |-> NoQuery]
  BY DEF Init, MemInit
<1>2. \A r \in Reader : Scans(scan[r], query[r], gen)
  BY <1>1 DEF Scans, NoScan, NoQuery
<1>3. Pins(scan, 1) = {}
  BY <1>1 DEF Pins, NoScan
<1>4. SnapshotRefs
  BY <1>1, <1>3, FS_EmptySet, RefsAre DEF Own
<1> QED
  BY <1>1, <1>2, <1>4, PinsIs, ReadsConstants

\* What a write or a swap does to a scan is nothing to its snapshot.
LEMMA DetachedPin ==
    ASSUME NEW s, {"at", "gen"} \subseteq DOMAIN s, s.at \in {"idle"} \cup Pinned
    PROVE  SamePin(s, Detached(s))
  BY DEF SamePin, Detached

LEMMA ShiftedPin ==
    ASSUME NEW s, {"at", "gen"} \subseteq DOMAIN s, s.at \in {"idle"} \cup Pinned, NEW new, NEW k
    PROVE  SamePin(s, Shifted(s, new, k))
  BY DEF SamePin, Shifted

LEMMA WritePins == ASSUME PinsIInv, NEW p \in Sample, Write(p) PROVE PinsIInv'
<1>1. /\ MemWrite(p) /\ mu = "none" /\ UNCHANGED <<gen, refs>>
      /\ mu' \in {"full", "none"} /\ query' = Noticed(p)
  BY DEF Write, MemWrite
<1>2. \A r \in Reader : {"at", "gen"} \subseteq DOMAIN scan[r] /\ scan[r].at \in {"idle"} \cup Pinned
                        /\ "at" \in DOMAIN query[r]
  BY PinsIs DEF Scans
<1>3. DOMAIN scan' = Reader /\ \A r \in Reader : SamePin(scan[r], scan'[r])
  <2>1. CASE \E new, k : scan' = [r \in Reader |-> Shifted(scan[r], new, k)]
    BY <1>2, <2>1, ShiftedPin
  <2>2. CASE scan' = [r \in Reader |-> IF scan[r].at = "pinned" THEN scan[r] ELSE Detached(scan[r])]
    <3>1. \A r \in Reader : scan'[r] = scan[r] \/ scan'[r] = Detached(scan[r])
      BY <2>2
    <3>2. \A r \in Reader : SamePin(scan[r], scan[r])
      BY <1>2 DEF SamePin
    <3> QED
      BY <1>2, <2>2, <3>1, <3>2, DetachedPin
  <2> QED
    BY <1>1, <2>1, <2>2 DEF MemWrite, Insert, Overwrite
<1>4. DOMAIN query' = Reader /\ \A r \in Reader : "at" \in DOMAIN query'[r] /\ query'[r].at = query[r].at
  BY <1>1, <1>2 DEF Noticed
<1> QED
  BY <1>1, <1>3, <1>4, StayPins

LEMMA ReadPins == ASSUME PinsIInv, NEW r \in Reader, ReadMap(r) \/ ReadLo(r) \/ ReadHi(r) PROVE PinsIInv'
<1>1. UNCHANGED <<gen, refs, mu, query>>
  BY DEF ReadMap, ReadLo, ReadHi, Lookup, SearchLo, SearchHi
<1>2. DOMAIN scan = Reader /\ DOMAIN query = Reader /\ \A k \in Reader : Scans(scan[k], query[k], gen)
  BY PinsIs
<1>3. /\ scan[r].at \in {"pinned", "looked", "searched"}
      /\ DOMAIN scan' = Reader /\ \A k \in Reader \ {r} : scan'[k] = scan[k]
      /\ DOMAIN scan'[r] = DOMAIN scan[r] /\ scan'[r].gen = scan[r].gen /\ scan'[r].at \in Pinned
  <2>1. {"at", "gen"} \subseteq DOMAIN scan[r]
    BY <1>2 DEF Scans
  <2>2. CASE ReadMap(r)
    BY <1>2, <2>1, <2>2 DEF ReadMap, Lookup, Pinned
  <2>3. CASE ReadLo(r)
    BY <1>2, <2>1, <2>3 DEF ReadLo, SearchLo, Pinned
  <2>4. CASE ReadHi(r)
    BY <1>2, <2>1, <2>4 DEF ReadHi, SearchHi, Pinned
  <2> QED
    BY <2>2, <2>3, <2>4
<1>4. DOMAIN scan' = Reader /\ \A k \in Reader : SamePin(scan[k], scan'[k])
  <2>1. \A k \in Reader : SamePin(scan[k], scan[k])
    BY <1>2 DEF SamePin, Scans
  <2> QED
    BY <1>2, <1>3, <2>1 DEF SamePin, Pinned
<1> QED
  BY <1>1, <1>2, <1>4, StayPins DEF Scans

LEMMA AnswerPins == ASSUME PinsIInv, NEW r \in Reader, Answer(r) \/ Finish(r) PROVE PinsIInv'
<1>1. UNCHANGED <<gen, refs, mu, scan>>
  BY DEF Answer, Finish, memVars
<1>2. DOMAIN scan = Reader /\ DOMAIN query = Reader /\ \A k \in Reader : Scans(scan[k], query[k], gen)
  BY PinsIs
<1>3. /\ query[r].at # "mem"
      /\ DOMAIN query' = Reader /\ \A k \in Reader \ {r} : query'[k] = query[k]
      /\ "at" \in DOMAIN query'[r] /\ query'[r].at # "mem"
  <2>1. "at" \in DOMAIN query[r]
    BY <1>2 DEF Scans
  <2>2. CASE Answer(r)
    BY <1>2, <2>1, <2>2 DEF Answer
  <2>3. CASE Finish(r)
    BY <1>2, <2>3 DEF Finish, NoQuery
  <2> QED
    BY <2>2, <2>3
<1>4. /\ DOMAIN query' = Reader
      /\ \A k \in Reader : "at" \in DOMAIN query'[k] /\ (query'[k].at = "mem" <=> query[k].at = "mem")
  BY <1>2, <1>3 DEF Scans
<1>5. DOMAIN scan' = Reader /\ \A k \in Reader : SamePin(scan[k], scan'[k])
  BY <1>1, <1>2 DEF SamePin, Scans
<1> QED
  BY <1>1, <1>4, <1>5, StayPins

LEMMA GotPins == ASSUME PinsIInv, NEW r \in Reader, GotMem(r) PROVE PinsIInv'
<1>1. /\ scan[r].at = "copying" /\ scan' = [scan EXCEPT ![r] = NoScan]
      /\ refs' = Released(refs, scan[r].gen) /\ UNCHANGED <<gen, mu>>
  BY DEF GotMem, CopyEnd
<1>2. "at" \in DOMAIN query[r]
  BY PinsIs DEF Scans
<1>3. \E q : query' = [query EXCEPT ![r] = q] /\ "at" \in DOMAIN q /\ q.at # "mem"
  <2>1. PICK out : query' = [query EXCEPT ![r] = [@ EXCEPT !.at = "blocks", !.pts = out,
                                                           !.shifts = scan[r].shifts]]
    BY DEF GotMem
  <2> DEFINE q == [query[r] EXCEPT !.at = "blocks", !.pts = out, !.shifts = scan[r].shifts]
  <2>2. query' = [query EXCEPT ![r] = q]
    BY <2>1
  <2>3. "at" \in DOMAIN q /\ q.at # "mem"
    BY <1>2
  <2> QED
    BY <2>2, <2>3
<1> QED
  BY <1>1, <1>3, ReleasePins

LEMMA AbortPins == ASSUME PinsIInv, NEW r \in Reader, Abort(r) PROVE PinsIInv'
<1>1. query' = [query EXCEPT ![r] = NoQuery] /\ UNCHANGED mu /\ "at" \in DOMAIN NoQuery /\ NoQuery.at # "mem"
  BY DEF Abort, NoQuery
<1>2. CASE ScanPanics(r)
  <2>1. /\ scan[r].at # "idle" /\ scan' = [scan EXCEPT ![r] = NoScan]
        /\ refs' = Released(refs, scan[r].gen) /\ UNCHANGED gen
    BY <1>2 DEF ScanPanics
  <2> QED
    BY <1>1, <2>1, ReleasePins
<1>3. CASE query[r].at = "blocks" /\ UNCHANGED memVars
  <2>1. DOMAIN scan = Reader /\ DOMAIN query = Reader /\ \A k \in Reader : Scans(scan[k], query[k], gen)
    BY PinsIs
  <2>2. /\ DOMAIN query' = Reader
        /\ \A k \in Reader : "at" \in DOMAIN query'[k] /\ (query'[k].at = "mem" <=> query[k].at = "mem")
    BY <1>1, <1>3, <2>1 DEF Scans
  <2>3. UNCHANGED <<scan, gen, refs>>
    BY <1>3 DEF memVars
  <2>4. DOMAIN scan' = Reader /\ \A k \in Reader : SamePin(scan[k], scan'[k])
    BY <2>1, <2>3 DEF SamePin, Scans
  <2> QED
    BY <1>1, <2>2, <2>3, <2>4, StayPins
<1> QED
  BY <1>2, <1>3 DEF Abort

LEMMA BeginPins == ASSUME PinsIInv, NEW r \in Reader, NEW rng, Begin(r, rng) PROVE PinsIInv'
<1>1. /\ query[r].at = "idle" /\ scan[r].at = "idle"
      /\ scan' = [scan EXCEPT ![r] = [NoScan EXCEPT !.at = "pinned", !.range = rng, !.gen = gen]]
      /\ refs' = [refs EXCEPT ![gen] = @ + 1] /\ UNCHANGED <<gen, mu>>
      /\ query' = [query EXCEPT ![r] =
                      [NoQuery EXCEPT !.at = "mem", !.range = rng, !.mem = Asked(rng, TSof(slice)),
                                      !.before = Len(stored)]]
  BY DEF Begin, Latest
<1>2. /\ DOMAIN scan = Reader /\ DOMAIN query = Reader /\ \A k \in Reader : Scans(scan[k], query[k], gen)
      /\ gen \in Nat /\ refs \in Seq(Nat) /\ Len(refs) = gen /\ DOMAIN refs = 1..gen /\ gen \in 1..gen
  BY PinsIs
<1>3. /\ DOMAIN scan' = Reader /\ DOMAIN query' = Reader
      /\ \A k \in Reader \ {r} : scan'[k] = scan[k] /\ query'[k] = query[k]
  BY <1>1, <1>2
<1>4. /\ {"at", "gen"} \subseteq DOMAIN scan'[r] /\ scan'[r].at = "pinned" /\ scan'[r].gen = gen
      /\ "at" \in DOMAIN query'[r] /\ query'[r].at = "mem"
  BY <1>1, <1>2 DEF NoScan, NoQuery
<1>5. Pins(scan', gen) = Pins(scan, gen) \cup {r} /\ r \notin Pins(scan, gen)
  BY <1>1, <1>3, <1>4 DEF Pins
<1>6. \A k \in 1..gen : k # gen => Pins(scan', k) = Pins(scan, k)
  BY <1>1, <1>3, <1>4 DEF Pins
<1>7. Cardinality(Pins(scan', gen)) = Cardinality(Pins(scan, gen)) + 1
  BY <1>5, PinsFinite, FS_AddElement
<1>8. /\ refs' \in Seq(Nat) /\ Len(refs') = gen /\ DOMAIN refs' = 1..gen
      /\ refs'[gen] = refs[gen] + 1 /\ \A k \in 1..gen : k # gen => refs'[k] = refs[k]
  BY <1>1, <1>2
<1>9. \A k \in 1..gen : refs'[k] = Own(mu, gen, k) + Cardinality(Pins(scan', k))
  <2> TAKE k \in 1..gen
  <2>1. refs[k] = Own(mu, gen, k) + Cardinality(Pins(scan, k)) /\ Own(mu, gen, k) \in {0, 1}
    BY <1>2, PinsIs, RefsAre DEF Own
  <2>2. Cardinality(Pins(scan, k)) \in Nat
    BY PinsFinite
  <2>3. CASE k = gen
    BY <1>7, <1>8, <2>1, <2>2, <2>3
  <2>4. CASE k # gen
    BY <1>6, <1>8, <2>1, <2>4
  <2> QED
    BY <2>3, <2>4
<1>10. SnapshotRefs'
  BY <1>1, <1>8, <1>9, RefsAreNext
<1>11. \A k \in Reader : Scans(scan'[k], query'[k], gen')
  BY <1>1, <1>2, <1>3, <1>4 DEF Scans, Pinned
<1> QED
  BY <1>1, <1>2, <1>3, <1>8, <1>10, <1>11, PinsIs, PinsIsNext

LEMMA SwapPins == ASSUME PinsIInv, TablesIInv, Swap PROVE PinsIInv'
<1>1. /\ gen <= MaxFlushes /\ mu # "flushing" /\ mu' = "flushing" /\ gen' = gen + 1
      /\ refs' = Append(refs, 1) /\ scan' = [r \in Reader |-> Detached(scan[r])] /\ query' = query
  BY DEF Swap, MemFlush
<1>2. /\ DOMAIN scan = Reader /\ DOMAIN query = Reader /\ \A k \in Reader : Scans(scan[k], query[k], gen)
      /\ gen \in Nat /\ gen >= 1 /\ refs \in Seq(Nat) /\ Len(refs) = gen /\ DOMAIN refs = 1..gen
  BY PinsIs, ReadsConstants
<1>3. DOMAIN scan' = Reader /\ \A r \in Reader : SamePin(scan[r], scan'[r])
  BY <1>1, <1>2, DetachedPin DEF Scans
<1>4. \A r \in Reader : Scans(scan'[r], query'[r], gen')
  <2> TAKE r \in Reader
  <2>1. Scans(scan[r], query[r], gen) /\ SamePin(scan[r], scan'[r]) /\ query'[r] = query[r]
    BY <1>1, <1>2, <1>3
  <2> QED
    BY <1>1, <1>2, <2>1 DEF Scans, SamePin
<1>5. \A k : Pins(scan', k) = Pins(scan, k)
  BY <1>3 DEF Pins, SamePin
<1>6. Pins(scan, gen + 1) = {}
  BY <1>2 DEF Pins, Scans
<1>7. /\ refs' \in Seq(Nat) /\ Len(refs') = gen + 1 /\ DOMAIN refs' = 1..(gen + 1)
      /\ refs'[gen + 1] = 1 /\ \A k \in 1..gen : refs'[k] = refs[k]
  BY <1>1, <1>2
<1>8. \A k \in 1..(gen + 1) : refs'[k] = Own(mu', gen', k) + Cardinality(Pins(scan', k))
  <2> TAKE k \in 1..(gen + 1)
  <2>1. CASE k = gen + 1
    <3>1. Cardinality(Pins(scan', k)) = 0
      BY <1>5, <1>6, <2>1, FS_EmptySet
    <3>2. Own(mu', gen', k) = 1
      BY <1>1, <2>1 DEF Own
    <3> QED
      BY <1>7, <2>1, <3>1, <3>2
  <2>2. CASE k \in 1..gen
    <3>1. Own(mu', gen', k) = Own(mu, gen, k)
      BY <1>1, <1>2, <2>2 DEF Own
    <3> QED
      BY <1>2, <1>5, <1>7, <2>2, <3>1, PinsIs, RefsAre
  <2> QED
    BY <1>2, <2>1, <2>2
<1>9. SnapshotRefs'
  BY <1>7, <1>8, RefsAreNext
<1>10. gen' \in 1..(MaxFlushes + 1) /\ gen' > 1
  BY <1>1, <1>2, ReadsConstants
<1> QED
  BY <1>1, <1>2, <1>3, <1>4, <1>7, <1>9, <1>10, PinsIsNext

LEMMA EndPins == ASSUME PinsIInv, EndFlush PROVE PinsIInv'
<1>1. /\ mu = "flushing" /\ mu' = "none" /\ refs' = Released(refs, gen - 1)
      /\ UNCHANGED <<gen, scan, query>>
  BY DEF EndFlush
<1>2. /\ gen \in Nat /\ gen > 1 /\ refs \in Seq(Nat) /\ Len(refs) = gen /\ DOMAIN refs = 1..gen
      /\ gen - 1 \in 1..gen
  BY <1>1, PinsIs, ReadsConstants
<1>3. refs[gen - 1] = 1 + Cardinality(Pins(scan, gen - 1)) /\ Cardinality(Pins(scan, gen - 1)) \in Nat
  BY <1>1, <1>2, PinsFinite, PinsIs, RefsAre DEF Own
<1>4. refs' = [refs EXCEPT ![gen - 1] = refs[gen - 1] - 1]
  <2> DEFINE g == gen - 1
  <2>1. refs' = Released(refs, g) /\ refs[g] > 0
    BY <1>1, <1>3
  <2> HIDE DEF g
  <2>2. refs' = [refs EXCEPT ![g] = refs[g] - 1]
    BY <2>1 DEF Released
  <2> QED
    BY <2>2 DEF g
<1>5. /\ refs' \in Seq(Nat) /\ Len(refs') = gen /\ DOMAIN refs' = 1..gen
      /\ refs'[gen - 1] = refs[gen - 1] - 1 /\ \A k \in 1..gen : k # gen - 1 => refs'[k] = refs[k]
  BY <1>2, <1>3, <1>4
<1>6. \A k \in 1..gen : refs'[k] = Own(mu', gen, k) + Cardinality(Pins(scan, k))
  <2> TAKE k \in 1..gen
  <2>1. CASE k = gen - 1
    <3>1. Own(mu', gen, k) = 0
      BY <1>1, <1>2, <2>1 DEF Own
    <3> QED
      BY <1>3, <1>5, <2>1, <3>1
  <2>2. CASE k # gen - 1
    <3>1. Own(mu', gen, k) = Own(mu, gen, k)
      BY <1>1, <2>2 DEF Own
    <3> QED
      BY <1>2, <1>5, <2>2, <3>1, PinsIs, RefsAre
  <2> QED
    BY <2>1, <2>2
<1>7. SnapshotRefs'
  BY <1>1, <1>5, <1>6, RefsAreNext
<1> QED
  BY <1>1, <1>2, <1>5, <1>7, PinsIs, PinsIsNext

LEMMA RacePins == ASSUME NEW r \in Reader, MapRace(r) PROVE PinsIInv'
<1>1. /\ gen' = 1 /\ refs' = <<1>> /\ mu' = "none"
      /\ scan' = [q \in Reader |-> NoScan] /\ query' = [q \in Reader |-> NoQuery]
  BY DEF MapRace
<1>2. \A q \in Reader : Scans(scan'[q], query'[q], gen')
  BY <1>1 DEF Scans, NoScan, NoQuery
<1>3. Pins(scan', 1) = {}
  BY <1>1 DEF Pins, NoScan
<1>4. SnapshotRefs'
  BY <1>1, <1>3, FS_EmptySet, RefsAreNext DEF Own
<1> QED
  BY <1>1, <1>2, <1>4, PinsIsNext, ReadsConstants

-----------------------------------------------------------------------------
(* The theorems. *)

LEMMA ReadsStep == ASSUME TablesIInv, PinsIInv, [Next]_vars PROVE TablesIInv' /\ PinsIInv'
<1>1. ASSUME NEW p \in Sample, Write(p) PROVE TablesIInv' /\ PinsIInv'
  BY <1>1, WriteTables, WritePins
<1>2. CASE Swap
  BY <1>2, SwapTables, SwapPins
<1>3. CASE EndFlush
  BY <1>3, EndTables, EndPins
<1>4. ASSUME NEW r \in Reader, NEW rng \in Ranges, Begin(r, rng) PROVE TablesIInv' /\ PinsIInv'
  <2>1. TablesIInv'
    BY <1>4, StillTables DEF Begin, Latest
  <2> QED
    BY <1>4, <2>1, BeginPins
<1>5. ASSUME NEW r \in Reader, ReadMap(r) \/ ReadLo(r) \/ ReadHi(r) PROVE TablesIInv' /\ PinsIInv'
  <2>1. TablesIInv'
    BY <1>5, StillTables DEF ReadMap, ReadLo, ReadHi, Lookup, SearchLo, SearchHi
  <2> QED
    BY <1>5, <2>1, ReadPins
<1>6. ASSUME NEW r \in Reader, GotMem(r) PROVE TablesIInv' /\ PinsIInv'
  <2>1. TablesIInv'
    BY <1>6, StillTables DEF GotMem, CopyEnd
  <2> QED
    BY <1>6, <2>1, GotPins
<1>7. ASSUME NEW r \in Reader, Answer(r) \/ Finish(r) PROVE TablesIInv' /\ PinsIInv'
  <2>1. TablesIInv'
    BY <1>7, StillTables DEF Answer, Finish, memVars
  <2> QED
    BY <1>7, <2>1, AnswerPins
<1>8. ASSUME NEW r \in Reader, Abort(r) PROVE TablesIInv' /\ PinsIInv'
  <2>1. TablesIInv'
    BY <1>8, StillTables DEF Abort, ScanPanics, memVars
  <2> QED
    BY <1>8, <2>1, AbortPins
<1>9. ASSUME NEW r \in Reader, MapRace(r) PROVE TablesIInv' /\ PinsIInv'
  BY <1>9, RaceTables, RacePins
<1>10. CASE UNCHANGED vars
  <2>1. TablesIInv'
    BY <1>10, StillTables DEF vars, memVars
  <2>2. UNCHANGED <<gen, refs, mu, scan, query>>
    BY <1>10 DEF vars, memVars
  <2>3. SnapshotRefs'
    BY <2>2, PinsIs, RefsAre, RefsAreNext
  <2>4. PinsIInv'
    BY <2>2, <2>3, PinsIs, PinsIsNext
  <2> QED
    BY <2>1, <2>4
<1> QED
  BY <1>1, <1>2, <1>3, <1>4, <1>5, <1>6, <1>7, <1>8, <1>9, <1>10 DEF Next

\* The inductive invariant of Reads: tables in order and within the threshold,
\* references as many as there are owners and readers.
THEOREM ReadsInductive == Spec => [](TablesIInv /\ PinsIInv)
<1>1. TablesIInv /\ PinsIInv /\ [Next]_vars => (TablesIInv /\ PinsIInv)'
  BY ReadsStep
<1> QED
  BY <1>1, InitTables, InitPins, PTL DEF Spec

\* The variables of Reads keep their types (ReadsTypeOK).
THEOREM ReadsTypeCorrect == Spec => []ReadsTypeOK
<1>1. TablesIInv /\ PinsIInv => ReadsTypeOK
  BY DEF TablesIInv, PinsIInv, ReadsTypeOK
<1> QED
  BY <1>1, ReadsInductive, PTL

\* Whatever is written, overwritten and flushed, the live slice and the blocks
\* are in the order that the binary searches of a query rely on, and the bounds
\* Stats reports are the ends of the slice (KeptInOrder).
THEOREM InOrderHolds == Spec => []KeptInOrder
<1>1. TablesIInv => KeptInOrder
  BY DEF TablesIInv
<1> QED
  BY <1>1, ReadsInductive, PTL

\* Nobody lets go of in.mu with the table at its threshold (BufferBounded).
THEOREM BoundedHolds == Spec => []BufferBounded
<1>1. TablesIInv => BufferBounded
  BY DEF TablesIInv
<1> QED
  BY <1>1, ReadsInductive, PTL

\* A snapshot has a reference of its owner and one of each reader, through
\* swaps, panics and the process's end (SnapshotRefs).
THEOREM SnapshotRefsHolds == Spec => []SnapshotRefs
<1>1. PinsIInv => SnapshotRefs
  BY DEF PinsIInv
<1> QED
  BY <1>1, ReadsInductive, PTL

-----------------------------------------------------------------------------
(* What a query has collected, and the order it is sorted into. *)

\* The parts of an answer: of the memtable, and of n blocks.
Parts(n) == [0..n -> Seq(Cell)]

LEMMA PlacesAre ==
    ASSUME NEW n \in Nat, NEW parts \in Parts(n), NEW x
    PROVE  /\ x \in Places(parts) <=> \E i \in 0..n : \E k \in 1..Len(parts[i]) : x = <<i, k>>
           /\ x \in Places(parts) => /\ x[1] \in 0..n /\ x[2] \in 1..Len(parts[x[1]])
                                     /\ x = <<x[1], x[2]>> /\ x[1] \in Int /\ x[2] \in Int
                                     /\ PointAt(parts, x) \in Cell /\ PointAt(parts, x).ts \in Int
<1>1. \A i \in 0..n : parts[i] \in Seq(Cell) /\ DOMAIN parts[i] = 1..Len(parts[i]) /\ Len(parts[i]) \in Nat
  BY DEF Parts
<1>2. x \in Places(parts) <=> \E i \in 0..n : \E k \in 1..Len(parts[i]) : x = <<i, k>>
  BY <1>1 DEF Places, Parts
<1>3. ASSUME NEW i \in 0..n, NEW k \in 1..Len(parts[i]), x = <<i, k>>
      PROVE  PointAt(parts, x) \in Cell /\ PointAt(parts, x).ts \in Int
  <2>1. PointAt(parts, x) = parts[i][k]
    BY <1>3 DEF PointAt
  <2>2. parts[i][k] \in Cell
    BY <1>1, <1>3
  <2> QED
    BY <2>1, <2>2 DEF Cell
<1>4. ASSUME NEW i \in 0..n, NEW k \in 1..Len(parts[i]), x = <<i, k>>
      PROVE  /\ x[1] \in 0..n /\ x[2] \in 1..Len(parts[x[1]])
             /\ x = <<x[1], x[2]>> /\ x[1] \in Int /\ x[2] \in Int
  <2>1. x[1] = i /\ x[2] = k /\ Len(parts[i]) \in Nat
    BY <1>1, <1>4
  <2> QED
    BY <1>4, <2>1
<1> QED
  BY <1>2, <1>3, <1>4

LEMMA PlacesFinite ==
    ASSUME NEW n \in Nat, NEW parts \in Parts(n)
    PROVE  IsFiniteSet(Places(parts)) /\ Cardinality(Places(parts)) \in Nat
<1> DEFINE g == [i \in 0..n |-> {i} \X DOMAIN parts[i]]
           T == {g[i] : i \in 0..n}
<1>1. g \in Surjection(0..n, T)
  BY Fun_IsSurj
<1>2. IsFiniteSet(T)
  BY <1>1, FS_Interval, FS_Surjection
<1>3. ASSUME NEW i \in 0..n PROVE IsFiniteSet(g[i])
  <2>1. DOMAIN parts[i] = 1..Len(parts[i]) /\ Len(parts[i]) \in Nat
    BY DEF Parts
  <2>2. IsFiniteSet(DOMAIN parts[i]) /\ IsFiniteSet({i})
    <3>1. \A m \in Nat : IsFiniteSet(1..m)
      BY FS_Interval
    <3> QED
      BY <2>1, <3>1, FS_Singleton
  <2>3. IsFiniteSet({i} \X DOMAIN parts[i])
    BY <2>2, FS_Product
  <2> QED
    BY <2>3
<1>4. Places(parts) = UNION T
  BY DEF Places, Parts
<1>5. \A U \in T : IsFiniteSet(U)
  BY <1>3
<1> HIDE DEF T
<1>6. IsFiniteSet(Places(parts))
  BY <1>2, <1>4, <1>5, FS_UNION
<1> QED
  BY <1>6, FS_CardinalityType

\* Places are in a strict order that leaves no two of them side by side.
LEMMA PrecedesOrders ==
    ASSUME NEW n \in Nat, NEW parts \in Parts(n),
           NEW x \in Places(parts), NEW y \in Places(parts)
    PROVE  /\ ~Precedes(parts, x, x)
           /\ x # y => Precedes(parts, x, y) \/ Precedes(parts, y, x)
           /\ \A z \in Places(parts) :
                  Precedes(parts, z, x) /\ Precedes(parts, x, y) => Precedes(parts, z, y)
<1>1. \A z \in Places(parts) : /\ z = <<z[1], z[2]>> /\ z[1] \in Int /\ z[2] \in Int
                               /\ PointAt(parts, z).ts \in Int
  BY PlacesAre
<1>2. ~Precedes(parts, x, x)
  BY <1>1 DEF Precedes
<1>3. ASSUME x # y PROVE Precedes(parts, x, y) \/ Precedes(parts, y, x)
  <2>1. x[1] # y[1] \/ x[2] # y[2]
    BY <1>1, <1>3
  <2> QED
    BY <1>1, <2>1 DEF Precedes
<1>4. ASSUME NEW z \in Places(parts), Precedes(parts, z, x), Precedes(parts, x, y)
      PROVE  Precedes(parts, z, y)
  BY <1>1, <1>4 DEF Precedes
<1> QED
  BY <1>2, <1>3, <1>4

\* So sorting is a permutation of what was collected.
LEMMA SortedPermutes ==
    ASSUME NEW n \in Nat, NEW parts \in Parts(n)
    PROVE  LET N == Cardinality(Places(parts))
           IN  /\ Sorted(parts) \in Seq(Cell) /\ Len(Sorted(parts)) = N /\ N \in Nat
               /\ \E f \in Bijection(1..N, Places(parts)) :
                      \A k \in 1..N : Sorted(parts)[k] = PointAt(parts, f[k])
               /\ \A k, l \in 1..N : k < l => Sorted(parts)[k].ts <= Sorted(parts)[l].ts
<1> DEFINE P == Places(parts)
           N == Cardinality(P)
           Earlier(x) == {y \in P : Precedes(parts, y, x)}
           rank == [x \in P |-> Cardinality(Earlier(x)) + 1]
           f == [k \in 1..N |-> CHOOSE x \in P : rank[x] = k]
<1>1. IsFiniteSet(P) /\ N \in Nat
  BY PlacesFinite
<1>2. ASSUME NEW x \in P
      PROVE  IsFiniteSet(Earlier(x)) /\ Cardinality(Earlier(x)) \in Nat /\ rank[x] \in 1..N
  <2>1. IsFiniteSet(Earlier(x)) /\ Cardinality(Earlier(x)) \in Nat
    BY <1>1, FS_Subset, FS_CardinalityType
  <2>2. x \notin Earlier(x)
    BY PrecedesOrders
  <2>3. Earlier(x) \cup {x} \in SUBSET P
    OBVIOUS
  <2> HIDE DEF P, Earlier
  <2>4. Cardinality(Earlier(x) \cup {x}) = Cardinality(Earlier(x)) + 1
    BY <2>1, <2>2, FS_AddElement
  <2>5. Cardinality(Earlier(x) \cup {x}) <= N
    BY <1>1, <2>3, FS_Subset
  <2> QED
    BY <1>1, <2>1, <2>4, <2>5
<1>3. ASSUME NEW x \in P, NEW y \in P, Precedes(parts, x, y) PROVE rank[x] < rank[y]
  <2>1. Earlier(x) \cup {x} \in SUBSET Earlier(y)
    BY <1>3, PrecedesOrders
  <2>2. x \notin Earlier(x)
    BY PrecedesOrders
  <2>3. rank[x] = Cardinality(Earlier(x)) + 1 /\ rank[y] = Cardinality(Earlier(y)) + 1
    OBVIOUS
  <2>4. /\ IsFiniteSet(Earlier(x)) /\ Cardinality(Earlier(x)) \in Nat
        /\ IsFiniteSet(Earlier(y)) /\ Cardinality(Earlier(y)) \in Nat
    BY <1>2
  <2> HIDE DEF P, Earlier, rank
  <2>5. Cardinality(Earlier(x) \cup {x}) = Cardinality(Earlier(x)) + 1
    BY <2>2, <2>4, FS_AddElement
  <2>6. Cardinality(Earlier(x) \cup {x}) <= Cardinality(Earlier(y))
    BY <2>1, <2>4, FS_Subset
  <2> QED
    BY <2>3, <2>4, <2>5, <2>6
<1>4. rank \in [P -> 1..N]
  BY <1>2
<1>5. \A x, y \in P : rank[x] = rank[y] => x = y
  <2> SUFFICES ASSUME NEW x \in P, NEW y \in P, rank[x] = rank[y], x # y PROVE FALSE
    OBVIOUS
  <2>1. Precedes(parts, x, y) \/ Precedes(parts, y, x)
    BY PrecedesOrders
  <2>2. rank[x] \in 1..N /\ rank[y] \in 1..N
    BY <1>2
  <2>3. rank[x] < rank[y] \/ rank[y] < rank[x]
    BY <1>3, <2>1
  <2> HIDE DEF rank
  <2> QED
    BY <2>2, <2>3
<1>6. Sorted(parts) = [k \in 1..N |-> PointAt(parts, CHOOSE x \in P : rank[x] = k)]
  BY DEF Sorted
<1> HIDE DEF rank, P, N
<1>7. rank \in Injection(P, 1..N)
  BY <1>4, <1>5, Fun_IsInj
<1>8. IsFiniteSet(1..N) /\ Cardinality(1..N) = N
  <2>1. N \in Int /\ 1 \in Int
    BY <1>1
  <2> QED
    BY <1>1, <2>1, FS_Interval
<1>9. rank \in Surjection(P, 1..N)
  BY <1>1, <1>7, <1>8, FS_Injection DEF N
<1>10. \A k \in 1..N : \E x \in P : rank[x] = k
  BY <1>9, Fun_SurjectionProperties
<1>11. \A k \in 1..N : f[k] \in P /\ rank[f[k]] = k
  BY <1>10
<1>12. \A x \in P : rank[x] \in 1..N /\ f[rank[x]] = x
  BY <1>4, <1>5, <1>11
<1>13. \A k \in 1..N : Sorted(parts)[k] = PointAt(parts, f[k])
  BY <1>6
<1>14. DOMAIN f = 1..N
  OBVIOUS
<1> HIDE DEF f
<1>15. f \in Bijection(1..N, P)
  <2>1. f \in [1..N -> P]
    <3>1. f = [k \in 1..N |-> f[k]]
      BY DEF f
    <3> QED
      BY <1>11, <3>1
  <2>2. \A a, b \in 1..N : f[a] = f[b] => a = b
    BY <1>11
  <2>3. \A x \in P : \E k \in 1..N : f[k] = x
    BY <1>12
  <2> QED
    BY <2>1, <2>2, <2>3, Fun_IsBij
<1>16. \A k \in 1..N : Sorted(parts)[k] \in Cell
  BY <1>11, <1>13, PlacesAre DEF P
<1>17. Sorted(parts) \in Seq(Cell) /\ Len(Sorted(parts)) = N
  <2>1. Sorted(parts) = [k \in 1..N |-> Sorted(parts)[k]]
    BY <1>6
  <2>2. Sorted(parts) \in [1..N -> Cell]
    BY <1>16, <2>1
  <2> QED
    BY <1>1, <2>2
<1>18. ASSUME NEW k \in 1..N, NEW l \in 1..N, k < l
       PROVE  Sorted(parts)[k].ts <= Sorted(parts)[l].ts
  <2>1. f[k] \in P /\ f[l] \in P /\ rank[f[k]] = k /\ rank[f[l]] = l
    BY <1>11
  <2>2. ~Precedes(parts, f[l], f[k])
    <3>1. Precedes(parts, f[l], f[k]) => l < k
      BY <1>3, <2>1
    <3> QED
      BY <1>18, <1>1, <3>1
  <2>3. PICK a, b : a = PointAt(parts, f[k]).ts /\ b = PointAt(parts, f[l]).ts
    OBVIOUS
  <2>4. a \in Int /\ b \in Int
    BY <2>1, <2>3, PlacesAre DEF P
  <2>5. ~(b < a)
    BY <2>2, <2>3 DEF Precedes
  <2> QED
    BY <1>13, <2>3, <2>4, <2>5
<1> QED
  BY <1>1, <1>13, <1>15, <1>17, <1>18 DEF N, P

\* A timestamp is in an answer as often as there are parts that have it.
LEMMA TimesSorted ==
    ASSUME NEW n \in Nat, NEW parts \in Parts(n), \A i \in 0..n : Ascending(parts[i]), NEW t \in Int
    PROVE  Times(Sorted(parts), t) = Cardinality({i \in 0..n : t \in TSof(parts[i])})
<1> DEFINE P == Places(parts)
           N == Cardinality(P)
           A == {k \in DOMAIN Sorted(parts) : Sorted(parts)[k].ts = t}
           I == {i \in 0..n : t \in TSof(parts[i])}
<1>1. PICK f \in Bijection(1..N, P) : \A k \in 1..N : Sorted(parts)[k] = PointAt(parts, f[k])
  BY SortedPermutes
<1>2. N \in Nat /\ DOMAIN Sorted(parts) = 1..N
  <2>1. N \in Nat /\ Sorted(parts) \in Seq(Cell) /\ Len(Sorted(parts)) = N
    BY SortedPermutes
  <2> HIDE DEF N
  <2> QED
    BY <2>1
<1>3. /\ \A k \in 1..N : f[k] \in P
      /\ \A k, l \in 1..N : f[k] = f[l] => k = l
      /\ \A x \in P : \E k \in 1..N : f[k] = x
  <2> HIDE DEF N, P
  <2>1. f \in [1..N -> P] /\ f \in Injection(1..N, P) /\ f \in Surjection(1..N, P)
    BY Fun_BijectionProperties
  <2>2. \A k, l \in 1..N : f[k] = f[l] => k = l
    BY <2>1, Fun_InjectionProperties
  <2>3. \A x \in P : \E k \in 1..N : f[k] = x
    BY <2>1 DEF Surjection
  <2> QED
    BY <2>1, <2>2, <2>3
<1>4. \A x \in P : /\ x[1] \in 0..n /\ x[2] \in 1..Len(parts[x[1]]) /\ x = <<x[1], x[2]>>
                   /\ PointAt(parts, x) = parts[x[1]][x[2]]
  BY PlacesAre DEF PointAt
<1>5. \A i \in 0..n : DOMAIN parts[i] = 1..Len(parts[i]) /\ parts[i] \in Seq(Cell)
  BY DEF Parts
<1> DEFINE h == [k \in A |-> f[k][1]]
<1>6. \A k \in A : k \in 1..N /\ f[k] \in P /\ parts[f[k][1]][f[k][2]].ts = t
  BY <1>1, <1>2, <1>3, <1>4
<1>7. \A k \in A : h[k] \in I
  <2> SUFFICES ASSUME NEW k \in A PROVE f[k][1] \in I
    OBVIOUS
  <2>1. f[k][1] \in 0..n /\ f[k][2] \in DOMAIN parts[f[k][1]] /\ parts[f[k][1]][f[k][2]].ts = t
    BY <1>4, <1>5, <1>6
  <2> QED
    BY <2>1 DEF TSof
<1>8. \A k, l \in A : h[k] = h[l] => k = l
  <2> SUFFICES ASSUME NEW k \in A, NEW l \in A, f[k][1] = f[l][1] PROVE k = l
    OBVIOUS
  <2> DEFINE w == parts[f[k][1]]
  <2>1. /\ f[k] \in P /\ f[l] \in P /\ k \in 1..N /\ l \in 1..N
        /\ w[f[k][2]].ts = t /\ w[f[l][2]].ts = t
    BY <1>6
  <2>2. /\ f[k][1] \in 0..n /\ f[k][2] \in 1..Len(w) /\ f[l][2] \in 1..Len(w)
        /\ f[k] = <<f[k][1], f[k][2]>> /\ f[l] = <<f[l][1], f[l][2]>>
    BY <1>4, <2>1
  <2>3. w \in Seq(Cell) /\ Ascending(w) /\ DOMAIN w = 1..Len(w) /\ Len(w) \in Nat
    BY <1>5, <2>2
  <2> HIDE DEF w
  <2>4. ~(f[k][2] < f[l][2]) /\ ~(f[l][2] < f[k][2])
    BY <2>1, <2>2, <2>3 DEF Ascending
  <2>5. f[k][2] = f[l][2]
    BY <2>2, <2>3, <2>4
  <2> QED
    BY <1>3, <2>1, <2>2, <2>5
<1>9. \A i \in I : \E k \in A : h[k] = i
  <2> SUFFICES ASSUME NEW i \in I PROVE \E k \in A : f[k][1] = i
    OBVIOUS
  <2>1. PICK j \in DOMAIN parts[i] : parts[i][j].ts = t
    BY DEF TSof
  <2>2. <<i, j>> \in P
    BY <1>5, PlacesAre
  <2>3. PICK k \in 1..N : f[k] = <<i, j>>
    BY <1>3, <2>2
  <2>4. Sorted(parts)[k].ts = t
    BY <1>1, <2>1, <2>3 DEF PointAt
  <2> QED
    BY <1>2, <2>3, <2>4
<1>10. h \in Bijection(A, I)
  <2>1. h \in [A -> I]
    BY <1>7
  <2> HIDE DEF h, A, I
  <2> QED
    BY <1>8, <1>9, <2>1, Fun_IsBij
<1>11. IsFiniteSet(A)
  <2>1. IsFiniteSet(1..N)
    BY <1>2, FS_Interval
  <2>2. A \in SUBSET (1..N)
    BY <1>2
  <2> QED
    BY <2>1, <2>2, FS_Subset
<1>12. Cardinality(I) = Cardinality(A)
  <2> HIDE DEF A, I
  <2> QED
    BY <1>10, <1>11, FS_Bijection, Fun_ExistsBij
<1> QED
  BY <1>12 DEF Times

\* Two binary searches find what a range covers.
LEMMA CoveredIsInterval ==
    ASSUME NEW w \in Seq(Cell), Ascending(w), NEW rng \in Int \X Int
    PROVE  /\ Covered(rng, w) = (Search(w, rng[1]) + 1)..Search(w, rng[2])
           /\ Search(w, rng[1]) \in 0..Len(w) /\ Search(w, rng[2]) \in 0..Len(w)
<1> DEFINE lo == Search(w, rng[1])
           hi == Search(w, rng[2])
<1>1. rng[1] \in Int /\ rng[2] \in Int
  OBVIOUS
<1>2. /\ lo \in 0..Len(w) /\ \A i \in DOMAIN w : w[i].ts < rng[1] <=> i <= lo
      /\ hi \in 0..Len(w) /\ \A i \in DOMAIN w : w[i].ts < rng[2] <=> i <= hi
  BY <1>1, SearchFinds
<1>3. DOMAIN w = 1..Len(w) /\ Len(w) \in Nat /\ \A i \in 1..Len(w) : w[i].ts \in Int
  BY CellTimes
<1> HIDE DEF lo, hi
<1>4. \A i \in 1..Len(w) : rng[1] <= w[i].ts <=> i > lo
  BY <1>1, <1>2, <1>3
<1>5. Covered(rng, w) = {i \in 1..Len(w) : i > lo /\ i <= hi}
  BY <1>2, <1>3, <1>4 DEF Covered
<1>6. {i \in 1..Len(w) : i > lo /\ i <= hi} = (lo + 1)..hi
  BY <1>2, <1>3
<1> QED
  BY <1>2, <1>5, <1>6 DEF lo, hi

\* What is read of a block.
LEMMA RangeOfShape ==
    ASSUME NEW S, S \subseteq Cell, NEW w \in Seq(S), Ascending(w), NEW rng \in Int \X Int
    PROVE  /\ RangeOf(w, rng) \in Seq(S) /\ Ascending(RangeOf(w, rng))
           /\ TSof(RangeOf(w, rng)) = Asked(rng, TSof(w))
<1> DEFINE lo == Search(w, rng[1])
           hi == Search(w, rng[2])
           out == RangeOf(w, rng)
<1>1. w \in Seq(Cell) /\ DOMAIN w = 1..Len(w) /\ Len(w) \in Nat /\ \A i \in 1..Len(w) : w[i] \in S
  OBVIOUS
<1>2. Covered(rng, w) = (lo + 1)..hi /\ lo \in 0..Len(w) /\ hi \in 0..Len(w)
  BY <1>1, CoveredIsInterval
<1> HIDE DEF lo, hi
<1>3. out = SubSeq(w, lo + 1, hi)
  BY DEF RangeOf, lo, hi
<1> HIDE DEF out
<1>4. /\ out \in Seq(S) /\ Len(out) = IF lo + 1 <= hi THEN hi - (lo + 1) + 1 ELSE 0
      /\ \A i \in 1..(hi - (lo + 1) + 1) : out[i] = w[(lo + 1) + i - 1]
  <2>1. \A i \in (lo + 1)..hi : w[i] \in S
    BY <1>1, <1>2
  <2>2. lo + 1 \in Int /\ hi \in Int
    BY <1>1, <1>2
  <2> QED
    BY <1>3, <2>1, <2>2, SubSeqProperties
<1>5. /\ DOMAIN out = 1..Len(out) /\ Len(out) \in Nat
      /\ \A i \in 1..Len(out) : lo + i \in (lo + 1)..hi /\ out[i] = w[lo + i]
      /\ \A k \in (lo + 1)..hi : k - lo \in 1..Len(out) /\ out[k - lo] = w[k]
  <2>1. DOMAIN out = 1..Len(out) /\ Len(out) \in Nat
    BY <1>4
  <2>2. ASSUME NEW i \in 1..Len(out) PROVE lo + i \in (lo + 1)..hi /\ out[i] = w[lo + i]
    <3>1. lo + 1 <= hi /\ i \in 1..(hi - (lo + 1) + 1) /\ (lo + 1) + i - 1 = lo + i
      BY <1>1, <1>2, <1>4, <2>1
    <3>2. out[i] = w[lo + i]
      BY <1>4, <3>1
    <3> QED
      BY <1>1, <1>2, <3>1, <3>2
  <2>3. ASSUME NEW k \in (lo + 1)..hi PROVE k - lo \in 1..Len(out) /\ out[k - lo] = w[k]
    <3>1. lo + 1 <= hi /\ k - lo \in 1..(hi - (lo + 1) + 1) /\ (lo + 1) + (k - lo) - 1 = k
      BY <1>1, <1>2
    <3>2. Len(out) = hi - (lo + 1) + 1
      BY <1>4, <3>1
    <3>3. out[k - lo] = w[k]
      BY <1>4, <3>1
    <3> QED
      BY <3>1, <3>2, <3>3
  <2> QED
    BY <2>1, <2>2, <2>3
<1>6. Ascending(out)
  <2> SUFFICES ASSUME NEW i \in 1..Len(out), NEW j \in 1..Len(out), i < j
               PROVE  out[i].ts < out[j].ts
    BY <1>5 DEF Ascending
  <2>1. lo + i \in 1..Len(w) /\ lo + j \in 1..Len(w) /\ lo + i < lo + j
    BY <1>1, <1>2, <1>5
  <2>2. w[lo + i].ts < w[lo + j].ts
    BY <1>1, <2>1 DEF Ascending
  <2> QED
    BY <1>5, <2>2
<1>7. TSof(out) = {w[k].ts : k \in (lo + 1)..hi}
  BY <1>5 DEF TSof
<1>8. Asked(rng, TSof(w)) = {w[k].ts : k \in Covered(rng, w)}
  BY DEF Asked, TSof, Covered
<1> QED
  BY <1>2, <1>4, <1>6, <1>7, <1>8 DEF out

-----------------------------------------------------------------------------
(* A scan, whose cells may change under it. *)

ScanType ==
    [at : {"idle"} \cup Pinned, range : Int \X Int, gen : Nat, own : BOOLEAN,
     view : Seq(Sample), len : Nat, lo : Nat, seen : Seq(SUBSET Sample), shifts : Nat]

QueryType ==
    [at : {"idle", "mem", "blocks", "answered"}, range : Int \X Int, pts : Seq(Cell),
     mem : SUBSET Int, late : SUBSET Int, before : Nat, listed : Nat, shifts : Nat]

\* A query in a later state: it may have been told of writes.
Noticing(q, u) ==
    /\ u \in QueryType /\ u.at = q.at /\ u.range = q.range /\ u.mem = q.mem /\ q.late \subseteq u.late
    /\ u.pts = q.pts /\ u.before = q.before /\ u.listed = q.listed /\ u.shifts = q.shifts

\* Whoever has an array of its own sees no writes.
LEMMA KeepsScan ==
    ASSUME NEW q \in QueryType, NEW s \in ScanType, NEW w, ScanIInv(q, s, w),
           NEW u, Noticing(q, u), NEW t \in ScanType,
           t.at = s.at, t.range = s.range, t.len = s.len, t.lo = s.lo, t.seen = s.seen,
           t.shifts = s.shifts
    PROVE  ScanIInv(u, t, w)
<1>1. Accounted(q, w) => Accounted(u, w)
  BY DEF Accounted, Noticing
<1>2. /\ LookedIInv(q, s, w) => LookedIInv(u, t, w)
      /\ SearchedIInv(q, s, w) => SearchedIInv(u, t, w)
      /\ CopyingIInv(q, s, w) => CopyingIInv(u, t, w)
  BY DEF LookedIInv, SearchedIInv, CopyingIInv, Noticing
<1> QED
  BY <1>1, <1>2 DEF ScanIInv, Noticing

\* The same timestamps, if not the same values.
SameTimes(w, v) ==
    /\ w \in Seq(Cell) /\ v \in Seq(Cell) /\ Len(v) = Len(w)
    /\ \A i \in 1..Len(w) : v[i].ts = w[i].ts

LEMMA SameTimesCover ==
    ASSUME NEW w, NEW v, SameTimes(w, v)
    PROVE  /\ TSof(v) = TSof(w)
           /\ \A t : Search(v, t) = Search(w, t)
           /\ \A rng : Covered(rng, v) = Covered(rng, w)
           /\ \A i \in Nat : \A t : Below(v, i, t) = Below(w, i, t)
<1>1. /\ DOMAIN w = 1..Len(w) /\ DOMAIN v = 1..Len(w) /\ Len(w) \in Nat
      /\ \A i \in 1..Len(w) : v[i].ts = w[i].ts
  BY DEF SameTimes
<1>2. TSof(v) = TSof(w)
  BY <1>1 DEF TSof
<1>3. ASSUME NEW t PROVE Search(v, t) = Search(w, t)
  <2>1. {i \in DOMAIN v : v[i].ts < t} = {i \in DOMAIN w : w[i].ts < t}
    BY <1>1
  <2> QED
    BY <2>1 DEF Search
<1>4. ASSUME NEW rng PROVE Covered(rng, v) = Covered(rng, w)
  BY <1>1 DEF Covered
<1>5. ASSUME NEW i \in Nat, NEW t
      PROVE  Below(v, i, t) = Below(w, i, t)
  <2>1. \A k \in (i + 1)..Len(w) : k \in 1..Len(w)
    BY <1>1
  <2>2. Len(v) = Len(w)
    BY DEF SameTimes
  <2> QED
    BY <1>1, <2>1, <2>2 DEF Below
<1> QED
  BY <1>2, <1>3, <1>4, <1>5

\* What a copy sees of a cell written meanwhile.
Resees(s, v) == [i \in DOMAIN s.seen |-> s.seen[i] \cup {v[s.lo + i]}]

LEMMA ReseesType ==
    ASSUME NEW q, NEW s \in ScanType, NEW w, ScanIInv(q, s, w), s.at \in Pinned \ {"pinned"},
           NEW v \in Seq(Sample), Len(v) = s.len
    PROVE  /\ Resees(s, v) \in Seq(SUBSET Sample) /\ Len(Resees(s, v)) = Len(s.seen)
           /\ DOMAIN s.seen = 1..Len(s.seen) /\ Len(s.seen) \in Nat
           /\ s.at # "copying" => Resees(s, v) = <<>>
           /\ \A i \in 1..Len(s.seen) : s.lo + i \in 1..s.len /\ Resees(s, v)[i] = s.seen[i] \cup {v[s.lo + i]}
<1>1. /\ s.seen \in Seq(SUBSET Sample) /\ DOMAIN s.seen = 1..Len(s.seen) /\ Len(s.seen) \in Nat
      /\ s.lo \in Nat /\ s.len \in Nat
  BY DEF ScanType
<1>2. CASE s.at = "copying"
  <2>1. \A i \in 1..Len(s.seen) : s.lo + i \in 1..s.len
    BY <1>1, <1>2 DEF ScanIInv, CopyingIInv
  <2>2. \A i \in 1..s.len : v[i] \in Sample
    OBVIOUS
  <2>3. \A i \in 1..Len(s.seen) : s.seen[i] \in SUBSET Sample /\ v[s.lo + i] \in Sample
    BY <1>1, <2>1, <2>2
  <2>4. Resees(s, v) = [i \in 1..Len(s.seen) |-> s.seen[i] \cup {v[s.lo + i]}]
    BY <1>1 DEF Resees
  <2>5. Resees(s, v) \in [1..Len(s.seen) -> SUBSET Sample]
    BY <2>3, <2>4
  <2> QED
    BY <1>1, <1>2, <2>1, <2>4, <2>5
<1>3. CASE s.at # "copying"
  <2>1. s.seen = <<>>
    BY <1>3 DEF ScanIInv
  <2> QED
    BY <1>3, <2>1 DEF Resees
<1> QED
  BY <1>2, <1>3

\* Overwriting, or inserting behind the last of its cells, moves no timestamp of
\* a scan.
LEMMA SameTimesScan ==
    ASSUME NEW q \in QueryType, NEW s \in ScanType, NEW w, ScanIInv(q, s, w),
           s.at \in Pinned \ {"pinned"}, NEW v \in Seq(Sample), SameTimes(w, v),
           NEW u, Noticing(q, u), NEW t \in ScanType,
           t.at = s.at, t.range = s.range, t.len = s.len, t.lo = s.lo, t.seen = Resees(s, v),
           t.shifts = s.shifts
    PROVE  ScanIInv(u, t, v)
<1>1. /\ TSof(v) = TSof(w)
      /\ \A x : Search(v, x) = Search(w, x)
      /\ \A rng : Covered(rng, v) = Covered(rng, w)
      /\ \A i \in Nat : \A x : Below(v, i, x) = Below(w, i, x)
  BY SameTimesCover
<1>2. Len(w) = s.len /\ Len(v) = s.len /\ s.lo \in Nat /\ Ascending(w) /\ w \in Seq(Sample)
  BY DEF ScanIInv, SameTimes, ScanType
<1>3. Ascending(v)
  <2>1. DOMAIN v = 1..Len(w) /\ DOMAIN w = 1..Len(w) /\ \A i \in 1..Len(w) : v[i].ts = w[i].ts
    BY DEF SameTimes
  <2> QED
    BY <1>2, <2>1 DEF Ascending
<1>4. /\ Len(t.seen) = Len(s.seen) /\ DOMAIN t.seen = 1..Len(s.seen) /\ DOMAIN s.seen = 1..Len(s.seen)
      /\ s.at # "copying" => t.seen = <<>>
      /\ \A i \in 1..Len(s.seen) : s.lo + i \in 1..s.len /\ t.seen[i] = s.seen[i] \cup {v[s.lo + i]}
  <2> DEFINE R == Resees(s, v)
  <2>1. t.seen = R /\ Len(v) = s.len
    BY <1>2
  <2>2. /\ R \in Seq(SUBSET Sample) /\ Len(R) = Len(s.seen) /\ DOMAIN s.seen = 1..Len(s.seen)
        /\ s.at # "copying" => R = <<>>
        /\ \A i \in 1..Len(s.seen) : s.lo + i \in 1..s.len /\ R[i] = s.seen[i] \cup {v[s.lo + i]}
    BY <2>1, ReseesType
  <2> HIDE DEF R
  <2> QED
    BY <2>1, <2>2
<1>5. Accounted(q, w) => Accounted(u, v)
  BY <1>1 DEF Accounted, Noticing
<1>6. \A i \in 1..Len(s.seen) : v[s.lo + i].ts = w[s.lo + i].ts
  BY <1>2, <1>4 DEF SameTimes
<1>7. ASSUME LookedIInv(q, s, w) PROVE LookedIInv(u, t, v)
  BY <1>1, <1>7 DEF LookedIInv, Noticing
<1>8. ASSUME SearchedIInv(q, s, w) PROVE SearchedIInv(u, t, v)
  <2>1. Below(v, s.lo, q.range[2]) = Below(w, s.lo, q.range[2])
    BY <1>1, <1>2
  <2> QED
    BY <1>1, <1>8, <2>1 DEF SearchedIInv, Noticing
<1>9. ASSUME CopyingIInv(q, s, w) PROVE CopyingIInv(u, t, v)
  <2>1. \A i \in 1..Len(s.seen) :
            /\ v[s.lo + i] \in t.seen[i]
            /\ \A c \in t.seen[i] : /\ c.ts < q.range[2]
                                    /\ s.shifts = 0 => c.ts = v[s.lo + i].ts
    <3> TAKE i \in 1..Len(s.seen)
    <3>1. /\ w[s.lo + i] \in s.seen[i]
          /\ \A c \in s.seen[i] : c.ts < q.range[2] /\ (s.shifts = 0 => c.ts = w[s.lo + i].ts)
      BY <1>4, <1>9 DEF CopyingIInv
    <3> QED
      BY <1>4, <1>6, <3>1
  <2> QED
    BY <1>1, <1>4, <1>9, <2>1 DEF CopyingIInv, Noticing
<1> QED
  BY <1>2, <1>3, <1>4, <1>5, <1>7, <1>8, <1>9 DEF ScanIInv, Noticing, Pinned

\* The cells w of a scan after p went in behind the first k of them: the last is
\* pushed out.
Pushes(w, v, k, p) ==
    /\ w \in Seq(Cell) /\ v \in Seq(Cell) /\ Len(v) = Len(w) /\ k \in 0..(Len(w) - 1)
    /\ \A i \in 1..Len(w) : v[i] = IF i <= k THEN w[i] ELSE IF i = k + 1 THEN p ELSE w[i - 1]
    /\ p.ts <= w[k + 1].ts

LEMMA PushedDown ==
    ASSUME NEW w, NEW v, NEW k, NEW p \in Cell, Pushes(w, v, k, p), Ascending(w)
    PROVE  \A i \in 1..Len(w) : v[i].ts <= w[i].ts
<1>1. /\ Len(w) \in Nat /\ DOMAIN w = 1..Len(w) /\ \A i \in 1..Len(w) : w[i].ts \in Int
      /\ k \in Nat /\ p.ts \in Int
  BY CellTimes DEF Pushes, Cell
<1> SUFFICES ASSUME NEW i \in 1..Len(w) PROVE v[i].ts <= w[i].ts
  OBVIOUS
<1>2. CASE i <= k
  BY <1>1, <1>2 DEF Pushes
<1>3. CASE i = k + 1
  BY <1>1, <1>3 DEF Pushes
<1>4. CASE i > k + 1
  <2>1. i - 1 \in 1..Len(w) /\ i - 1 < i
    BY <1>1, <1>4
  <2>2. w[i - 1].ts < w[i].ts
    BY <1>1, <2>1 DEF Ascending
  <2>3. v[i] = w[i - 1]
    BY <1>1, <1>4 DEF Pushes
  <2> QED
    BY <1>1, <2>1, <2>2, <2>3
<1> QED
  BY <1>1, <1>2, <1>3, <1>4

\* Nothing that lay before a time is pushed behind it.
LEMMA PushedAhead ==
    ASSUME NEW w, NEW v, NEW k, NEW p \in Cell, Pushes(w, v, k, p), Ascending(w),
           NEW i \in Nat, NEW t \in Int
    PROVE  /\ Cardinality(Below(w, i, t)) \in Nat /\ Cardinality(Below(v, i, t)) \in Nat
           /\ Cardinality(Below(w, i, t)) <= Cardinality(Below(v, i, t))
<1> DEFINE A == Below(w, i, t)
           B == Below(v, i, t)
<1>1. /\ Len(w) \in Nat /\ \A j \in 1..Len(w) : w[j].ts \in Int /\ v[j].ts \in Int
  BY CellTimes DEF Pushes
<1>2. \A j \in (i + 1)..Len(w) : j \in 1..Len(w)
  BY <1>1
<1>3. A \in SUBSET B
  <2>1. Len(v) = Len(w)
    BY DEF Pushes
  <2>2. \A j \in (i + 1)..Len(w) : w[j].ts < t => v[j].ts < t
    BY <1>1, <1>2, PushedDown
  <2> QED
    BY <2>1, <2>2 DEF Below
<1>4. IsFiniteSet((i + 1)..Len(w))
  <2>1. i + 1 \in Int /\ Len(w) \in Int
    BY <1>1
  <2> QED
    BY <2>1, FS_Interval
<1>5. A \in SUBSET ((i + 1)..Len(w)) /\ B \in SUBSET ((i + 1)..Len(w))
  BY DEF Below, Pushes
<1> HIDE DEF A, B
<1>6. IsFiniteSet(A) /\ IsFiniteSet(B)
  BY <1>4, <1>5, FS_Subset
<1>7. Cardinality(A) \in Nat /\ Cardinality(B) \in Nat /\ Cardinality(A) <= Cardinality(B)
  BY <1>3, <1>6, FS_Subset, FS_CardinalityType
<1> QED
  BY <1>7 DEF A, B

LEMMA CoveredFinite ==
    ASSUME NEW w \in Seq(Cell), NEW rng
    PROVE  IsFiniteSet(Covered(rng, w)) /\ Cardinality(Covered(rng, w)) \in Nat
<1>1. DOMAIN w = 1..Len(w) /\ Len(w) \in Nat
  OBVIOUS
<1>2. IsFiniteSet(1..Len(w))
  BY <1>1, FS_Interval
<1>3. Covered(rng, w) \in SUBSET (1..Len(w))
  BY <1>1 DEF Covered
<1> QED
  BY <1>2, <1>3, FS_Subset, FS_CardinalityType

\* One at most of the points a range covers is pushed out of a scan's cells.
LEMMA PushedOut ==
    ASSUME NEW w, NEW v, NEW k, NEW p \in Cell, Pushes(w, v, k, p), NEW rng
    PROVE  Cardinality(Covered(rng, w)) <= Cardinality(Covered(rng, v)) + 1
<1> DEFINE n == Len(w)
           A == Covered(rng, w) \ {n}
           B == Covered(rng, v)
           h == [j \in A |-> IF j <= k THEN j ELSE j + 1]
<1>1. /\ w \in Seq(Cell) /\ v \in Seq(Cell) /\ n \in Nat /\ DOMAIN w = 1..n /\ DOMAIN v = 1..n
      /\ k \in 0..(n - 1) /\ Len(v) = n
      /\ \A i \in 1..n : v[i] = IF i <= k THEN w[i] ELSE IF i = k + 1 THEN p ELSE w[i - 1]
  BY DEF Pushes
<1>2. \A j \in A : j \in 1..n /\ j # n /\ j \in Covered(rng, w)
  BY <1>1 DEF Covered
<1> HIDE DEF n
<1>3. \A j \in A : h[j] \in 1..n /\ v[h[j]] = w[j]
  <2> TAKE j \in A
  <2>1. CASE j <= k
    BY <1>1, <1>2, <2>1
  <2>2. CASE ~(j <= k)
    <3>1. h[j] = j + 1 /\ j + 1 \in 1..n /\ ~(j + 1 <= k) /\ j + 1 # k + 1 /\ (j + 1) - 1 = j
      BY <1>1, <1>2, <2>2
    <3>2. v[j + 1] = w[(j + 1) - 1]
      BY <1>1, <3>1
    <3> QED
      BY <3>1, <3>2
  <2> QED
    BY <2>1, <2>2
<1>4. \A j \in A : h[j] \in B
  BY <1>1, <1>2, <1>3 DEF Covered
<1>5. \A i, j \in A : h[i] = h[j] => i = j
  BY <1>1, <1>2
<1>6. h \in Injection(A, B)
  <2>1. h \in [A -> B]
    BY <1>4
  <2> HIDE DEF h, A, B
  <2> QED
    BY <1>5, <2>1, Fun_IsInj
<1>7. IsFiniteSet(B) /\ Cardinality(B) \in Nat
  BY <1>1, CoveredFinite
<1>8. Cardinality(A) <= Cardinality(B)
  <2> HIDE DEF h, A, B
  <2> QED
    BY <1>6, <1>7, FS_Injection
<1>9. /\ IsFiniteSet(Covered(rng, w)) /\ Cardinality(Covered(rng, w)) \in Nat
  BY <1>1, CoveredFinite
<1>10. Cardinality(Covered(rng, w)) <= Cardinality(A) + 1
  <2> DEFINE C == Covered(rng, w)
  <2>1. IsFiniteSet(C) /\ Cardinality(C) \in Nat /\ A = C \ {n}
    BY <1>9
  <2> HIDE DEF C, A
  <2>2. Cardinality(A) = IF n \in C THEN Cardinality(C) - 1 ELSE Cardinality(C)
    BY <2>1, FS_RemoveElement
  <2>3. Cardinality(C) <= Cardinality(A) + 1
    BY <2>1, <2>2
  <2> QED
    BY <2>3 DEF C
<1>11. Cardinality(A) \in Nat
  <2>1. A \in SUBSET Covered(rng, w)
    OBVIOUS
  <2> HIDE DEF A
  <2> QED
    BY <1>9, <2>1, FS_Subset, FS_CardinalityType
<1> HIDE DEF A
<1> QED
  BY <1>7, <1>8, <1>9, <1>10, <1>11 DEF B

\* Inserting below the end of a scan.
LEMMA PushedScan ==
    ASSUME NEW q \in QueryType, NEW s \in ScanType, NEW w, ScanIInv(q, s, w),
           s.at \in Pinned \ {"pinned"}, NEW v \in Seq(Sample), Ascending(v),
           NEW k, NEW p \in Cell, Pushes(w, v, k, p),
           NEW u, Noticing(q, u), NEW t \in ScanType,
           t.at = s.at, t.range = s.range, t.len = s.len, t.lo = s.lo, t.seen = Resees(s, v),
           t.shifts = s.shifts + 1, IsFiniteSet(q.mem)
    PROVE  ScanIInv(u, t, v)
<1>1. /\ Len(w) = s.len /\ Len(v) = s.len /\ s.lo \in Nat /\ s.len \in Nat /\ Ascending(w) /\ w \in Seq(Sample)
      /\ s.shifts \in Nat /\ t.shifts = s.shifts + 1 /\ t.shifts # 0
      /\ u.mem = q.mem /\ u.range = q.range /\ q.range[1] \in Int /\ q.range[2] \in Int
      /\ Cardinality(q.mem) \in Nat
  <2>1. s.shifts \in Nat /\ s.lo \in Nat /\ s.len \in Nat /\ q.range \in Int \X Int
    BY DEF ScanType, QueryType
  <2>2. Cardinality(q.mem) \in Nat
    BY FS_CardinalityType
  <2>3. Len(w) = s.len /\ Ascending(w) /\ w \in Seq(Sample)
    BY DEF ScanIInv
  <2>4. t.shifts = s.shifts + 1 /\ t.shifts # 0
    BY <2>1
  <2> QED
    BY <2>1, <2>2, <2>3, <2>4 DEF Pushes, Noticing
<1>2. \A i \in 1..s.len : v[i].ts <= w[i].ts /\ v[i].ts \in Int /\ w[i].ts \in Int
  <2>1. w \in Seq(Cell) /\ v \in Seq(Cell) /\ Len(w) = s.len /\ Len(v) = s.len
    BY <1>1 DEF Pushes
  <2>2. \A i \in 1..s.len : v[i].ts <= w[i].ts
    BY <1>1, PushedDown
  <2>3. \A i \in 1..s.len : v[i] \in Cell /\ w[i] \in Cell
    BY <2>1
  <2> QED
    BY <2>2, <2>3 DEF Cell
<1>3. /\ Len(t.seen) = Len(s.seen) /\ DOMAIN t.seen = 1..Len(s.seen) /\ DOMAIN s.seen = 1..Len(s.seen)
      /\ Len(s.seen) \in Nat
      /\ s.at # "copying" => t.seen = <<>>
      /\ \A i \in 1..Len(s.seen) : s.lo + i \in 1..s.len /\ t.seen[i] = s.seen[i] \cup {v[s.lo + i]}
  <2> DEFINE R == Resees(s, v)
  <2>1. t.seen = R /\ Len(v) = s.len
    BY <1>1
  <2>2. /\ R \in Seq(SUBSET Sample) /\ Len(R) = Len(s.seen) /\ DOMAIN s.seen = 1..Len(s.seen)
        /\ Len(s.seen) \in Nat
        /\ s.at # "copying" => R = <<>>
        /\ \A i \in 1..Len(s.seen) : s.lo + i \in 1..s.len /\ R[i] = s.seen[i] \cup {v[s.lo + i]}
    BY <2>1, ReseesType
  <2> HIDE DEF R
  <2> QED
    BY <2>1, <2>2
<1>4. ASSUME LookedIInv(q, s, w) PROVE LookedIInv(u, t, v)
  <2>1. Cardinality(Covered(q.range, w)) <= Cardinality(Covered(q.range, v)) + 1
    BY PushedOut
  <2>2. Cardinality(Covered(q.range, w)) \in Nat /\ Cardinality(Covered(q.range, v)) \in Nat
    BY CoveredFinite DEF Pushes
  <2> QED
    BY <1>1, <1>4, <2>1, <2>2 DEF LookedIInv
<1>5. ASSUME SearchedIInv(q, s, w) PROVE SearchedIInv(u, t, v)
  <2> DEFINE a == Cardinality(Below(w, s.lo, q.range[2]))
             b == Cardinality(Below(v, s.lo, q.range[2]))
  <2>1. a \in Nat /\ b \in Nat /\ a <= b
    <3>1. s.lo \in Nat /\ q.range[2] \in Int /\ Ascending(w)
      BY <1>1
    <3> QED
      BY <3>1, PushedAhead
  <2>2. Cardinality(q.mem) <= a + s.shifts /\ s.lo <= s.len
    BY <1>5 DEF SearchedIInv
  <2> HIDE DEF a, b
  <2>3. Cardinality(q.mem) <= b + t.shifts
    BY <1>1, <2>1, <2>2
  <2> QED
    BY <1>1, <2>2, <2>3 DEF SearchedIInv, b
<1>6. ASSUME CopyingIInv(q, s, w) PROVE CopyingIInv(u, t, v)
  <2>1. \A i \in 1..Len(s.seen) :
            v[s.lo + i] \in t.seen[i] /\ \A c \in t.seen[i] : c.ts < q.range[2]
    <3> TAKE i \in 1..Len(s.seen)
    <3>1. w[s.lo + i] \in s.seen[i] /\ \A c \in s.seen[i] : c.ts < q.range[2]
      BY <1>3, <1>6 DEF CopyingIInv
    <3>2. v[s.lo + i].ts < q.range[2]
      <4> DEFINE j == s.lo + i
      <4>1. j \in 1..s.len /\ w[j].ts < q.range[2]
        BY <1>3, <3>1
      <4> HIDE DEF j
      <4>2. v[j].ts <= w[j].ts /\ v[j].ts \in Int /\ w[j].ts \in Int
        BY <1>2, <4>1
      <4>3. v[j].ts < q.range[2]
        BY <1>1, <4>1, <4>2
      <4> QED
        BY <4>3 DEF j
    <3> QED
      BY <1>3, <3>1, <3>2
  <2>2. Cardinality(q.mem) <= Len(s.seen) + s.shifts /\ s.lo + Len(s.seen) <= s.len
    BY <1>6 DEF CopyingIInv
  <2>3. Cardinality(q.mem) <= Len(t.seen) + t.shifts /\ t.lo + Len(t.seen) <= t.len
    BY <1>1, <1>3, <2>2
  <2> QED
    BY <1>1, <1>3, <2>1, <2>3 DEF CopyingIInv
<1> QED
  BY <1>1, <1>3, <1>4, <1>5, <1>6 DEF ScanIInv, Noticing, Pinned

-----------------------------------------------------------------------------
(* A reader's part of the invariant. *)

Accounts(q, st) ==
    /\ Len(q.pts) >= Cardinality(CopiesOf(q, st)) - q.shifts
    /\ q.shifts = 0 => \A t \in Asked(q.range, SampleTimes) : Times(q.pts, t) \in Least(q, st, t)..Most(q, st, t)

InRange(q) ==
    /\ \A i \in DOMAIN q.pts : q.pts[i].ts < q.range[2]
    /\ q.shifts = 0 => \A i \in DOMAIN q.pts : q.pts[i] \in Sample /\ q.range[1] <= q.pts[i].ts

Fits(q, s, sl, st) ==
    /\ q \in QueryType /\ s \in ScanType
    /\ q.at # "idle" => IsFiniteSet(q.mem) /\ q.mem \subseteq Asked(q.range, q.mem) /\ q.before <= Len(st)
    /\ q.at = "mem" => ScanIInv(q, s, Within(s, sl)) /\ (s.own \/ s.len <= Len(sl))
    /\ q.at = "blocks" => GotIInv(q)
    /\ q.at = "answered" => q.listed <= Len(st) /\ Accounts(q, st) /\ InRange(q)

Tables(sl, fl, st) == sl \in Seq(Sample) /\ fl \in Seq(Sample) /\ st \in Seq(Seq(Sample))

LEMMA AnswersIs ==
    AnswersIInv <=> /\ Tables(slice, flight, stored)
                    /\ scan \in [Reader -> ScanType] /\ query \in [Reader -> QueryType]
                    /\ \A r \in Reader : Fits(query[r], scan[r], slice, stored)
<1>1. QueryAccounts <=> \A r \in Reader : query[r].at = "answered" => Accounts(query[r], stored)
  BY DEF QueryAccounts, Accounts
<1>2. QueryInRange <=> \A r \in Reader : query[r].at = "answered" => InRange(query[r])
  BY DEF QueryInRange, InRange
<1> QED
  BY <1>1, <1>2 DEF AnswersIInv, Fits, Tables, ScanType, QueryType

LEMMA AnswersIsNext ==
    AnswersIInv' <=> /\ Tables(slice', flight', stored')
                     /\ scan' \in [Reader -> ScanType] /\ query' \in [Reader -> QueryType]
                     /\ \A r \in Reader : Fits(query'[r], scan'[r], slice', stored')
<1>1. QueryAccounts' <=> \A r \in Reader : query'[r].at = "answered" => Accounts(query'[r], stored')
  BY DEF QueryAccounts, Accounts
<1>2. QueryInRange' <=> \A r \in Reader : query'[r].at = "answered" => InRange(query'[r])
  BY DEF QueryInRange, InRange
<1> QED
  BY <1>1, <1>2 DEF AnswersIInv, Fits, Tables, ScanType, QueryType

\* The list of blocks may get longer.
Longer(st, nw) == /\ st \in Seq(Seq(Sample)) /\ nw \in Seq(Seq(Sample)) /\ Len(st) <= Len(nw)
                  /\ \A i \in 1..Len(st) : nw[i] = st[i]

LEMMA LongerList ==
    ASSUME NEW st, NEW nw, Longer(st, nw), NEW n \in 0..Len(st), NEW t
    PROVE  BlocksWith(nw, t, n) = BlocksWith(st, t, n)
<1>1. \A i \in 1..n : nw[i] = st[i]
  <2>1. Len(st) \in Nat /\ \A i \in 1..Len(st) : nw[i] = st[i]
    BY DEF Longer
  <2>2. \A i \in 1..n : i \in 1..Len(st)
    BY <2>1
  <2> QED
    BY <2>1, <2>2
<1>2. {i \in 1..n : t \in TSof(nw[i])} = {i \in 1..n : t \in TSof(st[i])}
  BY <1>1
<1> QED
  BY <1>2 DEF BlocksWith

\* Nothing but its own steps is to a query that is past the memtable.
LEMMA FitsAside ==
    ASSUME NEW q, NEW s, NEW sl, NEW st, Fits(q, s, sl, st), q.at # "mem",
           NEW t \in ScanType, NEW new, NEW nw, Longer(st, nw)
    PROVE  Fits(q, t, new, nw)
<1>1. Len(st) \in Nat /\ Len(nw) \in Nat /\ Len(st) <= Len(nw)
  BY DEF Longer
<1>2. q \in QueryType /\ q.before \in Nat /\ q.listed \in Nat
  BY DEF Fits, QueryType
<1>3. CASE q.at = "answered"
  <2>1. q.before \in 0..Len(st) /\ q.listed \in 0..Len(st)
    BY <1>1, <1>2, <1>3 DEF Fits
  <2>2. \A x : BlocksWith(nw, x, q.before) = BlocksWith(st, x, q.before) /\ BlocksWith(nw, x, q.listed) = BlocksWith(st, x, q.listed)
    BY <2>1, LongerList
  <2>3. CopiesOf(q, nw) = CopiesOf(q, st)
    <3>1. \A i \in 0..q.before : i # 0 => nw[i] = st[i]
      BY <2>1 DEF Longer
    <3>2. \A c \in (0..q.before) \X Asked(q.range, SampleTimes) : c[1] \in 0..q.before
      OBVIOUS
    <3> QED
      BY <3>1, <3>2 DEF CopiesOf
  <2>4. Accounts(q, nw)
    BY <1>3, <2>2, <2>3 DEF Accounts, Fits, Least, Most
  <2> QED
    BY <1>1, <1>2, <1>3, <2>4 DEF Fits
<1>4. CASE q.at # "answered"
  BY <1>1, <1>2, <1>4 DEF Fits
<1> QED
  BY <1>3, <1>4

\* A scan whose cells stay what they are.
LEMMA FitsKept ==
    ASSUME NEW q, NEW s, NEW sl, NEW st, Fits(q, s, sl, st), q.at = "mem",
           NEW u, Noticing(q, u), NEW t \in ScanType, NEW new, NEW nw, Longer(st, nw),
           t.at = s.at, t.range = s.range, t.len = s.len, t.lo = s.lo, t.seen = s.seen,
           t.shifts = s.shifts,
           Within(t, new) = Within(s, sl), t.own \/ t.len <= Len(new)
    PROVE  Fits(u, t, new, nw)
<1>1. Len(st) \in Nat /\ Len(nw) \in Nat /\ Len(st) <= Len(nw)
  BY DEF Longer
<1>2. q \in QueryType /\ s \in ScanType /\ ScanIInv(q, s, Within(s, sl)) /\ q.before \in Nat
  BY DEF Fits, QueryType
<1>3. ScanIInv(u, t, Within(t, new))
  BY <1>2, KeepsScan
<1> QED
  BY <1>1, <1>2, <1>3 DEF Fits, Noticing

LEMMA SamplePrefix ==
    ASSUME NEW sl \in Seq(Sample), NEW n \in 0..Len(sl)
    PROVE  /\ SubSeq(sl, 1, n) \in Seq(Sample) /\ Len(SubSeq(sl, 1, n)) = n
           /\ \A i \in 1..n : SubSeq(sl, 1, n)[i] = sl[i]
<1>1. \A i \in 1..n : sl[i] \in Sample
  OBVIOUS
<1>2. n \in Nat /\ n \in Int /\ 1 \in Int
  OBVIOUS
<1>3. /\ SubSeq(sl, 1, n) \in Seq(Sample) /\ Len(SubSeq(sl, 1, n)) = IF 1 <= n THEN n - 1 + 1 ELSE 0
      /\ \A i \in 1..(n - 1 + 1) : SubSeq(sl, 1, n)[i] = sl[1 + i - 1]
  BY <1>1, <1>2, SubSeqProperties
<1> QED
  BY <1>2, <1>3

\* A reader keeps the cells of an array that is replaced.
LEMMA DetachedKeeps ==
    ASSUME NEW s \in ScanType, slice \in Seq(Sample), s.own \/ s.len <= Len(slice)
    PROVE  LET t == Detached(s)
           IN  /\ t \in ScanType
               /\ t.at = s.at /\ t.range = s.range /\ t.len = s.len /\ t.lo = s.lo /\ t.seen = s.seen
               /\ t.shifts = s.shifts
               /\ s.at \in Pinned => t.own /\ \A new : Within(t, new) = Within(s, slice)
<1>1. CASE s.own \/ s.at \notin Pinned
  BY <1>1 DEF Detached, Within
<1>2. CASE ~(s.own \/ s.at \notin Pinned)
  <2> DEFINE view == IF s.at = "pinned" THEN slice ELSE SubSeq(slice, 1, s.len)
  <2>1. Detached(s) = [s EXCEPT !.own = TRUE, !.view = view]
    BY <1>2 DEF Detached
  <2>2. view \in Seq(Sample)
    <3>1. s.len \in 0..Len(slice)
      BY <1>2 DEF ScanType
    <3> QED
      BY <3>1, SamplePrefix
  <2>3. view = Within(s, slice)
    BY <1>2 DEF Within
  <2> HIDE DEF view
  <2>4. Detached(s) \in ScanType
    BY <2>1, <2>2 DEF ScanType
  <2>5. Detached(s).own = TRUE /\ Detached(s).view = view
    BY <2>1 DEF ScanType
  <2>6. \A new : Within(Detached(s), new) = Within(s, slice)
    BY <2>3, <2>5 DEF Within
  <2>7. /\ Detached(s).at = s.at /\ Detached(s).range = s.range /\ Detached(s).len = s.len
        /\ Detached(s).lo = s.lo /\ Detached(s).seen = s.seen /\ Detached(s).shifts = s.shifts
    BY <2>1 DEF ScanType
  <2> QED
    BY <2>4, <2>5, <2>6, <2>7
<1> QED
  BY <1>1, <1>2

-----------------------------------------------------------------------------
(* What a write does to the scans of the live array. *)

LEMMA Elements == ASSUME NEW S, NEW s \in Seq(Cell), \A i \in 1..Len(s) : s[i] \in S PROVE s \in Seq(S)
<1>1. Len(s) \in Nat /\ s = [i \in 1..Len(s) |-> s[i]]
  OBVIOUS
<1>2. [i \in 1..Len(s) |-> s[i]] \in [1..Len(s) -> S]
  OBVIOUS
<1> QED
  BY <1>1, <1>2

\* The slice with a point of the same timestamp replaced, or with one more.
WroteSlice(k, p) ==
    \/ /\ SameTimes(slice, slice')
       /\ scan' = [r \in Reader |-> Shifted(scan[r], slice', k)]
    \/ /\ Inserts(slice', slice, k, p)
       /\ k < Len(slice) => p.ts < slice[k + 1].ts
       /\ \/ scan' = [r \in Reader |-> Shifted(scan[r], slice', k)]
          \/ scan' = [r \in Reader |-> IF scan[r].at = "pinned" THEN scan[r] ELSE Detached(scan[r])]

LEMMA Wrote ==
    ASSUME TablesIInv, slice \in Seq(Sample), NEW p \in Sample, MemWrite(p)
    PROVE  /\ slice' \in Seq(Sample) /\ Ascending(slice') /\ Len(slice) <= Len(slice')
           /\ TSof(slice) \subseteq TSof(slice') /\ TSof(slice') \subseteq TSof(slice) \cup {p.ts}
           /\ \E k \in 0..Len(slice) : WroteSlice(k, p)
<1> DEFINE n == Len(slice)
           k == Search(slice, p.ts)
<1>1. slice \in Seq(Cell) /\ Ascending(slice) /\ p \in Cell /\ p.ts \in Int
  BY SampleCells DEF TablesIInv, KeptInOrder, Cell
<1>2. n \in Nat /\ DOMAIN slice = 1..n /\ \A i \in 1..n : slice[i] \in Sample /\ slice[i].ts \in Int
  BY <1>1, CellTimes
<1>3. k \in 0..n /\ \A i \in 1..n : slice[i].ts < p.ts <=> i <= k
  BY <1>1, <1>2, SearchFinds
<1>4. slice' \in Seq(Cell) /\ Ascending(slice') /\ TSof(slice') \subseteq TSof(slice) \cup {p.ts}
  BY WriteSlice
<1>5. CASE Overwrites(p)
  <2>1. /\ slice' = ReplaceAt(slice, k + 1, p) /\ p.ts \in TSof(slice)
        /\ scan' = [r \in Reader |-> Shifted(scan[r], slice', k)]
    BY <1>5 DEF MemWrite, Overwrite, Overwrites, Replaced, Position
  <2>2. Len(slice') = n /\ \A j \in 1..n : slice'[j].ts = slice[j].ts /\ slice'[j] \in {p, slice[j]}
    BY <1>1, <2>1, ReplaceKeepsOrder
  <2> HIDE DEF k, n
  <2>3. slice' \in Seq(Sample)
    BY <1>2, <1>4, <2>2, Elements
  <2>4. SameTimes(slice, slice')
    BY <1>1, <1>4, <2>2 DEF SameTimes, n
  <2>5. TSof(slice) \subseteq TSof(slice')
    BY <2>4, SameTimesCover
  <2>6. WroteSlice(k, p)
    BY <2>1, <2>4 DEF WroteSlice
  <2> QED
    BY <1>2, <1>3, <1>4, <2>2, <2>3, <2>5, <2>6 DEF n
<1>6. CASE ~Overwrites(p)
  <2>1. /\ slice' = InsertAt(slice, k + 1, p) /\ p.ts \notin TSof(slice)
        /\ \/ scan' = [r \in Reader |-> Shifted(scan[r], slice', k)]
           \/ scan' = [r \in Reader |-> IF scan[r].at = "pinned" THEN scan[r] ELSE Detached(scan[r])]
    BY <1>6 DEF MemWrite, Insert, Overwrites, Inserted, Position
  <2> HIDE DEF k
  <2>2. Inserts(slice', slice, k, p)
    BY <1>1, <1>3, <2>1, InsertedShape
  <2> HIDE DEF n
  <2>3. /\ Len(slice') = n + 1
        /\ \A i \in 1..(n + 1) : slice'[i] = IF i <= k THEN slice[i] ELSE IF i = k + 1 THEN p ELSE slice[i - 1]
    BY <2>2 DEF Inserts, n
  <2>4. \A i \in 1..n : i <= k => i \in 1..(n + 1) /\ slice'[i] = slice[i]
    BY <1>2, <2>3
  <2>5. \A i \in 1..n : i > k => i + 1 \in 1..(n + 1) /\ slice'[i + 1] = slice[i]
    <3> SUFFICES ASSUME NEW i \in 1..n, i > k PROVE i + 1 \in 1..(n + 1) /\ slice'[i + 1] = slice[i]
      OBVIOUS
    <3>1. i + 1 \in 1..(n + 1) /\ ~(i + 1 <= k) /\ i + 1 # k + 1 /\ (i + 1) - 1 = i
      BY <1>2, <1>3
    <3>2. slice'[i + 1] = slice[(i + 1) - 1]
      BY <2>3, <3>1
    <3> QED
      BY <3>1, <3>2
  <2>6. \A i \in 1..(n + 1) : slice'[i] \in Sample
    <3> TAKE i \in 1..(n + 1)
    <3>1. i <= k => i \in 1..n
      BY <1>2, <1>3
    <3>2. i > k + 1 => i - 1 \in 1..n
      BY <1>2, <1>3
    <3> QED
      BY <1>2, <1>3, <2>3, <3>1, <3>2
  <2>7. slice' \in Seq(Sample)
    BY <1>4, <2>3, <2>6, Elements
  <2>8. TSof(slice) \subseteq TSof(slice')
    <3>1. DOMAIN slice' = 1..(n + 1)
      BY <1>4, <2>3
    <3>2. \A i \in 1..n : \E j \in 1..(n + 1) : slice'[j] = slice[i]
      BY <1>2, <1>3, <2>4, <2>5
    <3> QED
      BY <1>2, <3>1, <3>2 DEF TSof
  <2>9. k < n => p.ts < slice[k + 1].ts
    <3>1. k < n => k + 1 \in 1..n /\ ~(k + 1 <= k)
      BY <1>2, <1>3
    <3>2. k < n => slice[k + 1].ts # p.ts
      BY <1>2, <2>1, <3>1 DEF TSof
    <3> QED
      BY <1>1, <1>2, <1>3, <3>1, <3>2
  <2>10. WroteSlice(k, p)
    BY <2>1, <2>2, <2>9 DEF WroteSlice, n
  <2> QED
    BY <1>2, <1>3, <1>4, <2>3, <2>7, <2>8, <2>10 DEF n
<1> HIDE DEF k, n
<1> QED
  BY <1>5, <1>6 DEF n

\* A scan after a point went in below its end, or behind it.
LEMMA PrefixOfInserted ==
    ASSUME NEW sl \in Seq(Sample), NEW new \in Seq(Sample), NEW k \in 0..Len(sl), NEW p \in Sample,
           Inserts(new, sl, k, p), k < Len(sl) => p.ts < sl[k + 1].ts,
           NEW n \in 0..Len(sl)
    PROVE  LET w == SubSeq(sl, 1, n)
               v == SubSeq(new, 1, n)
           IN  /\ v \in Seq(Sample) /\ Len(v) = n
               /\ k < n => Pushes(w, v, k, p) /\ new[k + 1].ts # sl[k + 1].ts
               /\ k >= n => SameTimes(w, v)
<1> DEFINE w == SubSeq(sl, 1, n)
           v == SubSeq(new, 1, n)
<1>1. /\ Len(sl) \in Nat /\ Len(new) = Len(sl) + 1
      /\ \A i \in 1..(Len(sl) + 1) :
             new[i] = IF i <= k THEN sl[i] ELSE IF i = k + 1 THEN p ELSE sl[i - 1]
  BY DEF Inserts
<1>2. n \in 0..Len(new) /\ n \in Nat /\ k \in Nat
  BY <1>1
<1>3. w \in Seq(Sample) /\ Len(w) = n /\ \A i \in 1..n : w[i] = sl[i]
  BY SamplePrefix
<1>4. v \in Seq(Sample) /\ Len(v) = n /\ \A i \in 1..n : v[i] = new[i]
  BY <1>2, SamplePrefix
<1> HIDE DEF w, v
<1>5. \A i \in 1..n : i \in 1..(Len(sl) + 1) /\ i \in 1..Len(sl)
  BY <1>1, <1>2
<1>6. \A i \in 1..n : v[i] = IF i <= k THEN w[i] ELSE IF i = k + 1 THEN p ELSE w[i - 1]
  <2> TAKE i \in 1..n
  <2>1. v[i] = IF i <= k THEN sl[i] ELSE IF i = k + 1 THEN p ELSE sl[i - 1]
    BY <1>1, <1>4, <1>5
  <2>2. i > k + 1 => i - 1 \in 1..n
    BY <1>2
  <2> QED
    BY <1>2, <1>3, <2>1, <2>2
<1>7. w \in Seq(Cell) /\ v \in Seq(Cell) /\ p \in Cell
  BY <1>3, <1>4, SampleCells
<1>8. ASSUME k < n PROVE Pushes(w, v, k, p) /\ new[k + 1].ts # sl[k + 1].ts
  <2>1. k + 1 \in 1..n /\ k \in 0..(n - 1) /\ k < Len(sl) /\ ~(k + 1 <= k)
    BY <1>1, <1>2, <1>8
  <2>2. /\ w[k + 1] = sl[k + 1] /\ new[k + 1] = p
        /\ w[k + 1].ts \in Int /\ p.ts \in Int
    <3>1. w[k + 1] = sl[k + 1]
      BY <1>3, <2>1
    <3>2. new[k + 1] = p
      BY <1>1, <1>5, <2>1
    <3>3. w[k + 1].ts \in Int
      BY <1>3, <1>7, <2>1, CellTimes
    <3> QED
      BY <1>7, <3>1, <3>2, <3>3 DEF Cell
  <2>3. p.ts < sl[k + 1].ts
    BY <2>1
  <2>4. p.ts <= w[k + 1].ts /\ new[k + 1].ts # sl[k + 1].ts
    BY <2>2, <2>3
  <2> QED
    BY <1>3, <1>4, <1>6, <1>7, <2>1, <2>4 DEF Pushes
<1>9. ASSUME k >= n PROVE SameTimes(w, v)
  <2>1. \A i \in 1..n : i <= k
    BY <1>2, <1>9
  <2> QED
    BY <1>3, <1>4, <1>6, <1>7, <2>1 DEF SameTimes
<1> QED
  BY <1>4, <1>8, <1>9 DEF w, v

LEMMA NoticedIs ==
    ASSUME NEW p \in Sample, NEW r \in Reader, query \in [Reader -> QueryType]
    PROVE  /\ Noticing(query[r], Noticed(p)[r])
           /\ query[r].at # "mem" => Noticed(p)[r] = query[r]
           /\ query[r].at = "mem" => Asked(query[r].range, {p.ts}) \subseteq query[r].mem \cup Noticed(p)[r].late
<1> DEFINE q == query[r]
           seen == Asked(q.range, {p.ts}) \ q.mem
           u == [q EXCEPT !.late = @ \cup seen]
<1>1. q \in QueryType
  OBVIOUS
<1>2. seen \in SUBSET Int
  <2>1. p.ts \in Int
    BY MemtableConstants
  <2> QED
    BY <2>1 DEF Asked
<1>3. Noticed(p)[r] = IF q.at = "mem" THEN u ELSE q
  BY DEF Noticed
<1>4. Asked(q.range, {p.ts}) \subseteq q.mem \cup seen
  OBVIOUS
<1> HIDE DEF q, seen
<1>5. /\ u \in QueryType /\ u.late = q.late \cup seen
      /\ u.at = q.at /\ u.range = q.range /\ u.mem = q.mem
      /\ u.pts = q.pts /\ u.before = q.before /\ u.listed = q.listed /\ u.shifts = q.shifts
  BY <1>1, <1>2 DEF QueryType
<1> HIDE DEF u
<1>6. Noticing(q, u) /\ Noticing(q, q)
  BY <1>1, <1>5 DEF Noticing
<1>7. CASE q.at = "mem"
  BY <1>3, <1>4, <1>5, <1>6, <1>7 DEF q
<1>8. CASE q.at # "mem"
  BY <1>3, <1>6, <1>8 DEF q
<1> QED
  BY <1>7, <1>8

LEMMA ShiftedIs ==
    ASSUME slice \in Seq(Sample), NEW s \in ScanType, ~s.own, s.at \in Pinned \ {"pinned"},
           s.len <= Len(slice), NEW q, ScanIInv(q, s, SubSeq(slice, 1, s.len)),
           NEW new \in Seq(Sample), Len(slice) <= Len(new), NEW k
    PROVE  LET t == Shifted(s, new, k)
               v == SubSeq(new, 1, s.len)
           IN  /\ t \in ScanType
               /\ t.at = s.at /\ t.range = s.range /\ t.len = s.len /\ t.lo = s.lo /\ t.seen = Resees(s, v)
               /\ t.shifts = IF k < s.len /\ new[k + 1].ts # slice[k + 1].ts THEN s.shifts + 1 ELSE s.shifts
               /\ ~t.own /\ v \in Seq(Sample) /\ Len(v) = s.len /\ Within(t, new) = v
<1> DEFINE t == Shifted(s, new, k)
           v == SubSeq(new, 1, s.len)
           more == IF k < s.len /\ new[k + 1].ts # slice[k + 1].ts THEN s.shifts + 1 ELSE s.shifts
           cells == [i \in DOMAIN s.seen |-> s.seen[i] \cup {new[s.lo + i]}]
<1>1. s.len \in Nat /\ s.len \in 0..Len(new) /\ s.shifts \in Nat
  BY DEF ScanType
<1>2. v \in Seq(Sample) /\ Len(v) = s.len /\ \A i \in 1..s.len : v[i] = new[i]
  BY <1>1, SamplePrefix
<1>3. t = [s EXCEPT !.shifts = more, !.seen = cells]
  BY DEF Shifted
<1>4. more \in Nat
  BY <1>1
<1>5. cells = Resees(s, v) /\ cells \in Seq(SUBSET Sample)
  <2>1. /\ Resees(s, v) \in Seq(SUBSET Sample) /\ DOMAIN s.seen = 1..Len(s.seen)
        /\ \A i \in 1..Len(s.seen) : s.lo + i \in 1..s.len
    BY <1>2, ReseesType
  <2>2. \A i \in DOMAIN s.seen : v[s.lo + i] = new[s.lo + i]
    BY <1>2, <2>1
  <2>3. cells = Resees(s, v)
    BY <2>2 DEF Resees
  <2> QED
    BY <2>1, <2>3
<1> HIDE DEF t, v, more, cells
<1>6. /\ t \in ScanType /\ t.seen = cells /\ t.shifts = more
      /\ t.at = s.at /\ t.range = s.range /\ t.len = s.len /\ t.lo = s.lo /\ t.own = s.own
  BY <1>3, <1>4, <1>5 DEF ScanType
<1>7. Within(t, new) = v
  BY <1>6 DEF Within, Pinned, v
<1> QED
  BY <1>2, <1>5, <1>6, <1>7 DEF t, v, more

\* A write while a scan reads the array it goes into.
LEMMA InPlaceFits ==
    ASSUME slice \in Seq(Sample), NEW new \in Seq(Sample), Ascending(new), Len(slice) <= Len(new),
           NEW p \in Sample, NEW k \in 0..Len(slice),
           \/ SameTimes(slice, new)
           \/ Inserts(new, slice, k, p) /\ (k < Len(slice) => p.ts < slice[k + 1].ts),
           NEW s, NEW q, NEW st \in Seq(Seq(Sample)), Fits(q, s, slice, st), q.at = "mem",
           ~s.own, s.at \in Pinned \ {"pinned"}, NEW u, Noticing(q, u)
    PROVE  Fits(u, Shifted(s, new, k), new, st)
<1> DEFINE w == SubSeq(slice, 1, s.len)
           v == SubSeq(new, 1, s.len)
           t == Shifted(s, new, k)
<1>1. /\ q \in QueryType /\ s \in ScanType /\ s.len \in 0..Len(slice)
      /\ IsFiniteSet(q.mem) /\ q.mem \subseteq Asked(q.range, q.mem) /\ q.before <= Len(st)
      /\ Within(s, slice) = w /\ ScanIInv(q, s, w)
  <2>1. s.len \in 0..Len(slice)
    BY DEF Fits, ScanType
  <2>2. Within(s, slice) = w
    BY DEF Within
  <2> QED
    BY <2>1, <2>2 DEF Fits
<1>2. /\ t \in ScanType
      /\ t.at = s.at /\ t.range = s.range /\ t.len = s.len /\ t.lo = s.lo /\ t.seen = Resees(s, v)
      /\ t.shifts = IF k < s.len /\ new[k + 1].ts # slice[k + 1].ts THEN s.shifts + 1 ELSE s.shifts
      /\ ~t.own /\ v \in Seq(Sample) /\ Len(v) = s.len /\ Within(t, new) = v
  <2>1. s.len <= Len(slice)
    BY <1>1
  <2>2. s \in ScanType /\ ScanIInv(q, s, SubSeq(slice, 1, s.len))
    BY <1>1
  <2> QED
    BY <2>1, <2>2, ShiftedIs, ZenonT(30)
<1>3. w \in Seq(Sample) /\ Len(w) = s.len /\ \A i \in 1..s.len : w[i] = slice[i]
  BY <1>1, SamplePrefix
<1>4. \A i \in 1..s.len : v[i] = new[i]
  <2>1. s.len \in 0..Len(new)
    BY <1>1
  <2> QED
    BY <2>1, SamplePrefix
<1>5. s.len \in Nat /\ Len(slice) \in Nat /\ k \in Nat /\ DOMAIN v = 1..s.len /\ DOMAIN new = 1..Len(new)
      /\ \A i \in 1..s.len : i \in 1..Len(new) /\ i \in 1..Len(slice)
  BY <1>1, <1>2
<1> HIDE DEF w, v, t
<1>6. ScanIInv(u, t, v)
  <2>1. ASSUME SameTimes(w, v), t.shifts = s.shifts PROVE ScanIInv(u, t, v)
    BY <1>1, <1>2, <2>1, SameTimesScan
  <2>2. CASE SameTimes(slice, new)
    <3>1. \A i \in 1..Len(slice) : new[i].ts = slice[i].ts
      BY <2>2 DEF SameTimes
    <3>2. \A i \in 1..s.len : v[i].ts = w[i].ts
      BY <1>3, <1>4, <1>5, <3>1
    <3>3. SameTimes(w, v)
      BY <1>2, <1>3, <3>2, SampleCells DEF SameTimes
    <3>4. k < s.len => new[k + 1].ts = slice[k + 1].ts
      <4>1. k < s.len => k + 1 \in 1..Len(slice)
        BY <1>1, <1>5
      <4> QED
        BY <3>1, <4>1
    <3>5. t.shifts = s.shifts
      BY <1>2, <3>4
    <3> QED
      BY <2>1, <3>3, <3>5
  <2>3. CASE Inserts(new, slice, k, p) /\ (k < Len(slice) => p.ts < slice[k + 1].ts)
    <3>1. /\ k < s.len => Pushes(w, v, k, p) /\ new[k + 1].ts # slice[k + 1].ts
          /\ k >= s.len => SameTimes(w, v)
      BY <1>1, <2>3, PrefixOfInserted DEF w, v
    <3>2. CASE k < s.len
      <4>1. t.shifts = s.shifts + 1 /\ Pushes(w, v, k, p) /\ p \in Cell
        BY <1>2, <3>1, <3>2, SampleCells
      <4>2. Ascending(v)
        BY <1>4, <1>5 DEF Ascending
      <4> QED
        BY <1>1, <1>2, <4>1, <4>2, PushedScan
    <3>3. CASE ~(k < s.len)
      <4>1. t.shifts = s.shifts /\ SameTimes(w, v)
        BY <1>2, <1>5, <3>1, <3>3
      <4> QED
        BY <2>1, <4>1
    <3> QED
      BY <3>2, <3>3
  <2> QED
    BY <2>2, <2>3
<1>7. t.len <= Len(new)
  BY <1>1, <1>2, <1>5
<1>8. /\ u \in QueryType /\ u.at = "mem" /\ IsFiniteSet(u.mem) /\ u.mem \subseteq Asked(u.range, u.mem)
      /\ u.before <= Len(st)
  BY <1>1 DEF Noticing
<1> QED
  BY <1>2, <1>6, <1>7, <1>8 DEF Fits, t

LEMMA SameList == ASSUME NEW st \in Seq(Seq(Sample)) PROVE Longer(st, st)
<1>1. Len(st) \in Nat
  OBVIOUS
<1> QED
  BY <1>1 DEF Longer

LEMMA WroteFits ==
    ASSUME slice \in Seq(Sample), NEW new \in Seq(Sample), Ascending(new), Len(slice) <= Len(new),
           NEW p \in Sample, TSof(slice) \subseteq TSof(new), TSof(new) \subseteq TSof(slice) \cup {p.ts},
           NEW k \in 0..Len(slice),
           \/ SameTimes(slice, new)
           \/ Inserts(new, slice, k, p) /\ (k < Len(slice) => p.ts < slice[k + 1].ts),
           NEW st \in Seq(Seq(Sample)), NEW q, NEW s, Fits(q, s, slice, st), s.at # "idle" <=> q.at = "mem",
           NEW u, Noticing(q, u), q.at # "mem" => u = q,
           q.at = "mem" => Asked(q.range, {p.ts}) \subseteq q.mem \cup u.late,
           NEW t, \/ t = Shifted(s, new, k)
                  \/ t = IF s.at = "pinned" THEN s ELSE Detached(s)
    PROVE  t \in ScanType /\ Fits(u, t, new, st)
<1>1. /\ s \in ScanType /\ q \in QueryType /\ Longer(st, st)
      /\ Len(slice) \in Nat /\ Len(new) \in Nat /\ s.len \in Nat
  <2>1. s \in ScanType /\ q \in QueryType
    BY DEF Fits
  <2> QED
    BY <2>1, SameList DEF ScanType
<1>2. CASE q.at # "mem"
  <2>1. s.at \notin Pinned /\ s.at # "pinned"
    BY <1>1, <1>2 DEF Pinned
  <2>2. t = s
    BY <2>1 DEF Shifted, Detached
  <2> QED
    BY <1>1, <1>2, <2>2, FitsAside
<1>3. CASE q.at = "mem" /\ s.own
  <2>1. t = s
    BY <1>3 DEF Shifted, Detached
  <2>2. Within(s, new) = Within(s, slice)
    BY <1>3 DEF Within
  <2>3. Fits(u, s, new, st)
    BY <1>1, <1>3, <2>2, FitsKept
  <2> QED
    BY <1>1, <2>1, <2>3
<1>4. CASE q.at = "mem" /\ ~s.own /\ s.at = "pinned"
  <2>1. t = s
    BY <1>4 DEF Shifted
  <2>2. Within(s, new) = new /\ Within(s, slice) = slice
    BY <1>4 DEF Within
  <2>3. /\ IsFiniteSet(q.mem) /\ q.mem \subseteq Asked(q.range, q.mem) /\ q.before <= Len(st)
        /\ ScanIInv(q, s, slice) /\ s.len <= Len(slice)
    BY <1>4, <2>2 DEF Fits
  <2>4. s.range = q.range /\ s.shifts = 0 /\ s.seen = <<>> /\ Accounted(q, slice)
    BY <1>4, <2>3 DEF ScanIInv
  <2>5. Accounted(u, new)
    <3>1. Asked(q.range, TSof(new)) \subseteq Asked(q.range, TSof(slice)) \cup Asked(q.range, {p.ts})
      BY DEF Asked
    <3> QED
      BY <1>4, <2>4, <3>1 DEF Accounted, Noticing
  <2>6. ScanIInv(u, s, new)
    BY <1>4, <2>4, <2>5 DEF ScanIInv, Noticing
  <2>7. s.len <= Len(new)
    BY <1>1, <2>3
  <2>8. Fits(u, s, new, st)
    BY <1>1, <1>4, <2>2, <2>3, <2>6, <2>7 DEF Fits, Noticing
  <2> QED
    BY <1>1, <2>1, <2>8
<1>5. CASE q.at = "mem" /\ ~s.own /\ s.at # "pinned"
  <2>1. s.at \in Pinned \ {"pinned"} /\ s.at \in Pinned
    BY <1>1, <1>5 DEF ScanType
  <2>2. CASE t = Shifted(s, new, k)
    <3>1. Fits(u, Shifted(s, new, k), new, st)
      BY <1>1, <1>5, <2>1, InPlaceFits
    <3> QED
      BY <2>2, <3>1 DEF Fits
  <2>3. CASE t = Detached(s)
    <3>1. /\ t \in ScanType
          /\ t.at = s.at /\ t.range = s.range /\ t.len = s.len /\ t.lo = s.lo /\ t.seen = s.seen
          /\ t.shifts = s.shifts /\ t.own /\ Within(t, new) = Within(s, slice)
      <4>1. s.own \/ s.len <= Len(slice)
        BY <1>5 DEF Fits
      <4> QED
        BY <1>1, <2>1, <2>3, <4>1, DetachedKeeps
    <3>2. Fits(u, t, new, st)
      BY <1>1, <1>5, <3>1, FitsKept
    <3> QED
      BY <3>1, <3>2
  <2> QED
    BY <1>5, <2>2, <2>3
<1> QED
  BY <1>2, <1>3, <1>4, <1>5

LEMMA WriteAnswers ==
    ASSUME TablesIInv, PinsIInv, AnswersIInv, NEW p \in Sample, Write(p) PROVE AnswersIInv'
<1>1. /\ Tables(slice, flight, stored) /\ query \in [Reader -> QueryType]
      /\ \A r \in Reader : Fits(query[r], scan[r], slice, stored)
  BY AnswersIs
<1>2. \A r \in Reader : Scans(scan[r], query[r], gen)
  BY PinsIs
<1>3. MemWrite(p) /\ query' = Noticed(p) /\ flight' = flight /\ stored' = stored
  BY DEF Write
<1>4. /\ slice' \in Seq(Sample) /\ Ascending(slice') /\ Len(slice) <= Len(slice')
      /\ TSof(slice) \subseteq TSof(slice') /\ TSof(slice') \subseteq TSof(slice) \cup {p.ts}
      /\ \E k \in 0..Len(slice) : WroteSlice(k, p)
  BY <1>1, <1>3, Wrote DEF Tables
<1>5. PICK k \in 0..Len(slice) : WroteSlice(k, p)
  BY <1>4
<1>6. scan' = [r \in Reader |-> scan'[r]]
  BY <1>5 DEF WroteSlice
<1>7. \A r \in Reader : scan'[r] \in ScanType /\ Fits(query'[r], scan'[r], slice', stored')
  <2> TAKE r \in Reader
  <2> DEFINE q == query[r]
             s == scan[r]
             u == query'[r]
             t == scan'[r]
  <2>1. /\ SameTimes(slice, slice') \/ (Inserts(slice', slice, k, p) /\ (k < Len(slice) => p.ts < slice[k + 1].ts))
        /\ t = Shifted(s, slice', k) \/ t = IF s.at = "pinned" THEN s ELSE Detached(s)
    BY <1>5 DEF WroteSlice
  <2>2. /\ Noticing(q, u)
        /\ q.at # "mem" => u = q
        /\ q.at = "mem" => Asked(q.range, {p.ts}) \subseteq q.mem \cup u.late
    BY <1>1, <1>3, NoticedIs
  <2>3. s.at # "idle" <=> q.at = "mem"
    BY <1>2 DEF Scans
  <2>4. Fits(q, s, slice, stored) /\ slice \in Seq(Sample) /\ stored \in Seq(Seq(Sample))
    BY <1>1 DEF Tables
  <2> HIDE DEF q, s, u, t
  <2>5. t \in ScanType /\ Fits(u, t, slice', stored)
    BY <1>4, <2>1, <2>2, <2>3, <2>4, WroteFits
  <2> QED
    BY <1>3, <2>5 DEF u, t
<1>8. scan' \in [Reader -> ScanType]
  BY <1>6, <1>7
<1>9. query' \in [Reader -> QueryType]
  <2>1. \A r \in Reader : query'[r] \in QueryType
    BY <1>7 DEF Fits
  <2>2. query' = [r \in Reader |-> query'[r]]
    BY <1>3 DEF Noticed
  <2> QED
    BY <2>1, <2>2
<1> QED
  BY <1>1, <1>3, <1>4, <1>7, <1>8, <1>9, AnswersIsNext DEF Tables

-----------------------------------------------------------------------------
(* The other steps. *)

LEMMA IdleFits ==
    ASSUME NEW sl, NEW st, NEW s \in ScanType PROVE NoQuery \in QueryType /\ NoScan \in ScanType /\ Fits(NoQuery, s, sl, st)
<1>1. NoQuery \in QueryType /\ NoScan \in ScanType
  BY DEF NoQuery, QueryType, NoScan, ScanType
<1>2. NoQuery.at = "idle"
  BY DEF NoQuery
<1> QED
  BY <1>1, <1>2 DEF Fits

LEMMA InitAnswers == Init => AnswersIInv
<1> SUFFICES ASSUME Init PROVE AnswersIInv
  OBVIOUS
<1>1. /\ slice = <<>> /\ flight = <<>> /\ stored = <<>>
      /\ scan = [r \in Reader |-> NoScan] /\ query = [r \in Reader |-> NoQuery]
  BY DEF Init, MemInit
<1>2. NoScan \in ScanType /\ NoQuery \in QueryType /\ Fits(NoQuery, NoScan, slice, stored)
  <2>1. NoScan \in ScanType
    BY DEF NoScan, ScanType
  <2> QED
    BY <2>1, IdleFits
<1>3. Tables(slice, flight, stored)
  BY <1>1 DEF Tables
<1> QED
  BY <1>1, <1>2, <1>3, AnswersIs

LEMMA RaceAnswers == ASSUME NEW r \in Reader, MapRace(r) PROVE AnswersIInv'
<1>1. /\ slice' = <<>> /\ flight' = <<>> /\ stored' = <<>>
      /\ scan' = [q \in Reader |-> NoScan] /\ query' = [q \in Reader |-> NoQuery]
  BY DEF MapRace
<1>2. NoScan \in ScanType /\ NoQuery \in QueryType /\ Fits(NoQuery, NoScan, slice', stored')
  <2>1. NoScan \in ScanType
    BY DEF NoScan, ScanType
  <2> QED
    BY <2>1, IdleFits
<1>3. Tables(slice', flight', stored')
  BY <1>1 DEF Tables
<1> QED
  BY <1>1, <1>2, <1>3, AnswersIsNext

\* One reader takes a step.
LEMMA OneFits ==
    ASSUME AnswersIInv, NEW r \in Reader, NEW q, NEW t \in ScanType, Fits(q, t, slice, stored),
           UNCHANGED <<slice, flight, stored>>,
           scan' = [scan EXCEPT ![r] = t] \/ (scan' = scan /\ t = scan[r]),
           query' = [query EXCEPT ![r] = q] \/ (query' = query /\ q = query[r])
    PROVE  AnswersIInv'
<1>1. /\ Tables(slice, flight, stored) /\ scan \in [Reader -> ScanType] /\ query \in [Reader -> QueryType]
      /\ \A k \in Reader : Fits(query[k], scan[k], slice, stored)
  BY AnswersIs
<1>2. q \in QueryType
  BY DEF Fits
<1>3. /\ scan' \in [Reader -> ScanType] /\ scan'[r] = t
      /\ \A k \in Reader : k # r => scan'[k] = scan[k]
  BY <1>1
<1>4. /\ query' \in [Reader -> QueryType] /\ query'[r] = q
      /\ \A k \in Reader : k # r => query'[k] = query[k]
  BY <1>1, <1>2
<1>5. \A k \in Reader : Fits(query'[k], scan'[k], slice', stored')
  BY <1>1, <1>3, <1>4
<1>6. Tables(slice', flight', stored')
  BY <1>1
<1> QED
  BY <1>3, <1>4, <1>5, <1>6, AnswersIsNext

\* A flush takes the table.
LEMMA SwapFits ==
    ASSUME slice \in Seq(Sample), NEW st \in Seq(Seq(Sample)), NEW q, NEW s, Fits(q, s, slice, st),
           s.at # "idle" <=> q.at = "mem", NEW new
    PROVE  Detached(s) \in ScanType /\ Fits(q, Detached(s), new, st)
<1>1. s \in ScanType /\ q \in QueryType /\ Longer(st, st)
  BY SameList DEF Fits
<1>2. CASE q.at = "mem"
  <2> DEFINE t == Detached(s)
  <2>1. s.at \in Pinned /\ (s.own \/ s.len <= Len(slice)) /\ Noticing(q, q)
    BY <1>1, <1>2 DEF Fits, ScanType, Noticing
  <2>2. /\ t \in ScanType
        /\ t.at = s.at /\ t.range = s.range /\ t.len = s.len /\ t.lo = s.lo /\ t.seen = s.seen
        /\ t.shifts = s.shifts /\ t.own /\ Within(t, new) = Within(s, slice)
    BY <1>1, <2>1, DetachedKeeps
  <2> HIDE DEF t
  <2>3. Fits(q, t, new, st)
    BY <1>1, <1>2, <2>1, <2>2, FitsKept
  <2> QED
    BY <2>2, <2>3 DEF t
<1>3. CASE q.at # "mem"
  <2>1. Detached(s) = s
    BY <1>3 DEF Detached, Pinned
  <2> QED
    BY <1>1, <1>3, <2>1, FitsAside
<1> QED
  BY <1>2, <1>3

LEMMA SwapAnswers == ASSUME PinsIInv, AnswersIInv, Swap PROVE AnswersIInv'
<1>1. /\ Tables(slice, flight, stored) /\ query \in [Reader -> QueryType]
      /\ \A r \in Reader : Fits(query[r], scan[r], slice, stored)
      /\ slice \in Seq(Sample) /\ stored \in Seq(Seq(Sample))
  BY AnswersIs DEF Tables
<1>2. /\ slice' = <<>> /\ flight' = slice /\ stored' = stored /\ query' = query
      /\ scan' = [r \in Reader |-> Detached(scan[r])]
  BY DEF Swap, MemFlush
<1>3. \A r \in Reader : scan[r].at # "idle" <=> query[r].at = "mem"
  BY PinsIs DEF Scans
<1>4. \A r \in Reader : Detached(scan[r]) \in ScanType /\ Fits(query[r], Detached(scan[r]), slice', stored)
  BY <1>1, <1>3, SwapFits
<1>5. Tables(slice', flight', stored')
  BY <1>1, <1>2 DEF Tables
<1>6. scan' \in [Reader -> ScanType] /\ \A r \in Reader : scan'[r] = Detached(scan[r])
  BY <1>2, <1>4
<1> QED
  BY <1>1, <1>2, <1>4, <1>5, <1>6, AnswersIsNext

LEMMA EndAnswers == ASSUME AnswersIInv, EndFlush PROVE AnswersIInv'
<1>1. /\ Tables(slice, flight, stored) /\ scan \in [Reader -> ScanType] /\ query \in [Reader -> QueryType]
      /\ \A r \in Reader : Fits(query[r], scan[r], slice, stored)
      /\ slice \in Seq(Sample) /\ flight \in Seq(Sample) /\ stored \in Seq(Seq(Sample))
  BY AnswersIs DEF Tables
<1>2. /\ slice' = slice /\ flight' = <<>> /\ scan' = scan /\ query' = query
      /\ stored' = Append(stored, flight) \/ stored' = stored
  BY DEF EndFlush
<1>3. Longer(stored, stored')
  <2>1. CASE stored' = stored
    BY <1>1, <2>1, SameList
  <2>2. CASE stored' = Append(stored, flight)
    <3>1. /\ stored' \in Seq(Seq(Sample)) /\ Len(stored') = Len(stored) + 1 /\ Len(stored) \in Nat
          /\ \A i \in 1..Len(stored) : stored'[i] = stored[i]
      BY <1>1, <2>2
    <3> QED
      BY <1>1, <3>1 DEF Longer
  <2> QED
    BY <1>2, <2>1, <2>2
<1>4. ASSUME NEW q, NEW s, Fits(q, s, slice, stored) PROVE Fits(q, s, slice, stored')
  <2>1. s \in ScanType /\ q \in QueryType
    BY <1>4 DEF Fits
  <2>2. CASE q.at # "mem"
    BY <1>3, <1>4, <2>1, <2>2, FitsAside
  <2>3. CASE q.at = "mem"
    <3>1. Noticing(q, q) /\ (s.own \/ s.len <= Len(slice))
      BY <1>4, <2>1, <2>3 DEF Noticing, Fits
    <3> QED
      BY <1>3, <1>4, <2>1, <2>3, <3>1, FitsKept
  <2> QED
    BY <2>2, <2>3
<1>5. Tables(slice', flight', stored')
  BY <1>1, <1>2, <1>3 DEF Tables, Longer
<1> QED
  BY <1>1, <1>2, <1>4, <1>5, AnswersIsNext

\* Timestamps are no more than the points that have them.
LEMMA CoverTimes ==
    ASSUME NEW w \in Seq(Cell), NEW rng, NEW T, T \subseteq TSof(w), T \subseteq Asked(rng, T)
    PROVE  IsFiniteSet(T) /\ Cardinality(T) \in Nat /\ Cardinality(T) <= Cardinality(Covered(rng, w))
<1> DEFINE K == {k \in Covered(rng, w) : w[k].ts \in T}
           f == [k \in K |-> w[k].ts]
<1>1. DOMAIN w = 1..Len(w) /\ Len(w) \in Nat
  OBVIOUS
<1>2. IsFiniteSet(Covered(rng, w)) /\ Cardinality(Covered(rng, w)) \in Nat
  BY CoveredFinite
<1>3. \A t \in T : \E k \in K : f[k] = t
  <2> TAKE t \in T
  <2>1. PICK k \in DOMAIN w : w[k].ts = t
    BY DEF TSof
  <2>2. k \in K
    BY <2>1 DEF Covered, Asked
  <2> QED
    BY <2>1, <2>2
<1>4. f \in [K -> T]
  OBVIOUS
<1>5. K \in SUBSET Covered(rng, w)
  OBVIOUS
<1> HIDE DEF K, f
<1>6. f \in Surjection(K, T)
  BY <1>3, <1>4 DEF Surjection
<1>7. IsFiniteSet(K) /\ Cardinality(K) <= Cardinality(Covered(rng, w)) /\ Cardinality(K) \in Nat
  BY <1>2, <1>5, FS_Subset, FS_CardinalityType
<1>8. IsFiniteSet(T) /\ Cardinality(T) <= Cardinality(K)
  BY <1>6, <1>7, FS_Surjection
<1>9. Cardinality(T) \in Nat
  BY <1>8, FS_CardinalityType
<1> QED
  BY <1>2, <1>7, <1>8, <1>9

LEMMA BeginAnswers ==
    ASSUME TablesIInv, AnswersIInv, NEW r \in Reader, NEW rng \in Ranges, Begin(r, rng), gen \in Nat
    PROVE  AnswersIInv'
<1> DEFINE mem == Asked(rng, TSof(slice))
           t == [NoScan EXCEPT !.at = "pinned", !.range = rng, !.gen = gen]
           q == [NoQuery EXCEPT !.at = "mem", !.range = rng, !.mem = mem, !.before = Len(stored)]
<1>1. /\ slice \in Seq(Sample) /\ stored \in Seq(Seq(Sample)) /\ Len(stored) \in Nat /\ Len(slice) \in Nat
      /\ slice \in Seq(Cell) /\ Ascending(slice) /\ rng \in Int \X Int
  BY AnswersIs, MemtableConstants DEF Tables, TablesIInv, KeptInOrder
<1>2. scan' = [scan EXCEPT ![r] = t] /\ query' = [query EXCEPT ![r] = q] /\ UNCHANGED <<slice, flight, stored>>
  BY DEF Begin, Latest
<1>3. /\ mem \subseteq TSof(slice) /\ mem \subseteq Asked(rng, mem) /\ Asked(rng, TSof(slice)) \subseteq mem
  BY DEF Asked
<1>4. mem \in SUBSET Int
  <2>1. DOMAIN slice = 1..Len(slice) /\ \A i \in 1..Len(slice) : slice[i].ts \in Int
    BY <1>1, CellTimes
  <2>2. TSof(slice) \subseteq Int
    BY <2>1 DEF TSof
  <2> QED
    BY <1>3, <2>2
<1> HIDE DEF mem
<1>5. IsFiniteSet(mem)
  BY <1>1, <1>3, CoverTimes
<1>6. /\ t \in ScanType /\ t.at = "pinned" /\ t.range = rng /\ ~t.own /\ t.len = 0 /\ t.seen = <<>> /\ t.shifts = 0
  <2>1. NoScan \in ScanType
    BY DEF NoScan, ScanType
  <2>2. ~NoScan.own /\ NoScan.len = 0 /\ NoScan.seen = <<>> /\ NoScan.shifts = 0
    BY DEF NoScan
  <2> QED
    BY <1>1, <2>1, <2>2 DEF ScanType, Pinned
<1>7. /\ q \in QueryType /\ q.at = "mem" /\ q.range = rng /\ q.mem = mem /\ q.before = Len(stored)
  <2>1. NoQuery \in QueryType
    BY DEF NoQuery, QueryType
  <2> QED
    BY <1>1, <1>4, <2>1 DEF QueryType
<1> HIDE DEF t, q
<1>8. Within(t, slice) = slice
  BY <1>6 DEF Within
<1>9. Accounted(q, slice)
  BY <1>3, <1>7 DEF Accounted
<1>10. ScanIInv(q, t, slice)
  BY <1>1, <1>6, <1>7, <1>9 DEF ScanIInv
<1>11. Fits(q, t, slice, stored)
  BY <1>1, <1>3, <1>5, <1>6, <1>7, <1>8, <1>10 DEF Fits
<1> QED
  BY <1>2, <1>6, <1>11, OneFits

\* What the invariant says of the scan of a reader.
LEMMA ScanIs ==
    ASSUME AnswersIInv, PinsIInv, NEW r \in Reader, NEW at, scan[r].at = at, at \in Pinned
    PROVE  /\ query[r] \in QueryType /\ scan[r] \in ScanType /\ query[r].at = "mem"
           /\ IsFiniteSet(query[r].mem) /\ Cardinality(query[r].mem) \in Nat
           /\ query[r].mem \subseteq Asked(query[r].range, query[r].mem)
           /\ query[r].before <= Len(stored)
           /\ ScanIInv(query[r], scan[r], Within(scan[r], slice))
           /\ scan[r].own \/ scan[r].len <= Len(slice)
           /\ at # "pinned" => Within(scan[r], slice) = Cells(r)
           /\ slice \in Seq(Sample)
           /\ query[r].range[1] \in Int /\ query[r].range[2] \in Int
<1>1. Fits(query[r], scan[r], slice, stored) /\ slice \in Seq(Sample)
  BY AnswersIs DEF Tables
<1>2. query[r].at = "mem"
  BY PinsIs DEF Scans, Pinned
<1>3. at # "pinned" => Within(scan[r], slice) = Cells(r)
  BY DEF Within, Cells
<1>4. IsFiniteSet(query[r].mem) /\ Cardinality(query[r].mem) \in Nat
  BY <1>1, <1>2, FS_CardinalityType DEF Fits
<1>5. query[r].range[1] \in Int /\ query[r].range[2] \in Int
  <2>1. query[r].range \in Int \X Int
    BY <1>1 DEF Fits, QueryType
  <2> QED
    BY <2>1
<1> QED
  BY <1>1, <1>2, <1>3, <1>4, <1>5 DEF Fits

LEMMA ReadMapAnswers == ASSUME PinsIInv, AnswersIInv, NEW r \in Reader, ReadMap(r) PROVE AnswersIInv'
<1> DEFINE n == IF scan[r].own THEN Len(scan[r].view) ELSE Len(slice)
           t == [scan[r] EXCEPT !.at = "looked", !.len = n]
<1>1. /\ scan[r].at = "pinned" /\ scan' = [scan EXCEPT ![r] = t]
      /\ UNCHANGED <<slice, flight, stored, query>>
  BY DEF ReadMap, Lookup
<1>2. PICK q, s, w : q = query[r] /\ s = scan[r] /\ w = Within(scan[r], slice)
  OBVIOUS
<1>3. /\ q \in QueryType /\ s \in ScanType /\ q.at = "mem" /\ s.at = "pinned"
      /\ IsFiniteSet(q.mem) /\ Cardinality(q.mem) \in Nat /\ q.mem \subseteq Asked(q.range, q.mem)
      /\ q.before <= Len(stored) /\ ScanIInv(q, s, w) /\ slice \in Seq(Sample)
      /\ q.range[1] \in Int /\ q.range[2] \in Int
  BY <1>1, <1>2, ScanIs DEF Pinned
<1>4. /\ w \in Seq(Sample) /\ Ascending(w) /\ s.range = q.range /\ s.shifts = 0 /\ s.seen = <<>>
      /\ Accounted(q, w) /\ w \in Seq(Cell)
  BY <1>3, SampleCells DEF ScanIInv
<1>5. w = IF s.own THEN s.view ELSE slice
  BY <1>1, <1>2 DEF Within
<1>6. n = Len(w) /\ n \in Nat
  BY <1>2, <1>4, <1>5
<1> HIDE DEF n
<1>7. /\ t \in ScanType /\ t.at = "looked" /\ t.len = Len(w) /\ t.own = s.own /\ t.view = s.view
      /\ t.range = q.range /\ t.shifts = 0 /\ t.seen = <<>>
  BY <1>2, <1>3, <1>4, <1>6 DEF ScanType, Pinned
<1> HIDE DEF t
<1>8. Within(t, slice) = w
  <2>1. CASE s.own
    BY <1>5, <1>7, <2>1 DEF Within
  <2>2. CASE ~s.own
    <3>1. SubSeq(slice, 1, Len(slice)) = slice
      BY <1>3, SubSeqFull
    <3> QED
      BY <1>5, <1>7, <2>2, <3>1 DEF Within
  <2> QED
    BY <2>1, <2>2
<1>9. LookedIInv(q, t, w)
  <2>1. Cardinality(q.mem) <= Cardinality(Covered(q.range, w))
    BY <1>3, <1>4, CoverTimes DEF Accounted
  <2>2. Cardinality(Covered(q.range, w)) \in Nat
    BY <1>4, CoveredFinite
  <2> QED
    BY <1>3, <1>7, <2>1, <2>2 DEF LookedIInv
<1>10. ScanIInv(q, t, w)
  BY <1>4, <1>7, <1>9 DEF ScanIInv
<1>11. t.own \/ t.len <= Len(slice)
  BY <1>5, <1>6, <1>7
<1>12. Fits(q, t, slice, stored)
  BY <1>3, <1>7, <1>8, <1>10, <1>11 DEF Fits
<1> QED
  BY <1>1, <1>2, <1>7, <1>12, OneFits

\* Both searches of a scan that met no insertion.
LEMMA ScanBounds ==
    ASSUME NEW w \in Seq(Sample), Ascending(w), NEW rng, rng[1] \in Int, rng[2] \in Int
    PROVE  /\ Covered(rng, w) = (Search(w, rng[1]) + 1)..Search(w, rng[2])
           /\ Search(w, rng[1]) \in 0..Len(w) /\ Search(w, rng[2]) \in 0..Len(w)
           /\ \A i \in 1..Len(w) : w[i].ts < rng[2] <=> i <= Search(w, rng[2])
           /\ \A lo \in Nat : Below(w, lo, rng[2]) = (lo + 1)..Search(w, rng[2])
<1> DEFINE lo == Search(w, rng[1])
           hi == Search(w, rng[2])
<1>1. w \in Seq(Cell) /\ DOMAIN w = 1..Len(w) /\ Len(w) \in Nat
  BY SampleCells
<1>2. lo \in 0..Len(w) /\ hi \in 0..Len(w)
  BY <1>1, SearchFinds
<1>3. \A i \in 1..Len(w) : w[i].ts < rng[1] <=> i <= lo
  BY <1>1, SearchFinds
<1>4. \A i \in 1..Len(w) : w[i].ts < rng[2] <=> i <= hi
  BY <1>1, SearchFinds
<1>5. \A i \in 1..Len(w) : w[i].ts \in Int
  BY <1>1, CellTimes
<1> HIDE DEF lo, hi
<1>6. \A i \in 1..Len(w) : rng[1] <= w[i].ts <=> i > lo
  BY <1>2, <1>3, <1>5
<1>7. Covered(rng, w) = {i \in 1..Len(w) : i > lo /\ i <= hi}
  BY <1>1, <1>4, <1>6 DEF Covered
<1>8. {i \in 1..Len(w) : i > lo /\ i <= hi} = (lo + 1)..hi
  BY <1>1, <1>2
<1>9. ASSUME NEW l \in Nat PROVE Below(w, l, rng[2]) = (l + 1)..hi
  <2>1. \A k \in (l + 1)..Len(w) : k \in 1..Len(w)
    BY <1>1
  <2>2. Below(w, l, rng[2]) = {k \in (l + 1)..Len(w) : k <= hi}
    BY <1>4, <2>1 DEF Below
  <2>3. {k \in (l + 1)..Len(w) : k <= hi} = (l + 1)..hi
    BY <1>1, <1>2
  <2> QED
    BY <2>2, <2>3
<1> QED
  BY <1>2, <1>4, <1>7, <1>8, <1>9 DEF lo, hi

LEMMA ReadLoAnswers == ASSUME PinsIInv, AnswersIInv, NEW r \in Reader, ReadLo(r) PROVE AnswersIInv'
<1> DEFINE lo == Search(Cells(r), scan[r].range[1])
           t == [scan[r] EXCEPT !.at = "searched", !.lo = lo]
<1>1. /\ scan[r].at = "looked" /\ scan' = [scan EXCEPT ![r] = t]
      /\ UNCHANGED <<slice, flight, stored, query>>
  BY DEF ReadLo, SearchLo
<1>2. PICK q, s, w : q = query[r] /\ s = scan[r] /\ w = Within(scan[r], slice)
  OBVIOUS
<1>3. /\ q \in QueryType /\ s \in ScanType /\ q.at = "mem" /\ s.at = "looked"
      /\ IsFiniteSet(q.mem) /\ Cardinality(q.mem) \in Nat /\ q.mem \subseteq Asked(q.range, q.mem)
      /\ q.before <= Len(stored) /\ ScanIInv(q, s, w) /\ slice \in Seq(Sample)
      /\ s.own \/ s.len <= Len(slice)
      /\ q.range[1] \in Int /\ q.range[2] \in Int
      /\ w = Cells(r)
  BY <1>1, <1>2, ScanIs DEF Pinned
<1>4. /\ w \in Seq(Sample) /\ Ascending(w) /\ s.range = q.range /\ s.seen = <<>>
      /\ s.len = Len(w) /\ LookedIInv(q, s, w)
      /\ s.shifts = 0 => Accounted(q, w)
  BY <1>3 DEF ScanIInv
<1>5. lo = Search(w, q.range[1])
  BY <1>2, <1>3, <1>4
<1>6. lo \in 0..Len(w) /\ lo \in Nat /\ Covered(q.range, w) = Below(w, lo, q.range[2])
  <2>1. Search(w, q.range[1]) \in 0..Len(w)
    BY <1>3, <1>4, ScanBounds
  <2>2. Search(w, q.range[1]) \in Nat
    BY <2>1
  <2>3. Covered(q.range, w) = Below(w, Search(w, q.range[1]), q.range[2])
    BY <1>3, <1>4, <2>2, ScanBounds
  <2> QED
    BY <1>5, <2>1, <2>2, <2>3
<1> HIDE DEF lo
<1>7. /\ t \in ScanType /\ t.at = "searched" /\ t.len = s.len /\ t.own = s.own /\ t.view = s.view
      /\ t.range = q.range /\ t.shifts = s.shifts /\ t.seen = <<>> /\ t.lo = lo
  BY <1>2, <1>3, <1>4, <1>6 DEF ScanType, Pinned
<1> HIDE DEF t
<1>8. Within(t, slice) = w
  BY <1>1, <1>2, <1>7 DEF Within
<1>9. SearchedIInv(q, t, w)
  BY <1>3, <1>4, <1>5, <1>6, <1>7 DEF SearchedIInv, LookedIInv
<1>10. ScanIInv(q, t, w)
  BY <1>4, <1>7, <1>9 DEF ScanIInv
<1>11. Fits(q, t, slice, stored)
  BY <1>3, <1>7, <1>8, <1>10 DEF Fits
<1> QED
  BY <1>1, <1>2, <1>7, <1>11, OneFits

LEMMA ReadHiAnswers == ASSUME PinsIInv, AnswersIInv, NEW r \in Reader, ReadHi(r) PROVE AnswersIInv'
<1> DEFINE hi == Search(Cells(r), scan[r].range[2])
           seen == [i \in 1..(hi - scan[r].lo) |-> {Cells(r)[scan[r].lo + i]}]
           t == [scan[r] EXCEPT !.at = "copying", !.seen = seen]
<1>1. /\ scan[r].at = "searched" /\ hi >= scan[r].lo /\ scan' = [scan EXCEPT ![r] = t]
      /\ UNCHANGED <<slice, flight, stored, query>>
  BY DEF ReadHi, SearchHi
<1>2. PICK q, s, w : q = query[r] /\ s = scan[r] /\ w = Within(scan[r], slice)
  OBVIOUS
<1>3. /\ q \in QueryType /\ s \in ScanType /\ q.at = "mem" /\ s.at = "searched"
      /\ IsFiniteSet(q.mem) /\ Cardinality(q.mem) \in Nat /\ q.mem \subseteq Asked(q.range, q.mem)
      /\ q.before <= Len(stored) /\ ScanIInv(q, s, w) /\ slice \in Seq(Sample)
      /\ s.own \/ s.len <= Len(slice)
      /\ q.range[1] \in Int /\ q.range[2] \in Int
      /\ w = Cells(r)
  BY <1>1, <1>2, ScanIs DEF Pinned
<1>4. /\ w \in Seq(Sample) /\ Ascending(w) /\ s.range = q.range /\ s.len = Len(w) /\ Len(w) \in Nat
      /\ s.lo \in Nat /\ s.shifts \in Nat /\ s.lo <= s.len
      /\ s.shifts = 0 => s.lo = Search(w, q.range[1]) /\ Accounted(q, w)
      /\ Cardinality(q.mem) <= Cardinality(Below(w, s.lo, q.range[2])) + s.shifts
  <2>1. s.lo \in Nat /\ s.shifts \in Nat
    BY <1>3 DEF ScanType
  <2> QED
    BY <1>3, <2>1 DEF ScanIInv, SearchedIInv
<1>5. hi = Search(w, q.range[2]) /\ hi >= s.lo /\ seen = [i \in 1..(hi - s.lo) |-> {w[s.lo + i]}]
  BY <1>1, <1>2, <1>3, <1>4
<1> HIDE DEF hi, seen
<1>6. /\ hi \in 0..Len(w) /\ \A i \in 1..Len(w) : w[i].ts < q.range[2] <=> i <= hi
      /\ Below(w, s.lo, q.range[2]) = (s.lo + 1)..hi
      /\ s.shifts = 0 => Covered(q.range, w) = (s.lo + 1)..hi
  <2>1. Covered(q.range, w) = (Search(w, q.range[1]) + 1)..hi
    BY <1>3, <1>4, <1>5, ScanBounds
  <2>2. hi \in 0..Len(w) /\ \A i \in 1..Len(w) : w[i].ts < q.range[2] <=> i <= hi
    BY <1>3, <1>4, <1>5, ScanBounds
  <2>3. Below(w, s.lo, q.range[2]) = (s.lo + 1)..hi
    <3>1. \A l \in Nat : Below(w, l, q.range[2]) = (l + 1)..Search(w, q.range[2])
      BY <1>3, <1>4, ScanBounds
    <3> QED
      BY <1>4, <1>5, <3>1
  <2> QED
    BY <1>4, <2>1, <2>2, <2>3
<1>7. Cardinality((s.lo + 1)..hi) = hi - s.lo /\ hi - s.lo \in Nat
  <2>1. s.lo + 1 \in Int /\ hi \in Int /\ hi - s.lo \in Nat
    BY <1>4, <1>5, <1>6
  <2>2. Cardinality((s.lo + 1)..hi) = IF s.lo + 1 > hi THEN 0 ELSE hi - (s.lo + 1) + 1
    BY <2>1, FS_Interval
  <2> QED
    BY <1>4, <1>5, <1>6, <2>1, <2>2
<1>8. \A i \in 1..(hi - s.lo) : s.lo + i \in 1..Len(w) /\ s.lo + i <= hi /\ w[s.lo + i] \in Sample
  <2> SUFFICES ASSUME NEW i \in 1..(hi - s.lo)
               PROVE  s.lo + i \in 1..Len(w) /\ s.lo + i <= hi /\ w[s.lo + i] \in Sample
    OBVIOUS
  <2> DEFINE j == s.lo + i
  <2>1. j \in 1..Len(w) /\ j <= hi
    BY <1>4, <1>5, <1>6
  <2> HIDE DEF j
  <2>2. w[j] \in Sample
    BY <1>4, <2>1
  <2> QED
    BY <2>1, <2>2 DEF j
<1>9. /\ seen \in Seq(SUBSET Sample) /\ Len(seen) = hi - s.lo /\ DOMAIN seen = 1..(hi - s.lo)
      /\ \A i \in 1..(hi - s.lo) : seen[i] = {w[s.lo + i]}
  <2>1. \A i \in 1..(hi - s.lo) : {w[s.lo + i]} \in SUBSET Sample
    BY <1>8
  <2>2. seen \in [1..(hi - s.lo) -> SUBSET Sample]
    BY <1>5, <2>1
  <2>3. seen \in Seq(SUBSET Sample) /\ Len(seen) = hi - s.lo /\ DOMAIN seen = 1..(hi - s.lo)
    BY <1>7, <2>2
  <2> QED
    BY <1>5, <2>3
<1>10. /\ t \in ScanType /\ t.at = "copying" /\ t.len = s.len /\ t.own = s.own /\ t.view = s.view
       /\ t.range = q.range /\ t.shifts = s.shifts /\ t.seen = seen /\ t.lo = s.lo
  BY <1>2, <1>3, <1>4, <1>9 DEF ScanType, Pinned
<1> HIDE DEF t
<1>11. Within(t, slice) = w
  BY <1>1, <1>2, <1>10 DEF Within
<1>12. CopyingIInv(q, t, w)
  <2>1. \A i \in 1..(hi - s.lo) : /\ w[s.lo + i] \in seen[i]
                                  /\ \A c \in seen[i] : c = w[s.lo + i] /\ c.ts < q.range[2]
    BY <1>6, <1>8, <1>9
  <2>2. s.lo + Len(seen) = hi /\ hi <= s.len
    BY <1>4, <1>6, <1>9
  <2>3. Cardinality(q.mem) <= Len(seen) + s.shifts
    BY <1>4, <1>6, <1>7, <1>9
  <2> QED
    BY <1>6, <1>9, <1>10, <2>1, <2>2, <2>3 DEF CopyingIInv
<1>13. ScanIInv(q, t, w)
  BY <1>4, <1>10, <1>12 DEF ScanIInv
<1>14. Fits(q, t, slice, stored)
  BY <1>3, <1>10, <1>11, <1>13 DEF Fits
<1> QED
  BY <1>1, <1>2, <1>10, <1>14, OneFits

\* A copy is made of words of what was in its cells meanwhile.
CopyOf(out, seen) ==
    /\ DOMAIN out = DOMAIN seen
    /\ \A i \in DOMAIN seen : \E a \in seen[i], b \in seen[i] : out[i] = [ts |-> a.ts, val |-> b.val]

LEMMA CopiesShape ==
    ASSUME NEW seen \in Seq(SUBSET Sample), NEW W, NEW out \in [DOMAIN seen -> W], CopyOf(out, seen)
    PROVE  out \in Seq(Cell) /\ Len(out) = Len(seen)
<1>1. DOMAIN seen = 1..Len(seen) /\ Len(seen) \in Nat /\ \A i \in 1..Len(seen) : seen[i] \in SUBSET Sample
  OBVIOUS
<1>2. \A i \in 1..Len(seen) : out[i] \in Cell
  <2> TAKE i \in 1..Len(seen)
  <2>1. PICK a \in seen[i], b \in seen[i] : out[i] = [ts |-> a.ts, val |-> b.val]
    BY <1>1 DEF CopyOf
  <2>2. a \in Cell /\ b \in Cell
    BY <1>1, SampleCells
  <2> QED
    BY <2>1, <2>2 DEF Cell
<1>3. out \in [1..Len(seen) -> Cell]
  BY <1>1, <1>2
<1>4. out \in Seq(Cell) /\ Len(out) = Len(seen)
  BY <1>1, <1>3
<1> QED
  BY <1>4

\* What is copied is what a query has got from memory.
LEMMA CopyGot ==
    ASSUME NEW q \in QueryType, NEW s \in ScanType, NEW w, ScanIInv(q, s, w), s.at = "copying",
           q.mem \subseteq Asked(q.range, q.mem),
           NEW out \in Seq(Cell), Len(out) = Len(s.seen), CopyOf(out, s.seen),
           NEW u \in QueryType, u.mem = q.mem, u.late = q.late, u.range = q.range, u.pts = out, u.shifts = s.shifts
    PROVE  GotIInv(u)
<1> DEFINE n == Len(out)
<1>1. /\ n \in Nat /\ DOMAIN out = 1..n /\ s.seen \in Seq(SUBSET Sample) /\ DOMAIN s.seen = 1..n
      /\ s.lo \in Nat /\ s.len \in Nat /\ s.shifts \in Nat
  BY DEF ScanType
<1> HIDE DEF n
<1>2. /\ w \in Seq(Sample) /\ Ascending(w) /\ Len(w) = s.len /\ DOMAIN w = 1..s.len
      /\ s.shifts = 0 => Accounted(q, w)
      /\ CopyingIInv(q, s, w)
  BY DEF ScanIInv
<1>3. \A i \in 1..n : s.seen[i] \subseteq Sample
  BY <1>1
<1>4. ASSUME NEW i \in 1..n
      PROVE  /\ out[i].ts < q.range[2]
             /\ s.shifts = 0 => out[i] \in Sample /\ out[i].ts = w[s.lo + i].ts
  <2>1. PICK a \in s.seen[i], b \in s.seen[i] : out[i] = [ts |-> a.ts, val |-> b.val]
    BY <1>1 DEF CopyOf
  <2>2. \A c \in s.seen[i] : c.ts < q.range[2] /\ (s.shifts = 0 => c.ts = w[s.lo + i].ts)
    BY <1>1, <1>2 DEF CopyingIInv
  <2>3. b \in Sample /\ b = [ts |-> b.ts, val |-> b.val]
    BY <1>3, MemtableConstants
  <2>4. out[i].ts = a.ts
    BY <2>1
  <2>5. s.shifts = 0 => a.ts = b.ts
    BY <2>2
  <2>6. s.shifts = 0 => out[i] = b
    BY <2>1, <2>3, <2>5
  <2> QED
    BY <2>2, <2>3, <2>4, <2>6
<1>5. Cardinality(u.mem) <= Len(u.pts) + u.shifts
  BY <1>2 DEF CopyingIInv
<1>6. ASSUME s.shifts = 0
      PROVE  /\ out \in Seq(Sample) /\ Ascending(out) /\ Accounted(u, out)
             /\ \A i \in 1..n : q.range[1] <= out[i].ts
  <2>1. out \in Seq(Sample)
    BY <1>4, <1>6, Elements DEF n
  <2>2. s.lo + n <= s.len /\ Covered(q.range, w) = (s.lo + 1)..(s.lo + n)
    BY <1>2, <1>6 DEF CopyingIInv, n
  <2>3. \A i \in 1..n : s.lo + i \in (s.lo + 1)..(s.lo + n) /\ s.lo + i \in 1..s.len
    BY <1>1, <2>2
  <2>4. \A i \in 1..n : out[i].ts = w[s.lo + i].ts
    BY <1>4, <1>6
  <2>5. Ascending(out)
    <3>1. \A i, j \in 1..n : i < j => w[s.lo + i].ts < w[s.lo + j].ts
      <4> SUFFICES ASSUME NEW i \in 1..n, NEW j \in 1..n, i < j PROVE w[s.lo + i].ts < w[s.lo + j].ts
        OBVIOUS
      <4>1. s.lo + i \in DOMAIN w /\ s.lo + j \in DOMAIN w
        BY <1>2, <2>3
      <4>2. s.lo + i < s.lo + j
        BY <1>1
      <4> QED
        BY <1>2, <4>1, <4>2 DEF Ascending
    <3> QED
      BY <1>1, <2>4, <3>1 DEF Ascending
  <2>6. \A i \in 1..n : q.range[1] <= out[i].ts
    <3>1. \A k \in Covered(q.range, w) : q.range[1] <= w[k].ts
      BY DEF Covered
    <3> QED
      BY <2>2, <2>3, <2>4, <3>1
  <2>7. TSof(out) \subseteq TSof(w)
    <3>1. \A i \in 1..n : s.lo + i \in DOMAIN w /\ out[i].ts = w[s.lo + i].ts
      BY <1>2, <2>3, <2>4
    <3>2. \A i \in DOMAIN out : \E k \in DOMAIN w : w[k].ts = out[i].ts
      BY <1>1, <3>1
    <3> QED
      BY <3>2 DEF TSof
  <2>8. q.mem \subseteq TSof(out)
    <3> SUFFICES ASSUME NEW t \in q.mem PROVE t \in TSof(out)
      OBVIOUS
    <3>1. PICK k \in DOMAIN w : w[k].ts = t
      BY <1>2, <1>6 DEF Accounted, TSof
    <3>2. k \in Covered(q.range, w)
      BY <3>1 DEF Covered, Asked
    <3>3. k - s.lo \in 1..n /\ s.lo + (k - s.lo) = k
      BY <1>1, <2>2, <3>2
    <3>4. out[k - s.lo].ts = t
      BY <2>4, <3>1, <3>3
    <3> QED
      BY <1>1, <3>3, <3>4 DEF TSof
  <2>9. Asked(q.range, TSof(out)) \subseteq q.mem \cup q.late
    <3>1. Asked(q.range, TSof(w)) \subseteq q.mem \cup q.late
      BY <1>2, <1>6 DEF Accounted
    <3> QED
      BY <2>7, <3>1 DEF Asked
  <2> QED
    BY <2>1, <2>5, <2>6, <2>8, <2>9 DEF Accounted
<1> QED
  BY <1>1, <1>4, <1>5, <1>6 DEF GotIInv

LEMMA GotAnswers == ASSUME PinsIInv, AnswersIInv, NEW r \in Reader, GotMem(r) PROVE AnswersIInv'
<1>1. /\ scan[r].at = "copying" /\ scan' = [scan EXCEPT ![r] = NoScan]
      /\ UNCHANGED <<slice, flight, stored>>
  BY DEF GotMem, CopyEnd
<1>2. PICK out \in Copies(r) :
          query' = [query EXCEPT ![r] = [@ EXCEPT !.at = "blocks", !.pts = out, !.shifts = scan[r].shifts]]
  BY DEF GotMem
<1>3. PICK q, s, w : q = query[r] /\ s = scan[r] /\ w = Within(scan[r], slice)
  OBVIOUS
<1>4. /\ q \in QueryType /\ s \in ScanType /\ q.at = "mem" /\ s.at = "copying"
      /\ IsFiniteSet(q.mem) /\ q.mem \subseteq Asked(q.range, q.mem)
      /\ q.before <= Len(stored) /\ ScanIInv(q, s, w)
  BY <1>1, <1>3, ScanIs DEF Pinned
<1> DEFINE u == [q EXCEPT !.at = "blocks", !.pts = out, !.shifts = s.shifts]
<1>5. query' = [query EXCEPT ![r] = u]
  BY <1>2, <1>3
<1>6. out \in Seq(Cell) /\ Len(out) = Len(s.seen) /\ CopyOf(out, s.seen)
  <2>1. PICK seen : seen = s.seen
    OBVIOUS
  <2> DEFINE Words(cell) == {[ts |-> x.ts, val |-> y.val] : x \in cell, y \in cell}
             W == UNION {Words(seen[i]) : i \in DOMAIN seen}
  <2>2. out \in [DOMAIN seen -> W] /\ \A i \in DOMAIN seen : out[i] \in Words(seen[i])
    BY <1>3, <2>1 DEF Copies
  <2>3. CopyOf(out, seen)
    BY <2>2 DEF CopyOf
  <2>4. seen \in Seq(SUBSET Sample) /\ out \in [DOMAIN seen -> W]
    BY <1>4, <2>1, <2>2 DEF ScanType
  <2> HIDE DEF W
  <2>5. out \in Seq(Cell) /\ Len(out) = Len(seen)
    BY <2>3, <2>4, CopiesShape
  <2> QED
    BY <2>1, <2>3, <2>5
<1>7. /\ u \in QueryType /\ u.at = "blocks" /\ u.mem = q.mem /\ u.late = q.late /\ u.range = q.range
      /\ u.pts = out /\ u.shifts = s.shifts /\ u.before = q.before
  BY <1>4, <1>6 DEF QueryType, ScanType
<1> HIDE DEF u
<1>8. GotIInv(u)
  BY <1>4, <1>6, <1>7, CopyGot
<1>9. NoScan \in ScanType
  BY DEF NoScan, ScanType
<1>10. Fits(u, NoScan, slice, stored)
  BY <1>4, <1>7, <1>8, <1>9 DEF Fits
<1> QED
  BY <1>1, <1>5, <1>9, <1>10, OneFits

LEMMA FinishAnswers == ASSUME AnswersIInv, NEW r \in Reader, Finish(r) PROVE AnswersIInv'
<1>1. query' = [query EXCEPT ![r] = NoQuery] /\ UNCHANGED <<slice, flight, stored, scan>>
  BY DEF Finish, memVars
<1>2. scan[r] \in ScanType
  BY AnswersIs
<1>3. Fits(NoQuery, scan[r], slice, stored)
  BY <1>2, IdleFits
<1> QED
  BY <1>1, <1>2, <1>3, OneFits

LEMMA AbortAnswers == ASSUME AnswersIInv, NEW r \in Reader, Abort(r) PROVE AnswersIInv'
<1>1. /\ query' = [query EXCEPT ![r] = NoQuery] /\ UNCHANGED <<slice, flight, stored>>
      /\ scan' = scan \/ scan' = [scan EXCEPT ![r] = NoScan]
  BY DEF Abort, ScanPanics, memVars
<1>2. scan[r] \in ScanType /\ NoScan \in ScanType
  BY AnswersIs DEF NoScan, ScanType
<1>3. Fits(NoQuery, scan[r], slice, stored) /\ Fits(NoQuery, NoScan, slice, stored)
  BY <1>2, IdleFits
<1> QED
  BY <1>1, <1>2, <1>3, OneFits

-----------------------------------------------------------------------------
(* The answer. *)

\* What a query collects: what it got from memory, and a range of each block.
CollectedOf(q, st) == [i \in 0..Len(st) |-> IF i = 0 THEN q.pts ELSE RangeOf(st[i], q.range)]

\* A query about to answer.
Ready(q, st) ==
    /\ q \in QueryType /\ st \in Seq(Seq(Sample)) /\ GotIInv(q) /\ IsFiniteSet(q.mem)
    /\ \A i \in DOMAIN st : Ascending(st[i])
    /\ q.before <= Len(st)

LEMMA CollectedAre ==
    ASSUME NEW q, NEW st, Ready(q, st), NEW parts, parts = CollectedOf(q, st)
    PROVE  /\ Len(st) \in Nat /\ parts \in Parts(Len(st))
           /\ parts[0] = q.pts /\ q.pts \in Seq(Cell)
           /\ \A i \in 1..Len(st) : /\ parts[i] \in Seq(Sample) /\ Ascending(parts[i])
                                    /\ TSof(parts[i]) = Asked(q.range, TSof(st[i]))
           /\ \A i \in 0..Len(st) : DOMAIN parts[i] = 1..Len(parts[i]) /\ Len(parts[i]) \in Nat
<1>1. q.range \in Int \X Int /\ q.pts \in Seq(Cell) /\ Len(st) \in Nat /\ DOMAIN st = 1..Len(st)
  BY DEF Ready, QueryType
<1>2. \A i \in 1..Len(st) : st[i] \in Seq(Sample) /\ Ascending(st[i])
  <2>1. st \in Seq(Seq(Sample)) /\ \A i \in DOMAIN st : Ascending(st[i])
    BY DEF Ready
  <2>2. \A i \in 1..Len(st) : st[i] \in Seq(Sample)
    BY <2>1
  <2> QED
    BY <1>1, <2>1, <2>2
<1>3. parts[0] = q.pts /\ \A i \in 1..Len(st) : parts[i] = RangeOf(st[i], q.range)
  BY <1>1 DEF CollectedOf
<1>4. ASSUME NEW i \in 1..Len(st)
      PROVE  /\ parts[i] \in Seq(Sample) /\ Ascending(parts[i])
             /\ TSof(parts[i]) = Asked(q.range, TSof(st[i]))
  <2>1. PICK w \in Seq(Sample) : w = st[i]
    BY <1>2
  <2>2. Ascending(w) /\ parts[i] = RangeOf(w, q.range)
    BY <1>2, <1>3, <2>1
  <2> QED
    BY <1>1, <2>1, <2>2, RangeOfShape, SampleCells
<1>5. \A i \in 0..Len(st) : parts[i] \in Seq(Cell)
  <2> TAKE i \in 0..Len(st)
  <2>1. i # 0 => parts[i] \in Seq(Sample)
    BY <1>1, <1>4
  <2>2. Seq(Sample) \subseteq Seq(Cell)
    BY SampleCells
  <2> QED
    BY <1>1, <1>3, <2>1, <2>2
<1>6. parts \in Parts(Len(st))
  <2>1. parts = [i \in 0..Len(st) |-> parts[i]]
    BY DEF CollectedOf
  <2> QED
    BY <1>5, <2>1 DEF Parts
<1>7. \A i \in 0..Len(st) : DOMAIN parts[i] = 1..Len(parts[i]) /\ Len(parts[i]) \in Nat
  BY <1>5
<1> QED
  BY <1>1, <1>3, <1>4, <1>6, <1>7

LEMMA AnswerInRange ==
    ASSUME NEW q, NEW st, Ready(q, st), NEW parts, parts = CollectedOf(q, st),
           NEW u, u.pts = Sorted(parts), u.range = q.range, u.shifts = q.shifts
    PROVE  InRange(u)
<1> DEFINE N == Cardinality(Places(parts))
<1>1. /\ Len(st) \in Nat /\ parts \in Parts(Len(st)) /\ parts[0] = q.pts
      /\ \A i \in 1..Len(st) : /\ parts[i] \in Seq(Sample)
                               /\ TSof(parts[i]) = Asked(q.range, TSof(st[i]))
      /\ \A i \in 0..Len(st) : DOMAIN parts[i] = 1..Len(parts[i]) /\ Len(parts[i]) \in Nat
  BY CollectedAre
<1>2. PICK f \in Bijection(1..N, Places(parts)) : \A k \in 1..N : Sorted(parts)[k] = PointAt(parts, f[k])
  BY <1>1, SortedPermutes
<1>3. DOMAIN Sorted(parts) = 1..N
  <2>1. N \in Nat /\ Sorted(parts) \in Seq(Cell) /\ Len(Sorted(parts)) = N
    BY <1>1, SortedPermutes
  <2> HIDE DEF N
  <2> QED
    BY <2>1
<1>4. \A k \in 1..N : f[k] \in Places(parts)
  <2> DEFINE P == Places(parts)
  <2> HIDE DEF N
  <2>1. f \in Bijection(1..N, P)
    OBVIOUS
  <2> HIDE DEF P
  <2>2. f \in [1..N -> P]
    BY <2>1, Fun_BijectionProperties
  <2> QED
    BY <2>2 DEF P
<1> HIDE DEF N
<1>5. ASSUME NEW k \in 1..N
      PROVE  /\ Sorted(parts)[k].ts < q.range[2]
             /\ q.shifts = 0 => Sorted(parts)[k] \in Sample /\ q.range[1] <= Sorted(parts)[k].ts
  <2>1. PICK x : x = f[k]
    OBVIOUS
  <2>2. x \in Places(parts) /\ Sorted(parts)[k] = parts[x[1]][x[2]]
    BY <1>2, <1>4, <2>1 DEF PointAt
  <2>3. x[1] \in 0..Len(st) /\ x[2] \in 1..Len(parts[x[1]])
    BY <1>1, <2>2, PlacesAre
  <2>4. PICK i, j : i = x[1] /\ j = x[2]
    OBVIOUS
  <2>5. i \in 0..Len(st) /\ j \in DOMAIN parts[i] /\ Sorted(parts)[k] = parts[i][j]
    BY <1>1, <2>2, <2>3, <2>4
  <2>6. CASE i = 0
    <3>1. GotIInv(q)
      BY DEF Ready
    <3>2. j \in DOMAIN q.pts /\ Sorted(parts)[k] = q.pts[j]
      BY <1>1, <2>5, <2>6
    <3>3. q.shifts = 0 => q.pts[j] \in Sample
      <4>1. DOMAIN q.pts = 1..Len(q.pts)
        BY <1>1, <2>5, <2>6
      <4>2. q.shifts = 0 => q.pts \in Seq(Sample)
        BY <3>1 DEF GotIInv
      <4> QED
        BY <3>2, <4>1, <4>2
    <3> QED
      BY <3>1, <3>2, <3>3 DEF GotIInv
  <2>7. CASE i # 0
    <3>1. i \in 1..Len(st)
      BY <1>1, <2>5, <2>7
    <3>2. parts[i][j].ts \in Asked(q.range, TSof(st[i]))
      BY <1>1, <2>5, <3>1 DEF TSof
    <3>3. parts[i][j] \in Sample
      BY <1>1, <2>5, <3>1
    <3> QED
      BY <2>5, <3>2, <3>3 DEF Asked
  <2> QED
    BY <2>6, <2>7
<1> QED
  BY <1>3, <1>5 DEF InRange

\* A list has no fewer blocks with a timestamp than the first of it.
LEMMA MoreBlocks ==
    ASSUME NEW st, NEW t, NEW n \in Nat, NEW m \in 0..n
    PROVE  /\ BlocksWith(st, t, m) \in Nat /\ BlocksWith(st, t, n) \in Nat
           /\ BlocksWith(st, t, m) <= BlocksWith(st, t, n)
           /\ IsFiniteSet({i \in 1..n : t \in TSof(st[i])})
<1> DEFINE A == {i \in 1..m : t \in TSof(st[i])}
           B == {i \in 1..n : t \in TSof(st[i])}
<1>1. IsFiniteSet(1..n) /\ A \in SUBSET B /\ B \in SUBSET (1..n)
  BY FS_Interval
<1> HIDE DEF A, B
<1>2. IsFiniteSet(B) /\ IsFiniteSet(A) /\ Cardinality(A) <= Cardinality(B)
  BY <1>1, FS_Subset
<1>3. Cardinality(A) \in Nat /\ Cardinality(B) \in Nat
  BY <1>2, FS_CardinalityType
<1> QED
  BY <1>2, <1>3 DEF BlocksWith, A, B

LEMMA AnswerTimes ==
    ASSUME NEW q, NEW st, Ready(q, st), q.shifts = 0, NEW parts, parts = CollectedOf(q, st),
           NEW t \in Asked(q.range, SampleTimes),
           NEW u, u.pts = Sorted(parts), u.mem = q.mem, u.late = q.late, u.before = q.before,
           u.listed = Len(st)
    PROVE  Times(u.pts, t) \in Least(u, st, t)..Most(u, st, t)
<1> DEFINE n == Len(st)
           I == {i \in 0..n : t \in TSof(parts[i])}
           J == {i \in 1..n : t \in TSof(st[i])}
<1>1. /\ n \in Nat /\ parts \in Parts(n) /\ parts[0] = q.pts
      /\ \A i \in 1..n : Ascending(parts[i]) /\ TSof(parts[i]) = Asked(q.range, TSof(st[i]))
      /\ q.before \in 0..n
  <2>1. q.before \in Nat
    BY DEF Ready, QueryType
  <2> QED
    BY <2>1, CollectedAre DEF Ready
<1>2. Ascending(q.pts) /\ Accounted(q, q.pts)
  BY DEF Ready, GotIInv
<1>3. t \in Int
  BY MemtableConstants DEF Asked, SampleTimes
<1>4. \A i \in 0..n : Ascending(parts[i])
  <2>1. \A i \in 0..n : i = 0 \/ i \in 1..n
    BY <1>1
  <2> QED
    BY <1>1, <1>2, <2>1
<1>5. Times(Sorted(parts), t) = Cardinality(I)
  BY <1>1, <1>3, <1>4, TimesSorted
<1>6. \A S : t \in Asked(q.range, S) <=> t \in S
  BY DEF Asked
<1>7. \A i \in 1..n : t \in TSof(parts[i]) <=> t \in TSof(st[i])
  BY <1>1, <1>6
<1>8. I = IF t \in TSof(q.pts) THEN J \cup {0} ELSE J
  <2>1. \A i : i \in 0..n <=> i = 0 \/ i \in 1..n
    BY <1>1
  <2>2. \A i : i \in 1..n => i # 0
    OBVIOUS
  <2> QED
    BY <1>1, <1>7, <2>1, <2>2
<1>9. 0 \notin J
  OBVIOUS
<1>10. /\ BlocksWith(st, t, q.before) \in Nat /\ BlocksWith(st, t, n) \in Nat
       /\ BlocksWith(st, t, q.before) <= BlocksWith(st, t, n)
       /\ IsFiniteSet(J) /\ Cardinality(J) = BlocksWith(st, t, n)
  BY <1>1, MoreBlocks DEF BlocksWith
<1>11. t \in q.mem => t \in TSof(q.pts)
  BY <1>2 DEF Accounted
<1>12. t \in TSof(q.pts) => t \in q.mem \cup q.late
  BY <1>2, <1>6 DEF Accounted
<1> HIDE DEF I, J, n
<1>13. Cardinality(J \cup {0}) = Cardinality(J) + 1
  BY <1>9, <1>10, FS_AddElement
<1>14. Least(u, st, t) = (IF t \in q.mem THEN 1 ELSE 0) + BlocksWith(st, t, q.before)
  BY DEF Least
<1>15. Most(u, st, t) = (IF t \in q.mem \cup q.late THEN 1 ELSE 0) + BlocksWith(st, t, n)
  BY DEF Most, n
<1>16. CASE t \in TSof(q.pts)
  <2>1. Times(u.pts, t) = 1 + BlocksWith(st, t, n) /\ Most(u, st, t) = 1 + BlocksWith(st, t, n)
    BY <1>5, <1>8, <1>10, <1>12, <1>13, <1>15, <1>16
  <2>2. Least(u, st, t) \in Nat /\ Least(u, st, t) <= 1 + BlocksWith(st, t, n)
    BY <1>10, <1>14
  <2> QED
    BY <1>10, <2>1, <2>2
<1>17. CASE t \notin TSof(q.pts)
  <2>1. Times(u.pts, t) = BlocksWith(st, t, n) /\ Least(u, st, t) = BlocksWith(st, t, q.before)
    BY <1>5, <1>8, <1>10, <1>11, <1>14, <1>17
  <2>2. Most(u, st, t) \in Nat /\ Most(u, st, t) >= BlocksWith(st, t, n)
    BY <1>10, <1>15
  <2> QED
    BY <1>10, <2>1, <2>2
<1> QED
  BY <1>16, <1>17

\* An answer has a point of each copy, except for those a shift pushed out.
LEMMA AnswerLong ==
    ASSUME NEW q, NEW st, Ready(q, st), NEW parts, parts = CollectedOf(q, st),
           NEW u, u.pts = Sorted(parts), u.mem = q.mem, u.before = q.before, u.range = q.range,
           u.shifts = q.shifts
    PROVE  Len(u.pts) >= Cardinality(CopiesOf(u, st)) - u.shifts
<1> DEFINE n == Len(st)
           P == Places(parts)
           A == {x \in P : x[1] = 0}
           B == {x \in P : x[1] # 0}
           Copies0 == CopiesOf(u, st)
           M == {c \in Copies0 : c[1] = 0}
           C == {c \in Copies0 : c[1] # 0}
           m == Len(q.pts)
<1>1. /\ n \in Nat /\ parts \in Parts(n) /\ parts[0] = q.pts /\ q.pts \in Seq(Cell)
      /\ \A i \in 1..n : TSof(parts[i]) = Asked(q.range, TSof(st[i]))
      /\ \A i \in 0..n : DOMAIN parts[i] = 1..Len(parts[i]) /\ Len(parts[i]) \in Nat
      /\ q.before \in 0..n /\ m \in Nat /\ q.shifts \in Nat
  <2>1. q.before \in Nat /\ q.shifts \in Nat /\ q.before <= n
    BY DEF Ready, QueryType
  <2>2. n \in Nat /\ q.pts \in Seq(Cell)
    BY CollectedAre
  <2> QED
    BY <2>1, <2>2, CollectedAre
<1>2. IsFiniteSet(P) /\ Cardinality(P) \in Nat /\ Len(Sorted(parts)) = Cardinality(P)
  BY <1>1, PlacesFinite, SortedPermutes
<1>3. /\ \A x : x \in P <=> \E i \in 0..n : \E k \in 1..Len(parts[i]) : x = <<i, k>>
      /\ \A x \in P : x[1] \in 0..n /\ x = <<x[1], x[2]>>
  BY <1>1, PlacesAre
<1>4. /\ IsFiniteSet(q.mem) /\ Cardinality(q.mem) \in Nat
      /\ Cardinality(q.mem) <= m + q.shifts
  BY FS_CardinalityType DEF Ready, GotIInv
<1>5. \A c \in Copies0 : /\ c = <<c[1], c[2]>> /\ c[1] \in 0..q.before
                         /\ c[2] \in Asked(q.range, SampleTimes)
                         /\ c[2] \in (IF c[1] = 0 THEN q.mem ELSE TSof(st[c[1]]))
  BY DEF CopiesOf
<1> HIDE DEF n, P, Copies0, m
<1>6. IsFiniteSet(A) /\ IsFiniteSet(B) /\ Cardinality(P) = Cardinality(A) + Cardinality(B)
      /\ Cardinality(A) \in Nat /\ Cardinality(B) \in Nat
  <2>1. A \in SUBSET P /\ B \in SUBSET P /\ A \cup B = P /\ A \cap B = {}
    OBVIOUS
  <2> HIDE DEF A, B
  <2>2. IsFiniteSet(A) /\ IsFiniteSet(B)
    BY <1>2, <2>1, FS_Subset
  <2>3. Cardinality(A) \in Nat /\ Cardinality(B) \in Nat
    BY <2>2, FS_CardinalityType
  <2>4. Cardinality(A \cup B) = Cardinality(A) + Cardinality(B) - Cardinality(A \cap B)
    BY <2>2, FS_Union
  <2>5. Cardinality(A \cap B) = 0 /\ Cardinality(A \cup B) = Cardinality(P)
    BY <2>1, FS_EmptySet
  <2> QED
    BY <2>2, <2>3, <2>4, <2>5
<1>7. m <= Cardinality(A)
  <2> DEFINE f == [k \in 1..m |-> <<0, k>>]
  <2>1. \A k \in 1..m : f[k] \in A
    <3>1. 0 \in 0..n /\ Len(parts[0]) = m
      BY <1>1 DEF m
    <3> QED
      BY <1>3, <3>1
  <2>2. \A k, l \in 1..m : f[k] = f[l] => k = l
    OBVIOUS
  <2>3. f \in [1..m -> A]
    BY <2>1
  <2> HIDE DEF f, A
  <2>4. f \in Injection(1..m, A)
    BY <2>2, <2>3, Fun_IsInj
  <2>5. Cardinality(1..m) <= Cardinality(A)
    BY <1>6, <2>4, FS_Injection
  <2>6. Cardinality(1..m) = m
    BY <1>1, FS_Interval
  <2> QED
    BY <2>5, <2>6
<1>8. IsFiniteSet(M) /\ Cardinality(M) <= Cardinality(q.mem)
  <2> DEFINE f == [c \in M |-> c[2]]
  <2>1. f \in [M -> q.mem]
    BY <1>5
  <2>2. \A c, d \in M : f[c] = f[d] => c = d
    BY <1>5
  <2> HIDE DEF f, M
  <2>3. f \in Injection(M, q.mem)
    BY <2>1, <2>2, Fun_IsInj
  <2> QED
    BY <1>4, <2>3, FS_Injection
<1>9. IsFiniteSet(C) /\ Cardinality(C) <= Cardinality(B)
  <2> DEFINE Has(c, x) == x[1] = c[1] /\ PointAt(parts, x).ts = c[2]
             f == [c \in C |-> CHOOSE x \in B : Has(c, x)]
  <2>1. ASSUME NEW c \in C PROVE \E x \in B : Has(c, x)
    <3>1. PICK i, t : i = c[1] /\ t = c[2]
      OBVIOUS
    <3>2. i \in 1..n /\ t \in TSof(st[i]) /\ t \in Asked(q.range, SampleTimes)
      BY <1>1, <1>5, <3>1
    <3>3. t \in TSof(parts[i])
      BY <1>1, <3>2 DEF Asked
    <3>4. PICK k \in DOMAIN parts[i] : parts[i][k].ts = t
      BY <3>3 DEF TSof
    <3>5. i \in 0..n /\ i # 0 /\ k \in 1..Len(parts[i])
      BY <1>1, <3>2, <3>4
    <3>6. <<i, k>> \in B
      BY <1>3, <3>5
    <3>7. PointAt(parts, <<i, k>>).ts = t
      BY <3>4 DEF PointAt
    <3> QED
      BY <3>1, <3>6, <3>7
  <2>2. \A c \in C : f[c] \in B /\ Has(c, f[c])
    BY <2>1
  <2>3. \A c, d \in C : f[c] = f[d] => c = d
    <3> SUFFICES ASSUME NEW c \in C, NEW d \in C, f[c] = f[d] PROVE c = d
      OBVIOUS
    <3>1. Has(c, f[c]) /\ Has(d, f[c])
      BY <2>2
    <3>2. c[1] = d[1] /\ c[2] = d[2]
      BY <3>1
    <3>3. c = <<c[1], c[2]>> /\ d = <<d[1], d[2]>>
      BY <1>5
    <3> QED
      BY <3>2, <3>3
  <2>4. f \in [C -> B]
    BY <2>2
  <2> HIDE DEF f, B, C
  <2>5. f \in Injection(C, B)
    BY <2>3, <2>4, Fun_IsInj
  <2> QED
    BY <1>6, <2>5, FS_Injection
<1>10. Cardinality(Copies0) <= Cardinality(M) + Cardinality(C) /\ Cardinality(Copies0) \in Nat
       /\ Cardinality(M) \in Nat /\ Cardinality(C) \in Nat
  <2>1. M \cup C = Copies0 /\ M \cap C = {}
    OBVIOUS
  <2> HIDE DEF M, C
  <2>2. /\ Cardinality(M \cup C) = Cardinality(M) + Cardinality(C) - Cardinality(M \cap C)
        /\ IsFiniteSet(M \cup C)
    BY <1>8, <1>9, FS_Union
  <2>3. Cardinality(M) \in Nat /\ Cardinality(C) \in Nat
    BY <1>8, <1>9, FS_CardinalityType
  <2>4. Cardinality(Copies0) \in Nat
    BY <2>1, <2>2, FS_CardinalityType
  <2>5. Cardinality(M \cap C) = 0 /\ Cardinality(M \cup C) = Cardinality(Copies0)
    BY <2>1, FS_EmptySet
  <2> QED
    BY <2>2, <2>3, <2>4, <2>5
<1> HIDE DEF A, B, M, C
<1>11. Cardinality(Copies0) <= Cardinality(P) + q.shifts
  BY <1>1, <1>4, <1>6, <1>7, <1>8, <1>9, <1>10
<1>12. Cardinality(P) >= Cardinality(Copies0) - q.shifts
  BY <1>1, <1>2, <1>10, <1>11
<1> QED
  BY <1>2, <1>12 DEF Copies0

LEMMA AnswerAnswers ==
    ASSUME TablesIInv, AnswersIInv, NEW r \in Reader, Answer(r) PROVE AnswersIInv'
<1>1. PICK q : q = query[r]
  OBVIOUS
<1>2. PICK parts : parts = CollectedOf(q, stored)
  OBVIOUS
<1> DEFINE u == [q EXCEPT !.at = "answered", !.listed = Len(stored), !.pts = Sorted(parts)]
<1>3. q.at = "blocks" /\ query' = [query EXCEPT ![r] = u] /\ UNCHANGED <<slice, flight, stored, scan>>
  <2>1. Collected(r) = parts
    BY <1>1, <1>2 DEF Collected, CollectedOf
  <2> QED
    BY <1>1, <2>1 DEF Answer, memVars
<1>4. /\ q \in QueryType /\ scan[r] \in ScanType /\ stored \in Seq(Seq(Sample)) /\ Len(stored) \in Nat
      /\ GotIInv(q) /\ IsFiniteSet(q.mem) /\ q.mem \subseteq Asked(q.range, q.mem)
      /\ q.before <= Len(stored)
  <2>1. Fits(q, scan[r], slice, stored) /\ stored \in Seq(Seq(Sample))
    BY <1>1, AnswersIs DEF Tables
  <2> QED
    BY <1>3, <2>1 DEF Fits
<1>5. Ready(q, stored)
  BY <1>4 DEF Ready, TablesIInv, KeptInOrder
<1>6. Sorted(parts) \in Seq(Cell)
  <2>1. parts \in Parts(Len(stored))
    BY <1>2, <1>5, CollectedAre
  <2> QED
    BY <1>4, <2>1, SortedPermutes
<1>7. /\ u \in QueryType /\ u.at = "answered" /\ u.listed = Len(stored) /\ u.pts = Sorted(parts)
      /\ u.range = q.range /\ u.mem = q.mem /\ u.late = q.late /\ u.before = q.before /\ u.shifts = q.shifts
  <2> HIDE DEF CollectedOf
  <2>1. PICK pts \in Seq(Cell) : pts = Sorted(parts)
    BY <1>6
  <2>2. u = [q EXCEPT !.at = "answered", !.listed = Len(stored), !.pts = pts]
    BY <2>1
  <2> HIDE DEF u
  <2> QED
    BY <1>4, <2>1, <2>2 DEF QueryType
<1> HIDE DEF u
<1>8. InRange(u)
  BY <1>2, <1>5, <1>7, AnswerInRange
<1>9. Len(u.pts) >= Cardinality(CopiesOf(u, stored)) - u.shifts
  BY <1>2, <1>5, <1>7, AnswerLong
<1>10. ASSUME u.shifts = 0, NEW t \in Asked(u.range, SampleTimes)
       PROVE  Times(u.pts, t) \in Least(u, stored, t)..Most(u, stored, t)
  <2>1. t \in Asked(q.range, SampleTimes) /\ q.shifts = 0
    BY <1>7, <1>10
  <2> QED
    BY <1>2, <1>5, <1>7, <2>1, AnswerTimes
<1>11. Accounts(u, stored)
  BY <1>9, <1>10 DEF Accounts
<1>12. Fits(u, scan[r], slice, stored)
  BY <1>4, <1>7, <1>8, <1>11 DEF Fits
<1> QED
  BY <1>3, <1>4, <1>12, OneFits

LEMMA AnswersStep == ASSUME TablesIInv, PinsIInv, AnswersIInv, [Next]_vars PROVE AnswersIInv'
<1>1. ASSUME NEW p \in Sample, Write(p) PROVE AnswersIInv'
  BY <1>1, WriteAnswers
<1>2. CASE Swap
  BY <1>2, SwapAnswers
<1>3. CASE EndFlush
  BY <1>3, EndAnswers
<1>4. ASSUME NEW r \in Reader, NEW rng \in Ranges, Begin(r, rng) PROVE AnswersIInv'
  <2>1. gen \in Nat
    BY PinsIs
  <2> QED
    BY <1>4, <2>1, BeginAnswers
<1>5. ASSUME NEW r \in Reader, ReadMap(r) \/ ReadLo(r) \/ ReadHi(r) PROVE AnswersIInv'
  BY <1>5, ReadMapAnswers, ReadLoAnswers, ReadHiAnswers
<1>6. ASSUME NEW r \in Reader, GotMem(r) \/ Answer(r) \/ Finish(r) PROVE AnswersIInv'
  BY <1>6, GotAnswers, AnswerAnswers, FinishAnswers
<1>7. ASSUME NEW r \in Reader, Abort(r) \/ MapRace(r) PROVE AnswersIInv'
  BY <1>7, AbortAnswers, RaceAnswers
<1>8. CASE UNCHANGED vars
  <2>1. UNCHANGED <<slice, flight, stored, scan, query>>
    BY <1>8 DEF vars, memVars
  <2> QED
    BY <2>1, AnswersIs, AnswersIsNext
<1> QED
  BY <1>1, <1>2, <1>3, <1>4, <1>5, <1>6, <1>7, <1>8 DEF Next

\* Inductive with the tables and the pins: at each step of a scan, what was in
\* memory as its query began is in the cells it has yet to look through, but
\* for one point for each insertion that shifted them.
THEOREM AnswersInductive == Spec => []AnswersIInv
<1>1. TablesIInv /\ PinsIInv /\ AnswersIInv /\ [Next]_vars => AnswersIInv'
  BY AnswersStep
<1> QED
  BY <1>1, InitAnswers, ReadsInductive, PTL DEF Spec

\* However writes, flushes and the steps of queries interleave, an answer has
\* every point that was there as its query began, once in each place that still
\* had it, and no more than later writes and flushes explain; insertions that
\* shift the array under a read cost it at most a point each (QueryAccounts).
THEOREM QueryAccountsHolds == Spec => []QueryAccounts
<1>1. AnswersIInv => QueryAccounts
  BY DEF AnswersIInv
<1> QED
  BY <1>1, AnswersInductive, PTL

\* No answer has a point at or behind the end of its range, and only one whose
\* read met such an insertion may have another that is not a sample written in
\* the range (QueryInRange).
THEOREM QueryInRangeHolds == Spec => []QueryInRange
<1>1. AnswersIInv => QueryInRange
  BY DEF AnswersIInv
<1> QED
  BY <1>1, AnswersInductive, PTL

-----------------------------------------------------------------------------
(* Aggregation.  The loops are recursive functions on the number of turns;   *)
(* what they compute is proved by induction on sets of such numbers.         *)

LEMMA Induct ==
    ASSUME NEW L \in Nat, NEW S, 0 \in S, \A n \in 0..(L - 1) : n \in S => n + 1 \in S
    PROVE  \A n \in 0..L : n \in S
<1> DEFINE D == {k \in 1..L : \A j \in 1..k : j \in S}
           m == Cardinality(D)
<1>1. D \in SUBSET (1..L) /\ \A i \in D : \A j \in 1..i : j \in D
  OBVIOUS
<1>2. m \in 0..L /\ D = 1..m
  <2> HIDE DEF D
  <2> QED
    BY <1>1, ClosedIsInterval
<1>3. \A j \in 0..m : j \in S
  <2>1. m \in Nat /\ \A j \in 0..m : j = 0 \/ j \in 1..m
    BY <1>2
  <2>2. \A j \in 1..m : j \in D
    BY <1>2
  <2>3. \A j \in D : j \in 1..j /\ j \in S
    OBVIOUS
  <2> QED
    BY <2>1, <2>2, <2>3
<1> HIDE DEF m
<1>4. ASSUME m < L PROVE FALSE
  <2>1. m + 1 \in S /\ m + 1 \in 1..L
    BY <1>2, <1>3, <1>4
  <2>2. \A j \in 1..(m + 1) : j \in S
    BY <1>2, <1>3, <2>1
  <2>3. m + 1 \in D
    BY <2>1, <2>2
  <2> QED
    BY <1>2, <2>3
<1> QED
  BY <1>2, <1>3, <1>4

\* A recursive function exists, so that CHOOSE finds one: it starts with a and
\* goes on by F.
Follows(f, a, m, F) == f[0] = a /\ \A n \in 1..m : f[n] = F[<<f[n - 1], n>>]

LEMMA Recursion ==
    ASSUME NEW S, NEW a \in S, NEW L \in Nat, NEW F \in [S \X (1..L) -> S]
    PROVE  \E f \in [0..L -> S] : Follows(f, a, L, F)
<1> DEFINE T == {m \in 0..L : \E f \in [0..m -> S] : Follows(f, a, m, F)}
<1>1. 0 \in T
  <2> DEFINE f == [i \in 0..0 |-> a]
  <2>1. f \in [0..0 -> S] /\ f[0] = a
    OBVIOUS
  <2> HIDE DEF f
  <2>2. Follows(f, a, 0, F)
    BY <2>1 DEF Follows
  <2> QED
    BY <2>1, <2>2
<1>2. ASSUME NEW m \in 0..(L - 1), m \in T PROVE m + 1 \in T
  <2>0. PICK f \in [0..m -> S] : Follows(f, a, m, F)
    BY <1>2
  <2>1. f[0] = a /\ \A n \in 1..m : f[n] = F[<<f[n - 1], n>>]
    BY <2>0 DEF Follows
  <2>2. /\ m \in Nat /\ m + 1 \in 1..L /\ m + 1 \in 0..L /\ (m + 1) - 1 = m
        /\ \A i \in 0..m : i \in 0..(m + 1) /\ i # m + 1
        /\ \A i \in 0..(m + 1) : i = m + 1 \/ i \in 0..m
        /\ \A i \in 1..(m + 1) : i = m + 1 \/ i \in 1..m
        /\ \A i \in 1..m : i \in 0..m /\ i - 1 \in 0..m
        /\ m \in 0..m /\ 0 \in 0..m /\ m + 1 \in 0..(m + 1)
    OBVIOUS
  <2> DEFINE g == [i \in 0..(m + 1) |-> IF i = m + 1 THEN F[<<f[m], m + 1>>] ELSE f[i]]
  <2>3. F[<<f[m], m + 1>>] \in S
    BY <2>1, <2>2
  <2>4. g \in [0..(m + 1) -> S]
    BY <2>1, <2>2, <2>3
  <2>5. g[m + 1] = F[<<f[m], m + 1>>] /\ \A i \in 0..m : g[i] = f[i]
    BY <2>2
  <2> HIDE DEF g
  <2>6. g[0] = a
    BY <2>1, <2>2, <2>5
  <2>7. ASSUME NEW n \in 1..(m + 1) PROVE g[n] = F[<<g[n - 1], n>>]
    <3>1. CASE n = m + 1
      BY <2>2, <2>5, <3>1
    <3>2. CASE n \in 1..m
      BY <2>1, <2>2, <2>5, <3>2
    <3> QED
      BY <2>2, <3>1, <3>2
  <2>8. Follows(g, a, m + 1, F)
    BY <2>6, <2>7 DEF Follows
  <2> QED
    BY <2>2, <2>4, <2>8
<1> HIDE DEF T
<1>3. \A n \in 0..L : n \in T
  BY <1>1, <1>2, Induct
<1>4. L \in T
  BY <1>3
<1> QED
  BY <1>4 DEF T

\* Division by the step.
LEMMA StartIs ==
    ASSUME NEW t \in Nat, NEW step \in Nat \ {0}
    PROVE  /\ start(t, step) \in 0..t /\ t < start(t, step) + step
           /\ \E q \in Nat : start(t, step) = q * step
<1>1. /\ t % step \in 0..(step - 1) /\ t \div step \in Nat
      /\ t = step * (t \div step) + (t % step)
  OBVIOUS
<1>2. start(t, step) = t - (t % step)
  BY DEF start, Rem
<1>3. PICK q \in Nat : q = t \div step
  BY <1>1
<1>4. start(t, step) = q * step
  BY <1>1, <1>2, <1>3
<1>5. q * step >= 0
  OBVIOUS
<1>6. start(t, step) \in 0..t /\ t < start(t, step) + step
  <2>1. PICK d, e : d = t % step /\ e = start(t, step)
    OBVIOUS
  <2>2. d \in 0..(step - 1) /\ e = t - d /\ e >= 0
    BY <1>1, <1>2, <1>4, <1>5, <2>1
  <2>3. e \in 0..t /\ t < e + step
    BY <2>2
  <2> QED
    BY <2>1, <2>3
<1> QED
  BY <1>4, <1>6

\* Two timestamps start in one window if and only if one is in the other's.
LEMMA SameStart ==
    ASSUME NEW t \in Nat, NEW u \in Nat, NEW step \in Nat \ {0}
    PROVE  /\ u \in start(t, step)..(start(t, step) + step - 1) <=> start(u, step) = start(t, step)
           /\ t <= u => start(t, step) <= start(u, step)
<1>1. PICK a \in Nat : start(t, step) = a * step
  BY StartIs
<1>2. PICK b \in Nat : start(u, step) = b * step
  BY StartIs
<1>3. ASSUME NEW x \in Nat, NEW y \in Nat, x < y PROVE x * step + step <= y * step
  <2>1. PICK d \in Nat : y = x + 1 + d
    <3>1. y - x - 1 \in Nat /\ y = x + 1 + (y - x - 1)
      BY <1>3
    <3> QED
      BY <3>1
  <2>2. (x + 1 + d) * step = x * step + step + d * step
    OBVIOUS
  <2>3. d * step >= 0 /\ d * step \in Int /\ x * step \in Int
    OBVIOUS
  <2> QED
    BY <2>1, <2>2, <2>3
<1>4. PICK A \in Nat, B \in Nat : A = a * step /\ B = b * step
  BY <1>1, <1>2, StartIs
<1>5. /\ a < b => A + step <= B
      /\ b < a => B + step <= A
  BY <1>3, <1>4
<1>6. a = b => A = B
  BY <1>4
<1>7. /\ start(t, step) = A /\ start(u, step) = B
      /\ A <= t /\ t < A + step /\ B <= u /\ u < B + step
  BY <1>1, <1>2, <1>4, StartIs
<1> QED
  BY <1>5, <1>6, <1>7

Window == [ts : Int, sum : Int, min : Int, max : Int, count : Int]

LEMMA AddedType ==
    ASSUME NEW W \in Seq(Window), NEW p \in Cell, p.ts >= 0, NEW step \in Nat \ {0}
    PROVE  /\ Opened(p, step) \in Window /\ Added(W, p, step) \in Seq(Window)
           /\ W # <<>> => Joined(W[Len(W)], p) \in Window
<1>1. p.ts \in Nat /\ p.val \in Int
  BY DEF Cell
<1>2. start(p.ts, step) \in Int
  <2>1. PICK t \in Nat : t = p.ts
    BY <1>1
  <2>2. start(t, step) \in 0..t
    BY StartIs
  <2> QED
    BY <2>1, <2>2
<1>3. Opened(p, step) \in Window
  BY <1>1, <1>2 DEF Opened, Window
<1>4. ASSUME W # <<>>
      PROVE  /\ Joined(W[Len(W)], p) \in Window
             /\ [W EXCEPT ![Len(W)] = Joined(@, p)] \in Seq(Window)
  <2> DEFINE n == Len(W)
             w == W[n]
  <2>1. n \in Nat /\ n \in 1..n /\ W \in [1..n -> Window]
    BY <1>4
  <2>2. w \in Window
    BY <2>1
  <2>3. Joined(w, p) \in Window
    <3> HIDE DEF w
    <3> QED
      BY <1>1, <2>2 DEF Window, Joined, Lower, Upper
  <2>4. [W EXCEPT ![n] = Joined(w, p)] \in Seq(Window)
    <3>1. [W EXCEPT ![n] = Joined(w, p)] \in [1..n -> Window]
      BY <2>1, <2>3
    <3> QED
      BY <2>1, <3>1
  <2> QED
    BY <2>3, <2>4
<1> QED
  BY <1>3, <1>4 DEF Added

\* Points as answers and blocks have them: in order, and not before time zero,
\* below which Go's remainder aligns upwards.
InTime(pts) ==
    /\ pts \in Seq(Cell)
    /\ \A i \in DOMAIN pts : pts[i].ts >= 0
    /\ \A i, j \in DOMAIN pts : i < j => pts[i].ts <= pts[j].ts

LEMMA TurnsAre ==
    ASSUME NEW pts, InTime(pts), NEW step \in Nat \ {0}
    PROVE  /\ Turns(pts, step) \in [0..Len(pts) -> Seq(Window)]
           /\ Turns(pts, step)[0] = <<>>
           /\ \A n \in 1..Len(pts) :
                  Turns(pts, step)[n] = Added(Turns(pts, step)[n - 1], pts[n], step)
<1> DEFINE L == Len(pts)
           F == [x \in Seq(Window) \X (1..L) |-> Added(x[1], pts[x[2]], step)]
           T == Turns(pts, step)
<1>1. L \in Nat /\ \A n \in 1..L : pts[n] \in Cell /\ pts[n].ts >= 0
  BY DEF InTime
<1>2. \A W \in Seq(Window) : \A n \in 1..L : Added(W, pts[n], step) \in Seq(Window)
  BY <1>1, AddedType
<1>3. F \in [Seq(Window) \X (1..L) -> Seq(Window)]
  <2>1. \A x \in Seq(Window) \X (1..L) : Added(x[1], pts[x[2]], step) \in Seq(Window)
    BY <1>2
  <2> QED
    BY <2>1
<1>4. \A W \in Seq(Window) : \A n \in 1..L : F[<<W, n>>] = Added(W, pts[n], step)
  OBVIOUS
<1>5. <<>> \in Seq(Window)
  OBVIOUS
<1> HIDE DEF F, L
<1>6. PICK f \in [0..L -> Seq(Window)] : f[0] = <<>> /\ \A n \in 1..L : f[n] = F[<<f[n - 1], n>>]
  <2>1. PICK f \in [0..L -> Seq(Window)] : Follows(f, <<>>, L, F)
    BY <1>1, <1>3, <1>5, Recursion
  <2> QED
    BY <2>1 DEF Follows
<1>7. \A n \in 1..L : n - 1 \in 0..L /\ n \in 0..L /\ n # 0
  BY <1>1
<1>8. \A n \in 1..L : f[n] = Added(f[n - 1], pts[n], step)
  BY <1>4, <1>6, <1>7
<1>9. f = [n \in 0..L |-> IF n = 0 THEN <<>> ELSE Added(f[n - 1], pts[n], step)]
  <2>1. f = [n \in 0..L |-> f[n]]
    BY <1>6
  <2>2. \A n \in 0..L : n # 0 => n \in 1..L
    BY <1>1
  <2>3. \A n \in 0..L : f[n] = IF n = 0 THEN <<>> ELSE Added(f[n - 1], pts[n], step)
    BY <1>6, <1>8, <2>2
  <2> QED
    BY <2>1, <2>3
<1>10. T = [n \in 0..L |-> IF n = 0 THEN <<>> ELSE Added(T[n - 1], pts[n], step)]
  BY <1>9 DEF Turns, L
<1> HIDE DEF T
<1>11. 0 \in 0..L /\ T[0] = <<>>
  <2>1. 0 \in 0..L
    BY <1>1
  <2> QED
    BY <1>10, <2>1
<1>12. \A n \in 1..L : T[n] = Added(T[n - 1], pts[n], step)
  BY <1>7, <1>10
<1> DEFINE S == {n \in 0..L : T[n] \in Seq(Window)}
<1>13. 0 \in S
  BY <1>5, <1>11
<1>14. ASSUME NEW n \in 0..(L - 1), n \in S PROVE n + 1 \in S
  <2>1. n + 1 \in 1..L /\ n + 1 \in 0..L /\ (n + 1) - 1 = n
    BY <1>1
  <2>2. T[n + 1] = Added(T[n], pts[n + 1], step)
    BY <1>12, <2>1
  <2> QED
    BY <1>2, <1>14, <2>1, <2>2
<1> HIDE DEF S
<1>15. \A n \in 0..L : n \in S
  BY <1>1, <1>13, <1>14, Induct
<1>16. T \in [0..L -> Seq(Window)]
  <2>1. \A n \in 0..L : T[n] \in Seq(Window)
    BY <1>15 DEF S
  <2>2. T = [n \in 0..L |-> T[n]]
    BY <1>10
  <2> QED
    BY <2>1, <2>2
<1> QED
  BY <1>11, <1>12, <1>16 DEF L, T

LEMMA SumsAre ==
    ASSUME NEW pts \in Seq(Cell), NEW I
    PROVE  /\ Sums(pts, I) \in [0..Len(pts) -> Int]
           /\ Sums(pts, I)[0] = 0
           /\ \A n \in 1..Len(pts) :
                  Sums(pts, I)[n] = Sums(pts, I)[n - 1] + (IF n \in I THEN pts[n].val ELSE 0)
<1> DEFINE L == Len(pts)
           F == [x \in Int \X (1..L) |-> x[1] + (IF x[2] \in I THEN pts[x[2]].val ELSE 0)]
           T == Sums(pts, I)
<1>1. L \in Nat /\ \A n \in 1..L : pts[n].val \in Int
  <2>1. L \in Nat /\ \A n \in 1..L : pts[n] \in Cell
    OBVIOUS
  <2> QED
    BY <2>1 DEF Cell
<1>2. \A x \in Int : \A n \in 1..L : x + (IF n \in I THEN pts[n].val ELSE 0) \in Int
  BY <1>1
<1>3. F \in [Int \X (1..L) -> Int]
  <2>1. \A x \in Int \X (1..L) : x[1] + (IF x[2] \in I THEN pts[x[2]].val ELSE 0) \in Int
    BY <1>2
  <2> QED
    BY <2>1
<1>4. \A x \in Int : \A n \in 1..L : F[<<x, n>>] = x + (IF n \in I THEN pts[n].val ELSE 0)
  OBVIOUS
<1> HIDE DEF F, L
<1>5. PICK f \in [0..L -> Int] : f[0] = 0 /\ \A n \in 1..L : f[n] = F[<<f[n - 1], n>>]
  <2>1. 0 \in Int
    OBVIOUS
  <2>2. PICK f \in [0..L -> Int] : Follows(f, 0, L, F)
    BY <1>1, <1>3, <2>1, Recursion
  <2> QED
    BY <2>2 DEF Follows
<1>6. \A n \in 1..L : n - 1 \in 0..L /\ n \in 0..L /\ n # 0
  BY <1>1
<1>7. \A n \in 1..L : f[n] = f[n - 1] + (IF n \in I THEN pts[n].val ELSE 0)
  BY <1>4, <1>5, <1>6
<1>8. f = [n \in 0..L |-> IF n = 0 THEN 0 ELSE f[n - 1] + (IF n \in I THEN pts[n].val ELSE 0)]
  <2>1. f = [n \in 0..L |-> f[n]]
    BY <1>5
  <2>2. \A n \in 0..L : n # 0 => n \in 1..L
    BY <1>1
  <2>3. \A n \in 0..L : f[n] = IF n = 0 THEN 0 ELSE f[n - 1] + (IF n \in I THEN pts[n].val ELSE 0)
    BY <1>5, <1>7, <2>2
  <2> QED
    BY <2>1, <2>3
<1>9. T = [n \in 0..L |-> IF n = 0 THEN 0 ELSE T[n - 1] + (IF n \in I THEN pts[n].val ELSE 0)]
  BY <1>8 DEF Sums, L
<1> HIDE DEF T
<1>10. 0 \in 0..L /\ T[0] = 0
  <2>1. 0 \in 0..L
    BY <1>1
  <2> QED
    BY <1>9, <2>1
<1>11. \A n \in 1..L : T[n] = T[n - 1] + (IF n \in I THEN pts[n].val ELSE 0)
  BY <1>6, <1>9
<1> DEFINE S == {n \in 0..L : T[n] \in Int}
<1>12. 0 \in S
  BY <1>10
<1>13. ASSUME NEW n \in 0..(L - 1), n \in S PROVE n + 1 \in S
  <2>1. n + 1 \in 1..L /\ n + 1 \in 0..L /\ (n + 1) - 1 = n
    BY <1>1
  <2>2. T[n + 1] = T[n] + (IF n + 1 \in I THEN pts[n + 1].val ELSE 0)
    BY <1>11, <2>1
  <2> QED
    BY <1>2, <1>13, <2>1, <2>2
<1> HIDE DEF S
<1>14. \A n \in 0..L : n \in S
  BY <1>1, <1>12, <1>13, Induct
<1>15. T \in [0..L -> Int]
  <2>1. \A n \in 0..L : T[n] \in Int
    BY <1>14 DEF S
  <2>2. T = [n \in 0..L |-> T[n]]
    BY <1>9
  <2> QED
    BY <2>1, <2>2
<1> QED
  BY <1>10, <1>11, <1>15 DEF L, T

\* What a window holds of the first n points.
Upto(pts, t, n, step) == In(pts, t, step) \cap (1..n)

Holds(w, pts, U, x) ==
    /\ U # {} /\ w.count = Cardinality(U) /\ w.sum = x
    /\ \E k \in U : w.min = pts[k].val
    /\ \E k \in U : w.max = pts[k].val
    /\ \A k \in U : w.min <= pts[k].val /\ pts[k].val <= w.max

Summed(w, pts, n, step) ==
    Holds(w, pts, Upto(pts, w.ts, n, step), Sums(pts, In(pts, w.ts, step))[n])

LEMMA OneMore ==
    ASSUME NEW pts, InTime(pts), NEW n \in 1..Len(pts), NEW t \in Int, NEW step \in Nat \ {0}
    PROVE  /\ Upto(pts, t, n, step) = Upto(pts, t, n - 1, step) \cup (In(pts, t, step) \cap {n})
           /\ n \notin Upto(pts, t, n - 1, step)
           /\ IsFiniteSet(Upto(pts, t, n - 1, step)) /\ Cardinality(Upto(pts, t, n - 1, step)) \in Nat
           /\ Sums(pts, In(pts, t, step))[n] =
                  Sums(pts, In(pts, t, step))[n - 1] + (IF n \in In(pts, t, step) THEN pts[n].val ELSE 0)
           /\ Sums(pts, In(pts, t, step))[n - 1] \in Int
           /\ \A k \in 1..Len(pts) : pts[k].val \in Int
           /\ Upto(pts, t, n - 1, step) \subseteq 1..Len(pts)
<1>1. Len(pts) \in Nat /\ n \in Nat /\ pts \in Seq(Cell)
  BY DEF InTime
<1>2. \A k \in 1..Len(pts) : pts[k].val \in Int
  <2>1. \A k \in 1..Len(pts) : pts[k] \in Cell
    BY <1>1
  <2> QED
    BY <2>1 DEF Cell
<1>3. 1..n = (1..(n - 1)) \cup {n} /\ n \notin 1..(n - 1) /\ 1..(n - 1) \subseteq 1..Len(pts)
  BY <1>1
<1>4. IsFiniteSet(1..(n - 1))
  <2>1. n - 1 \in Int /\ 1 \in Int
    BY <1>1
  <2> QED
    BY <2>1, FS_Interval
<1>5. Upto(pts, t, n - 1, step) \in SUBSET (1..(n - 1))
  BY DEF Upto
<1>6. IsFiniteSet(Upto(pts, t, n - 1, step)) /\ Cardinality(Upto(pts, t, n - 1, step)) \in Nat
  BY <1>4, <1>5, FS_Subset, FS_CardinalityType
<1>7. /\ Sums(pts, In(pts, t, step))[n] =
             Sums(pts, In(pts, t, step))[n - 1] + (IF n \in In(pts, t, step) THEN pts[n].val ELSE 0)
      /\ Sums(pts, In(pts, t, step))[n - 1] \in Int
  <2>1. PICK I : I = In(pts, t, step)
    OBVIOUS
  <2>2. n - 1 \in 0..Len(pts)
    BY <1>1
  <2>3. /\ Sums(pts, I) \in [0..Len(pts) -> Int]
        /\ Sums(pts, I)[n] = Sums(pts, I)[n - 1] + (IF n \in I THEN pts[n].val ELSE 0)
    BY <1>1, SumsAre
  <2> QED
    BY <2>1, <2>2, <2>3
<1> QED
  BY <1>2, <1>3, <1>5, <1>6, <1>7 DEF Upto

\* A point of another window changes nothing.
LEMMA SummedElse ==
    ASSUME NEW pts, InTime(pts), NEW n \in 1..Len(pts), NEW step \in Nat \ {0},
           NEW w \in Window, Summed(w, pts, n - 1, step), n \notin In(pts, w.ts, step)
    PROVE  Summed(w, pts, n, step)
<1>1. PICK t \in Int : t = w.ts
  BY DEF Window
<1>2. /\ Upto(pts, t, n, step) = Upto(pts, t, n - 1, step)
      /\ Sums(pts, In(pts, t, step))[n] = Sums(pts, In(pts, t, step))[n - 1]
  <2>1. PICK I : I = In(pts, t, step)
    OBVIOUS
  <2>2. n \notin I
    BY <1>1, <2>1
  <2>3. /\ Upto(pts, t, n, step) = Upto(pts, t, n - 1, step) \cup (I \cap {n})
        /\ Sums(pts, I)[n] = Sums(pts, I)[n - 1] + (IF n \in I THEN pts[n].val ELSE 0)
        /\ Sums(pts, I)[n - 1] \in Int
    BY <2>1, OneMore
  <2>4. Upto(pts, t, n, step) = Upto(pts, t, n - 1, step)
    BY <2>2, <2>3
  <2>5. Sums(pts, I)[n] = Sums(pts, I)[n - 1]
    BY <2>2, <2>3
  <2> QED
    BY <2>1, <2>4, <2>5
<1> QED
  BY <1>1, <1>2 DEF Summed

\* One of its own joins it.
LEMMA SummedJoined ==
    ASSUME NEW pts, InTime(pts), NEW n \in 1..Len(pts), NEW step \in Nat \ {0},
           NEW w \in Window, Summed(w, pts, n - 1, step), n \in In(pts, w.ts, step)
    PROVE  Summed(Joined(w, pts[n]), pts, n, step)
<1>1. PICK t \in Int : t = w.ts
  BY DEF Window
<1> DEFINE U == Upto(pts, t, n - 1, step)
           v == Joined(w, pts[n])
<1>2. /\ Upto(pts, t, n, step) = U \cup {n} /\ n \notin U
      /\ IsFiniteSet(U) /\ Cardinality(U) \in Nat /\ U \subseteq 1..Len(pts)
      /\ Sums(pts, In(pts, t, step))[n] = Sums(pts, In(pts, t, step))[n - 1] + pts[n].val
      /\ \A k \in 1..Len(pts) : pts[k].val \in Int
  <2>1. PICK I : I = In(pts, t, step) /\ n \in I
    BY <1>1
  <2>2. /\ Upto(pts, t, n, step) = U \cup (I \cap {n}) /\ n \notin U
        /\ IsFiniteSet(U) /\ Cardinality(U) \in Nat /\ U \subseteq 1..Len(pts)
        /\ Sums(pts, I)[n] = Sums(pts, I)[n - 1] + (IF n \in I THEN pts[n].val ELSE 0)
        /\ \A k \in 1..Len(pts) : pts[k].val \in Int
    BY <2>1, OneMore
  <2> HIDE DEF U
  <2>3. U \cup (I \cap {n}) = U \cup {n}
    BY <2>1
  <2>4. Sums(pts, I)[n] = Sums(pts, I)[n - 1] + pts[n].val
    BY <2>1, <2>2
  <2> QED
    BY <2>1, <2>2, <2>3, <2>4
<1>3. /\ v.ts = t /\ v.sum = w.sum + pts[n].val /\ v.count = w.count + 1
      /\ v.min = (IF pts[n].val < w.min THEN pts[n].val ELSE w.min)
      /\ v.max = (IF pts[n].val > w.max THEN pts[n].val ELSE w.max)
  BY <1>1 DEF Joined, Lower, Upper
<1>4. w.min \in Int /\ w.max \in Int
  BY DEF Window
<1>5. /\ w.count = Cardinality(U) /\ w.sum = Sums(pts, In(pts, t, step))[n - 1]
      /\ \E k \in U : w.min = pts[k].val
      /\ \E k \in U : w.max = pts[k].val
      /\ \A k \in U : w.min <= pts[k].val /\ pts[k].val <= w.max
  BY <1>1 DEF Summed, Holds
<1> HIDE DEF U, v
<1>6. Cardinality(U \cup {n}) = Cardinality(U) + 1
  BY <1>2, FS_AddElement
<1>7. (\E k \in U \cup {n} : v.min = pts[k].val) /\ (\E k \in U \cup {n} : v.max = pts[k].val)
  BY <1>3, <1>5
<1>8. \A k \in U \cup {n} : v.min <= pts[k].val /\ pts[k].val <= v.max
  <2> TAKE k \in U \cup {n}
  <2>1. PICK a \in Int, b \in Int : a = pts[n].val /\ b = pts[k].val
    BY <1>2
  <2>2. k = n \/ (w.min <= b /\ b <= w.max)
    BY <1>5, <2>1
  <2>3. k = n => a = b
    BY <2>1
  <2>4. v.min <= b /\ b <= v.max
    BY <1>3, <1>4, <2>1, <2>2, <2>3
  <2> QED
    BY <2>1, <2>4
<1>9. PICK x, y : x = Sums(pts, In(pts, t, step))[n] /\ y = Sums(pts, In(pts, t, step))[n - 1]
  OBVIOUS
<1>10. v.sum = x
  BY <1>2, <1>3, <1>5, <1>9
<1>11. v.count = Cardinality(U \cup {n}) /\ U \cup {n} # {}
  BY <1>3, <1>5, <1>6
<1>12. v.ts = t /\ Upto(pts, t, n, step) = U \cup {n}
  BY <1>2, <1>3
<1>13. Holds(v, pts, U \cup {n}, x)
  BY <1>7, <1>8, <1>10, <1>11 DEF Holds
<1>14. Summed(v, pts, n, step)
  BY <1>9, <1>12, <1>13 DEF Summed
<1> QED
  BY <1>14 DEF v

\* The first of a window opens it.
LEMMA SummedOpened ==
    ASSUME NEW pts, InTime(pts), NEW n \in 1..Len(pts), NEW step \in Nat \ {0},
           n \in In(pts, start(pts[n].ts, step), step),
           Upto(pts, start(pts[n].ts, step), n - 1, step) = {}
    PROVE  Summed(Opened(pts[n], step), pts, n, step)
<1> DEFINE v == Opened(pts[n], step)
<1>0. pts \in Seq(Cell) /\ Len(pts) \in Nat /\ n \in Nat /\ pts[n].ts \in Nat
  <2>1. pts \in Seq(Cell) /\ Len(pts) \in Nat /\ pts[n].ts >= 0 /\ pts[n] \in Cell
    BY DEF InTime
  <2> QED
    BY <2>1 DEF Cell
<1>1. PICK t \in Int : t = start(pts[n].ts, step)
  <2>1. PICK u \in Nat : u = pts[n].ts
    BY <1>0
  <2>2. start(u, step) \in 0..u
    BY StartIs
  <2> QED
    BY <2>1, <2>2
<1>2. PICK I : I = In(pts, t, step)
  OBVIOUS
<1>3. /\ Upto(pts, t, n, step) = {n} /\ \A k \in 1..(n - 1) : k \notin I
      /\ Sums(pts, I)[n] = Sums(pts, I)[n - 1] + pts[n].val
      /\ pts[n].val \in Int
  <2>1. Upto(pts, t, n - 1, step) = {}
    BY <1>1
  <2>2. n \in I
    BY <1>1, <1>2
  <2>3. /\ Upto(pts, t, n, step) = Upto(pts, t, n - 1, step) \cup (I \cap {n})
        /\ Sums(pts, I)[n] = Sums(pts, I)[n - 1] + (IF n \in I THEN pts[n].val ELSE 0)
        /\ pts[n].val \in Int
    BY <1>2, OneMore
  <2>4. \A k \in 1..(n - 1) : k \notin I
    BY <1>2, <2>1 DEF Upto
  <2> QED
    BY <2>1, <2>2, <2>3, <2>4
<1>4. Sums(pts, I)[n - 1] = 0
  <2> DEFINE S == {m \in 0..(n - 1) : Sums(pts, I)[m] = 0}
  <2>1. /\ Sums(pts, I)[0] = 0
        /\ \A m \in 1..Len(pts) : Sums(pts, I)[m] = Sums(pts, I)[m - 1] + (IF m \in I THEN pts[m].val ELSE 0)
    BY <1>0, SumsAre
  <2>2. n - 1 \in Nat /\ n - 1 \in 0..(n - 1) /\ 0 \in 0..(n - 1)
    BY <1>0
  <2>3. 0 \in S
    BY <2>1, <2>2
  <2>4. ASSUME NEW m \in 0..((n - 1) - 1), m \in S PROVE m + 1 \in S
    <3>1. m + 1 \in 1..(n - 1) /\ m + 1 \in 1..Len(pts) /\ m + 1 \in 0..(n - 1) /\ (m + 1) - 1 = m
      BY <1>0
    <3>2. Sums(pts, I)[m + 1] = Sums(pts, I)[m] + 0
      BY <1>3, <2>1, <3>1
    <3>3. Sums(pts, I)[m] = 0
      BY <2>4
    <3> QED
      BY <3>1, <3>2, <3>3
  <2> HIDE DEF S
  <2>5. \A m \in 0..(n - 1) : m \in S
    BY <2>2, <2>3, <2>4, Induct
  <2> QED
    BY <2>2, <2>5 DEF S
<1>5. v.ts = t /\ v.sum = pts[n].val /\ v.count = 1 /\ v.min = pts[n].val /\ v.max = pts[n].val
  BY <1>1 DEF Opened
<1>6. Cardinality({n}) = 1
  BY FS_Singleton
<1>7. Sums(pts, In(pts, t, step))[n] = pts[n].val
  BY <1>2, <1>3, <1>4
<1> HIDE DEF v
<1>8. Summed(v, pts, n, step)
  <2>1. PICK U, x : U = Upto(pts, t, n, step) /\ x = Sums(pts, In(pts, t, step))[n]
    OBVIOUS
  <2>2. U = {n} /\ x = pts[n].val
    BY <1>3, <1>7, <2>1
  <2>3. /\ U # {} /\ v.count = Cardinality(U) /\ v.sum = x
        /\ \E k \in U : v.min = pts[k].val
        /\ \E k \in U : v.max = pts[k].val
    BY <1>5, <1>6, <2>2
  <2>4. \A k \in U : v.min <= pts[k].val /\ pts[k].val <= v.max
    BY <1>3, <1>5, <2>2
  <2> QED
    BY <1>5, <2>1, <2>3, <2>4 DEF Summed, Holds
<1> QED
  BY <1>8 DEF v

\* What the windows are after n turns of the loop.
Grouped(W, pts, n, step) ==
    /\ \A i, j \in DOMAIN W : i < j => W[i].ts < W[j].ts
    /\ \A k \in 1..n : \E i \in DOMAIN W : W[i].ts = start(pts[k].ts, step)
    /\ W # <<>> => n > 0 /\ W[Len(W)].ts = start(pts[n].ts, step)
    /\ \A i \in DOMAIN W : Summed(W[i], pts, n, step)
    /\ \A i \in DOMAIN W : \E k \in 1..n : W[i].ts = start(pts[k].ts, step)

\* A point is in the window that its timestamp starts, and in no other.
LEMMA InWindow ==
    ASSUME NEW pts, InTime(pts), NEW step \in Nat \ {0}, NEW k \in 1..Len(pts), NEW m \in 1..Len(pts)
    PROVE  /\ k \in In(pts, start(pts[m].ts, step), step) <=> start(pts[k].ts, step) = start(pts[m].ts, step)
           /\ start(pts[k].ts, step) \in Nat
           /\ k <= m => start(pts[k].ts, step) <= start(pts[m].ts, step)
<1>1. PICK t, u : t = pts[m].ts /\ u = pts[k].ts
  OBVIOUS
<1>2. /\ DOMAIN pts = 1..Len(pts) /\ t >= 0 /\ u >= 0 /\ pts[m] \in Cell /\ pts[k] \in Cell
      /\ Len(pts) \in Nat /\ (k < m => u <= t)
  BY <1>1 DEF InTime
<1>3. t \in Nat /\ u \in Nat
  BY <1>1, <1>2 DEF Cell
<1>4. k <= m => u <= t
  <2>1. k <= m => k = m \/ k < m
    BY <1>2
  <2> QED
    BY <1>1, <1>2, <1>3, <2>1
<1>5. k \in In(pts, start(t, step), step) <=> u \in start(t, step)..(start(t, step) + step - 1)
  BY <1>1, <1>2 DEF In
<1>6. /\ u \in start(t, step)..(start(t, step) + step - 1) <=> start(u, step) = start(t, step)
      /\ u <= t => start(u, step) <= start(t, step)
  BY <1>3, SameStart
<1>7. start(u, step) \in 0..u
  BY <1>3, StartIs
<1>8. start(u, step) \in Nat
  BY <1>7
<1> QED
  BY <1>1, <1>4, <1>5, <1>6, <1>8

\* A turn that opens a window.
LEMMA OpenedGrouped ==
    ASSUME NEW pts, InTime(pts), NEW step \in Nat \ {0}, NEW n \in 1..Len(pts),
           NEW W \in Seq(Window), Grouped(W, pts, n - 1, step),
           W = <<>> \/ W[Len(W)].ts # start(pts[n].ts, step)
    PROVE  Grouped(Append(W, Opened(pts[n], step)), pts, n, step)
<1>1. PICK c, p : c = start(pts[n].ts, step) /\ p = Opened(pts[n], step)
  OBVIOUS
<1>2. /\ pts \in Seq(Cell) /\ Len(pts) \in Nat /\ n \in Nat /\ n - 1 \in Nat
      /\ \A k \in 1..(n - 1) : k \in 1..Len(pts) /\ k <= n /\ k <= n - 1
      /\ \A k \in 1..n : k \in 1..(n - 1) \/ k = n
      /\ n - 1 > 0 => n - 1 \in 1..(n - 1)
      /\ 1..(n - 1) \subseteq 1..n /\ n \in 1..n
  BY DEF InTime
<1>3. pts[n] \in Cell /\ pts[n].ts >= 0
  BY DEF InTime
<1> DEFINE m == Len(W)
           V == Append(W, p)
<1>4. m \in Nat /\ DOMAIN W = 1..m /\ \A i \in 1..m : W[i] \in Window /\ W[i].ts \in Int
  <2>1. m \in Nat /\ DOMAIN W = 1..m /\ \A i \in 1..m : W[i] \in Window
    OBVIOUS
  <2> QED
    BY <2>1 DEF Window
<1>5. p \in Window /\ p.ts = c
  <2>1. p \in Window
    BY <1>1, <1>3, AddedType
  <2> QED
    BY <1>1, <2>1 DEF Opened
<1>6. /\ V \in Seq(Window) /\ Len(V) = m + 1 /\ DOMAIN V = 1..(m + 1) /\ V[m + 1] = p
      /\ \A i \in 1..m : V[i] = W[i]
      /\ \A i \in 1..(m + 1) : i \in 1..m \/ i = m + 1
      /\ V # <<>> /\ m + 1 \in 1..(m + 1) /\ \A i \in 1..m : i \in 1..(m + 1)
  BY <1>4, <1>5
<1>7. c \in Nat /\ \A k \in 1..(n - 1) : /\ start(pts[k].ts, step) <= c /\ start(pts[k].ts, step) \in Nat
                                         /\ k \in In(pts, c, step) <=> start(pts[k].ts, step) = c
  <2>1. c \in Nat
    BY <1>1, InWindow
  <2> SUFFICES ASSUME NEW k \in 1..(n - 1)
               PROVE  /\ start(pts[k].ts, step) <= c /\ start(pts[k].ts, step) \in Nat
                      /\ k \in In(pts, c, step) <=> start(pts[k].ts, step) = c
    BY <2>1
  <2>2. k \in 1..Len(pts) /\ k <= n
    BY <1>2
  <2> QED
    BY <1>1, <2>2, InWindow
<1>8. /\ \A i, j \in 1..m : i < j => W[i].ts < W[j].ts
      /\ \A k \in 1..(n - 1) : \E i \in 1..m : W[i].ts = start(pts[k].ts, step)
      /\ m > 0 => n - 1 > 0 /\ W[m].ts = start(pts[n - 1].ts, step)
      /\ \A i \in 1..m : Summed(W[i], pts, n - 1, step)
      /\ \A i \in 1..m : \E k \in 1..(n - 1) : W[i].ts = start(pts[k].ts, step)
  <2>1. m > 0 => n - 1 > 0 /\ W[m].ts = start(pts[n - 1].ts, step)
    <3>1. m > 0 => W # <<>>
      OBVIOUS
    <3> QED
      BY <3>1 DEF Grouped
  <2>2. DOMAIN W = 1..m
    BY <1>4
  <2> HIDE DEF m
  <2> QED
    BY <2>1, <2>2 DEF Grouped
<1>9. m > 0 => W[m].ts # c
  BY <1>1, <1>4
<1> HIDE DEF m, V
<1>10. \A i \in 1..m : W[i].ts < c
  <2> SUFFICES ASSUME NEW i \in 1..m PROVE W[i].ts < c
    OBVIOUS
  <2>1. m > 0 /\ m \in 1..m /\ (i = m \/ i < m)
    BY <1>4
  <2>2. W[m].ts = start(pts[n - 1].ts, step) /\ n - 1 \in 1..(n - 1)
    BY <1>2, <1>8, <2>1
  <2>3. W[m].ts < c
    <3>1. start(pts[n - 1].ts, step) <= c
      BY <1>7, <2>2
    <3>2. W[m].ts <= c /\ W[m].ts # c /\ W[m].ts \in Int
      BY <1>4, <1>9, <2>1, <2>2, <3>1
    <3> QED
      BY <1>7, <3>2
  <2>4. i = m \/ W[i].ts < W[m].ts
    BY <1>8, <2>1
  <2>5. W[i].ts \in Int /\ W[m].ts \in Int /\ c \in Int
    BY <1>4, <1>7, <2>1
  <2> QED
    BY <2>3, <2>4, <2>5
<1>11. \A i, j \in 1..(m + 1) : i < j => V[i].ts < V[j].ts
  <2> SUFFICES ASSUME NEW i \in 1..(m + 1), NEW j \in 1..(m + 1), i < j PROVE V[i].ts < V[j].ts
    OBVIOUS
  <2>1. i \in 1..m
    BY <1>4
  <2>2. CASE j \in 1..m
    BY <1>6, <1>8, <2>1, <2>2
  <2>3. CASE j = m + 1
    <3>1. V[i] = W[i] /\ V[j] = p
      BY <1>6, <2>1, <2>3
    <3> QED
      BY <1>5, <1>10, <2>1, <3>1
  <2> QED
    BY <1>6, <2>2, <2>3
<1>12. \A k \in 1..n : \E i \in 1..(m + 1) : V[i].ts = start(pts[k].ts, step)
  <2> TAKE k \in 1..n
  <2>1. CASE k = n
    BY <1>1, <1>5, <1>6, <2>1
  <2>2. CASE k \in 1..(n - 1)
    <3>1. PICK i \in 1..m : W[i].ts = start(pts[k].ts, step)
      BY <1>8, <2>2
    <3>2. i \in 1..(m + 1) /\ V[i] = W[i]
      BY <1>6
    <3> QED
      BY <3>1, <3>2
  <2> QED
    BY <1>2, <2>1, <2>2
<1>13. \A i \in 1..(m + 1) : \E k \in 1..n : V[i].ts = start(pts[k].ts, step)
  <2> TAKE i \in 1..(m + 1)
  <2>1. CASE i = m + 1
    BY <1>1, <1>2, <1>5, <1>6, <2>1
  <2>2. CASE i \in 1..m
    <3>1. PICK k \in 1..(n - 1) : W[i].ts = start(pts[k].ts, step)
      BY <1>8, <2>2
    <3>2. k \in 1..n /\ V[i] = W[i]
      BY <1>2, <1>6, <2>2
    <3> QED
      BY <3>1, <3>2
  <2> QED
    BY <1>6, <2>1, <2>2
<1>14. \A i \in 1..(m + 1) : Summed(V[i], pts, n, step)
  <2> TAKE i \in 1..(m + 1)
  <2>1. CASE i \in 1..m
    <3>1. PICK w : w = W[i]
      OBVIOUS
    <3>2. w \in Window /\ Summed(w, pts, n - 1, step) /\ w.ts # c /\ V[i] = w
      <4>1. w \in Window /\ Summed(w, pts, n - 1, step) /\ V[i] = w
        BY <1>4, <1>6, <1>8, <2>1, <3>1
      <4>2. w.ts \in Int /\ w.ts < c
        BY <1>4, <1>10, <2>1, <3>1
      <4> QED
        BY <1>7, <4>1, <4>2
    <3>3. PICK k \in 1..(n - 1) : w.ts = start(pts[k].ts, step)
      BY <1>8, <2>1, <3>1
    <3>4. k \in 1..Len(pts)
      BY <1>2
    <3>5. n \in In(pts, start(pts[k].ts, step), step) <=> start(pts[n].ts, step) = start(pts[k].ts, step)
      BY <3>4, InWindow
    <3>6. n \notin In(pts, w.ts, step)
      BY <1>1, <3>2, <3>3, <3>5
    <3> QED
      BY <3>2, <3>6, SummedElse
  <2>2. CASE i = m + 1
    <3>1. n \in In(pts, start(pts[n].ts, step), step)
      BY InWindow
    <3>2. \A k \in 1..(n - 1) : k \notin In(pts, c, step)
      <4> SUFFICES ASSUME NEW k \in 1..(n - 1) PROVE start(pts[k].ts, step) # c
        BY <1>7
      <4>1. PICK j \in 1..m : W[j].ts = start(pts[k].ts, step)
        BY <1>8
      <4>2. W[j].ts < c /\ W[j].ts \in Int /\ c \in Int
        BY <1>4, <1>7, <1>10
      <4> QED
        BY <4>1, <4>2
    <3>3. Upto(pts, start(pts[n].ts, step), n - 1, step) = {}
      BY <1>1, <3>2 DEF Upto
    <3>4. Summed(Opened(pts[n], step), pts, n, step)
      BY <3>1, <3>3, SummedOpened
    <3> QED
      BY <1>1, <1>6, <2>2, <3>4
  <2> QED
    BY <1>6, <2>1, <2>2
<1>15. n > 0 /\ V[m + 1].ts = start(pts[n].ts, step)
  BY <1>1, <1>2, <1>5, <1>6
<1>16. Grouped(V, pts, n, step)
  BY <1>6, <1>11, <1>12, <1>13, <1>14, <1>15 DEF Grouped
<1> QED
  BY <1>1, <1>16 DEF V

\* A turn that joins the last window.
LEMMA JoinedGrouped ==
    ASSUME NEW pts, InTime(pts), NEW step \in Nat \ {0}, NEW n \in 1..Len(pts),
           NEW W \in Seq(Window), Grouped(W, pts, n - 1, step),
           W # <<>>, W[Len(W)].ts = start(pts[n].ts, step)
    PROVE  Grouped([W EXCEPT ![Len(W)] = Joined(@, pts[n])], pts, n, step)
<1> DEFINE m == Len(W)
<1>1. PICK c, p : c = start(pts[n].ts, step) /\ p = Joined(W[m], pts[n])
  OBVIOUS
<1>2. /\ pts \in Seq(Cell) /\ Len(pts) \in Nat /\ n \in Nat /\ n - 1 \in Nat
      /\ \A k \in 1..(n - 1) : k \in 1..Len(pts)
      /\ \A k \in 1..n : k \in 1..(n - 1) \/ k = n
      /\ 1..(n - 1) \subseteq 1..n /\ n \in 1..n
  BY DEF InTime
<1>3. pts[n] \in Cell /\ pts[n].ts >= 0
  BY DEF InTime
<1>4. /\ m \in Nat /\ m \in 1..m /\ DOMAIN W = 1..m /\ W \in [1..m -> Window]
      /\ \A i \in 1..m : W[i] \in Window /\ W[i].ts \in Int
  <2>1. m \in Nat /\ m \in 1..m /\ DOMAIN W = 1..m /\ W \in [1..m -> Window]
    OBVIOUS
  <2>2. \A i \in 1..m : W[i] \in Window
    BY <2>1
  <2> QED
    BY <2>1, <2>2 DEF Window
<1>5. p \in Window /\ p.ts = c
  <2>1. p \in Window
    BY <1>1, <1>3, AddedType
  <2> QED
    BY <1>1, <2>1 DEF Joined
<1> DEFINE V == [W EXCEPT ![m] = p]
<1>6. /\ \A i, j \in 1..m : i < j => W[i].ts < W[j].ts
      /\ \A k \in 1..(n - 1) : \E i \in 1..m : W[i].ts = start(pts[k].ts, step)
      /\ \A i \in 1..m : Summed(W[i], pts, n - 1, step)
      /\ \A i \in 1..m : \E k \in 1..(n - 1) : W[i].ts = start(pts[k].ts, step)
      /\ W[m].ts = c
  BY <1>1, <1>4 DEF Grouped
<1> HIDE DEF m
<1>7. /\ V \in [1..m -> Window] /\ V[m] = p /\ \A i \in 1..m : i # m => V[i] = W[i]
  BY <1>4, <1>5
<1>8. V \in Seq(Window) /\ Len(V) = m /\ DOMAIN V = 1..m /\ V # <<>>
  BY <1>4, <1>7
<1> HIDE DEF V
<1>9. \A i \in 1..m : V[i].ts = W[i].ts
  BY <1>5, <1>6, <1>7
<1>10. \A i, j \in 1..m : i < j => V[i].ts < V[j].ts
  BY <1>6, <1>9
<1>11. \A k \in 1..n : \E i \in 1..m : V[i].ts = start(pts[k].ts, step)
  <2> TAKE k \in 1..n
  <2>1. CASE k = n
    BY <1>1, <1>4, <1>5, <1>7, <2>1
  <2>2. CASE k \in 1..(n - 1)
    BY <1>6, <1>9, <2>2
  <2> QED
    BY <1>2, <2>1, <2>2
<1>12. \A i \in 1..m : \E k \in 1..n : V[i].ts = start(pts[k].ts, step)
  BY <1>2, <1>6, <1>9
<1>13. \A i \in 1..m : n \in In(pts, W[i].ts, step) <=> W[i].ts = c
  <2> TAKE i \in 1..m
  <2>1. PICK k \in 1..(n - 1) : W[i].ts = start(pts[k].ts, step)
    BY <1>6
  <2>2. k \in 1..Len(pts)
    BY <1>2
  <2>3. n \in In(pts, start(pts[k].ts, step), step) <=> start(pts[n].ts, step) = start(pts[k].ts, step)
    BY <2>2, InWindow
  <2> QED
    BY <1>1, <2>1, <2>3
<1>14. \A i \in 1..m : Summed(V[i], pts, n, step)
  <2> TAKE i \in 1..m
  <2>1. PICK w : w = W[i]
    OBVIOUS
  <2>2. w \in Window /\ Summed(w, pts, n - 1, step)
    BY <1>4, <1>6, <2>1
  <2>3. CASE i # m
    <3>1. W[i].ts # c
      <4>1. i < m
        BY <1>4, <2>3
      <4>2. W[i].ts < c /\ W[i].ts \in Int
        BY <1>4, <1>6, <4>1
      <4> QED
        BY <4>2
    <3>2. n \notin In(pts, w.ts, step)
      BY <1>13, <2>1, <3>1
    <3>3. Summed(w, pts, n, step)
      BY <2>2, <3>2, SummedElse
    <3> QED
      BY <1>7, <2>1, <2>3, <3>3
  <2>4. CASE i = m
    <3>1. n \in In(pts, w.ts, step)
      BY <1>6, <1>13, <2>1, <2>4
    <3>2. Summed(Joined(w, pts[n]), pts, n, step)
      BY <2>2, <3>1, SummedJoined
    <3> QED
      BY <1>1, <1>7, <2>1, <2>4, <3>2
  <2> QED
    BY <2>3, <2>4
<1>15. n > 0 /\ V[m].ts = start(pts[n].ts, step)
  BY <1>1, <1>2, <1>5, <1>7
<1>16. Grouped(V, pts, n, step)
  BY <1>8, <1>10, <1>11, <1>12, <1>14, <1>15 DEF Grouped
<1>17. V = [W EXCEPT ![m] = Joined(@, pts[n])]
  BY <1>1 DEF V
<1> QED
  BY <1>16, <1>17 DEF m

\* So the loop makes of points in time one window of each step, with all of its
\* points and in order.
LEMMA AggregateIs ==
    ASSUME NEW pts, InTime(pts), NEW step \in Nat \ {0}
    PROVE  /\ aggregate(pts, step) \in Seq(Window)
           /\ Grouped(aggregate(pts, step), pts, Len(pts), step)
<1> DEFINE L == Len(pts)
           T == Turns(pts, step)
           S == {n \in 0..L : Grouped(T[n], pts, n, step)}
<1>1. L \in Nat /\ \A n \in 1..L : pts[n] \in Cell /\ pts[n].ts >= 0
  BY DEF InTime
<1>2. /\ T \in [0..L -> Seq(Window)] /\ T[0] = <<>>
      /\ \A n \in 1..L : T[n] = Added(T[n - 1], pts[n], step)
  BY TurnsAre
<1> HIDE DEF T
<1>3. 0 \in S
  <2>1. 0 \in 0..L /\ 1..0 = {}
    BY <1>1
  <2>2. Grouped(<<>>, pts, 0, step)
    BY <2>1 DEF Grouped
  <2> QED
    BY <1>2, <2>1, <2>2
<1>4. ASSUME NEW n \in 0..(L - 1), n \in S PROVE n + 1 \in S
  <2>1. PICK k \in 1..L : k = n + 1
    BY <1>1
  <2>2. k - 1 = n /\ k - 1 \in 0..L /\ k \in 0..L
    BY <1>1, <2>1
  <2>3. PICK W \in Seq(Window) : W = T[k - 1]
    BY <1>2, <2>2
  <2>4. Grouped(W, pts, k - 1, step) /\ T[k] = Added(W, pts[k], step)
    BY <1>2, <1>4, <2>2, <2>3
  <2>5. CASE W = <<>> \/ W[Len(W)].ts # start(pts[k].ts, step)
    <3>1. Grouped(Append(W, Opened(pts[k], step)), pts, k, step)
      BY <2>4, <2>5, OpenedGrouped
    <3>2. T[k] = Append(W, Opened(pts[k], step))
      BY <2>4, <2>5 DEF Added
    <3> QED
      BY <2>1, <2>2, <3>1, <3>2
  <2>6. CASE ~(W = <<>> \/ W[Len(W)].ts # start(pts[k].ts, step))
    <3>1. Grouped([W EXCEPT ![Len(W)] = Joined(@, pts[k])], pts, k, step)
      BY <2>4, <2>6, JoinedGrouped
    <3>2. T[k] = [W EXCEPT ![Len(W)] = Joined(@, pts[k])]
      BY <2>4, <2>6 DEF Added
    <3> QED
      BY <2>1, <2>2, <3>1, <3>2
  <2> QED
    BY <2>5, <2>6
<1> HIDE DEF S
<1>5. \A n \in 0..L : n \in S
  BY <1>1, <1>3, <1>4, Induct
<1>6. L \in 0..L /\ Grouped(T[L], pts, L, step)
  BY <1>1, <1>5 DEF S
<1> QED
  BY <1>2, <1>6 DEF aggregate, T

LEMMA GroupedAll ==
    ASSUME NEW pts, InTime(pts), NEW step \in Nat \ {0},
           NEW W \in Seq(Window), Grouped(W, pts, Len(pts), step)
    PROVE  Summarises(W, pts, step) /\ Bounds(W, pts, step)
<1>1. Len(pts) \in Nat /\ DOMAIN pts = 1..Len(pts)
  BY DEF InTime
<1>2. ASSUME NEW i \in DOMAIN W
      PROVE  /\ Upto(pts, W[i].ts, Len(pts), step) = In(pts, W[i].ts, step)
             /\ Holds(W[i], pts, In(pts, W[i].ts, step), Total(pts, In(pts, W[i].ts, step)))
  <2>1. Upto(pts, W[i].ts, Len(pts), step) = In(pts, W[i].ts, step)
    BY <1>1 DEF Upto, In
  <2>2. Summed(W[i], pts, Len(pts), step)
    BY DEF Grouped
  <2> QED
    BY <2>1, <2>2 DEF Summed, Total
<1>3. ASSUME NEW k \in DOMAIN pts PROVE \E i \in DOMAIN W : k \in In(pts, W[i].ts, step)
  <2>1. PICK i \in DOMAIN W : W[i].ts = start(pts[k].ts, step)
    BY <1>1 DEF Grouped
  <2>2. k \in In(pts, start(pts[k].ts, step), step)
    BY <1>1, InWindow
  <2> QED
    BY <2>1, <2>2
<1>4. \A i, j \in DOMAIN W : i < j => W[i].ts < W[j].ts
  BY DEF Grouped
<1>5. ASSUME NEW i \in DOMAIN W
      PROVE  LET I == In(pts, W[i].ts, step)
             IN  I # {} /\ W[i].count = Cardinality(I) /\ W[i].sum = Total(pts, I)
  BY <1>2 DEF Holds
<1>6. Summarises(W, pts, step)
  BY <1>3, <1>4, <1>5 DEF Summarises
<1>7. ASSUME NEW i \in DOMAIN W
      PROVE  LET vals == {pts[k].val : k \in In(pts, W[i].ts, step)}
             IN  /\ W[i].min \in vals /\ W[i].max \in vals
                 /\ \A v \in vals : W[i].min <= v /\ v <= W[i].max
  BY <1>2 DEF Holds
<1>8. Bounds(W, pts, step)
  BY <1>7 DEF Bounds
<1> QED
  BY <1>6, <1>8

\* Points that each start a window of their own get one each.
LEMMA OwnWindows ==
    ASSUME NEW pts, InTime(pts), NEW step \in Nat \ {0}, Ascending(pts),
           \A k \in DOMAIN pts : start(pts[k].ts, step) = pts[k].ts
    PROVE  aggregate(pts, step) = [k \in DOMAIN pts |-> Opened(pts[k], step)]
<1> DEFINE L == Len(pts)
           T == Turns(pts, step)
           Firsts(n) == [k \in 1..n |-> Opened(pts[k], step)]
           S == {n \in 0..L : T[n] = Firsts(n)}
<1>1. L \in Nat /\ DOMAIN pts = 1..L /\ \A n \in 1..L : pts[n] \in Cell /\ pts[n].ts >= 0 /\ pts[n].ts \in Int
  <2>1. L \in Nat /\ DOMAIN pts = 1..L /\ \A n \in 1..L : pts[n] \in Cell /\ pts[n].ts >= 0
    BY DEF InTime
  <2> QED
    BY <2>1 DEF Cell
<1>2. /\ T \in [0..L -> Seq(Window)] /\ T[0] = <<>>
      /\ \A n \in 1..L : T[n] = Added(T[n - 1], pts[n], step)
  BY TurnsAre
<1> HIDE DEF T, L
<1>3. 0 \in S
  <2>1. 0 \in 0..L /\ Firsts(0) = <<>>
    BY <1>1
  <2> QED
    BY <1>2, <2>1
<1>4. ASSUME NEW n \in 0..(L - 1), n \in S PROVE n + 1 \in S
  <2>1. /\ n \in Nat /\ n + 1 \in 1..L /\ n + 1 \in 0..L /\ (n + 1) - 1 = n
        /\ \A k \in 1..n : k \in 1..L /\ k < n + 1
    BY <1>1
  <2>2. \A k \in 1..n : Opened(pts[k], step) \in Window
    <3> TAKE k \in 1..n
    <3>1. pts[k] \in Cell /\ pts[k].ts >= 0
      BY <1>1, <2>1
    <3>2. <<>> \in Seq(Window)
      OBVIOUS
    <3> QED
      BY <3>1, <3>2, AddedType
  <2>3. PICK W : W = Firsts(n)
    OBVIOUS
  <2>4. W \in Seq(Window) /\ Len(W) = n /\ \A k \in 1..n : W[k] = Opened(pts[k], step)
    <3>1. W \in [1..n -> Window]
      BY <2>2, <2>3
    <3>2. W \in Seq(Window) /\ Len(W) = n
      BY <2>1, <3>1
    <3> QED
      BY <2>3, <3>2
  <2>5. W = <<>> \/ W[Len(W)].ts # start(pts[n + 1].ts, step)
    <3> SUFFICES ASSUME W # <<>> PROVE W[n].ts # start(pts[n + 1].ts, step)
      BY <2>4
    <3>1. n \in 1..n
      BY <2>1, <2>4
    <3>2. W[n].ts = start(pts[n].ts, step)
      BY <2>4, <3>1 DEF Opened
    <3>3. pts[n].ts < pts[n + 1].ts
      BY <1>1, <2>1, <3>1 DEF Ascending
    <3>4. start(pts[n].ts, step) = pts[n].ts /\ start(pts[n + 1].ts, step) = pts[n + 1].ts
      BY <1>1, <2>1, <3>1
    <3>5. pts[n].ts \in Int /\ pts[n + 1].ts \in Int
      BY <1>1, <2>1, <3>1
    <3> QED
      BY <3>2, <3>3, <3>4, <3>5
  <2>6. T[n] = W
    BY <1>4, <2>3
  <2>7. T[n + 1] = Added(W, pts[n + 1], step)
    BY <1>2, <2>1, <2>6
  <2>8. T[n + 1] = Append(W, Opened(pts[n + 1], step))
    BY <2>5, <2>7 DEF Added
  <2>9. Append(W, Opened(pts[n + 1], step)) = Firsts(n + 1)
    <3>1. PICK o : o = Opened(pts[n + 1], step)
      OBVIOUS
    <3>2. o \in Window
      <4>1. pts[n + 1] \in Cell /\ pts[n + 1].ts >= 0
        BY <1>1, <2>1
      <4> QED
        BY <2>4, <3>1, <4>1, AddedType
    <3>3. /\ Append(W, o) \in Seq(Window) /\ Len(Append(W, o)) = n + 1
          /\ Append(W, o)[n + 1] = o /\ \A k \in 1..n : Append(W, o)[k] = W[k]
      BY <2>1, <2>4, <3>2
    <3>4. Append(W, o) = [k \in 1..(n + 1) |-> Append(W, o)[k]]
      <4>1. PICK A \in Seq(Window) : A = Append(W, o) /\ Len(A) = n + 1
        BY <3>3
      <4>2. A = [k \in 1..Len(A) |-> A[k]]
        OBVIOUS
      <4> QED
        BY <4>1, <4>2
    <3>5. \A k \in 1..(n + 1) : Append(W, o)[k] = Opened(pts[k], step)
      <4> TAKE k \in 1..(n + 1)
      <4>1. k = n + 1 \/ k \in 1..n
        BY <2>1
      <4> QED
        BY <2>4, <3>1, <3>3, <4>1
    <3> QED
      BY <3>1, <3>4, <3>5
  <2> QED
    BY <2>1, <2>8, <2>9
<1> HIDE DEF S
<1>5. \A n \in 0..L : n \in S
  BY <1>1, <1>3, <1>4, Induct
<1>6. L \in 0..L /\ T[L] = Firsts(L)
  BY <1>1, <1>5 DEF S
<1> QED
  BY <1>1, <1>6 DEF aggregate, T, L

\* What an answer is made of.
LEMMA SortedStep == ASSUME TablesIInv, PinsIInv, AnswersIInv, SortedIInv, [Next]_vars PROVE SortedIInv'
<1> DEFINE Fine(q) ==
               /\ q.at \in {"blocks", "answered"} => TSof(q.pts) \subseteq SampleTimes
               /\ q.at = "answered" => \A i, j \in DOMAIN q.pts : i < j => q.pts[i].ts <= q.pts[j].ts
<1>1. /\ DOMAIN query = Reader /\ \A r \in Reader : Fine(query[r])
      /\ (\A r \in Reader : Fine(query'[r])) => SortedIInv'
  BY DEF SortedIInv, PinsIInv, SampleTimes
<1>2. Fine(NoQuery)
  BY DEF NoQuery
<1>3. \A q, u : Fine(q) /\ u.at = q.at /\ u.pts = q.pts => Fine(u)
  OBVIOUS
<1> HIDE DEF Fine
<1>4. ASSUME NEW r \in Reader, NEW u, Fine(u), query' = [query EXCEPT ![r] = u] PROVE SortedIInv'
  <2>1. \A x \in Reader : query'[x] = u \/ query'[x] = query[x]
    BY <1>1, <1>4
  <2> QED
    BY <1>1, <1>4, <2>1
<1>5. ASSUME NEW p \in Sample, Write(p) PROVE SortedIInv'
  <2>1. query' = Noticed(p)
    BY <1>5 DEF Write
  <2>2. \A r \in Reader : query[r] \in QueryType
    BY AnswersIs
  <2>3. \A r \in Reader : query'[r].at = query[r].at /\ query'[r].pts = query[r].pts
    <3> TAKE r \in Reader
    <3>1. query'[r] = query[r] \/ \E S : query'[r] = [query[r] EXCEPT !.late = S]
      BY <2>1 DEF Noticed
    <3>2. CASE query'[r] = query[r]
      BY <3>2
    <3>3. CASE \E S : query'[r] = [query[r] EXCEPT !.late = S]
      <4>1. PICK S : query'[r] = [query[r] EXCEPT !.late = S]
        BY <3>3
      <4> QED
        BY <2>2, <4>1 DEF QueryType
    <3> QED
      BY <3>1, <3>2, <3>3
  <2> QED
    BY <1>1, <1>3, <2>3
<1>6. ASSUME NEW r \in Reader, NEW rng \in Ranges, Begin(r, rng) PROVE SortedIInv'
  <2>1. PICK u : /\ query' = [query EXCEPT ![r] = u]
                 /\ u = [NoQuery EXCEPT !.at = "mem", !.range = rng, !.mem = Asked(rng, TSof(slice)),
                                        !.before = Len(stored)]
    BY <1>6 DEF Begin
  <2>2. u.at = "mem"
    BY <2>1 DEF NoQuery
  <2>3. Fine(u)
    BY <2>2 DEF Fine
  <2> QED
    BY <1>4, <2>1, <2>3
<1>7. ASSUME NEW r \in Reader, GotMem(r) PROVE SortedIInv'
  <2>1. PICK out \in Copies(r) :
            query' = [query EXCEPT ![r] = [@ EXCEPT !.at = "blocks", !.pts = out, !.shifts = scan[r].shifts]]
    BY <1>7 DEF GotMem
  <2>2. PICK u : u = [query[r] EXCEPT !.at = "blocks", !.pts = out, !.shifts = scan[r].shifts]
    OBVIOUS
  <2>3. query[r] \in QueryType /\ scan[r] \in ScanType
    BY AnswersIs
  <2>4. u.at = "blocks" /\ u.pts = out
    BY <2>2, <2>3 DEF QueryType
  <2>5. PICK seen \in Seq(SUBSET Sample) : seen = scan[r].seen
    BY <2>3 DEF ScanType
  <2> DEFINE Words(cell) == {[ts |-> x.ts, val |-> y.val] : x \in cell, y \in cell}
             W == UNION {Words(seen[i]) : i \in DOMAIN seen}
  <2>6. out \in [DOMAIN seen -> W] /\ \A i \in DOMAIN seen : out[i] \in Words(seen[i])
    BY <2>5 DEF Copies
  <2>7. \A i \in DOMAIN out : out[i].ts \in SampleTimes
    <3> TAKE i \in DOMAIN out
    <3>1. i \in DOMAIN seen /\ seen[i] \subseteq Sample
      BY <2>6
    <3>2. PICK x \in seen[i], y \in seen[i] : out[i] = [ts |-> x.ts, val |-> y.val]
      BY <2>6, <3>1
    <3> QED
      BY <3>1, <3>2 DEF SampleTimes
  <2>8. Fine(u)
    BY <2>4, <2>7 DEF Fine, TSof
  <2>9. query' = [query EXCEPT ![r] = u]
    BY <2>1, <2>2
  <2> QED
    BY <1>4, <2>8, <2>9
<1>8. ASSUME NEW r \in Reader, Answer(r) PROVE SortedIInv'
  <2>1. /\ query[r].at = "blocks"
        /\ query' = [query EXCEPT ![r] = [@ EXCEPT !.at = "answered", !.listed = Len(stored),
                                                   !.pts = Sorted(Collected(r))]]
    BY <1>8 DEF Answer
  <2>2. PICK n, parts : n = Len(stored) /\ parts = Collected(r)
    OBVIOUS
  <2>3. /\ n \in Nat /\ DOMAIN stored = 1..n /\ query[r] \in QueryType
        /\ query[r].pts \in Seq(Cell) /\ query[r].range \in Int \X Int
        /\ \A i \in 1..n : stored[i] \in Seq(Sample)
    <3>1. stored \in Seq(Seq(Sample)) /\ query[r] \in QueryType
      BY AnswersIs DEF Tables
    <3> QED
      BY <2>2, <3>1 DEF QueryType
  <2>4. /\ parts = [i \in 0..n |-> IF i = 0 THEN query[r].pts ELSE RangeOf(stored[i], query[r].range)]
        /\ parts[0] = query[r].pts
        /\ \A i \in 1..n : parts[i] = RangeOf(stored[i], query[r].range)
    <3>1. parts = [i \in 0..n |-> IF i = 0 THEN query[r].pts ELSE RangeOf(stored[i], query[r].range)]
      BY <2>2 DEF Collected
    <3>2. 0 \in 0..n /\ \A i \in 1..n : i \in 0..n /\ i # 0
      BY <2>3
    <3> QED
      BY <3>1, <3>2
  <2>5. \A i \in 0..n : parts[i] \in Seq(Cell) /\ TSof(parts[i]) \subseteq SampleTimes
    <3> TAKE i \in 0..n
    <3>1. CASE i = 0
      BY <1>1, <2>1, <2>3, <2>4, <3>1 DEF Fine
    <3>2. CASE i \in 1..n
      <4>1. PICK w, v : w = stored[i] /\ v = RangeOf(w, query[r].range)
        OBVIOUS
      <4>2. v \in Seq(Sample)
        <5>1. w \in Seq(Sample) /\ Ascending(w)
          BY <2>3, <3>2, <4>1 DEF TablesIInv, KeptInOrder
        <5> QED
          BY <2>3, <4>1, <5>1, SampleCells, RangeOfShape
      <4>3. v \in Seq(Cell)
        BY <4>2, SampleCells
      <4>4. \A k \in DOMAIN v : v[k].ts \in SampleTimes
        BY <4>2 DEF SampleTimes
      <4> QED
        BY <2>4, <3>2, <4>1, <4>3, <4>4 DEF TSof
    <3> QED
      BY <2>3, <3>1, <3>2
  <2>6. parts \in Parts(n)
    BY <2>4, <2>5 DEF Parts
  <2>7. PICK N, s, f : /\ N = Cardinality(Places(parts)) /\ N \in Nat
                       /\ s = Sorted(parts) /\ s \in Seq(Cell) /\ Len(s) = N
                       /\ f \in Bijection(1..N, Places(parts))
                       /\ \A k \in 1..N : s[k] = PointAt(parts, f[k])
                       /\ \A k, l \in 1..N : k < l => s[k].ts <= s[l].ts
    BY <2>3, <2>6, SortedPermutes
  <2>8. DOMAIN s = 1..N
    BY <2>7
  <2>9. TSof(s) \subseteq SampleTimes
    <3> SUFFICES ASSUME NEW k \in 1..N PROVE s[k].ts \in SampleTimes
      BY <2>8 DEF TSof
    <3>1. f[k] \in Places(parts)
      BY <2>7 DEF Bijection, Injection
    <3>2. PICK x \in Places(parts) : x = f[k]
      BY <3>1
    <3>3. x[1] \in 0..n /\ x[2] \in DOMAIN parts[x[1]]
      <4>1. x[1] \in 0..n /\ x[2] \in 1..Len(parts[x[1]])
        BY <2>3, <2>6, PlacesAre
      <4>2. parts[x[1]] \in Seq(Cell)
        BY <2>5, <4>1
      <4> QED
        BY <4>1, <4>2
    <3>4. s[k] = parts[x[1]][x[2]]
      BY <2>7, <3>2 DEF PointAt
    <3> QED
      BY <2>5, <3>3, <3>4 DEF TSof
  <2>10. PICK u : u = [query[r] EXCEPT !.at = "answered", !.listed = Len(stored), !.pts = s]
    OBVIOUS
  <2>11. u.at = "answered" /\ u.pts = s
    BY <2>3, <2>10 DEF QueryType
  <2>12. Fine(u)
    BY <2>7, <2>8, <2>9, <2>11 DEF Fine
  <2>13. query' = [query EXCEPT ![r] = u]
    BY <2>1, <2>2, <2>7, <2>10
  <2> QED
    BY <1>4, <2>12, <2>13
<1>9. ASSUME NEW r \in Reader, Finish(r) \/ Abort(r) PROVE SortedIInv'
  <2>1. query' = [query EXCEPT ![r] = NoQuery]
    BY <1>9 DEF Finish, Abort
  <2> QED
    BY <1>2, <1>4, <2>1
<1>10. ASSUME NEW r \in Reader, MapRace(r) PROVE SortedIInv'
  <2>1. \A x \in Reader : query'[x] = NoQuery
    BY <1>10 DEF MapRace
  <2> QED
    BY <1>1, <1>2, <2>1
<1>11. CASE UNCHANGED query
  BY <1>1, <1>11
<1>12. Swap \/ EndFlush => UNCHANGED query
  BY DEF Swap, EndFlush
<1>13. \A r \in Reader : ReadMap(r) \/ ReadLo(r) \/ ReadHi(r) => UNCHANGED query
  BY DEF ReadMap, ReadLo, ReadHi
<1>14. UNCHANGED vars => UNCHANGED query
  BY DEF vars
<1> QED
  BY <1>5, <1>6, <1>7, <1>8, <1>9, <1>10, <1>11, <1>12, <1>13, <1>14 DEF Next

\* Answers are sorted, with no timestamps but those of samples.
THEOREM SortedInductive == Spec => []SortedIInv
<1>1. Init => SortedIInv
  BY DEF Init, SortedIInv, NoQuery
<1>2. TablesIInv /\ PinsIInv /\ AnswersIInv /\ SortedIInv /\ [Next]_vars => SortedIInv'
  BY SortedStep
<1> QED
  BY <1>1, <1>2, AnswersInductive, ReadsInductive, PTL DEF Spec

\* Timestamps that Go's remainder rounds down.
SinceZero == \A p \in Sample : p.ts >= 0

\* Of whatever a query of samples since time zero answers, the loop makes one
\* window of each step, in order, with all of the points of the step and with
\* their extremes (AggregateExact).
THEOREM AggregateExactHolds ==
    ASSUME SinceZero
    PROVE  Spec => []AggregateExact
<1>1. AnswersIInv /\ SortedIInv => AggregateExact
  <2> SUFFICES ASSUME AnswersIInv, SortedIInv, NEW r \in Reader, query[r].at = "answered"
               PROVE  LET windows == aggregate(query[r].pts, Step)
                      IN  Summarises(windows, query[r].pts, Step) /\ Bounds(windows, query[r].pts, Step)
    BY DEF AggregateExact
  <2>1. PICK pts : pts = query[r].pts
    OBVIOUS
  <2>2. pts \in Seq(Cell)
    <3>1. query[r] \in QueryType
      BY AnswersIs
    <3> QED
      BY <2>1, <3>1 DEF QueryType
  <2>3. \A i \in DOMAIN pts : pts[i].ts >= 0
    <3>1. TSof(pts) \subseteq SampleTimes
      BY <2>1 DEF SortedIInv
    <3> QED
      BY <3>1 DEF TSof, SampleTimes, SinceZero
  <2>4. InTime(pts)
    BY <2>1, <2>2, <2>3 DEF InTime, SortedIInv
  <2>5. Step \in Nat \ {0}
    BY ReadsConstants
  <2> QED
    BY <2>1, <2>4, <2>5, AggregateIs, GroupedAll
<1> QED
  BY <1>1, AnswersInductive, SortedInductive, PTL

LEMMA LenIs == ASSUME NEW n \in Nat, NEW S, NEW f \in [1..n -> S] PROVE Len(f) = n
<1>1. f \in Seq(S)
  BY SeqDef
<1>2. Len(f) \in Nat /\ DOMAIN f = 1..Len(f)
  BY <1>1, LenProperties
<1> QED
  BY <1>2

\* What DownsampleAgrees says of one block.
Resums(block, step) ==
    LET coarse == aggregateWindow(block, step)
        again == aggregateWindow(AsPoints(coarse), step)
    IN  /\ Summarises(coarse, block, step)
        /\ Len(again) = Len(coarse)
        /\ \A k \in DOMAIN coarse : again[k].ts = coarse[k].ts /\ again[k].sum = coarse[k].sum

\* Downsampling sums up each block as a query by the same step would, loses no
\* point of it, and doing it again moves nothing, for samples since time zero
\* (DownsampleAgrees).
THEOREM DownsampleAgreesHolds ==
    ASSUME SinceZero
    PROVE  Spec => []DownsampleAgrees
<1>1. TablesIInv /\ AnswersIInv => DownsampleAgrees
  <2> SUFFICES ASSUME TablesIInv, AnswersIInv, NEW b, \E i \in DOMAIN stored : b = stored[i]
               PROVE  Resums(b, Step)
    BY DEF DownsampleAgrees, Resums
  <2>0. PICK step \in Nat \ {0} : step = Step
    BY ReadsConstants
  <2>1. b \in Seq(Sample) /\ Ascending(b)
    <3>1. stored \in Seq(Seq(Sample))
      BY AnswersIs DEF Tables
    <3> QED
      BY <3>1 DEF TablesIInv, KeptInOrder
  <2>2. InTime(b)
    <3>1. b \in Seq(Cell) /\ DOMAIN b = 1..Len(b) /\ \A i \in 1..Len(b) : b[i].ts \in Int /\ b[i].ts >= 0
      <4>1. b \in Seq(Cell)
        BY <2>1, SampleCells
      <4>2. DOMAIN b = 1..Len(b) /\ \A i \in 1..Len(b) : b[i] \in Sample
        BY <2>1
      <4>3. \A i \in 1..Len(b) : b[i].ts \in Int
        BY <4>2, SampleCells DEF Cell
      <4> QED
        BY <4>1, <4>2, <4>3 DEF SinceZero
    <3>2. \A i, j \in DOMAIN b : i < j => b[i].ts <= b[j].ts
      BY <2>1, <3>1 DEF Ascending
    <3> QED
      BY <3>1, <3>2 DEF InTime
  <2>3. PICK A \in Seq(Window) : A = aggregate(b, step) /\ Grouped(A, b, Len(b), step)
    BY <2>2, AggregateIs
  <2>4. PICK m \in Nat : m = Len(A)
    BY <2>3
  <2>5. DOMAIN A = 1..m /\ \A k \in 1..m : A[k] \in Window /\ A[k].ts \in Int /\ A[k].sum \in Int
    <3>1. DOMAIN A = 1..m /\ \A k \in 1..m : A[k] \in Window
      BY <2>4
    <3> QED
      BY <3>1 DEF Window
  <2> DEFINE coarse == [k \in 1..m |-> [ts |-> A[k].ts, sum |-> A[k].sum, count |-> A[k].count]]
             P == [k \in 1..m |-> [ts |-> A[k].ts, val |-> A[k].sum]]
  <2>6. coarse = aggregateWindow(b, step)
    BY <2>3, <2>5 DEF aggregateWindow
  <2>7. Summarises(coarse, b, step)
    <3>1. Summarises(A, b, step)
      BY <2>2, <2>3, GroupedAll
    <3>2. /\ DOMAIN coarse = DOMAIN A
          /\ \A k \in DOMAIN A : /\ coarse[k].ts = A[k].ts /\ coarse[k].sum = A[k].sum
                                 /\ coarse[k].count = A[k].count
      BY <2>5
    <3> HIDE DEF coarse
    <3> QED
      BY <3>1, <3>2 DEF Summarises
  <2>8. P \in Seq(Cell) /\ Len(P) = m /\ DOMAIN P = 1..m /\ \A k \in 1..m : P[k].ts = A[k].ts /\ P[k].val = A[k].sum
    <3>1. \A k \in 1..m : [ts |-> A[k].ts, val |-> A[k].sum] \in Cell
      BY <2>5 DEF Cell
    <3>2. P \in [1..m -> Cell]
      BY <3>1
    <3>3. P \in Seq(Cell) /\ Len(P) = m
      BY <3>2
    <3> QED
      BY <3>3
  <2>9. \A k \in 1..m : A[k].ts >= 0 /\ start(A[k].ts, step) = A[k].ts
    <3> TAKE k \in 1..m
    <3>1. PICK j \in 1..Len(b) : A[k].ts = start(b[j].ts, step)
      BY <2>3, <2>5 DEF Grouped
    <3>2. PICK t \in Nat : t = b[j].ts
      <4>1. b[j] \in Cell /\ b[j].ts >= 0
        BY <2>2 DEF InTime
      <4> QED
        BY <4>1 DEF Cell
    <3>3. PICK u \in Nat : u = start(t, step)
      BY StartIs
    <3>4. u \in start(t, step)..(start(t, step) + step - 1)
      BY <3>3
    <3>5. start(u, step) = start(t, step)
      BY <3>4, SameStart
    <3> QED
      BY <3>1, <3>2, <3>3, <3>5
  <2>10. \A i, j \in 1..m : i < j => A[i].ts < A[j].ts
    BY <2>3, <2>5 DEF Grouped
  <2>11. DOMAIN coarse = 1..m /\ AsPoints(coarse) = P
    BY DEF AsPoints
  <2>12. \A k \in 1..m : coarse[k].ts = A[k].ts /\ coarse[k].sum = A[k].sum
    OBVIOUS
  <2>13. Len(coarse) = m
    <3>1. PICK S : S = {coarse[k] : k \in 1..m}
      OBVIOUS
    <3>2. coarse \in [1..m -> S]
      BY <3>1
    <3> HIDE DEF coarse
    <3> QED
      BY <3>2, LenIs
  <2> HIDE DEF P, coarse
  <2>14. Ascending(P) /\ InTime(P) /\ \A k \in DOMAIN P : start(P[k].ts, step) = P[k].ts
    <3>1. Ascending(P)
      BY <2>8, <2>10 DEF Ascending
    <3>2. \A i, j \in DOMAIN P : i < j => P[i].ts <= P[j].ts
      BY <2>5, <2>8, <2>10
    <3>3. \A i \in DOMAIN P : P[i].ts >= 0
      BY <2>8, <2>9
    <3> QED
      BY <2>8, <2>9, <3>1, <3>2, <3>3 DEF InTime
  <2>15. aggregate(P, step) = [k \in DOMAIN P |-> Opened(P[k], step)]
    BY <2>14, OwnWindows
  <2>16. PICK B : B = aggregate(P, step)
    OBVIOUS
  <2>17. DOMAIN B = 1..m /\ \A k \in 1..m : B[k].ts = A[k].ts /\ B[k].sum = A[k].sum
    <3>1. DOMAIN B = 1..m /\ \A k \in 1..m : B[k] = Opened(P[k], step)
      BY <2>8, <2>15, <2>16
    <3> QED
      BY <2>8, <2>9, <3>1 DEF Opened
  <2> DEFINE again == [k \in 1..m |-> [ts |-> B[k].ts, sum |-> B[k].sum, count |-> B[k].count]]
  <2>18. again = aggregateWindow(P, step)
    BY <2>16, <2>17 DEF aggregateWindow
  <2>19. \A k \in 1..m : again[k].ts = A[k].ts /\ again[k].sum = A[k].sum
    BY <2>17
  <2>20. Len(again) = m
    <3>1. PICK S : S = {again[k] : k \in 1..m}
      OBVIOUS
    <3>2. again \in [1..m -> S]
      BY <3>1
    <3> HIDE DEF again
    <3> QED
      BY <3>2, LenIs
  <2> HIDE DEF again
  <2>21. Resums(b, step)
    BY <2>6, <2>7, <2>11, <2>12, <2>13, <2>18, <2>19, <2>20 DEF Resums
  <2> QED
    BY <2>0, <2>21
<1> QED
  BY <1>1, ReadsInductive, AnswersInductive, PTL
=============================================================================
