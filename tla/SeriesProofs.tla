---------------------------- MODULE SeriesProofs ----------------------------
(***************************************************************************)
(* Proofs about SeriesIndex.tla, for every set of keys, hash, table size   *)
(* and number of goroutines.                                               *)
(***************************************************************************)
EXTENDS SeriesIndex, SequenceTheorems, TLAPS

-----------------------------------------------------------------------------
(* The table. *)

\* The part of the invariant that speaks of the index alone.
Table == /\ Len(buckets) \in Nat \ {0}
         /\ buckets = [i \in 1..Len(buckets) |-> buckets[i]]
         /\ \A i \in DOMAIN buckets : /\ DOMAIN buckets[i] \subseteq Key
                                      /\ buckets[i] \in [DOMAIN buckets[i] -> Id]
         /\ nextID \in Id
         /\ IndexSound

\* A function on 1..n is a sequence of length n.
LEMMA TableLen ==
    ASSUME NEW n \in Nat, NEW f, f = [i \in 1..n |-> f[i]]
    PROVE  Len(f) = n
<1> DEFINE S == {f[i] : i \in 1..n}
<1>1. f \in [1..n -> S]
  OBVIOUS
<1>2. f \in Seq(S)
  BY <1>1, SeqDef
<1>3. Len(f) \in Nat /\ DOMAIN f = 1..Len(f)
  BY <1>2, LenProperties
<1> QED
  BY <1>1, <1>3

\* The remainder is the place of a bucket.
LEMMA BucketIn ==
    ASSUME NEW k \in Key, NEW n \in Nat \ {0}
    PROVE  bucket(k, n) \in 1..n
  BY SeriesConstants DEF bucket

\* A key that some bucket holds is in the bucket where Found looks.
LEMMA HeldIsFound ==
    ASSUME Table, NEW k \in Key, NEW j, Holds(j, k)
    PROVE  Found(k) /\ IdOf(k) = buckets[j][k]
  BY DEF Table, IndexSound, Holds, Found, IdOf

\* What Found finds is in the table, under an id already given out.
LEMMA FoundIsHeld ==
    ASSUME Table, NEW k \in Key, Found(k)
    PROVE  /\ Holds(bucket(k, Len(buckets)), k)
           /\ IdOf(k) \in 1..(nextID - 1)
<1>1. bucket(k, Len(buckets)) \in 1..Len(buckets)
  BY BucketIn DEF Table
<1>2. bucket(k, Len(buckets)) \in DOMAIN buckets
  BY <1>1 DEF Table
<1> QED
  BY <1>2 DEF Table, IndexSound, Holds, Found, IdOf

\* No two keys have the same id.
LEMMA FoundOnce ==
    ASSUME Table, NEW k \in Key, NEW m \in Key, Found(k), Found(m), IdOf(k) = IdOf(m)
    PROVE  k = m
<1>1. /\ Holds(bucket(k, Len(buckets)), k)
      /\ Holds(bucket(m, Len(buckets)), m)
  BY FoundIsHeld
<1> QED
  BY <1>1 DEF Table, IndexSound, Holds, IdOf

\* The table after a migration: every key that was found, where its hash puts
\* it, with the id it had.
LEMMA MigratedTable ==
    ASSUME Table, NEW n \in Nat \ {0}, NEW b, b = Migrated(n)
    PROVE  /\ Len(b) = n /\ b = [i \in 1..n |-> b[i]]
           /\ \A i \in 1..n : /\ DOMAIN b[i] = {k \in Key : bucket(k, n) = i /\ Found(k)}
                              /\ b[i] = [k \in DOMAIN b[i] |-> b[i][k]]
           /\ \A i \in 1..n : \A k \in DOMAIN b[i] : b[i][k] = IdOf(k)
<1>1. b = [i \in 1..n |-> b[i]]
  BY DEF Migrated
<1>2. ASSUME NEW k \in Key
      PROVE  (\E j \in DOMAIN buckets : Holds(j, k)) <=> Found(k)
  <2>1. ASSUME Found(k) PROVE \E j \in DOMAIN buckets : Holds(j, k)
    BY <2>1, FoundIsHeld DEF Holds
  <2> QED
    BY <2>1, HeldIsFound
<1>3. ASSUME NEW i \in 1..n
      PROVE  /\ DOMAIN b[i] = {k \in Key : bucket(k, n) = i /\ Found(k)}
             /\ b[i] = [k \in DOMAIN b[i] |-> b[i][k]]
  BY <1>2 DEF Migrated
<1>4. ASSUME NEW i \in 1..n, NEW k \in DOMAIN b[i]
      PROVE  b[i][k] = IdOf(k)
  <2>1. k \in Key /\ Found(k)
    BY <1>3
  <2>2. b[i][k] = buckets[CHOOSE j \in DOMAIN buckets : Holds(j, k)][k]
    BY <1>3, <1>2, <2>1 DEF Migrated
  <2>3. PICK j \in DOMAIN buckets : Holds(j, k)
    BY <1>2, <2>1
  <2>4. Holds(CHOOSE l \in DOMAIN buckets : Holds(l, k), k)
    BY <2>3
  <2> QED
    BY <2>1, <2>2, <2>4, HeldIsFound
<1> QED
  BY <1>1, <1>3, <1>4, TableLen

-----------------------------------------------------------------------------
(* What the three changes of the index do to it. *)

\* Same(k): a key is found as it was before the step.
Same(k) == /\ Found(k)' <=> Found(k)
           /\ Found(k) => IdOf(k)' = IdOf(k)

\* A migration shows no key that was not there, loses none, and keeps the ids.
LEMMA MigrationKeeps ==
    ASSUME Table, NEW n \in Nat \ {0}, buckets' = Migrated(n), nextID' = nextID
    PROVE  Table' /\ \A k \in Key : Same(k)
<1> DEFINE b == Migrated(n)
<1>1. /\ Len(b) = n /\ b = [i \in 1..n |-> b[i]]
      /\ \A i \in 1..n : /\ DOMAIN b[i] = {k \in Key : bucket(k, n) = i /\ Found(k)}
                         /\ b[i] = [k \in DOMAIN b[i] |-> b[i][k]]
      /\ \A i \in 1..n : \A k \in DOMAIN b[i] : b[i][k] = IdOf(k)
  BY MigratedTable
<1> HIDE DEF b
<1>2. buckets' = b /\ DOMAIN b = 1..n
  BY <1>1 DEF b
<1>3. ASSUME NEW k \in Key PROVE Same(k)
  <2>1. bucket(k, n) \in 1..n
    BY BucketIn
  <2>2. Found(k)' <=> k \in DOMAIN b[bucket(k, n)]
    BY <1>1, <1>2 DEF Found
  <2>3. Found(k)' <=> Found(k)
    BY <1>1, <2>1, <2>2
  <2>4. IdOf(k)' = b[bucket(k, n)][k]
    BY <1>1, <1>2 DEF IdOf
  <2> QED
    BY <1>1, <2>1, <2>2, <2>3, <2>4 DEF Same
<1>4. ASSUME NEW i \in 1..n
      PROVE  /\ DOMAIN b[i] \subseteq Key
             /\ b[i] \in [DOMAIN b[i] -> Id]
             /\ \A k \in DOMAIN b[i] : i = bucket(k, n) /\ b[i][k] \in 1..(nextID - 1)
  <2>1. \A k \in DOMAIN b[i] : k \in Key /\ Found(k) /\ bucket(k, n) = i /\ b[i][k] = IdOf(k)
    BY <1>1
  <2>2. \A k \in DOMAIN b[i] : b[i][k] \in 1..(nextID - 1)
    BY <2>1, FoundIsHeld
  <2>3. \A x \in 1..(nextID - 1) : x \in Id
    BY DEF Id
  <2> QED
    BY <1>1, <2>1, <2>2, <2>3
<1>5. ASSUME NEW i \in 1..n, NEW j \in 1..n, NEW k \in DOMAIN b[i], NEW m \in DOMAIN b[j],
             b[i][k] = b[j][m]
      PROVE  k = m
  <2>1. k \in Key /\ Found(k) /\ m \in Key /\ Found(m) /\ IdOf(k) = IdOf(m)
    BY <1>1, <1>5
  <2> QED
    BY <2>1, FoundOnce
<1>6. Table'
  BY <1>1, <1>2, <1>4, <1>5 DEF Table, IndexSound
<1> QED
  BY <1>3, <1>6

\* A registration adds one key, under an id no other key has.
LEMMA RegistrationAdds ==
    ASSUME Table, NEW key \in Key, ~Found(key),
           buckets' = [buckets EXCEPT ![bucket(key, Len(buckets))] = With(@, key, nextID)],
           nextID' = nextID + 1
    PROVE  /\ Table'
           /\ Found(key)' /\ IdOf(key)' = nextID
           /\ \A k \in Key \ {key} : Same(k)
<1> DEFINE n == Len(buckets)
           i == bucket(key, n)
           b == buckets'
<1>1. n \in Nat \ {0} /\ i \in 1..n /\ DOMAIN buckets = 1..n
  BY BucketIn DEF Table
<1>2. b = [j \in 1..n |-> b[j]] /\ Len(b) = n
  <2>1. b = [j \in 1..n |-> b[j]]
    BY <1>1
  <2> QED
    BY <1>1, <2>1, TableLen
<1>3. /\ b[i] = With(buckets[i], key, nextID)
      /\ \A j \in 1..n : j # i => b[j] = buckets[j]
  BY <1>1
<1>4. /\ DOMAIN b[i] = DOMAIN buckets[i] \cup {key}
      /\ b[i] = [k \in DOMAIN b[i] |-> b[i][k]]
      /\ b[i][key] = nextID
      /\ \A k \in DOMAIN buckets[i] : k # key => b[i][k] = buckets[i][k]
  BY <1>3 DEF With
<1> HIDE DEF b
<1>5. \A k \in Key \ {key} : Same(k)
  <2> SUFFICES ASSUME NEW k \in Key \ {key} PROVE Same(k)
    OBVIOUS
  <2>1. bucket(k, n) \in 1..n
    BY <1>1, BucketIn
  <2>2. /\ Found(k)' <=> k \in DOMAIN b[bucket(k, n)]
        /\ IdOf(k)' = b[bucket(k, n)][k]
    BY <1>2 DEF Found, IdOf, b
  <2> QED
    BY <1>3, <1>4, <2>1, <2>2 DEF Same, Found, IdOf
<1>6. Found(key)' /\ IdOf(key)' = nextID
  BY <1>2, <1>4 DEF Found, IdOf, b
<1>7. ASSUME NEW j \in 1..n, NEW k \in DOMAIN b[j], ~(j = i /\ k = key)
      PROVE  k \in DOMAIN buckets[j] /\ b[j][k] = buckets[j][k] /\ k # key
  <2>1. k \in DOMAIN buckets[j]
    BY <1>3, <1>4, <1>7
  <2>2. k # key
    <3>1. CASE k = key
      <4>1. Holds(j, key)
        BY <1>1, <2>1, <3>1 DEF Holds
      <4> QED
        BY <4>1, HeldIsFound
    <3> QED
      BY <3>1
  <2> QED
    BY <1>3, <1>4, <2>1, <2>2
<1>8. ASSUME NEW j \in 1..n
      PROVE  DOMAIN b[j] \subseteq Key /\ b[j] \in [DOMAIN b[j] -> Id]
  <2>1. DOMAIN buckets[j] \subseteq Key /\ buckets[j] \in [DOMAIN buckets[j] -> Id]
    BY <1>1 DEF Table
  <2>2. nextID \in Id
    BY DEF Table
  <2>3. CASE j = i
    BY <1>4, <2>1, <2>2, <2>3
  <2>4. CASE j # i
    BY <1>3, <2>1, <2>4
  <2> QED
    BY <2>3, <2>4
<1>9. ASSUME NEW j \in 1..n, NEW k \in DOMAIN b[j]
      PROVE  j = bucket(k, n) /\ b[j][k] \in 1..nextID
  <2>1. nextID \in Nat \ {0}
    BY DEF Table, Id
  <2>2. CASE j = i /\ k = key
    BY <1>4, <2>1, <2>2
  <2>3. CASE ~(j = i /\ k = key)
    <3>1. j = bucket(k, n) /\ buckets[j][k] \in 1..(nextID - 1)
      BY <1>1, <1>7, <2>3 DEF Table, IndexSound
    <3> QED
      BY <1>7, <2>1, <2>3, <3>1
  <2> QED
    BY <2>2, <2>3
<1>10. ASSUME NEW j \in 1..n, NEW l \in 1..n, NEW k \in DOMAIN b[j], NEW m \in DOMAIN b[l],
              b[j][k] = b[l][m]
       PROVE  k = m
  <2>1. nextID \in Nat \ {0}
    BY DEF Table, Id
  <2>2. \A h \in 1..n : \A x \in DOMAIN b[h] : ~(h = i /\ x = key) => b[h][x] \in 1..(nextID - 1)
    BY <1>1, <1>7 DEF Table, IndexSound
  <2>3. nextID \notin 1..(nextID - 1)
    BY <2>1
  <2>4. CASE (j = i /\ k = key) \/ (l = i /\ m = key)
    BY <1>4, <1>10, <2>2, <2>3, <2>4
  <2>5. CASE ~(j = i /\ k = key) /\ ~(l = i /\ m = key)
    BY <1>1, <1>7, <1>10, <2>5 DEF Table, IndexSound
  <2> QED
    BY <2>4, <2>5
<1>11. nextID' \in Id /\ nextID' - 1 = nextID
  BY DEF Table, Id
<1>12. Table'
  BY <1>1, <1>2, <1>8, <1>9, <1>10, <1>11 DEF Table, IndexSound, b
<1> QED
  BY <1>5, <1>6, <1>12

\* A new index is empty.
LEMMA NewIndexEmpty ==
    buckets = NewIndex(Initial) /\ nextID = 1 => Table /\ \A k \in Key : ~Found(k)
<1> SUFFICES ASSUME buckets = NewIndex(Initial), nextID = 1
             PROVE  Table /\ \A k \in Key : ~Found(k)
  OBVIOUS
<1>1. /\ Initial \in Nat \ {0}
      /\ buckets = [i \in 1..Initial |-> buckets[i]]
      /\ \A i \in 1..Initial : buckets[i] = Empty
  BY SeriesConstants DEF NewIndex
<1>2. Len(buckets) = Initial
  BY <1>1, TableLen
<1>3. DOMAIN Empty = {} /\ Empty \in [{} -> Id]
  BY DEF Empty
<1>4. DOMAIN buckets = 1..Initial
  BY <1>1
<1>5. IndexSound
  BY <1>1, <1>3, <1>4 DEF IndexSound
<1>6. Table
  <2>1. nextID \in Id
    BY DEF Id
  <2>2. \A i \in DOMAIN buckets : /\ DOMAIN buckets[i] \subseteq Key
                                  /\ buckets[i] \in [DOMAIN buckets[i] -> Id]
    BY <1>1, <1>3, <1>4
  <2>3. Len(buckets) \in Nat \ {0} /\ buckets = [i \in 1..Len(buckets) |-> buckets[i]]
    BY <1>1, <1>2
  <2> QED
    BY <1>5, <2>1, <2>2, <2>3 DEF Table
<1> QED
  BY <1>1, <1>2, <1>3, <1>6, BucketIn DEF Found

LEMMA NewIndexEmptyNext ==
    (buckets = NewIndex(Initial) /\ nextID = 1)' => (Table /\ \A k \in Key : ~Found(k))'
  BY NewIndexEmpty, PTL

-----------------------------------------------------------------------------
(* The invariant: what a request or a point holds is still in the table. *)

\* The types of what is not the index.
OtherTypes ==
    /\ call \in [Writer -> Call]
    /\ expand \in [Admin -> {0} \cup Sizes]
    /\ log \subseteq Sample /\ points \subseteq Sample /\ written \subseteq Sample

LEMMA InvParts == SeriesIInv <=> Table /\ OtherTypes /\ CallsCurrent /\ OwnPoints
  BY DEF SeriesIInv, IndexTypeOK, Table, OtherTypes

LEMMA InvPartsNext == SeriesIInv' <=> Table' /\ OtherTypes' /\ CallsCurrent' /\ OwnPoints'
  BY InvParts, PTL

\* Has(key, id): the key is in the table with that id.
Has(key, id) == Found(key) /\ IdOf(key) = id

\* The same after the step (the arguments are constants, not state).
HasNext(key, id) == Found(key)' /\ IdOf(key)' = id

\* Since ids are unique, points are under their own name once each is found.
LEMMA OwnPointsFrom ==
    Table /\ written \subseteq Sample /\ (\A sample \in written : Has(sample.key, sample.id))
        => OwnPoints
  BY FoundOnce DEF OwnPoints, Has, Sample

LEMMA OwnPointsFromNext ==
    (Table /\ written \subseteq Sample /\ (\A sample \in written : Has(sample.key, sample.id)))'
        => OwnPoints'
  BY OwnPointsFrom, PTL

LEMMA OwnPointsHave ==
    ASSUME OwnPoints, written \subseteq Sample, NEW sample \in written
    PROVE  Has(sample.key, sample.id)
  BY DEF OwnPoints, Has, Sample

\* A step that keeps every key with its id keeps what points and requests hold.
LEMMA KeepingStep ==
    ASSUME SeriesIInv, Table', OtherTypes',
           \A k \in Key : Found(k) => HasNext(k, IdOf(k)),
           written' = written,
           \A w \in Writer :
               \/ call'[w].step # "resolved"
               \/ call'[w] = call[w]
               \/ \E k \in Key, id \in Id : /\ call'[w].key = k /\ call'[w].id = id
                                            /\ HasNext(k, id)
    PROVE  SeriesIInv'
<1>1. Table /\ OtherTypes /\ CallsCurrent /\ OwnPoints
  BY InvParts
<1>2. ASSUME NEW k \in Key, NEW id, Has(k, id) PROVE HasNext(k, id)
  BY <1>2 DEF Has, HasNext
<1>3. OwnPoints'
  <2>1. \A sample \in written : sample.key \in Key /\ Has(sample.key, sample.id)
    BY <1>1, OwnPointsHave DEF OtherTypes, Sample
  <2>2. \A sample \in written' : HasNext(sample.key, sample.id)
    BY <1>2, <2>1
  <2>3. \A sample \in written' : Has(sample.key, sample.id)'
    BY <2>2 DEF Has, HasNext
  <2> QED
    BY <2>3, OwnPointsFromNext DEF OtherTypes
<1>4. CallsCurrent'
  <2> SUFFICES ASSUME NEW w \in Writer, call'[w].step = "resolved"
               PROVE  /\ Found(call[w].key)'
                      /\ IdOf(call[w].key)' = call'[w].id
    BY DEF CallsCurrent
  <2>1. PICK k, id : k \in Key /\ call'[w].key = k /\ call'[w].id = id /\ HasNext(k, id)
    <3>1. CASE call'[w] = call[w]
      <4>1. Has(call[w].key, call[w].id)
        BY <1>1, <3>1 DEF CallsCurrent, Has
      <4>2. call[w].key \in Key
        <5>1. call[w] \in Call /\ call[w].step = "resolved"
          BY <1>1, <3>1 DEF OtherTypes
        <5> QED
          BY <5>1 DEF Call, Idle
      <4>3. PICK k, id : k \in Key /\ k = call[w].key /\ id = call[w].id
        BY <4>2
      <4>4. Has(k, id)
        BY <4>1, <4>3
      <4> QED
        BY <1>2, <3>1, <4>3, <4>4
    <3>2. CASE \E k \in Key, id \in Id : call'[w].key = k /\ call'[w].id = id /\ HasNext(k, id)
      BY <3>2
    <3> QED
      BY <3>1, <3>2
  <2> QED
    BY <2>1 DEF HasNext, Found, IdOf
<1> QED
  BY <1>3, <1>4, InvPartsNext

\* Nothing about the index changes when its variables do not.
LEMMA SameIndex ==
    ASSUME SeriesIInv, UNCHANGED indexVars
    PROVE  /\ Table' /\ \A k \in Key : Same(k)
           /\ \A k \in Key : Found(k) => HasNext(k, IdOf(k))
<1>1. Table'
  BY InvParts DEF indexVars, Table, IndexSound
<1>2. \A k \in Key : Same(k) /\ (Found(k) => HasNext(k, IdOf(k)))
  BY DEF indexVars, Same, HasNext, Found, IdOf
<1> QED
  BY <1>1, <1>2

-----------------------------------------------------------------------------
(* One lemma per action. *)

LEMMA LookupIInv ==
    ASSUME SeriesIInv, NEW w \in Writer, NEW key \in Key, Lookup(w, key)
    PROVE  SeriesIInv'
<1>1. Table /\ OtherTypes /\ CallsCurrent /\ OwnPoints
  BY InvParts
<1> DEFINE c == IF Found(key) THEN [step |-> "resolved", key |-> key, id |-> IdOf(key)]
                ELSE [step |-> "missed", key |-> key]
<1>2. call' = [call EXCEPT ![w] = c] /\ UNCHANGED <<indexVars, expand, dataVars>>
  BY DEF Lookup
<1>3. c \in Call
  <2>1. CASE Found(key)
    <3>1. IdOf(key) \in Id
      BY <1>1, <2>1, FoundIsHeld DEF Id
    <3> QED
      BY <2>1, <3>1 DEF Call
  <2>2. CASE ~Found(key)
    BY <2>2 DEF Call
  <2> QED
    BY <2>1, <2>2
<1>4. c.step # "resolved" \/ (Found(key) /\ c.key = key /\ c.id = IdOf(key))
  OBVIOUS
<1> HIDE DEF c
<1>5. OtherTypes'
  BY <1>1, <1>2, <1>3 DEF OtherTypes, dataVars
<1>6. Table' /\ \A k \in Key : Found(k) => HasNext(k, IdOf(k))
  BY <1>2, SameIndex
<1>7. ASSUME NEW v \in Writer
      PROVE  \/ call'[v].step # "resolved"
             \/ call'[v] = call[v]
             \/ \E k \in Key, id \in Id : call'[v].key = k /\ call'[v].id = id /\ HasNext(k, id)
  <2>1. call'[v] = IF v = w THEN c ELSE call[v]
    BY <1>1, <1>2 DEF OtherTypes
  <2>2. ASSUME Found(key) PROVE IdOf(key) \in Id /\ HasNext(key, IdOf(key))
    BY <1>1, <1>6, <2>2, FoundIsHeld DEF Id
  <2> QED
    BY <1>4, <2>1, <2>2
<1> QED
  BY <1>2, <1>5, <1>6, <1>7, KeepingStep DEF dataVars

\* Register either finds the key or adds it.
LEMMA RegisterCases ==
    ASSUME SeriesIInv, NEW w \in Writer, Register(w)
    PROVE  /\ call[w].key \in Key
           /\ LET key == call[w].key
              IN  \/ /\ Found(key) /\ UNCHANGED indexVars
                     /\ call' = [call EXCEPT ![w] =
                                    [step |-> "resolved", key |-> key, id |-> IdOf(key)]]
                  \/ /\ ~Found(key)
                     /\ buckets' = [buckets EXCEPT ![bucket(key, Len(buckets))] =
                                       With(@, key, nextID)]
                     /\ nextID' = nextID + 1
                     /\ call' = [call EXCEPT ![w] =
                                    [step |-> "resolved", key |-> key, id |-> nextID]]
           /\ UNCHANGED <<expand, dataVars>>
<1>1. call[w] \in Call /\ call[w].step = "missed"
  BY InvParts DEF OtherTypes, Register
<1>2. call[w].key \in Key
  BY <1>1 DEF Call, Idle
<1> QED
  BY <1>2 DEF Register

LEMMA RegisterIInv ==
    ASSUME SeriesIInv, NEW w \in Writer, Register(w)
    PROVE  SeriesIInv'
<1>1. Table /\ OtherTypes /\ CallsCurrent /\ OwnPoints
  BY InvParts
<1>2. PICK key \in Key : key = call[w].key
  BY RegisterCases
<1>3. UNCHANGED <<expand, dataVars>>
  BY RegisterCases
<1>4. PICK id \in Id :
          /\ Table' /\ \A k \in Key : Found(k) => HasNext(k, IdOf(k))
          /\ call' = [call EXCEPT ![w] = [step |-> "resolved", key |-> key, id |-> id]]
          /\ HasNext(key, id)
  <2>1. CASE Found(key) /\ UNCHANGED indexVars
    <3>1. Table' /\ \A k \in Key : Found(k) => HasNext(k, IdOf(k))
      BY <2>1, SameIndex
    <3>2. PICK id \in Id : id = IdOf(key)
      BY <1>1, <2>1, FoundIsHeld DEF Id
    <3>3. call' = [call EXCEPT ![w] = [step |-> "resolved", key |-> key, id |-> id]]
      BY <1>2, <2>1, <3>2, RegisterCases
    <3> QED
      BY <2>1, <3>1, <3>2, <3>3
  <2>2. CASE ~Found(key)
    <3>1. /\ buckets' = [buckets EXCEPT ![bucket(key, Len(buckets))] = With(@, key, nextID)]
          /\ nextID' = nextID + 1
          /\ call' = [call EXCEPT ![w] = [step |-> "resolved", key |-> key, id |-> nextID]]
      BY <1>2, <2>2, RegisterCases
    <3>2. Table' /\ Found(key)' /\ IdOf(key)' = nextID /\ \A k \in Key \ {key} : Same(k)
      BY <1>1, <2>2, <3>1, RegistrationAdds
    <3>3. \A k \in Key : Found(k) => HasNext(k, IdOf(k))
      BY <2>2, <3>2 DEF Same, HasNext
    <3>4. PICK id \in Id : id = nextID
      BY <1>1 DEF Table
    <3> QED
      BY <3>1, <3>2, <3>3, <3>4 DEF HasNext
  <2> QED
    BY <1>2, <2>1, <2>2, RegisterCases
<1>5. OtherTypes'
  <2>1. [step |-> "resolved", key |-> key, id |-> id] \in Call
    BY DEF Call
  <2> QED
    BY <1>1, <1>3, <1>4, <2>1 DEF OtherTypes, dataVars
<1>6. ASSUME NEW v \in Writer
      PROVE  \/ call'[v] = call[v]
             \/ /\ call'[v].key = key /\ call'[v].id = id
                /\ HasNext(key, id)
  BY <1>1, <1>4 DEF OtherTypes
<1> QED
  BY <1>3, <1>4, <1>5, <1>6, KeepingStep DEF dataVars

LEMMA WriteIInv ==
    ASSUME SeriesIInv, NEW w \in Writer, Write(w)
    PROVE  SeriesIInv'
<1>1. Table /\ OtherTypes /\ CallsCurrent /\ OwnPoints
  BY InvParts
<1> DEFINE sample == [id |-> call[w].id, key |-> call[w].key]
<1>2. /\ call[w].step = "resolved"
      /\ log' = log \cup {sample} /\ points' = points \cup {sample}
      /\ written' = written \cup {sample}
      /\ call' = [call EXCEPT ![w] = Idle]
      /\ UNCHANGED <<indexVars, expand>>
  BY DEF Write
<1>3. sample \in Sample
  <2>1. call[w] \in Call
    BY <1>1 DEF OtherTypes
  <2> QED
    BY <1>2, <2>1 DEF Call, Idle, Sample
<1>4. Has(sample.key, sample.id)
  BY <1>1, <1>2 DEF CallsCurrent, Has
<1> HIDE DEF sample
<1>5. OtherTypes'
  BY <1>1, <1>2, <1>3 DEF OtherTypes, Call
<1>6. Table' /\ \A k \in Key : Found(k) => HasNext(k, IdOf(k))
  BY <1>2, SameIndex
<1>7. CallsCurrent'
  <2>1. ASSUME NEW v \in Writer, call'[v].step = "resolved"
        PROVE  call'[v] = call[v]
    BY <1>1, <1>2, <2>1 DEF OtherTypes, Idle
  <2> QED
    BY <1>1, <1>2, <2>1 DEF CallsCurrent, indexVars, Found, IdOf
<1>8. OwnPoints'
  <2>1. \A s \in written' : Has(s.key, s.id)
    BY <1>1, <1>2, <1>4, OwnPointsHave DEF OtherTypes
  <2>2. \A s \in written' : Has(s.key, s.id)'
    BY <1>2, <2>1 DEF indexVars, Has, Found, IdOf
  <2> QED
    BY <1>5, <1>6, <2>2, OwnPointsFromNext DEF OtherTypes
<1> QED
  BY <1>5, <1>6, <1>7, <1>8, InvPartsNext

LEMMA CheckSizeIInv ==
    ASSUME SeriesIInv, NEW a \in Admin, NEW n \in Sizes, CheckSize(a, n)
    PROVE  SeriesIInv'
<1>1. OtherTypes'
  BY InvParts DEF OtherTypes, CheckSize, dataVars
<1>2. Table' /\ \A k \in Key : Found(k) => HasNext(k, IdOf(k))
  BY SameIndex DEF CheckSize
<1> QED
  BY <1>1, <1>2, KeepingStep DEF CheckSize, dataVars

LEMMA ExpandIInv ==
    ASSUME SeriesIInv, NEW a \in Admin, Expand(a)
    PROVE  SeriesIInv' /\ \A k \in Key : Same(k)
<1>1. Table /\ OtherTypes
  BY InvParts
<1>2. PICK n \in Nat \ {0} : n = expand[a]
  <2>1. expand[a] \in {0} \cup Sizes /\ expand[a] # 0
    BY <1>1 DEF OtherTypes, Expand
  <2> QED
    BY <2>1, SeriesConstants
<1>3. Table' /\ \A k \in Key : Same(k)
  BY <1>1, <1>2, MigrationKeeps DEF Expand
<1>4. \A k \in Key : Found(k) => HasNext(k, IdOf(k))
  BY <1>3 DEF Same, HasNext
<1>5. OtherTypes'
  BY <1>1 DEF OtherTypes, Expand, dataVars
<1> QED
  BY <1>3, <1>4, <1>5, KeepingStep DEF Expand, dataVars

LEMMA RestartIInv ==
    ASSUME SeriesIInv, Restart
    PROVE  SeriesIInv' /\ \A k \in Key : ~Found(k)'
<1>1. Table /\ OtherTypes
  BY InvParts
<1>2. Table' /\ \A k \in Key : ~Found(k)'
  BY NewIndexEmptyNext DEF Restart
<1>3. OtherTypes'
  BY <1>1 DEF OtherTypes, Restart, Call
<1>4. CallsCurrent' /\ OwnPoints'
  BY <1>2, <1>3 DEF Restart, CallsCurrent, OwnPoints, Idle
<1> QED
  BY <1>2, <1>3, <1>4, InvPartsNext

\* SeriesIInv is an inductive invariant of the index and its callers.
THEOREM SeriesInductive == Spec => []SeriesIInv
<1>1. Init => SeriesIInv
  <2> SUFFICES ASSUME Init PROVE SeriesIInv
    OBVIOUS
  <2>1. Table
    BY NewIndexEmpty DEF Init
  <2>2. OtherTypes
    BY DEF Init, OtherTypes, Call
  <2>3. CallsCurrent /\ OwnPoints
    BY DEF Init, CallsCurrent, OwnPoints, Idle
  <2> QED
    BY <2>1, <2>2, <2>3, InvParts
<1>2. SeriesIInv /\ [Next]_vars => SeriesIInv'
  <2> SUFFICES ASSUME SeriesIInv, [Next]_vars PROVE SeriesIInv'
    OBVIOUS
  <2>1. CASE \E w \in Writer, key \in Key : Lookup(w, key)
    BY <2>1, LookupIInv
  <2>2. CASE \E w \in Writer : Register(w)
    BY <2>2, RegisterIInv
  <2>3. CASE \E w \in Writer : Write(w)
    BY <2>3, WriteIInv
  <2>4. CASE \E a \in Admin, n \in Sizes : CheckSize(a, n)
    BY <2>4, CheckSizeIInv
  <2>5. CASE \E a \in Admin : Expand(a)
    BY <2>5, ExpandIInv
  <2>6. CASE Restart
    BY <2>6, RestartIInv
  <2>7. CASE UNCHANGED vars
    BY <2>7 DEF vars, indexVars, dataVars, SeriesIInv, IndexTypeOK, IndexSound,
                CallsCurrent, OwnPoints, Found, IdOf
  <2> QED
    BY <2>1, <2>2, <2>3, <2>4, <2>5, <2>6, <2>7 DEF Next
<1> QED
  BY <1>1, <1>2, PTL DEF Spec

\* The types, for every set of keys and number of goroutines.
THEOREM IndexTypeCorrect == Spec => []IndexTypeOK
<1>1. SeriesIInv => IndexTypeOK
  BY DEF SeriesIInv
<1> QED
  BY <1>1, SeriesInductive, PTL

\* Every key is in one bucket, its own, and has its id to itself, whatever
\* lookups, registrations and expansions interleave (series/index.go).
THEOREM IndexSoundHolds == Spec => []IndexSound
<1>1. SeriesIInv => IndexSound
  BY DEF SeriesIInv
<1> QED
  BY <1>1, SeriesInductive, PTL

\* A query by name finds the points this process wrote under that name, and no
\* others of them (ingest.go SeriesOf, query.go SeriesID).
THEOREM OwnPointsHolds == Spec => []OwnPoints
<1>1. SeriesIInv => OwnPoints
  BY DEF SeriesIInv
<1> QED
  BY <1>1, SeriesInductive, PTL

\* The id that a request resolved stays its key's until the point is written.
THEOREM CallsCurrentHolds == Spec => []CallsCurrent
<1>1. SeriesIInv => CallsCurrent
  BY DEF SeriesIInv
<1> QED
  BY <1>1, SeriesInductive, PTL

-----------------------------------------------------------------------------
(* The index implements a growing map. *)

\* A step that shows nothing: every key is found as before.
LEMMA ViewSame ==
    ASSUME \A k \in Key : Same(k)
    PROVE  View' = View
<1>1. \A k \in Key : (Found(k)' <=> Found(k)) /\ (Found(k) => IdOf(k)' = IdOf(k))
  BY DEF Same
<1> QED
  BY <1>1 DEF View

LEMMA RegisterAssigns ==
    ASSUME SeriesIInv, NEW w \in Writer, Register(w)
    PROVE  (\E key \in Key : Map!Assign(key)) \/ UNCHANGED Map!mapVars
<1>1. Table
  BY InvParts
<1>2. PICK key \in Key : key = call[w].key
  BY RegisterCases
<1>3. CASE Found(key) /\ UNCHANGED indexVars
  <2>1. View' = View
    BY <1>3, SameIndex, ViewSame
  <2> QED
    BY <1>3, <2>1 DEF Map!mapVars, indexVars
<1>4. CASE ~Found(key)
  <2>1. /\ buckets' = [buckets EXCEPT ![bucket(key, Len(buckets))] = With(@, key, nextID)]
        /\ nextID' = nextID + 1
    BY <1>2, <1>4, RegisterCases
  <2>2. Found(key)' /\ IdOf(key)' = nextID /\ \A k \in Key \ {key} : Same(k)
    BY <1>1, <1>4, <2>1, RegistrationAdds
  <2>3. \A k \in Key : /\ Found(k)' <=> (Found(k) \/ k = key)
                       /\ Found(k)' => IdOf(k)' = IF k = key THEN nextID ELSE IdOf(k)
    BY <2>2 DEF Same
  <2>4. key \notin DOMAIN View
    BY <1>4 DEF View
  <2>5. DOMAIN View' = DOMAIN View \cup {key}
    BY <2>3 DEF View
  <2>6. View' = [k \in DOMAIN View \cup {key} |-> IF k = key THEN nextID ELSE View[k]]
    <3>1. \A k \in DOMAIN View' : View'[k] = IF k = key THEN nextID ELSE View[k]
      BY <2>3 DEF View
    <3>2. View' = [k \in DOMAIN View' |-> View'[k]]
      BY DEF View
    <3> QED
      BY <2>5, <3>1, <3>2
  <2>7. Map!Assign(key)
    BY <2>1, <2>4, <2>6 DEF Map!Assign
  <2> QED
    BY <2>7
<1> QED
  BY <1>2, <1>3, <1>4, RegisterCases

\* The index refines SeriesMap: registrations are never lost and ids never
\* change, and migrations are invisible (index.go:12-14, 75-77).
THEOREM IndexRefinesMap == Spec => ImplementsMap
<1>1. Init => Map!MapInit
  <2> SUFFICES ASSUME Init PROVE Map!MapInit
    OBVIOUS
  <2>1. \A k \in Key : ~Found(k)
    BY NewIndexEmpty DEF Init
  <2>2. View = Map!NoSeries
    BY <2>1 DEF View, Map!NoSeries
  <2> QED
    BY <2>2 DEF Init, Map!MapInit
<1>2. SeriesIInv /\ [Next]_vars => [Map!MapNext]_(Map!mapVars)
  <2> SUFFICES ASSUME SeriesIInv, [Next]_vars
               PROVE  Map!MapNext \/ UNCHANGED Map!mapVars
    BY DEF Map!mapVars
  <2>1. ASSUME UNCHANGED indexVars PROVE UNCHANGED Map!mapVars
    BY <2>1, SameIndex, ViewSame DEF Map!mapVars, indexVars
  <2>2. CASE \E w \in Writer, key \in Key : Lookup(w, key)
    BY <2>1, <2>2 DEF Lookup
  <2>3. CASE \E w \in Writer : Register(w)
    BY <2>3, RegisterAssigns DEF Map!MapNext
  <2>4. CASE \E w \in Writer : Write(w)
    BY <2>1, <2>4 DEF Write
  <2>5. CASE \E a \in Admin, n \in Sizes : CheckSize(a, n)
    BY <2>1, <2>5 DEF CheckSize
  <2>6. CASE \E a \in Admin : Expand(a)
    <3>1. View' = View
      BY <2>6, ExpandIInv, ViewSame
    <3> QED
      BY <2>6, <3>1 DEF Expand, Map!mapVars
  <2>7. CASE Restart
    <3>1. \A k \in Key : ~Found(k)'
      BY <2>7, RestartIInv
    <3>2. View' = Map!NoSeries
      BY <3>1 DEF View, Map!NoSeries
    <3> QED
      BY <2>7, <3>2 DEF Restart, Map!Forget, Map!MapNext
  <2>8. CASE UNCHANGED vars
    BY <2>1, <2>8 DEF vars
  <2> QED
    BY <2>2, <2>3, <2>4, <2>5, <2>6, <2>7, <2>8 DEF Next
<1> QED
  BY <1>1, <1>2, SeriesInductive, PTL DEF Spec, ImplementsMap, Map!MapSpec
=============================================================================
