----------------------------- MODULE SeriesIndex -----------------------------
(***************************************************************************)
(* The series index of internal/series and the use the write path and      *)
(* queries make of its ids (Ingest.SeriesOf, Engine.SeriesID, Recover).    *)
(*                                                                         *)
(* Index.mu is held for one method, so a request that resolves a series    *)
(* is a Lookup, perhaps a Register, and then the write of a point under    *)
(* the id; Expand looks at the size of the table before it takes the lock. *)
(* The log and the memtable carry ids and no names; the index itself is    *)
(* not persisted.                                                          *)
(***************************************************************************)
EXTENDS Integers, Sequences

CONSTANTS
    Key,        \* label keys: a name with its sanitized labels
    Hash,       \* xxhash of each
    Initial,    \* the number of buckets NewIndex makes
    Sizes,      \* numbers of buckets an administrator may ask for
    Writer,     \* goroutines that write samples
    Admin       \* goroutines in handleExpand

ASSUME SeriesConstants ==
    /\ Hash \in [Key -> Nat]
    /\ Initial \in Nat \ {0}
    /\ Sizes \subseteq Nat \ {0}

VARIABLES
    buckets,    \* ix.buckets, each a map from keys to ids
    nextID,     \* ix.nextID
    call,       \* where each writer is in SeriesOf, with its key and id
    expand,     \* the size each administrator has checked, 0 for none
    log,        \* records in the log: an id, and (history) the key it was for
    points,     \* points in memory, likewise
    written     \* (history) those of them this process wrote itself

indexVars == <<buckets, nextID>>
dataVars == <<log, points, written>>
vars == <<indexVars, call, expand, dataVars>>

Id == Nat \ {0}

Sample == [id : Id, key : Key]

-----------------------------------------------------------------------------
\* The bucket of a key in a table of n.
bucket(key, n) == (Hash[key] % n) + 1

Empty == [k \in {} |-> 0]

NewIndex(n) == [i \in 1..n |-> Empty]

Found(key) == key \in DOMAIN buckets[bucket(key, Len(buckets))]

IdOf(key) == buckets[bucket(key, Len(buckets))][key]

\* The bucket with one more key.
With(b, key, id) == [k \in DOMAIN b \cup {key} |-> IF k = key THEN id ELSE b[k]]

Holds(i, key) == i \in DOMAIN buckets /\ key \in DOMAIN buckets[i]

\* A faulty Migrated, which keeps the buckets where they are.
MigratedInPlace(n) == [i \in 1..n |-> IF i <= Len(buckets) THEN buckets[i] ELSE Empty]

\* Every key of the old table in its bucket of a table of n.
Migrated(n) ==
    [i \in 1..n |->
        [key \in {k \in Key : bucket(k, n) = i /\ \E j \in DOMAIN buckets : Holds(j, k)} |->
            buckets[CHOOSE j \in DOMAIN buckets : Holds(j, key)][key]]]

-----------------------------------------------------------------------------
Idle == [step |-> "idle"]

Init ==
    /\ buckets = NewIndex(Initial)
    /\ nextID = 1
    /\ call = [w \in Writer |-> Idle]
    /\ expand = [a \in Admin |-> 0]
    /\ log = {} /\ points = {} /\ written = {}

\* A faulty Lookup, whose caller forgets to ask whether the series was found.
LookupFinds(w, key) ==
    /\ call[w] = Idle
    /\ call' = [call EXCEPT ![w] = [step |-> "resolved", key |-> key,
                                    id |-> IF Found(key) THEN IdOf(key) ELSE 0]]
    /\ UNCHANGED <<indexVars, expand, dataVars>>

\* SeriesOf: the first look, under the read lock.
Lookup(w, key) ==
    /\ call[w] = Idle
    /\ call' = [call EXCEPT ![w] =
                   IF Found(key) THEN [step |-> "resolved", key |-> key, id |-> IdOf(key)]
                   ELSE [step |-> "missed", key |-> key]]
    /\ UNCHANGED <<indexVars, expand, dataVars>>

\* Faulty variants of Register: it trusts the Lookup; it reuses the id.
RegisterUnchecked(w) ==
    /\ call[w].step = "missed"
    /\ LET key == call[w].key
           i == bucket(key, Len(buckets))
       IN  /\ buckets' = [buckets EXCEPT ![i] = With(@, key, nextID)]
           /\ nextID' = nextID + 1
           /\ call' = [call EXCEPT ![w] = [step |-> "resolved", key |-> key, id |-> nextID]]
    /\ UNCHANGED <<expand, dataVars>>

RegisterSameID(w) ==
    /\ call[w].step = "missed"
    /\ LET key == call[w].key
           i == bucket(key, Len(buckets))
       IN  /\ IF Found(key) THEN UNCHANGED buckets
              ELSE buckets' = [buckets EXCEPT ![i] = With(@, key, nextID)]
           /\ call' = [call EXCEPT ![w] = [step |-> "resolved", key |-> key, id |-> nextID]]
    /\ UNCHANGED <<nextID, expand, dataVars>>

\* Register looks again, under the write lock.
Register(w) ==
    /\ call[w].step = "missed"
    /\ LET key == call[w].key
           i == bucket(key, Len(buckets))
           id == IF Found(key) THEN IdOf(key) ELSE nextID
       IN  /\ IF Found(key) THEN UNCHANGED indexVars
              ELSE /\ buckets' = [buckets EXCEPT ![i] = With(@, key, nextID)]
                   /\ nextID' = nextID + 1
           /\ call' = [call EXCEPT ![w] = [step |-> "resolved", key |-> key, id |-> id]]
    /\ UNCHANGED <<expand, dataVars>>

\* Append goes on: the record and the point carry the id.
Write(w) ==
    /\ call[w].step = "resolved"
    /\ LET sample == [id |-> call[w].id, key |-> call[w].key]
       IN  /\ log' = log \cup {sample}
           /\ points' = points \cup {sample}
           /\ written' = written \cup {sample}
    /\ call' = [call EXCEPT ![w] = Idle]
    /\ UNCHANGED <<indexVars, expand>>

\* Expand checks the size without the lock.
CheckSize(a, n) ==
    /\ expand[a] = 0
    /\ n > Len(buckets)
    /\ expand' = [expand EXCEPT ![a] = n]
    /\ UNCHANGED <<indexVars, call, dataVars>>

\* Then it takes the lock and migrates, whatever the size is by now.
Expand(a) ==
    /\ expand[a] # 0
    /\ buckets' = Migrated(expand[a])
    /\ expand' = [expand EXCEPT ![a] = 0]
    /\ UNCHANGED <<nextID, call, dataVars>>

\* The process ends and the next one recovers, from an empty index, the points
\* of what the log still has.  (A request cut off between its record and its
\* point is a Write before the Restart.)
Restart ==
    /\ \E kept \in SUBSET log : log' = kept /\ points' = kept
    /\ buckets' = NewIndex(Initial)
    /\ nextID' = 1
    /\ call' = [w \in Writer |-> Idle]
    /\ expand' = [a \in Admin |-> 0]
    /\ written' = {}

Next ==
    \/ \E w \in Writer, key \in Key : Lookup(w, key)
    \/ \E w \in Writer : Register(w) \/ Write(w)
    \/ \E a \in Admin, n \in Sizes : CheckSize(a, n)
    \/ \E a \in Admin : Expand(a)
    \/ Restart

Spec == Init /\ [][Next]_vars

-----------------------------------------------------------------------------
(* Properties. *)

Call ==
    {Idle} \cup [step : {"missed"}, key : Key] \cup [step : {"resolved"}, key : Key, id : Id]

IndexTypeOK ==
    /\ Len(buckets) \in Nat \ {0}
    /\ buckets = [i \in 1..Len(buckets) |-> buckets[i]]
    /\ \A i \in DOMAIN buckets : /\ DOMAIN buckets[i] \subseteq Key
                                 /\ buckets[i] \in [DOMAIN buckets[i] -> Id]
    /\ nextID \in Id
    /\ call \in [Writer -> Call]
    /\ expand \in [Admin -> {0} \cup Sizes]
    /\ log \subseteq Sample /\ points \subseteq Sample /\ written \subseteq Sample

\* However lookups, registrations and migrations interleave, a key sits in the
\* bucket its hash gives for the present size of the table and in no other, and
\* no two keys share an id, nor does one have an id not handed out yet
\* (index.go:39-50, 75-97).  Two expansions that both passed the check may leave
\* the smaller table; that loses no series.
IndexSound ==
    /\ \A i \in DOMAIN buckets : \A k \in DOMAIN buckets[i] :
           /\ i = bucket(k, Len(buckets))
           /\ buckets[i][k] \in 1..(nextID - 1)
    /\ \A i, j \in DOMAIN buckets : \A k \in DOMAIN buckets[i], m \in DOMAIN buckets[j] :
           buckets[i][k] = buckets[j][m] => k = m

\* A query by name finds the points that were written under it and no others,
\* among those this process wrote: the id a request got from Lookup or Register
\* is still the key's when its point is written (ingest.go:73-92, query.go:80-87).
OwnPoints ==
    \A sample \in written, key \in Key :
        Found(key) /\ IdOf(key) = sample.id <=> key = sample.key

\* "Recover replays the WAL into the live memtable after startup so acknowledged
\* writes are not lost across restarts" (ingest.go:245-246): a query for a series
\* that the index knows finds all points of that series and no others, replayed
\* ones too.  It does not hold: a new index gives the ids out anew.
RecoveredUnderOwnName ==
    \A sample \in points, key \in Key :
        Found(key) => (IdOf(key) = sample.id <=> key = sample.key)

\* A request in progress holds the id that its key has in the index, whatever
\* migrations came in between.
CallsCurrent ==
    \A w \in Writer : call[w].step = "resolved" =>
        Found(call[w].key) /\ IdOf(call[w].key) = call[w].id

\* The strengthening of the two that is inductive.
SeriesIInv == IndexTypeOK /\ IndexSound /\ CallsCurrent /\ OwnPoints

-----------------------------------------------------------------------------
\* What the index stands for: the keys it finds, with their ids.
View == [key \in {k \in Key : Found(k)} |-> IdOf(key)]

Map == INSTANCE SeriesMap WITH ids <- View, next <- nextID

\* The index is a growing map: no registration is lost, by an expansion that it
\* races with least of all, no series changes its id, and migrations show
\* nowhere (index.go:12-14, 75-77).
ImplementsMap == Map!MapSpec
=============================================================================
