------------------------------ MODULE Aggregate ------------------------------
(***************************************************************************)
(* The window loops of internal/query (aggregate) and internal/compact     *)
(* (aggregateWindow), turn by turn over the points they are given.         *)
(***************************************************************************)
EXTENDS Integers, Sequences, SequencesExt, FiniteSets

\* Go's remainder, which takes the sign of the dividend.
Rem(t, n) == IF t >= 0 THEN t % n ELSE -((-t) % n)

\* The window a timestamp counts in.
start(t, step) == t - Rem(t, step)

\* The smaller and the larger of two values.
Lower(a, b) == IF b < a THEN b ELSE a
Upper(a, b) == IF b > a THEN b ELSE a

Opened(p, step) ==
    [ts |-> start(p.ts, step), sum |-> p.val, min |-> p.val, max |-> p.val, count |-> 1]

Joined(w, p) ==
    [ts |-> w.ts, sum |-> w.sum + p.val, min |-> Lower(w.min, p.val),
     max |-> Upper(w.max, p.val), count |-> w.count + 1]

\* A faulty Added, which opens a window without the point that opens it.
AddedAfterFirst(windows, p, step) ==
    IF windows = <<>> \/ windows[Len(windows)].ts # start(p.ts, step)
    THEN Append(windows, [Opened(p, step) EXCEPT !.count = 0, !.sum = 0])
    ELSE [windows EXCEPT ![Len(windows)] = Joined(@, p)]

\* One turn of the loop: the point goes to the last window or opens the next.
Added(windows, p, step) ==
    IF windows = <<>> \/ windows[Len(windows)].ts # start(p.ts, step)
    THEN Append(windows, Opened(p, step))
    ELSE [windows EXCEPT ![Len(windows)] = Joined(@, p)]

\* The windows after each turn.
Turns(points, step) ==
    LET windows[n \in 0..Len(points)] ==
            IF n = 0 THEN <<>> ELSE Added(windows[n - 1], points[n], step)
    IN  windows

aggregate(points, step) == Turns(points, step)[Len(points)]

\* A faulty aggregateWindow, which stops before the last point.
aggregateWindowShort(points, step) ==
    IF points = <<>> THEN <<>>
    ELSE LET windows == aggregate(Front(points), step)
         IN  [i \in DOMAIN windows |->
                 [ts |-> windows[i].ts, sum |-> windows[i].sum, count |-> windows[i].count]]

\* Downsampling gathers of each window its start, a sum and a count; the average
\* that it stores in the end, their quotient, is left out.
aggregateWindow(points, step) ==
    LET windows == aggregate(points, step)
    IN  [i \in DOMAIN windows |->
            [ts |-> windows[i].ts, sum |-> windows[i].sum, count |-> windows[i].count]]

-----------------------------------------------------------------------------
(* What the loops should compute, from the points as a whole. *)

\* The positions of the points of a window.
In(points, ts, step) == {i \in DOMAIN points : points[i].ts \in ts..(ts + step - 1)}

Sums(points, I) ==
    LET sum[n \in 0..Len(points)] ==
            IF n = 0 THEN 0 ELSE sum[n - 1] + (IF n \in I THEN points[n].val ELSE 0)
    IN  sum

Total(points, I) == Sums(points, I)[Len(points)]

\* Windows as the points of a block.
AsPoints(windows) == [k \in DOMAIN windows |-> [ts |-> windows[k].ts, val |-> windows[k].sum]]

\* Windows in order, none empty, none twice, and each with all of its points.
Summarises(windows, points, step) ==
    /\ \A i, j \in DOMAIN windows : i < j => windows[i].ts < windows[j].ts
    /\ \A k \in DOMAIN points : \E i \in DOMAIN windows : k \in In(points, windows[i].ts, step)
    /\ \A i \in DOMAIN windows :
           LET I == In(points, windows[i].ts, step)
           IN  /\ I # {}
               /\ windows[i].count = Cardinality(I)
               /\ windows[i].sum = Total(points, I)

\* The extremes are values of the window that nothing in it goes beyond.
Bounds(windows, points, step) ==
    \A i \in DOMAIN windows :
        LET vals == {points[k].val : k \in In(points, windows[i].ts, step)}
        IN  /\ windows[i].min \in vals /\ windows[i].max \in vals
            /\ \A v \in vals : windows[i].min <= v /\ v <= windows[i].max
=============================================================================
