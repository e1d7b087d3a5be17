------------------------------ MODULE Schedule ------------------------------
(***************************************************************************)
(* The pure algorithms on time windows of package domain: Conflicts and    *)
(* Capacity for the windows of devices, MergeWindows for plain windows.    *)
(* A schedule grows row by row, and for every schedule the first two are   *)
(* compared with what they are meant to compute; MergeWindows can be       *)
(* called on any schedule and takes one step for each round of its loop.   *)
(***************************************************************************)
EXTENDS Sorting, Sums

CONSTANTS
    Rows,           \* rows a schedule can have: [device, start, end, watts]
    MaxRows,        \* bound on the length of a schedule
    MaxSpan,        \* longest window Validate accepts
    Limits          \* limits to try on Capacity

\* Instant 0 is Go's zero time.
ASSUME ScheduleAssumption ==
    /\ Rows \subseteq [device : Nat, start : Nat, end : Nat, watts : Int]
    /\ MaxRows \in Nat /\ MaxSpan \in Nat /\ Limits \subseteq Int

VARIABLES
    rows,           \* the caller's schedule
    phase,          \* "input", or where MergeWindows is
    ordered,        \* MergeWindows: copyWindows, sorted
    taken,          \* MergeWindows: windows the loop has gone through
    merged          \* MergeWindows: the result so far

scheduleVars == <<rows, phase, ordered, taken, merged>>

ScheduleTypeOK ==
    /\ rows \in Seq(Rows)
    /\ phase \in {"input", "refused", "merging", "returned"}
    /\ ordered \in Seq(Rows)
    /\ taken \in 0..Len(ordered)
    /\ merged \in Seq([device : Nat, start : Nat, end : Nat, watts : Int])

ScheduleInit ==
    rows = <<>> /\ phase = "input" /\ ordered = <<>> /\ taken = 0 /\ merged = <<>>

\* The caller's schedule, one row longer.
AddRow ==
    /\ phase = "input" /\ Len(rows) < MaxRows
    /\ \E r \in Rows : rows' = Append(rows, r)
    /\ UNCHANGED <<phase, ordered, taken, merged>>

Starts(rs) == [i \in 1..Len(rs) |-> rs[i].start]

-----------------------------------------------------------------------------
(* Conflicts                                                               *)

Overlap(a, b) == a.device = b.device /\ a.start < b.end /\ b.start < a.end

\* Mutated form: the loop stops at the first row that does not overlap.
ReachShort(s, i) == {j \in i + 1..Len(s) : \A k \in i + 1..j : Overlap(s[i], s[k])}

\* The rows the inner loop compares with row i: it breaks at the first one that
\* starts after row i has ended.
Reach(s, i) == {j \in i + 1..Len(s) : \A k \in i + 1..j : s[k].start <= s[i].end}

\* copyRows of Conflicts
CopyRows(rs) == Arrange(rs, StableOrder(Starts(rs)))

\* What Conflicts returns: one copyRows[j] for each <<i, j>> here.
Conflicts(rs) ==
    LET s == CopyRows(rs)
    IN  {p \in (1..Len(s)) \X (1..Len(s)) :
            p[2] \in Reach(s, p[1]) /\ Overlap(s[p[1]], s[p[2]])}

-----------------------------------------------------------------------------
(* Capacity                                                                *)

Valid(r) == r.device > 0 /\ r.start < r.end /\ r.watts >= 0

\* Rows that are on at an instant, and the sum of their power.
Active(rs, at) == {i \in 1..Len(rs) : rs[i].start <= at /\ at < rs[i].end}
Load(rs, at) == SumOf([i \in Active(rs, at) |-> rs[i].watts])

\* Mutated form: only the ends of the windows are looked at.
PointsEnds(rs) == {rs[i].end : i \in 1..Len(rs)}

\* The instants at which Capacity adds up the load.
Points(rs) == {rs[i].start : i \in 1..Len(rs)} \cup {rs[i].end : i \in 1..Len(rs)}

\* Capacity(rs, limit) = nil
Capacity(rs, limit) ==
    /\ limit >= 0
    /\ \A i \in 1..Len(rs) : Valid(rs[i])
    /\ \A at \in Points(rs) : Load(rs, at) <= limit

-----------------------------------------------------------------------------
(* MergeWindows                                                            *)

ValidWindow(w, max) ==
    w.start # 0 /\ w.end # 0 /\ w.start < w.end /\ max > 0 /\ w.end - w.start <= max

\* TimeWindow.Contains
InWindow(w, at) == w.start # 0 /\ w.end # 0 /\ w.start <= at /\ at < w.end

Mergeable(ws) == \A i \in 1..Len(ws) : ValidWindow(ws[i], MaxSpan)

\* Mutated form: the last end wins.
MergeIntoLast(ws, w) ==
    LET n == Len(ws)
    IN  IF n > 0 /\ w.start <= ws[n].end
          THEN [ws EXCEPT ![n].end = w.end]
          ELSE Append(ws, w)

\* One round of the loop: extend the last window or start a new one.
MergeInto(ws, w) ==
    LET n == Len(ws)
    IN  IF n > 0 /\ w.start <= ws[n].end
          THEN [ws EXCEPT ![n].end = IF w.end > @ THEN w.end ELSE @]
          ELSE Append(ws, w)

\* A window is refused, or the copy is sorted.
MergeWindows ==
    /\ phase = "input"
    /\ \/ ~Mergeable(rows) /\ phase' = "refused" /\ UNCHANGED ordered
       \/ /\ Mergeable(rows) /\ phase' = "merging"
          /\ \E order \in Orders(Starts(rows)) : ordered' = Arrange(rows, order)
    /\ UNCHANGED <<rows, taken, merged>>

MergeRound ==
    /\ phase = "merging" /\ taken < Len(ordered)
    /\ merged' = MergeInto(merged, ordered[taken + 1])
    /\ taken' = taken + 1
    /\ UNCHANGED <<rows, phase, ordered>>

MergeReturns ==
    /\ phase = "merging" /\ taken = Len(ordered)
    /\ phase' = "returned"
    /\ UNCHANGED <<rows, ordered, taken, merged>>

ScheduleNext == AddRow \/ MergeWindows \/ MergeRound \/ MergeReturns

ScheduleSpec == ScheduleInit /\ [][ScheduleNext]_scheduleVars

-----------------------------------------------------------------------------
(* Properties                                                              *)

\* Instants up to the last end of a row.
Instants == {0} \cup UNION {0..r.end : r \in Rows}

\* Pairs of rows of the same device that overlap, and the one of a pair that
\* starts later, or comes later if they start together.
Overlapping ==
    {p \in (1..Len(rows)) \X (1..Len(rows)) : p[1] < p[2] /\ Overlap(rows[p[1]], rows[p[2]])}
Later(p) == IF rows[p[1]].start > rows[p[2]].start THEN p[1] ELSE p[2]

\* Conflicts reports one row for each pair of rows of the same device that
\* overlap, the one that starts later, although its inner loop stops early: no
\* conflict is missed, none is made up and none is reported twice.  A row that
\* ends before it starts does not confuse it.
ConflictsComplete ==
    LET s == CopyRows(rows)
        out == Conflicts(rows)
        overlapping == Overlapping
    IN  \A r \in Rows :
            Cardinality({c \in out : s[c[2]] = r})
                = Cardinality({p \in overlapping : rows[Later(p)] = r})

\* Capacity accepts a valid schedule exactly if the load stays within the limit
\* at every instant, not only at those it looks at.
CapacityEverywhere ==
    (\A i \in 1..Len(rows) : Valid(rows[i])) =>
        \A limit \in Limits :
            Capacity(rows, limit) <=>
                limit >= 0 /\ \A at \in Instants : Load(rows, at) <= limit

\* The two checks of a schedule find exactly what they look for: a conflict or
\* an overload is found wherever it is, and none is made up.
ChecksExact == ConflictsComplete /\ CapacityEverywhere

\* The instants the rows cover, and the longest runs of them: what the windows
\* of a schedule amount to, as intervals that neither overlap nor touch.
Covered(at) == \E i \in 1..Len(rows) : InWindow(rows[i], at)
Runs == {w \in Instants \X Instants :
            /\ w[1] < w[2]
            /\ \A at \in w[1]..w[2] - 1 : Covered(at)
            /\ ~Covered(w[1] - 1) /\ ~Covered(w[2])}

\* MergeWindows returns the runs of the instants that the windows cover, in their
\* order, whichever way the unstable sort arranges equal starts: nothing is
\* added or lost, no two of its windows overlap or touch, and the result does
\* not depend on the order of the windows it was given.
MergeExact ==
    phase = "returned" =>
        /\ {<<merged[i].start, merged[i].end>> : i \in 1..Len(merged)} = Runs
        /\ \A i \in 1..Len(merged) - 1 : merged[i].end < merged[i + 1].start
=============================================================================
