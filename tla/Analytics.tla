----------------------------- MODULE Analytics -----------------------------
(***************************************************************************)
(* The measurements of a device as package analytics and AnalyticsService  *)
(* report them: the energy, the summary and the buckets of a window, and   *)
(* percentiles.  A table of measurements grows row by row, and for every   *)
(* table the reports are compared with what they mean and with each other. *)
(* Time is in hours, and power and energy are whole numbers; a quotient is *)
(* kept as its numerator with the divisor beside it.                       *)
(***************************************************************************)
EXTENDS Sorting, Sums, FiniteSetsExt

CONSTANTS
    Samples,        \* measurements a table can have: [device, at, watts]
    MaxSamples,     \* bound on the length of a table
    MaxGap,         \* longest gap that is integrated over, 24 hours
    Steps,          \* bucket lengths to try
    Parts           \* percentiles are asked for in multiples of 1/Parts

ASSUME AnalyticsAssumption ==
    /\ Samples \subseteq [device : Nat, at : Nat, watts : Nat]
    /\ MaxSamples \in Nat /\ MaxGap \in Nat /\ Steps \subseteq Int
    /\ Parts \in Nat \ {0}

VARIABLE table

AnalyticsInit == table = <<>>

\* A measurement more; the rows of a device are in the order of their sequence.
AddSample ==
    /\ Len(table) < MaxSamples
    /\ \E m \in Samples : table' = Append(table, m)

AnalyticsSpec == AnalyticsInit /\ [][AddSample]_table

-----------------------------------------------------------------------------

\* TelemetryWindow: the rows of a device with start <= measured_at < end, in the
\* order of their time and then of their sequence.
Selected(t, d, start, end) ==
    {i \in 1..Len(t) : t[i].device = d /\ start <= t[i].at /\ t[i].at < end}
TelemetryWindow(t, d, start, end) ==
    Arrange(t, StableOrder([i \in Selected(t, d, start, end) |-> t[i].at]))

-----------------------------------------------------------------------------
(* EnergyWh                                                                *)

\* Twice the energy between two measurements.  Intervals that are empty or too
\* long are left out.
Trapezoid(a, b) ==
    LET gap == b.at - a.at
    IN  IF gap <= 0 \/ gap > MaxGap THEN 0 ELSE (a.watts + b.watts) * gap

\* Mutated form: the devices are not kept apart.
AdjacentMixed(s, order) ==
    {p \in (DOMAIN order) \X (DOMAIN order) : p[2] = p[1] + 1}

\* Positions of neighbours in the list of a device.
Adjacent(s, order) ==
    {p \in (DOMAIN order) \X (DOMAIN order) :
        /\ p[1] < p[2] /\ s[order[p[1]]].device = s[order[p[2]]].device
        /\ \A k \in p[1] + 1..p[2] - 1 : s[order[k]].device # s[order[p[2]]].device}

\* Twice what EnergyWh can return for the measurements I of s: measurements of a
\* device with the same time are in any order.
EnergyWh(s, I) ==
    {SumOf([p \in Adjacent(s, order) |-> Trapezoid(s[order[p[1]]], s[order[p[2]]])]) :
        order \in Orders([i \in I |-> s[i].at])}

-----------------------------------------------------------------------------
(* Summarize, Bucketize                                                    *)

\* The total, the lowest and the highest power of the measurements I of s.
Total(s, I) == SumOf([i \in I |-> s[i].watts])
Low(s, I) == IF I = {} THEN 0 ELSE Min({s[i].watts : i \in I})
Peak(s, I) == Max({0} \cup {s[i].watts : i \in I})

\* AverageWatts is total / samples, WattHours is EnergyWh(s); First, Last and
\* DeviceCount are left out.
Summarize(s) ==
    [samples |-> Len(s), total |-> Total(s, 1..Len(s)), peak |-> Peak(s, 1..Len(s))]

\* math.Ceil of the quotient.
BucketCount(start, end, step) == (end - start + step - 1) \div step

\* The measurements counted in bucket k.
InBucket(s, start, end, step, k) ==
    {i \in 1..Len(s) : /\ start <= s[i].at /\ s[i].at < end
                       /\ (s[i].at - start) \div step = k - 1}

\* AverageWatts is total / samples, WattHours total * (end - start) / samples.
Bucketize(s, start, end, step) ==
    IF step <= 0 \/ start >= end THEN <<>>
    ELSE [k \in 1..BucketCount(start, end, step) |->
            LET from == start + (k - 1) * step
                mine == InBucket(s, start, end, step, k)
            IN  [start   |-> from,
                 end     |-> IF from + step > end THEN end ELSE from + step,
                 samples |-> Cardinality(mine), total |-> Total(s, mine),
                 min     |-> Low(s, mine), max |-> Peak(s, mine)]]

\* AnalyticsService.DeviceSummary and AnalyticsService.Buckets
DeviceSummary(d, start, end) == Summarize(TelemetryWindow(table, d, start, end))

Buckets(d, start, end, step) == Bucketize(TelemetryWindow(table, d, start, end), start, end, step)

-----------------------------------------------------------------------------
(* Percentile                                                              *)

\* math.Round(p * (n - 1)) for p = part/Parts clamped to 0..1; halves round up.
PercentileIndex(n, part) ==
    LET p == IF part < 0 THEN 0 ELSE IF part > Parts THEN Parts ELSE part
    IN  (2 * p * (n - 1) + Parts) \div (2 * Parts)

Percentile(values, part) ==
    IF values = <<>> THEN 0
    ELSE Arrange(values, StableOrder(values))[PercentileIndex(Len(values), part) + 1]

-----------------------------------------------------------------------------
(* Properties                                                              *)

MeasuredDevices == {table[i].device : i \in 1..Len(table)}
Times == {0, 1} \cup UNION {0..m.at + 1 : m \in Samples}

\* The buckets of a window cut it into consecutive pieces, each measurement is
\* counted in the piece its time is in, the last and shorter one included, and
\* the buckets add up to the summary of the same window.
WindowExact(d, start, end, step) ==
    LET b == Buckets(d, start, end, step)
        sum == DeviceSummary(d, start, end)
    IN  /\ b # <<>> /\ b[1].start = start /\ b[Len(b)].end = end
        /\ \A k \in 1..Len(b) :
              /\ b[k].start < b[k].end
              /\ k > 1 => b[k].start = b[k - 1].end
              /\ b[k].samples = Cardinality({i \in 1..Len(table) :
                    /\ table[i].device = d
                    /\ b[k].start <= table[i].at /\ table[i].at < b[k].end})
              /\ b[k].min * b[k].samples <= b[k].total
              /\ b[k].total <= b[k].max * b[k].samples
        /\ SumOf([k \in 1..Len(b) |-> b[k].samples]) = sum.samples
        /\ SumOf([k \in 1..Len(b) |-> b[k].total]) = sum.total
        /\ Max({b[k].max : k \in 1..Len(b)}) = sum.peak
BucketsExact ==
    \A d \in MeasuredDevices, start, end \in Times, step \in Steps :
        start < end /\ step > 0 => WindowExact(d, start, end, step)

\* What two results add up to, each one of several.
Plus(X, Y) == {x + y : x \in X, y \in Y}

DistinctTimes(t) ==
    \A i, j \in 1..Len(t) : t[i].device = t[j].device /\ t[i].at = t[j].at => i = j

\* The energy of a table does not depend on the order in which measurements
\* arrived as long as no device measured twice at one instant, and is the sum of
\* the energy up to an instant and from it on, if the devices measured then.
EnergyAdditive ==
    LET all == 1..Len(table)
    IN  DistinctTimes(table) =>
          /\ Cardinality(EnergyWh(table, all)) = 1
          /\ \A arrival \in Orders([i \in all |-> 0]) :
                EnergyWh(Arrange(table, arrival), all) = EnergyWh(table, all)
          /\ \A cut \in Times :
                (\A i \in all : \E j \in all :
                    table[j].device = table[i].device /\ table[j].at = cut) =>
                  EnergyWh(table, all) = Plus(EnergyWh(table, {i \in all : table[i].at <= cut}),
                                              EnergyWh(table, {i \in all : table[i].at >= cut}))

\* A higher percentile is never smaller, the lowest and the highest are the
\* smallest and the largest value, and at least the asked part of the values is
\* not above it, up to the rounding of the index to the nearest value.
PercentileOrdered ==
    LET values == [i \in 1..Len(table) |-> table[i].watts]
        n == Len(values)
        below(v) == Cardinality({i \in 1..n : values[i] <= v})
    IN  n > 0 =>
          \A part \in -1..Parts + 1 :
              /\ Percentile(values, part) <= Percentile(values, part + 1)
              /\ part <= 0 => Percentile(values, part) = Min({values[i] : i \in 1..n})
              /\ part >= Parts => Percentile(values, part) = Max({values[i] : i \in 1..n})
              /\ part \in 0..Parts =>
                    2 * Parts * below(Percentile(values, part)) >= 2 * part * (n - 1) + Parts

\* What the reports say of a table is right, and they agree with each other.
ReportsAgree == BucketsExact /\ EnergyAdditive /\ PercentileOrdered
=============================================================================
