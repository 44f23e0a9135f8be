------------------------------ MODULE Percentiles ------------------------------
(***************************************************************************)
(* How the benchmarks turn samples into percentiles, and counter readings  *)
(* into ticks per nanosecond.  A percentile is in permille.  The code      *)
(* multiplies doubles: a product that is a whole number may come out just  *)
(* under or just over it.                                                  *)
(***************************************************************************)
EXTENDS Integers, SequencesExt, FiniteSetsExt

CONSTANTS
    SampleValues,       \* recorded latencies
    MaxSamples,         \* how many are recorded
    kBucketWidthNs, kNumBuckets,        \* the linear histograms
    kFineBuckets, kLogBuckets           \* the histogram of soak_harness

ASSUME SamplesAssumption == SampleValues \subseteq Nat /\ MaxSamples \in Nat \ {0}

Permille == {500, 900, 990, 999}

\* static_cast<size_t>(p * n) and std::ceil(p * n), for p * n in thousandths.
Truncated(x) == {x \div 1000} \cup (IF x % 1000 = 0 /\ x > 0 THEN {x \div 1000 - 1} ELSE {})
Ceiling(x) == {(x + 999) \div 1000} \cup (IF x % 1000 = 0 THEN {x \div 1000 + 1} ELSE {})

-----------------------------------------------------------------------------
(* Sorted samples: the values each method may report.                      *)

Sample(s, idx) == s[Min({idx, Len(s) - 1}) + 1]

at_percentile(s, p) == {Sample(s, idx) : idx \in Truncated(p * (Len(s) - 1))}
harness_at(s, p) == at_percentile(s, p)
cluster_pct(s, p) == {s[idx + 1] : idx \in Truncated(p * (Len(s) - 1))}
compute_percentiles(s, p) == {Sample(s, idx) : idx \in Truncated(p * Len(s))}

rank_value(s, p) == s[Max({1, Min({(Len(s) * p + 999) \div 1000, Len(s)})})]

\* Interpolated between two neighbours, in thousandths.
percentile(s, p) ==
    LET k == p * (Len(s) - 1)
        f == k \div 1000
        c == (k + 999) \div 1000
    IN  {IF Len(s) = 1 \/ f = c THEN 1000 * s[f + 1] ELSE s[f + 1] * (1000 * c - k) + s[c + 1] * (k - 1000 * f)}

ipc_percentile(s, p) == percentile(s, p)

\* The report of a profiler run.
finish(s) == [n |-> Len(s), min |-> s[1], max |-> s[Len(s)], at |-> [p \in Permille |-> rank_value(s, p)]]

-----------------------------------------------------------------------------
(* Histograms *)

Count(s, P(_)) == Cardinality({i \in DOMAIN s : P(s[i])})

\* LatencyHistogram of animus_harness and bench_itch_ingest: record counts the
\* sample in its bucket or as overflow, percentile walks the buckets.
record(v) == IF v \div kBucketWidthNs < kNumBuckets THEN v \div kBucketWidthNs ELSE kNumBuckets

\* Mutant: the bucket that reaches the target is passed over.
histogram_percentile_Past(s, p) ==
    {LET reached == {i \in 0..(kNumBuckets - 1) : Count(s, LAMBDA v : record(v) <= i) > target}
     IN  IF reached # {} THEN Min(reached) * kBucketWidthNs + kBucketWidthNs \div 2 ELSE Last(s) : target \in Ceiling(p * Len(s))}

histogram_percentile(s, p) ==
    {LET reached == {i \in 0..(kNumBuckets - 1) : Count(s, LAMBDA v : record(v) <= i) >= target}
     IN  IF reached # {} THEN Min(reached) * kBucketWidthNs + kBucketWidthNs \div 2 ELSE Last(s) : target \in Ceiling(p * Len(s))}

itch_percentile(s, p) == histogram_percentile(s, p)

\* soak_harness: exact up to kFineBuckets, then one bucket per power of two.
kTopOverflowIdx == kFineBuckets + kLogBuckets

bucket_index_for(v) ==
    IF v < kFineBuckets THEN v
    ELSE LET ratio == v \div kFineBuckets
             j == Max({e \in 0..ratio : 2^e <= ratio})
         IN  IF j >= kLogBuckets THEN kTopOverflowIdx ELSE kFineBuckets + j

bucket_floor_ns(idx) ==
    IF idx < kFineBuckets THEN idx
    ELSE kFineBuckets * 2^(IF idx >= kTopOverflowIdx THEN kLogBuckets ELSE idx - kFineBuckets)

find_percentile(s, p) ==
    {LET reached == {i \in 0..kTopOverflowIdx : Count(s, LAMBDA v : bucket_index_for(v) <= i) > target}
     IN  bucket_floor_ns(IF reached # {} THEN Min(reached) ELSE kTopOverflowIdx) : target \in Truncated(p * Len(s))}

-----------------------------------------------------------------------------
Samples == {SortSeq(s, <) : s \in UNION {[1..n -> SampleValues] : n \in 1..MaxSamples}}

\* Not more than p of the samples lie below the reported value and, up to the
\* sample the report itself stands for, p of them lie at or below it.
Bracketed(s, p, below, atOrBelow) == 1000 * below <= p * Len(s) /\ p * (Len(s) - 1) <= 1000 * atOrBelow

\* Every percentile the benchmarks report, by any of the methods and
\* however the doubles round, has the right share of the samples on either
\* side: exactly for the methods that keep the samples, to the bucket for the
\* histograms.  In particular no index leaves the samples.
PercentilesBracketed(s) ==
    \A p \in Permille :
        /\ \A r \in at_percentile(s, p) \cup harness_at(s, p) \cup cluster_pct(s, p) \cup compute_percentiles(s, p) \cup {finish(s).at[p]} :
             Bracketed(s, p, Count(s, LAMBDA v : v < r), Count(s, LAMBDA v : v <= r))
        /\ \A r \in percentile(s, p) \cup ipc_percentile(s, p) :
             Bracketed(s, p, Count(s, LAMBDA v : 1000 * v < r), Count(s, LAMBDA v : 1000 * v <= r))
        /\ \A r \in histogram_percentile(s, p) \cup itch_percentile(s, p) :
             Bracketed(s, p, Count(s, LAMBDA v : record(v) < record(r)), Count(s, LAMBDA v : record(v) <= record(r)))
        /\ \A r \in find_percentile(s, p) :
             Bracketed(s, p, Count(s, LAMBDA v : bucket_index_for(v) < bucket_index_for(r)), Count(s, LAMBDA v : bucket_index_for(v) <= bucket_index_for(r)))

-----------------------------------------------------------------------------
(* Calibration: windows of counter ticks dc, measured between two clock    *)
(* readings on either side, da and db apart.                               *)

Window == [dc : {0, 12, 24}, da : {0, 2, 4}, db : {0, 2}]

\* calibrate_tsc discards a window in which either clock stood still,
\* calibrate one whose midpoints did not advance.
UsableTsc(w) == w.dc > 0 /\ w.da > 0 /\ w.db > 0
UsableCycle(w) == w.dc > 0 /\ w.da + w.db > 0

Ratio(w) == (2 * w.dc) \div (w.da + w.db)

\* The insertion sort of both.
Inserted(sorted, v) ==
    LET n == Count(sorted, LAMBDA r : r <= v) IN SubSeq(sorted, 1, n) \o <<v>> \o SubSeq(sorted, n + 1, Len(sorted))

\* The median of the usable windows; ticks_per_ns is kept doubled.
Calibrated(usable) ==
    LET ratio == FoldLeft(LAMBDA acc, w : Inserted(acc, Ratio(w)), <<>>, usable)
        good == Len(ratio)
    IN  IF good = 0 THEN [valid |-> FALSE, doubled |-> 0]
        ELSE [valid |-> TRUE, doubled |-> IF good % 2 = 1 THEN 2 * ratio[good \div 2 + 1] ELSE ratio[good \div 2] + ratio[good \div 2 + 1]]

calibrate_tsc(windows) == Calibrated(SelectSeq(windows, UsableTsc))
calibrate(windows) == Calibrated(SelectSeq(windows, UsableCycle))

MedianOf(windows, Usable(_), cal) ==
    LET good == {i \in DOMAIN windows : Usable(windows[i])}
        atMost == {i \in good : 2 * Ratio(windows[i]) <= cal.doubled}
        atLeast == {i \in good : 2 * Ratio(windows[i]) >= cal.doubled}
    IN  /\ cal.valid <=> good # {}
        /\ 2 * Cardinality(atMost) >= Cardinality(good) /\ 2 * Cardinality(atLeast) >= Cardinality(good)

\* Whichever windows are discarded, both calibrations report a median of the
\* usable ones, and report themselves valid exactly when there was one.
CalibrationMedian(windows) ==
    /\ MedianOf(windows, UsableTsc, calibrate_tsc(windows))
    /\ MedianOf(windows, UsableCycle, calibrate(windows))
=============================================================================
