----------------------------- MODULE EvalStatistics ----------------------------
(***************************************************************************)
(* The statistics of the evaluation dashboard over a growing list of       *)
(* records, for one metric (src/evaluation/aggregator.py).  Scores are     *)
(* counted in steps of 1 / Top; a record may have no score.  A mean is     *)
(* kept as a sum and a count.                                              *)
(***************************************************************************)
EXTENDS Integers, Sequences, FiniteSets, SequencesExt, Lists

CONSTANTS
  Top,           \* the score 1.0
  Scores,        \* scores considered, NotScored for none
  Times,         \* evaluated_at of the records considered
  Today,         \* the time of the request
  Window,        \* window_sec
  Bucket,        \* bucket_sec
  Bins,          \* bins of the histogram
  OutlierLimit,  \* limit of outliers()
  MaxRecords     \* bound: records in the log

NotScored == -1

ASSUME StatisticsAssumption ==
  /\ Top \in Nat \ {0} /\ Scores \subseteq {NotScored} \cup 0..(2 * Top)
  /\ Times \subseteq Nat /\ Today \in Nat /\ MaxRecords \in Nat
  /\ Window \in Nat \ {0} /\ Bucket \in Nat \ {0} /\ Bins \in Nat \ {0} /\ OutlierLimit \in Nat

VARIABLE evalLog   \* the log, oldest first

EvalRecord == [score : Scores, at : Times]

StatisticsTypeOK == evalLog \in Seq(EvalRecord) /\ Len(evalLog) <= MaxRecords

StatisticsInit == evalLog = <<>>

\* The log grows; records of imported batches may be older than their
\* predecessors.
AppendRecord ==
  /\ Len(evalLog) < MaxRecords
  /\ \E s \in Scores, t \in Times : evalLog' = Append(evalLog, [score |-> s, at |-> t])

StatisticsNext == AppendRecord

StatisticsSpec == StatisticsInit /\ [][StatisticsNext]_evalLog

-----------------------------------------------------------------------------

\* The scores of the records that have one.
ScoresOf(rs) == [i \in DOMAIN rs |-> rs[i].score]
WithScore(rs) == Those(rs, {r \in EvalRecord : r.score # NotScored})
ValuesFor(rs) == ScoresOf(WithScore(rs))

LeastOf(m, n) == IF m < n THEN m ELSE n

\* Positions count from 0 in the code.
Summary(rs) ==
  LET v == ValuesFor(rs) s == SortedBy(v, v) n == Len(v) IN
    IF n = 0 THEN [count |-> 0, sum |-> 0, median |-> 0, p10 |-> 0, p90 |-> 0]
    ELSE [count |-> n, sum |-> Added(v), median |-> s[n \div 2 + 1],
          p10 |-> s[n \div 10 + 1], p90 |-> s[LeastOf(n - 1, (9 * n) \div 10) + 1]]

Since(t) == {r \in EvalRecord : r.at >= t}

WindowedSummary(rs, w) == Summary(Those(rs, Since(Today - w)))

CurrentWindow(rs) == Those(rs, Since(Today - Window))

PreviousWindow(rs) == Those(rs, Since(Today - 2 * Window) \ Since(Today - Window))

\* The difference of the means, as a fraction; 0 when a window has no score.
TrendDelta(rs) ==
  LET c == ValuesFor(CurrentWindow(rs)) p == ValuesFor(PreviousWindow(rs)) IN
    IF c = <<>> \/ p = <<>> THEN [num |-> 0, den |-> 1]
    ELSE [num |-> Added(c) * Len(p) - Added(p) * Len(c), den |-> Len(c) * Len(p)]

\* Mutant: a bucket is named after its end.
BucketOfEnd(t) == ((t + Bucket - 1) \div Bucket) * Bucket

BucketOf(t) == (t \div Bucket) * Bucket

InBucket(rs, b) == ValuesFor(Those(rs, {r \in EvalRecord : BucketOf(r.at) = b}))

\* bucket -> what it holds; buckets without a score are left out.
TimeSeries(rs) ==
  [b \in {BucketOf(r.at) : r \in ToSet(WithScore(rs))} |->
     [sum |-> Added(InBucket(rs, b)), n |-> Len(InBucket(rs, b))]]

\* Scores above 1.0 count as 1.0, which lies in the last bin.
BinOf(v) == LeastOf((LeastOf(v, Top) * Bins) \div Top, Bins - 1)

\* The counts, from the lowest bin.
Histogram(rs) ==
  [n \in 1..Bins |-> Len(Those(ValuesFor(rs), {v \in Scores : BinOf(v) = n - 1}))]

\* The worst records below a bound.
Outliers(rs, lt) ==
  LET out == Those(rs, {r \in EvalRecord : r.score # NotScored /\ r.score < lt})
      s == SortedBy(out, ScoresOf(out)) IN
    SubSeq(s, 1, LeastOf(OutlierLimit, Len(s)))

-----------------------------------------------------------------------------

\* Whatever the order of the log and the window asked for, the lower percentile
\* is not above the median, nor the median above the upper one, and all are
\* scores of the window.
PercentilesAreOrdered ==
  \A w \in {Window, 2 * Window, Today} :
    LET s == WindowedSummary(evalLog, w)
        values == ValuesFor(Those(evalLog, Since(Today - w)))
    IN  /\ s.p10 <= s.median /\ s.median <= s.p90
        /\ s.count > 0 => {s.p10, s.median, s.p90} \subseteq ToSet(values)

\* The two windows of a trend share no record and leave none between them, so
\* records at the boundary count once, and a log without a change of quality has
\* no trend.
TrendsCompareTwoWindows ==
  LET recent == Those(evalLog, Since(Today - 2 * Window)) IN
    /\ Len(CurrentWindow(evalLog)) + Len(PreviousWindow(evalLog)) = Len(recent)
    /\ Cardinality(ToSet(ValuesFor(recent))) = 1 => TrendDelta(evalLog).num = 0

\* The series and the histogram account for every score exactly once, those at
\* the boundaries of buckets and bins and those out of range included, and a
\* bucket is named after its start.
EveryScoreIsCountedOnce ==
  LET n == Len(ValuesFor(evalLog))
      series == TimeSeries(evalLog)
      points == SetToSeq(DOMAIN series) IN
    /\ Added([i \in DOMAIN points |-> series[points[i]].n]) = n
    /\ Added(Histogram(evalLog)) = n
    /\ \A r \in ToSet(WithScore(evalLog)) :
         \E b \in DOMAIN series : b <= r.at /\ r.at < b + Bucket

\* No record left out of the list of outliers is worse than one in it.
OutliersAreTheWorst ==
  LET out == Outliers(evalLog, Top) IN
    \A i \in DOMAIN evalLog :
      \/ evalLog[i].score \in {NotScored} \cup Top..(2 * Top)
      \/ evalLog[i] \in ToSet(out)
      \/ \A j \in DOMAIN out : out[j].score <= evalLog[i].score

\* The dashboards account for the log: each score counts once in a series, a
\* histogram and the windows of a trend, and percentiles and outliers are those
\* of the scores, whatever their order.
DashboardsAccountForTheLog ==
  /\ StatisticsTypeOK
  /\ EveryScoreIsCountedOnce /\ TrendsCompareTwoWindows
  /\ PercentilesAreOrdered /\ OutliersAreTheWorst
=============================================================================
