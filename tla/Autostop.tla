------------------------------ MODULE Autostop ------------------------------
(* The Autostop plugin: criteria that look at each second the aggregator gives *)
(* and stop the test.                                                         *)
(*                                                                            *)
(* A criterion keeps a few numbers from second to second: the basic ones a    *)
(* count of the seconds in a row that were over their limit, the cumulative   *)
(* ones a window of values, http_trend the last differences.  The plugin asks *)
(* all of them at every second until one wants to stop; when several want it  *)
(* in the same second the last one of the configuration is the cause.         *)
(*                                                                            *)
(* A second is what the criteria read of it: for all responses and for those  *)
(* with the tag of the configuration a histogram of response times and the    *)
(* number of codes that match the mask, and the instances in use.  A tag that *)
(* no response had is a histogram of zeros.  Ratios are compared after        *)
(* multiplication, in integers, where the code compares floats.               *)
EXTENDS Integers, Sequences, FiniteSetsExt, SequencesExt, Functions

CONSTANTS Configs,     \* the lists of criteria the option autostop may hold
          Samples,     \* the seconds that may be measured
          MaxSeconds,  \* bound: seconds the criteria are asked about
          Clock        \* bound: the times since the start of the test that are met

VARIABLES criterions,       \* the criteria, in the order of the configuration
          mem,              \* what each keeps between two seconds
          cause_criterion,  \* the position of the cause of the stop, 0 for None
          imbalance,        \* the second whose rate is reported, 0 for none
          counting,         \* criteria the console shows
          retcode,          \* what is_test_finished answered last
          history           \* ghost: the seconds the criteria were asked about

autostopVars == <<criterions, mem, cause_criterion, imbalance, counting, retcode, history>>

Streaks == {"time", "http", "net", "quantile", "instances"}
Negative == {"negative_http", "negative_net"}
Windows == {"total_time", "total_http", "total_net"} \cup Negative
Types == Streaks \cup Windows \cup {"http_trend", "limit"}

Criterion == [type: Types, tag: BOOLEAN, relative: BOOLEAN, level: Nat,
              limit: Nat, seconds: Nat \ {0}]

(* http_trend over a single second raises an IndexError when it wants to stop: *)
(* its second_window is one shorter than its tangents.                        *)
ASSUME ConfigsAssumption ==
    /\ Configs \subseteq Seq(Criterion)
    /\ \A cfg \in Configs : \A i \in DOMAIN cfg :
         cfg[i].type = "http_trend" => cfg[i].seconds > 1
ASSUME BoundsAssumption == MaxSeconds \in Nat /\ Clock \subseteq Nat
-----------------------------------------------------------------------------
(* What a criterion reads of a second.                                        *)

Count(metric) == SumFunction(metric.hist)
Missing(c, d) == c.tag /\ Count(d.tagged) = 0
Metric(c, d) == IF c.tag /\ ~Missing(c, d) THEN d.tagged ELSE d.overall
Number(c, d) == Count(Metric(c, d))
Matched(c, d) == IF Missing(c, d) THEN 0 ELSE Metric(c, d).match

(* Response times are counted in units of a bin.                              *)
TotalTime(c, d) ==
    LET hist == Metric(c, d).hist
    IN IF Missing(c, d) THEN 0 ELSE MapThenSumSet(LAMBDA b : b * hist[b], DOMAIN hist)

(* The response time of number k from 0, in ascending order.                  *)
Ordered(hist, k) ==
    Min({b \in DOMAIN hist : SumFunctionOnSet(hist, {x \in DOMAIN hist : x <= b}) > k})

(* A percentile in hundredths of the unit, interpolated between the two        *)
(* response times next to it.  The aggregator computes only these.            *)
Percentiles == {50, 75, 80, 85, 90, 95, 98, 99, 100}

QuantileOf(hist, level) ==
    LET rank == level * (SumFunction(hist) - 1)
        low == Ordered(hist, rank \div 100)
    IN 100 * low + IF rank % 100 = 0 THEN 0
                   ELSE (rank % 100) * (Ordered(hist, rank \div 100 + 1) - low)

MeanExceeds(c, d) == TotalTime(c, d) > c.limit * Number(c, d)

CodesExceed(c, d) ==
    IF c.relative THEN 100 * Matched(c, d) >= c.level * Number(c, d)
                  ELSE Matched(c, d) >= c.level

QuantileExceeds(c, d) ==
    /\ ~Missing(c, d) /\ c.level \in Percentiles
    /\ QuantileOf(Metric(c, d).hist, c.level) > 100 * c.limit

InstancesExceed(c, d) == d.instances > c.level

Exceeds(c, d) ==
    \/ c.type = "time" /\ MeanExceeds(c, d)
    \/ c.type \in {"http", "net"} /\ CodesExceed(c, d)
    \/ c.type = "quantile" /\ QuantileExceeds(c, d)
    \/ c.type = "instances" /\ InstancesExceed(c, d)

(* Only the bins that are not empty are in a histogram, and the boundary is the *)
(* first of them whose upper edge is not below the limit.  If it is the first  *)
(* of all, every response counts as slow; else those beyond it do.  So they do *)
(* for a tag that is missing, with the histogram of all responses.             *)
Slow(c, d) ==
    LET hist == Metric(c, d).hist
        bins == {b \in DOMAIN hist : hist[b] > 0}
        above == {b \in bins : b >= c.limit}
    IN IF Missing(c, d) \/ above = bins THEN SumFunction(hist)
       ELSE SumFunctionOnSet(hist, IF above = {} THEN {} ELSE above \ {Min(above)})

(* The percentage of matching codes, or their number.  The samples are such    *)
(* that percentages are whole numbers.                                        *)
Share(c, d) == IF c.relative THEN (100 * Matched(c, d)) \div Number(c, d) ELSE Matched(c, d)
Whole(c, d) == IF c.relative THEN 100 ELSE Number(c, d)

(* What a second adds to a window.  total_time keeps two sums, of slow and of  *)
(* all responses, and compares their ratio with level: here one sum, compared *)
(* with 0.                                                                    *)
Value(c, d) ==
    CASE c.type = "total_time" -> 100 * Slow(c, d) - c.level * Number(c, d)
      [] c.type \in Negative -> Whole(c, d) - Share(c, d)
      [] OTHER -> Share(c, d)

Reached(c, values) ==
    SumFunction(values) >= IF c.type = "total_time" THEN 0
                           ELSE IF c.relative THEN c.level * Len(values)
                           ELSE c.level

(* The mean of the tangents plus its error is negative:                       *)
(* sum/n + sqrt(sum of (t - sum/n)^2 / n / (n-1)) < 0, and no error for n = 1. *)
Falls(tangents) ==
    LET n == Len(tangents)
        sum == SumFunction(tangents)
        squares == SumFunction([j \in 1..n |-> (n * tangents[j] - sum) * (n * tangents[j] - sum)])
    IN sum < 0 /\ (n = 1 \/ sum * sum * n * (n - 1) > squares)
-----------------------------------------------------------------------------
(* One second of one criterion: notify.                                       *)

Forget(c) == [count |-> 0, values |-> IF c.type = "http_trend" THEN <<0>> ELSE <<>>,
              last |-> 0, window |-> <<>>, cause |-> 0]

(* Drop the oldest when there are more than limit.                            *)
Trim(seq, limit) == IF Len(seq) > limit THEN Tail(seq) ELSE seq

\* Mutant: the count is not reset by a second within the limit.
StreakNeverReset(c, m, n, d) ==
    IF Exceeds(c, d)
    THEN [m EXCEPT !.count = @ + 1, !.cause = IF m.count = 0 THEN n ELSE @]
    ELSE m

StreakNotify(c, m, n, d) ==
    IF Exceeds(c, d)
    THEN [m EXCEPT !.count = @ + 1, !.cause = IF m.count = 0 THEN n ELSE @]
    ELSE [m EXCEPT !.count = 0]

(* total_time trims its list of seconds after the check only.                 *)
WindowNotify(c, m, n, d) ==
    LET values == Trim(Append(m.values, Value(c, d)), c.seconds)
        seconds == Append(m.window, n)
        window == Trim(seconds, c.seconds)
    IN IF Reached(c, values) /\ Len(values) >= c.seconds
       THEN [m EXCEPT !.values = values,
                      !.window = IF c.type = "total_time" THEN seconds ELSE window,
                      !.cause = IF c.type = "total_time" THEN Head(seconds) ELSE Head(window)]
       ELSE [m EXCEPT !.values = values, !.window = window]

TrendNotify(c, m, n, d) ==
    LET tangents == Append(m.values, Matched(c, d) - m.last)
        full == Len(tangents) > c.seconds
        seconds == Append(m.window, n)
        window == IF full THEN Tail(seconds) ELSE seconds
        values == IF full THEN Tail(tangents) ELSE tangents
    IN [m EXCEPT !.values = values, !.window = window, !.last = Matched(c, d),
                 !.cause = IF Falls(values) THEN Head(window) ELSE @]

Notify(c, m, n, d) ==
    CASE c.type \in Streaks -> StreakNotify(c, m, n, d)
      [] c.type \in Windows -> WindowNotify(c, m, n, d)
      [] c.type = "http_trend" -> TrendNotify(c, m, n, d)
      [] OTHER -> m

(* notify returned True: c with the memory m it has after the second d.       *)
Fires(c, m, d) ==
    \/ c.type \in Streaks /\ m.count > 0 /\ m.count >= c.seconds
    \/ c.type \in Windows /\ Reached(c, m.values) /\ Len(m.values) >= c.seconds
    \/ c.type = "http_trend" /\ Falls(m.values)
    \/ c.type = "limit" /\ d.now > c.seconds
-----------------------------------------------------------------------------
RC(c) ==
    CASE c.type \in {"time", "quantile", "limit"} -> 21
      [] c.type = "http" -> 22
      [] c.type = "net" -> 23
      [] c.type = "instances" -> 24
      [] c.type = "total_time" -> 25
      [] c.type = "total_http" -> 26
      [] c.type = "total_net" -> 27
      [] c.type = "negative_http" -> 28
      [] c.type = "negative_net" -> 29
      [] c.type = "http_trend" -> 30

AutostopInit ==
    /\ criterions \in Configs
    /\ mem = [i \in DOMAIN criterions |-> Forget(criterions[i])]
    /\ cause_criterion = 0
    /\ imbalance = 0
    /\ counting = {}
    /\ retcode = -1
    /\ history = <<>>

(* The last of a set of positions, 0 if there is none.                        *)
IsLast(i, positions) ==
    IF positions = {} THEN i = 0 ELSE i \in positions /\ \A j \in positions : j <= i

(* The rate that goes with the cause is the one of its second.  A cause that   *)
(* has none (limit) leaves the rate that a criterion before it may have set.   *)
Report(fired, m) ==
    LET rated == {i \in fired : m[i].cause # 0}
    IN /\ \E i \in fired \cup {0} : IsLast(i, fired) /\ cause_criterion' = i
       /\ \E i \in rated \cup {0} :
            IsLast(i, rated) /\ imbalance' = IF i = 0 THEN imbalance ELSE m[i].cause

(* on_aggregated_data, in the poll of the aggregator or in its end.           *)
OnAggregatedData(sample, now) ==
    LET d == [sample |-> sample, now |-> now]
        m == [i \in DOMAIN criterions |->
                Notify(criterions[i], mem[i], Len(history) + 1, sample)]
    IN /\ cause_criterion = 0
       /\ Len(history) < MaxSeconds
       /\ history # <<>> => history[Len(history)].now <= now
       /\ history' = Append(history, d)
       /\ mem' = m
       /\ Report({i \in DOMAIN criterions : Fires(criterions[i], m[i], d)}, m)
       /\ counting' = {i \in DOMAIN criterions : criterions[i].type \in Streaks /\ m[i].count > 0}
       /\ UNCHANGED <<criterions, retcode>>

(* With a cause the criteria are not asked again.                             *)
OnLaterData ==
    /\ cause_criterion # 0
    /\ counting' = {}
    /\ UNCHANGED <<criterions, mem, cause_criterion, imbalance, retcode, history>>

IsTestFinished ==
    /\ retcode' = IF cause_criterion = 0 THEN -1 ELSE RC(criterions[cause_criterion])
    /\ UNCHANGED <<criterions, mem, cause_criterion, imbalance, counting, history>>

AutostopNext ==
    \/ \E sample \in Samples, now \in Clock : OnAggregatedData(sample, now)
    \/ OnLaterData
    \/ IsTestFinished

AutostopSpec == AutostopInit /\ [][AutostopNext]_autostopVars
-----------------------------------------------------------------------------
(* The reference: what a criterion asks of all the seconds so far, without     *)
(* remembering anything.                                                      *)
Newest(seq, w) ==
    IF Len(seq) <= w THEN seq ELSE [j \in 1..w |-> seq[Len(seq) - w + j]]

Values(c, seconds) == [j \in 1..Len(seconds) |-> Value(c, seconds[j].sample)]

(* The differences of matching codes; there is one, 0, before the first second. *)
Tangents(c, seconds) ==
    [j \in 1..(Len(seconds) + 1) |->
        IF j = 1 THEN 0
        ELSE Matched(c, seconds[j - 1].sample)
               - IF j = 2 THEN 0 ELSE Matched(c, seconds[j - 2].sample)]

FirstOf(c, seconds) == Len(seconds) - c.seconds + 1

Asked(c, seconds) ==
    \/ /\ c.type \in Streaks
       /\ FirstOf(c, seconds) > 0
       /\ \A j \in FirstOf(c, seconds)..Len(seconds) : Exceeds(c, seconds[j].sample)
    \/ /\ c.type \in Windows
       /\ FirstOf(c, seconds) > 0
       /\ Reached(c, Newest(Values(c, seconds), c.seconds))
    \/ c.type = "http_trend" /\ Falls(Newest(Tangents(c, seconds), c.seconds))
    \/ c.type = "limit" /\ seconds[Len(seconds)].now > c.seconds

Asking(list, seconds) == {i \in DOMAIN list : Asked(list[i], seconds)}

(* The test is stopped at the first second at which some criterion asks for it *)
(* by the seconds alone, whatever was remembered of them, and the cause is the *)
(* last of those in the order of the configuration.                           *)
StopsExactly ==
    /\ history = <<>> => cause_criterion = 0
    /\ history # <<>> => IsLast(cause_criterion, Asking(criterions, history))
    /\ \A k \in 1..(Len(history) - 1) : Asking(criterions, SubSeq(history, 1, k)) = {}

(* The second whose rate is reported is the first of the interval of a         *)
(* criterion that asks for the stop.  total_time may take the one before it,   *)
(* and http_trend any of its seconds.                                          *)
Interval(c, seconds) ==
    IF c.type = "http_trend" THEN 1..Len(seconds)
    ELSE IF c.type = "total_time" THEN {FirstOf(c, seconds) - 1, FirstOf(c, seconds)}
    ELSE {FirstOf(c, seconds)}

RateOfInterval ==
    imbalance # 0 =>
        \E i \in Asking(criterions, history) : imbalance \in Interval(criterions[i], history)

\* The test stops exactly when the configuration asks for it, with the right
\* cause and the rate of the right second.  What a configuration asks is read as
\* the code compares: a count of codes is at its level or above (CodesExceed,
\* Reached), where docs and explain() say above; the property is about what is
\* remembered of the seconds, not about the comparison.
StopsAsAsked == StopsExactly /\ RateOfInterval
=============================================================================
