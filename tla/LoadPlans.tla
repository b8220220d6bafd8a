------------------------------ MODULE LoadPlans ------------------------------
(***************************************************************************)
(* Load plans (stepper/load_plan.py) and instance plans                    *)
(* (stepper/instance_plan.py): when each missile is to be fired.           *)
(*                                                                         *)
(* Rates are whole requests per second, times are milliseconds.  A step of *)
(* a schedule is a record [kind, from, to, by, dur]; what its text looks   *)
(* like is abstracted, and a time is the exact one, rounded down.          *)
(***************************************************************************)
EXTENDS Integers, SequencesExt

\* What a schedule may hold: the text of a number has no sign.
StepOf == [kind : {"const", "line", "step", "ramp", "wait", "start"}, from : Nat, to : Nat, by : Nat, dur : Nat]

Failed == [fails |-> TRUE, times |-> << >>, forever |-> FALSE, len |-> 0, dur |-> 0, seconds |-> << >>, instances |-> 0]
Steps(times, dur, seconds) == [Failed EXCEPT !.fails = FALSE, !.times = times, !.len = Len(times), !.dur = dur,
                                            !.seconds = seconds]

Const(rps, dur) ==
    Steps([n \in 1..(rps * dur) \div 1000 |-> ((n - 1) * 1000) \div rps], dur, << <<rps, dur \div 1000>> >>)

\* 2000 * dur times the load that a line has given by the time t.
Given(s, t) == 2 * s.from * s.dur * t + (s.to - s.from) * t * t

\* The last moment the first n charges are enough for: the second root, or
\* n / minrps of a flat line.
LineTs(s, n) == CHOOSE t \in 0..s.dur : /\ Given(s, t) <= 2000 * s.dur * n
                                        /\ t = s.dur \/ Given(s, t + 1) > 2000 * s.dur * n

\* The rate at every second, the last one included, to the nearest integer;
\* equal neighbours are one entry.
RpsAt(s, t) == (2 * (s.from * s.dur + (s.to - s.from) * t * 1000) + s.dur) \div (2 * s.dur)
Grouped(rates) ==
    FoldLeft(LAMBDA out, r : IF out # << >> /\ Last(out)[1] = r
                             THEN [out EXCEPT ![Len(out)][2] = @ + 1] ELSE Append(out, <<r, 1>>),
             << >>, rates)

Line(s) ==
    IF s.dur = 0 THEN Failed
    ELSE Steps([n \in 1..((s.from + s.to) * s.dur) \div 2000 |-> LineTs(s, n - 1)], s.dur,
              Grouped([t \in 1..(s.dur \div 1000) + 1 |-> RpsAt(s, t - 1)]))

\* Mutant: the second part starts at once.
NotMoved(a, b) ==
    IF a.fails \/ b.fails THEN Failed ELSE Steps(a.times \o b.times, a.dur + b.dur, a.seconds \o b.seconds)

\* One plan after the other: the times of the second one are moved.
Then(a, b) ==
    IF a.fails \/ b.fails THEN Failed
    ELSE Steps(a.times \o [n \in 1..Len(b.times) |-> b.times[n] + a.dur], a.dur + b.dur, a.seconds \o b.seconds)

Composite(plans) == FoldLeft(Then, Steps(<< >>, 0, << >>), plans)

\* Steps up or down; the last one is at the end rate even if it is smaller.
Stairway(s) ==
    IF s.by = 0 THEN Failed
    ELSE LET by == IF s.to < s.from THEN -s.by ELSE s.by
             n == (IF s.to < s.from THEN s.from - s.to ELSE s.to - s.from) \div s.by
             steps == [i \in 1..n + 1 |-> Const(s.from + (i - 1) * by, s.dur)]
         IN  Composite(IF s.from + n * by # s.to THEN Append(steps, Const(s.to, s.dur)) ELSE steps)

Produce(s) ==
    CASE s.kind = "const" -> Const(s.from, s.dur)
      [] s.kind = "line" -> Line(s)
      [] s.kind = "step" -> Stairway(s)
      [] OTHER -> Failed

\* create() of load_plan.py; a list of no steps has no first one.
RpsPlan(steps) == IF steps = << >> THEN Failed ELSE Composite([i \in 1..Len(steps) |-> Produce(steps[i])])

-----------------------------------------------------------------------------
\* LoadPlanBuilder: each method takes the plan built so far.
StartInstances(b, count) ==
    IF b.fails \/ count < 0 THEN Failed
    ELSE [b EXCEPT !.times = @ \o [i \in 1..count |-> b.dur], !.instances = @ + count]

Wait(b, dur) == IF b.fails THEN Failed ELSE [b EXCEPT !.dur = @ + dur]

\* One instance cannot be spread over time: the interval is dur / 0.
Ramp(b, count, dur) ==
    IF b.fails \/ count < 0 \/ count = 1 THEN Failed
    ELSE [b EXCEPT !.times = @ \o [i \in 1..count |-> b.dur + ((i - 1) * dur) \div (count - 1)],
                   !.instances = @ + count, !.dur = @ + dur]

ConstInstances(b, s) == Wait(StartInstances(b, s.to - b.instances), s.dur)
LineInstances(b, s) == Ramp(StartInstances(b, s.from - b.instances - 1), s.to - s.from + 1, s.dur)

StairwayInstances(b, s) ==
    IF s.by = 0 THEN Failed
    ELSE LET up == [i \in 1..((s.to - s.from) \div s.by) |-> s.by]
             climbed == FoldLeft(LAMBDA c, n : StartInstances(Wait(c, s.dur), n),
                                 StartInstances(b, s.from - b.instances), up)
             rest == s.to - climbed.instances
         IN  Wait(IF rest # 0 THEN StartInstances(Wait(climbed, s.dur), rest) ELSE climbed, s.dur)

\* A start step of a schedule fails: its count is parsed as a tuple.
AddStep(b, s) ==
    CASE s.kind = "const" -> ConstInstances(b, s)
      [] s.kind = "line" -> LineInstances(b, s)
      [] s.kind = "step" -> StairwayInstances(b, s)
      [] s.kind = "ramp" -> Ramp(b, s.to, s.dur)
      [] s.kind = "wait" -> Wait(b, s.dur)
      [] OTHER -> Failed

\* create() of instance_plan.py: zeros for ever when all instances started;
\* the duration that is published is 0.
InstancesPlan(steps) ==
    LET b == FoldLeft(AddStep, Steps(<< >>, 0, << >>), steps)
    IN  IF b.fails THEN Failed ELSE [b EXCEPT !.forever = TRUE, !.len = -1, !.dur = 0]
=============================================================================
