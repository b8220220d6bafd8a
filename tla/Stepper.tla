------------------------------- MODULE Stepper -------------------------------
(***************************************************************************)
(* The stepper (stepper/config.py, main.py, missile.py, info.py, mark.py,  *)
(* format.py): a run reads its ammo file line by line, again and again,    *)
(* pairs every missile that is wanted with the next moment of the load     *)
(* plan and writes it to the stepped (stpd) file, until the plan or a      *)
(* limit ends it.                                                          *)
(*                                                                         *)
(* A line is [t, m]: what it is and the marker it names.  A missile is the *)
(* numbers of the lines it was made of and of the headers in force.        *)
(***************************************************************************)
EXTENDS Resources, LoadPlans

CONSTANT MostMissiles   \* that a stepped file may have

None == -1

\* What a line is to a reader of each type.  Lines and cases of any kind are
\* missiles; UriStyleGenerator goes round its uris as a reader of a file does.
Yielding(reader, l) ==
    \/ reader \in {"line", "caseline", "uris"}
    \/ reader \in {"phantom", "uri", "access"} /\ l.t = "ammo"
    \/ reader = "uripost" /\ l.t \in {"ammo", "zero"}
Chunked(reader) == reader \in {"phantom", "uripost"}
Marker(reader, l) == IF reader \in {"phantom", "uri", "uripost", "caseline"} THEN l.m ELSE ""

\* max_ammo: None when neither the plan nor a limit says how much.
MaxAmmo(limit, len) ==
    IF limit # None /\ len # None THEN Min({limit, len})
    ELSE IF limit \notin {None, 0} THEN limit ELSE len

\* ComponentFactory: -1 is no limit; without load and limits there is one
\* loop; uris and loops give the limit of ammo.
Rps(o) == o.load = "rps" /\ o.steps # << >>
LoopLimit == IF opt.loop = None /\ opt.ammo = None /\ ~Rps(opt) THEN 1 ELSE opt.loop
AmmoLimit == IF opt.source = "uris" /\ LoopLimit \notin {None, 0} THEN Len(opt.file) * LoopLimit ELSE opt.ammo
Plan(o) == IF Rps(o) THEN RpsPlan(o.steps) ELSE InstancesPlan(o.steps)

\* ammo_type: what does not begin with a digit is not of type phantom.
Detected == IF opt.source = "uris" THEN "uris"
            ELSE IF opt.type = "phantom" /\ opt.format # "phantom" THEN "uri" ELSE opt.type

NewStepper(s) == [s EXCEPT !.limit = AmmoLimit, !.pos = 0, !.loops = 0, !.ammo = 0,
                           !.headers = {}, !.request = FALSE, !.number = 0, !.first = FALSE]

-----------------------------------------------------------------------------
Moment(s, n) == IF n <= Len(opt.plan.times) THEN opt.plan.times[n] ELSE 0
PlanOver(s) == ~opt.plan.forever /\ s.ammo = Len(opt.plan.times)

LoopsOver(s) == LoopLimit \notin {None, 0} /\ s.loops + 1 >= LoopLimit

\* The end of a pass: the reader counts it and goes back to the start.
PassOver(s) == s.pos = Len(Content(s.src)) \/ (Detected = "phantom" /\ Content(s.src)[s.pos + 1].t = "zero")

\* A pass is counted, up to two when there is no limit; the one that reaches
\* the limit of loops is the last.
Passes(n) == IF LoopLimit \in {None, 0} THEN Min({n + 1, 2}) ELSE n + 1
NextPass(s) == [s EXCEPT !.pos = 0, !.loops = Passes(@), !.pc = IF LoopsOver(s) THEN "info" ELSE @]

\* A file of chunks without one, but perhaps headers, is not read again.
NoChunks(s) == Chunked(Detected) /\ \A i \in DOMAIN Content(s.src) : Content(s.src)[i].t = "header"

\* Mutant: the passes are not counted.
RewindUncounted(s) ==
    IF NoChunks(s) THEN [s EXCEPT !.pc = "info"]
    ELSE IF Detected = "uri" /\ s.ammo = 0 THEN [s EXCEPT !.pc = "failed"] ELSE [s EXCEPT !.pos = 0]

Rewind(s) ==
    IF NoChunks(s) THEN [s EXCEPT !.pc = "info"]
    ELSE IF Detected = "uri" /\ s.ammo = 0 THEN [s EXCEPT !.pc = "failed"]
    ELSE NextPass(s)

\* AmmoFactory: a marker of its own, or one made for it, and numbered when
\* ammo is enumerated, whether or not it is wanted.
Marked(m) == IF m # "" THEN m ELSE IF opt.enum THEN "#" ELSE opt.auto
Chosen(m) == opt.cases = {} \/ m \in opt.cases

\* The markers "uri" and "uniq" and the requests of a slow log are text, not
\* bytes: the one cannot be numbered, the other not be marked by its uri, and
\* neither can be written.
Unmarkable(m) ==
    /\ m = ""
    /\ \/ opt.enum /\ opt.auto \in {"uri", "uniq"}
       \/ Detected = "slowlog" /\ opt.auto \notin {"", "uniq"}
Text(marker) == Detected = "slowlog" \/ marker \in {"uri", "uniq"}

LimitPassed(s, n) == s.limit \notin {None, 0} /\ n > s.limit

\* Stepper.write after the missile was written: ammo_count first, then the
\* check, once, that all of the file will fit, after the first pass; it fails
\* when nothing but the loops limits the ammo and they are not limited.
Counted(s) ==
    LET n == s.ammo + 1
        max == MaxAmmo(s.limit, opt.plan.len)
        limit == IF max = None THEN LoopLimit * n ELSE s.limit
        most == MaxAmmo(limit, opt.plan.len)
    IN  IF max = 0 THEN [s EXCEPT !.pc = "failed"]   \* progress is a fraction of it
        ELSE IF LimitPassed(s, n) THEN [s EXCEPT !.ammo = n, !.pc = "info"]
        ELSE IF s.first \/ s.loops # 1 THEN [s EXCEPT !.ammo = n]
        ELSE IF max = None /\ LoopLimit \in {None, 0} THEN [s EXCEPT !.ammo = n, !.pc = "failed"]
        ELSE [s EXCEPT !.ammo = n, !.first = TRUE, !.limit = limit,
                       !.pc = IF opt.space < most - n THEN "failed" ELSE @]

Missile(s, lines) == [version |-> s.src.v, lines |-> lines, headers |-> s.headers]

\* An entry of the stepped file.
Entry(s, marker, lines) == [time |-> Moment(s, s.ammo + 1), marker |-> marker, missile |-> Missile(s, lines),
                            number |-> IF marker = "#" THEN s.number ELSE 0]

\* One missile of a pass: numbered and written if it is wanted.
Shot(s, m, lines) ==
    LET marker == Marked(m)
        numbered == IF marker = "#" THEN [s EXCEPT !.number = @ + 1] ELSE s
    IN  IF Unmarkable(m) THEN [s EXCEPT !.pc = "failed"]
        ELSE IF ~Chosen(marker) THEN numbered
        ELSE IF Text(marker) THEN [s EXCEPT !.pc = "failed"]
        ELSE [Counted(numbered) EXCEPT !.out = Append(@, Entry(s, marker, lines))]

\* A line of a slow log belongs to the request that the next "#" ends, be it of
\* the next pass.
SlowLog(s, line) ==
    IF line.t # "#" THEN [s EXCEPT !.request = TRUE]
    ELSE IF ~s.request THEN s ELSE Shot([s EXCEPT !.request = FALSE], "", << >>)

\* One line of the file.
Read(s) ==
    LET line == Content(s.src)[s.pos + 1]
        next == [s EXCEPT !.pos = @ + 1]
    IN  IF Yielding(Detected, line) THEN Shot(next, Marker(Detected, line), <<next.pos>>)
        ELSE IF Detected = "slowlog" THEN SlowLog(next, line)
        ELSE IF Detected \in {"uri", "uripost"} /\ line.t = "header" THEN [next EXCEPT !.headers = @ \cup {next.pos}]
        ELSE IF Chunked(Detected) THEN [next EXCEPT !.pc = "failed"]
        ELSE next

\* zip() asks the plan first, then the reader for a missile.
Stepped(s) == IF PlanOver(s) THEN [s EXCEPT !.pc = "info"] ELSE IF PassOver(s) THEN Rewind(s) ELSE Read(s)

-----------------------------------------------------------------------------
\* What the stepped file is to be: the missiles of a pass that are wanted, over
\* and over, at the moments of the plan, as many as plan and limits allow; the
\* ammo limit is passed by one missile.  No request of a slow log is written.
Pass(reader) ==
    LET lines == [i \in 1..Len(opt.file) |-> <<i>>]
        Wants(l) == LET line == opt.file[l[1]]
                    IN  /\ Yielding(reader, line) /\ Chosen(Marked(Marker(reader, line)))
                        /\ reader = "phantom" => \A j \in 1..l[1] : opt.file[j].t # "zero"
    IN  SelectSeq(lines, Wants)

Enough(plan, n, k) ==
    \/ ~plan.forever /\ k = Len(plan.times)
    \/ LoopLimit > 0 /\ k = LoopLimit * n
    \/ opt.ammo > 0 /\ k = opt.ammo + 1
Amount(plan, n) == IF n = 0 THEN 0 ELSE Min({k \in 0..MostMissiles : Enough(plan, n, k)})

\* Headers stay in force in the passes that follow.
HeadersAt(reader, i, first) ==
    {h \in 1..Len(opt.file) : reader \in {"uri", "uripost"} /\ opt.file[h].t = "header" /\ (h < i \/ ~first)}

Expected(reader, plan, v) ==
    LET pass == Pass(reader)
        n == Len(pass)
        At(k) == pass[((k - 1) % n) + 1]
        Named(k) == Marked(Marker(reader, opt.file[At(k)[1]]))
    IN  [k \in 1..Amount(plan, n) |->
            [time |-> IF k <= Len(plan.times) THEN plan.times[k] ELSE 0, marker |-> Named(k),
             number |-> IF Named(k) = "#" THEN Cardinality({j \in 1..k - 1 : Named(j) = "#"}) ELSE 0,
             missile |-> [version |-> v, lines |-> At(k), headers |-> HeadersAt(reader, At(k)[1], k <= n)]]]

\* What a step of a schedule is to give and how long it takes: the rates that
\* a stairway goes through are its ends and what lies between at its distance.
Rates(s) == {s.to} \cup {q \in Min({s.from, s.to})..Max({s.from, s.to}) :
                            (IF q < s.from THEN s.from - q ELSE q - s.from) % s.by = 0}
StepLoad(s) ==
    CASE s.kind = "const" -> s.from * s.dur
      [] s.kind = "line" -> ((s.from + s.to) * s.dur) \div 2
      [] OTHER -> s.dur * FoldSet(LAMBDA q, sum : q + sum, 0, Rates(s))
RateCount(s) == IF s.kind = "step" THEN Cardinality(Rates(s)) ELSE 1
StepTime(s) == s.dur * RateCount(s)

Sum(numbers) == FoldLeft(LAMBDA sum, n : sum + n, 0, numbers)
LoadOf(steps) == Sum([i \in 1..Len(steps) |-> StepLoad(steps[i])])
TimeOf(steps) == Sum([i \in 1..Len(steps) |-> StepTime(steps[i])])
RatesOf(steps) == Sum([i \in 1..Len(steps) |-> RateCount(steps[i])])
Instances(steps) ==
    FoldLeft(LAMBDA n, s : CASE s.kind = "wait" -> n [] s.kind = "ramp" -> n + s.to [] OTHER -> s.to, 0, steps)

\* Moments ascend; a plan of rates gives each step of the schedule its load in
\* the time of that step, less at most one missile for every rate it has; a
\* plan of instances starts as many as its steps lead to.
PlanIsLoad(plan, steps) ==
    LET Before(t) == Cardinality({i \in 1..Len(plan.times) : plan.times[i] < t})
    IN  /\ \A i \in 1..Len(plan.times) - 1 : plan.times[i] <= plan.times[i + 1]
        /\ plan.forever => Len(plan.times) = Instances(steps) /\ plan.instances = Instances(steps)
        /\ ~plan.forever =>
             /\ plan.len = Len(plan.times) /\ plan.dur = TimeOf(steps)
             /\ \A j \in 0..Len(steps) :
                  LET done == SubSeq(steps, 1, j)
                      short == LoadOf(done) - 1000 * Before(TimeOf(done))
                  IN  short \in 0..1000 * RatesOf(done)
=============================================================================
