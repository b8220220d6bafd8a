----------------------------- MODULE Generators -----------------------------
(***************************************************************************)
(* A test and its load generator: the process that shoots, the plugin of   *)
(* Phantom, Pandora, JMeter or ShootExec that starts, polls and stops it,  *)
(* the threads that read its files, and the tank that calls the plugins    *)
(* stage by stage (core/tankcore.py, aggregator/tank_aggregator.py), among *)
(* them ShellExec, ResourceCheck and RCAssert.                             *)
(*                                                                         *)
(* An option has: gen; conf, what GeneratorConfig made of the settings;    *)
(* old, a file of results that was there before; given, it is the file of  *)
(* the option phout_file; engine, "ok", "missing" or "rejects" the         *)
(* configuration; rc, the code of a process that ends by itself; deaf, it  *)
(* does not end when it is told to; child, ShootExec's shell has started   *)
(* what writes; silent, it writes nothing to stderr; port, JMeter tells    *)
(* its UDP port; statsPath; poll and end, the codes of the commands of     *)
(* ShellExec; low, the resources run out; pass and fail, the options of    *)
(* RCAssert; and two bounds, halves, of the lines the generator writes,    *)
(* and seconds, of its statistics.                                         *)
(***************************************************************************)
EXTENDS GeneratorConfig, ResultFiles

CONSTANT Options

GeneratorsAssumption ==
    /\ Chunk \in Nat \ {0}
    /\ \A o \in Options : /\ o.gen \in {"phantom", "pandora", "jmeter", "shootexec"}
                          /\ {o.rc, o.poll, o.end, o.fail} \subseteq Int /\ o.pass \in SUBSET Int
                          /\ {o.halves, o.seconds} \subseteq Nat /\ {o.old, o.given, o.port, o.child} \subseteq BOOLEAN
                          /\ o.child => o.gen = "shootexec"
                          /\ o.old => o.given \/ o.gen \in {"pandora", "shootexec"}   \* the others' are new

ASSUME GeneratorsAssumption

\* What is told of Phantom's streams is made of them; steps are whole rates and
\* seconds, as the stepper writes them.
PhantomAssumption ==
    \A o \in Options : o.gen = "phantom" /\ o.conf.ok =>
        LET streams == o.conf.streams IN
        /\ streams \in Seq(ToSet(streams)) /\ o.conf.info = GetInfo(streams)
        /\ \A s \in ToSet(streams) : /\ s.plan.steps \in Seq(Nat \X Nat)
                                     /\ {s.plan.ammo, s.plan.duration, Instances(s)} \subseteq Nat

ASSUME PhantomAssumption

VARIABLES
    tank,  \* see Init
    proc   \* the process of the generator

vars == <<opt, tank, proc, files>>

Init ==
    /\ opt \in Options
    /\ OutInit
    /\ tank = [stage |-> "configure", \* configure, prepare, start, poll, end, udp, kill, close, join, after, post, done; failed, stuck
               turn |-> 1,            \* the plugin that is polled next
               port |-> FALSE,        \* jmeter_udp_port is known
               rc |-> 0, first |-> 0] \* the code; the code that ended the test (history)
    /\ proc = [pc |-> "none",         \* none, runs, told, gone
               rc |-> 0,
               child |-> FALSE]       \* what ShootExec's shell had started goes on without it

Stage(s) == tank' = [tank EXCEPT !.stage = s]
To(s, code) == tank' = [tank EXCEPT !.stage = s, !.rc = code]
Ended(code) == tank' = [tank EXCEPT !.stage = "end", !.rc = code, !.first = code]

-----------------------------------------------------------------------------
(***************************************************************************)
(* The process of the generator                                            *)
(***************************************************************************)

Alive == proc.pc \in {"runs", "told"}

Writing == Alive \/ proc.child

WriteResults ==
    /\ Writing /\ out.written < opt.halves
    /\ out' = [text |-> Append(out.text, out.written + 1), written |-> out.written + 1]
    /\ UNCHANGED <<opt, tank, proc, finished, reader, stat>>

WriteStats ==
    /\ Writing /\ StatsKind \in {"blocks", "lines"} /\ stat.out < 2 * opt.seconds
    /\ stat' = [stat EXCEPT !.out = @ + 1]
    /\ UNCHANGED <<opt, tank, proc, finished, out, reader>>

\* A process that was told to stop may do so with any code; nothing asks for it.
\* A signal reaches ShootExec's shell, not what it started.
Exit ==
    /\ Alive /\ (proc.pc = "told" => ~opt.deaf)
    /\ proc' = [pc |-> "gone", rc |-> opt.rc, child |-> opt.child /\ proc.pc = "told"]
    /\ UNCHANGED <<opt, tank, files>>

ChildEnds ==
    /\ proc.child
    /\ proc' = [proc EXCEPT !.child = FALSE]
    /\ UNCHANGED <<opt, tank, files>>

Process == WriteResults \/ WriteStats \/ Exit \/ ChildEnds

-----------------------------------------------------------------------------
(***************************************************************************)
(* Before the test                                                         *)
(***************************************************************************)

\* Phantom and JMeter make their files when they are configured.
Configure ==
    /\ tank.stage = "configure"
    /\ Stage(IF opt.gen \in {"phantom", "jmeter"} /\ ~opt.conf.ok THEN "failed" ELSE "prepare")
    /\ UNCHANGED <<opt, proc, files>>

\* ResourceCheck looks at the disk and the memory.
EnoughResources == ~opt.low

\* Phantom checks its configuration with the binary, and then wants ammo; Pandora
\* fetches its resources; JMeter and ShootExec have nothing that fails.
PhantomReady == opt.engine = "ok" /\ opt.conf.info.ammo # 0

Ready ==
    /\ EnoughResources
    /\ opt.gen = "phantom" => PhantomReady
    /\ opt.gen = "pandora" => opt.conf.ok

\* A file of results is emptied, by Pandora when it is prepared.
Emptied == out' = [out EXCEPT !.text = << >>]

\* The first plugin that raises is the last.
Prepare ==
    /\ tank.stage = "prepare"
    /\ Stage(IF Ready THEN "start" ELSE "failed")
    /\ IF Ready /\ opt.gen = "pandora" THEN Emptied ELSE UNCHANGED out
    /\ UNCHANGED <<opt, proc, finished, reader, stat>>

\* A binary that is not there raises, and ends the test with code 1.
Run == proc' = [proc EXCEPT !.pc = "runs"]
StartPhantom == IF opt.engine = "missing" THEN Ended(1) /\ UNCHANGED proc ELSE Stage("poll") /\ Run
StartPandora == IF opt.engine = "missing" THEN Ended(1) /\ UNCHANGED proc ELSE Stage("poll") /\ Run

\* The UDP port is looked for in the first lines of the log.
StartJMeter ==
    IF opt.engine = "missing" THEN Ended(1) /\ UNCHANGED proc
    ELSE tank' = [tank EXCEPT !.stage = "poll", !.port = opt.port] /\ Run

\* A shell is there.
StartShootExec == Stage("poll") /\ Run

\* ShootExec empties its file when the reader is made.
GetReader == IF opt.gen = "shootexec" THEN Emptied ELSE UNCHANGED out

\* The aggregator gets its readers and the drains begin; then the generator starts.
Start ==
    /\ tank.stage = "start"
    /\ GetReader
    /\ reader' = [reader EXCEPT !.pc = "read"]
    /\ stat' = [stat EXCEPT !.pc = "read"]
    /\ CASE opt.gen = "phantom"   -> StartPhantom
         [] opt.gen = "pandora"   -> StartPandora
         [] opt.gen = "jmeter"    -> StartJMeter
         [] opt.gen = "shootexec" -> StartShootExec
    /\ UNCHANGED <<opt, finished>>

\* The test is stopped before it starts: nothing is, and there is no reader.
StoppedEarly ==
    /\ tank.stage = "start"
    /\ Ended(1)
    /\ UNCHANGED <<opt, proc, files>>

-----------------------------------------------------------------------------
(***************************************************************************)
(* The plugins are polled in turns                                         *)
(***************************************************************************)

Plugins == <<"generator", "shell", "resources">>

\* Mutant: the code of a process that a signal ended is given as it is.
Signed(n) == n

Abs(n) == IF n < 0 THEN -n ELSE n

\* A positive code, or 0, ends the test; any other does not.
Answered(code) ==
    IF code >= 0 THEN tank' = [tank EXCEPT !.stage = "end", !.rc = code, !.first = code]
    ELSE tank' = [tank EXCEPT !.turn = 2]

\* tail_lines never returns when the log is empty, and a process that failed
\* without a word has an empty one.
TailHangs == opt.gen \in {"pandora", "shootexec"} /\ proc.rc # 0 /\ opt.silent

\* The event is set when the process is seen to be gone; ShootExec reads the log
\* before, Pandora after.
PollPhantom ==
    IF proc.pc # "gone" THEN Answered(-1) /\ UNCHANGED finished
    ELSE Answered(Abs(proc.rc)) /\ finished' = TRUE

PollPandora ==
    IF proc.pc # "gone" THEN Answered(-1) /\ UNCHANGED finished
    ELSE /\ finished' = TRUE
         /\ IF TailHangs THEN Stage("stuck") ELSE Answered(Abs(proc.rc))

PollShootExec ==
    IF proc.pc # "gone" THEN Answered(-1) /\ UNCHANGED finished
    ELSE IF TailHangs THEN Stage("stuck") /\ UNCHANGED finished
    ELSE Answered(Abs(proc.rc)) /\ finished' = TRUE

\* JMeter is over when its reader has had the time to find nothing; its code is
\* given as it is, negative if a signal ended it.
PollJMeter ==
    /\ finished' = (finished \/ proc.pc = "gone")
    /\ IF finished /\ reader.agg THEN Answered(proc.rc) /\ reader' = [reader EXCEPT !.closed = TRUE]
       ELSE Answered(-1) /\ UNCHANGED reader

PollGenerator ==
    /\ tank.stage = "poll" /\ Plugins[tank.turn] = "generator"
    /\ \/ opt.gen = "phantom" /\ PollPhantom /\ UNCHANGED reader
       \/ opt.gen = "pandora" /\ PollPandora /\ UNCHANGED reader
       \/ opt.gen = "shootexec" /\ PollShootExec /\ UNCHANGED reader
       \/ opt.gen = "jmeter" /\ PollJMeter
    /\ UNCHANGED <<opt, proc, out, stat>>

NextTurn == tank' = [tank EXCEPT !.turn = (@ % Len(Plugins)) + 1]

\* The poll command: its code ends the test unless it is 0 or negative.
PollShell ==
    /\ tank.stage = "poll" /\ Plugins[tank.turn] = "shell"
    /\ \E code \in {0, opt.poll} : IF code > 0 THEN Ended(code) ELSE NextTurn
    /\ UNCHANGED <<opt, proc, files>>

\* ResourceCheck raises when something is short: then it is polled no more, and the
\* test goes on.
PollResources ==
    /\ tank.stage = "poll" /\ Plugins[tank.turn] = "resources"
    /\ NextTurn
    /\ UNCHANGED <<opt, proc, files>>

\* Somebody stops the test: wait_for_finish returns 1.
Interrupted ==
    /\ tank.stage = "poll"
    /\ Ended(1)
    /\ UNCHANGED <<opt, proc, files>>

-----------------------------------------------------------------------------
(***************************************************************************)
(* The test ends: the generator first                                      *)
(***************************************************************************)

Told == proc' = IF proc.pc = "runs" THEN [proc EXCEPT !.pc = "told"] ELSE proc

\* Mutant: Phantom's files are closed at once.
EndPhantomAtOnce ==
    /\ Told
    /\ finished' = TRUE
    /\ Stage("close")
    /\ UNCHANGED reader

\* communicate() waits for a process that was terminated.
EndPhantom ==
    /\ Told
    /\ finished' = ~Alive
    /\ IF Alive THEN UNCHANGED tank ELSE Stage("close")
    /\ UNCHANGED reader

\* Pandora is not waited for.
EndPandora ==
    /\ Told
    /\ finished' = TRUE
    /\ Stage("close")
    /\ UNCHANGED reader

\* ShootExec is terminated again and again, and killed at last.
EndShootExec ==
    /\ Told
    /\ finished' = ~Alive
    /\ Stage(IF Alive THEN "kill" ELSE "close")
    /\ UNCHANGED reader

\* JMeter is asked by UDP, if it told its port, before its group is terminated;
\* without a reader, its close raises, out of Finish: no other plugin is ended, and
\* none gets the code.
EndJMeter ==
    /\ UNCHANGED finished
    /\ IF reader.pc = "none" THEN To("done", 1) /\ UNCHANGED <<proc, reader>>
       ELSE /\ Told
            /\ IF tank.port /\ Alive THEN Stage("udp") /\ UNCHANGED reader
               ELSE Stage("close") /\ reader' = [reader EXCEPT !.closed = TRUE]

EndGenerator ==
    /\ tank.stage = "end"
    /\ CASE opt.gen = "phantom"   -> EndPhantom
         [] opt.gen = "pandora"   -> EndPandora
         [] opt.gen = "shootexec" -> EndShootExec
         [] opt.gen = "jmeter"    -> EndJMeter
    /\ UNCHANGED <<opt, out, stat>>

\* Ten seconds have passed.
Kill ==
    /\ tank.stage = "kill"
    /\ proc' = IF Alive THEN [proc EXCEPT !.pc = "gone", !.child = opt.child] ELSE proc
    /\ finished' = TRUE
    /\ Stage("close")
    /\ UNCHANGED <<opt, out, reader, stat>>

\* JMeter has ended, or the time of both messages has passed and it is killed.
UdpOver ==
    /\ tank.stage = "udp"
    /\ Stage("close")
    /\ reader' = [reader EXCEPT !.closed = TRUE]
    /\ UNCHANGED <<opt, proc, finished, out, stat>>

-----------------------------------------------------------------------------
(***************************************************************************)
(* Then the readers, the other plugins, and what they do with the code     *)
(***************************************************************************)

CloseStats ==
    /\ tank.stage = "close"
    /\ Stage("join")
    /\ stat' = Closed
    /\ UNCHANGED <<opt, proc, finished, out, reader>>

\* The drains are waited for as long as termination_timeout, whatever they have
\* left; a poller that was stopped is joined first.
Join ==
    /\ tank.stage = "join" /\ stat.poller # "told"
    /\ Stage("after")
    /\ UNCHANGED <<opt, proc, files>>

\* A command that fails makes the code an error unless it is one.
Guarded(command, code) == IF command # 0 /\ code = 0 THEN 1 ELSE code

EndOthers ==
    /\ tank.stage = "after"
    /\ To("post", Guarded(opt.end, tank.rc))
    /\ UNCHANGED <<opt, proc, files>>

\* Mutant: a code that is not in the list is 0.
AssertedLoosely(code) == IF opt.pass = {} THEN code ELSE 0

\* RCAssert: a code of its list is a success, any other is the fail code.
Asserted(code) == IF opt.pass = {} THEN code ELSE IF code \in opt.pass THEN 0 ELSE opt.fail

PostProcess ==
    /\ tank.stage = "post"
    /\ To("done", Asserted(tank.rc))
    /\ UNCHANGED <<opt, proc, files>>

Tank ==
    \/ Configure \/ Prepare \/ Start
    \/ PollGenerator \/ PollShell \/ PollResources
    \/ EndGenerator \/ Kill \/ UdpOver \/ CloseStats \/ Join \/ EndOthers \/ PostProcess

Unmoved == UNCHANGED <<tank, proc>>
Results == ReaderThread(~Writing) /\ Unmoved
Statistics == StatThread /\ Unmoved
Poller == StatPoller /\ Unmoved

Next == Process \/ Tank \/ StoppedEarly \/ Interrupted \/ Results \/ Statistics \/ Poller

Spec == Init /\ [][Next]_vars

\* The main thread, the drains and the poller of statistics go on; nobody has to
\* stop the test.
FairSpec ==
    /\ Spec
    /\ WF_vars(Tank) /\ WF_vars(Results) /\ WF_vars(Statistics) /\ WF_vars(Poller)

-----------------------------------------------------------------------------
(***************************************************************************)
(* Properties                                                              *)
(***************************************************************************)

\* The load that is told of a Phantom with several streams is, second by second
\* and to the end of the longest, the sum of what their plans shoot.
Total(numbers) == FoldLeft(LAMBDA sum, n : sum + n, 0, numbers)
LoadAt(secs, k) == IF k \in DOMAIN secs THEN secs[k] ELSE 0
LoadOf(streams, k) == Total([i \in DOMAIN streams |-> LoadAt(PerSecond(streams[i].plan.steps), k)])
InfoAddsUp ==
    opt.gen = "phantom" /\ opt.conf.ok =>
        LET streams == opt.conf.streams  told == opt.conf.info.steps IN
        /\ \A k \in DOMAIN told : told[k] = LoadOf(streams, k)
        /\ \A i \in DOMAIN streams : Len(PerSecond(streams[i].plan.steps)) <= Len(told)

\* What the reader gave, has in its buffer and threw away is the file of this
\* test from its beginning, nothing twice and nothing else: no result of an
\* earlier test, no line cut by a read.
ReadsThisTest ==
    reader.pc \notin {"none", "failed"} /\ ~opt.given =>
        LET kept == reader.given \o reader.buffer IN
        /\ \A i \in 1 .. Len(kept) - 1 : kept[i] < kept[i + 1]
        /\ ToSet(kept) \cup reader.lost = 1 .. reader.pos
        /\ ToSet(kept) \cap reader.lost = {}

\* Every complete line was given to the aggregator, unless JMeter's reader threw
\* it away, when nobody wrote any more as the reader found nothing left; the
\* plugins of Phantom and ShootExec see to that whoever ends the test, but for
\* what ShootExec's shell had started; JMeter's only if its process ended by itself.
EverythingRead ==
    /\ tank.stage \in {"close", "join", "after", "post", "done"} /\ opt.gen \in {"phantom", "shootexec"}
            => finished /\ ~Alive
    /\ reader.pc = "over" /\ reader.quiet =>
            \A h \in 1 .. out.written : EndsLine(h) => h \in ToSet(reader.given) \cup reader.lost

\* The aggregator gets the results of this test, no others, and all of them.
ReadsThisWhole == ReadsThisTest /\ EverythingRead

\* The statistics that were given are one item for each second, in order (but the
\* zeros of Pandora without expvar).  A block of Phantom's that was complete when
\* they were closed is missing only if it was the readlines that took its end and
\* all that was written since, or if the poller had given up.
SecondsOnce ==
    /\ StatsKind # "queue" => \A i \in 1 .. Len(stat.given) - 1 : stat.given[i] < stat.given[i + 1]
    /\ StatsKind = "blocks" /\ stat.pc = "over" /\ ~stat.gaveUp =>
            \A k \in 1 .. stat.atClose \div 2 : k \in ToSet(stat.given) \/ 2 * k .. stat.atClose \subseteq stat.lined

\* Each chunk of the results of JMeter and ShootExec was given to the statistics or
\* is still in their queue.  ShootExec's, once over, have every chunk there was
\* when the queue was found to be empty for the last time, unless the poller had
\* given up.
ChunksOnce ==
    StatsKind = "queue" =>
        /\ Total(stat.given) + Total(stat.buffer) = Len(reader.given)
        /\ opt.gen = "shootexec" /\ stat.pc = "over" /\ ~stat.gaveUp =>
                reader.closed /\ Total(stat.given) = stat.seen

StatsOnce == SecondsOnce /\ ChunksOnce

\* A test that was ended with an error is not told to have been a success, unless
\* RCAssert was told that this is one; and a success needs a process that ended
\* well.
FailureIsTold ==
    tank.stage = "done" /\ tank.rc = 0 /\ opt.fail # 0 =>
        \/ tank.first = 0 /\ (proc.pc = "gone" => proc.rc = 0)
        \/ Guarded(opt.end, tank.first) \in opt.pass

\* Once the process is gone the tank comes to an end, stopped or not, unless its
\* code cannot be told: the log that explains it is empty, or JMeter's is
\* negative.
TestEnds ==
    (proc.pc = "gone" /\ ~TailHangs /\ ~(opt.gen = "jmeter" /\ proc.rc < 0)) ~> (tank.stage = "done")
=============================================================================
