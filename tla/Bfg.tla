--------------------------------- MODULE Bfg ---------------------------------
(***************************************************************************)
(* BFG as the tank runs it: the pool of processes (BfgPool, or BfgGreen    *)
(* with its green threads) and the two threads that bring its results into *)
(* the report file (BfgReader), which share the queue of results and the   *)
(* close_event of the plugin.                                              *)
(***************************************************************************)
EXTENDS BfgGreen

VARIABLES cacher, target, item, records, listener, taken, report, orphaned

Reader == INSTANCE BfgReader

\* What a step of the pool and what a step of the reader leaves alone.
poolLeaves == <<opt, cacher, target, item, records, listener, taken, report, orphaned>>
readerLeaves == <<opt, queue, feed, pool, main, quit, shot, missed, overflowed, green>>
vars == <<poolVars, green, poolLeaves>>

Init == PoolInit /\ GreenInit /\ Reader!ReaderInit

Next ==
    \/ TankNext /\ UNCHANGED <<green, poolLeaves>>
    \/ opt.type = "default" /\ DefaultNext /\ UNCHANGED <<green, poolLeaves>>
    \/ opt.type = "green" /\ GreenNext /\ UNCHANGED poolLeaves
    \/ Reader!ReaderNext /\ UNCHANGED readerLeaves

Spec == Init /\ [][Next]_vars

\* Something of the pool goes on as long as something can: a thread of the tank,
\* a process, a green thread while the main one of its process sleeps.
PoolStep ==
    /\ UNCHANGED poolLeaves
    /\ \/ (Feeder \/ Main) /\ UNCHANGED green
       \/ opt.type = "default" /\ (\E w \in Workers : Worker(w)) /\ UNCHANGED green
       \/ opt.type = "green" /\ \E w \in Workers : GreenMain(w) \/ \E g \in Threads : GreenThread(w, g)

ReaderStep == (Reader!Cacher \/ Reader!Listener) /\ UNCHANGED readerLeaves

\* Processes and threads are scheduled, guns return, and a put with a timeout
\* that finds room or a get that finds a task succeeds.  Nothing forces the tank
\* to stop, or a killer task to find the queue full.
FairSpec == Spec /\ WF_vars(PoolStep) /\ WF_vars(ReaderStep)

-----------------------------------------------------------------------------
\* The types of the variables: those of the pool, ...
PoolTypes ==
    /\ opt \in Options
    /\ taskQueue \in Seq(Plan \union {Killer}) /\ Len(taskQueue) <= QueueSize
    /\ feeder \in {"put", "kill", "join", "over"}
    /\ next \in 1 .. opt.tasks + 1 /\ attempt \in 1 .. Attempts /\ posted \in 0 .. Cardinality(Workers)
    /\ worker \in [Workers -> {"setup", "get", "shoot", "join", "teardown", "exited"}]
    /\ task \in [Workers -> Plan \union {Killer}]
    /\ \A w \in Workers : worker[w] = "shoot" <=> task[w] \in Plan
    /\ main \in {"poll", "stop", "empty", "join", "ended"}
    /\ {quit, queueClosed, closeEvent, workersFinished, ready} \subseteq BOOLEAN
    /\ sigints \in 0 .. opt.sigints
    /\ shot \subseteq Plan /\ missed \subseteq Plan

\* ... of its green threads, ...
GreenTypes ==
    /\ greenQueue \in [Workers -> Seq(Plan)]
    /\ greenlet \in [Workers -> [Threads -> {"new", "get", "shoot", "over"}]]
    /\ greenTask \in [Workers -> [Threads -> Plan \union {Killer}]]
    /\ \A w \in Workers, g \in Threads : greenlet[w][g] = "shoot" <=> greenTask[w][g] \in Plan
    /\ free \in [Workers -> 0 .. Greenlets] /\ \A w \in Workers : Len(greenQueue[w]) <= Greenlets
    /\ dropped \subseteq Plan

\* ... and of the threads that write the results.
ReaderTypes ==
    /\ {results, item, records, taken, report, orphaned} \subseteq Seq(Plan)
    /\ overflowed \subseteq Plan
    /\ Len(results) <= ResultsSize /\ Len(item) <= 1
    /\ cacher \in {"get", "append", "empty", "over"}
    /\ target \in {"records", "taken", "orphan"}
    /\ listener \in {"look", "convert", "join", "over"}

TypeOK == PoolTypes /\ GreenTypes /\ ReaderTypes

Times(t, s) == Cardinality({i \in DOMAIN s : s[i] = t})
InProcesses(t) == Cardinality({w \in Workers : task[w] = t})
InThreads(t) == Cardinality({p \in Workers \X Threads : greenTask[p[1]][p[2]] = t})
InGreenQueues(t) == Cardinality({p \in Workers \X Threads : p[2] \in DOMAIN greenQueue[p[1]] /\ greenQueue[p[1]][p[2]] = t})
In(t, S) == IF t \in S THEN 1 ELSE 0

\* A task that was put is in the queue, in the hands of one process or of one of
\* its green threads, shot, missed (the gun failed, the process was interrupted,
\* the test was stopped), or dropped by a green process, in one of these places
\* and once; a task that was not put is in none.
EachTaskOnce ==
    \A t \in Plan :
        Times(t, taskQueue) + InProcesses(t) + InThreads(t) + InGreenQueues(t)
            + In(t, shot) + In(t, missed) + In(t, dropped) = In(t, 1 .. next - 1)

\* When the pool is finished and nobody stopped or interrupted it, every task was
\* taken by a process, unless no gun could be set up: one killer makes all green
\* processes quit (worker.py:221), but by then no task is left in the queue.
FinishedMeansShot ==
    workersFinished /\ main = "poll" /\ sigints = 0 /\ ready => shot \union missed \union dropped = Plan

\* The result of a shot is in one place and once: dropped because the queue of
\* results was full, in that queue, in the hands of one of the two threads, in
\* the list, in the file, or in a list that nobody reads any more.
EachResultOnce ==
    \A t \in Plan :
        In(t, overflowed) + Times(t, results) + Times(t, item) + Times(t, records)
            + Times(t, taken) + Times(t, report) + Times(t, orphaned) = In(t, shot)

\* Every task and every result is accounted for, and a pool that finished has
\* nothing left to shoot.
AccountsAddUp == TypeOK /\ EachTaskOnce /\ EachResultOnce /\ FinishedMeansShot

\* When every process was sent its killer task, the pool finishes; an interrupt
\* that ended the green threads of a process may leave it without any to kill.
PoolFinishes ==
    feeder = "join" /\ (attempt < Attempts \/ posted = Cardinality(Workers))
        ~> workersFinished \/ (opt.type = "green" /\ sigints > 0)

\* The end of the test returns, whatever the feeder and the processes were at,
\* and the threads that write the results end after it.
EndTestReturns == main = "stop" ~> main = "ended"
ListenerEnds == closeEvent ~> listener = "over"

\* Nothing of the generator is waited for for ever, by itself or when it is stopped.
PoolEnds == PoolFinishes /\ EndTestReturns /\ ListenerEnds
=============================================================================
