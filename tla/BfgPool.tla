------------------------------- MODULE BfgPool -------------------------------
(***************************************************************************)
(* The load generator BFG (yandextank/plugins/Bfg/worker.py with the       *)
(* start_test, is_test_finished and end_test of its plugin): a feeder      *)
(* thread puts the tasks of the plan into a bounded queue, a pool of       *)
(* processes takes and shoots them, and the main thread of the tank polls  *)
(* the pool and stops it.                                                  *)
(*                                                                         *)
(* A task is named by its place in the plan and leads to at most one       *)
(* result.  Waiting for the planned time and the shot itself take any time *)
(* but end; a put or get with a timeout gives up only while the queue is   *)
(* full or empty.  The processes here are those of BFGMultiprocessing, the *)
(* worker of the default worker_type; BfgGreen has the others.             *)
(***************************************************************************)
EXTENDS Naturals, Sequences, SequencesExt, FiniteSets

CONSTANTS
    Workers,      \* the processes of the pool
    QueueSize,    \* size of task_queue (1024)
    ResultsSize,  \* size of results (16384)
    Attempts,     \* times the feeder tries to post the killer tasks (5)
    Options       \* the tests: worker_type ("default", "green"), the length of the plan,
                  \* and how many processes get a KeyboardInterrupt (bound)

PoolAssumption ==
    /\ IsFiniteSet(Workers) /\ Workers # {}
    /\ QueueSize \in Nat \ {0} /\ ResultsSize \in Nat \ {0}
    /\ Attempts \in Nat \ {0}
    /\ \A o \in Options : o.type \in {"default", "green"} /\ o.tasks \in Nat /\ o.sigints \in Nat

ASSUME PoolAssumption

Killer == 0

VARIABLES
    opt,              \* the test
    taskQueue,        \* what the processes take from
    queueClosed,      \* task_queue.close() was called
    quit,             \* the event quit
    feeder,           \* the feeder thread: see TypeOK
    next,             \* the task the feeder puts next
    attempt, posted,  \* attempts to post the killers, killers of this one that are posted
    workersFinished,  \* workers_finished
    worker,           \* the processes: see TypeOK
    task,             \* the task a process shoots
    main,             \* the plugin: see TypeOK
    closeEvent,       \* the plugin's close_event
    results,          \* the queue of results
    shot,             \* history: tasks that were shot ...
    missed,           \* ... that ended without a result, or were taken out of the queue by stop ...
    overflowed,       \* ... whose result found the queue of results full
    sigints,          \* history: processes interrupted
    ready             \* history: some process set its gun up

queue == <<taskQueue, queueClosed>>
feed == <<feeder, next, attempt, posted, workersFinished>>
pool == <<worker, task, ready, sigints>>
plugin == <<main, quit, closeEvent>>
outcome == <<results, shot, missed, overflowed>>
poolVars == <<queue, feed, pool, plugin, outcome>>

Plan == 1 .. opt.tasks

PoolInit ==
    /\ opt \in Options
    /\ taskQueue = << >> /\ queueClosed = FALSE /\ quit = FALSE
    /\ feeder = IF opt.tasks = 0 THEN "kill" ELSE "put"
    /\ next = 1 /\ attempt = 1 /\ posted = 0
    /\ workersFinished = FALSE
    /\ worker = [w \in Workers |-> "setup"]
    /\ task = [w \in Workers |-> Killer]
    /\ main = "poll" /\ closeEvent = FALSE
    /\ results = << >> /\ shot = {} /\ missed = {} /\ overflowed = {}
    /\ sigints = 0 /\ ready = FALSE

AllExited == \A w \in Workers : worker[w] = "exited"
Full == Len(taskQueue) >= QueueSize

-----------------------------------------------------------------------------
(***************************************************************************)
(* _feed                                                                   *)
(***************************************************************************)

\* The loop goes on to the next task: quit is looked at before it is put.
NextTask ==
    /\ next' = next + 1
    /\ feeder' = IF next = opt.tasks THEN "kill" ELSE IF quit THEN "over" ELSE "put"

Put ==
    /\ feeder = "put" /\ ~queueClosed /\ ~Full
    /\ taskQueue' = Append(taskQueue, next)
    /\ NextTask
    /\ UNCHANGED <<queueClosed, attempt, posted, workersFinished, pool, plugin, outcome>>

\* Full: the loop goes on unless there is a reason to return.  workers_finished
\* is set by this thread alone, later.
PutFull ==
    /\ feeder = "put" /\ ~queueClosed /\ Full
    /\ quit \/ workersFinished
    /\ feeder' = "over"
    /\ UNCHANGED <<next, attempt, posted, workersFinished, queue, pool, plugin, outcome>>

\* put raises ValueError, which ends the thread.
PutClosed ==
    /\ feeder \in {"put", "kill"} /\ queueClosed
    /\ feeder' = "over"
    /\ UNCHANGED <<next, attempt, posted, workersFinished, queue, pool, plugin, outcome>>

\* Mutant: one killer too few.
PutKillerButOne ==
    /\ feeder = "kill" /\ ~queueClosed /\ ~Full
    /\ taskQueue' = Append(taskQueue, Killer)
    /\ posted' = posted + 1
    /\ feeder' = IF posted + 2 >= Cardinality(Workers) THEN "join" ELSE "kill"
    /\ UNCHANGED <<queueClosed, next, attempt, workersFinished, pool, plugin, outcome>>

PutKiller ==
    /\ feeder = "kill" /\ ~queueClosed /\ ~Full
    /\ taskQueue' = Append(taskQueue, Killer)
    /\ posted' = posted + 1
    /\ feeder' = IF posted + 1 = Cardinality(Workers) THEN "join" ELSE "kill"
    /\ UNCHANGED <<queueClosed, next, attempt, workersFinished, pool, plugin, outcome>>

\* Full: the whole list of killers is posted again, five times at most.
KillersFull ==
    /\ feeder = "kill" /\ ~queueClosed /\ Full
    /\ IF attempt < Attempts
       THEN attempt' = attempt + 1 /\ posted' = 0 /\ UNCHANGED feeder
       ELSE feeder' = "join" /\ UNCHANGED <<attempt, posted>>
    /\ UNCHANGED <<next, workersFinished, queue, pool, plugin, outcome>>

Joined ==
    /\ feeder = "join" /\ AllExited
    /\ workersFinished' = TRUE
    /\ feeder' = "over"
    /\ UNCHANGED <<next, attempt, posted, queue, pool, plugin, outcome>>

Feeder ==
    \/ Put \/ PutFull \/ PutClosed
    \/ PutKiller \/ KillersFull \/ Joined

-----------------------------------------------------------------------------
(***************************************************************************)
(* BFGMultiprocessing._worker                                              *)
(***************************************************************************)

Becomes(w, state) == worker' = [worker EXCEPT ![w] = state]

\* while not self.quit.is_set(), looked at where the last pass ends
Loops(w) == Becomes(w, IF quit THEN "teardown" ELSE "get")

Setup(w) ==
    /\ worker[w] = "setup"
    /\ Loops(w)
    /\ ready' = TRUE
    /\ UNCHANGED <<task, sigints, queue, feed, plugin, outcome>>

SetupFails(w) ==
    /\ worker[w] = "setup"
    /\ Becomes(w, "exited")
    /\ UNCHANGED <<task, ready, sigints, queue, feed, plugin, outcome>>

Take(w) ==
    /\ worker[w] = "get" /\ taskQueue # << >>
    /\ taskQueue' = Tail(taskQueue)
    /\ task' = [task EXCEPT ![w] = Head(taskQueue)]
    /\ Becomes(w, IF Head(taskQueue) = Killer THEN "teardown" ELSE "shoot")
    /\ UNCHANGED <<queueClosed, ready, sigints, feed, plugin, outcome>>

\* Empty: with quit set the process returns and leaves out the teardown, unless
\* quit was set just before the loop looks again.
GetEmpty(w) ==
    /\ worker[w] = "get" /\ taskQueue = << >> /\ quit
    /\ \E state \in {"exited", "teardown"} : Becomes(w, state)
    /\ UNCHANGED <<task, ready, sigints, queue, feed, plugin, outcome>>

\* The context manager measure puts the result on the way out, in any case; a
\* full queue of results drops it.
PutResult(t) ==
    IF Len(results) < ResultsSize
    THEN results' = Append(results, t) /\ UNCHANGED overflowed
    ELSE overflowed' = overflowed \union {t} /\ UNCHANGED results

Shoot(w) ==
    /\ worker[w] = "shoot"
    /\ shot' = shot \union {task[w]}
    /\ PutResult(task[w])
    /\ task' = [task EXCEPT ![w] = Killer]
    /\ Loops(w)
    /\ UNCHANGED <<missed, ready, sigints, queue, feed, plugin>>

\* The gun raises outside of measure: the exception is logged, there is no result.
ShootFails(w) ==
    /\ worker[w] = "shoot"
    /\ missed' = missed \union {task[w]}
    /\ task' = [task EXCEPT ![w] = Killer]
    /\ Loops(w)
    /\ UNCHANGED <<results, shot, overflowed, ready, sigints, queue, feed, plugin>>

\* teardown may raise; the process ends either way.
Teardown(w) ==
    /\ worker[w] = "teardown"
    /\ Becomes(w, "exited")
    /\ UNCHANGED <<task, ready, sigints, queue, feed, plugin, outcome>>

\* Ctrl-C reaches the processes of the pool too: the loop is left in order only
\* from the middle of a pass.
Sigint(w) ==
    /\ worker[w] # "exited" /\ sigints < opt.sigints
    /\ sigints' = sigints + 1
    /\ \E state \in {"teardown", "exited"} :
          /\ state = "teardown" => worker[w] \in {"get", "shoot"}
          /\ Becomes(w, state)
    /\ IF worker[w] # "shoot"
       THEN UNCHANGED outcome
       ELSE \/ /\ shot' = shot \union {task[w]} /\ PutResult(task[w])
               /\ UNCHANGED missed
            \/ /\ missed' = missed \union {task[w]}
               /\ UNCHANGED <<results, shot, overflowed>>
    /\ task' = [task EXCEPT ![w] = Killer]
    /\ UNCHANGED <<ready, queue, feed, plugin>>

Worker(w) ==
    \/ Setup(w) \/ SetupFails(w) \/ Take(w) \/ GetEmpty(w)
    \/ Shoot(w) \/ ShootFails(w) \/ Teardown(w)

-----------------------------------------------------------------------------
(***************************************************************************)
(* The plugin                                                              *)
(***************************************************************************)

\* is_test_finished finds the pool at rest, and end_test has nothing to stop.
Finished ==
    /\ main = "poll" /\ workersFinished
    /\ closeEvent' = TRUE
    /\ main' = "ended"
    /\ UNCHANGED <<quit, queue, feed, pool, outcome>>

\* The test ends for another reason: end_test calls stop.
Stop ==
    /\ main = "poll" /\ ~workersFinished
    /\ quit' = TRUE
    /\ main' = "stop"
    /\ UNCHANGED <<closeEvent, queue, feed, pool, outcome>>

Stopped ==
    /\ main = "stop" /\ AllExited
    /\ main' = "empty"
    /\ UNCHANGED <<quit, closeEvent, queue, feed, pool, outcome>>

Empty ==
    /\ main = "empty"
    /\ IF taskQueue # << >>
       THEN /\ taskQueue' = Tail(taskQueue)
            /\ missed' = missed \union ({Head(taskQueue)} \ {Killer})
            /\ UNCHANGED <<queueClosed, main>>
       ELSE /\ queueClosed' = TRUE /\ main' = "join"
            /\ UNCHANGED <<taskQueue, missed>>
    /\ UNCHANGED <<quit, closeEvent, feed, pool, results, shot, overflowed>>

FeederJoined ==
    /\ main = "join" /\ feeder = "over"
    /\ closeEvent' = TRUE
    /\ main' = "ended"
    /\ UNCHANGED <<quit, queue, feed, pool, outcome>>

Main == Finished \/ Stopped \/ Empty \/ FeederJoined

DefaultNext == \E w \in Workers : Worker(w) \/ Sigint(w)

TankNext == Feeder \/ Main \/ Stop
=============================================================================
