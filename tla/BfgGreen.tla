------------------------------ MODULE BfgGreen ------------------------------
(***************************************************************************)
(* BFGGreen, the other worker type of BFG (worker.py): a process of the    *)
(* pool moves tasks into a queue of its own, from which its green threads  *)
(* take and shoot them.                                                    *)
(*                                                                         *)
(* Green threads switch only when they wait, so the main one takes tasks   *)
(* without a break until there are none or no thread is free, and then     *)
(* sleeps; the others run while it sleeps (worker[w] is "get") or joins.   *)
(***************************************************************************)
EXTENDS BfgPool

CONSTANT Greenlets  \* green_threads_per_instance

ASSUME GreenAssumption == Greenlets \in Nat \ {0}

VARIABLES
    greenQueue,   \* green_queue of a process
    greenlet,     \* its green threads: "new", "get", "shoot" or "over"
    greenTask,    \* the task each of them shoots
    free,         \* _free_threads_count
    dropped       \* history: tasks that were in a green_queue when its process ended

green == <<greenQueue, greenlet, greenTask, free, dropped>>

Threads == 1 .. Greenlets

GreenInit ==
    /\ greenQueue = [w \in Workers |-> << >>]
    /\ greenlet = [w \in Workers |-> [g \in Threads |-> "new"]]
    /\ greenTask = [w \in Workers |-> [g \in Threads |-> Killer]]
    /\ free = [w \in Workers |-> Greenlets]
    /\ dropped = {}

-----------------------------------------------------------------------------
(***************************************************************************)
(* BFGGreen._worker                                                        *)
(***************************************************************************)

GreenSetup(w) ==
    /\ worker[w] = "setup"
    /\ Becomes(w, IF quit THEN "join" ELSE "get")
    /\ ready' = TRUE
    /\ UNCHANGED <<task, sigints, queue, feed, plugin, outcome, green>>

\* The first n tasks of the queue are those of one pass: as many as there are, as
\* threads are free, and up to a killer, which takes the place of a free thread too.
Passes(w, n) ==
    /\ n <= free[w] /\ \A i \in 1 .. n - 1 : taskQueue[i] # Killer
    /\ n \in {free[w], Len(taskQueue)} \/ taskQueue[n] = Killer

\* A killer makes all processes quit.
Killed(w) == Becomes(w, "join") /\ quit' = TRUE

Pass(w) ==
    /\ worker[w] = "get" /\ ~quit
    /\ \E n \in 1 .. Len(taskQueue) :
          /\ Passes(w, n)
          /\ LET tasks == SubSeq(taskQueue, 1, n)
             IN  \/ /\ Last(tasks) = Killer /\ Killed(w)
                    /\ greenQueue' = [greenQueue EXCEPT ![w] = @ \o Front(tasks)]
                 \/ /\ Last(tasks) # Killer /\ UNCHANGED <<worker, quit>>
                    /\ greenQueue' = [greenQueue EXCEPT ![w] = @ \o tasks]
          /\ taskQueue' = SubSeq(taskQueue, n + 1, Len(taskQueue))
          /\ free' = [free EXCEPT ![w] = @ - n]
    /\ UNCHANGED <<queueClosed, task, ready, sigints, main, closeEvent, feed, outcome, greenlet, greenTask, dropped>>

Quits(w) ==
    /\ worker[w] = "get" /\ quit
    /\ Becomes(w, "join")
    /\ UNCHANGED <<task, ready, sigints, queue, feed, plugin, outcome, green>>

\* The threads have ended; what they left in their queue goes with the process.
GreenJoined(w) ==
    /\ worker[w] = "join" /\ \A g \in Threads : greenlet[w][g] = "over"
    /\ Becomes(w, "teardown")
    /\ dropped' = dropped \union ToSet(greenQueue[w])
    /\ greenQueue' = [greenQueue EXCEPT ![w] = << >>]
    /\ UNCHANGED <<task, ready, sigints, queue, feed, plugin, outcome, greenlet, greenTask, free>>

\* gun.setup that fails and gun.teardown are those of the other worker.
Framed(w) == (SetupFails(w) \/ Teardown(w)) /\ UNCHANGED green

GreenMain(w) ==
    GreenSetup(w) \/ Pass(w) \/ Quits(w) \/ GreenJoined(w) \/ Framed(w)

-----------------------------------------------------------------------------
(***************************************************************************)
(* BFGGreen._green_worker                                                  *)
(***************************************************************************)

Thread(w, g, state, t) ==
    /\ greenlet' = [greenlet EXCEPT ![w][g] = state]
    /\ greenTask' = [greenTask EXCEPT ![w][g] = t]

Running(w, g, state) == worker[w] \in {"get", "join"} /\ greenlet[w][g] = state

\* Where the thread starts or goes on without having met a task: get gives up
\* after a second, also when a task is put at that moment.
GreenLoops(w, g) ==
    /\ \/ Running(w, g, "new")
       \/ Running(w, g, "get") /\ quit
    /\ Thread(w, g, IF quit THEN "over" ELSE "get", Killer)
    /\ UNCHANGED <<poolVars, greenQueue, free, dropped>>

GreenTake(w, g) ==
    /\ Running(w, g, "get") /\ greenQueue[w] # << >>
    /\ Thread(w, g, "shoot", Head(greenQueue[w]))
    /\ greenQueue' = [greenQueue EXCEPT ![w] = Tail(@)]
    /\ UNCHANGED <<poolVars, free, dropped>>

\* The shot, with or without a result; then quit is looked at.
GreenShoot(w, g) ==
    /\ Running(w, g, "shoot")
    /\ \/ shot' = shot \union {greenTask[w][g]} /\ PutResult(greenTask[w][g]) /\ UNCHANGED missed
       \/ missed' = missed \union {greenTask[w][g]} /\ UNCHANGED <<results, shot, overflowed>>
    /\ free' = [free EXCEPT ![w] = @ + 1]
    /\ Thread(w, g, IF quit THEN "over" ELSE "get", Killer)
    /\ UNCHANGED <<queue, feed, pool, plugin, greenQueue, dropped>>

GreenThread(w, g) == GreenLoops(w, g) \/ GreenTake(w, g) \/ GreenShoot(w, g)

\* Ctrl-C in a green thread ends that thread, whose place is given back if it
\* was shooting, and not if it waited for the planned time ...
ThreadInterrupted(w, g) ==
    /\ Running(w, g, "get") \/ Running(w, g, "shoot")
    /\ missed' = missed \union ({greenTask[w][g]} \ {Killer})
    /\ \/ UNCHANGED free
       \/ greenlet[w][g] = "shoot" /\ free' = [free EXCEPT ![w] = @ + 1]
    /\ Thread(w, g, "over", Killer)
    /\ UNCHANGED <<worker, task, ready, queue, feed, plugin, results, shot, overflowed, greenQueue, dropped>>

\* ... and anywhere else the process, with all that its threads were at.
ProcessInterrupted(w) ==
    /\ Becomes(w, "exited")
    /\ missed' = missed \union ({greenTask[w][g] : g \in Threads} \ {Killer})
    /\ dropped' = dropped \union ToSet(greenQueue[w])
    /\ greenQueue' = [greenQueue EXCEPT ![w] = << >>]
    /\ greenlet' = [greenlet EXCEPT ![w] = [g \in Threads |-> "over"]]
    /\ greenTask' = [greenTask EXCEPT ![w] = [g \in Threads |-> Killer]]
    /\ UNCHANGED <<task, ready, queue, feed, plugin, results, shot, overflowed, free>>

GreenSigint(w) ==
    /\ worker[w] # "exited" /\ sigints < opt.sigints
    /\ sigints' = sigints + 1
    /\ ProcessInterrupted(w) \/ \E g \in Threads : ThreadInterrupted(w, g)

GreenNext ==
    \E w \in Workers :
        \/ GreenMain(w) \/ GreenSigint(w)
        \/ \E g \in Threads : GreenThread(w, g)
=============================================================================
