------------------------------ MODULE Uploader ------------------------------
(***************************************************************************)
(* The uploader (yandextank/plugins/DataUploader/plugin.py): the plugin's  *)
(* stages, run by the tank's main thread, which make a job, lock the       *)
(* targets and put the seconds of the test and the monitoring data into    *)
(* two queues; the two threads that push the queues to the service; and    *)
(* the thread that reports the status and learns that the test was stopped *)
(* there.  The stages interleave with the threads request by request.      *)
(*                                                                         *)
(* A second, or a chunk of monitoring data, is its number in its stream.   *)
(* Neither core.error_log, the condition of the event thread, nor a second *)
(* value of artifacts_to_send is ever set: there is no event thread, and   *)
(* one call stands for the two configurations that are sent.               *)
(***************************************************************************)
EXTENDS ApiClient, SequencesExt

CONSTANTS
    Options,  \* the settings and bounds that are tried: see ApiClient
    Targets   \* the targets to lock, a sequence

UploaderAssumption ==
    /\ Options \subseteq [writer : BOOLEAN, ignore : BOOLEAN, strict : BOOLEAN, given : BOOLEAN,
                          busy : BOOLEAN, faults : Nat, items : [Streams -> Nat]]
    /\ Threads = Streams \cup {"main", "status"}

ASSUME UploaderAssumption

VARIABLES
    main,           \* the stage of the main thread
    back,           \* the stage that asked for lp_job, or for unlock_targets
    left,           \* the target that is locked or unlocked next
    locked,         \* locked_targets
    cleanups,       \* the plugin's cleanup actions
    disabled,       \* prepare_test replaced the methods
    lpJob, number,  \* _lp_job is set; the number of the LPJob that was made last
    rc, retcode,    \* the code of the test, and the plugin's
    finished,
    thread,         \* the threads: idle, loop, purge, dead
    queue,          \* data_queue and monitoring_queue
    put,            \* history: items put into them
    failed          \* history: the operations a call of which did not succeed

targets == <<left, locked>>
job == <<disabled, lpJob, number>>
codes == <<rc, retcode, finished>>
threads == <<thread, queue>>
stages == <<main, back, targets, cleanups, job, codes, put>>
vars == <<clientVars, stages, threads, failed>>

Senders == Streams
None == 0   \* the sentinel of a queue; the number of no job
Now(p) == main' = p
Plus(action) == cleanups' = Append(cleanups, action)

Init ==
    /\ opt \in Options /\ ClientInit
    /\ main = "prepare" /\ back = "prepare" /\ left = 1
    /\ locked = << >> /\ cleanups = << >>
    /\ disabled = FALSE /\ lpJob = FALSE /\ number = None
    /\ rc = 0 /\ retcode = -1 /\ finished = FALSE
    /\ thread = [t \in Senders \cup {"status"} |-> "idle"]
    /\ queue = [s \in Senders |-> << >>] /\ put = [s \in Senders |-> 0]
    /\ failed = {}

-----------------------------------------------------------------------------
(***************************************************************************)
(* The calls of the main thread                                            *)
(***************************************************************************)

Calls == [job |-> "create", config |-> "config", lock |-> "lock", task |-> "task", edit |-> "edit",
          confs |-> "config", startConfs |-> "config", endConfs |-> "config", unlock |-> "unlock",
          cause |-> "edit", postConfs |-> "config", close |-> "close"]

ListedTargets == IF main = "lock" THEN Targets ELSE locked

\* A step of the call that the stage makes, if it has one to make.
Calling(results) ==
    /\ main \in DOMAIN Calls
    /\ main \in {"lock", "unlock"} => left <= Len(ListedTargets)
    /\ Client("main", Calls[main],
              IF main \in {"lock", "unlock"} THEN ListedTargets[left] ELSE number, results)
    /\ UNCHANGED <<opt, core, interrupted, threads>>

\* A request that is followed by another.
CallContinues == Calling({}) /\ UNCHANGED <<stages, failed>>

\* The result of a call whose caller goes on (`good`) or gets an exception.
\* The calls that read the answer raise when there is none.
Good == IF main \in {"config", "confs", "startConfs", "endConfs", "postConfs", "edit", "cause"}
        THEN {"ok", "nothing"} ELSE {"ok"}
\* edit_metainfo only lets an HTTPError through.
Forgiven == IF main = "edit" THEN {"StoppedFromOnline", "NotAvailable", "NetworkError", "UnderMaintenance"}
            ELSE {}

Succeeds(p) == main = p /\ Calling(Good \cup Forgiven) /\ call'["main"] = NoCall /\ UNCHANGED failed

Bad == {"JobNotCreated", "NotAvailable", "NetworkError", "UnderMaintenance", "StoppedFromOnline",
        "HTTPError", "nothing"} \ (Good \cup Forgiven)

Fails(results) ==
    /\ Calling(results \cap Bad) /\ call'["main"] = NoCall
    /\ failed' = failed \cup {Calls[main]}

\* The main thread moves and makes no call.
Moves(p) ==
    /\ main = p
    /\ UNCHANGED <<opt, core, client, failed>>

-----------------------------------------------------------------------------
(***************************************************************************)
(* lp_job: an LPJob is made by the first stage that needs it, and kept     *)
(* only if its configuration could be sent                                 *)
(***************************************************************************)

NewLpJob(b) ==
    /\ back' = b
    /\ number' = IF opt.given THEN 1 ELSE None
    /\ cleanups' = IF opt.given /\ b # "close" THEN Append(cleanups, "close") ELSE cleanups
    /\ Now(IF opt.given THEN "config" ELSE "job")

JobCreated ==
    /\ Succeeds("job")
    /\ number' = jobs'
    /\ cleanups' = IF back = "close" THEN cleanups ELSE Append(cleanups, "close")
    /\ Now("config")
    /\ UNCHANGED <<back, targets, disabled, lpJob, codes, put>>

\* Where lp_job was asked for.
Resume == CASE back = "prepare" -> "locking" [] back = "end" -> "endJob"
            [] back = "post" -> "postConfs" [] back = "close" -> "close"

JobReady ==
    /\ Succeeds("config")
    /\ lpJob' = TRUE /\ Now(Resume)
    /\ UNCHANGED <<back, targets, cleanups, disabled, number, codes, put>>

-----------------------------------------------------------------------------
(***************************************************************************)
(* prepare_test                                                            *)
(***************************************************************************)

\* A tank that is stopped prepares no more plugins, but ends them all.
Prepare ==
    /\ Moves("prepare")
    /\ IF core THEN Now("end") /\ rc' = 1 /\ UNCHANGED <<back, number, cleanups>>
       ELSE NewLpJob("prepare") /\ UNCHANGED rc
    /\ UNCHANGED <<interrupted, targets, disabled, lpJob, retcode, finished, put, threads>>

\* Mutant: the targets are unlocked by end_test only.
LockingBare ==
    /\ Moves("locking")
    /\ left' = 1 /\ Now("lock")
    /\ UNCHANGED <<interrupted, back, locked, cleanups, job, codes, put, threads>>

Locking ==
    /\ Moves("locking")
    /\ Plus("unlock") /\ left' = 1 /\ Now("lock")
    /\ UNCHANGED <<interrupted, back, locked, job, codes, put, threads>>

\* lock_target: True, False, or an exception (PrepareFails).  locked_targets is
\* assigned when the last target was asked for: until then it is `locked` of the
\* stage "lock" only.
LockAnswers == IF opt.ignore THEN {"NotAvailable", "StoppedFromOnline", "UnderMaintenance"}
               ELSE IF opt.strict THEN {} ELSE {"NotAvailable", "StoppedFromOnline"}

TargetLocked ==
    /\ main = "lock"
    /\ \/ Succeeds("lock") /\ locked' = Append(locked, Targets[left])
       \/ Fails(LockAnswers) /\ UNCHANGED locked
    /\ left' = left + 1
    /\ UNCHANGED <<main, back, cleanups, job, codes, put>>

Locked ==
    /\ Moves("lock") /\ left > Len(Targets)
    /\ Now("task")
    /\ UNCHANGED <<interrupted, back, targets, cleanups, job, codes, put, threads>>

\* check_task_is_open, edit_metainfo, __save_conf.  The task may not be open.
Prepared(p, q) ==
    /\ Succeeds(p) /\ Now(q)
    /\ UNCHANGED <<back, targets, cleanups, job, codes, put>>

Disabling == {"JobNotCreated", "NotAvailable", "NetworkError"}
Raises == IF main \in {"edit", "confs"} THEN Bad ELSE Bad \ Disabling

PrepareFails ==
    /\ main \in {"job", "config", "lock", "task", "edit", "confs"}
    /\ main \in {"job", "config"} => back = "prepare"
    /\ locked' = IF main = "lock" THEN << >> ELSE locked
    /\ LET handled == IF main = "lock" THEN LockAnswers ELSE {} IN
       \/ main \notin {"edit", "confs"} /\ Fails(Disabling \ handled) /\ disabled' = TRUE /\ Now("ready")
       \/ Fails(Raises \ handled) /\ Now("cleanup") /\ UNCHANGED disabled
    /\ UNCHANGED <<back, left, cleanups, lpJob, number, codes, put>>

TaskClosed ==
    /\ Succeeds("task") /\ Now("cleanup")
    /\ UNCHANGED <<back, targets, cleanups, job, codes, put>>

-----------------------------------------------------------------------------
(***************************************************************************)
(* start_test and the shooting                                             *)
(***************************************************************************)

Start ==
    /\ Moves("ready") /\ ~core
    /\ IF disabled THEN Now("run") /\ UNCHANGED <<cleanups, thread>>
       ELSE /\ Plus("join") /\ Now("startConfs")
            /\ thread' = [t \in DOMAIN thread |-> "loop"]
    /\ UNCHANGED <<interrupted, back, targets, job, codes, put, queue>>

\* The tank was stopped, or another plugin fails to start.
NotStarted ==
    /\ Moves("ready")
    /\ rc' = 1 /\ Now("end")
    /\ UNCHANGED <<interrupted, back, targets, cleanups, job, retcode, finished, put, threads>>

StartFails ==
    /\ main = "startConfs" /\ Fails(Bad)
    /\ rc' = 1 /\ Now("end")
    /\ UNCHANGED <<back, targets, cleanups, job, retcode, finished, put>>

\* on_aggregated_data and monitoring_data, while the test runs and while the
\* aggregator and the monitoring end.
Put(s) ==
    /\ Moves(main) /\ main \in {"run", "ending"}
    /\ put[s] < opt.items[s] /\ ~disabled /\ ~interrupted
    /\ put' = [put EXCEPT ![s] = @ + 1]
    /\ queue' = [queue EXCEPT ![s] = Append(@, put[s] + 1)]
    /\ UNCHANGED <<interrupted, main, back, targets, cleanups, job, codes, thread>>

\* The test ends by itself, by another plugin, by the uploader, or stopped.
TestEnds ==
    /\ Moves("run")
    /\ rc' \in IF core THEN {1} ELSE IF retcode >= 0 THEN {retcode} ELSE {0, 1}
    /\ Now("ending")
    /\ UNCHANGED <<interrupted, back, targets, cleanups, job, retcode, finished, put, threads>>

Interrupt ==
    /\ ~core /\ main # "done"
    /\ core' = TRUE
    /\ UNCHANGED <<opt, interrupted, client, stages, threads, failed>>

-----------------------------------------------------------------------------
(***************************************************************************)
(* end_test and post_process                                               *)
(***************************************************************************)

EndTest ==
    /\ Moves(main) /\ main \in {"ending", "end"}
    /\ IF lpJob THEN Now("endJob") /\ UNCHANGED <<back, number, cleanups>> ELSE NewLpJob("end")
    /\ UNCHANGED <<interrupted, targets, disabled, lpJob, codes, put, threads>>

\* The generator or the monitoring, which end before, raised: the stages that
\* are left are skipped.
EndSkipped ==
    /\ Moves(main) /\ main \in {"ending", "end"}
    /\ Now("cleanup")
    /\ UNCHANGED <<interrupted, back, targets, cleanups, job, codes, put, threads>>

EndJob ==
    /\ Moves("endJob")
    /\ interrupted' = (interrupted \/ rc # 0)
    /\ left' = 1 /\ back' = "end"
    /\ Now("endConfs")
    /\ UNCHANGED <<locked, cleanups, job, codes, put, threads>>

EndConfs == Prepared("endConfs", "unlock")

Unlocked ==
    /\ Succeeds("unlock")
    /\ left' = left + 1
    /\ UNCHANGED <<main, back, locked, cleanups, job, codes, put>>

AllUnlocked ==
    /\ Moves("unlock") /\ left > Len(locked)
    /\ Now(IF back = "end" THEN "post" ELSE "cleanup")
    /\ UNCHANGED <<interrupted, back, targets, cleanups, job, codes, put, threads>>

\* The core logs what end_test and post_process raise, a cleanup drops it.
EndFails ==
    /\ \/ main \in {"job", "config"} /\ back # "prepare"
       \/ main \in {"endConfs", "unlock", "cause", "postConfs", "close"}
    /\ Fails(Bad)
    /\ LET ending == main = "endConfs" \/ (back = "end" /\ main \in {"job", "config", "unlock"})
           cleaning == main = "close" \/ back \in {"close", "cleanup"}
       IN /\ Now(IF ending THEN "post" ELSE "cleanup")
          /\ rc' = IF rc = 0 /\ ~cleaning THEN 1 ELSE rc
    /\ UNCHANGED <<back, targets, cleanups, job, retcode, finished, put>>

\* Mutant: only the seconds get their sentinel.
PostProcessHalf ==
    /\ Moves("post")
    /\ retcode' = rc /\ Now("join")
    /\ queue' = [queue EXCEPT !["data"] = Append(@, None)]
    /\ UNCHANGED <<interrupted, back, targets, cleanups, job, rc, finished, put, thread>>

PostProcess ==
    /\ Moves("post")
    /\ IF disabled THEN Now("cleanup") /\ UNCHANGED <<retcode, queue>>
       ELSE /\ retcode' = rc /\ Now("join")
            /\ queue' = [s \in Senders |-> Append(queue[s], None)]
    /\ UNCHANGED <<interrupted, back, targets, cleanups, job, rc, finished, put, thread>>

\* Mutant: the thread of the seconds is not waited for.
JoinedMonitoring == thread["monitoring"] \in {"idle", "dead"}

Joined == \A s \in Senders : thread[s] \in {"idle", "dead"}

\* The senders ended; perhaps the cause of an autostop is reported.
Finished ==
    /\ Moves("join") /\ Joined
    /\ finished' = TRUE
    /\ \/ lpJob /\ Now("postConfs") /\ UNCHANGED <<back, number, cleanups>>
       \/ lpJob /\ Now("cause") /\ UNCHANGED <<back, number, cleanups>>
       \/ ~lpJob /\ NewLpJob("post")
    /\ UNCHANGED <<interrupted, targets, disabled, lpJob, rc, retcode, put, threads>>

-----------------------------------------------------------------------------
(***************************************************************************)
(* cleanup: the actions, the latest first                                  *)
(***************************************************************************)

\* Mutant: the first action comes first.
CleanupInOrder ==
    /\ Moves("cleanup")
    /\ IF cleanups = << >>
       THEN Now("done") /\ UNCHANGED <<interrupted, back, left, number, cleanups>>
       ELSE LET action == Head(cleanups) IN
            /\ interrupted' = (interrupted \/ action = "join")
            /\ left' = 1
            /\ IF action = "close" /\ ~lpJob
               THEN /\ back' = "close" /\ number' = IF opt.given THEN 1 ELSE None
                    /\ Now(IF opt.given THEN "config" ELSE "job")
               ELSE back' = "cleanup" /\ Now(IF action = "join" THEN "joinThreads" ELSE action)
                    /\ UNCHANGED number
            /\ cleanups' = Tail(cleanups)
    /\ UNCHANGED <<locked, disabled, lpJob, codes, put, threads>>

Cleanup ==
    /\ Moves("cleanup")
    /\ IF cleanups = << >>
       THEN Now("done") /\ UNCHANGED <<interrupted, back, left, number, cleanups>>
       ELSE LET action == Last(cleanups) IN
            /\ interrupted' = (interrupted \/ action = "join")
            /\ left' = 1
            /\ IF action = "close" /\ ~lpJob
               THEN /\ back' = "close" /\ number' = IF opt.given THEN 1 ELSE None
                    /\ Now(IF opt.given THEN "config" ELSE "job")
               ELSE back' = "cleanup" /\ Now(IF action = "join" THEN "joinThreads" ELSE action)
                    /\ UNCHANGED number
            /\ cleanups' = Front(cleanups)
    /\ UNCHANGED <<locked, disabled, lpJob, codes, put, threads>>

ThreadsJoined ==
    /\ Moves("joinThreads") /\ Joined
    /\ Now("cleanup")
    /\ UNCHANGED <<interrupted, back, targets, cleanups, job, codes, put, threads>>

MainDoes ==
    \/ CallContinues \/ JobCreated \/ JobReady
    \/ Prepare \/ Locking \/ TargetLocked \/ Locked \/ PrepareFails \/ TaskClosed
    \/ Prepared("task", "edit") \/ Prepared("edit", "confs") \/ Prepared("confs", "ready")
    \/ Start \/ NotStarted \/ Prepared("startConfs", "run") \/ StartFails
    \/ TestEnds \/ EndTest \/ EndSkipped \/ EndJob \/ EndConfs \/ Unlocked \/ AllUnlocked \/ EndFails
    \/ PostProcess \/ Finished \/ Prepared("cause", "postConfs") \/ Prepared("postConfs", "cleanup")
    \/ Cleanup \/ ThreadsJoined \/ Prepared("close", "cleanup")

-----------------------------------------------------------------------------
(***************************************************************************)
(* The threads                                                             *)
(***************************************************************************)

Thread(t, state) == thread' = [thread EXCEPT ![t] = state]

\* __uploader.  The item that is pushed stays in the queue of the model until
\* its push ends.
Push(s, results) ==
    /\ thread[s] = "loop" /\ queue[s] # << >> /\ Head(queue[s]) # None
    /\ ~(interrupted /\ call[s] = NoCall)
    /\ Client(s, s, Head(queue[s]), results)
    /\ UNCHANGED <<opt, core, stages>>

PushContinues(s) == Push(s, {}) /\ UNCHANGED <<interrupted, threads, failed>>

\* Mutant: what could not be pushed is put into the queue again.
PushedLater(s) ==
    /\ \/ Push(s, {"ok"}) /\ queue' = [queue EXCEPT ![s] = Tail(@)]
       \/ /\ Push(s, {"nothing", "HTTPError", "StoppedFromOnline", "NetworkError", "NotAvailable", "UnderMaintenance"})
          /\ queue' = [queue EXCEPT ![s] = Append(Tail(@), Head(@))]
    /\ call'[s] = NoCall
    /\ UNCHANGED <<interrupted, thread, failed>>

Pushed(s) ==
    /\ \/ Push(s, {"ok"}) /\ UNCHANGED <<interrupted, thread, failed>>
       \/ /\ failed' = failed \cup {s}
          /\ \/ Push(s, {"nothing", "HTTPError"}) /\ UNCHANGED <<interrupted, thread>>
             \/ Push(s, {"StoppedFromOnline"}) /\ Thread(s, "purge") /\ UNCHANGED interrupted
             \/ Push(s, {"NetworkError", "NotAvailable", "UnderMaintenance"})
                /\ interrupted' = TRUE /\ UNCHANGED thread
    /\ call'[s] = NoCall
    /\ queue' = [queue EXCEPT ![s] = Tail(@)]

\* The end of the loop: the event, or the sentinel.
LoopEnds(s) ==
    /\ thread[s] = "loop" /\ call[s] = NoCall
    /\ \/ interrupted /\ UNCHANGED queue
       \/ /\ ~interrupted /\ queue[s] # << >> /\ Head(queue[s]) = None
          /\ queue' = [queue EXCEPT ![s] = Tail(@)]
    /\ Thread(s, "purge")
    /\ UNCHANGED <<clientVars, stages, failed>>

Purge(s) ==
    /\ thread[s] = "purge"
    /\ IF queue[s] = << >> THEN Thread(s, "dead") /\ UNCHANGED queue
       ELSE /\ queue' = [queue EXCEPT ![s] = Tail(@)]
            /\ IF Head(queue[s]) = None THEN Thread(s, "dead") ELSE UNCHANGED thread
    /\ UNCHANGED <<clientVars, stages, failed>>

\* __send_status
Report(results) ==
    /\ thread["status"] = "loop"
    /\ Client("status", "status", None, results)
    /\ UNCHANGED <<opt, core, interrupted, queue, failed, main, back, targets, cleanups, job, rc, finished, put>>

Reported ==
    \/ Report({}) /\ UNCHANGED <<thread, retcode>>
    \/ /\ \/ Report({"ok", "nothing"}) /\ UNCHANGED retcode
             /\ Thread("status", IF finished \/ interrupted THEN "dead" ELSE "loop")
          \/ Report({"StoppedFromOnline"}) /\ Thread("status", "dead") /\ retcode' = 8
          \/ Report({"NetworkError", "NotAvailable", "UnderMaintenance", "HTTPError"})
             /\ Thread("status", "dead") /\ UNCHANGED retcode
       /\ call'["status"] = NoCall

Sender(s) == PushContinues(s) \/ Pushed(s) \/ LoopEnds(s) \/ Purge(s)
Main == MainDoes \/ (\E s \in Senders : Put(s))

Next ==
    \/ Main \/ Interrupt
    \/ \E s \in Senders : Sender(s)
    \/ Reported

Spec == Init /\ [][Next]_vars

\* As long as a thread of the plugin can do something, one of them does.
Fairness == WF_vars(MainDoes \/ (\E s \in Senders : Sender(s)) \/ Reported)

FairSpec == Spec /\ Fairness

-----------------------------------------------------------------------------
(***************************************************************************)
(* Properties                                                              *)
(***************************************************************************)

\* Each stream reaches the service in the order it was put; an item is there
\* twice only in a row, after an answer was lost.
PushedInOrder ==
    \A s \in Streams :
        /\ \A i, j \in DOMAIN taken[s] : i < j => taken[s][i] <= taken[s][j]
        /\ Len(taken[s]) <= Cardinality(ToSet(taken[s])) + opt.faults - faults

\* When post_process has joined the senders, and nothing told them to stop and
\* no push failed, the service has all the seconds and all the monitoring data.
QuietRunUploadsAll ==
    finished /\ ~interrupted /\ failed \cap Streams = {} =>
        \A s \in Streams : ToSet(taken[s]) = 1 .. put[s]

\* The service takes nothing for a job that was closed, not even from a push
\* that is repeated.
NothingAfterClose == [][closed # {} => UNCHANGED taken]_vars

\* In the end the targets that the plugin knows to be locked are unlocked, and
\* its job is closed, unless the calls for it failed.
CleanedUp ==
    main = "done" =>
        /\ "unlock" \notin failed => ToSet(locked) \cap held = {}
        /\ failed \cap {"create", "config", "close"} = {} /\ number # None => number \in closed

\* lock_target tries a target that another test holds again, without end, when
\* neither ignore_target_lock nor an interrupt ends it.
AwaitsTarget == main = "lock" /\ call["main"].maintenance > 1 /\ ~opt.ignore /\ ~core

\* The stages of the plugin come to an end, though calls fail, answers are lost
\* and the threads are joined, unless a target is held by another test for ever.
TankEnds == []<>~AwaitsTarget => <>(main = "done")
=============================================================================
