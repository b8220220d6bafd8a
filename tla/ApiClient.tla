----------------------------- MODULE ApiClient -----------------------------
(***************************************************************************)
(* The client of the load testing service                                  *)
(* (yandextank/plugins/DataUploader/client.py, with the methods of LPJob   *)
(* in plugin.py that call it): every call of the API is a loop of requests *)
(* that are sent again after a network error, during maintenance and, for  *)
(* some calls, when the service is not available.                          *)
(*                                                                         *)
(* The service answers a request as it likes; it may also do what it is    *)
(* asked and the answer may be lost.  Another test may hold the targets,   *)
(* for as long as it likes.  A step of a call is one request; the last one *)
(* ends the call with a result that the caller handles in the same step.   *)
(* The threads interleave between the requests of a call.                  *)
(***************************************************************************)
EXTENDS Naturals, Sequences, FiniteSets

CONSTANTS
    Threads,              \* the threads that call the API
    NetworkAttempts,      \* options network_attempts,
    ApiAttempts,          \* api_attempts
    MaintenanceAttempts   \* and maintenance_attempts

ClientAssumption ==
    /\ NetworkAttempts \in Nat \ {0} /\ ApiAttempts \in Nat \ {0}
    /\ MaintenanceAttempts \in Nat \ {0}

ASSUME ClientAssumption

Streams == {"data", "monitoring"}

VARIABLES
    opt,          \* the options writer (writer_endpoint is set), ignore (ignore_target_lock), strict
                  \* (strict_lock), given (jobno and upload_token); busy (another test may hold the
                  \* targets); the bounds faults, items
    core,         \* the event core.interrupted
    interrupted,  \* the event LPJob.interrupted
    call,         \* the attempts of the call a thread has open, of each kind
    faults,       \* requests that may still go wrong
    taken,        \* the service: what it took of each stream,
    jobs, closed, \* the jobs it created and closed
    held          \* and the targets it holds locked

client == <<call, faults, taken, jobs, closed, held>>
clientVars == <<opt, core, interrupted, client>>

NoCall == [api |-> 1, network |-> 1, maintenance |-> 1]

ClientInit ==
    /\ core = FALSE /\ interrupted = FALSE
    /\ call = [t \in Threads |-> NoCall] /\ faults = opt.faults
    /\ taken = [s \in Streams |-> << >>]
    /\ jobs = 0 /\ closed = {} /\ held = {}

\* The call ends, with one of the results that the caller handles in this step;
\* new_job turns every failure into JobNotCreated.
Return(t, op, result, results) ==
    /\ (IF op = "create" /\ result # "ok" THEN "JobNotCreated" ELSE result) \in results
    /\ call' = [call EXCEPT ![t] = NoCall]

\* The calls that are repeated when the service is not available.
Repeated(op) == op \in {"create", "status"} \cup Streams
\* The requests of the writer service watch neither event.
Written(op) == opt.writer /\ op \in Streams
Fresh(c) == c.network = 1 /\ c.maintenance = 1

\* Where a call looks at LPJob.interrupted: before the first request, and the
\* pushes before every one.
Watches(op, c) ==
    \/ op \in Streams /\ (opt.writer => Fresh(c))
    \/ op = "status" /\ c = NoCall

GiveUp(t, op, results) ==
    /\ Watches(op, call[t]) /\ interrupted
    /\ Return(t, op, "nothing", results)
    /\ UNCHANGED <<faults, taken, jobs, closed, held>>

\* What the service does for the call.
Serve(op, item) ==
    /\ taken' = IF op \in Streams THEN [taken EXCEPT ![op] = Append(@, item)] ELSE taken
    /\ jobs' = IF op = "create" THEN jobs + 1 ELSE jobs
    /\ closed' = IF op = "close" THEN closed \cup {item} ELSE closed
    /\ held' = CASE op = "lock" -> held \cup {item}
                 [] op = "unlock" -> held \ {item}
                 [] OTHER -> held

Idle == UNCHANGED <<taken, jobs, closed, held>>

\* A request goes out and comes back, done or not.
Request(t, op, fault) ==
    /\ ~(Watches(op, call[t]) /\ interrupted)
    /\ fault => faults > 0
    /\ faults' = IF fault THEN faults - 1 ELSE faults

Done(t, op, item, results) ==
    Request(t, op, FALSE) /\ Serve(op, item) /\ Return(t, op, "ok", results)

\* The other codes of 400 and above.
Rejected(t, op, results) ==
    Request(t, op, TRUE) /\ Idle /\ Return(t, op, "HTTPError", results)

\* After 500, 502, 503, 504 (and, for new_job, 410): again, with new loops inside.
AgainAfterApi(t, op, result, results) ==
    IF Repeated(op) /\ call[t].api < ApiAttempts
    THEN call' = [call EXCEPT ![t] = [NoCall EXCEPT !.api = call[t].api + 1]]
    ELSE Return(t, op, result, results)

Unavailable(t, op, results) ==
    Request(t, op, TRUE) /\ Idle /\ AgainAfterApi(t, op, "NotAvailable", results)

Stopped(t, op, results) ==
    /\ Request(t, op, TRUE) /\ Idle
    /\ IF op = "create" THEN AgainAfterApi(t, op, "StoppedFromOnline", results)
       ELSE Return(t, op, "StoppedFromOnline", results)

\* No answer, whether or not the request was served.
NetworkError(t, op, item, results) ==
    /\ Request(t, op, TRUE)
    /\ Idle \/ Serve(op, item)
    /\ IF core /\ ~Written(op) THEN Return(t, op, "nothing", results)
       ELSE IF call[t].network < NetworkAttempts
       THEN call' = [call EXCEPT ![t].network = @ + 1]
       ELSE Return(t, op, "NetworkError", results)

\* 423.  lock_target has pauses of its own: one, or as many as it takes, which
\* are counted up to three.
MaintenanceEnds(op, c) ==
    c.maintenance >= CASE op # "lock" -> MaintenanceAttempts
                       [] opt.ignore -> 2
                       [] OTHER -> c.maintenance + 1

Paused(op, n) == IF op = "lock" /\ n = 3 THEN 2 ELSE n + 1

Maintenance(t, op, results) ==
    /\ Request(t, op, op = "lock" => ~opt.busy) /\ Idle
    /\ IF core /\ ~Written(op) THEN Return(t, op, "nothing", results)
       ELSE IF MaintenanceEnds(op, call[t]) THEN Return(t, op, "UnderMaintenance", results)
       ELSE call' = [call EXCEPT ![t].maintenance = Paused(op, @)]

\* One step of a call: a request that is followed by another, or the end of the
\* call with one of the results.
Client(t, op, item, results) ==
    \/ GiveUp(t, op, results) \/ Done(t, op, item, results) \/ Rejected(t, op, results)
    \/ Unavailable(t, op, results) \/ Stopped(t, op, results)
    \/ NetworkError(t, op, item, results) \/ Maintenance(t, op, results)
=============================================================================
