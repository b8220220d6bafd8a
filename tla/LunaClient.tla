----------------------------- MODULE LunaClient -----------------------------
(***************************************************************************)
(* The Luna client of a data session (data_manager/clients/luna.py): a     *)
(* thread that registers metrics with the service, a thread that uploads   *)
(* their data, and the number of the job, which the first that asks for it *)
(* makes.                                                                  *)
(*                                                                         *)
(* A request ends in one of the outcomes below, its retries (send_chunk)   *)
(* included; every one but the plain one takes one of the instance's       *)
(* faults.                                                                 *)
(***************************************************************************)
EXTENDS MetricsRouter

CONSTANTS MaxLines   \* max_df_len

ASSUME LunaAssumption == MaxLines \in Nat \ {0}

VARIABLES
    luna,      \* failed, job_number, put is still the method, pending_queue, public_ids
    register,  \* RegisterWorkerThread
    lock,      \* its lock is held
    worker,    \* WorkerThread
    server     \* what the service has got, and the faults that are left

threads == <<luna, register, lock, worker, server>>

Plain == [times |-> 1, result |-> "ok"]

\* How many times the service did it, and what send_chunk and raise_for_status
\* come to: an answer, no connection, or an error of another kind.
Outcomes == IF server.faults = 0 THEN {Plain}
            ELSE {Plain, [Plain EXCEPT !.times = 2]}
                   \cup {[times |-> n, result |-> r] : n \in 0..1, r \in {"connection", "error"}}

Faulty(o) == [faults |-> IF o = Plain THEN 0 ELSE 1, shaky |-> o.times = 2 \/ o.result = "connection"]

Used(o, s) == [s EXCEPT !.faults = @ - Faulty(o).faults, !.shaky = @ \/ Faulty(o).shaky]

LunaInit ==
    /\ luna = [failed |-> FALSE, job |-> "unknown", put |-> TRUE, queue |-> << >>, ids |-> {}]
    /\ register = [at |-> "loop", todo |-> << >>, metric |-> "none", stopped |-> FALSE, interrupted |-> FALSE]
    /\ lock = FALSE
    /\ worker = [at |-> "loop", data |-> << >>, left |-> << >>, part |-> "whole", final |-> FALSE,
                 stopped |-> FALSE, interrupted |-> FALSE]
    /\ server = [jobs |-> 0, closed |-> FALSE, created |-> << >>, stored |-> {}, again |-> {},
                 faults |-> opt.faults, shaky |-> FALSE]

Stopped(thread) == [thread EXCEPT !.stopped = TRUE]
Interrupted(thread) == [thread EXCEPT !.stopped = TRUE, !.interrupted = TRUE]

-----------------------------------------------------------------------------
(***************************************************************************)
(* job_number: a property that is computed once, under a lock, and then    *)
(* kept, a failure too; an answer without a number raises and is not kept. *)
(***************************************************************************)

MakesJob(o) ==
    /\ luna.job = "unknown" /\ ~luna.failed
    /\ server' = Used(o, [server EXCEPT !.jobs = @ + o.times])

JobMade(o) ==
    /\ MakesJob(o) /\ o.result = "ok"
    /\ luna' = [luna EXCEPT !.job = "made"]
    /\ UNCHANGED <<register, lock, worker>>

JobFails(o) ==
    /\ MakesJob(o) /\ o.result # "ok"
    /\ luna' = [luna EXCEPT !.job = "none", !.failed = TRUE, !.put = FALSE]
    /\ register' = Interrupted(register) /\ worker' = Interrupted(worker)
    /\ UNCHANGED lock

\* The answer is empty: ValueError in the thread that asked.
NoJobId ==
    /\ server.faults > 0 /\ MakesJob([Plain EXCEPT !.times = 0])
    /\ luna' = [luna EXCEPT !.failed = TRUE]
    /\ worker' = Interrupted(worker)
    /\ UNCHANGED lock

\* After that the client has failed, and no number is asked for.
NoJobAnyMore ==
    /\ luna.job = "unknown" /\ luna.failed
    /\ luna' = [luna EXCEPT !.job = "none"]
    /\ UNCHANGED <<register, lock, worker, server>>

-----------------------------------------------------------------------------
(***************************************************************************)
(* put: what the router calls is the method, what the client calls itself  *)
(* is what interrupt() has put in its place.                               *)
(***************************************************************************)

Given(items) == IF luna.failed THEN luna.queue ELSE luna.queue \o items

PutBack(queue, item) == IF luna.put /\ ~luna.failed THEN Append(queue, item) ELSE queue

-----------------------------------------------------------------------------
(***************************************************************************)
(* RegisterWorkerThread                                                    *)
(***************************************************************************)

\* metrics_to_register is ordered by the first time a key was set.
Added(todo, m) == IF Contains(todo, m) THEN todo ELSE Append(todo, m)

Parent(m) == opt.metrics[m].parent
WaitsForParent(m) == Parent(m) # "none" /\ Parent(m) \notin luna.ids

Taken(m, todo) ==
    IF m \in luna.ids THEN [register EXCEPT !.todo = todo]
    ELSE IF WaitsForParent(m) THEN [register EXCEPT !.todo = Added(Added(todo, Parent(m)), m)]
    ELSE [register EXCEPT !.todo = todo, !.at = "ask", !.metric = m]

TakeMetric ==
    /\ register.at = "loop" /\ register.todo # << >> /\ ~register.interrupted /\ ~lock
    /\ register' = Taken(register.todo[1], Tail(register.todo))
    /\ UNCHANGED <<luna, lock, worker, server>>

RegisterMakesJob ==
    /\ register.at = "ask"
    /\ \/ \E o \in Outcomes : JobMade(o) \/ JobFails(o)
       \/ NoJobAnyMore
       \/ NoJobId /\ register' = [register EXCEPT !.at = "dead"]

Created(o) == Used(o, [server EXCEPT !.created = @ \o [i \in 1..o.times |-> register.metric]])

\* Also with no job: then the service is told that there is none.
Register(o) ==
    /\ register.at = "ask" /\ luna.job # "unknown" /\ o.result = "ok"
    /\ server' = Created(o)
    /\ luna' = [luna EXCEPT !.ids = @ \cup {register.metric}]
    /\ register' = [register EXCEPT !.at = "loop"]
    /\ UNCHANGED <<lock, worker>>

\* The handler gives the lock back, which the thread has given back already: it
\* dies of that, unless the lock is the other thread's at that moment.
RegisterFails(o) ==
    /\ register.at = "ask" /\ luna.job # "unknown" /\ o.result # "ok"
    /\ server' = Created(o)
    /\ IF lock
       THEN /\ lock' = FALSE
            /\ luna' = [luna EXCEPT !.put = FALSE]
            /\ register' = [Interrupted(register) EXCEPT !.at = "loop"] /\ worker' = Interrupted(worker)
       ELSE /\ register' = [register EXCEPT !.at = "dead"]
            /\ UNCHANGED <<luna, lock, worker>>

RegisterEnds ==
    /\ register.at = "loop" /\ register.stopped
    /\ register.todo = << >> \/ register.interrupted
    /\ register' = [register EXCEPT !.at = "finished", !.todo = << >>]
    /\ UNCHANGED <<luna, lock, worker, server>>

RegisterStep ==
    TakeMetric \/ RegisterMakesJob \/ (\E o \in Outcomes : Register(o) \/ RegisterFails(o)) \/ RegisterEnds

-----------------------------------------------------------------------------
(***************************************************************************)
(* WorkerThread                                                            *)
(***************************************************************************)

TableAt(table) == {i \in DOMAIN worker.data : worker.data[i].table = table}

Merged(item) ==
    IF TableAt(item.table) = {} THEN Append(worker.data, [table |-> item.table, lines |-> item.lines])
    ELSE [i \in DOMAIN worker.data |->
            IF i \in TableAt(item.table) THEN [worker.data[i] EXCEPT !.lines = @ \o item.lines] ELSE worker.data[i]]

Full(data) == \E i \in DOMAIN data : Len(data[i].lines) >= MaxLines

Uploads(w, data, final) ==
    [w EXCEPT !.data = data, !.at = "send", !.left = data, !.part = "whole", !.final = final]

TakeData ==
    /\ worker.at = "loop" /\ luna.queue # << >> /\ ~worker.interrupted
    /\ luna.queue[1].metric \in luna.ids
    /\ luna' = [luna EXCEPT !.queue = Tail(@)]
    /\ LET data == Merged(luna.queue[1])
       IN  worker' = IF Full(data) THEN Uploads(worker, data, FALSE) ELSE [worker EXCEPT !.data = data]
    /\ UNCHANGED <<register, lock, server>>

\* Mutant: what has no public id yet is thrown away.
ThrowAway ==
    /\ worker.at = "loop" /\ luna.queue # << >> /\ ~worker.interrupted
    /\ luna.queue[1].metric \notin luna.ids
    /\ luna' = [luna EXCEPT !.queue = Tail(@)]
    /\ worker' = [worker EXCEPT !.at = "lock", !.left = <<luna.queue[1].metric>>]
    /\ UNCHANGED <<register, lock, server>>

\* No public id yet: back to the end of the queue, and the metric is registered.
GiveBack ==
    /\ worker.at = "loop" /\ luna.queue # << >> /\ ~worker.interrupted
    /\ luna.queue[1].metric \notin luna.ids
    /\ luna' = [luna EXCEPT !.queue = PutBack(Tail(@), luna.queue[1])]
    /\ worker' = [worker EXCEPT !.at = "lock", !.left = <<luna.queue[1].metric>>]
    /\ UNCHANGED <<register, lock, server>>

\* Mutant: the metric is not added to those to register.
LockOnly ==
    /\ worker.at = "lock" /\ ~lock /\ lock' = TRUE
    /\ worker' = [worker EXCEPT !.at = "unlock", !.left = << >>]
    /\ UNCHANGED <<register, luna, server>>

AddMetric ==
    /\ worker.at = "lock" /\ ~lock /\ lock' = TRUE
    /\ register' = [register EXCEPT !.todo = Added(@, worker.left[1])]
    /\ worker' = [worker EXCEPT !.at = "unlock", !.left = << >>]
    /\ UNCHANGED <<luna, server>>

\* If the lock has been given back in between, release() raises.
Unlock ==
    /\ worker.at = "unlock" /\ lock' = FALSE
    /\ worker' = [worker EXCEPT !.at = IF lock THEN "loop" ELSE "dead"]
    /\ UNCHANGED <<luna, register, server>>

\* What is left of an interrupted queue is thrown away, and the rows that were
\* taken from it before are uploaded.
WorkerEnds ==
    /\ worker.at = "loop" /\ worker.stopped
    /\ luna.queue = << >> \/ worker.interrupted
    /\ luna' = [luna EXCEPT !.queue = << >>]
    /\ worker' = IF worker.data = << >> THEN [worker EXCEPT !.at = "finished"]
                 ELSE Uploads(worker, worker.data, TRUE)
    /\ UNCHANGED <<register, lock, server>>

-----------------------------------------------------------------------------
(***************************************************************************)
(* __upload_data: table after table; when there is no connection the table *)
(* again in two halves                                                     *)
(***************************************************************************)

Part == LET lines == worker.left[1].lines
            half == Len(lines) \div 2
        IN  CASE worker.part = "whole"  -> lines
              [] worker.part = "first"  -> SubSeq(lines, 1, half)
              [] worker.part = "second" -> SubSeq(lines, half + 1, Len(lines))

Stored(o) ==
    LET lines == {[table |-> worker.left[1].table, line |-> l] : l \in ToSet(Part)}
    IN  IF o.times = 0 THEN Used(o, server)
        ELSE Used(o, [server EXCEPT !.stored = @ \cup lines,
                                    !.again = @ \cup (IF o.times = 2 THEN lines ELSE lines \cap server.stored)])

\* The loop goes over the tables as they were, self.data is new already.
\* Mutant: the rows that were sent are kept.
TableKept(w) ==
    [w EXCEPT !.left = Tail(@), !.part = "whole",
              !.at = IF Len(w.left) > 1 THEN "send" ELSE IF w.final THEN "finished" ELSE "loop"]

TableDone(w) ==
    [w EXCEPT !.data = << >>, !.left = Tail(@), !.part = "whole",
              !.at = IF Len(w.left) > 1 THEN "send" ELSE IF w.final THEN "finished" ELSE "loop"]

\* Both ways failed: the tables that are left are not tried; the rows stay if no
\* table was sent before.
GiveUp(w) == [w EXCEPT !.left = << >>, !.part = "whole", !.at = IF w.final THEN "finished" ELSE "loop"]

PartDone(w) == IF w.part = "first" THEN [w EXCEPT !.part = "second"] ELSE TableDone(w)

Send(o) ==
    /\ worker.at = "send"
    /\ server' = Stored(o)
    /\ UNCHANGED lock
    /\ CASE o.result = "ok" ->
              worker' = PartDone(worker) /\ UNCHANGED <<luna, register>>
         [] o.result = "connection" ->
              /\ worker' = IF worker.part = "whole" THEN [worker EXCEPT !.part = "first"] ELSE GiveUp(worker)
              /\ UNCHANGED <<luna, register>>
         [] o.result = "error" ->
              /\ luna' = [luna EXCEPT !.put = FALSE]
              /\ register' = Interrupted(register) /\ worker' = Interrupted(PartDone(worker))

WorkerStep ==
    TakeData \/ GiveBack \/ AddMetric \/ Unlock \/ WorkerEnds \/ (\E o \in Outcomes : Send(o))
=============================================================================
