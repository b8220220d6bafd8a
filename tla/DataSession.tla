---------------------------- MODULE DataSession ----------------------------
(***************************************************************************)
(* A data session of netort (DataSession of data_manager/manager.py): its  *)
(* clients, the metrics that its user makes and the rows that he puts, and *)
(* its end. The clients are Luna (LunaClient), the one that writes files   *)
(* (clients/local.py) and the one of Volta (clients/lunapark_volta.py).    *)
(***************************************************************************)
EXTENDS LunaClient

CONSTANTS Options   \* what is tried

DataSessionAssumption ==
    \A o \in Options :
        /\ o.faults \in Nat /\ o.interrupt \in BOOLEAN /\ o.address \in BOOLEAN
        /\ o.clients \in Seq({"luna", "local", "volta"})
        /\ "none" \notin DOMAIN o.metrics
        /\ \A m \in DOMAIN o.metrics :
              /\ o.metrics[m].raw \in BOOLEAN /\ o.metrics[m].aggregate \in BOOLEAN
              /\ o.metrics[m].raw \/ o.metrics[m].aggregate
              /\ o.metrics[m].parent \in DOMAIN o.metrics \cup {"none"}
        /\ o.program \in Seq(ToSet(o.program))
        /\ \A call \in ToSet(o.program) :
              /\ call.call \in {"metric", "put"} => call.metric \in DOMAIN o.metrics
              /\ call.call = "put" => call.seconds \in SUBSET Int /\ IsFiniteSet(call.seconds)

ASSUME DataSessionAssumption

VARIABLES
    main,   \* the thread of the user: where it is, and how far in the program or the clients
    local   \* LocalStorageClient: its queue, its thread and the lines in its files

vars == <<opt, metrics, routing, router, luna, register, lock, worker, server, main, local>>

Init ==
    /\ opt \in Options
    /\ RouterInit /\ LunaInit
    /\ main = [at |-> "build", i |-> 1]
    /\ local = [queue |-> << >>, files |-> << >>, stopped |-> FALSE, done |-> FALSE]

Has(client) == Contains(opt.clients, client)

-----------------------------------------------------------------------------
(***************************************************************************)
(* The constructor: client after client                                    *)
(***************************************************************************)

Goes(place) == main' = [at |-> place, i |-> 1]
Next1 == main' = [main EXCEPT !.i = @ + 1]

Client(place, name) == main.at = place /\ main.i <= Len(opt.clients) /\ opt.clients[main.i] = name
AllClients(place) == main.at = place /\ main.i > Len(opt.clients)

Untouched == UNCHANGED <<opt, metrics, routing, router, threads, local>>

\* Luna's threads have been started when the address is asked for.
BuildLuna ==
    /\ Client("build", "luna")
    /\ IF opt.address THEN Next1 ELSE Goes("raised")
    /\ Untouched

BuildLocal == Client("build", "local") /\ Next1 /\ Untouched

\* Volta's job number is asked for by the constructor: with a number it makes a
\* link, for which it asks for the number again, under the same lock.
BuildVolta ==
    /\ Client("build", "volta")
    /\ \/ Goes("locked") /\ UNCHANGED server
       \/ /\ server.faults > 0 /\ server' = [server EXCEPT !.faults = @ - 1]
          /\ Next1 \/ Goes("raised")   \* no answer, or one without a number
    /\ UNCHANGED <<opt, metrics, routing, router, luna, register, lock, worker, local>>

Built == AllClients("build") /\ Goes("user") /\ Untouched

-----------------------------------------------------------------------------
(***************************************************************************)
(* The user's calls, one after another                                     *)
(***************************************************************************)

Call(name) == main.at = "user" /\ main.i <= Len(opt.program) /\ opt.program[main.i].call = name
Argument == opt.program[main.i]

NewTrueMetric ==
    /\ Call("metric") /\ Next1 /\ NewMetric(Argument.metric)
    /\ UNCHANGED <<opt, threads, local>>

Put ==
    /\ Call("put") /\ Next1 /\ PutRows(Argument.metric, main.i, Argument.seconds)
    /\ UNCHANGED <<opt, threads, local>>

\* The number of the job is asked for by main: the answer that has none raises,
\* and what main was doing ends.
MainMakesJob(ends) ==
    /\ \/ (\E o \in Outcomes : JobMade(o) \/ JobFails(o)) /\ UNCHANGED main
       \/ NoJobAnyMore /\ UNCHANGED main
       \/ NoJobId /\ UNCHANGED register /\ ends
    /\ UNCHANGED <<opt, metrics, routing, router, local>>

\* update_job does nothing when the client has failed, and no failure of its
\* own request is told to the user.
UpdateAsksForJob == Call("update") /\ Has("luna") /\ ~luna.failed /\ MainMakesJob(Next1)

UpdateJob ==
    /\ Call("update") /\ (luna.failed \/ luna.job # "unknown" \/ ~Has("luna"))
    /\ Next1 /\ Untouched

\* update_metric goes over the metrics up to one that is not registered, which
\* has no tag yet and raises, or up to a request that does.
UpdateMetric ==
    /\ Call("update_metric") /\ Next1
    /\ server' \in IF luna.failed \/ ~Has("luna") \/ luna.ids = {} THEN {server}
                   ELSE {Used(o, server) : o \in Outcomes}
    /\ UNCHANGED <<opt, metrics, routing, router, luna, register, lock, worker, local>>

-----------------------------------------------------------------------------
(***************************************************************************)
(* The threads                                                             *)
(***************************************************************************)

\* The callbacks of the subscribers: Volta's skips everything, it is only here
\* when it has failed.
Callbacks(pieces) ==
    /\ luna' = IF Has("luna") THEN [luna EXCEPT !.queue = Given(pieces)] ELSE luna
    /\ local' = IF Has("local") THEN [local EXCEPT !.queue = @ \o pieces] ELSE local
    /\ UNCHANGED <<opt, register, lock, worker, server, main>>

RouterStep == \E pieces \in Routed : (Route \/ RouteLast) /\ Callbacks(pieces)

\* The index of an aggregated frame is no metric's id: such a piece is dropped.
Written(piece) == IF piece.table = "metrics" THEN piece.lines ELSE << >>

Write(queue) == [local EXCEPT !.queue = Tail(queue), !.files = @ \o Written(queue[1])]

LocalWrites ==
    /\ ~local.stopped /\ local.queue # << >>
    /\ local' = Write(local.queue)
    /\ UNCHANGED <<opt, metrics, routing, router, threads, main>>

\* When it is told to stop it takes one more piece.
LocalEnds ==
    /\ local.stopped /\ ~local.done
    /\ local' = [(IF local.queue = << >> THEN local ELSE Write(local.queue)) EXCEPT !.done = TRUE]
    /\ UNCHANGED <<opt, metrics, routing, router, threads, main>>

-----------------------------------------------------------------------------
(***************************************************************************)
(* close(): the router to its end, then client after client; what a client *)
(* raises is caught.                                                       *)
(***************************************************************************)

CloseManager ==
    /\ main.at = "user" /\ main.i > Len(opt.program)
    /\ CloseRouter(opt.interrupt) /\ Goes("join")
    /\ UNCHANGED <<opt, threads, local>>

\* interrupt() calls close of the clients without the argument that it has: no
\* client is told anything.
RouterJoined ==
    /\ main.at = "join" /\ router.done
    /\ Goes(IF opt.interrupt THEN "interrupted" ELSE "close")
    /\ Untouched

At(place) == main' = [main EXCEPT !.at = place]
NextClient == main' = [at |-> "close", i |-> main.i + 1]

LunaUnlessWorker == UNCHANGED <<opt, metrics, routing, router, luna, register, lock, server, local>>

StopWorker ==
    /\ Client("close", "luna") /\ At("job")
    /\ worker' = Stopped(worker) /\ LunaUnlessWorker

CloseAsksForJob == main.at = "job" /\ MainMakesJob(NextClient)

CloseHasJob ==
    /\ main.at = "job" /\ luna.job # "unknown" /\ At("worker")
    /\ worker' = IF luna.job = "none" THEN Interrupted(worker) ELSE worker
    /\ LunaUnlessWorker

Ended(thread) == thread.at \in {"finished", "dead"}

\* Mutant: the job is closed and then the thread that registers is waited for.
WorkerOnly ==
    /\ main.at = "worker" /\ Ended(worker) /\ At("close job")
    /\ register' = Stopped(register)
    /\ UNCHANGED <<opt, metrics, routing, router, luna, lock, worker, server, local>>

WorkerJoined ==
    /\ main.at = "worker" /\ Ended(worker) /\ At("register")
    /\ register' = Stopped(register)
    /\ UNCHANGED <<opt, metrics, routing, router, luna, lock, worker, server, local>>

RegisterJoined ==
    /\ main.at = "register" /\ Ended(register) /\ At("close job")
    /\ Untouched

\* Without an answer it raises; with whatever answer the job counts as closed.
CloseJob ==
    /\ main.at = "close job" /\ NextClient
    /\ \/ luna.failed /\ UNCHANGED server
       \/ ~luna.failed /\ \E o \in Outcomes : server' = Used(o, [server EXCEPT !.closed = @ \/ o.times > 0])
    /\ UNCHANGED <<opt, metrics, routing, router, luna, register, lock, worker, local>>

StopLocal ==
    /\ Client("close", "local") /\ ~local.stopped
    /\ local' = Stopped(local)
    /\ UNCHANGED <<opt, metrics, routing, router, threads, main>>

LocalJoined == Client("close", "local") /\ local.done /\ Next1 /\ Untouched

\* Volta's thread has nothing to do and ends.
CloseVolta == Client("close", "volta") /\ Next1 /\ Untouched

Closed == AllClients("close") /\ Goes("closed") /\ Untouched

Build == BuildLuna \/ BuildLocal \/ BuildVolta \/ Built
User == NewTrueMetric \/ Put \/ UpdateAsksForJob \/ UpdateJob \/ UpdateMetric
Close == \/ CloseManager \/ RouterJoined \/ StopWorker \/ CloseAsksForJob \/ CloseHasJob
         \/ WorkerJoined \/ RegisterJoined \/ CloseJob \/ StopLocal \/ LocalJoined \/ CloseVolta \/ Closed

Main == Build \/ User \/ Close
Local == LocalWrites \/ LocalEnds
LunaStep(step) == Has("luna") /\ step /\ UNCHANGED <<opt, metrics, routing, router, main, local>>

Next == Main \/ RouterStep \/ Local \/ LunaStep(RegisterStep) \/ LunaStep(WorkerStep)

Spec == Init /\ [][Next]_vars

\* Every thread runs on; the lock of the two Luna threads is given to the one
\* that waits for it again and again, and the user makes all his calls.
FairSpec ==
    /\ Spec
    /\ WF_vars(Main) /\ WF_vars(RouterStep) /\ WF_vars(Local)
    /\ WF_vars(LunaStep(WorkerStep)) /\ SF_vars(LunaStep(RegisterStep))
-----------------------------------------------------------------------------
(***************************************************************************)
(* Properties                                                              *)
(***************************************************************************)

Quiet == server.faults = opt.faults

Puts(m) == {i \in DOMAIN opt.program : opt.program[i].call = "put" /\ opt.program[i].metric = m}
RowsOf(m) == UNION {Frame(i, opt.program[i].seconds) : i \in Puts(m)}
RowsIn(m, s) == {r \in RowsOf(m) : r.second = s}

\* No row comes when its second has left the buffer.
InTime(m) == \A a, b \in RowsOf(m) : a.put < b.put => b.second >= a.second - BufferSize

\* luna.py:398-470, 318-340: rows go from the thread's queue back to it, into
\* self.data, to the service and sometimes there again in halves. None is stored
\* twice unless a connection or an answer was lost.
StoredOnce == server.again # {} => server.shaky

\* manager.py:145-153, luna.py:248-260: close() waits for the router and the
\* threads of the client one after another, while a metric without a public id
\* sends its rows round. After it, when no request failed, the service has every
\* raw row, and of aggregated metrics every second that had left the buffer.
QuietKeepsAll ==
    (main.at = "closed" /\ Quiet /\ Has("luna")) =>
        \A m \in ToSet(metrics) :
            /\ opt.metrics[m].raw =>
                  \A r \in RowsOf(m) :
                     [table |-> "metrics", line |-> [metric |-> m, second |-> r.second, rows |-> {r}]] \in server.stored
            /\ IsAggregated(m) =>
                  \A r \in RowsOf(m), t \in ToSet(Aggregates) :
                     r.second < LastSecond(RowsOf(m)) - BufferSize =>
                        \E s \in server.stored : s.table = t /\ s.line.metric = m /\ r \in s.line.rows

\* router.py:52-67, 75-95: the router cuts seconds from a buffer while more rows
\* come. What is uploaded for a second is of all the rows of that second, if no
\* row came later than the buffer allows and the session was not interrupted.
SecondsWhole ==
    \A s \in server.stored :
        (s.table # "metrics" /\ InTime(s.line.metric) /\ ~opt.interrupt) =>
            s.line.rows = RowsIn(s.line.metric, s.line.second)

\* luna.py:318-356: rows ask for their metric to be registered each time that
\* they go round, also while that is under way. The service gets a metric once
\* (unless an answer was lost), after its parent, and rows only of metrics it has.
MetricsInOrder ==
    LET c == server.created
    IN  /\ ~server.shaky => \A i, j \in DOMAIN c : c[i] = c[j] => i = j
        /\ \A i \in DOMAIN c : Parent(c[i]) # "none" => \E j \in 1..(i - 1) : c[j] = Parent(c[i])
        /\ \A s \in server.stored : Contains(c, s.line.metric)

\* What the service holds is what the program gave: rows once, under metrics that
\* were registered once and after their parents.
StoredAsGiven == StoredOnce /\ MetricsInOrder

\* luna.py:248-260: once the job is closed nothing is registered or uploaded.
NothingAfterClose ==
    [][server.closed => UNCHANGED <<server.created, server.stored, server.again>>]_server

\* manager.py:145-160: the session is closed in the end (or interrupted, or its
\* constructor has raised); but not if the constructor of Volta's client waits
\* for its own lock, or if Luna's registering thread has died of a failed request
\* (luna.py:342).
SessionEnds ==
    <>(main.at \in {"closed", "interrupted", "raised", "locked"} \/ register.at = "dead")
=============================================================================
