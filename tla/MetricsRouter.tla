--------------------------- MODULE MetricsRouter ---------------------------
(***************************************************************************)
(* The data manager of netort (data_manager/manager.py, router.py and      *)
(* common/interfaces.py): metrics, whose data go to one routing queue, and *)
(* the router thread that takes them from it, keeps the last seconds of    *)
(* those that are aggregated and calls every subscriber.                   *)
(*                                                                         *)
(* A data frame is what its rows come from: a row is the second it is of   *)
(* and the call of put that brought it, a line is a raw row, or a second   *)
(* with all the rows that it aggregates.                                   *)
(***************************************************************************)
EXTENDS Integers, Sequences, FiniteSets, SequencesExt

CONSTANTS
    BufferSize,  \* Aggregated.buffer_size, in seconds
    Aggregates   \* the tables of the aggregated types: quantiles, distributions

RouterAssumption ==
    /\ BufferSize \in Nat
    /\ Aggregates \in Seq(ToSet(Aggregates)) /\ IsInjective(Aggregates) /\ ~Contains(Aggregates, "metrics")

ASSUME RouterAssumption

VARIABLES
    opt,      \* what the session is asked to do (never changes)
    metrics,  \* manager.metrics, in the order in which they were made
    routing,  \* routing_queue
    router    \* the thread

-----------------------------------------------------------------------------
(***************************************************************************)
(* Types and their lines                                                   *)
(***************************************************************************)

DataTypes(m) == (IF opt.metrics[m].raw THEN <<"metrics">> ELSE << >>)
                  \o (IF opt.metrics[m].aggregate THEN Aggregates ELSE << >>)

IsAggregated(m) == opt.metrics[m].aggregate

RawLines(m, rows) == {[metric |-> m, second |-> r.second, rows |-> {r}] : r \in rows}

\* One line for a second.
SecondLines(m, rows) ==
    {[metric |-> m, second |-> s, rows |-> {r \in rows : r.second = s}] : s \in {r.second : r \in rows}}

BySecond(lines) ==
    CHOOSE s \in [1..Cardinality(lines) -> lines] : \A i, j \in DOMAIN s : i < j => s[i].second < s[j].second

Lines(table, m, rows) == BySecond(IF table = "metrics" THEN RawLines(m, rows) ELSE SecondLines(m, rows))

-----------------------------------------------------------------------------
(***************************************************************************)
(* The buffer: what is older than BufferSize seconds before the newest row *)
(* is cut off and goes on.                                                 *)
(***************************************************************************)

LastSecond(rows) == Max({r.second : r \in rows})

\* Mutant: the second at the edge of the buffer goes on too.
CutToo(rows) == {r \in rows : r.second <= LastSecond(rows) - BufferSize}

Cut(rows) == {r \in rows : r.second < LastSecond(rows) - BufferSize}

FromBuffer(item) == router.buffer[item.metric] \cup item.rows

\* What one turn gives to the subscribers: the tables of the metric, and with
\* the last piece the rest of every other buffer.
Pieces(item, fromBuffer, others) ==
    LET Piece(t, m, rows) == [table |-> t, metric |-> m, lines |-> Lines(t, m, rows)]
        Own(t, rows) == IF Contains(DataTypes(item.metric), t) /\ rows # {}
                        THEN <<Piece(t, item.metric, rows)>> ELSE << >>
        Rest(t) == [i \in DOMAIN others |-> Piece(t, others[i], router.buffer[others[i]])]
    IN  Own("metrics", item.rows)
          \o FlattenSeq([i \in DOMAIN Aggregates |-> Own(Aggregates[i], fromBuffer) \o Rest(Aggregates[i])])

\* The other buffers, in the order in which they were filled last: any.
Others(item) == SetToSeqs({o \in DOMAIN router.buffer \ {item.metric} : router.buffer[o] # {}})

BufferAfter(item) ==
    IF IsAggregated(item.metric)
    THEN [router.buffer EXCEPT ![item.metric] = FromBuffer(item) \ Cut(FromBuffer(item))]
    ELSE router.buffer

-----------------------------------------------------------------------------
(***************************************************************************)
(* The manager and the thread                                              *)
(***************************************************************************)

RouterInit ==
    /\ metrics = << >> /\ routing = << >>
    /\ router = [stopped |-> FALSE, interrupted |-> FALSE, done |-> FALSE, buffer |-> [m \in DOMAIN opt.metrics |-> {}]]

NewMetric(m) == metrics' = Append(metrics, m) /\ UNCHANGED <<routing, router>>

Frame(k, seconds) == {[put |-> k, second |-> s] : s \in seconds}

PutRows(m, k, seconds) ==
    /\ routing' = Append(routing, [metric |-> m, rows |-> Frame(k, seconds)])
    /\ UNCHANGED <<metrics, router>>

CloseRouter(interrupted) ==
    /\ router' = [router EXCEPT !.stopped = TRUE, !.interrupted = interrupted]
    /\ UNCHANGED <<metrics, routing>>

\* Goes on after close() until one piece is left, that is the last one.
MoreThanOne == IF router.stopped THEN Len(routing) > 1 /\ ~router.interrupted ELSE routing # << >>

\* What the subscribers get of a turn.  With an empty queue it returns before it
\* looks at the buffers.
Routed ==
    IF routing = << >> THEN {<< >>}
    ELSE IF MoreThanOne THEN {Pieces(routing[1], Cut(FromBuffer(routing[1])), << >>)}
    ELSE {Pieces(routing[1], FromBuffer(routing[1]), others) : others \in Others(routing[1])}

Route ==
    /\ ~router.done /\ MoreThanOne
    /\ routing' = Tail(routing)
    /\ router' = [router EXCEPT !.buffer = BufferAfter(routing[1])]
    /\ UNCHANGED metrics

RouteLast ==
    /\ router.stopped /\ ~router.done /\ ~MoreThanOne
    /\ routing' = IF routing = << >> THEN << >> ELSE Tail(routing)
    /\ router' = [router EXCEPT !.done = TRUE]
    /\ UNCHANGED metrics
=============================================================================
