--------------------------- MODULE TelegrafAgent ---------------------------
(***************************************************************************)
(* Telegraf on a target, the agent that runs beside it                     *)
(* (plugins/Telegraf/agent/agent.py) and the tank's ends of it (client.py, *)
(* reader.py).  Telegraf appends lines to a file; the Consolidator caches  *)
(* them by second and gives out every second but the two newest; a Drain   *)
(* puts those into a queue; the AgentWorker prints the queue, which the    *)
(* tank's reader thread cuts into blocks for the reader that decodes them. *)
(*                                                                         *)
(* A line is a second and one of two metrics: "net" only grows, and its    *)
(* value is its second; "mem" is a level.                                  *)
(***************************************************************************)
EXTENDS Integers, SequencesExt, FiniteSetsExt

CONSTANTS
    Hosts,    \* the hosts of the monitoring configuration, a sequence
    Local     \* those that are the tank itself

VARIABLES
    opt,      \* the bounds seconds, metrics, late, trash, and see Monitoring
    ag        \* for every host: its agent and the tank's ends of it

Metrics == {"net", "mem"}
Trash == [ts |-> 0, keys |-> {}]   \* what is not JSON: a traceback, say
NoCheck == Trash                   \* prev_check before the first second

NewAgent == [state |-> "off", written |-> {}, fresh |-> {}, cache |-> {}, drained |-> FALSE,
             pipe |-> << >>, queue |-> << >>, prev |-> NoCheck, session |-> FALSE, trashed |-> FALSE]

\* The sequence without what is not in S.
Only(seq, S) == FoldLeft(LAMBDA kept, x : IF x \in S THEN Append(kept, x) ELSE kept, << >>, seq)

Alive(a) == ag[a].state \in {"run", "told", "closed"}
Becomes(a, agent) == ag' = [ag EXCEPT ![a] = agent]

-----------------------------------------------------------------------------
\* Lines come second by second, or late by at most opt.late seconds.
Timely(a, ts) ==
    /\ \A l \in ag[a].written : ts >= l[1] - opt.late
    /\ \A u \in 1..(ts - opt.late - 1) : <<u, "net">> \in ag[a].written

Telegraf(a) ==
    /\ Alive(a)
    /\ \E ts \in 1..opt.seconds[a], m \in opt.metrics[a] :
         /\ <<ts, m>> \notin ag[a].written /\ Timely(a, ts)
         /\ Becomes(a, [ag[a] EXCEPT !.written = @ \cup {<<ts, m>>}, !.fresh = @ \cup {<<ts, m>>}])

\* Consolidator: the lines that came are cached; when there are more than two
\* seconds, all but the two newest are given out.  The Drain looks whether it
\* was closed after it put one.
Second(cache, ts) == [ts |-> ts, keys |-> {l[2] : l \in {l \in cache : l[1] = ts}}]

DumpSeconds(cache) ==
    LET seconds == {l[1] : l \in cache}
    IN  {t \in seconds : Cardinality({u \in seconds : u > t}) >= 2}

Ascending(S) == CHOOSE s \in [1..Cardinality(S) -> S] : \A i, j \in DOMAIN s : i < j => s[i] < s[j]

Dump(a, cache) ==
    LET ready == Ascending(DumpSeconds(cache))
    IN  IF ag[a].state \in {"closed", "stopped"} /\ ready # << >> THEN SubSeq(ready, 1, 1) ELSE ready

\* The AgentWorker prints what was given out until it is told to stop.
Consolidate(a) ==
    /\ ag[a].state \notin {"off", "exited"} /\ ~ag[a].drained /\ ag[a].fresh # {}
    /\ LET cache == ag[a].cache \cup ag[a].fresh
           out == Dump(a, cache)
       IN Becomes(a, [ag[a] EXCEPT !.fresh = {},
                        !.cache = {l \in cache : l[1] \notin ToSet(out)},
                        !.pipe = IF ag[a].state = "run" THEN @ \o [i \in 1..Len(out) |-> Second(cache, out[i])]
                                 ELSE @,
                        !.drained = ag[a].state \in {"closed", "stopped"} /\ out # << >>])

PrintTrash(a) ==
    /\ a \in opt.trash /\ ag[a].state = "run" /\ ~ag[a].trashed
    /\ Becomes(a, [ag[a] EXCEPT !.pipe = Append(@, Trash), !.trashed = TRUE])

\* The worker sees that it is finished.
CloseDrain(a) == ag[a].state = "told" /\ Becomes(a, [ag[a] EXCEPT !.state = "closed"])
\* It terminates telegraf; after ten seconds main() kills it.
StopTelegraf(a) == ag[a].state = "closed" /\ Becomes(a, [ag[a] EXCEPT !.state = "stopped"])
\* The process ends when the Drain, which is no daemon, has ended.
Exit(a) == ag[a].state = "stopped" /\ ag[a].drained /\ Becomes(a, [ag[a] EXCEPT !.state = "exited"])

\* The Drain waits for a second that will not come.
Stuck(a) == ag[a].state = "stopped" /\ ~ag[a].drained /\ ag[a].fresh = {}

-----------------------------------------------------------------------------
\* read_buffer: whole lines of a chunk become a block, the rest waits in the
\* buffer.  The reader of a remote agent stops when the agent is told to.
ReadBuffer(a) ==
    /\ ag[a].session /\ (a \notin Local => ag[a].state = "run")
    /\ \E n \in 1..Len(ag[a].pipe) :
         Becomes(a, [ag[a] EXCEPT !.queue = Append(@, SubSeq(ag[a].pipe, 1, n)),
                        !.pipe = SubSeq(@, n + 1, Len(@))])

\* _decode_agents_data: the seconds of a block, "net" as the growth since the
\* second before.  A block with trash gives nothing, yet prev_check has moved.
Diff(prev, second) ==
    IF prev = NoCheck \/ "net" \notin second.keys THEN -1   \* not in the result
    ELSE IF "net" \in prev.keys THEN second.ts - prev.ts ELSE 0

Good(block) == SubSeq(block, 1, SelectInSeq(block \o <<Trash>>, LAMBDA s : s = Trash) - 1)
PrevCheck(prev, block) == IF Good(block) = << >> THEN prev ELSE Last(Good(block))

PrevOf(prev, block, i) == IF i = 1 THEN prev ELSE block[i - 1]

Decode(a, prev, block) ==
    IF Good(block) # block THEN << >>
    ELSE [i \in 1..Len(block) |->
            [host |-> a, ts |-> block[i].ts, keys |-> block[i].keys \ {"net"},
             net |-> Diff(PrevOf(prev, block, i), block[i])]]

-----------------------------------------------------------------------------
StartAgent(a, agent) == [agent EXCEPT !.state = "run", !.session = TRUE]
Tell(agent) == IF agent.state = "run" THEN [agent EXCEPT !.state = "told"] ELSE agent

\* uninstall: a local agent is waited for; a remote one is killed after 5 s.
Uninstalled(a) ==
    /\ a \in Local => ag[a].state \in {"off", "exited"}
    /\ Becomes(a, [ag[a] EXCEPT !.state = IF @ = "off" THEN @ ELSE "exited", !.session = FALSE])

AgentStep(a) ==
    \/ Consolidate(a) \/ CloseDrain(a) \/ StopTelegraf(a) \/ Exit(a) \/ ReadBuffer(a)
Environment(a) == Telegraf(a) \/ PrintTrash(a)
=============================================================================
