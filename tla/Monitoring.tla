----------------------------- MODULE Monitoring -----------------------------
(***************************************************************************)
(* The monitoring plugins: the stages of the Telegraf plugin               *)
(* (plugins/Telegraf/plugin.py) with its collector (collector.py) and      *)
(* agents, or those of a plugin with panels (MonitoringPlugin of           *)
(* common/interfaces.py), what they publish, and the criterion of autostop *)
(* that counts the published seconds over a limit.                         *)
(*                                                                         *)
(* A behaviour is of one plugin (opt.telegraf) and the state of the other  *)
(* does not change.                                                        *)
(***************************************************************************)
EXTENDS TelegrafAgent, MonitoringPanels

CONSTANTS
    Options,   \* what is tried
    Watched,   \* the host of the criterion,
    Levels,    \* the seconds in which "mem" is over its limit,
    Limit      \* and how many seconds in a row trigger it

\* A configuration names a host once (see config_parser.py, parse_yaml).
MonitoringAssumption ==
    /\ Hosts \in Seq(ToSet(Hosts)) /\ IsInjective(Hosts)
    /\ Options \subseteq
         [telegraf : BOOLEAN, die : BOOLEAN, seconds : [ToSet(Hosts) -> Nat], late : Nat,
          metrics : [ToSet(Hosts) -> SUBSET Metrics], trash : SUBSET ToSet(Hosts), start : Nat, lower : BOOLEAN]
    /\ Services \subseteq [last : Nat, faults : Nat, quick : BOOLEAN, lag : [Series -> Nat]]
    /\ Limit \in Nat \ {0}

ASSUME MonitoringAssumption

VARIABLES
    stage,       \* the stage of the tank's main thread
    agents,      \* the collector's agents,
    first,       \* first_data_received,
    collected,   \* __collected_data
    polled,      \* the plugin's is_test_finished has not raised
    monitoring,  \* the plugin has a collector
    uninstalled, \* agents that stop() has uninstalled
    published,   \* history: the chunks that the listeners got
    criterion    \* seconds_count, triggered

collector == <<agents, first, collected, polled, monitoring, uninstalled>>
telegraf == <<ag, collector>>
monitoringVars == <<opt, stage, telegraf, panels, published, criterion>>

NoService == [last |-> 0, faults |-> 0, quick |-> TRUE, lag |-> [s \in Series |-> 0]]

Now(p) == stage' = p

MonitoringInit ==
    /\ opt \in Options
    /\ stage = IF opt.telegraf THEN "prepare" ELSE "panels"
    /\ ag = [a \in ToSet(Hosts) |-> NewAgent]
    /\ agents = << >> /\ first = FALSE /\ collected = << >> /\ polled = TRUE /\ monitoring = TRUE
    /\ uninstalled = 0
    /\ service \in IF opt.telegraf THEN {NoService} ELSE Services
    /\ PanelsInit
    /\ published = << >> /\ criterion = [count |-> 0, triggered |-> FALSE]

-----------------------------------------------------------------------------
(***************************************************************************)
(* The criterion: it counts the chunks of its host in a row                *)
(***************************************************************************)

\* A metric that is not in the chunk is compared as 0.
Over(chunk) == LET high == "mem" \in chunk.keys /\ chunk.ts \in Levels
               IN  IF opt.lower THEN ~high ELSE high

\* Mutant: a second that is not over the limit does not start the count again.
CountedOn(c, chunk) ==
    IF c.triggered \/ chunk.host # Watched \/ ~Over(chunk) THEN c
    ELSE [count |-> c.count + 1, triggered |-> c.count + 1 >= Limit]

Counted(c, chunk) ==
    IF c.triggered \/ chunk.host # Watched THEN c
    ELSE IF ~Over(chunk) THEN [c EXCEPT !.count = 0]
    ELSE [count |-> c.count + 1, triggered |-> c.count + 1 >= Limit]

Publish(chunks) ==
    /\ published' = published \o chunks
    /\ criterion' = FoldLeft(Counted, criterion, chunks)

PublishNothing == UNCHANGED <<published, criterion>>

-----------------------------------------------------------------------------
(***************************************************************************)
(* Telegraf: prepare_test and start_test                                   *)
(***************************************************************************)

\* Each agent can be installed, or not, on its host; none raises.
Installable == SUBSET ToSet(Hosts)

Install ==
    /\ stage = "prepare" /\ Now("start")
    /\ \E S \in Installable : agents' = Only(Hosts, S)
    /\ UNCHANGED <<ag, first, collected, polled, monitoring, uninstalled>> /\ PublishNothing

Started(n) == [a \in DOMAIN ag |->
                 IF a \in ToSet(SubSeq(agents, 1, n)) THEN StartAgent(a, ag[a]) ELSE ag[a]]

StartAgents ==
    /\ stage = "start" /\ Now("wait")
    /\ ag' = Started(Len(agents))
    /\ UNCHANGED collector /\ PublishNothing

\* An agent does not start: those before it run on, and no cleanup is added.
StartRaises ==
    /\ stage = "start" /\ agents # << >>
    /\ \E n \in 0..(Len(agents) - 1) : ag' = Started(n)
    /\ monitoring' = opt.die   \* prepare_test raises, or goes on without
    /\ Now(IF opt.die THEN "over" ELSE "poll")
    /\ UNCHANGED <<agents, first, collected, polled, uninstalled>> /\ PublishNothing

-----------------------------------------------------------------------------
(***************************************************************************)
(* poll: the agents in turn, every block that is in their queues, until    *)
(* one with trash                                                          *)
(***************************************************************************)

HasBlocks == \E i \in DOMAIN agents : ag[agents[i]].queue # << >>

TakeBlock(p, a, block) ==
    IF p.trash THEN p
    ELSE [ag |-> [p.ag EXCEPT ![a].queue = SubSeq(@, 2, Len(@)), ![a].prev = PrevCheck(@, block)],
          got |-> p.got \o Decode(a, p.ag[a].prev, block),
          trash |-> Good(block) # block]

TakeQueue(p, a) == FoldLeft(LAMBDA q, block : TakeBlock(q, a, block), p, ag[a].queue)
Polled == FoldLeft(TakeQueue, [ag |-> ag, got |-> << >>, trash |-> FALSE], agents)

SinceStart(chunks) == Only(chunks, {c \in ToSet(chunks) : c.ts >= opt.start})
HasResults(c) == c.keys # {} \/ c.net >= 0

\* While prepare_test waits for the first data, load_start_time is not set.
WaitPolls ==
    /\ stage = "wait" /\ ~first /\ HasBlocks
    /\ LET p == Polled IN
         /\ ag' = p.ag
         /\ first' = \E i \in DOMAIN p.got : HasResults(p.got[i])
    /\ UNCHANGED <<stage, agents, collected, polled, monitoring, uninstalled>> /\ PublishNothing

\* First data, or 75 polls.
WaitEnds ==
    /\ stage = "wait" /\ Now("poll")
    /\ UNCHANGED telegraf /\ PublishNothing

\* is_test_finished: a poll that met trash returns 0, which has no length; the
\* core calls the method no more.
Poll ==
    /\ stage = "poll" /\ monitoring /\ polled /\ HasBlocks
    /\ LET p == Polled
           all == collected \o SinceStart(p.got)
       IN /\ ag' = p.ag
          /\ polled' = ~p.trash
          /\ collected' = IF p.trash THEN all ELSE << >>
          /\ Publish(IF p.trash THEN << >> ELSE all)
    /\ UNCHANGED <<stage, agents, first, monitoring, uninstalled>>

-----------------------------------------------------------------------------
(***************************************************************************)
(* end_test, and the cleanup                                               *)
(***************************************************************************)

TestEnds ==
    /\ stage = "poll"
    /\ Now(IF monitoring THEN "uninstall" ELSE "over")
    /\ ag' = IF monitoring THEN [a \in DOMAIN ag |-> Tell(ag[a])] ELSE ag
    /\ UNCHANGED collector /\ PublishNothing

\* Mutant: a remote agent is waited for as a local one is.
UninstallAll ==
    /\ stage = "uninstall" /\ uninstalled < Len(agents)
    /\ ag[agents[uninstalled + 1]].state = "exited"
    /\ Uninstalled(agents[uninstalled + 1])
    /\ uninstalled' = uninstalled + 1
    /\ UNCHANGED <<stage, agents, first, collected, polled, monitoring>> /\ PublishNothing

Uninstall ==
    /\ stage = "uninstall" /\ uninstalled < Len(agents)
    /\ Uninstalled(agents[uninstalled + 1])
    /\ uninstalled' = uninstalled + 1
    /\ UNCHANGED <<stage, agents, first, collected, polled, monitoring>> /\ PublishNothing

\* The rest of stop(): the agents are removed from the list that is gone
\* through, which leaves every second one; then the rest is published.
RestOf(seq) == [i \in 1..(Len(seq) \div 2) |-> seq[2 * i]]

\* Mutant: the rest is not published.
GiveNoRest ==
    /\ stage = "uninstall" /\ uninstalled = Len(agents)
    /\ agents' = RestOf(agents) /\ uninstalled' = 0
    /\ PublishNothing
    /\ Now("over")
    /\ UNCHANGED <<ag, first, collected, polled, monitoring>>

GiveRest ==
    /\ stage = "uninstall" /\ uninstalled = Len(agents)
    /\ agents' = RestOf(agents) /\ uninstalled' = 0
    /\ Publish(collected)
    /\ Now("over")
    /\ UNCHANGED <<ag, first, collected, polled, monitoring>>

TelegrafStages ==
    \/ Install \/ StartAgents \/ StartRaises \/ WaitEnds \/ TestEnds \/ Uninstall \/ GiveRest
Polls == WaitPolls \/ Poll

-----------------------------------------------------------------------------
(***************************************************************************)
(* A plugin with panels: start_test, the polls and end_test                *)
(***************************************************************************)

PanelsPublish ==
    /\ published' = published \o panel.data
    /\ panel' = [panel EXCEPT !.data = << >>]
    /\ UNCHANGED <<service, now, sensor, stop, criterion>>

PanelsStart == stage = "panels" /\ Now("panelsPoll") /\ CollectorStarts /\ PublishNothing
PanelsPoll == stage = "panelsPoll" /\ panel.data # << >> /\ UNCHANGED stage /\ PanelsPublish

PanelsStop ==
    /\ stage = "panelsPoll" /\ Now("join") /\ stop' = TRUE
    /\ UNCHANGED <<service, now, sensor, panel>> /\ PublishNothing

\* The sensors are joined, then the panels, and what they left is polled.
PanelsJoined ==
    /\ stage = "join" /\ sensor.thread = "dead" /\ panel.thread = "dead"
    /\ Now("over") /\ PanelsPublish

PanelsStages == PanelsStart \/ PanelsPoll \/ PanelsStop \/ PanelsJoined

-----------------------------------------------------------------------------
Agents == \E a \in DOMAIN ag : AgentStep(a) /\ UNCHANGED <<opt, stage, collector, panels, published, criterion>>
Targets == \E a \in DOMAIN ag : Environment(a) /\ UNCHANGED <<opt, stage, collector, panels, published, criterion>>
PanelThreads == Threads /\ UNCHANGED <<opt, stage, telegraf, published, criterion>>
World == Tick \/ NotAnswered

Works ==
    \/ TelegrafStages /\ UNCHANGED <<opt, panels>>
    \/ Agents
    \/ PanelsStages /\ UNCHANGED <<opt, telegraf>>
    \/ opt.telegraf = FALSE /\ PanelThreads

MonitoringNext ==
    \/ Works \/ Targets
    \/ Polls /\ UNCHANGED <<opt, panels>>
    \/ opt.telegraf = FALSE /\ World /\ UNCHANGED <<opt, stage, telegraf, published, criterion>>

MonitoringSpec == MonitoringInit /\ [][MonitoringNext]_monitoringVars

\* The threads of the tank and of the agents run, and a test ends; telegraf and
\* the service need not write or fail, and the end does not rest on the polls.
FairMonitoring == MonitoringSpec /\ WF_monitoringVars(Works)

-----------------------------------------------------------------------------
(***************************************************************************)
(* Properties                                                              *)
(***************************************************************************)

\* Where in the published chunks those of an agent are.
Of(a) == {i \in DOMAIN published : published[i].host = a}

\* When a target's lines are late by a second at most and it prints no trash,
\* its seconds come once each and in order, and the growth of a counter is that
\* since the second before: what the cache of the two newest seconds and
\* prev_check are for (agent.py, reader.py).
GrowthIsExact ==
    opt.telegraf /\ opt.late <= 1 /\ opt.trash = {} =>
      \A a \in DOMAIN ag : \A i, j \in Of(a) : i < j =>
        /\ published[i].ts < published[j].ts
        /\ Of(a) \cap (i + 1)..(j - 1) = {} => published[j].net = published[j].ts - published[i].ts

\* Every second that the reader decoded after the start, save those of a block
\* with trash, has been published when end_test returns, also when a poll
\* failed and the plugin is polled no more (plugin.py:213-230).
DecodedIsPublished ==
    stage = "over" => \A i \in DOMAIN collected : collected[i] \in ToSet(published)

\* The listeners get the seconds of the agents, all of them and as they were.
SecondsExact == GrowthIsExact /\ DecodedIsPublished

\* The criterion has triggered exactly when as many published seconds of its
\* host in a row were over the limit (plugin.py:369-410).
Triggering(row) == Cardinality(row) = Limit /\ \A k \in row : Over(published[k])
TriggersExactly ==
    opt.telegraf => (criterion.triggered <=>
                       \E i, j \in Of(Watched) : i <= j /\ Triggering(Of(Watched) \cap i..j))

\* What the service had in the windows that the sensor has moved over has been
\* published when end_test returns, if series are not late and a request is
\* shorter than the pause before a panel is closed (monitoring.py:141-156,
\* sensor.py:63-68).
Published(s, t) == \E i \in DOMAIN published : \E item \in published[i] : item.ts = t /\ s \in item.series
PanelsGiveAll ==
    ~opt.telegraf /\ stage = "over" /\ service.quick /\ (\A s \in Series : service.lag[s] = 0) =>
      \A s \in Series, t \in 0..(sensor.from - 1) : t <= service.last => Published(s, t)

\* The plugins end, unless a local agent waits for a second that never comes:
\* LocalhostClient.uninstall has no timeout (client.py:137), and the agent's
\* Drain is no daemon.
PluginEnds == <>(stage = "over" \/ \E a \in Local : Stuck(a))
=============================================================================
