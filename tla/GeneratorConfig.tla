--------------------------- MODULE GeneratorConfig ---------------------------
(***************************************************************************)
(* What the load generators are told to do: the streams of Phantom with    *)
(* the address each shoots at (plugins/Phantom/utils.py and AddressWizard  *)
(* of common/util.py), the pools of Pandora (plugins/Pandora/plugin.py)    *)
(* and the modified plan of JMeter (plugins/JMeter/plugin.py).             *)
(*                                                                         *)
(* Everything here is a function of the options and of what the resolver,  *)
(* the connection test and the downloads answered.  An option that is only *)
(* copied into a file is not modelled, one that decides is.                *)
(***************************************************************************)
EXTENDS Integers, Sequences, FiniteSetsExt, SequencesExt

Refused == [ok |-> FALSE]

-----------------------------------------------------------------------------
(***************************************************************************)
(* AddressWizard.  An address has the form in which it is written, maybe a *)
(* port, and the answers of the resolver, each of a family and reachable   *)
(* or not; no answers: the lookup raised.                                  *)
(***************************************************************************)

NoPort == 0

\* A colon ends the host, unless there are several and no braces.
NamedPort(address) == IF address.form \in {"host:port", "[v6]:port"} THEN address.port ELSE NoPort

PortOf(address, explicit) ==
    CASE explicit # NoPort           -> explicit
      [] NamedPort(address) # NoPort -> NamedPort(address)
      [] OTHER                       -> 80

\* The first answer, or the first that can be connected to.
Resolve(address, explicit, test) ==
    LET usable == {i \in DOMAIN address.found : test => address.found[i].up} IN
    IF address.form = "" \/ usable = {} THEN Refused
    ELSE [ok |-> TRUE, ip |-> Min(usable), v6 |-> address.found[Min(usable)].v6,
          port |-> PortOf(address, explicit)]

-----------------------------------------------------------------------------
(***************************************************************************)
(* The streams of Phantom.  The plan of a stream is what its stepper       *)
(* wrapper has when the stepped file is made; no stpd: nothing was made.   *)
(***************************************************************************)

\* The main stream, and one for each section of multi.
Sections(cfg) == <<cfg>> \o [i \in DOMAIN cfg.multi |-> cfg.multi[i] @@ cfg]

ReadStream(section, n) ==
    [no |-> n, main |-> n = 0, ssl |-> section.ssl, instances |-> section.instances, plan |-> section.plan,
     tank |-> section.tank, key |-> section.key, limits |-> section.limits,
     target |-> Resolve(section.address, section.port, section.test)]

AnswLevel(writelog) ==
    CASE writelog \in {"0", "false"} -> "none"
      [] writelog \in {"1", "true"}  -> "all"
      [] OTHER                       -> writelog

ReadConfig(cfg) ==
    LET streams == [i \in DOMAIN Sections(cfg) |-> ReadStream(Sections(cfg)[i], i - 1)] IN
    [streams   |-> streams,
     answ      |-> AnswLevel(cfg.writelog),
     libs      |-> IF \E i \in DOMAIN streams : streams[i].ssl THEN {"ssl"} ELSE {},
     artifacts |-> {"answ", "phout", "stat", "phantom"}]

\* The instances of the load plan, if it has any, replace the option.
Instances(stream) == IF stream.plan.instances # 0 THEN stream.plan.instances ELSE stream.instances

\* The block of a stream in the configuration of Phantom.
Block(stream, answ) ==
    [template  |-> IF stream.main THEN "main" ELSE "additional",
     transport |-> IF stream.ssl THEN {"ssl"} \cup (IF stream.key THEN {"auth"} ELSE {}) ELSE {},
     method    |-> IF stream.target.v6 THEN "ipv6" ELSE "ipv4",
     target    |-> <<stream.target.ip, stream.target.port>>,
     proto     |-> CASE stream.tank = ""     -> "commented"
                     [] stream.tank = "http" -> "http"
                     [] OTHER                -> "none",
     log       |-> answ # "none",
     limits    |-> stream.limits,
     instances |-> Instances(stream)]

ComposeConfig(config) ==
    LET streams == config.streams IN
    IF \E i \in DOMAIN streams : ~streams[i].target.ok \/ ~streams[i].plan.stpd THEN Refused
    ELSE [ok         |-> TRUE,
          blocks     |-> [i \in DOMAIN streams |-> Block(streams[i], config.answ)],
          benchmarks |-> {streams[i].no : i \in {j \in DOMAIN streams : ~streams[j].main}},
          libs       |-> config.libs,
          artifacts  |-> config.artifacts \cup {"conf"}]

\* Steps are pairs of a load and the whole seconds it lasts.
PerSecond(steps) == FoldLeft(LAMBDA secs, step : secs \o [k \in 1 .. step[2] |-> step[1]], << >>, steps)

\* Mutant: the load of the second stream is put after that of the first.
MergedAppended(steps, more) == steps \o more

\* The loads of two streams, second by second.
Merged(steps, more) ==
    [k \in 1 .. Max({Len(steps), Len(more)}) |->
        (IF k \in DOMAIN steps THEN steps[k] ELSE 0) + (IF k \in DOMAIN more THEN more[k] ELSE 0)]

\* A third schedule replaces the empty one that the second left; loops of
\* several streams are told as '0'.
WithStream(info, stream) ==
    [steps     |-> Merged(info.steps, PerSecond(stream.plan.steps)),
     schedule  |-> IF info.schedule # << >> THEN << >> ELSE stream.plan.steps,
     loops     |-> IF info.loops # "" THEN "0" ELSE stream.plan.loops,
     ammo      |-> info.ammo + stream.plan.ammo,
     duration  |-> Max({info.duration, stream.plan.duration}),
     instances |-> info.instances + Instances(stream)]

NoInfo == [steps |-> << >>, schedule |-> << >>, loops |-> "", ammo |-> 0, duration |-> 0, instances |-> 0]

GetInfo(streams) == FoldLeft(WithStream, NoInfo, streams)

\* configure() composes the file; get_info(), in prepare_test, refuses no ammo.
PhantomConfig(cfg) ==
    LET config == ReadConfig(cfg)  file == ComposeConfig(config) IN
    IF ~file.ok THEN Refused
    ELSE [ok |-> TRUE, file |-> file, streams |-> config.streams, info |-> GetInfo(config.streams)]

-----------------------------------------------------------------------------
(***************************************************************************)
(* The pools of Pandora                                                    *)
(***************************************************************************)

\* The default result of a pool is called after its number.
Destination(pools, n) == IF pools[n].result = "phout" THEN pools[n].destination ELSE n - 1

AnswLogs(pools) == {n \in DOMAIN pools : pools[n].answlog \in {"named", "unnamed"}}

\* The expvar option, overridden by the configuration of Pandora, which gets a
\* section of its own when neither has one.
Expvar(cfg) ==
    CASE cfg.monitoring = "expvar" -> cfg.enabled
      [] cfg.monitoring = "other"  -> cfg.expvar
      [] OTHER                     -> TRUE

\* The first of these pools; none has the option: it is unknown.
FirstOf(those) == IF those = {} THEN "unknown" ELSE Min(those)

\* The sources: the binary, the resources, the ammo of every pool.  Content has
\* priority over a file; every pool must have a gun.
PandoraConfig(cfg) ==
    LET pools == cfg.pools IN
    IF \/ ~cfg.downloads \/ cfg.content \notin {"content", "file"}
       \/ \E n \in DOMAIN pools : ~pools[n].gun
    THEN Refused
    ELSE [ok        |-> TRUE,
          reports   |-> [n \in DOMAIN pools |-> Destination(pools, n)],
          artifacts |-> {<<"report", Destination(pools, n)>> : n \in DOMAIN pools}
                            \cup {<<"answ", n>> : n \in AnswLogs(pools)} \cup {<<"config", 0>>},
          expvar    |-> Expvar(cfg),
          address   |-> FirstOf({n \in DOMAIN pools : pools[n].target}),
          schedule  |-> FirstOf({n \in DOMAIN pools : pools[n].rps})]

-----------------------------------------------------------------------------
(***************************************************************************)
(* The plan of JMeter: its writer is put before the lines that close the   *)
(* plan, three or, with a WorkBench, seven.                                *)
(***************************************************************************)

Closing(plan) == IF plan.workbench THEN 7 ELSE 3

AddComponents(plan) ==
    IF ~plan.found \/ plan.lines < 6 \/ plan.lines < Closing(plan) THEN Refused
    ELSE [ok       |-> TRUE,
          head     |-> plan.lines - Closing(plan),
          template |-> IF plan.log \in {"errors", "all"} THEN "writer_ext" ELSE "writer",
          near     |-> plan.writable]

\* The artifacts: the original and the modified plan, the results, the logs.
JMeterConfig(plan) ==
    LET jmx == AddComponents(plan) IN
    IF ~jmx.ok THEN Refused
    ELSE [ok |-> TRUE, jmx |-> jmx,
          artifacts |-> {"original", "jtl", "log", "jmx", "stderr"} \cup (IF plan.log # "none" THEN {"ext"} ELSE {})]
=============================================================================
