--------------------------- MODULE StepperWrapper ---------------------------
(***************************************************************************)
(* StepperWrapper (stepper/main.py): the stepped file and what is known of *)
(* it (si) are kept under a name made of the configuration and the hash of *)
(* the ammo file; a run that finds both uses them, any other makes them.   *)
(* Runs may be killed, and may overlap on one machine.                     *)
(***************************************************************************)
EXTENDS Stepper, HttpStream

CONSTANTS Options, Keys   \* configurations; hashes of versions

\* A hash is a version, or 0; a stepped file that is given is not made.
ASSUME StepperAssumption ==
    /\ Keys \subseteq Nat
    /\ \A o \in Options :
        /\ o.versions \in Nat \ {0} /\ 0..o.versions \subseteq Keys /\ o.faults \in Nat /\ o.kills \in Nat
        /\ {"versions", "faults", "kills", "source", "caching", "nohead", "load", "given", "stream"} \subseteq DOMAIN o
        /\ o.given => o.load = "stpd_file"

\* The steps of a schedule of rates, or of instances.
ASSUME PlanAssumption == \A o \in Options : "steps" \in DOMAIN o /\ o.steps \in Seq(StepOf)

stepperVars == <<opt, server, disk, run, hs>>

Plain == 0   \* the name of ammo.stpd, and of a stepped file that is given
NoInfo == [there |-> FALSE, whole |-> FALSE, ammo |-> 0]
NoStpd == [there |-> FALSE, out |-> << >>]

NewRun == [pc |-> "idle", ret |-> "", tries |-> 0, key |-> Plain, opener |-> Unhashed, src |-> Nothing, since |-> 0,
           limit |-> None, pos |-> 0, loops |-> 0, ammo |-> 0, headers |-> {}, request |-> FALSE, number |-> 0,
           first |-> FALSE, out |-> << >>]

StepperInit ==
    /\ \E o \in Options : opt = [f \in DOMAIN o \cup {"plan"} |-> IF f = "plan" THEN Plan(o) ELSE o[f]]
    /\ server = [version |-> 1, faults |-> opt.faults, kills |-> opt.kills, torn |-> FALSE]
    /\ disk = [tmp |-> [k \in Keys |-> Nothing], stpd |-> [k \in Keys |-> NoStpd],
               si |-> [k \in Keys |-> IF opt.given THEN [there |-> TRUE, whole |-> TRUE, ammo |-> 1] ELSE NoInfo]]
    /\ run = [r \in Runs |-> NewRun]
    /\ StreamInit /\ (opt.stream \/ hs.text = << >>)

Over(r) == run[r].pc \in {"shot", "failed", "dead"}
Stpd(r) == disk.stpd[run[r].key]
Si(r) == disk.si[run[r].key]
Forced(r) == r \in opt.forced

\* Runs that make the stepped file of this name, or shoot from it.
Uses(key) ==
    {q \in Runs : /\ run[q].key = key
                  /\ \/ run[q].pc \in {"load", "make", "detect", "again", "truncate", "read", "info", "si", "ready"}
                     \/ run[q].pc \in {"head", "open", "get", "save"} /\ run[q].ret # "name"}

-----------------------------------------------------------------------------
\* __get_stpd_filename: the name has the hash of the ammo file.  A stepped
\* file that is given has its name.
Begin(r) ==
    /\ run[r].pc = "idle" /\ r <= opt.runs /\ (r \in opt.overlap \/ \A q \in 1..r - 1 : Over(q))
    /\ LET s == [run[r] EXCEPT !.since = server.version]
       IN  Becomes(r, IF opt.load = "stpd_file" THEN [s EXCEPT !.pc = "load"]
                      ELSE IF opt.caching /\ opt.source # "uris" THEN OpenerFor(s, "name") ELSE [s EXCEPT !.pc = "check"])
    /\ UNCHANGED <<server, disk>>

InCache(r) == opt.caching /\ ~Forced(r) /\ Stpd(r).there /\ Si(r).there

\* Mutant: the si of the file that is made again stays.
CheckKeepsSi(r) ==
    /\ run[r].pc = "check"
    /\ Goes(r, IF InCache(r) THEN "load" ELSE "make")
    /\ server' = [server EXCEPT !.torn = @ \/ (~InCache(r) /\ Uses(run[r].key) # {})]
    /\ UNCHANGED disk

Check(r) ==
    /\ run[r].pc = "check"
    /\ Goes(r, IF InCache(r) THEN "load" ELSE "make")
    /\ server' = [server EXCEPT !.torn = @ \/ (~InCache(r) /\ Uses(run[r].key) # {})]
    /\ disk' = IF Forced(r) THEN [disk EXCEPT !.si[run[r].key] = NoInfo] ELSE disk

\* The si may be gone by now, or be half written for ever.
Load(r) ==
    /\ run[r].pc = "load"
    /\ IF Si(r).whole THEN Becomes(r, [run[r] EXCEPT !.pc = "ready", !.ammo = Si(r).ammo]) ELSE Fails(r)
    /\ UNCHANGED <<server, disk>>

\* Stepper(): the load plan, then the reader, for which the type is found out,
\* twice.
Make(r) ==
    /\ run[r].pc = "make"
    /\ IF opt.plan.fails THEN Fails(r)
       ELSE LET s == NewStepper(run[r])
            IN  Becomes(r, IF opt.type = "phantom" /\ opt.source # "uris" THEN OpenerFor(s, "detect")
                           ELSE [s EXCEPT !.pc = "truncate", !.src = [v |-> 0, whole |-> TRUE]])
    /\ UNCHANGED <<server, disk>>

Detect(r) ==
    /\ run[r].pc \in {"detect", "again"}
    /\ IF Content(Open(r)) = << >> THEN Fails(r)
       ELSE IF run[r].pc = "detect" THEN Becomes(r, OpenerFor(run[r], "again")) ELSE Goes(r, "truncate")
    /\ UNCHANGED <<server, disk>>

\* The stepped file is opened for writing in place, under whoever uses it.
Truncate(r) ==
    /\ run[r].pc = "truncate"
    /\ disk' = [disk EXCEPT !.stpd[run[r].key] = [there |-> TRUE, out |-> << >>]]
    /\ Becomes(r, IF opt.source = "uris" THEN [run[r] EXCEPT !.pc = "read"] ELSE OpenerFor(run[r], "read"))
    /\ server' = [server EXCEPT !.torn = @ \/ Uses(run[r].key) # {r}]

Step(r) ==
    /\ run[r].pc = "read"
    /\ LET s == Stepped([run[r] EXCEPT !.src = Open(r), !.out = Stpd(r).out])
       IN  /\ disk' = [disk EXCEPT !.stpd[run[r].key].out = s.out]
           /\ Becomes(r, [s EXCEPT !.src = run[r].src, !.out = << >>])
    /\ UNCHANGED server

\* get_info and __write_cached_options: opened, then written.
OpenSi(r) ==
    /\ run[r].pc = "info"
    /\ disk' = [disk EXCEPT !.si[run[r].key] = [NoInfo EXCEPT !.there = TRUE]]
    /\ Goes(r, "si")
    /\ UNCHANGED server

WriteSi(r) ==
    /\ run[r].pc = "si"
    /\ disk' = [disk EXCEPT !.si[run[r].key] = [there |-> TRUE, whole |-> TRUE, ammo |-> run[r].ammo]]
    /\ Goes(r, "ready")
    /\ UNCHANGED server

\* The generator has read the stepped file to its end.
Shoot(r) == run[r].pc = "ready" /\ Goes(r, "shot") /\ UNCHANGED <<server, disk>>

Kill(r) ==
    /\ run[r].pc \notin {"idle", "ready"} /\ ~Over(r) /\ server.kills > 0
    /\ server' = [server EXCEPT !.kills = @ - 1]
    /\ Goes(r, "dead")
    /\ UNCHANGED disk

RunStep(r) == \/ Begin(r) \/ Check(r) \/ Load(r) \/ Make(r) \/ Detect(r) \/ Truncate(r) \/ Step(r)
              \/ OpenSi(r) \/ WriteSi(r) \/ Shoot(r) \/ ResourceStep(r)

StepperNext ==
    \/ ~opt.stream /\ ((\E r \in Runs : RunStep(r) \/ HeadFails(r) \/ GetFails(r) \/ Kill(r)) \/ Replace)
                   /\ UNCHANGED <<opt, hs>>
    \/ opt.stream /\ StreamNext /\ UNCHANGED <<opt, server, disk, run>>

StepperSpec == StepperInit /\ [][StepperNext]_stepperVars
FairStepper == StepperSpec /\ \A r \in Runs : WF_stepperVars(~opt.stream /\ RunStep(r) /\ UNCHANGED <<opt, hs>>)

-----------------------------------------------------------------------------
\* A run is ready with the missiles its configuration asks for, each at its
\* moment, all from one version of the ammo file, and knows how many there are:
\* whether it made the file or found it, whatever runs before it were killed
\* at, if no one opened a download that is not whole or made a file again while
\* another run made or used it.
Undisturbed(r) == run[r].pc = "ready" /\ ~server.torn
KnowsAmmo == \A r \in Runs : Undisturbed(r) /\ opt.load # "stpd_file" => run[r].ammo = Len(Stpd(r).out)
ReadyIsWhole ==
    /\ KnowsAmmo
    /\ \A r \in Runs : Undisturbed(r) /\ opt.load # "stpd_file" =>
          \E v \in 0..opt.versions : Stpd(r).out = Expected(Detected, opt.plan, v)

\* The missiles are of the version that was there when the run began, or later,
\* if the server says which one it has.
FreshAmmo ==
    \A r \in Runs : Undisturbed(r) /\ opt.source \in {"http", "file"} /\ ~opt.nohead =>
        \A i \in 1..Len(Stpd(r).out) : Stpd(r).out[i].missile.version >= run[r].since

\* See PlanIsLoad.
PlanGivesLoad == \A r \in Runs : run[r].pc = "truncate" => PlanIsLoad(opt.plan, opt.steps)

\* A run that reads its ammo again and again, without a limit, though two
\* passes gave no missile: the plan is asked, and the file, without end.
Searches(r) == run[r].pc = "read" /\ LoopLimit \in {None, 0} /\ run[r].loops > 1 /\ run[r].ammo = 0

\* Every run is ready at last, or failed, or killed, unless one looks without
\* end for a missile that is not there: a plan or a limit ends the reading of
\* ammo, and calls are not tried for ever.
PrepareEnds == \A r \in Runs : ~opt.stream /\ r <= opt.runs ~> Over(r) \/ \E q \in Runs : Searches(q)
=============================================================================
