-------------------------- MODULE TankWorkerProofs --------------------------
(***************************************************************************)
(* Theorems about TankWorker, for every set of plugins and every bound:    *)
(* the lock covers the load, a worker that ends by itself leaves nothing   *)
(* behind, code 0 means a complete test, the saved code is the final one,  *)
(* and the worker implements what TankStatus promises.                     *)
(*                                                                         *)
(* None of these is inductive: what holds when the run breaks off depends  *)
(* on where it was.  The invariant says, for each part of run(), what is   *)
(* registered, called and reported by then.                                *)
(***************************************************************************)
EXTENDS TankWorker, FiniteSetTheorems, TLAPS

\* The part of run() after plugins_configure.
Working == {"prepare", "validate"} \cup InFinish \cup InEnd \cup {"post"}

\* No plugin was called; ... and the run broke off with the lock file in place.
Untouched == \A s \in Stages \ {"close"} : did[s] = {}
LockOnly  == Untouched /\ registered = {} /\ retcode # 0
Cleaned   ==
    /\ Touched \subseteq did["cleanup"]
    /\ "plugins" \in registered => did["configure"] \subseteq did["cleanup"]

\* The lock and the cleanup of the plugins: what is registered, and what is done.
LockInv ==
    /\ pc = "lock" => registered = {} /\ ~held
    /\ pc \in {"made", "written"} => registered = {} /\ held
    /\ pc \in {"locked", "configure"} => registered = {"lock"} /\ held
    /\ pc \in InLock => Untouched
    /\ pc = "configure" => Touched = {}
    /\ pc \in Working => registered = {"lock", "plugins"} /\ held
    /\ pc \in {"cl_plugins", "cl_lock"} => held \/ registered = {}
    /\ pc = "cl_plugins" => Touched = {} \/ registered = {"lock", "plugins"}
    /\ pc \in InCleanup \ {"cl_plugins"} => Cleaned
    /\ pc \in InCleanup /\ held /\ "lock" \notin registered => LockOnly
    /\ pc \in InCleanup \ {"cl_plugins", "cl_lock"} /\ held => "lock" \notin registered
    /\ cut => pc = "dead"
    /\ LockCoversLoad
    /\ NothingLeft

\* A failure shows in the code that is under way.
CodeInv ==
    /\ pc \in BeforeFinish \cup InFinish => ~failed
    /\ pc \in InEnd /\ failed => rc # 0
    /\ pc = "post" /\ failed /\ ~masked => rc # 0

\* Which stages the plugins have been through.
StageInv ==
    /\ pc = "starting" => \A i \in 1 .. N : i < k => order[i] \in did["start"]
    /\ pc = "poll" => interrupted \/ did["start"] = Plugins
    /\ pc = "polling" => did["start"] = Plugins
    /\ pc \in InEnd /\ rc = 0 => did["start"] = Plugins
    /\ pc = "end_rest" => \A i \in 1 .. N : i < k => ends[order[i]] > 0
    /\ pc = "post" /\ rc = 0 /\ ~masked => did["start"] = Plugins
    /\ pc = "post" => \A i \in 1 .. N : i < k => order[i] \in did["post"]
    /\ pc = "post" => AllEnded
    /\ pc \in BeforeFinish \cup InFinish \cup InEnd => did["post"] = {}
    /\ PostAfterEnd

\* What code 0 stands for once the run is over.
Complete ==
    retcode = 0 /\ ~masked
        => ~failed /\ did["start"] = Plugins /\ AllEnded /\ did["post"] = Plugins

EndInv == pc \in InCleanup \/ Dead => Complete

SaveInv ==
    /\ pc \notin {"collect", "finish", "close", "dead"} => saved = None
    /\ SavedIsFinal

\* The status is the one of the part of run() the worker is in.
StatusInv ==
    /\ pc \in InLock => status = "INITIATED"
    /\ pc \in {"configure", "prepare", "validate", "enter"} => status = "PREPARING"
    /\ pc = "waiting" => status = "WAITING"
    /\ pc \in {"start", "starting", "poll", "polling"} => status = "RUNNING"
    /\ pc \in InEnd => status = "FINISHING"
    /\ pc = "post" => status = "POST_PROCESS"
    /\ pc \in InCleanup \ {"close"} =>
          /\ status \in {"INITIATED", "PREPARING", "FINISHING", "POST_PROCESS"}
          /\ status = "POST_PROCESS" \/ retcode # 0

OrderInv == \A p \in Plugins : \E i \in 1 .. N : order[i] = p

IInv == TypeOK /\ OrderInv /\ LockInv /\ CodeInv /\ StageInv /\ EndInv /\ SaveInv /\ StatusInv

----------------------------------------------------------------------------
(* The types *)

LEMMA PluginCount == N \in Nat
BY WorkerAssumption, FS_CardinalityType DEF WorkerAssumption, N

LEMMA CodeTypes ==
    /\ {-1, 0, 1, 21} \cup GenCodes \subseteq Codes \ {None}
    /\ None \in Codes
    /\ None \notin {-1, 0, 1, 21}
BY WorkerAssumption DEF WorkerAssumption, Codes

\* The control state, the history and the calls have their types.
CtlOK ==
    /\ pc \in PC /\ k \in 1 .. N + 1
    /\ status \in Statuses
    /\ retcode \in Codes \ {None} /\ rc \in Codes

HistOK ==
    /\ faults \in Nat /\ sigints \in Nat
    /\ failed \in BOOLEAN /\ masked \in BOOLEAN /\ cut \in BOOLEAN

LEMMA GotoType == ASSUME NEW l \in PC, Goto(l) PROVE pc' \in PC /\ k' \in 1 .. N + 1
BY PluginCount DEF Goto

LEMMA NextType ==
    ASSUME TypeOK, k <= N, NextPlugin PROVE pc' \in PC /\ k' \in 1 .. N + 1
BY PluginCount DEF NextPlugin, TypeOK

LEMMA HereType == ASSUME TypeOK, k <= N PROVE P \in Plugins
BY PluginCount DEF TypeOK, P

LEMMA RaiseType == ASSUME TypeOK, Raise PROVE CtlOK'
<1>1. CASE pc \in InFinish
  BY <1>1, PluginCount, CodeTypes
     DEF Raise, ExitFinish, Goto, CtlOK, TypeOK, PC, InEnd, Statuses
<1>2. CASE pc \notin InFinish
  BY <1>2, PluginCount, CodeTypes DEF Raise, Goto, CtlOK, TypeOK, PC, InCleanup
<1>3. QED
  BY <1>1, <1>2

LEMMA OverType == ASSUME TypeOK, NEW c \in Codes \ {None}, TestOver(c) PROVE CtlOK'
BY PluginCount DEF TestOver, ExitFinish, Goto, CtlOK, TypeOK, PC, InEnd, Statuses

LEMMA FaultType == ASSUME TypeOK, Fault PROVE HistOK'
BY DEF Fault, HistOK, TypeOK

LEMMA CaughtType == ASSUME TypeOK, NEW b \in BOOLEAN, Caught(b) PROVE HistOK'
BY DEF Caught, HistOK, TypeOK

LEMMA MarkType ==
    ASSUME TypeOK, NEW s \in Stages, k <= N, Mark(s, P)
    PROVE  did' \in [Stages -> SUBSET Plugins]
<1>1. P \in Plugins
  BY HereType
<1>2. did[s] \cup {P} \in SUBSET Plugins
  BY <1>1 DEF TypeOK
<1>3. QED
  BY <1>2 DEF Mark, TypeOK

LEMMA EndedType ==
    ASSUME TypeOK, NEW p \in Plugins, Ended(p) PROVE ends' \in [Plugins -> Nat]
BY DEF Ended, TypeOK


LEMMA StageType ==
    ASSUME TypeOK, NEW l \in Stages \cap PC, NEW then \in PC, Stage(l, then)
    PROVE  TypeOK'
<1>1. pc' \in PC /\ k' \in 1 .. N + 1
  BY PluginCount DEF Stage, Goto, NextPlugin, TypeOK
<1>2. did' \in [Stages -> SUBSET Plugins]
  <2>1. CASE k <= N /\ ~interrupted
    <3>1. Mark(l, P)
      BY <2>1, PluginCount DEF Stage, TypeOK
    <3>2. QED
      BY <2>1, <3>1, MarkType
  <2>2. CASE ~(k <= N /\ ~interrupted)
    BY <2>2, PluginCount DEF Stage, TypeOK
  <2>3. QED
    BY <2>1, <2>2
<1>3. registered' \subseteq {"lock", "plugins"}
  BY DEF Stage, TypeOK
<1>4. muted' \subseteq Uploaders
  BY DEF Stage, TypeOK
<1>5. QED
  BY <1>1, <1>2, <1>3, <1>4 DEF Stage, TypeOK, hist, outer

\* The types: post-processing starts with a code, never with None.
LEMMA TypeStep ==
    ASSUME TypeOK, CodeInv, [Next]_vars
    PROVE  TypeOK'
<1> USE PluginCount, CodeTypes DEF TypeOK, PC, Statuses, Stages, BeforeFinish,
   InFinish, InEnd, InCleanup, InLock
<1>1a. CASE MakeLock
  BY <1>1a DEF MakeLock, Goto, ctl, calls, lock, hist, outer
<1>1b. CASE WriteLock
  <2>1. CtlOK'
    BY <1>1b, PluginCount, CodeTypes, RaiseType DEF WriteLock, CtlOK, Goto
  <2>2. HistOK'
    BY <1>1b, FaultType DEF WriteLock, HistOK, hist
  <2>3. QED
    BY <1>1b, <2>1, <2>2 DEF WriteLock, CtlOK, HistOK, calls, lock, outer
<1>1c. CASE RegisterLock
  BY <1>1c DEF RegisterLock, Goto, ctl, calls, lock, hist, outer
<1>1. CASE Locked
  BY <1>1 DEF Locked, Goto, ctl, calls, lock, hist, outer
<1>2. CASE NotLocked
  BY <1>2 DEF NotLocked, Raise, ExitFinish, Goto, ctl, calls, lock, hist, outer
<1>3. CASE Configure
  BY <1>3, StageType DEF Configure, PC, BeforeFinish, Stages
<1>4. CASE Prepare
  BY <1>4, StageType DEF Prepare, PC, BeforeFinish, Stages
<1>5. CASE StageFails
  BY <1>5 DEF StageFails, Mark, Fault, Raise, ExitFinish, Goto, P, ctl, calls,
     lock, hist, outer
<1>6. CASE Validate
  <2>1. CtlOK'
    BY <1>6, PluginCount, CodeTypes, RaiseType DEF Validate, CtlOK, Goto, NextPlugin
  <2>2. HistOK'
    BY <1>6, FaultType, CaughtType DEF Validate, HistOK, hist
  <2>3. did' \in [Stages -> SUBSET Plugins] /\ ends' \in [Plugins -> Nat]
    BY <1>6, MarkType, EndedType, HereType DEF Validate, calls, lock, outer
  <2>4. QED
    BY <1>6, <2>1, <2>2, <2>3, HereType DEF Validate, CtlOK, HistOK, calls, lock,
       outer
<1>7. CASE Enter
  BY <1>7 DEF Enter, Goto, ctl, calls, lock, hist, outer
<1>8. CASE Waiting
  <2>1. CtlOK'
    BY <1>8, PluginCount, CodeTypes, RaiseType DEF Waiting, CtlOK, Goto, NextPlugin
  <2>2. HistOK'
    BY <1>8, FaultType, CaughtType DEF Waiting, HistOK, hist
  <2>3. did' \in [Stages -> SUBSET Plugins] /\ ends' \in [Plugins -> Nat]
    BY <1>8, MarkType, EndedType, HereType DEF Waiting, calls, lock, outer
  <2>4. QED
    BY <1>8, <2>1, <2>2, <2>3, HereType DEF Waiting, CtlOK, HistOK, calls, lock,
       outer
<1>9. CASE Start
  <2>1. CtlOK'
    BY <1>9, PluginCount, CodeTypes, RaiseType DEF Start, CtlOK, Goto, NextPlugin
  <2>2. HistOK'
    BY <1>9, FaultType, CaughtType DEF Start, HistOK, hist
  <2>3. did' \in [Stages -> SUBSET Plugins] /\ ends' \in [Plugins -> Nat]
    BY <1>9, MarkType, EndedType, HereType DEF Start, calls, lock, outer
  <2>4. QED
    BY <1>9, <2>1, <2>2, <2>3, HereType DEF Start, CtlOK, HistOK, calls, lock, outer
<1>10. CASE Starting
  <2>1. CtlOK'
    BY <1>10, PluginCount, CodeTypes, RaiseType DEF Starting, CtlOK, Goto,
       NextPlugin
  <2>2. HistOK'
    BY <1>10, FaultType, CaughtType DEF Starting, HistOK, hist
  <2>3. did' \in [Stages -> SUBSET Plugins] /\ ends' \in [Plugins -> Nat]
    BY <1>10, MarkType, EndedType, HereType DEF Starting, calls, lock, outer
  <2>4. QED
    BY <1>10, <2>1, <2>2, <2>3, HereType DEF Starting, CtlOK, HistOK, calls, lock,
       outer
<1>11. CASE Poll
  <2>1. CtlOK'
    BY <1>11, PluginCount, CodeTypes, RaiseType, OverType DEF Poll, CtlOK, Goto,
       NextPlugin
  <2>2. HistOK'
    BY <1>11, FaultType, CaughtType DEF Poll, HistOK, hist
  <2>3. did' \in [Stages -> SUBSET Plugins] /\ ends' \in [Plugins -> Nat]
    BY <1>11, MarkType, EndedType, HereType DEF Poll, calls, lock, outer
  <2>4. QED
    BY <1>11, <2>1, <2>2, <2>3, HereType DEF Poll, CtlOK, HistOK, calls, lock, outer
<1>12. CASE PollPlugin
  BY <1>12 DEF PollPlugin, TestOver, ExitFinish, Goto, NextPlugin, P, PollResults,
     ctl, calls, lock, hist, outer
<1>13. CASE PollFails
  <2>1. CtlOK'
    <3>1. CASE P \in Generators
      <4>1. TestOver(1) /\ 1 \in Codes \ {None}
        BY <1>13, <3>1, CodeTypes DEF PollFails
      <4>2. QED
        BY <4>1, OverType
    <3>2. CASE P \notin Generators
      BY <1>13, <3>2, PluginCount DEF PollFails, NextPlugin, CtlOK
    <3>3. QED
      BY <3>1, <3>2
  <2>2. HistOK'
    BY <1>13, FaultType, CaughtType DEF PollFails, HistOK, hist
  <2>3. did' \in [Stages -> SUBSET Plugins] /\ ends' \in [Plugins -> Nat]
    BY <1>13, MarkType, EndedType, HereType DEF PollFails, calls, lock, outer
  <2>4. QED
    BY <1>13, <2>1, <2>2, <2>3, HereType DEF PollFails, CtlOK, HistOK, calls,
       lock, outer
<1>14. CASE PollAgain
  BY <1>14 DEF PollAgain, Goto, ctl, calls, lock, hist, outer
<1>15. CASE EndGenerator
  BY <1>15 DEF EndGenerator, Goto, Ended, ctl, calls, lock, hist, outer
<1>16. CASE EndGeneratorFails
  <2>1. CtlOK'
    BY <1>16, PluginCount, CodeTypes, RaiseType DEF EndGeneratorFails, CtlOK,
       Goto, NextPlugin
  <2>2. HistOK'
    BY <1>16, FaultType, CaughtType DEF EndGeneratorFails, HistOK, hist
  <2>3. did' \in [Stages -> SUBSET Plugins] /\ ends' \in [Plugins -> Nat]
    BY <1>16, MarkType, EndedType, HereType, WorkerAssumption DEF
       EndGeneratorFails, calls, lock, outer, WorkerAssumption
  <2>4. QED
    BY <1>16, <2>1, <2>2, <2>3, HereType DEF EndGeneratorFails, CtlOK, HistOK,
       calls, lock, outer
<1>17. CASE EndMonitor
  <2>1. CtlOK'
    BY <1>17, PluginCount, CodeTypes, RaiseType DEF EndMonitor, CtlOK, Goto,
       NextPlugin
  <2>2. HistOK'
    BY <1>17, FaultType, CaughtType DEF EndMonitor, HistOK, hist
  <2>3. did' \in [Stages -> SUBSET Plugins] /\ ends' \in [Plugins -> Nat]
    BY <1>17, MarkType, EndedType, HereType DEF EndMonitor, calls, lock, outer
  <2>4. QED
    BY <1>17, <2>1, <2>2, <2>3, HereType DEF EndMonitor, CtlOK, HistOK, calls,
       lock, outer
<1>18. CASE EndPlugin
  <2>1. CtlOK'
    <3>1. rc' \in Codes
      BY <1>18, CodeTypes DEF EndPlugin
    <3>2. pc' \in PC /\ k' \in 1 .. N + 1
      BY <1>18, NextType DEF EndPlugin
    <3>3. QED
      BY <1>18, <3>1, <3>2 DEF EndPlugin, CtlOK
  <2>2. HistOK'
    BY <1>18, FaultType, CaughtType DEF EndPlugin, HistOK, hist
  <2>3. did' \in [Stages -> SUBSET Plugins] /\ ends' \in [Plugins -> Nat]
    BY <1>18, MarkType, EndedType, HereType DEF EndPlugin, calls, lock, outer
  <2>4. QED
    BY <1>18, <2>1, <2>2, <2>3, HereType DEF EndPlugin, CtlOK, HistOK, calls,
       lock, outer
<1>19. CASE LeaveFinish
  <2>1. CtlOK'
    BY <1>19, PluginCount, CodeTypes, RaiseType DEF LeaveFinish, CtlOK, Goto,
       NextPlugin
  <2>2. HistOK'
    BY <1>19, FaultType, CaughtType DEF LeaveFinish, HistOK, hist
  <2>3. did' \in [Stages -> SUBSET Plugins] /\ ends' \in [Plugins -> Nat]
    BY <1>19, MarkType, EndedType, HereType DEF LeaveFinish, calls, lock, outer
  <2>4. QED
    BY <1>19, <2>1, <2>2, <2>3, HereType DEF LeaveFinish, CtlOK, HistOK, calls,
       lock, outer
<1>20. CASE PostProcess
  <2>1. CtlOK'
    <3>1. rc' \in Codes
      BY <1>20, CodeTypes DEF PostProcess
    <3>2. pc' \in PC /\ k' \in 1 .. N + 1
      BY <1>20, NextType DEF PostProcess
    <3>3. QED
      BY <1>20, <3>1, <3>2 DEF PostProcess, CtlOK
  <2>2. HistOK'
    BY <1>20, FaultType, CaughtType DEF PostProcess, HistOK, hist
  <2>3. did' \in [Stages -> SUBSET Plugins] /\ ends' \in [Plugins -> Nat]
    BY <1>20, MarkType, EndedType, HereType DEF PostProcess, calls, lock, outer
  <2>4. QED
    BY <1>20, <2>1, <2>2, <2>3, HereType DEF PostProcess, CtlOK, HistOK, calls,
       lock, outer
<1>21. CASE PostProcessed
  <2>1. CtlOK'
    <3>1. CASE rc = None
      BY <1>21, <3>1, RaiseType DEF PostProcessed
    <3>2. CASE rc # None
      <4>1. pc' \in PC /\ k' \in 1 .. N + 1
        BY <1>21, <3>2, PluginCount DEF PostProcessed, Goto
      <4>2. QED
        BY <1>21, <3>2, <4>1 DEF PostProcessed, CtlOK
    <3>3. QED
      BY <3>1, <3>2
  <2>2. HistOK'
    BY <1>21, FaultType, CaughtType DEF PostProcessed, HistOK, hist
  <2>3. did' \in [Stages -> SUBSET Plugins] /\ ends' \in [Plugins -> Nat]
    BY <1>21, MarkType, EndedType, HereType DEF PostProcessed, calls, lock, outer
  <2>4. QED
    BY <1>21, <2>1, <2>2, <2>3, HereType DEF PostProcessed, CtlOK, HistOK, calls,
       lock, outer
<1>22. CASE CleanPlugins
  BY <1>22 DEF CleanPlugins, Goto, ctl, calls, lock, hist, outer
<1>23. CASE ReleaseLock
  BY <1>23 DEF ReleaseLock, Goto, ctl, calls, lock, hist, outer
<1>24. CASE CleanLog
  BY <1>24 DEF CleanLog, Goto, ctl, calls, lock, hist, outer
<1>25. CASE SaveStatus
  BY <1>25 DEF SaveStatus, Goto, ctl, calls, lock, hist, outer
<1>26. CASE Collect
  BY <1>26 DEF Collect, Goto, ctl, calls, lock, hist, outer
<1>27. CASE SetFinished
  BY <1>27 DEF SetFinished, Goto, ctl, calls, lock, hist, outer
<1>28. CASE Close
  BY <1>28 DEF Close, Goto, ctl, calls, lock, hist, outer
<1>29. CASE Prompted
  BY <1>29 DEF Prompted, ctl, calls, lock, hist, outer
<1>30. CASE Exit
  BY <1>30 DEF Exit, ctl, calls, lock, hist, outer
<1>31. CASE Sigint
  <2>1. CtlOK'
    BY <1>31, PluginCount, CodeTypes, RaiseType DEF Sigint, CtlOK, Goto, NextPlugin
  <2>2. HistOK'
    <3>1. CASE pc \in InCleanup
      BY <1>31, <3>1 DEF Sigint, HistOK
    <3>2. CASE pc \notin InCleanup
      BY <1>31, <3>2 DEF Sigint, HistOK
    <3>3. QED
      BY <3>1, <3>2
  <2>3. did' \in [Stages -> SUBSET Plugins] /\ ends' \in [Plugins -> Nat]
    BY <1>31, MarkType, EndedType, HereType DEF Sigint, calls, lock, outer
  <2>4. QED
    BY <1>31, <2>1, <2>2, <2>3, HereType DEF Sigint, CtlOK, HistOK, calls, lock,
       outer
<1>32. CASE Kill
  BY <1>32 DEF Kill, Goto, ctl, calls, lock, hist, outer
<1>33. CASE PressEnter
  BY <1>33 DEF PressEnter, ctl, calls, lock, hist, outer
<1>34. CASE Stop
  BY <1>34 DEF Stop, ctl, calls, lock, hist, outer
<1>35. CASE UNCHANGED vars
  BY <1>35 DEF vars, ctl, calls, lock, hist, outer
<1>36. QED
  BY <1>1a, <1>1b, <1>1c, <1>1, <1>2, <1>3, <1>4, <1>5, <1>6, <1>7, <1>8, <1>9,
     <1>10, <1>11, <1>12,
     <1>13, <1>14, <1>15, <1>16, <1>17, <1>18, <1>19, <1>20, <1>21, <1>22, <1>23,
     <1>24, <1>25, <1>26, <1>27, <1>28, <1>29, <1>30, <1>31, <1>32, <1>33, <1>34,
     <1>35 DEF Next, Worker, Cli


----------------------------------------------------------------------------
(* The parts of the invariant *)

\* The lock and the cleanup.
LEMMA LockStep ==
    ASSUME TypeOK, LockInv, [Next]_vars
    PROVE  LockInv'
<1> USE DEF LockInv, Untouched, LockOnly, Cleaned, Touched, Dead, LockCoversLoad,
   NothingLeft, Working, Stages,
   TypeOK, BeforeFinish, InFinish, InEnd, InCleanup, InLock
<1>1a. CASE MakeLock
  BY <1>1a DEF MakeLock, Goto, ctl, calls, lock, hist, outer
<1>1b. CASE WriteLock
  BY <1>1b DEF WriteLock, Goto, Fault, Raise, ExitFinish, ctl, calls, lock, hist,
     outer
<1>1c. CASE RegisterLock
  BY <1>1c DEF RegisterLock, Goto, ctl, calls, lock, hist, outer
<1>1. CASE Locked
  BY <1>1 DEF Locked, Goto, ctl, calls, lock, hist, outer
<1>2. CASE NotLocked
  BY <1>2 DEF NotLocked, Raise, ExitFinish, Goto, ctl, calls, lock, hist, outer
<1>3. CASE Configure
  BY <1>3 DEF Configure, Stage, Goto, NextPlugin, Mark, P, ctl, calls, lock, hist,
     outer
<1>4. CASE Prepare
  BY <1>4 DEF Prepare, Stage, Goto, NextPlugin, Mark, P, ctl, calls, lock, hist,
     outer
<1>5. CASE StageFails
  BY <1>5 DEF StageFails, Mark, Fault, Raise, ExitFinish, Goto, P, ctl, calls,
     lock, hist, outer
<1>6. CASE Validate
  BY <1>6 DEF Validate, Goto, Fault, Raise, ExitFinish, ctl, calls, lock, hist,
     outer
<1>7. CASE Enter
  BY <1>7 DEF Enter, Goto, ctl, calls, lock, hist, outer
<1>8. CASE Waiting
  BY <1>8 DEF Waiting, Goto, Raise, ExitFinish, ctl, calls, lock, hist, outer
<1>9. CASE Start
  BY <1>9 DEF Start, Goto, Fault, Raise, ExitFinish, ctl, calls, lock, hist, outer
<1>10. CASE Starting
  BY <1>10 DEF Starting, Goto, NextPlugin, Mark, P, Fault, Raise, ExitFinish, ctl,
     calls, lock, hist, outer
<1>11. CASE Poll
  BY <1>11 DEF Poll, Goto, TestOver, Fault, Raise, ExitFinish, ctl, calls, lock,
     hist, outer
<1>12. CASE PollPlugin
  BY <1>12 DEF PollPlugin, TestOver, ExitFinish, Goto, NextPlugin, P, PollResults,
     ctl, calls, lock, hist, outer
<1>13. CASE PollFails
  BY <1>13 DEF PollFails, Caught, TestOver, ExitFinish, Goto, NextPlugin, P, ctl,
     calls, lock, hist, outer
<1>14. CASE PollAgain
  BY <1>14 DEF PollAgain, Goto, ctl, calls, lock, hist, outer
<1>15. CASE EndGenerator
  BY <1>15 DEF EndGenerator, Goto, Ended, ctl, calls, lock, hist, outer
<1>16. CASE EndGeneratorFails
  BY <1>16 DEF EndGeneratorFails, Ended, Fault, Raise, ExitFinish, Goto, ctl,
     calls, lock, hist, outer
<1>17. CASE EndMonitor
  BY <1>17 DEF EndMonitor, NextPlugin, Ended, Raise, ExitFinish, Fault, Goto, P,
     ctl, calls, lock, hist, outer
<1>18. CASE EndPlugin
  BY <1>18 DEF EndPlugin, Ended, Caught, Falsy, NextPlugin, P, ctl, calls, lock,
     hist, outer
<1>19. CASE LeaveFinish
  BY <1>19 DEF LeaveFinish, Raise, ExitFinish, Goto, ctl, calls, lock, hist, outer
<1>20. CASE PostProcess
  BY <1>20 DEF PostProcess, Mark, Caught, Falsy, NextPlugin, P, ctl, calls, lock,
     hist, outer
<1>21. CASE PostProcessed
  BY <1>21 DEF PostProcessed, Goto, Raise, ExitFinish, ctl, calls, lock, hist,
     outer
<1>22. CASE CleanPlugins
  BY <1>22 DEF CleanPlugins, Goto, ctl, calls, lock, hist, outer
<1>23. CASE ReleaseLock
  BY <1>23 DEF ReleaseLock, Goto, ctl, calls, lock, hist, outer
<1>24. CASE CleanLog
  BY <1>24 DEF CleanLog, Goto, ctl, calls, lock, hist, outer
<1>25. CASE SaveStatus
  BY <1>25 DEF SaveStatus, Goto, ctl, calls, lock, hist, outer
<1>26. CASE Collect
  BY <1>26 DEF Collect, Goto, ctl, calls, lock, hist, outer
<1>27. CASE SetFinished
  BY <1>27 DEF SetFinished, Goto, ctl, calls, lock, hist, outer
<1>28. CASE Close
  BY <1>28 DEF Close, Goto, ctl, calls, lock, hist, outer
<1>29. CASE Prompted
  BY <1>29 DEF Prompted, ctl, calls, lock, hist, outer
<1>30. CASE Exit
  BY <1>30 DEF Exit, ctl, calls, lock, hist, outer
<1>31. CASE Sigint
  <2>1. CASE pc \in InCleanup
    BY <1>31, <2>1 DEF Sigint, Goto, Raise, ExitFinish, ctl, calls, lock, hist,
       outer
  <2>2. CASE pc \in InFinish
    BY <1>31, <2>2 DEF Sigint, Goto, Raise, ExitFinish, ctl, calls, lock, hist,
       outer
  <2>3. CASE pc \in BeforeFinish
    BY <1>31, <2>3 DEF Sigint, Goto, Raise, ExitFinish, ctl, calls, lock, hist,
       outer
  <2>4. CASE pc \in InEnd \cup {"post"}
    BY <1>31, <2>4 DEF Sigint, Goto, Raise, ExitFinish, ctl, calls, lock, hist,
       outer
  <2>5. QED
    BY <1>31, <2>1, <2>2, <2>3, <2>4 DEF Sigint, PC
<1>32. CASE Kill
  BY <1>32 DEF Kill, Goto, ctl, calls, lock, hist, outer
<1>33. CASE PressEnter
  BY <1>33 DEF PressEnter, ctl, calls, lock, hist, outer
<1>34. CASE Stop
  BY <1>34 DEF Stop, ctl, calls, lock, hist, outer
<1>35. CASE UNCHANGED vars
  BY <1>35 DEF vars, ctl, calls, lock, hist, outer
<1>36. QED
  BY <1>1a, <1>1b, <1>1c, <1>1, <1>2, <1>3, <1>4, <1>5, <1>6, <1>7, <1>8, <1>9,
     <1>10, <1>11, <1>12,
     <1>13, <1>14, <1>15, <1>16, <1>17, <1>18, <1>19, <1>20, <1>21, <1>22, <1>23,
     <1>24, <1>25, <1>26, <1>27, <1>28, <1>29, <1>30, <1>31, <1>32, <1>33, <1>34,
     <1>35 DEF Next, Worker, Cli

\* A failure shows in the code.
LEMMA CodeStep ==
    ASSUME TypeOK, CodeInv, [Next]_vars
    PROVE  CodeInv'
<1> USE CodeTypes DEF CodeInv, TypeOK, BeforeFinish, InFinish, InEnd, InCleanup, InLock
<1>1a. CASE MakeLock
  BY <1>1a DEF MakeLock, Goto, ctl, calls, lock, hist, outer
<1>1b. CASE WriteLock
  BY <1>1b DEF WriteLock, Goto, Fault, Raise, ExitFinish, ctl, calls, lock, hist,
     outer
<1>1c. CASE RegisterLock
  BY <1>1c DEF RegisterLock, Goto, ctl, calls, lock, hist, outer
<1>1. CASE Locked
  BY <1>1 DEF Locked, Goto, ctl, calls, lock, hist, outer
<1>2. CASE NotLocked
  BY <1>2 DEF NotLocked, Raise, ExitFinish, Goto, ctl, calls, lock, hist, outer
<1>3. CASE Configure
  BY <1>3 DEF Configure, Stage, Goto, NextPlugin, Mark, P, ctl, calls, lock, hist,
     outer
<1>4. CASE Prepare
  BY <1>4 DEF Prepare, Stage, Goto, NextPlugin, Mark, P, ctl, calls, lock, hist,
     outer
<1>5. CASE StageFails
  BY <1>5 DEF StageFails, Mark, Fault, Raise, ExitFinish, Goto, P, ctl, calls,
     lock, hist, outer
<1>6. CASE Validate
  BY <1>6 DEF Validate, Goto, Fault, Raise, ExitFinish, ctl, calls, lock, hist,
     outer
<1>7. CASE Enter
  BY <1>7 DEF Enter, Goto, ctl, calls, lock, hist, outer
<1>8. CASE Waiting
  BY <1>8 DEF Waiting, Goto, Raise, ExitFinish, ctl, calls, lock, hist, outer
<1>9. CASE Start
  BY <1>9 DEF Start, Goto, Fault, Raise, ExitFinish, ctl, calls, lock, hist, outer
<1>10. CASE Starting
  BY <1>10 DEF Starting, Goto, NextPlugin, Mark, P, Fault, Raise, ExitFinish, ctl,
     calls, lock, hist, outer
<1>11. CASE Poll
  BY <1>11 DEF Poll, Goto, TestOver, Fault, Raise, ExitFinish, ctl, calls, lock,
     hist, outer
<1>12. CASE PollPlugin
  BY <1>12 DEF PollPlugin, TestOver, ExitFinish, Goto, NextPlugin, P, PollResults,
     ctl, calls, lock, hist, outer
<1>13. CASE PollFails
  BY <1>13 DEF PollFails, Caught, TestOver, ExitFinish, Goto, NextPlugin, P, ctl,
     calls, lock, hist, outer
<1>14. CASE PollAgain
  BY <1>14 DEF PollAgain, Goto, ctl, calls, lock, hist, outer
<1>15. CASE EndGenerator
  BY <1>15 DEF EndGenerator, Goto, Ended, ctl, calls, lock, hist, outer
<1>16. CASE EndGeneratorFails
  BY <1>16 DEF EndGeneratorFails, Ended, Fault, Raise, ExitFinish, Goto, ctl,
     calls, lock, hist, outer
<1>17. CASE EndMonitor
  BY <1>17 DEF EndMonitor, NextPlugin, Ended, Raise, ExitFinish, Fault, Goto, P,
     ctl, calls, lock, hist, outer
<1>18. CASE EndPlugin
  BY <1>18 DEF EndPlugin, Ended, Caught, Falsy, NextPlugin, P, ctl, calls, lock,
     hist, outer
<1>19. CASE LeaveFinish
  BY <1>19 DEF LeaveFinish, Raise, ExitFinish, Goto, ctl, calls, lock, hist, outer
<1>20. CASE PostProcess
  BY <1>20 DEF PostProcess, Mark, Caught, Falsy, NextPlugin, P, ctl, calls, lock,
     hist, outer
<1>21. CASE PostProcessed
  BY <1>21 DEF PostProcessed, Goto, Raise, ExitFinish, ctl, calls, lock, hist,
     outer
<1>22. CASE CleanPlugins
  BY <1>22 DEF CleanPlugins, Goto, ctl, calls, lock, hist, outer
<1>23. CASE ReleaseLock
  BY <1>23 DEF ReleaseLock, Goto, ctl, calls, lock, hist, outer
<1>24. CASE CleanLog
  BY <1>24 DEF CleanLog, Goto, ctl, calls, lock, hist, outer
<1>25. CASE SaveStatus
  BY <1>25 DEF SaveStatus, Goto, ctl, calls, lock, hist, outer
<1>26. CASE Collect
  BY <1>26 DEF Collect, Goto, ctl, calls, lock, hist, outer
<1>27. CASE SetFinished
  BY <1>27 DEF SetFinished, Goto, ctl, calls, lock, hist, outer
<1>28. CASE Close
  BY <1>28 DEF Close, Goto, ctl, calls, lock, hist, outer
<1>29. CASE Prompted
  BY <1>29 DEF Prompted, ctl, calls, lock, hist, outer
<1>30. CASE Exit
  BY <1>30 DEF Exit, ctl, calls, lock, hist, outer
<1>31. CASE Sigint
  <2>1. CASE pc \in InCleanup
    BY <1>31, <2>1 DEF Sigint, Goto, Raise, ExitFinish, ctl, calls, lock, hist,
       outer
  <2>2. CASE pc \in InFinish
    BY <1>31, <2>2 DEF Sigint, Goto, Raise, ExitFinish, ctl, calls, lock, hist,
       outer
  <2>3. CASE pc \in BeforeFinish
    BY <1>31, <2>3 DEF Sigint, Goto, Raise, ExitFinish, ctl, calls, lock, hist,
       outer
  <2>4. CASE pc \in InEnd \cup {"post"}
    BY <1>31, <2>4 DEF Sigint, Goto, Raise, ExitFinish, ctl, calls, lock, hist,
       outer
  <2>5. QED
    BY <1>31, <2>1, <2>2, <2>3, <2>4 DEF Sigint, PC
<1>32. CASE Kill
  BY <1>32 DEF Kill, Goto, ctl, calls, lock, hist, outer
<1>33. CASE PressEnter
  BY <1>33 DEF PressEnter, ctl, calls, lock, hist, outer
<1>34. CASE Stop
  BY <1>34 DEF Stop, ctl, calls, lock, hist, outer
<1>35. CASE UNCHANGED vars
  BY <1>35 DEF vars, ctl, calls, lock, hist, outer
<1>36. QED
  BY <1>1a, <1>1b, <1>1c, <1>1, <1>2, <1>3, <1>4, <1>5, <1>6, <1>7, <1>8, <1>9,
     <1>10, <1>11, <1>12,
     <1>13, <1>14, <1>15, <1>16, <1>17, <1>18, <1>19, <1>20, <1>21, <1>22, <1>23,
     <1>24, <1>25, <1>26, <1>27, <1>28, <1>29, <1>30, <1>31, <1>32, <1>33, <1>34,
     <1>35 DEF Next, Worker, Cli

\* The stages the plugins have been through.
LEMMA StageStep ==
    ASSUME TypeOK, OrderInv, CodeInv, StageInv, [Next]_vars
    PROVE  StageInv'
<1> USE PluginCount, CodeTypes DEF StageInv, OrderInv, CodeInv, PostAfterEnd,
   AllEnded, TypeOK, Stages, BeforeFinish, InFinish, InEnd, InCleanup, InLock
<1>1a. CASE MakeLock
  BY <1>1a DEF MakeLock, Goto, ctl, calls, lock, hist, outer
<1>1b. CASE WriteLock
  BY <1>1b DEF WriteLock, Goto, Fault, Raise, ExitFinish, ctl, calls, lock, hist,
     outer
<1>1c. CASE RegisterLock
  BY <1>1c DEF RegisterLock, Goto, ctl, calls, lock, hist, outer
<1>1. CASE Locked
  BY <1>1 DEF Locked, Goto, ctl, calls, lock, hist, outer
<1>2. CASE NotLocked
  BY <1>2 DEF NotLocked, Raise, ExitFinish, Goto, ctl, calls, lock, hist, outer
<1>3. CASE Configure
  BY <1>3 DEF Configure, Stage, Goto, NextPlugin, Mark, P, ctl, calls, lock, hist,
     outer
<1>4. CASE Prepare
  BY <1>4 DEF Prepare, Stage, Goto, NextPlugin, Mark, P, ctl, calls, lock, hist,
     outer
<1>5. CASE StageFails
  BY <1>5 DEF StageFails, Mark, Fault, Raise, ExitFinish, Goto, P, ctl, calls,
     lock, hist, outer
<1>6. CASE Validate
  BY <1>6 DEF Validate, Goto, Fault, Raise, ExitFinish, ctl, calls, lock, hist,
     outer
<1>7. CASE Enter
  BY <1>7 DEF Enter, Goto, ctl, calls, lock, hist, outer
<1>8. CASE Waiting
  BY <1>8 DEF Waiting, Goto, Raise, ExitFinish, ctl, calls, lock, hist, outer
<1>9. CASE Start
  BY <1>9 DEF Start, Goto, Fault, Raise, ExitFinish, ctl, calls, lock, hist, outer
<1>10. CASE Starting
  <2>1. CASE k > N
    <3>1. \A i \in 1 .. N : order[i] \in did["start"]
      BY <1>10, <2>1, PluginCount DEF Starting
    <3>2. Plugins \subseteq did["start"]
      BY <3>1
    <3>3. did["start"] = Plugins
      BY <3>2
    <3>4. QED
      BY <1>10, <2>1, <3>3 DEF Starting, Goto, NextPlugin, Mark, P, Fault, Raise,
         ExitFinish, ctl, calls, lock, hist, outer
  <2>2. CASE k <= N /\ pc' = "starting"
    <3>1. did' = [did EXCEPT !["start"] = @ \cup {order[k]}] /\ k' = k + 1
      BY <1>10, <2>2, PluginCount DEF Starting, Goto, NextPlugin, Mark, P, Fault,
         Raise, ExitFinish, ctl, calls, lock, hist, outer
    <3>2. did'["start"] = did["start"] \cup {order[k]} /\ did'["post"] = did["post"]
      BY <3>1
    <3>3. \A i \in 1 .. N : i < k' => order[i] \in did'["start"]
      BY <1>10, <3>1, <3>2, PluginCount DEF Starting
    <3>4. QED
      BY <1>10, <2>2, <3>2, <3>3 DEF Starting, Goto, NextPlugin, Mark, P, Fault,
         Raise, ExitFinish, ctl, calls, lock, hist, outer
  <2>3. CASE k <= N /\ pc' # "starting"
    BY <1>10, <2>3 DEF Starting, Goto, NextPlugin, Mark, P, Fault, Raise,
       ExitFinish, ctl, calls, lock, hist, outer
  <2>4. QED
    BY <2>1, <2>2, <2>3, PluginCount
<1>11. CASE Poll
  BY <1>11 DEF Poll, Goto, TestOver, Fault, Raise, ExitFinish, ctl, calls, lock,
     hist, outer
<1>12. CASE PollPlugin
  BY <1>12 DEF PollPlugin, TestOver, ExitFinish, Goto, NextPlugin, P, PollResults,
     ctl, calls, lock, hist, outer
<1>13. CASE PollFails
  BY <1>13 DEF PollFails, Caught, TestOver, ExitFinish, Goto, NextPlugin, P, ctl,
     calls, lock, hist, outer
<1>14. CASE PollAgain
  BY <1>14 DEF PollAgain, Goto, ctl, calls, lock, hist, outer
<1>15. CASE EndGenerator
  BY <1>15 DEF EndGenerator, Goto, Ended, ctl, calls, lock, hist, outer
<1>16. CASE EndGeneratorFails
  BY <1>16 DEF EndGeneratorFails, Ended, Fault, Raise, ExitFinish, Goto, ctl,
     calls, lock, hist, outer
<1>17. CASE EndMonitor
  <2>1. did' = did /\ rc' = rc /\ did["post"] = {}
    BY <1>17 DEF EndMonitor, Raise, ExitFinish
  <2>2. pc' = "end_mon" \/ pc' = "cl_plugins" \/ (pc' = "end_rest" /\ k' = 1)
    BY <1>17 DEF EndMonitor, NextPlugin, Raise, Goto
  <2>3. pc' = "end_rest" => \A i \in 1 .. N : ~(i < k')
    BY <2>2, PluginCount
  <2>4. QED
    BY <1>17, <2>1, <2>2, <2>3 DEF EndMonitor
<1>18. CASE EndPlugin
  <2>1. ends' = [ends EXCEPT ![order[k]] = @ + 1] /\ k' = k + 1 /\ pc' = pc
    BY <1>18 DEF EndPlugin, Ended, NextPlugin, P
  <2>2. k \in 1 .. N /\ order[k] \in Plugins
    BY <1>18, PluginCount DEF EndPlugin
  <2>3. \A p \in Plugins : ends[p] > 0 \/ p = order[k] => ends'[p] > 0
    BY <2>1, <2>2
  <2>4. \A i \in 1 .. N : i < k' => i < k \/ i = k
    BY <2>1, <2>2, PluginCount
  <2>5. pc = "end_rest" /\ \A i \in 1 .. N : i < k => ends[order[i]] > 0
    BY <1>18 DEF EndPlugin
  <2>6. \A i \in 1 .. N : i < k' => ends'[order[i]] > 0
    BY <2>3, <2>4, <2>5
  <2>7. rc' = 0 => rc = 0
    <3>1. rc' = rc \/ rc' = 1
      BY <1>18 DEF EndPlugin
    <3>2. QED
      BY <3>1
  <2>8. did' = did /\ order' = order
    BY <1>18 DEF EndPlugin
  <2>9. QED
    BY <2>1, <2>5, <2>6, <2>7, <2>8
<1>19. CASE LeaveFinish
  BY <1>19 DEF LeaveFinish, Raise, ExitFinish, Goto, ctl, calls, lock, hist, outer
<1>20. CASE PostProcess
  <2>1. did' = [did EXCEPT !["post"] = @ \cup {order[k]}] /\ k' = k + 1 /\ pc' = pc
    BY <1>20 DEF PostProcess, Mark, Caught, Falsy, NextPlugin, P, ctl, calls,
       lock, hist, outer
  <2>2. did'["post"] = did["post"] \cup {order[k]} /\ did'["start"] = did["start"]
    BY <2>1
  <2>3. \A i \in 1 .. N : i < k' => order[i] \in did'["post"]
    <3>1. pc = "post" /\ k \in 1 .. N
      BY <1>20, PluginCount DEF PostProcess
    <3>2. \A i \in 1 .. N : i < k => order[i] \in did["post"]
      BY <3>1
    <3>3. \A i \in 1 .. N : i < k' <=> i < k \/ i = k
      BY <2>1, <3>1, PluginCount
    <3>4. QED
      BY <2>2, <3>2, <3>3
  <2>4. rc' = 0 /\ ~masked' => did["start"] = Plugins
    <3>1. pc = "post"
      BY <1>20 DEF PostProcess
    <3>2. CASE UNCHANGED <<rc, hist>>
      BY <3>1, <3>2 DEF hist
    <3>3. CASE masked' = (masked \/ rc' = 0)
      BY <3>1, <3>3
    <3>4. CASE Caught(TRUE) /\ rc' = IF Falsy(rc) THEN 1 ELSE rc
      BY <3>1, <3>4 DEF Caught, Falsy
    <3>5. CASE rc' \in {None, 1}
      BY <3>5, CodeTypes
    <3>6. QED
      BY <1>20, <3>2, <3>3, <3>4, <3>5 DEF PostProcess
  <2>5. AllEnded'
    BY <1>20 DEF PostProcess
  <2>6. QED
    BY <1>20, <2>1, <2>2, <2>3, <2>4, <2>5 DEF PostProcess
<1>21. CASE PostProcessed
  BY <1>21 DEF PostProcessed, Goto, Raise, ExitFinish, ctl, calls, lock, hist,
     outer
<1>22. CASE CleanPlugins
  BY <1>22 DEF CleanPlugins, Goto, ctl, calls, lock, hist, outer
<1>23. CASE ReleaseLock
  BY <1>23 DEF ReleaseLock, Goto, ctl, calls, lock, hist, outer
<1>24. CASE CleanLog
  BY <1>24 DEF CleanLog, Goto, ctl, calls, lock, hist, outer
<1>25. CASE SaveStatus
  BY <1>25 DEF SaveStatus, Goto, ctl, calls, lock, hist, outer
<1>26. CASE Collect
  BY <1>26 DEF Collect, Goto, ctl, calls, lock, hist, outer
<1>27. CASE SetFinished
  BY <1>27 DEF SetFinished, Goto, ctl, calls, lock, hist, outer
<1>28. CASE Close
  BY <1>28 DEF Close, Goto, ctl, calls, lock, hist, outer
<1>29. CASE Prompted
  BY <1>29 DEF Prompted, ctl, calls, lock, hist, outer
<1>30. CASE Exit
  BY <1>30 DEF Exit, ctl, calls, lock, hist, outer
<1>31. CASE Sigint
  <2>1. CASE pc \in InCleanup
    BY <1>31, <2>1 DEF Sigint, Goto, Raise, ExitFinish, ctl, calls, lock, hist,
       outer
  <2>2. CASE pc \in InFinish
    BY <1>31, <2>2 DEF Sigint, Goto, Raise, ExitFinish, ctl, calls, lock, hist,
       outer
  <2>3. CASE pc \in BeforeFinish
    BY <1>31, <2>3 DEF Sigint, Goto, Raise, ExitFinish, ctl, calls, lock, hist,
       outer
  <2>4. CASE pc \in InEnd \cup {"post"}
    BY <1>31, <2>4 DEF Sigint, Goto, Raise, ExitFinish, ctl, calls, lock, hist,
       outer
  <2>5. QED
    BY <1>31, <2>1, <2>2, <2>3, <2>4 DEF Sigint, PC
<1>32. CASE Kill
  BY <1>32 DEF Kill, Goto, ctl, calls, lock, hist, outer
<1>33. CASE PressEnter
  BY <1>33 DEF PressEnter, ctl, calls, lock, hist, outer
<1>34. CASE Stop
  BY <1>34 DEF Stop, ctl, calls, lock, hist, outer
<1>35. CASE UNCHANGED vars
  BY <1>35 DEF vars, ctl, calls, lock, hist, outer
<1>36. QED
  BY <1>1a, <1>1b, <1>1c, <1>1, <1>2, <1>3, <1>4, <1>5, <1>6, <1>7, <1>8, <1>9,
     <1>10, <1>11, <1>12,
     <1>13, <1>14, <1>15, <1>16, <1>17, <1>18, <1>19, <1>20, <1>21, <1>22, <1>23,
     <1>24, <1>25, <1>26, <1>27, <1>28, <1>29, <1>30, <1>31, <1>32, <1>33, <1>34,
     <1>35 DEF Next, Worker, Cli

\* What code 0 stands for.
LEMMA EndStep ==
    ASSUME TypeOK, OrderInv, CodeInv, StageInv, EndInv, [Next]_vars
    PROVE  EndInv'
<1> USE PluginCount DEF EndInv, Complete, Dead, StageInv, OrderInv, CodeInv,
   AllEnded, TypeOK, Stages, BeforeFinish, InFinish, InEnd, InCleanup, InLock
<1>1a. CASE MakeLock
  BY <1>1a DEF MakeLock, Goto, ctl, calls, lock, hist, outer
<1>1b. CASE WriteLock
  BY <1>1b DEF WriteLock, Goto, Fault, Raise, ExitFinish, ctl, calls, lock, hist,
     outer
<1>1c. CASE RegisterLock
  BY <1>1c DEF RegisterLock, Goto, ctl, calls, lock, hist, outer
<1>1. CASE Locked
  BY <1>1 DEF Locked, Goto, ctl, calls, lock, hist, outer
<1>2. CASE NotLocked
  BY <1>2 DEF NotLocked, Raise, ExitFinish, Goto, ctl, calls, lock, hist, outer
<1>3. CASE Configure
  BY <1>3 DEF Configure, Stage, Goto, NextPlugin, Mark, P, ctl, calls, lock, hist,
     outer
<1>4. CASE Prepare
  BY <1>4 DEF Prepare, Stage, Goto, NextPlugin, Mark, P, ctl, calls, lock, hist,
     outer
<1>5. CASE StageFails
  BY <1>5 DEF StageFails, Mark, Fault, Raise, ExitFinish, Goto, P, ctl, calls,
     lock, hist, outer
<1>6. CASE Validate
  BY <1>6 DEF Validate, Goto, Fault, Raise, ExitFinish, ctl, calls, lock, hist,
     outer
<1>7. CASE Enter
  BY <1>7 DEF Enter, Goto, ctl, calls, lock, hist, outer
<1>8. CASE Waiting
  BY <1>8 DEF Waiting, Goto, Raise, ExitFinish, ctl, calls, lock, hist, outer
<1>9. CASE Start
  BY <1>9 DEF Start, Goto, Fault, Raise, ExitFinish, ctl, calls, lock, hist, outer
<1>10. CASE Starting
  BY <1>10 DEF Starting, Goto, NextPlugin, Mark, P, Fault, Raise, ExitFinish, ctl,
     calls, lock, hist, outer
<1>11. CASE Poll
  BY <1>11 DEF Poll, Goto, TestOver, Fault, Raise, ExitFinish, ctl, calls, lock,
     hist, outer
<1>12. CASE PollPlugin
  BY <1>12 DEF PollPlugin, TestOver, ExitFinish, Goto, NextPlugin, P, PollResults,
     ctl, calls, lock, hist, outer
<1>13. CASE PollFails
  BY <1>13 DEF PollFails, Caught, TestOver, ExitFinish, Goto, NextPlugin, P, ctl,
     calls, lock, hist, outer
<1>14. CASE PollAgain
  BY <1>14 DEF PollAgain, Goto, ctl, calls, lock, hist, outer
<1>15. CASE EndGenerator
  BY <1>15 DEF EndGenerator, Goto, Ended, ctl, calls, lock, hist, outer
<1>16. CASE EndGeneratorFails
  BY <1>16 DEF EndGeneratorFails, Ended, Fault, Raise, ExitFinish, Goto, ctl,
     calls, lock, hist, outer
<1>17. CASE EndMonitor
  BY <1>17 DEF EndMonitor, NextPlugin, Ended, Raise, ExitFinish, Fault, Goto, P,
     ctl, calls, lock, hist, outer
<1>18. CASE EndPlugin
  BY <1>18 DEF EndPlugin, Ended, Caught, Falsy, NextPlugin, P, ctl, calls, lock,
     hist, outer
<1>19. CASE LeaveFinish
  BY <1>19 DEF LeaveFinish, Raise, ExitFinish, Goto, ctl, calls, lock, hist, outer
<1>20. CASE PostProcess
  BY <1>20 DEF PostProcess, Mark, Caught, Falsy, NextPlugin, P, ctl, calls, lock,
     hist, outer
<1>21. CASE PostProcessed
  <2>1. \A i \in 1 .. N : order[i] \in did["post"]
    BY <1>21, PluginCount DEF PostProcessed
  <2>2. Plugins \subseteq did["post"]
    BY <2>1
  <2>3. did["post"] = Plugins
    BY <2>2
  <2>4. QED
    BY <1>21, <2>3 DEF PostProcessed, Goto, Raise, ExitFinish, ctl, calls, lock, hist,
       outer
<1>22. CASE CleanPlugins
  BY <1>22 DEF CleanPlugins, Goto, ctl, calls, lock, hist, outer
<1>23. CASE ReleaseLock
  BY <1>23 DEF ReleaseLock, Goto, ctl, calls, lock, hist, outer
<1>24. CASE CleanLog
  BY <1>24 DEF CleanLog, Goto, ctl, calls, lock, hist, outer
<1>25. CASE SaveStatus
  BY <1>25 DEF SaveStatus, Goto, ctl, calls, lock, hist, outer
<1>26. CASE Collect
  BY <1>26 DEF Collect, Goto, ctl, calls, lock, hist, outer
<1>27. CASE SetFinished
  BY <1>27 DEF SetFinished, Goto, ctl, calls, lock, hist, outer
<1>28. CASE Close
  BY <1>28 DEF Close, Goto, ctl, calls, lock, hist, outer
<1>29. CASE Prompted
  BY <1>29 DEF Prompted, ctl, calls, lock, hist, outer
<1>30. CASE Exit
  BY <1>30 DEF Exit, ctl, calls, lock, hist, outer
<1>31. CASE Sigint
  <2>1. CASE pc \in InCleanup
    BY <1>31, <2>1 DEF Sigint, Goto, Raise, ExitFinish, ctl, calls, lock, hist,
       outer
  <2>2. CASE pc \in InFinish
    BY <1>31, <2>2 DEF Sigint, Goto, Raise, ExitFinish, ctl, calls, lock, hist,
       outer
  <2>3. CASE pc \in BeforeFinish
    BY <1>31, <2>3 DEF Sigint, Goto, Raise, ExitFinish, ctl, calls, lock, hist,
       outer
  <2>4. CASE pc \in InEnd \cup {"post"}
    BY <1>31, <2>4 DEF Sigint, Goto, Raise, ExitFinish, ctl, calls, lock, hist,
       outer
  <2>5. QED
    BY <1>31, <2>1, <2>2, <2>3, <2>4 DEF Sigint, PC
<1>32. CASE Kill
  BY <1>32 DEF Kill, Goto, ctl, calls, lock, hist, outer
<1>33. CASE PressEnter
  BY <1>33 DEF PressEnter, ctl, calls, lock, hist, outer
<1>34. CASE Stop
  BY <1>34 DEF Stop, ctl, calls, lock, hist, outer
<1>35. CASE UNCHANGED vars
  BY <1>35 DEF vars, ctl, calls, lock, hist, outer
<1>36. QED
  BY <1>1a, <1>1b, <1>1c, <1>1, <1>2, <1>3, <1>4, <1>5, <1>6, <1>7, <1>8, <1>9,
     <1>10, <1>11, <1>12,
     <1>13, <1>14, <1>15, <1>16, <1>17, <1>18, <1>19, <1>20, <1>21, <1>22, <1>23,
     <1>24, <1>25, <1>26, <1>27, <1>28, <1>29, <1>30, <1>31, <1>32, <1>33, <1>34,
     <1>35 DEF Next, Worker, Cli

\* The saved code.
LEMMA SaveStep ==
    ASSUME TypeOK, SaveInv, [Next]_vars
    PROVE  SaveInv'
<1> USE DEF SaveInv, SavedIsFinal, TypeOK, BeforeFinish, InFinish, InEnd, InCleanup, InLock
<1>1a. CASE MakeLock
  BY <1>1a DEF MakeLock, Goto, ctl, calls, lock, hist, outer
<1>1b. CASE WriteLock
  BY <1>1b DEF WriteLock, Goto, Fault, Raise, ExitFinish, ctl, calls, lock, hist,
     outer
<1>1c. CASE RegisterLock
  BY <1>1c DEF RegisterLock, Goto, ctl, calls, lock, hist, outer
<1>1. CASE Locked
  BY <1>1 DEF Locked, Goto, ctl, calls, lock, hist, outer
<1>2. CASE NotLocked
  BY <1>2 DEF NotLocked, Raise, ExitFinish, Goto, ctl, calls, lock, hist, outer
<1>3. CASE Configure
  BY <1>3 DEF Configure, Stage, Goto, NextPlugin, Mark, P, ctl, calls, lock, hist,
     outer
<1>4. CASE Prepare
  BY <1>4 DEF Prepare, Stage, Goto, NextPlugin, Mark, P, ctl, calls, lock, hist,
     outer
<1>5. CASE StageFails
  BY <1>5 DEF StageFails, Mark, Fault, Raise, ExitFinish, Goto, P, ctl, calls,
     lock, hist, outer
<1>6. CASE Validate
  BY <1>6 DEF Validate, Goto, Fault, Raise, ExitFinish, ctl, calls, lock, hist,
     outer
<1>7. CASE Enter
  BY <1>7 DEF Enter, Goto, ctl, calls, lock, hist, outer
<1>8. CASE Waiting
  BY <1>8 DEF Waiting, Goto, Raise, ExitFinish, ctl, calls, lock, hist, outer
<1>9. CASE Start
  BY <1>9 DEF Start, Goto, Fault, Raise, ExitFinish, ctl, calls, lock, hist, outer
<1>10. CASE Starting
  BY <1>10 DEF Starting, Goto, NextPlugin, Mark, P, Fault, Raise, ExitFinish, ctl,
     calls, lock, hist, outer
<1>11. CASE Poll
  BY <1>11 DEF Poll, Goto, TestOver, Fault, Raise, ExitFinish, ctl, calls, lock,
     hist, outer
<1>12. CASE PollPlugin
  BY <1>12 DEF PollPlugin, TestOver, ExitFinish, Goto, NextPlugin, P, PollResults,
     ctl, calls, lock, hist, outer
<1>13. CASE PollFails
  BY <1>13 DEF PollFails, Caught, TestOver, ExitFinish, Goto, NextPlugin, P, ctl,
     calls, lock, hist, outer
<1>14. CASE PollAgain
  BY <1>14 DEF PollAgain, Goto, ctl, calls, lock, hist, outer
<1>15. CASE EndGenerator
  BY <1>15 DEF EndGenerator, Goto, Ended, ctl, calls, lock, hist, outer
<1>16. CASE EndGeneratorFails
  BY <1>16 DEF EndGeneratorFails, Ended, Fault, Raise, ExitFinish, Goto, ctl,
     calls, lock, hist, outer
<1>17. CASE EndMonitor
  BY <1>17 DEF EndMonitor, NextPlugin, Ended, Raise, ExitFinish, Fault, Goto, P,
     ctl, calls, lock, hist, outer
<1>18. CASE EndPlugin
  BY <1>18 DEF EndPlugin, Ended, Caught, Falsy, NextPlugin, P, ctl, calls, lock,
     hist, outer
<1>19. CASE LeaveFinish
  BY <1>19 DEF LeaveFinish, Raise, ExitFinish, Goto, ctl, calls, lock, hist, outer
<1>20. CASE PostProcess
  BY <1>20 DEF PostProcess, Mark, Caught, Falsy, NextPlugin, P, ctl, calls, lock,
     hist, outer
<1>21. CASE PostProcessed
  BY <1>21 DEF PostProcessed, Goto, Raise, ExitFinish, ctl, calls, lock, hist,
     outer
<1>22. CASE CleanPlugins
  BY <1>22 DEF CleanPlugins, Goto, ctl, calls, lock, hist, outer
<1>23. CASE ReleaseLock
  BY <1>23 DEF ReleaseLock, Goto, ctl, calls, lock, hist, outer
<1>24. CASE CleanLog
  BY <1>24 DEF CleanLog, Goto, ctl, calls, lock, hist, outer
<1>25. CASE SaveStatus
  BY <1>25 DEF SaveStatus, Goto, ctl, calls, lock, hist, outer
<1>26. CASE Collect
  BY <1>26 DEF Collect, Goto, ctl, calls, lock, hist, outer
<1>27. CASE SetFinished
  BY <1>27 DEF SetFinished, Goto, ctl, calls, lock, hist, outer
<1>28. CASE Close
  BY <1>28 DEF Close, Goto, ctl, calls, lock, hist, outer
<1>29. CASE Prompted
  BY <1>29 DEF Prompted, ctl, calls, lock, hist, outer
<1>30. CASE Exit
  BY <1>30 DEF Exit, ctl, calls, lock, hist, outer
<1>31. CASE Sigint
  <2>1. CASE pc \in InCleanup
    BY <1>31, <2>1 DEF Sigint, Goto, Raise, ExitFinish, ctl, calls, lock, hist,
       outer
  <2>2. CASE pc \in InFinish
    BY <1>31, <2>2 DEF Sigint, Goto, Raise, ExitFinish, ctl, calls, lock, hist,
       outer
  <2>3. CASE pc \in BeforeFinish
    BY <1>31, <2>3 DEF Sigint, Goto, Raise, ExitFinish, ctl, calls, lock, hist,
       outer
  <2>4. CASE pc \in InEnd \cup {"post"}
    BY <1>31, <2>4 DEF Sigint, Goto, Raise, ExitFinish, ctl, calls, lock, hist,
       outer
  <2>5. QED
    BY <1>31, <2>1, <2>2, <2>3, <2>4 DEF Sigint, PC
<1>32. CASE Kill
  BY <1>32 DEF Kill, Goto, ctl, calls, lock, hist, outer
<1>33. CASE PressEnter
  BY <1>33 DEF PressEnter, ctl, calls, lock, hist, outer
<1>34. CASE Stop
  BY <1>34 DEF Stop, ctl, calls, lock, hist, outer
<1>35. CASE UNCHANGED vars
  BY <1>35 DEF vars, ctl, calls, lock, hist, outer
<1>36. QED
  BY <1>1a, <1>1b, <1>1c, <1>1, <1>2, <1>3, <1>4, <1>5, <1>6, <1>7, <1>8, <1>9,
     <1>10, <1>11, <1>12,
     <1>13, <1>14, <1>15, <1>16, <1>17, <1>18, <1>19, <1>20, <1>21, <1>22, <1>23,
     <1>24, <1>25, <1>26, <1>27, <1>28, <1>29, <1>30, <1>31, <1>32, <1>33, <1>34,
     <1>35 DEF Next, Worker, Cli

\* The status.
LEMMA StatusStep ==
    ASSUME TypeOK, StatusInv, [Next]_vars
    PROVE  StatusInv'
<1> USE DEF StatusInv, TypeOK, BeforeFinish, InFinish, InEnd, InCleanup, InLock
<1>1a. CASE MakeLock
  BY <1>1a DEF MakeLock, Goto, ctl, calls, lock, hist, outer
<1>1b. CASE WriteLock
  BY <1>1b DEF WriteLock, Goto, Fault, Raise, ExitFinish, ctl, calls, lock, hist,
     outer
<1>1c. CASE RegisterLock
  BY <1>1c DEF RegisterLock, Goto, ctl, calls, lock, hist, outer
<1>1. CASE Locked
  BY <1>1 DEF Locked, Goto, ctl, calls, lock, hist, outer
<1>2. CASE NotLocked
  BY <1>2 DEF NotLocked, Raise, ExitFinish, Goto, ctl, calls, lock, hist, outer
<1>3. CASE Configure
  BY <1>3 DEF Configure, Stage, Goto, NextPlugin, Mark, P, ctl, calls, lock, hist,
     outer
<1>4. CASE Prepare
  BY <1>4 DEF Prepare, Stage, Goto, NextPlugin, Mark, P, ctl, calls, lock, hist,
     outer
<1>5. CASE StageFails
  BY <1>5 DEF StageFails, Mark, Fault, Raise, ExitFinish, Goto, P, ctl, calls,
     lock, hist, outer
<1>6. CASE Validate
  BY <1>6 DEF Validate, Goto, Fault, Raise, ExitFinish, ctl, calls, lock, hist,
     outer
<1>7. CASE Enter
  BY <1>7 DEF Enter, Goto, ctl, calls, lock, hist, outer
<1>8. CASE Waiting
  BY <1>8 DEF Waiting, Goto, Raise, ExitFinish, ctl, calls, lock, hist, outer
<1>9. CASE Start
  BY <1>9 DEF Start, Goto, Fault, Raise, ExitFinish, ctl, calls, lock, hist, outer
<1>10. CASE Starting
  BY <1>10 DEF Starting, Goto, NextPlugin, Mark, P, Fault, Raise, ExitFinish, ctl,
     calls, lock, hist, outer
<1>11. CASE Poll
  BY <1>11 DEF Poll, Goto, TestOver, Fault, Raise, ExitFinish, ctl, calls, lock,
     hist, outer
<1>12. CASE PollPlugin
  BY <1>12 DEF PollPlugin, TestOver, ExitFinish, Goto, NextPlugin, P, PollResults,
     ctl, calls, lock, hist, outer
<1>13. CASE PollFails
  BY <1>13 DEF PollFails, Caught, TestOver, ExitFinish, Goto, NextPlugin, P, ctl,
     calls, lock, hist, outer
<1>14. CASE PollAgain
  BY <1>14 DEF PollAgain, Goto, ctl, calls, lock, hist, outer
<1>15. CASE EndGenerator
  BY <1>15 DEF EndGenerator, Goto, Ended, ctl, calls, lock, hist, outer
<1>16. CASE EndGeneratorFails
  BY <1>16 DEF EndGeneratorFails, Ended, Fault, Raise, ExitFinish, Goto, ctl,
     calls, lock, hist, outer
<1>17. CASE EndMonitor
  BY <1>17 DEF EndMonitor, NextPlugin, Ended, Raise, ExitFinish, Fault, Goto, P,
     ctl, calls, lock, hist, outer
<1>18. CASE EndPlugin
  BY <1>18 DEF EndPlugin, Ended, Caught, Falsy, NextPlugin, P, ctl, calls, lock,
     hist, outer
<1>19. CASE LeaveFinish
  BY <1>19 DEF LeaveFinish, Raise, ExitFinish, Goto, ctl, calls, lock, hist, outer
<1>20. CASE PostProcess
  BY <1>20 DEF PostProcess, Mark, Caught, Falsy, NextPlugin, P, ctl, calls, lock,
     hist, outer
<1>21. CASE PostProcessed
  BY <1>21 DEF PostProcessed, Goto, Raise, ExitFinish, ctl, calls, lock, hist,
     outer
<1>22. CASE CleanPlugins
  BY <1>22 DEF CleanPlugins, Goto, ctl, calls, lock, hist, outer
<1>23. CASE ReleaseLock
  BY <1>23 DEF ReleaseLock, Goto, ctl, calls, lock, hist, outer
<1>24. CASE CleanLog
  BY <1>24 DEF CleanLog, Goto, ctl, calls, lock, hist, outer
<1>25. CASE SaveStatus
  BY <1>25 DEF SaveStatus, Goto, ctl, calls, lock, hist, outer
<1>26. CASE Collect
  BY <1>26 DEF Collect, Goto, ctl, calls, lock, hist, outer
<1>27. CASE SetFinished
  BY <1>27 DEF SetFinished, Goto, ctl, calls, lock, hist, outer
<1>28. CASE Close
  BY <1>28 DEF Close, Goto, ctl, calls, lock, hist, outer
<1>29. CASE Prompted
  BY <1>29 DEF Prompted, ctl, calls, lock, hist, outer
<1>30. CASE Exit
  BY <1>30 DEF Exit, ctl, calls, lock, hist, outer
<1>31. CASE Sigint
  <2>1. CASE pc \in InCleanup
    BY <1>31, <2>1 DEF Sigint, Goto, Raise, ExitFinish, ctl, calls, lock, hist,
       outer
  <2>2. CASE pc \in InFinish
    BY <1>31, <2>2 DEF Sigint, Goto, Raise, ExitFinish, ctl, calls, lock, hist,
       outer
  <2>3. CASE pc \in BeforeFinish
    BY <1>31, <2>3 DEF Sigint, Goto, Raise, ExitFinish, ctl, calls, lock, hist,
       outer
  <2>4. CASE pc \in InEnd \cup {"post"}
    BY <1>31, <2>4 DEF Sigint, Goto, Raise, ExitFinish, ctl, calls, lock, hist,
       outer
  <2>5. QED
    BY <1>31, <2>1, <2>2, <2>3, <2>4 DEF Sigint, PC
<1>32. CASE Kill
  BY <1>32 DEF Kill, Goto, ctl, calls, lock, hist, outer
<1>33. CASE PressEnter
  BY <1>33 DEF PressEnter, ctl, calls, lock, hist, outer
<1>34. CASE Stop
  BY <1>34 DEF Stop, ctl, calls, lock, hist, outer
<1>35. CASE UNCHANGED vars
  BY <1>35 DEF vars, ctl, calls, lock, hist, outer
<1>36. QED
  BY <1>1a, <1>1b, <1>1c, <1>1, <1>2, <1>3, <1>4, <1>5, <1>6, <1>7, <1>8, <1>9,
     <1>10, <1>11, <1>12,
     <1>13, <1>14, <1>15, <1>16, <1>17, <1>18, <1>19, <1>20, <1>21, <1>22, <1>23,
     <1>24, <1>25, <1>26, <1>27, <1>28, <1>29, <1>30, <1>31, <1>32, <1>33, <1>34,
     <1>35 DEF Next, Worker, Cli

\* The plugins stay in their order.
LEMMA OrderStep ==
    ASSUME OrderInv, [Next]_vars
    PROVE  OrderInv'
<1> USE DEF OrderInv
<1>1a. CASE MakeLock
  BY <1>1a DEF MakeLock, Goto, ctl, calls, lock, hist, outer
<1>1b. CASE WriteLock
  BY <1>1b DEF WriteLock, Goto, Fault, Raise, ExitFinish, ctl, calls, lock, hist,
     outer
<1>1c. CASE RegisterLock
  BY <1>1c DEF RegisterLock, Goto, ctl, calls, lock, hist, outer
<1>1. CASE Locked
  BY <1>1 DEF Locked, Goto, ctl, calls, lock, hist, outer
<1>2. CASE NotLocked
  BY <1>2 DEF NotLocked, Raise, ExitFinish, Goto, ctl, calls, lock, hist, outer
<1>3. CASE Configure
  BY <1>3 DEF Configure, Stage, Goto, NextPlugin, Mark, P, ctl, calls, lock, hist,
     outer
<1>4. CASE Prepare
  BY <1>4 DEF Prepare, Stage, Goto, NextPlugin, Mark, P, ctl, calls, lock, hist,
     outer
<1>5. CASE StageFails
  BY <1>5 DEF StageFails, Mark, Fault, Raise, ExitFinish, Goto, P, ctl, calls,
     lock, hist, outer
<1>6. CASE Validate
  BY <1>6 DEF Validate, Goto, Fault, Raise, ExitFinish, ctl, calls, lock, hist,
     outer
<1>7. CASE Enter
  BY <1>7 DEF Enter, Goto, ctl, calls, lock, hist, outer
<1>8. CASE Waiting
  BY <1>8 DEF Waiting, Goto, Raise, ExitFinish, ctl, calls, lock, hist, outer
<1>9. CASE Start
  BY <1>9 DEF Start, Goto, Fault, Raise, ExitFinish, ctl, calls, lock, hist, outer
<1>10. CASE Starting
  BY <1>10 DEF Starting, Goto, NextPlugin, Mark, P, Fault, Raise, ExitFinish, ctl,
     calls, lock, hist, outer
<1>11. CASE Poll
  BY <1>11 DEF Poll, Goto, TestOver, Fault, Raise, ExitFinish, ctl, calls, lock,
     hist, outer
<1>12. CASE PollPlugin
  BY <1>12 DEF PollPlugin, TestOver, ExitFinish, Goto, NextPlugin, P, PollResults,
     ctl, calls, lock, hist, outer
<1>13. CASE PollFails
  BY <1>13 DEF PollFails, Caught, TestOver, ExitFinish, Goto, NextPlugin, P, ctl,
     calls, lock, hist, outer
<1>14. CASE PollAgain
  BY <1>14 DEF PollAgain, Goto, ctl, calls, lock, hist, outer
<1>15. CASE EndGenerator
  BY <1>15 DEF EndGenerator, Goto, Ended, ctl, calls, lock, hist, outer
<1>16. CASE EndGeneratorFails
  BY <1>16 DEF EndGeneratorFails, Ended, Fault, Raise, ExitFinish, Goto, ctl,
     calls, lock, hist, outer
<1>17. CASE EndMonitor
  BY <1>17 DEF EndMonitor, NextPlugin, Ended, Raise, ExitFinish, Fault, Goto, P,
     ctl, calls, lock, hist, outer
<1>18. CASE EndPlugin
  BY <1>18 DEF EndPlugin, Ended, Caught, Falsy, NextPlugin, P, ctl, calls, lock,
     hist, outer
<1>19. CASE LeaveFinish
  BY <1>19 DEF LeaveFinish, Raise, ExitFinish, Goto, ctl, calls, lock, hist, outer
<1>20. CASE PostProcess
  BY <1>20 DEF PostProcess, Mark, Caught, Falsy, NextPlugin, P, ctl, calls, lock,
     hist, outer
<1>21. CASE PostProcessed
  BY <1>21 DEF PostProcessed, Goto, Raise, ExitFinish, ctl, calls, lock, hist,
     outer
<1>22. CASE CleanPlugins
  BY <1>22 DEF CleanPlugins, Goto, ctl, calls, lock, hist, outer
<1>23. CASE ReleaseLock
  BY <1>23 DEF ReleaseLock, Goto, ctl, calls, lock, hist, outer
<1>24. CASE CleanLog
  BY <1>24 DEF CleanLog, Goto, ctl, calls, lock, hist, outer
<1>25. CASE SaveStatus
  BY <1>25 DEF SaveStatus, Goto, ctl, calls, lock, hist, outer
<1>26. CASE Collect
  BY <1>26 DEF Collect, Goto, ctl, calls, lock, hist, outer
<1>27. CASE SetFinished
  BY <1>27 DEF SetFinished, Goto, ctl, calls, lock, hist, outer
<1>28. CASE Close
  BY <1>28 DEF Close, Goto, ctl, calls, lock, hist, outer
<1>29. CASE Prompted
  BY <1>29 DEF Prompted, ctl, calls, lock, hist, outer
<1>30. CASE Exit
  BY <1>30 DEF Exit, ctl, calls, lock, hist, outer
<1>31. CASE Sigint
  <2>1. CASE pc \in InCleanup
    BY <1>31, <2>1 DEF Sigint, Goto, Raise, ExitFinish, ctl, calls, lock, hist,
       outer
  <2>2. CASE pc \in InFinish
    BY <1>31, <2>2 DEF Sigint, Goto, Raise, ExitFinish, ctl, calls, lock, hist,
       outer
  <2>3. CASE pc \in BeforeFinish
    BY <1>31, <2>3 DEF Sigint, Goto, Raise, ExitFinish, ctl, calls, lock, hist,
       outer
  <2>4. CASE pc \in InEnd \cup {"post"}
    BY <1>31, <2>4 DEF Sigint, Goto, Raise, ExitFinish, ctl, calls, lock, hist,
       outer
  <2>5. QED
    BY <1>31, <2>1, <2>2, <2>3, <2>4 DEF Sigint, PC
<1>32. CASE Kill
  BY <1>32 DEF Kill, Goto, ctl, calls, lock, hist, outer
<1>33. CASE PressEnter
  BY <1>33 DEF PressEnter, ctl, calls, lock, hist, outer
<1>34. CASE Stop
  BY <1>34 DEF Stop, ctl, calls, lock, hist, outer
<1>35. CASE UNCHANGED vars
  BY <1>35 DEF vars, ctl, calls, lock, hist, outer
<1>36. QED
  BY <1>1a, <1>1b, <1>1c, <1>1, <1>2, <1>3, <1>4, <1>5, <1>6, <1>7, <1>8, <1>9,
     <1>10, <1>11, <1>12,
     <1>13, <1>14, <1>15, <1>16, <1>17, <1>18, <1>19, <1>20, <1>21, <1>22, <1>23,
     <1>24, <1>25, <1>26, <1>27, <1>28, <1>29, <1>30, <1>31, <1>32, <1>33, <1>34,
     <1>35 DEF Next, Worker, Cli


----------------------------------------------------------------------------
(* The refinement *)

\* Every step of the worker is one of TankStatus, or none.
LEMMA WatchedStep ==
    ASSUME TypeOK, LockInv, StatusInv, [Next]_vars
    PROVE  [Watched!Next]_(Watched!vars)
<1> USE DEF Watched!Next, Watched!Prepare, Watched!Wait, Watched!Run, Watched!End,
   Watched!Post, Watched!Break, Watched!Result, Watched!Finished, Watched!Shoot,
   Watched!Over, Watched!Step, Watched!vars, StatusInv, LockInv, TypeOK,
   BeforeFinish, InFinish, InEnd, InCleanup, InLock
<1>1a. CASE MakeLock
  BY <1>1a DEF MakeLock, Goto, ctl, calls, lock, hist, outer
<1>1b. CASE WriteLock
  BY <1>1b DEF WriteLock, Goto, Fault, Raise, ExitFinish, ctl, calls, lock, hist,
     outer
<1>1c. CASE RegisterLock
  BY <1>1c DEF RegisterLock, Goto, ctl, calls, lock, hist, outer
<1>1. CASE Locked
  BY <1>1 DEF Locked, Goto, ctl, calls, lock, hist, outer
<1>2. CASE NotLocked
  BY <1>2 DEF NotLocked, Raise, ExitFinish, Goto, ctl, calls, lock, hist, outer
<1>3. CASE Configure
  BY <1>3 DEF Configure, Stage, Goto, NextPlugin, Mark, P, ctl, calls, lock, hist,
     outer
<1>4. CASE Prepare
  BY <1>4 DEF Prepare, Stage, Goto, NextPlugin, Mark, P, ctl, calls, lock, hist,
     outer
<1>5. CASE StageFails
  BY <1>5 DEF StageFails, Mark, Fault, Raise, ExitFinish, Goto, P, ctl, calls,
     lock, hist, outer
<1>6. CASE Validate
  BY <1>6 DEF Validate, Goto, Fault, Raise, ExitFinish, ctl, calls, lock, hist,
     outer
<1>7. CASE Enter
  BY <1>7 DEF Enter, Goto, ctl, calls, lock, hist, outer
<1>8. CASE Waiting
  BY <1>8 DEF Waiting, Goto, Raise, ExitFinish, ctl, calls, lock, hist, outer
<1>9. CASE Start
  BY <1>9 DEF Start, Goto, Fault, Raise, ExitFinish, ctl, calls, lock, hist, outer
<1>10. CASE Starting
  BY <1>10 DEF Starting, Goto, NextPlugin, Mark, P, Fault, Raise, ExitFinish, ctl,
     calls, lock, hist, outer
<1>11. CASE Poll
  BY <1>11 DEF Poll, Goto, TestOver, Fault, Raise, ExitFinish, ctl, calls, lock,
     hist, outer
<1>12. CASE PollPlugin
  BY <1>12 DEF PollPlugin, TestOver, ExitFinish, Goto, NextPlugin, P, PollResults,
     ctl, calls, lock, hist, outer
<1>13. CASE PollFails
  BY <1>13 DEF PollFails, Caught, TestOver, ExitFinish, Goto, NextPlugin, P, ctl,
     calls, lock, hist, outer
<1>14. CASE PollAgain
  BY <1>14 DEF PollAgain, Goto, ctl, calls, lock, hist, outer
<1>15. CASE EndGenerator
  BY <1>15 DEF EndGenerator, Goto, Ended, ctl, calls, lock, hist, outer
<1>16. CASE EndGeneratorFails
  BY <1>16 DEF EndGeneratorFails, Ended, Fault, Raise, ExitFinish, Goto, ctl,
     calls, lock, hist, outer
<1>17. CASE EndMonitor
  BY <1>17 DEF EndMonitor, NextPlugin, Ended, Raise, ExitFinish, Fault, Goto, P,
     ctl, calls, lock, hist, outer
<1>18. CASE EndPlugin
  BY <1>18 DEF EndPlugin, Ended, Caught, Falsy, NextPlugin, P, ctl, calls, lock,
     hist, outer
<1>19. CASE LeaveFinish
  BY <1>19 DEF LeaveFinish, Raise, ExitFinish, Goto, ctl, calls, lock, hist, outer
<1>20. CASE PostProcess
  BY <1>20 DEF PostProcess, Mark, Caught, Falsy, NextPlugin, P, ctl, calls, lock,
     hist, outer
<1>21. CASE PostProcessed
  BY <1>21 DEF PostProcessed, Goto, Raise, ExitFinish, ctl, calls, lock, hist,
     outer
<1>22. CASE CleanPlugins
  BY <1>22 DEF CleanPlugins, Goto, ctl, calls, lock, hist, outer
<1>23. CASE ReleaseLock
  BY <1>23 DEF ReleaseLock, Goto, ctl, calls, lock, hist, outer
<1>24. CASE CleanLog
  BY <1>24 DEF CleanLog, Goto, ctl, calls, lock, hist, outer
<1>25. CASE SaveStatus
  BY <1>25 DEF SaveStatus, Goto, ctl, calls, lock, hist, outer
<1>26. CASE Collect
  BY <1>26 DEF Collect, Goto, ctl, calls, lock, hist, outer
<1>27. CASE SetFinished
  BY <1>27 DEF SetFinished, Goto, ctl, calls, lock, hist, outer
<1>28. CASE Close
  BY <1>28 DEF Close, Goto, ctl, calls, lock, hist, outer
<1>29. CASE Prompted
  BY <1>29 DEF Prompted, ctl, calls, lock, hist, outer
<1>30. CASE Exit
  BY <1>30 DEF Exit, ctl, calls, lock, hist, outer
<1>31. CASE Sigint
  <2>1. CASE pc \in InCleanup
    BY <1>31, <2>1 DEF Sigint, Goto, Raise, ExitFinish, ctl, calls, lock, hist,
       outer
  <2>2. CASE pc \in InFinish
    BY <1>31, <2>2 DEF Sigint, Goto, Raise, ExitFinish, ctl, calls, lock, hist,
       outer
  <2>3. CASE pc \in BeforeFinish
    BY <1>31, <2>3 DEF Sigint, Goto, Raise, ExitFinish, ctl, calls, lock, hist,
       outer
  <2>4. CASE pc \in InEnd \cup {"post"}
    BY <1>31, <2>4 DEF Sigint, Goto, Raise, ExitFinish, ctl, calls, lock, hist,
       outer
  <2>5. QED
    BY <1>31, <2>1, <2>2, <2>3, <2>4 DEF Sigint, PC
<1>32. CASE Kill
  BY <1>32 DEF Kill, Goto, ctl, calls, lock, hist, outer
<1>33. CASE PressEnter
  BY <1>33 DEF PressEnter, ctl, calls, lock, hist, outer
<1>34. CASE Stop
  BY <1>34 DEF Stop, ctl, calls, lock, hist, outer
<1>35. CASE UNCHANGED vars
  BY <1>35 DEF vars, ctl, calls, lock, hist, outer
<1>36. QED
  BY <1>1a, <1>1b, <1>1c, <1>1, <1>2, <1>3, <1>4, <1>5, <1>6, <1>7, <1>8, <1>9,
     <1>10, <1>11, <1>12,
     <1>13, <1>14, <1>15, <1>16, <1>17, <1>18, <1>19, <1>20, <1>21, <1>22, <1>23,
     <1>24, <1>25, <1>26, <1>27, <1>28, <1>29, <1>30, <1>31, <1>32, <1>33, <1>34,
     <1>35 DEF Next, Worker, Cli

----------------------------------------------------------------------------
(* The theorems *)

\* The invariant holds at the start and every step keeps it.
THEOREM Inductive == Spec => []IInv
<1>1. Init => IInv
  <2> SUFFICES ASSUME Init PROVE IInv
    OBVIOUS
  <2> USE DEF Init
  <2>1. TypeOK
    <3>1. go \in BOOLEAN /\ cli \in {"prompt", "join", "exited"}
      BY WorkerAssumption DEF WorkerAssumption
    <3>2. order \in [1 .. N -> Plugins] /\ k \in 1 .. N + 1
      BY PluginCount, WorkerAssumption DEF WorkerAssumption, Orders
    <3>3. retcode \in Codes \ {None} /\ rc \in Codes /\ saved \in Codes
      BY CodeTypes
    <3>4. did \in [Stages -> SUBSET Plugins] /\ ends \in [Plugins -> Nat]
      OBVIOUS
    <3>5. QED
      BY <3>1, <3>2, <3>3, <3>4 DEF TypeOK, PC, BeforeFinish, InLock, Statuses
  <2>2. OrderInv
    BY WorkerAssumption DEF WorkerAssumption, OrderInv, Orders
  <2>3. LockInv
    BY DEF LockInv, Untouched, InLock, Working, InFinish, InEnd, InCleanup, Touched, Dead, Stages,
           LockCoversLoad, NothingLeft
  <2>4. CodeInv /\ StageInv /\ EndInv
    BY DEF CodeInv, StageInv, EndInv, PostAfterEnd, Dead, InFinish, InEnd, InCleanup,
           Stages
  <2>5. SaveInv /\ StatusInv
    BY DEF SaveInv, SavedIsFinal, StatusInv, InLock, InEnd, InCleanup
  <2>6. QED
    BY <2>1, <2>2, <2>3, <2>4, <2>5 DEF IInv
<1>2. IInv /\ [Next]_vars => IInv'
  BY TypeStep, OrderStep, LockStep, CodeStep, StageStep, EndStep, SaveStep, StatusStep
     DEF IInv
<1>3. QED
  BY <1>1, <1>2, PTL DEF Spec

\* The variables keep their types; the code the parent reads is never None.
THEOREM TypeCorrect == Spec => []TypeOK
<1>1. IInv => TypeOK
  BY DEF IInv
<1>2. QED
  BY <1>1, Inductive, PTL

\* The lock file is there as long as a plugin that was prepared or started is not
\* cleaned up, whatever raises and whenever the worker is interrupted or killed.
THEOREM LoadUnderLock == Spec => []LockCoversLoad
<1>1. IInv => LockCoversLoad
  BY DEF IInv, LockInv
<1>2. QED
  BY <1>1, Inductive, PTL

\* A worker that ends by itself holds no lock and cleaned up what it prepared.
THEOREM LeavesNothing == Spec => []NothingLeft
<1>1. IInv => NothingLeft
  BY DEF IInv, LockInv
<1>2. QED
  BY <1>1, Inductive, PTL

\* Code 0 is only returned for a test that ran through without a failure.
THEOREM ZeroIsComplete == Spec => []ZeroMeansComplete
<1>1. IInv => ZeroMeansComplete
  BY DEF IInv, EndInv, Complete, ZeroMeansComplete
<1>2. QED
  BY <1>1, Inductive, PTL

\* The code in finish_status.yaml is the one the worker ends with.
THEOREM SavedCodeFinal == Spec => []SavedIsFinal
<1>1. IInv => SavedIsFinal
  BY DEF IInv, SaveInv
<1>2. QED
  BY <1>1, Inductive, PTL

\* Post-processing starts after end_test was called on every plugin.
THEOREM EndBeforePost == Spec => []PostAfterEnd
<1>1. IInv => PostAfterEnd
  BY DEF IInv, StageInv
<1>2. QED
  BY <1>1, Inductive, PTL

\* The worker keeps what TankStatus promises to whoever polls it.
THEOREM Refinement == Spec => Implements
<1>1. Init => Watched!Init
  BY WorkerAssumption DEF Init, Watched!Init, WorkerAssumption
<1>2. IInv /\ [Next]_vars => [Watched!Next]_(Watched!vars)
  BY WatchedStep DEF IInv
<1>3. QED
  BY <1>1, <1>2, Inductive, PTL DEF Spec, Implements, Watched!Spec

\* However run() ends, the lock, the plugins, the code and finish_status.yaml are
\* in order (tankworker.py, Cleanup and Finish in util.py).
THEOREM RunEndsCleanly == Spec => []EndsCleanly
<1>1. EndsCleanly <=> /\ LockCoversLoad /\ NothingLeft /\ ZeroMeansComplete
                      /\ SavedIsFinal /\ PostAfterEnd
  BY DEF EndsCleanly
<1>2. QED
  BY <1>1, LoadUnderLock, LeavesNothing, ZeroIsComplete, SavedCodeFinal, EndBeforePost, PTL
=============================================================================
