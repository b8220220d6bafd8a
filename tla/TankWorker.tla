----------------------------- MODULE TankWorker -----------------------------
(***************************************************************************)
(* One run of a tank: TankWorker.run, the plugin stages of TankCore it     *)
(* calls, the exits Cleanup and Finish of common/util.py, and the process  *)
(* that started it (cli.main), which may stop it at any moment.            *)
(*                                                                         *)
(* Every call of a plugin is a step and may raise.  An exception leaves    *)
(* through the exit of the block it is raised in: Finish (end_test, then   *)
(* post-processing goes on) or Cleanup (the end of the run).  A            *)
(* KeyboardInterrupt, which Ctrl-C raises in the worker too, passes every  *)
(* `except Exception`.  How the directory of locks is searched is the      *)
(* subject of TankLock; here the worker's own file counts: it is made,     *)
(* written and only then registered for its release.                       *)
(***************************************************************************)
EXTENDS Integers, FiniteSets

CONSTANTS
    Plugins,     \* the plugins of the test
    PluginOrders, \* the orders in which the configuration may name them
    Generators,  \* the load generator among them, if there is one
    Monitors,    \* the monitoring plugins
    Bare,        \* monitoring plugins without a collector until start_test
    Masks,       \* RCAssert: may turn any return code into any other
    Uploaders,   \* DataUploader: mutes itself when prepare_test finds no service
    Manual,      \* cli.main --manual-start
    GenCodes,    \* what the generator's poll can return, -1 meaning "go on"
    None,        \* Python's None as a return code
    MaxFaults,   \* bound: exceptions raised by plugins and readers
    MaxSigints,  \* bound: KeyboardInterrupts raised in the worker
    Killable     \* whether the worker can be killed (SIGKILL, out of memory)

N == Cardinality(Plugins)

Orders == {o \in [1 .. N -> Plugins] : \A p \in Plugins : \E i \in 1 .. N : o[i] = p}

ASSUME WorkerAssumption ==
    /\ IsFiniteSet(Plugins)
    /\ PluginOrders \subseteq Orders
    /\ Generators \subseteq Plugins /\ Cardinality(Generators) <= 1
    /\ Monitors \subseteq Plugins \ Generators
    /\ Bare \subseteq Monitors
    /\ Masks \subseteq Plugins \ (Generators \cup Monitors)
    /\ Uploaders \subseteq Plugins \ (Generators \cup Monitors \cup Masks)
    /\ Manual \in BOOLEAN
    /\ GenCodes \subseteq Int
    /\ None \notin Int
    /\ MaxFaults \in Nat /\ MaxSigints \in Nat
    /\ Killable \in BOOLEAN

VARIABLES
    order,       \* the order of the plugins in the configuration
    pc, k,       \* where the worker is, and at which plugin of a loop
    status,      \* TankWorker.status, shared with the parent
    retcode,     \* TankWorker.retcode, shared with the parent
    rc,          \* the local return code threaded through end_test, post_process
    interrupted, \* the event the parent sets
    go,          \* run_shooting_event
    held,        \* the worker's lock file exists
    registered,  \* what run() registered with Cleanup
    saved,       \* the exit code in finish_status.yaml, None before
    did,         \* for each stage, the plugins it was called on
    ends,        \* how often end_test was called on each plugin
    disabled,    \* plugins whose is_test_finished was replaced
    muted,       \* uploaders whose post_process was replaced by one that gives None
    faults, sigints,
    failed,      \* history: something went wrong that the exit code must show
    masked,      \* history: a plugin of Masks turned a code into 0
    cut,         \* history: killed, or interrupted in the exit of Cleanup
    cli          \* cli.main: prompting, joining the worker, exited

ctl   == <<pc, k, status, retcode, rc>>
calls == <<did, ends, disabled, muted>>
lock  == <<held, registered>>
hist  == <<faults, sigints, failed, masked, cut>>
outer == <<interrupted, go, cli>>
vars  == <<order, ctl, calls, lock, hist, outer, saved>>

Stages   == {"configure", "prepare", "start", "post", "cleanup", "close"}
Codes    == {-1, 0, 1, 21} \cup GenCodes \cup {None}
Falsy(c) == c \in {0, None}

InLock       == {"lock", "made", "written", "locked"}
BeforeFinish == InLock \cup {"configure", "prepare", "validate"}
InFinish     == {"enter", "waiting", "start", "starting", "poll", "polling"}
InEnd        == {"end_gen", "end_mon", "end_rest"}
InCleanup    == {"cl_plugins", "cl_lock", "cl_log", "save", "collect", "finish", "close"}
PC           == BeforeFinish \cup InFinish \cup InEnd \cup InCleanup \cup {"post", "dead"}

Statuses == {"INITIATED", "PREPARING", "WAITING", "RUNNING", "FINISHING",
             "POST_PROCESS", "FINISHED"}

P == order[k]   \* the plugin a loop is at

Init ==
    /\ order \in PluginOrders
    /\ pc = "lock" /\ k = 1
    /\ status = "INITIATED"
    /\ retcode = 0 /\ rc = 0
    /\ interrupted = FALSE
    /\ go = ~Manual
    /\ held = FALSE /\ registered = {}
    /\ saved = None
    /\ did = [s \in Stages |-> {}]
    /\ ends = [p \in Plugins |-> 0]
    /\ disabled = {} /\ muted = {}
    /\ faults = 0 /\ sigints = 0
    /\ failed = FALSE /\ masked = FALSE /\ cut = FALSE
    /\ cli = IF Manual THEN "prompt" ELSE "join"

----------------------------------------------------------------------------
(* Control flow *)

Goto(l) == pc' = l /\ k' = 1
NextPlugin == k' = k + 1 /\ UNCHANGED pc
Mark(s, p) == did' = [did EXCEPT ![s] = @ \cup {p}]

\* The exit of Finish: end_test gets the local return code.
ExitFinish(c) ==
    /\ rc' = c
    /\ status' = "FINISHING"
    /\ Goto("end_gen")

\* An exception reaches the exit of the block it is raised in.
Raise ==
    IF pc \in InFinish
    THEN ExitFinish(1) /\ UNCHANGED retcode
    ELSE retcode' = 1 /\ Goto("cl_plugins") /\ UNCHANGED <<status, rc>>

\* A call raises an Exception that nothing catches on the way.
Fault ==
    /\ faults < MaxFaults
    /\ faults' = faults + 1
    /\ failed' = TRUE
    /\ UNCHANGED <<sigints, masked, cut>>

\* A call raises an Exception that the loop over the plugins catches.
Caught(reported) ==
    /\ faults < MaxFaults
    /\ faults' = faults + 1
    /\ failed' = (failed \/ reported)
    /\ UNCHANGED <<sigints, masked, cut>>

\* wait_for_finish returns c: run() stores it and leaves the block.
TestOver(c) ==
    /\ retcode' = c
    /\ ExitFinish(c)

----------------------------------------------------------------------------
(* Mutated forms of the operators below: the bugs the properties must catch. *)

\* plugins_end_test keeps the code it has when an end_test raises.
EndPluginForgives ==
    /\ pc = "end_rest" /\ k <= N
    /\ ends' = [ends EXCEPT ![P] = @ + 1]
    /\ UNCHANGED rc
    /\ UNCHANGED hist \/ Caught(TRUE)
    /\ NextPlugin
    /\ UNCHANGED <<order, status, retcode, did, disabled, muted, lock, outer, saved>>

\* The command to shoot is not waited for.
EnterAtOnce ==
    /\ pc = "enter"
    /\ status' = "RUNNING"
    /\ Goto("start")
    /\ UNCHANGED <<order, retcode, rc, calls, lock, hist, outer, saved>>

\* Waiting for the command, the tank does not look whether it was stopped.
WaitingDeaf ==
    /\ pc = "waiting" /\ go
    /\ status' = "RUNNING"
    /\ Goto("start")
    /\ UNCHANGED <<order, retcode, rc, calls, lock, hist, outer, saved>>

----------------------------------------------------------------------------
(* run(), up to the test *)

\* Lock.acquire found no lock that counts: mkstemp makes the worker's file.
MakeLock ==
    /\ pc = "lock" /\ ~interrupted
    /\ held' = TRUE
    /\ Goto("made")
    /\ UNCHANGED <<order, status, retcode, rc, registered, calls, hist, outer, saved>>

\* The file is written, or what writes it raises: nobody has the Lock yet whose
\* release would remove it.
WriteLock ==
    /\ pc = "made"
    /\ \/ Goto("written") /\ UNCHANGED <<status, retcode, rc, hist>>
       \/ Fault /\ Raise
    /\ UNCHANGED <<order, calls, lock, outer, saved>>

\* get_lock returned: the release is registered.
RegisterLock ==
    /\ pc = "written"
    /\ registered' = registered \cup {"lock"}
    /\ Goto("locked")
    /\ UNCHANGED <<order, status, retcode, rc, held, calls, hist, outer, saved>>

Locked ==
    /\ pc = "locked"
    /\ status' = "PREPARING"
    /\ Goto("configure")
    /\ UNCHANGED <<order, retcode, rc, calls, lock, hist, outer, saved>>

\* get_lock raised before a file was made: the tank was stopped, or the lock is
\* busy.
NotLocked ==
    /\ pc = "lock"
    /\ Raise
    /\ failed' = TRUE
    /\ UNCHANGED <<order, calls, lock, faults, sigints, masked, cut, outer, saved>>

\* plugins_configure and plugins_prepare_test skip what is left once the tank is
\* interrupted.  An uploader that finds no service replaces its own methods.
Stage(l, then) ==
    /\ pc = l
    /\ \/ /\ k <= N /\ interrupted
          /\ NextPlugin
          /\ UNCHANGED <<did, muted, registered>>
       \/ /\ k <= N /\ ~interrupted
          /\ Mark(l, P)
          /\ muted' \in {muted} \cup
                 {m \in {muted \cup {P}} : l = "prepare" /\ P \in Uploaders}
          /\ NextPlugin
          /\ UNCHANGED registered
       \/ /\ k > N
          /\ registered' = registered \cup (IF l = "configure" THEN {"plugins"} ELSE {})
          /\ Goto(then)
          /\ UNCHANGED <<did, muted>>
    /\ UNCHANGED <<order, status, retcode, rc, ends, disabled, held, hist, outer, saved>>

Configure == Stage("configure", "prepare")
Prepare   == Stage("prepare", "validate")

\* A plugin's configure or prepare_test raises (it may have done part of its work).
StageFails ==
    /\ pc \in {"configure", "prepare"}
    /\ k <= N /\ ~interrupted
    /\ Mark(pc, P)
    /\ Fault /\ Raise
    /\ UNCHANGED <<order, ends, disabled, muted, lock, outer, saved>>

Validate ==
    /\ pc = "validate"
    /\ \/ Goto("enter") /\ UNCHANGED <<status, retcode, rc, hist>>
       \/ Fault /\ Raise
    /\ UNCHANGED <<order, calls, lock, outer, saved>>

----------------------------------------------------------------------------
(* The block of Finish *)

\* Wait for the command to shoot, unless it was given.
Enter ==
    /\ pc = "enter"
    /\ status' = IF go THEN "RUNNING" ELSE "WAITING"
    /\ Goto(IF go THEN "start" ELSE "waiting")
    /\ UNCHANGED <<order, retcode, rc, calls, lock, hist, outer, saved>>

Waiting ==
    /\ pc = "waiting"
    /\ \/ interrupted /\ Raise /\ failed' = TRUE
       \/ ~interrupted /\ go /\ status' = "RUNNING" /\ Goto("start")
             /\ UNCHANGED <<retcode, rc, failed>>
    /\ UNCHANGED <<order, calls, lock, faults, sigints, masked, cut, outer, saved>>

\* plugins_start_test: one test of the event before the aggregator and the first
\* plugin are started.
Start ==
    /\ pc = "start"
    /\ \/ Goto(IF interrupted THEN "poll" ELSE "starting")
             /\ UNCHANGED <<status, retcode, rc, hist>>
       \/ ~interrupted /\ Fault /\ Raise
    /\ UNCHANGED <<order, calls, lock, outer, saved>>

Starting ==
    /\ pc = "starting"
    /\ \/ k <= N /\ Mark("start", P) /\ NextPlugin
             /\ UNCHANGED <<status, retcode, rc, hist>>
       \/ k <= N /\ Mark("start", P) /\ Fault /\ Raise
       \/ k > N /\ Goto("poll") /\ UNCHANGED <<did, status, retcode, rc, hist>>
    /\ UNCHANGED <<order, ends, disabled, muted, lock, outer, saved>>

\* The head of its loop: the event, then the aggregator, whose listeners are
\* plugins and may raise.
Poll ==
    /\ pc = "poll"
    /\ \/ interrupted /\ TestOver(1) /\ failed' = TRUE
             /\ UNCHANGED <<faults, sigints, masked, cut>>
       \/ ~interrupted /\ Goto("polling") /\ UNCHANGED <<status, retcode, rc, hist>>
       \/ ~interrupted /\ Fault /\ Raise
    /\ UNCHANGED <<order, calls, lock, outer, saved>>

\* What is_test_finished of a plugin can return.
PollResults(p) ==
    CASE p \in Generators -> GenCodes
      [] p \in Monitors   -> {-1}
      [] OTHER            -> {-1, 21}

\* The loop ends on a code that is not negative, and goes on on any other.
PollPlugin ==
    /\ pc = "polling" /\ k <= N
    /\ \E c \in IF P \in disabled THEN {-1} ELSE PollResults(P) :
         IF c >= 0 THEN TestOver(c)
                   ELSE NextPlugin /\ UNCHANGED <<status, retcode, rc>>
    /\ UNCHANGED <<order, calls, lock, hist, outer, saved>>

\* An exception of the generator ends the test; any other plugin is not polled
\* any more.
PollFails ==
    /\ pc = "polling" /\ k <= N /\ P \notin disabled
    /\ IF P \in Generators
       THEN Caught(TRUE) /\ TestOver(1) /\ UNCHANGED disabled
       ELSE /\ Caught(FALSE)
            /\ disabled' = disabled \cup {P}
            /\ NextPlugin /\ UNCHANGED <<status, retcode, rc>>
    /\ UNCHANGED <<order, did, ends, muted, lock, outer, saved>>

PollAgain ==
    /\ pc = "polling" /\ k > N
    /\ Goto("poll")
    /\ UNCHANGED <<order, status, retcode, rc, calls, lock, hist, outer, saved>>

----------------------------------------------------------------------------
(* plugins_end_test, in the exit of Finish *)

Ended(p) == ends' = [ends EXCEPT ![p] = @ + 1]

\* aggregator.end_test calls the generator's; the dummy generator of a test
\* without one returns None.
EndGenerator ==
    /\ pc = "end_gen"
    /\ IF Generators = {}
       THEN rc' = None /\ UNCHANGED ends
       ELSE (\E p \in Generators : Ended(p)) /\ UNCHANGED rc
    /\ Goto("end_mon")
    /\ UNCHANGED <<order, status, retcode, did, disabled, muted, lock, hist, outer, saved>>

EndGeneratorFails ==
    /\ pc = "end_gen"
    /\ IF Generators = {} THEN UNCHANGED ends ELSE \E p \in Generators : Ended(p)
    /\ Fault /\ Raise
    /\ UNCHANGED <<order, did, disabled, muted, lock, outer, saved>>

\* The monitoring plugins: a base-class end_test needs the collector that
\* start_test makes.
EndMonitor ==
    /\ pc = "end_mon"
    /\ \/ k <= N /\ P \notin Monitors /\ NextPlugin
             /\ UNCHANGED <<status, retcode, rc, ends, hist>>
       \/ /\ k <= N /\ P \in Monitors
          /\ P \in Bare => P \in did["start"]
          /\ Ended(P) /\ NextPlugin
          /\ UNCHANGED <<status, retcode, rc, hist>>
       \/ /\ k <= N /\ P \in Bare \ did["start"]
          /\ Ended(P) /\ Raise
          /\ failed' = TRUE
          /\ UNCHANGED <<faults, sigints, masked, cut>>
       \/ k <= N /\ P \in Monitors /\ Ended(P) /\ Fault /\ Raise
       \/ k > N /\ Goto("end_rest") /\ UNCHANGED <<status, retcode, rc, ends, hist>>
    /\ UNCHANGED <<order, did, disabled, muted, lock, outer, saved>>

\* The others; the comparison that should leave out the generator and the
\* monitoring plugins compares names with plugins, so every plugin is called.
EndPlugin ==
    /\ pc = "end_rest" /\ k <= N
    /\ Ended(P)
    /\ \/ UNCHANGED <<rc, hist>>
       \/ Caught(TRUE) /\ rc' = IF Falsy(rc) THEN 1 ELSE rc
    /\ NextPlugin
    /\ UNCHANGED <<order, status, retcode, did, disabled, muted, lock, outer, saved>>

\* The exit of Finish stores the code in a c_int, which None does not fit; what
\* was raised in the block is swallowed and run() goes on.
LeaveFinish ==
    /\ pc = "end_rest" /\ k > N
    /\ IF rc = None
       THEN Raise /\ failed' = TRUE
       ELSE /\ retcode' = rc
            /\ status' = "POST_PROCESS"
            /\ Goto("post")
            /\ UNCHANGED <<rc, failed>>
    /\ UNCHANGED <<order, calls, lock, faults, sigints, masked, cut, outer, saved>>

----------------------------------------------------------------------------
(* plugins_post_process *)

\* A muted uploader gives None for any code, and with it RCAssert raises (unless it
\* has no list of codes).
PostProcess ==
    /\ pc = "post" /\ k <= N
    /\ Mark("post", P)
    /\ \/ P \notin muted /\ UNCHANGED <<rc, hist>>
       \/ P \in muted /\ rc' = None /\ UNCHANGED hist
       \/ /\ P \in Masks /\ rc # None
          /\ rc' \in {0, 21}
          /\ masked' = (masked \/ rc' = 0)
          /\ UNCHANGED <<faults, sigints, failed, cut>>
       \/ /\ P \in Masks /\ rc = None
          /\ rc' = 1 /\ failed' = TRUE
          /\ UNCHANGED <<faults, sigints, masked, cut>>
       \/ P \notin muted /\ Caught(TRUE) /\ rc' = IF Falsy(rc) THEN 1 ELSE rc
    /\ NextPlugin
    /\ UNCHANGED <<order, status, retcode, ends, disabled, muted, lock, outer, saved>>

\* run() stores the code in a c_int, which None does not fit.
PostProcessed ==
    /\ pc = "post" /\ k > N
    /\ IF rc = None
       THEN Raise /\ failed' = TRUE
       ELSE /\ retcode' = rc
            /\ Goto("cl_plugins")
            /\ UNCHANGED <<status, rc, failed>>
    /\ UNCHANGED <<order, calls, lock, faults, sigints, masked, cut, outer, saved>>

----------------------------------------------------------------------------
(* The exit of Cleanup: what run() registered, in reverse *)

\* plugins_cleanup catches what a plugin raises and goes on.
CleanPlugins ==
    /\ pc = "cl_plugins"
    /\ did' = IF "plugins" \in registered THEN [did EXCEPT !["cleanup"] = Plugins] ELSE did
    /\ Goto("cl_lock")
    /\ UNCHANGED <<order, status, retcode, rc, ends, disabled, muted, lock, hist, outer, saved>>

ReleaseLock ==
    /\ pc = "cl_lock"
    /\ held' = (held /\ "lock" \notin registered)
    /\ Goto("cl_log")
    /\ UNCHANGED <<order, status, retcode, rc, calls, registered, hist, outer, saved>>

\* The log handlers are removed, the errors of the core become messages.
CleanLog ==
    /\ pc = "cl_log"
    /\ Goto("save")
    /\ UNCHANGED <<order, status, retcode, rc, calls, lock, hist, outer, saved>>

\* finish_status.yaml; if it cannot be written nothing below happens.
SaveStatus ==
    /\ pc = "save"
    /\ \/ saved' = retcode /\ Goto("collect") /\ UNCHANGED <<hist>>
       \/ /\ faults < MaxFaults
          /\ faults' = faults + 1
          /\ Goto("dead")
          /\ UNCHANGED <<saved, sigints, failed, masked, cut>>
    /\ UNCHANGED <<order, status, retcode, rc, calls, lock, outer>>

Collect ==
    /\ pc = "collect"
    /\ Goto("finish")
    /\ UNCHANGED <<order, status, retcode, rc, calls, lock, hist, outer, saved>>

SetFinished ==
    /\ pc = "finish"
    /\ status' = "FINISHED"
    /\ Goto("close")
    /\ UNCHANGED <<order, retcode, rc, calls, lock, hist, outer, saved>>

Close ==
    /\ pc = "close"
    /\ did' = [did EXCEPT !["close"] = Plugins]
    /\ Goto("dead")
    /\ UNCHANGED <<order, status, retcode, rc, ends, disabled, muted, lock, hist, outer, saved>>

----------------------------------------------------------------------------
(* The outside *)

\* Ctrl-C reaches the worker: a KeyboardInterrupt at any point of run().  In the
\* exit of Cleanup nothing catches it.
Sigint ==
    /\ pc # "dead"
    /\ sigints < MaxSigints
    /\ sigints' = sigints + 1
    /\ IF pc \in InCleanup
       THEN cut' = TRUE /\ Goto("dead") /\ UNCHANGED <<status, retcode, rc, failed>>
       ELSE Raise /\ failed' = TRUE /\ UNCHANGED cut
    /\ UNCHANGED <<order, calls, lock, faults, masked, outer, saved>>

\* The process is killed: nothing of run() goes on.
Kill ==
    /\ Killable /\ pc # "dead"
    /\ cut' = TRUE
    /\ failed' = TRUE
    /\ Goto("dead")
    /\ UNCHANGED <<order, status, retcode, rc, calls, lock, faults, sigints, masked, outer, saved>>

\* Enter is pressed: the thread of cli.main sets the event.
PressEnter ==
    /\ Manual /\ ~go
    /\ go' = TRUE
    /\ UNCHANGED <<order, ctl, calls, lock, hist, interrupted, cli, saved>>

\* cli.main: the prompt ends when the event is set.
Prompted ==
    /\ cli = "prompt" /\ go
    /\ cli' = "join"
    /\ UNCHANGED <<order, ctl, calls, lock, hist, interrupted, go, saved>>

\* A KeyboardInterrupt in cli.main: stop the worker and wait for it.
Stop ==
    /\ cli \in {"prompt", "join"} /\ ~interrupted
    /\ interrupted' = TRUE
    /\ cli' = "join"
    /\ UNCHANGED <<order, ctl, calls, lock, hist, go, saved>>

\* cli.main exits with the worker's code; the interpreter waits for the thread
\* that reads Enter.
Exit ==
    /\ cli = "join" /\ pc = "dead" /\ go
    /\ cli' = "exited"
    /\ UNCHANGED <<order, ctl, calls, lock, hist, interrupted, go, saved>>

----------------------------------------------------------------------------
Worker ==
    \/ MakeLock \/ WriteLock \/ RegisterLock \/ Locked \/ NotLocked
    \/ Configure \/ Prepare \/ StageFails \/ Validate
    \/ Enter \/ Waiting \/ Start \/ Starting
    \/ Poll \/ PollPlugin \/ PollFails \/ PollAgain
    \/ EndGenerator \/ EndGeneratorFails \/ EndMonitor \/ EndPlugin \/ LeaveFinish
    \/ PostProcess \/ PostProcessed
    \/ CleanPlugins \/ ReleaseLock \/ CleanLog \/ SaveStatus \/ Collect
    \/ SetFinished \/ Close

Cli == Prompted \/ Exit

Next == Worker \/ Cli \/ Sigint \/ Kill \/ PressEnter \/ Stop

Spec == Init /\ [][Next]_vars

\* The worker and cli.main are scheduled and plugins return from their calls;
\* nobody has to press a key, and no test has to end by itself.
FairSpec == Spec /\ WF_vars(Worker) /\ WF_vars(Cli)

----------------------------------------------------------------------------
(* Properties *)

Dead     == pc = "dead" /\ ~cut   \* the process ended by itself
Touched  == did["prepare"] \cup did["start"]
AllEnded == \A p \in Plugins : ends[p] > 0

\* The types of the variables.  The return code the parent reads is never None.
TypeOK ==
    /\ order \in [1 .. N -> Plugins]
    /\ pc \in PC /\ k \in 1 .. N + 1
    /\ status \in Statuses
    /\ retcode \in Codes \ {None} /\ rc \in Codes
    /\ interrupted \in BOOLEAN /\ go \in BOOLEAN
    /\ held \in BOOLEAN /\ registered \subseteq {"lock", "plugins"}
    /\ saved \in Codes
    /\ did \in [Stages -> SUBSET Plugins]
    /\ ends \in [Plugins -> Nat]
    /\ disabled \subseteq Plugins /\ muted \subseteq Uploaders
    /\ faults \in Nat /\ sigints \in Nat
    /\ failed \in BOOLEAN /\ masked \in BOOLEAN /\ cut \in BOOLEAN
    /\ cli \in {"prompt", "join", "exited"}

\* The lock covers the load: as long as a plugin that was prepared or started is
\* not cleaned up the lock file is there, however the run is interrupted.
LockCoversLoad == Touched \subseteq did["cleanup"] \/ held

\* A worker that ends by itself, whatever raised on the way, cleaned up every plugin
\* it prepared or started, and every plugin at all once plugins_configure was over.
\* Its lock file is gone, unless the run broke off in the one window between mkstemp
\* and add_cleanup('release lock'): then no plugin was called, and the code says so.
\* (Plugins that were only configured when another's configure raised are not
\* cleaned up: run() registers plugins_cleanup after the loop.)
NothingLeft ==
    Dead => /\ Touched \subseteq did["cleanup"]
            /\ "plugins" \in registered => did["configure"] \subseteq did["cleanup"]
            /\ held => /\ "lock" \notin registered
                       /\ \A s \in Stages \ {"close"} : did[s] = {}
                       /\ retcode # 0

\* Return code 0 means that the test ran through: all plugins were started, ended
\* and post-processed and nothing failed (RCAssert apart, which may say so of any
\* test).
ZeroMeansComplete ==
    Dead /\ retcode = 0 /\ ~masked
        => /\ ~failed
           /\ did["start"] = Plugins /\ AllEnded /\ did["post"] = Plugins

\* finish_status.yaml holds the code the parent reads and cli.main exits with.
SavedIsFinal == saved # None => saved = retcode

\* No plugin is post-processed before every plugin was told that the test ended.
PostAfterEnd == did["post"] # {} => AllEnded

\* However the run ends, everything is in order: the load was under the lock,
\* nothing is left behind that was registered, code 0 and finish_status.yaml tell the truth, and no
\* plugin is post-processed while another one still runs.
EndsCleanly ==
    LockCoversLoad /\ NothingLeft /\ ZeroMeansComplete /\ SavedIsFinal /\ PostAfterEnd

\* What the status and the code promise to whoever polls them.
Watched == INSTANCE TankStatus WITH
              code <- retcode, shoot <- go, over <- pc = "dead",
              killed <- cut

Implements == Watched!Spec

\* A stopped tank ends, wherever it is: between polls, waiting for the lock or for
\* the command to shoot, in post-processing.
StopTerminates == interrupted ~> pc = "dead"

\* The command line ends after the worker, even if that was killed (a prompt that
\* nobody answers apart).
CliExits == (pc = "dead" /\ go) ~> cli = "exited"

\* A stop reaches the worker, and its end the command line.
StopReturns == StopTerminates /\ CliExits
=============================================================================
