------------------------------ MODULE TankLock ------------------------------
(***************************************************************************)
(* The lock files that keep the tanks of one host from shooting at the     *)
(* same time: class Lock of core/tankcore.py as TankWorker (__init__ and   *)
(* get_lock) uses it.                                                      *)
(*                                                                         *)
(* Every call on the lock directory is a step of its own: another process  *)
(* can act between any two of them.  A tank is named by its pid, which the *)
(* system may give to a later process again: Start begins a new RUN under  *)
(* an old pid.  A lock file is named by the run that made it, since        *)
(* mkstemp never returns a name it returned before.                        *)
(***************************************************************************)
EXTENDS Naturals, FiniteSets

CONSTANTS
    Tanks,      \* the pids of the worker processes
    Ignore,     \* those configured with core.ignore_lock
    Wait,       \* those created with wait_lock=True
    MaxRuns,    \* bound: how many processes are ever started
    MaxLost,    \* bound: how many of them are killed or fail to write the file
    Absent,     \* no such file
    Empty       \* a file without a pid: made, not yet written

ASSUME LockAssumption ==
    /\ Ignore \subseteq Tanks
    /\ Wait \subseteq Tanks
    /\ MaxRuns \in Nat
    /\ MaxLost \in Nat
    /\ Absent \notin Tanks
    /\ Empty \notin Tanks
    /\ Absent # Empty

Runs == 1 .. MaxRuns

VARIABLES
    dir,        \* the lock directory: what each run's lock file holds
    runs,       \* how many runs were started
    lost,       \* runs that ended without releasing: killed, or failed to write
    pc,         \* where each tank is
    phase,      \* "init": in the constructor (parent); "run": the process runs
    run,        \* the run each pid belongs to, 0 if there is none
    cur,        \* the lock file is_locked inspects, 0 if it found none
    pid,        \* the pid is_locked read from it (its own when it reads none)
    locked,     \* the truth value is_locked returned
    interrupted,\* TankWorker.interrupted
    stale,      \* history: the last is_locked met a lock of a dead process
    owners      \* history: runs that owned a lock when is_locked listed

vars == <<dir, runs, lost, pc, phase, run, cur, pid, locked, interrupted,
          stale, owners>>

Scanning == {"list", "load", "check", "sweep", "decide"}
Owning   == {"write", "held", "release", "unlink"}
PC       == Scanning \cup Owning \cup
            {"idle", "refused", "loop", "create", "exited"}

Owns(p) == pc[p] \in Owning

\* Runs whose process has not ended (the constructor's included).
Active(p) == pc[p] \notin {"idle", "refused", "exited"}

Init ==
    /\ dir = [f \in Runs |-> Absent]
    /\ runs = 0
    /\ lost = {}
    /\ pc = [p \in Tanks |-> "idle"]
    /\ phase = [p \in Tanks |-> "init"]
    /\ run = [p \in Tanks |-> 0]
    /\ cur = [p \in Tanks |-> 0]
    /\ pid = [p \in Tanks |-> p]
    /\ locked = [p \in Tanks |-> FALSE]
    /\ interrupted = [p \in Tanks |-> FALSE]
    /\ stale = [p \in Tanks |-> FALSE]
    /\ owners = [p \in Tanks |-> {}]

----------------------------------------------------------------------------
(* Mutated forms of the operators below: the bugs the properties must catch. *)

\* A lock file without a pid is taken for no lock at all.
LoadEmptyFree(p) ==
    /\ pc[p] = "load"
    /\ locked' = [locked EXCEPT ![p] = dir[cur[p]] \notin {Absent, Empty}]
    /\ pc' = [pc EXCEPT ![p] = "decide"]
    /\ UNCHANGED <<dir, runs, lost, phase, run, cur, pid, interrupted, stale, owners>>

\* A stale lock is reported instead of removed.
SweepReports(p) ==
    /\ pc[p] = "sweep"
    /\ locked' = [locked EXCEPT ![p] = TRUE]
    /\ pc' = [pc EXCEPT ![p] = "decide"]
    /\ UNCHANGED <<dir, runs, lost, phase, run, cur, pid, interrupted, stale, owners>>

----------------------------------------------------------------------------
(* is_locked *)

\* pid_exists: a process, a finishing one or a zombie.  The zombie test in the
\* code compares a method with a constant, so a zombie counts as existing.  The
\* constructor runs in the parent: the worker's pid does not exist yet.
PidExists(p) ==
    /\ pc[p] \notin {"idle", "refused"}
    /\ ~(pc[p] \in Scanning /\ phase[p] = "init")

\* os.listdir: the loop returns on the first lock file it looks at, and the
\* order of the listing is arbitrary, so a single file of it is inspected.
Listed(p) ==
    /\ pc[p] = "list"
    /\ owners' = [owners EXCEPT ![p] = {run[q] : q \in {t \in Tanks : Owns(t)}}]
    /\ stale' = [stale EXCEPT ![p] = FALSE]
    /\ UNCHANGED <<dir, runs, lost, phase, run, pid, locked, interrupted>>

ListNone(p) ==
    /\ Listed(p)
    /\ \A f \in Runs : dir[f] = Absent
    /\ pc' = [pc EXCEPT ![p] = "decide"]
    /\ UNCHANGED cur

ListFile(p, f) ==
    /\ Listed(p)
    /\ dir[f] # Absent
    /\ cur' = [cur EXCEPT ![p] = f]
    /\ pc' = [pc EXCEPT ![p] = "load"]

\* Lock.load: a file that is gone or holds no pid counts as a lock.
LoadFails(p) ==
    /\ pc[p] = "load"
    /\ dir[cur[p]] \in {Absent, Empty}
    /\ locked' = [locked EXCEPT ![p] = TRUE]
    /\ pc' = [pc EXCEPT ![p] = "decide"]
    /\ UNCHANGED <<dir, runs, lost, phase, run, cur, pid, interrupted, stale, owners>>

LoadPid(p) ==
    /\ pc[p] = "load"
    /\ dir[cur[p]] \in Tanks
    /\ pid' = [pid EXCEPT ![p] = dir[cur[p]]]
    /\ pc' = [pc EXCEPT ![p] = "check"]
    /\ UNCHANGED <<dir, runs, lost, phase, run, cur, locked, interrupted, stale, owners>>

Load(p) == LoadFails(p) \/ LoadPid(p)

\* pid_exists(int(running_lock.pid))
Check(p) ==
    /\ pc[p] = "check"
    /\ locked' = [locked EXCEPT ![p] = PidExists(pid[p])]
    /\ pc' = [pc EXCEPT ![p] = IF PidExists(pid[p]) THEN "decide" ELSE "sweep"]
    /\ pid' = [pid EXCEPT ![p] = p]
    /\ UNCHANGED <<dir, runs, lost, phase, run, cur, interrupted, stale, owners>>

\* The lock of a dead process: try to remove it (another user's file stays) and
\* return False at once, whatever the rest of the listing holds.
SweepEnds(p) ==
    /\ pc[p] = "sweep"
    /\ stale' = [stale EXCEPT ![p] = TRUE]
    /\ pc' = [pc EXCEPT ![p] = "decide"]
    /\ UNCHANGED <<runs, lost, phase, run, cur, pid, locked, interrupted, owners>>

Sweep(p) == SweepEnds(p) /\ dir' = [dir EXCEPT ![cur[p]] = Absent]

SweepFails(p) == SweepEnds(p) /\ UNCHANGED dir

----------------------------------------------------------------------------
(* TankWorker *)

\* cli.main or a caller constructs a TankWorker, whose __init__ asks is_locked.
Start(p) ==
    /\ pc[p] \in {"idle", "refused"}
    /\ runs < MaxRuns
    /\ runs' = runs + 1
    /\ run' = [run EXCEPT ![p] = runs + 1]
    /\ pc' = [pc EXCEPT ![p] = "list"]
    /\ UNCHANGED <<dir, lost, phase, cur, pid, locked, interrupted, stale, owners>>

\* The answer is_locked gave its caller.  Its locals are dead from here on; so is
\* the history of an answer that led to no lock.
Answer(p) ==
    /\ pc[p] = "decide"
    /\ cur' = [cur EXCEPT ![p] = 0]
    /\ locked' = [locked EXCEPT ![p] = FALSE]
    /\ UNCHANGED <<dir, runs, lost, pid, interrupted>>

Forget(p) ==
    /\ stale' = [stale EXCEPT ![p] = FALSE]
    /\ owners' = [owners EXCEPT ![p] = {}]

Busy(p) == locked[p] /\ p \notin Ignore

\* __init__ raises LockError out of the constructor ...
Refuse(p) ==
    /\ Answer(p) /\ Forget(p)
    /\ phase[p] = "init" /\ Busy(p)
    /\ pc' = [pc EXCEPT ![p] = "refused"]
    /\ run' = [run EXCEPT ![p] = 0]
    /\ UNCHANGED phase

\* ... or returns, and the caller starts the process.
Launch(p) ==
    /\ Answer(p) /\ Forget(p)
    /\ phase[p] = "init" /\ ~Busy(p)
    /\ pc' = [pc EXCEPT ![p] = "loop"]
    /\ phase' = [phase EXCEPT ![p] = "run"]
    /\ UNCHANGED run

\* acquire raises LockError: get_lock sleeps and tries again, or gives up.
Retry(p) ==
    /\ Answer(p) /\ Forget(p)
    /\ phase[p] = "run" /\ Busy(p)
    /\ pc' = [pc EXCEPT ![p] = IF p \in Wait THEN "loop" ELSE "exited"]
    /\ UNCHANGED <<phase, run>>

\* acquire goes on to make its own file.
Grant(p) ==
    /\ Answer(p)
    /\ phase[p] = "run" /\ ~Busy(p)
    /\ pc' = [pc EXCEPT ![p] = "create"]
    /\ UNCHANGED <<phase, run, stale, owners>>

\* The head of get_lock's loop; an interrupted tank leaves it without a lock.
Loop(p) ==
    /\ pc[p] = "loop"
    /\ pc' = [pc EXCEPT ![p] = IF interrupted[p] THEN "exited" ELSE "list"]
    /\ UNCHANGED <<dir, runs, lost, phase, run, cur, pid, locked, interrupted,
                   stale, owners>>

\* acquire: mkstemp makes an empty file ...
Create(p) ==
    /\ pc[p] = "create"
    /\ dir' = [dir EXCEPT ![run[p]] = Empty]
    /\ pc' = [pc EXCEPT ![p] = "write"]
    /\ UNCHANGED <<runs, lost, phase, run, cur, pid, locked, interrupted, stale, owners>>

\* ... which is then written.
Write(p) ==
    /\ pc[p] = "write"
    /\ dir' = [dir EXCEPT ![run[p]] = p]
    /\ pc' = [pc EXCEPT ![p] = "held"]
    /\ UNCHANGED <<runs, lost, phase, run, cur, pid, locked, interrupted, stale, owners>>

\* The write fails (no space): acquire raises before get_lock returned the lock,
\* so run() never registers its release.
WriteFails(p) ==
    /\ pc[p] = "write"
    /\ Cardinality(lost) < MaxLost
    /\ lost' = lost \cup {run[p]}
    /\ pc' = [pc EXCEPT ![p] = "exited"]
    /\ UNCHANGED <<dir, runs, phase, run, cur, pid, locked, interrupted, stale, owners>>

\* The test is over (or failed): Cleanup calls release, which asks whether the
\* file exists ...
EndTest(p) ==
    /\ pc[p] = "held"
    /\ pc' = [pc EXCEPT ![p] = "release"]
    /\ UNCHANGED <<dir, runs, lost, phase, run, cur, pid, locked, interrupted,
                   stale, owners>>

Release(p) ==
    /\ pc[p] = "release"
    /\ pc' = [pc EXCEPT ![p] = IF dir[run[p]] # Absent THEN "unlink" ELSE "exited"]
    /\ UNCHANGED <<dir, runs, lost, phase, run, cur, pid, locked, interrupted,
                   stale, owners>>

\* ... and removes it (if it is gone by now os.remove raises and Cleanup logs it).
Unlink(p) ==
    /\ pc[p] = "unlink"
    /\ dir' = [dir EXCEPT ![run[p]] = Absent]
    /\ pc' = [pc EXCEPT ![p] = "exited"]
    /\ UNCHANGED <<runs, lost, phase, run, cur, pid, locked, interrupted, stale, owners>>

\* TankWorker.stop, called by the parent on Ctrl-C.  Once the tank has its lock
\* this only brings EndTest closer.
Stop(p) ==
    /\ pc[p] \in Scanning \cup {"loop"}
    /\ phase[p] = "run"
    /\ ~interrupted[p]
    /\ interrupted' = [interrupted EXCEPT ![p] = TRUE]
    /\ UNCHANGED <<dir, runs, lost, pc, phase, run, cur, pid, locked, stale, owners>>

\* The parent joins the process: its pid is free again.
Reap(p) ==
    /\ pc[p] = "exited"
    /\ pc' = [pc EXCEPT ![p] = "idle"]
    /\ phase' = [phase EXCEPT ![p] = "init"]
    /\ run' = [run EXCEPT ![p] = 0]
    /\ cur' = [cur EXCEPT ![p] = 0]
    /\ pid' = [pid EXCEPT ![p] = p]
    /\ locked' = [locked EXCEPT ![p] = FALSE]
    /\ interrupted' = [interrupted EXCEPT ![p] = FALSE]
    /\ stale' = [stale EXCEPT ![p] = FALSE]
    /\ owners' = [owners EXCEPT ![p] = {}]
    /\ UNCHANGED <<dir, runs, lost>>

\* SIGKILL, or a host crash of this one process: nothing is cleaned up.
Kill(p) ==
    /\ Active(p) /\ phase[p] = "run"
    /\ Cardinality(lost) < MaxLost
    /\ lost' = lost \cup {run[p]}
    /\ pc' = [pc EXCEPT ![p] = "exited"]
    /\ UNCHANGED <<dir, runs, phase, run, cur, pid, locked, interrupted, stale, owners>>

----------------------------------------------------------------------------
IsLocked(p) == \/ ListNone(p) \/ \E f \in Runs : ListFile(p, f)
               \/ Load(p) \/ Check(p) \/ Sweep(p) \/ SweepFails(p)
GetLock(p)  == \/ Refuse(p) \/ Launch(p) \/ Retry(p) \/ Grant(p)
               \/ Loop(p) \/ Create(p) \/ Write(p)
LetGo(p)    == EndTest(p) \/ Release(p) \/ Unlink(p) \/ Reap(p)
Abort(p)    == WriteFails(p) \/ Stop(p) \/ Kill(p)

Next == \E p \in Tanks :
            Start(p) \/ IsLocked(p) \/ GetLock(p) \/ LetGo(p) \/ Abort(p)

Spec == Init /\ [][Next]_vars

\* A process that is started is scheduled and its test ends; nothing forces a
\* caller to start, stop or kill one.
FairSpec == Spec /\ \A p \in Tanks : WF_vars(IsLocked(p) \/ GetLock(p) \/ LetGo(p))

----------------------------------------------------------------------------
(* Properties *)

\* The types of the variables.
TypeOK ==
    /\ dir \in [Runs -> Tanks \cup {Absent, Empty}]
    /\ runs \in 0 .. MaxRuns
    /\ lost \subseteq 0 .. MaxRuns
    /\ pc \in [Tanks -> PC]
    /\ phase \in [Tanks -> {"init", "run"}]
    /\ run \in [Tanks -> 0 .. MaxRuns]
    /\ cur \in [Tanks -> 0 .. MaxRuns]
    /\ pid \in [Tanks -> Tanks]
    /\ locked \in [Tanks -> BOOLEAN]
    /\ interrupted \in [Tanks -> BOOLEAN]
    /\ stale \in [Tanks -> BOOLEAN]
    /\ owners \in [Tanks -> SUBSET (0 .. MaxRuns)]

\* A tank that holds the lock keeps its file, with its pid in it, until it
\* removes it itself: no other tank's is_locked, however late its os.remove and
\* whatever happened to the pids meanwhile, takes a live lock for a stale one.
HolderKeepsFile ==
    \A p \in Tanks :
        /\ pc[p] = "write" => dir[run[p]] = Empty
        /\ pc[p] \in {"held", "release", "unlink"} => dir[run[p]] = p

\* A tank that did not ignore locks and met no stale one never shoots beside a
\* tank that already owned a lock when is_locked listed the directory: two tanks
\* can only run together if they raced, or if one met a stale lock.
NoOverlap ==
    \A p, q \in Tanks :
        p # q /\ Owns(p) /\ Owns(q) /\ p \notin Ignore /\ ~stale[p]
            => run[q] \notin owners[p]

\* Every lock file belongs to a tank that will release it or to a run that was
\* killed or could not write it: no ordinary way out of run() leaves one behind.
NoLeak ==
    \A f \in Runs :
        dir[f] # Absent => f \in lost \/ \E p \in Tanks : Owns(p) /\ run[p] = f

\* The lock is safe: tanks run together only if they raced or met a stale lock,
\* the file of a running tank stays, and none is left behind but by a lost run.
LockSafe == NoOverlap /\ HolderKeepsFile /\ NoLeak

\* A step removes the lock file of a process that still runs only if it is the
\* step of that process.
OnlyOwnerRemoves ==
    [][\A p \in Tanks :
         Active(p) /\ run[p] \in Runs /\ dir[run[p]] # Absent /\ dir'[run[p]] = Absent
            => pc[p] = "unlink" /\ pc'[p] = "exited"]_vars

\* A lock file nobody will remove: its run is gone and it holds no pid, or a pid
\* that the system gave to a later process.
Blocked ==
    \E f \in lost : dir[f] = Empty \/ (dir[f] \in Tanks /\ PidExists(dir[f]))

\* A tank that waits for the lock (wait_lock) gets it or is stopped, unless such
\* a file is in its way.
WaiterServed ==
    \A p \in Tanks :
        (pc[p] = "loop") ~> (pc[p] \notin Scanning \cup {"loop"} \/ Blocked)
=============================================================================
