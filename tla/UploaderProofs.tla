--------------------------- MODULE UploaderProofs ---------------------------
(***************************************************************************)
(* TLAPS proofs about Uploader: for any options and targets, any number of *)
(* items and faults, and whatever the service answers, nothing is pushed   *)
(* to a job that was closed, and each stream reaches the service in order. *)
(*                                                                         *)
(* The plugin closes its job in a cleanup action, and the cleanup actions  *)
(* run in the reverse order of their registration.  The senders are        *)
(* started by a stage that registers their join, when the job has been     *)
(* made: no later action can come to stand between the two.  So as long as *)
(* a sender runs, its join is the next action (JoinedFirst), and once the  *)
(* job was closed no stage that starts a sender comes (OnlyCleaning).      *)
(*                                                                         *)
(* Of a stream, no item in the queue was taken by the service but the      *)
(* first, which stays there while it is pushed (Sorted); every time it was *)
(* taken and the push went on, the answer was lost (Counted).              *)
(*                                                                         *)
(* The second half is about what the uploader has done when it is through: *)
(* a run in which nothing failed has pushed all its items, and every run   *)
(* unlocks its targets and closes its job unless the calls for that        *)
(* failed.                                                                 *)
(***************************************************************************)
EXTENDS Uploader, SequenceTheorems, FiniteSetTheorems, TLAPS

Running == \E s \in Senders : thread[s] \in {"loop", "purge"}

Shape ==
    /\ thread \in [Senders \cup {"status"} -> {"idle", "loop", "purge", "dead"}]
    /\ cleanups \in Seq({"close", "unlock", "join"})

\* The targets are locked for a job, and a test that begins without one has
\* disabled the plugin.
JobFirst ==
    /\ main \in {"locking", "lock", "task", "edit", "confs"} => lpJob
    /\ main = "ready" => lpJob \/ disabled

AfterStart == {"startConfs", "run", "ending", "end", "endJob", "endConfs", "unlock", "post", "join", "cause",
               "postConfs", "cleanup", "joinThreads"}

JoinedFirst ==
    Running => /\ lpJob /\ main \in AfterStart
               /\ main # "joinThreads" => cleanups # << >> /\ Last(cleanups) = "join"

OnlyCleaning ==
    closed # {} => /\ ~Running
                   /\ main \in {"close", "cleanup", "job", "config", "unlock", "joinThreads", "done"}
                   /\ main \in {"job", "config"} => back = "close"
                   /\ main = "unlock" => back = "cleanup"

CInv == Shape /\ JobFirst /\ JoinedFirst /\ OnlyCleaning

-----------------------------------------------------------------------------
(***************************************************************************)
(* Calls                                                                   *)
(***************************************************************************)

\* A call that is no push leaves what the service took alone, and only "close"
\* closes a job.
LEMMA ClientLeaves ==
    ASSUME NEW t, NEW op, NEW item, NEW results, op \notin Streams, Client(t, op, item, results)
    PROVE  taken' = taken /\ (op # "close" => closed' = closed)
BY DEF Client, GiveUp, Done, Rejected, Unavailable, Stopped, NetworkError, Maintenance, Request, Serve, Idle

\* A call of a stage closes a job in the stage "close" only.
LEMMA StageCalls ==
    ASSUME NEW p \in DOMAIN Calls
    PROVE  Calls[p] \notin Streams /\ (Calls[p] = "close" => p = "close")
BY DEF Calls, Streams

LEMMA CallingLeaves ==
    ASSUME NEW results, Calling(results)
    PROVE  /\ taken' = taken /\ UNCHANGED <<opt, thread, queue>>
           /\ main # "close" => closed' = closed
<1> DEFINE item == IF main \in {"lock", "unlock"} THEN ListedTargets[left] ELSE number
<1>1. main \in DOMAIN Calls /\ Client("main", Calls[main], item, results)
    BY DEF Calling
<1>2. Calls[main] \notin Streams /\ (Calls[main] = "close" => main = "close")
    BY <1>1, StageCalls
<1>3. taken' = taken /\ (Calls[main] # "close" => closed' = closed)
    BY <1>1, <1>2, ClientLeaves
<1> QED
    BY <1>2, <1>3 DEF Calling, threads

-----------------------------------------------------------------------------
(***************************************************************************)
(* Steps that keep the invariant                                           *)
(***************************************************************************)

\* A sequence with one more action.
LEMMA Registered ==
    ASSUME NEW S, NEW c \in Seq(S), NEW action \in S
    PROVE  /\ Append(c, action) \in Seq(S)
           /\ Append(c, action) # << >> /\ Last(Append(c, action)) = action
<1> DEFINE d == Append(c, action)
<1>1. d \in Seq(S) /\ d # << >> /\ Len(d) = Len(c) + 1 /\ d[Len(c) + 1] = action
    BY AppendProperties
<1> HIDE DEF d
<1>2. Last(d) = action
    BY <1>1 DEF Last
<1> QED
    BY <1>1, <1>2 DEF d

\* What a step must do to the stage when it leaves the threads, the cleanup
\* actions and the job alone.
Onward ==
    /\ UNCHANGED <<thread, cleanups, lpJob>>
    /\ main' \in {"locking", "lock", "task", "edit", "confs"} => lpJob
    /\ main' = "ready" => lpJob \/ disabled'
    /\ Running => main' \in AfterStart \ {"joinThreads"}
    /\ closed' = closed \/ main = "close"
    /\ closed # {} \/ main = "close" =>
          /\ main' \in {"close", "cleanup", "job", "config", "unlock", "joinThreads", "done"}
          /\ main' \in {"job", "config"} => back' = "close"
          /\ main' = "unlock" => back' = "cleanup"

LEMMA OnwardKeeps ==
    ASSUME CInv, Onward, main # "joinThreads"
    PROVE  CInv'
<1>1. Running' = Running
    BY DEF Onward, Running
<1>2. main = "close" => ~Running
    BY DEF CInv, JoinedFirst, AfterStart
<1>3. Shape' /\ JobFirst'
    BY DEF CInv, Shape, JobFirst, Onward
<1>4. JoinedFirst'
    BY <1>1 DEF CInv, JoinedFirst, Onward
<1>5. OnlyCleaning'
    BY <1>1, <1>2 DEF CInv, OnlyCleaning, Onward
<1> QED
    BY <1>3, <1>4, <1>5 DEF CInv

LEMMA OnwardCalls ==
    ASSUME CInv, NEW p, NEW q, Succeeds(p) /\ main' = q, UNCHANGED <<back, cleanups, disabled, lpJob>>,
           \/ <<p, q>> \in {<<"lock", "lock">>, <<"task", "edit">>, <<"edit", "confs">>, <<"confs", "ready">>}
           \/ <<p, q>> \in {<<"startConfs", "run">>, <<"endConfs", "unlock">>, <<"unlock", "unlock">>}
           \/ <<p, q>> \in {<<"cause", "postConfs">>, <<"postConfs", "cleanup">>, <<"close", "cleanup">>}
           \/ <<p, q>> = <<"task", "cleanup">>
    PROVE  CInv'
<1>1. /\ main = p /\ UNCHANGED thread
      /\ main # "close" => closed' = closed
    BY CallingLeaves DEF Succeeds
<1> QED
    BY <1>1, OnwardKeeps DEF Onward, CInv, JobFirst, JoinedFirst, OnlyCleaning, AfterStart

\* Stages that need the job before the senders are started, or after they ended.
LEMMA NewLpJobKeeps ==
    ASSUME CInv, NEW b \in {"prepare", "end", "post"}, NewLpJob(b), UNCHANGED <<thread, closed, lpJob>>,
           ~Running, closed = {}
    PROVE  CInv'
<1>1. cleanups' \in Seq({"close", "unlock", "join"})
    BY Registered DEF NewLpJob, CInv, Shape
<1> QED
    BY <1>1 DEF NewLpJob, Now, CInv, Shape, JobFirst, JoinedFirst, OnlyCleaning, Running

\* The join of the senders comes first, and only a job that is closed without
\* them is made again.
LEMMA CleanupKeeps ==
    ASSUME CInv, Cleanup
    PROVE  CInv'
<1>1. main = "cleanup" /\ UNCHANGED <<thread, closed, lpJob>> /\ Running' = Running
    BY DEF Cleanup, Moves, client, threads, job, Running
<1>2. CASE cleanups = << >>
    BY <1>1, <1>2 DEF Cleanup, Now, CInv, Shape, JobFirst, JoinedFirst, OnlyCleaning
<1>3. CASE cleanups # << >>
  <2> DEFINE Actions == {"close", "unlock", "join"}
             action  == cleanups[Len(cleanups)]
  <2>1. cleanups \in Seq(Actions) /\ Len(cleanups) \in Nat \ {0}
      BY <1>3, EmptySeq DEF CInv, Shape
  <2>2. action \in Actions
      BY <2>1, ElementOfSeq
  <2>3. cleanups' = SubSeq(cleanups, 1, Len(cleanups) - 1)
      BY <1>3 DEF Cleanup, Front
  <2>4. cleanups' \in Seq(Actions)
      BY <2>1, <2>3, SubSeqProperties, ElementOfSeq
  <2>5. /\ main' \in {"close", "unlock", "joinThreads", "job", "config"}
        /\ action = "join" => main' = "joinThreads"
        /\ main' \in {"job", "config"} => back' = "close"
        /\ main' = "unlock" => back' = "cleanup"
      BY <1>3, <2>2 DEF Cleanup, Now, Last
  <2>6. Running => lpJob /\ action = "join"
      BY <1>1 DEF CInv, JoinedFirst, Last
  <2> QED
      BY <1>1, <2>4, <2>5, <2>6 DEF CInv, Shape, JobFirst, JoinedFirst, OnlyCleaning, AfterStart
<1> QED
    BY <1>2, <1>3

\* Start registers the join of the senders last, for a job that is there.
LEMMA StartKeeps ==
    ASSUME CInv, Start
    PROVE  CInv'
<1>1. /\ main = "ready" /\ closed' = closed /\ lpJob' = lpJob /\ closed = {} /\ ~Running
    BY DEF Start, Moves, client, job, CInv, JoinedFirst, OnlyCleaning, AfterStart
<1>2. CASE disabled
    BY <1>1, <1>2 DEF Start, Now, CInv, Shape, JobFirst, JoinedFirst, OnlyCleaning, Running
<1>3. CASE ~disabled
  <2>1. lpJob
      BY <1>1, <1>3 DEF CInv, JobFirst
  <2>2. cleanups' = Append(cleanups, "join") /\ main' = "startConfs" /\ thread' = [t \in DOMAIN thread |-> "loop"]
      BY <1>3 DEF Start, Plus, Now
  <2>3. cleanups' \in Seq({"close", "unlock", "join"}) /\ cleanups' # << >> /\ Last(cleanups') = "join"
      BY <2>2, Registered DEF CInv, Shape
  <2> QED
      BY <1>1, <2>1, <2>2, <2>3 DEF CInv, Shape, JobFirst, JoinedFirst, OnlyCleaning, AfterStart
<1> QED
    BY <1>2, <1>3

\* Every stage keeps the invariant.
LEMMA MainKeeps ==
    ASSUME CInv, MainDoes
    PROVE  CInv'
<1> USE DEF stages, threads, client, targets, job, codes
<1>1. CASE CallContinues
    BY <1>1, CallingLeaves DEF CallContinues, CInv, Shape, JobFirst, JoinedFirst, OnlyCleaning, Running, AfterStart
<1>2. CASE JobCreated
  <2>1. main = "job" /\ main' = "config" /\ UNCHANGED <<back, lpJob, disabled, thread, closed>>
      BY <1>2, CallingLeaves DEF JobCreated, Succeeds, Now
  <2>2. cleanups' \in Seq({"close", "unlock", "join"})
      BY <1>2, Registered DEF JobCreated, CInv, Shape
  <2> QED
      BY <2>1, <2>2 DEF CInv, Shape, JobFirst, JoinedFirst, OnlyCleaning, Running, AfterStart
<1>3. CASE JobReady
  <2>1. main = "config" /\ ~Running /\ main' = Resume /\ lpJob' /\ UNCHANGED <<thread, closed, cleanups>>
      BY <1>3, CallingLeaves DEF JobReady, Succeeds, Now, CInv, JoinedFirst, AfterStart
  <2>2. back = "close" => Resume = "close"
      BY DEF Resume
  <2> QED
      BY <2>1, <2>2 DEF CInv, Shape, JobFirst, JoinedFirst, OnlyCleaning, Running
<1>4. CASE Prepare
  <2>1. main = "prepare" /\ ~Running /\ closed = {} /\ UNCHANGED <<thread, closed, lpJob>>
      BY <1>4 DEF Prepare, Moves, CInv, JoinedFirst, OnlyCleaning, AfterStart
  <2>2. CASE core
      BY <1>4, <2>1, <2>2, OnwardKeeps DEF Prepare, Now, Onward
  <2>3. CASE ~core
      BY <1>4, <2>1, <2>3, NewLpJobKeeps DEF Prepare
  <2> QED
      BY <2>2, <2>3
<1>5. CASE Locking
  <2>1. cleanups' \in Seq({"close", "unlock", "join"})
      BY <1>5, Registered DEF Locking, Plus, CInv, Shape
  <2> QED
      BY <1>5, <2>1 DEF Locking, Moves, Now, CInv, Shape, JobFirst, JoinedFirst, OnlyCleaning, Running, AfterStart
<1>6. CASE TargetLocked
    BY <1>6, CallingLeaves, OnwardKeeps DEF TargetLocked, Succeeds, Fails, Onward, CInv, JobFirst, JoinedFirst, OnlyCleaning, AfterStart
<1>7. CASE Locked
    BY <1>7, OnwardKeeps DEF Locked, Moves, Now, Onward, CInv, JobFirst, JoinedFirst, OnlyCleaning, AfterStart
<1>8. CASE PrepareFails
    BY <1>8, CallingLeaves, OnwardKeeps DEF PrepareFails, Fails, Now, Onward, CInv, JobFirst, JoinedFirst, OnlyCleaning, AfterStart
<1>9. CASE TaskClosed
    BY <1>9, CallingLeaves, OnwardKeeps DEF TaskClosed, Succeeds, Now, Onward, CInv, JobFirst, JoinedFirst, OnlyCleaning, AfterStart
<1>10. CASE Prepared("task", "edit") \/ Prepared("edit", "confs") \/ Prepared("confs", "ready")
    BY <1>10, OnwardCalls DEF Prepared, Now
<1>11. CASE Start
    BY <1>11, StartKeeps
<1>12. CASE NotStarted
    BY <1>12, OnwardKeeps DEF NotStarted, Moves, Now, Onward, CInv, JobFirst, JoinedFirst, OnlyCleaning, AfterStart
<1>13. CASE Prepared("startConfs", "run")
    BY <1>13, OnwardCalls DEF Prepared, Now
<1>14. CASE StartFails
    BY <1>14, CallingLeaves, OnwardKeeps DEF StartFails, Fails, Now, Onward, CInv, JobFirst, JoinedFirst, OnlyCleaning, AfterStart
<1>15. CASE TestEnds
    BY <1>15, OnwardKeeps DEF TestEnds, Moves, Now, Onward, CInv, JobFirst, JoinedFirst, OnlyCleaning, AfterStart
<1>16. CASE EndTest
  <2>1. main \in {"ending", "end"} /\ closed = {} /\ UNCHANGED <<thread, closed, lpJob>>
      BY <1>16 DEF EndTest, Moves, CInv, OnlyCleaning
  <2>2. CASE lpJob
      BY <1>16, <2>1, <2>2, OnwardKeeps DEF EndTest, Now, Onward, AfterStart
  <2>3. CASE ~lpJob
      BY <1>16, <2>1, <2>3, NewLpJobKeeps DEF EndTest, CInv, JoinedFirst
  <2> QED
      BY <2>2, <2>3
<1>17. CASE EndSkipped
    BY <1>17, OnwardKeeps DEF EndSkipped, Moves, Now, Onward, CInv, JobFirst, JoinedFirst, OnlyCleaning, AfterStart
<1>18. CASE EndJob
    BY <1>18, OnwardKeeps DEF EndJob, Moves, Now, Onward, CInv, JobFirst, JoinedFirst, OnlyCleaning, AfterStart
<1>19. CASE EndConfs
    BY <1>19, OnwardCalls DEF EndConfs, Prepared, Now
<1>20. CASE Unlocked
    BY <1>20, CallingLeaves, OnwardKeeps DEF Unlocked, Succeeds, Onward, CInv, JobFirst, JoinedFirst, OnlyCleaning, AfterStart
<1>21. CASE AllUnlocked
    BY <1>21, OnwardKeeps DEF AllUnlocked, Moves, Now, Onward, CInv, JobFirst, JoinedFirst, OnlyCleaning, AfterStart
<1>22. CASE EndFails
    BY <1>22, CallingLeaves, OnwardKeeps DEF EndFails, Fails, Now, Onward, CInv, JobFirst, JoinedFirst, OnlyCleaning, AfterStart
<1>23. CASE PostProcess
    BY <1>23, OnwardKeeps DEF PostProcess, Moves, Now, Onward, CInv, JobFirst, JoinedFirst, OnlyCleaning, AfterStart
<1>24. CASE Finished
  <2>1. main = "join" /\ ~Running /\ closed = {} /\ UNCHANGED <<thread, closed, lpJob>>
      BY <1>24 DEF Finished, Moves, Joined, Running, CInv, OnlyCleaning
  <2>2. CASE lpJob
      BY <1>24, <2>1, <2>2, OnwardKeeps DEF Finished, Now, Onward
  <2>3. CASE ~lpJob
      BY <1>24, <2>1, <2>3, NewLpJobKeeps DEF Finished
  <2> QED
      BY <2>2, <2>3
<1>25. CASE Prepared("cause", "postConfs") \/ Prepared("postConfs", "cleanup") \/ Prepared("close", "cleanup")
    BY <1>25, OnwardCalls DEF Prepared, Now
<1>26. CASE Cleanup
    BY <1>26, CleanupKeeps
<1>27. CASE ThreadsJoined
  <2>1. /\ main = "joinThreads" /\ main' = "cleanup" /\ ~Running
        /\ UNCHANGED <<thread, closed, lpJob, cleanups, back, disabled>>
      BY <1>27 DEF ThreadsJoined, Moves, Now, Joined, Running
  <2> QED
      BY <2>1 DEF CInv, Shape, JobFirst, JoinedFirst, OnlyCleaning, Running
<1> QED
    BY <1>1, <1>2, <1>3, <1>4, <1>5, <1>6, <1>7, <1>8, <1>9, <1>10, <1>11, <1>12, <1>13, <1>14, <1>15, <1>16,
       <1>17, <1>18, <1>19, <1>20, <1>21, <1>22, <1>23, <1>24, <1>25, <1>26, <1>27 DEF MainDoes

-----------------------------------------------------------------------------
(***************************************************************************)
(* The threads                                                             *)
(***************************************************************************)

\* A step of a sender: it runs, and closes no job.
LEMMA SenderLeaves ==
    ASSUME NEW s \in Senders, Sender(s), Shape
    PROVE  /\ Running /\ UNCHANGED <<closed, stages>>
           /\ \E state \in {"loop", "purge", "dead"} : thread' = [thread EXCEPT ![s] = state]
<1> USE DEF stages, client, clientVars, threads
<1>1. s \in Streams /\ s # "close" /\ thread = [thread EXCEPT ![s] = thread[s]]
    BY DEF Senders, Streams, Shape
<1>2. ASSUME NEW results, Push(s, results)
      PROVE  Running /\ UNCHANGED <<closed, stages>> /\ thread[s] = "loop"
    BY <1>1, <1>2 DEF Push, Client, GiveUp, Done, Rejected, Unavailable, Stopped, NetworkError, Maintenance,
                      Request, Serve, Idle, Running
<1>3. CASE PushContinues(s)
    BY <1>1, <1>2, <1>3 DEF PushContinues
<1>4. CASE Pushed(s)
    BY <1>1, <1>2, <1>4 DEF Pushed, Thread
<1>5. CASE LoopEnds(s)
    BY <1>1, <1>5 DEF LoopEnds, Thread, Running
<1>6. CASE Purge(s)
    BY <1>1, <1>6 DEF Purge, Thread, Running
<1> QED
    BY <1>3, <1>4, <1>5, <1>6 DEF Sender

\* A step of the status thread.
LEMMA ReportedLeaves ==
    ASSUME Reported, Shape
    PROVE  /\ UNCHANGED <<taken, closed, main, back, cleanups, job>>
           /\ \E state \in {"loop", "dead"} : thread' = [thread EXCEPT !["status"] = state]
<1>1. ASSUME NEW results, Report(results)
      PROVE  UNCHANGED <<taken, closed, main, back, cleanups, job>> /\ thread["status"] = "loop"
  <2>1. "status" \notin Streams
      BY DEF Streams
  <2> QED
      BY <1>1, <2>1, ClientLeaves DEF Report
<1>2. thread = [thread EXCEPT !["status"] = thread["status"]]
    BY DEF Shape
<1> QED
    BY <1>1, <1>2 DEF Reported, Thread

LEMMA NextKeeps ==
    ASSUME CInv, [Next]_vars
    PROVE  CInv'
<1> USE DEF stages, client, clientVars, threads, targets, job, codes
<1>1. CASE MainDoes
    BY <1>1, MainKeeps
<1>2. ASSUME NEW s \in Senders, Put(s)
      PROVE  CInv'
    BY <1>2 DEF Put, Moves, CInv, Shape, JobFirst, JoinedFirst, OnlyCleaning, Running
<1>3. CASE Interrupt
    BY <1>3 DEF Interrupt, CInv, Shape, JobFirst, JoinedFirst, OnlyCleaning, Running
<1>4. ASSUME NEW s \in Senders, Sender(s)
      PROVE  CInv'
  <2>1. /\ Running /\ UNCHANGED <<closed, main, back, cleanups, lpJob, disabled>>
        /\ \E state \in {"loop", "purge", "dead"} : thread' = [thread EXCEPT ![s] = state]
      BY <1>4, SenderLeaves DEF CInv
  <2> QED
      BY <2>1 DEF CInv, Shape, JobFirst, JoinedFirst, OnlyCleaning
<1>5. CASE Reported
  <2>1. /\ UNCHANGED <<closed, main, back, cleanups, lpJob, disabled>>
        /\ \E state \in {"loop", "dead"} : thread' = [thread EXCEPT !["status"] = state]
      BY <1>5, ReportedLeaves DEF CInv
  <2>2. Running' = Running /\ Shape'
      BY <2>1 DEF CInv, Shape, Running, Senders, Streams
  <2> QED
      BY <2>1, <2>2 DEF CInv, JobFirst, JoinedFirst, OnlyCleaning
<1>6. CASE UNCHANGED vars
    BY <1>6 DEF vars, CInv, Shape, JobFirst, JoinedFirst, OnlyCleaning, Running
<1> QED
    BY <1>1, <1>2, <1>3, <1>4, <1>5, <1>6 DEF Next, Main

LEMMA InitHolds ==
    ASSUME Init
    PROVE  CInv
<1>1. cleanups \in Seq({"close", "unlock", "join"})
    BY EmptySeq DEF Init
<1> QED
    BY <1>1 DEF Init, ClientInit, CInv, Shape, JobFirst, JoinedFirst, OnlyCleaning, Running

\* As long as a sender runs, its join is the next cleanup action; after the job
\* was closed none runs, and no stage that starts one comes.
THEOREM CleanupOrder == Spec => []CInv
<1>1. Init => CInv
    BY InitHolds
<1>2. CInv /\ [Next]_vars => CInv'
    BY NextKeeps
<1> QED
    BY <1>1, <1>2, PTL DEF Spec

\* Only senders push.
LEMMA MainPushesNothing ==
    ASSUME MainDoes
    PROVE  taken' = taken
BY CallingLeaves DEF MainDoes, CallContinues, JobCreated, JobReady, Prepare, Locking, TargetLocked, Locked,
   PrepareFails, TaskClosed, Prepared, Start, NotStarted, StartFails, TestEnds, EndTest, EndSkipped, EndJob,
   EndConfs, Unlocked, AllUnlocked, EndFails, PostProcess, Finished, Cleanup, ThreadsJoined, Succeeds, Fails,
   Moves, client

\* The service takes nothing for a job that was closed, whatever fails and is
\* repeated on the way there (LPJob.close, the cleanup of the plugin).
THEOREM PushesBeforeClose == Spec => NothingAfterClose
<1>1. ASSUME CInv, [Next]_vars, closed # {}
      PROVE  taken' = taken
  <2>1. CASE MainDoes
      BY <2>1, MainPushesNothing
  <2>2. ASSUME NEW s \in Senders, Put(s)
        PROVE  taken' = taken
      BY <2>2 DEF Put, Moves, client
  <2>3. CASE Interrupt
      BY <2>3 DEF Interrupt, client
  <2>4. ASSUME NEW s \in Senders, Sender(s)
        PROVE  FALSE
      BY <1>1, <2>4, SenderLeaves DEF CInv, OnlyCleaning
  <2>5. CASE Reported
      BY <1>1, <2>5, ReportedLeaves DEF CInv
  <2>6. CASE UNCHANGED vars
      BY <2>6 DEF vars, clientVars, client
  <2> QED
      BY <1>1, <2>1, <2>2, <2>3, <2>4, <2>5, <2>6 DEF Next, Main
<1>2. CInv /\ [Next]_vars => [closed # {} => UNCHANGED taken]_vars
    BY <1>1
<1> QED
    BY <1>2, CleanupOrder, PTL DEF Spec, NothingAfterClose

-----------------------------------------------------------------------------
(***************************************************************************)
(* The order of a stream.  Of a stream t is what the service took, q the   *)
(* queue of its sender, p the number of its last item, n the faults there  *)
(* were.                                                                   *)
(***************************************************************************)

\* What was taken ascends, what is in the queue ascends, sentinels aside, and
\* no item in the queue was taken but the first, which may be under way.
Sorted(t, q, p) ==
    /\ t \in Seq(Nat) /\ q \in Seq(Nat) /\ p \in Nat
    /\ \A i, j \in 1 .. Len(t) : i < j => t[i] <= t[j]
    /\ \A i, j \in 1 .. Len(q) : i < j /\ q[i] # None /\ q[j] # None => q[i] < q[j]
    /\ \A j \in 1 .. Len(q) : q[j] <= p
    /\ \A i \in 1 .. Len(t) : 0 < t[i] /\ t[i] <= p
    /\ \A i \in 1 .. Len(t), j \in 1 .. Len(q) : q[j] # None => t[i] <= q[j] /\ (t[i] = q[j] => j = 1)

Again(t, q) == IF q # << >> /\ Head(q) \in ToSet(t) THEN 1 ELSE 0

\* Every time that an item was taken again there was a fault, and one more for
\* the item that was taken and is still pushed.
Counted(t, q, n) ==
    /\ IsFiniteSet(ToSet(t)) /\ n \in Nat
    /\ Len(t) + Again(t, q) <= Cardinality(ToSet(t)) + n

\* The elements of a sequence with one more.
LEMMA AppendToSet ==
    ASSUME NEW S, NEW t \in Seq(S), NEW x \in S
    PROVE  ToSet(Append(t, x)) = ToSet(t) \cup {x}
<1> DEFINE u == Append(t, x)
<1>1. /\ u \in Seq(S) /\ Len(u) = Len(t) + 1 /\ u[Len(t) + 1] = x /\ Len(t) \in Nat
      /\ \A i \in 1 .. Len(t) : u[i] = t[i]
    BY AppendProperties, LenProperties
<1>2. DOMAIN t = 1 .. Len(t) /\ DOMAIN u = 1 .. Len(u)
    BY <1>1, LenProperties
<1> HIDE DEF u
<1> QED
    BY <1>1, <1>2 DEF ToSet, u

LEMMA SortedStart == Sorted(<< >>, << >>, 0) /\ \A n \in Nat : Counted(<< >>, << >>, n)
<1>1. << >> \in Seq(Nat) /\ Len(<< >>) = 0 /\ ToSet(<< >>) = {}
    BY EmptySeq DEF ToSet
<1> QED
    BY <1>1, FS_EmptySet DEF Sorted, Counted, Again

\* An item, or a sentinel, is put into the queue.
LEMMA SortedPut ==
    ASSUME NEW t, NEW q, NEW p, NEW n, NEW x \in Nat, NEW r \in Nat, Sorted(t, q, p), Counted(t, q, n),
           (x = None /\ r = p) \/ (x = p + 1 /\ r = p + 1)
    PROVE  Sorted(t, Append(q, x), r) /\ Counted(t, Append(q, x), n)
<1> DEFINE a == Append(q, x)
<1>1. /\ a \in Seq(Nat) /\ a # << >> /\ Len(a) = Len(q) + 1 /\ a[Len(q) + 1] = x /\ Len(q) \in Nat
      /\ \A i \in 1 .. Len(q) : a[i] = q[i]
    BY AppendProperties, LenProperties DEF Sorted
<1>2. /\ Head(a) = IF q = << >> THEN x ELSE Head(q)
      /\ Len(t) \in Nat /\ DOMAIN t = 1 .. Len(t)
    BY HeadTailAppend, LenProperties DEF Sorted
<1> HIDE DEF a
<1>3. \A i \in 1 .. Len(t) : t[i] \in Nat /\ t[i] # x
    BY ElementOfSeq DEF Sorted, None
<1>4. \A j \in 1 .. Len(q) : q[j] \in Nat
    BY ElementOfSeq DEF Sorted
<1>5. Sorted(t, a, r)
  <2>1. \A i, j \in 1 .. Len(a) : i < j /\ a[i] # None /\ a[j] # None => a[i] < a[j]
    <3> SUFFICES ASSUME NEW i \in 1 .. Len(a), NEW j \in 1 .. Len(a), i < j, a[i] # None, a[j] # None
                 PROVE  a[i] < a[j]
        OBVIOUS
    <3>1. i \in 1 .. Len(q) /\ a[i] = q[i] /\ q[i] \in Nat /\ q[i] <= p
        BY <1>1, <1>4 DEF Sorted
    <3>2. CASE j \in 1 .. Len(q)
        BY <1>1, <1>4, <3>1, <3>2 DEF Sorted
    <3>3. CASE j = Len(q) + 1
        BY <1>1, <3>1, <3>3 DEF Sorted
    <3> QED
        BY <1>1, <3>2, <3>3
  <2>2. \A j \in 1 .. Len(a) : a[j] <= r
    <3>1. \A j \in 1 .. Len(q) : a[j] = q[j] /\ q[j] <= p /\ q[j] \in Nat
        BY <1>1, <1>4 DEF Sorted
    <3>2. x <= r /\ p <= r /\ p \in Nat
        BY DEF Sorted, None
    <3> QED
        BY <1>1, <3>1, <3>2
  <2>3. \A i \in 1 .. Len(t), j \in 1 .. Len(a) : a[j] # None => t[i] <= a[j] /\ (t[i] = a[j] => j = 1)
    <3> SUFFICES ASSUME NEW i \in 1 .. Len(t), NEW j \in 1 .. Len(a), a[j] # None
                 PROVE  t[i] <= a[j] /\ (t[i] = a[j] => j = 1)
        OBVIOUS
    <3>1. CASE j \in 1 .. Len(q)
        BY <1>1, <3>1 DEF Sorted
    <3>2. CASE j = Len(q) + 1
      <4>1. a[j] = p + 1 /\ t[i] <= p /\ t[i] \in Nat
          BY <1>1, <1>3, <3>2 DEF Sorted
      <4> QED
          BY <4>1 DEF Sorted
    <3> QED
        BY <1>1, <3>1, <3>2
  <2>4. \A i \in 1 .. Len(t) : 0 < t[i] /\ t[i] <= r
      BY <1>3 DEF Sorted
  <2> QED
      BY <1>1, <2>1, <2>2, <2>3, <2>4 DEF Sorted
<1>6. x \notin ToSet(t)
    BY <1>2, <1>3 DEF ToSet
<1>7. Again(t, a) <= Again(t, q)
    BY <1>1, <1>2, <1>6 DEF Again
<1>8. Counted(t, a, n)
    BY <1>2, <1>7, FS_CardinalityType DEF Counted, Again
<1> QED
    BY <1>5, <1>8 DEF a

\* The first of the queue leaves it.
LEMMA SortedTail ==
    ASSUME NEW t, NEW q, NEW p, Sorted(t, q, p), q # << >>
    PROVE  Sorted(t, Tail(q), p) /\ Again(t, Tail(q)) = 0
<1> DEFINE a == Tail(q)
<1>1. /\ a \in Seq(Nat) /\ Len(a) = Len(q) - 1 /\ Len(q) \in Nat \ {0} /\ Len(a) \in Nat
      /\ \A i \in 1 .. Len(a) : a[i] = q[i + 1]
    BY HeadTailProperties, EmptySeq, LenProperties DEF Sorted
<1>2. Len(t) \in Nat /\ DOMAIN t = 1 .. Len(t)
    BY LenProperties DEF Sorted
<1>3. a # << >> => Len(a) \in Nat \ {0} /\ Head(a) = a[1]
    BY <1>1, EmptySeq
<1> HIDE DEF a
<1>4. \A i \in 1 .. Len(t) : t[i] \in Nat
    BY ElementOfSeq DEF Sorted
<1>5. \A j \in 1 .. Len(q) : q[j] \in Nat
    BY ElementOfSeq DEF Sorted
<1>6. Sorted(t, a, p)
  <2>1. \A j \in 1 .. Len(a) : j + 1 \in 1 .. Len(q) /\ a[j] = q[j + 1]
      BY <1>1
  <2>2. \A i, j \in 1 .. Len(a) : i < j /\ a[i] # None /\ a[j] # None => a[i] < a[j]
    <3> SUFFICES ASSUME NEW i \in 1 .. Len(a), NEW j \in 1 .. Len(a), i < j, a[i] # None, a[j] # None
                 PROVE  a[i] < a[j]
        OBVIOUS
    <3>1. i + 1 < j + 1
        BY <1>1
    <3> QED
        BY <2>1, <3>1 DEF Sorted
  <2>3. \A i \in 1 .. Len(t), j \in 1 .. Len(a) : a[j] # None => t[i] <= a[j] /\ t[i] # a[j]
    <3> SUFFICES ASSUME NEW i \in 1 .. Len(t), NEW j \in 1 .. Len(a), a[j] # None
                 PROVE  t[i] <= a[j] /\ t[i] # a[j]
        OBVIOUS
    <3>1. t[i] <= q[j + 1] /\ (t[i] = q[j + 1] => j + 1 = 1)
        BY <2>1 DEF Sorted
    <3> QED
        BY <1>1, <2>1, <3>1
  <2>4. \A j \in 1 .. Len(a) : a[j] <= p
      BY <2>1 DEF Sorted
  <2> QED
      BY <1>1, <2>2, <2>3, <2>4 DEF Sorted
<1>7. a # << >> => Head(a) \notin ToSet(t)
  <2> SUFFICES ASSUME a # << >>, NEW i \in 1 .. Len(t)
               PROVE  t[i] # a[1]
      BY <1>2, <1>3 DEF ToSet
  <2>1. a[1] = q[2] /\ 2 \in 1 .. Len(q)
      BY <1>1, <1>3
  <2> QED
      BY <2>1, <1>4, <1>5 DEF Sorted, None
<1> QED
    BY <1>6, <1>7 DEF Again, a

\* The service takes the first of the queue: after a fault, or for the last time.
LEMMA SortedTaken ==
    ASSUME NEW t, NEW q, NEW p, NEW n, Sorted(t, q, p), Counted(t, q, n), q # << >>, Head(q) # None
    PROVE  /\ Sorted(Append(t, Head(q)), q, p) /\ Counted(Append(t, Head(q)), q, n + 1)
           /\ Sorted(Append(t, Head(q)), Tail(q), p) /\ Counted(Append(t, Head(q)), Tail(q), n)
<1> DEFINE x == Head(q)
           u == Append(t, x)
<1>1. x \in Nat /\ x = q[1] /\ Len(q) \in Nat \ {0} /\ t \in Seq(Nat)
    BY HeadTailProperties, EmptySeq DEF Sorted
<1>2. /\ u \in Seq(Nat) /\ Len(u) = Len(t) + 1 /\ u[Len(t) + 1] = x /\ Len(t) \in Nat
      /\ \A i \in 1 .. Len(t) : u[i] = t[i]
    BY <1>1, AppendProperties, LenProperties
<1>3. ToSet(u) = ToSet(t) \cup {x}
    BY <1>1, AppendToSet
<1> HIDE DEF u, x
<1>4. \A i \in 1 .. Len(t) : t[i] \in Nat /\ t[i] <= x
    BY <1>1, ElementOfSeq DEF Sorted, x
<1>5. \A j \in 1 .. Len(q) : q[j] \in Nat /\ (j # 1 /\ q[j] # None => x < q[j])
  <2> TAKE j \in 1 .. Len(q)
  <2>1. q \in Seq(Nat)
      BY DEF Sorted
  <2>2. q[j] \in Nat
      BY <2>1, ElementOfSeq
  <2>3. 1 \in 1 .. Len(q) /\ (j # 1 => 1 < j)
      BY <1>1
  <2>4. q[1] = x /\ q[1] # None
      BY <1>1 DEF x
  <2>5. 1 < j /\ q[j] # None => q[1] < q[j]
      BY <2>3, <2>4 DEF Sorted
  <2> QED
      BY <2>2, <2>3, <2>4, <2>5
<1>6. Sorted(u, q, p)
  <2>1. 0 < x /\ x <= p /\ 1 \in 1 .. Len(q) /\ p \in Nat
      BY <1>1 DEF Sorted, None, x
  <2>2. \A i, j \in 1 .. Len(u) : i < j => u[i] <= u[j]
    <3> SUFFICES ASSUME NEW i \in 1 .. Len(u), NEW j \in 1 .. Len(u), i < j
                 PROVE  u[i] <= u[j]
        OBVIOUS
    <3>1. i \in 1 .. Len(t) /\ u[i] = t[i] /\ t[i] <= x
        BY <1>2, <1>4
    <3>2. CASE j \in 1 .. Len(t)
        BY <1>2, <3>1, <3>2 DEF Sorted
    <3>3. CASE j = Len(t) + 1
        BY <1>2, <3>1, <3>3
    <3> QED
        BY <1>2, <3>2, <3>3
  <2>3. \A i \in 1 .. Len(u) : 0 < u[i] /\ u[i] <= p
    <3>1. \A i \in 1 .. Len(t) : 0 < u[i] /\ u[i] <= p
        BY <1>2 DEF Sorted
    <3> QED
        BY <1>2, <2>1, <3>1
  <2>4. \A i \in 1 .. Len(u), j \in 1 .. Len(q) : q[j] # None => u[i] <= q[j] /\ (u[i] = q[j] => j = 1)
    <3> SUFFICES ASSUME NEW i \in 1 .. Len(u), NEW j \in 1 .. Len(q), q[j] # None
                 PROVE  u[i] <= q[j] /\ (u[i] = q[j] => j = 1)
        OBVIOUS
    <3>1. CASE i \in 1 .. Len(t)
        BY <1>2, <3>1 DEF Sorted
    <3>2. CASE i = Len(t) + 1
        BY <1>1, <1>2, <1>5, <3>2
    <3> QED
        BY <1>2, <3>1, <3>2
  <2> QED
      BY <1>2, <2>1, <2>2, <2>3, <2>4 DEF Sorted
<1>7. /\ IsFiniteSet(ToSet(u)) /\ Cardinality(ToSet(t)) \in Nat /\ Cardinality(ToSet(u)) \in Nat
      /\ Cardinality(ToSet(u)) = IF x \in ToSet(t) THEN Cardinality(ToSet(t)) ELSE Cardinality(ToSet(t)) + 1
    BY <1>3, FS_AddElement, FS_CardinalityType DEF Counted
<1>8. Again(u, q) = 1 /\ Again(t, q) = (IF x \in ToSet(t) THEN 1 ELSE 0) /\ n \in Nat
    BY <1>3 DEF Again, x, Counted
<1>9. Counted(u, q, n + 1)
    BY <1>2, <1>7, <1>8 DEF Counted
<1>10. Sorted(u, Tail(q), p) /\ Again(u, Tail(q)) = 0
    BY <1>6, SortedTail
<1>11. Counted(u, Tail(q), n)
    BY <1>2, <1>7, <1>8, <1>10 DEF Counted
<1> QED
    BY <1>6, <1>9, <1>10, <1>11 DEF u, x

LEMMA CountedMore ==
    ASSUME NEW t, NEW q, NEW n, NEW m \in Nat, n <= m, Counted(t, q, n), t \in Seq(Nat)
    PROVE  Counted(t, q, m)
<1>1. Len(t) \in Nat /\ Cardinality(ToSet(t)) \in Nat /\ Again(t, q) \in Nat
    BY LenProperties, FS_CardinalityType DEF Counted, Again
<1> QED
    BY <1>1 DEF Counted

LEMMA CountedTail ==
    ASSUME NEW t \in Seq(Nat), NEW q, NEW r, NEW n, Again(t, r) = 0, Counted(t, q, n)
    PROVE  Counted(t, r, n)
<1>1. Len(t) \in Nat /\ Cardinality(ToSet(t)) \in Nat /\ Again(t, q) \in {0, 1} /\ n \in Nat
      /\ IsFiniteSet(ToSet(t)) /\ Len(t) + Again(t, q) <= Cardinality(ToSet(t)) + n
    BY LenProperties, FS_CardinalityType DEF Counted, Again
<1> QED
    BY <1>1 DEF Counted

Kept ==
    /\ taken \in [Streams -> Seq(Nat)] /\ queue \in [Streams -> Seq(Nat)] /\ put \in [Streams -> Nat]
    /\ opt \in Options /\ opt.faults \in Nat /\ faults \in Nat /\ faults <= opt.faults

OInv ==
    /\ Kept
    /\ \A s \in Streams : /\ Sorted(taken[s], queue[s], put[s])
                          /\ Counted(taken[s], queue[s], opt.faults - faults)

\* A step that only one stream takes part in.
LEMMA OneStream ==
    ASSUME OInv, Kept', opt' = opt, faults' <= faults, NEW s \in Streams,
           \A r \in Streams : r # s => taken'[r] = taken[r] /\ queue'[r] = queue[r] /\ put'[r] = put[r],
           Sorted(taken'[s], queue'[s], put'[s]), Counted(taken'[s], queue'[s], opt.faults - faults')
    PROVE  OInv'
<1>1. opt.faults - faults <= opt.faults - faults' /\ opt.faults - faults' \in Nat
    BY DEF OInv, Kept
<1>2. ASSUME NEW r \in Streams
      PROVE  Sorted(taken'[r], queue'[r], put'[r]) /\ Counted(taken'[r], queue'[r], opt.faults - faults')
  <2>1. CASE r = s
      BY <2>1
  <2>2. CASE r # s
    <3>1. Counted(taken[r], queue[r], opt.faults - faults) /\ taken[r] \in Seq(Nat)
        BY DEF OInv, Kept
    <3>2. Counted(taken[r], queue[r], opt.faults - faults')
        BY <1>1, <3>1, CountedMore
    <3> QED
        BY <2>2, <3>2 DEF OInv
  <2> QED
      BY <2>1, <2>2
<1> QED
    BY <1>2 DEF OInv

\* A call may use up a fault.
LEMMA ClientFaults ==
    ASSUME NEW t, NEW op, NEW item, NEW results, faults \in Nat, Client(t, op, item, results)
    PROVE  faults' \in Nat /\ faults' <= faults
BY DEF Client, GiveUp, Done, Rejected, Unavailable, Stopped, NetworkError, Maintenance, Request

\* A stage puts no items, but may put the sentinels.
LEMMA MainPuts ==
    ASSUME MainDoes, faults \in Nat
    PROVE  /\ UNCHANGED <<opt, taken, put>> /\ faults' \in Nat /\ faults' <= faults
           /\ queue' = queue \/ queue' = [s \in Senders |-> Append(queue[s], None)]
<1> USE DEF stages, threads, client
<1>1. ASSUME NEW results, Calling(results)
      PROVE  faults' \in Nat /\ faults' <= faults /\ UNCHANGED <<opt, queue>>
    BY <1>1, ClientFaults DEF Calling
<1>2. UNCHANGED <<opt, put>> /\ faults' \in Nat /\ faults' <= faults
    BY <1>1 DEF MainDoes, CallContinues, JobCreated, JobReady, Prepare, Locking, TargetLocked, Locked,
       PrepareFails, TaskClosed, Prepared, Start, NotStarted, StartFails, TestEnds, EndTest, EndSkipped, EndJob,
       EndConfs, Unlocked, AllUnlocked, EndFails, PostProcess, Finished, Cleanup, ThreadsJoined, Succeeds, Fails,
       Moves
<1>3. queue' = queue \/ queue' = [s \in Senders |-> Append(queue[s], None)]
    BY <1>1 DEF MainDoes, CallContinues, JobCreated, JobReady, Prepare, Locking, TargetLocked, Locked,
       PrepareFails, TaskClosed, Prepared, Start, NotStarted, StartFails, TestEnds, EndTest, EndSkipped, EndJob,
       EndConfs, Unlocked, AllUnlocked, EndFails, PostProcess, Finished, Cleanup, ThreadsJoined, Succeeds, Fails
<1> QED
    BY <1>2, <1>3, MainPushesNothing

LEMMA MainSorted ==
    ASSUME OInv, MainDoes
    PROVE  OInv'
<1>1. /\ UNCHANGED <<opt, taken, put>> /\ faults' \in Nat /\ faults' <= faults
      /\ queue' = queue \/ queue' = [s \in Senders |-> Append(queue[s], None)]
    BY MainPuts DEF OInv, Kept
<1>2. opt.faults - faults <= opt.faults - faults' /\ opt.faults - faults' \in Nat
    BY <1>1 DEF OInv, Kept
<1>3. \A s \in Streams : Counted(taken[s], queue[s], opt.faults - faults')
    BY <1>2, CountedMore DEF OInv, Kept
<1>4. ASSUME NEW s \in Streams
      PROVE  /\ queue'[s] \in Seq(Nat) /\ Sorted(taken[s], queue'[s], put[s])
             /\ Counted(taken[s], queue'[s], opt.faults - faults')
  <2>1. CASE queue' = queue
      BY <1>3, <2>1 DEF OInv, Kept
  <2>2. CASE queue' = [r \in Senders |-> Append(queue[r], None)]
    <3>1. queue'[s] = Append(queue[s], None)
        BY <2>2 DEF Senders
    <3>2. Sorted(taken[s], queue[s], put[s]) /\ None \in Nat /\ put[s] \in Nat
        BY DEF OInv, Kept, None
    <3>3. Sorted(taken[s], Append(queue[s], None), put[s])
          /\ Counted(taken[s], Append(queue[s], None), opt.faults - faults')
        BY <1>3, <3>2, SortedPut
    <3> QED
        BY <3>1, <3>3 DEF Sorted
  <2> QED
      BY <1>1, <2>1, <2>2
<1>5. queue' \in [Streams -> Seq(Nat)]
  <2>1. \E f : queue' = [s \in Streams |-> f[s]]
      BY <1>1 DEF OInv, Kept, Senders
  <2> QED
      BY <1>4, <2>1
<1> QED
    BY <1>1, <1>4, <1>5 DEF OInv, Kept

\* A request of a push: the service takes the first of the queue, or not; an
\* item is taken and the push goes on only when there was a fault.
LEMMA PushTakes ==
    ASSUME Kept, NEW s \in Streams, NEW results, Push(s, results)
    PROVE  /\ UNCHANGED <<opt, put>> /\ queue[s] # << >> /\ Head(queue[s]) # None
           /\ faults' \in Nat /\ faults' <= faults
           /\ \/ taken' = taken
              \/ /\ taken' = [taken EXCEPT ![s] = Append(@, Head(queue[s]))]
                 /\ results # {} \/ faults' = faults - 1
<1>1. /\ UNCHANGED <<opt, put>> /\ queue[s] # << >> /\ Head(queue[s]) # None
      /\ Client(s, s, Head(queue[s]), results)
    BY DEF Push, stages
<1>2. faults' \in Nat /\ faults' <= faults
    BY <1>1, ClientFaults DEF Kept
<1>3. \/ taken' = taken
      \/ /\ taken' = [taken EXCEPT ![s] = Append(@, Head(queue[s]))]
         /\ results # {} \/ faults' = faults - 1
    BY <1>1 DEF Client, GiveUp, Done, Rejected, Unavailable, Stopped, NetworkError, Maintenance, Request, Serve,
                Idle, Return
<1> QED
    BY <1>1, <1>2, <1>3

\* A request of a push, its item still in the queue or not any more.
LEMMA PushSorted ==
    ASSUME OInv, NEW s \in Streams, NEW results, Push(s, results),
           \/ results = {} /\ queue' = queue
           \/ queue' = [queue EXCEPT ![s] = Tail(@)]
    PROVE  OInv'
<1> DEFINE t == taken[s]
           q == queue[s]
           p == put[s]
           n == opt.faults - faults
           m == opt.faults - faults'
<1>1. /\ UNCHANGED <<opt, put>> /\ q # << >> /\ Head(q) # None /\ faults' \in Nat /\ faults' <= faults
      /\ \/ taken' = taken
         \/ /\ taken' = [taken EXCEPT ![s] = Append(@, Head(q))]
            /\ results # {} \/ faults' = faults - 1
    BY PushTakes DEF OInv
<1>2. Sorted(t, q, p) /\ Counted(t, q, n) /\ n \in Nat /\ m \in Nat /\ n <= m
      /\ (faults' = faults - 1 => m = n + 1) /\ t \in Seq(Nat) /\ q \in Seq(Nat)
    BY <1>1 DEF OInv, Kept
<1>3. /\ \A r \in Streams : r # s => taken'[r] = taken[r] /\ queue'[r] = queue[r] /\ put'[r] = put[r]
      /\ put'[s] = p
      /\ \/ queue'[s] = q /\ queue' = queue /\ results = {}
         \/ queue'[s] = Tail(q) /\ queue' = [queue EXCEPT ![s] = Tail(q)]
      /\ \/ taken'[s] = t /\ taken' = taken
         \/ /\ taken'[s] = Append(t, Head(q)) /\ taken' = [taken EXCEPT ![s] = Append(t, Head(q))]
            /\ results # {} \/ faults' = faults - 1
    BY <1>1 DEF OInv, Kept
<1> HIDE DEF t, q, p, n, m
<1>4. Sorted(t, Tail(q), p) /\ Again(t, Tail(q)) = 0 /\ Tail(q) \in Seq(Nat)
  <2>1. Sorted(t, Tail(q), p) /\ Again(t, Tail(q)) = 0
      BY <1>1, <1>2, SortedTail
  <2> QED
      BY <2>1 DEF Sorted
<1>5. Counted(t, q, m)
    BY <1>2, CountedMore
<1>6. Counted(t, Tail(q), m)
    BY <1>2, <1>4, <1>5, CountedTail
<1>7. /\ Sorted(Append(t, Head(q)), q, p) /\ Counted(Append(t, Head(q)), q, n + 1)
      /\ Sorted(Append(t, Head(q)), Tail(q), p) /\ Counted(Append(t, Head(q)), Tail(q), n)
      /\ Append(t, Head(q)) \in Seq(Nat)
  <2>1. /\ Sorted(Append(t, Head(q)), q, p) /\ Counted(Append(t, Head(q)), q, n + 1)
        /\ Sorted(Append(t, Head(q)), Tail(q), p) /\ Counted(Append(t, Head(q)), Tail(q), n)
      BY <1>1, <1>2, SortedTaken
  <2> QED
      BY <2>1 DEF Sorted
<1>8. Counted(Append(t, Head(q)), Tail(q), m)
    BY <1>2, <1>7, CountedMore
<1>9. taken'[s] \in Seq(Nat) /\ queue'[s] \in Seq(Nat)
    BY <1>2, <1>3, <1>4, <1>7
<1>10. Kept'
  <2>1. taken' \in [Streams -> Seq(Nat)]
      BY <1>2, <1>3, <1>7 DEF OInv, Kept
  <2>2. queue' \in [Streams -> Seq(Nat)]
      BY <1>3, <1>4 DEF OInv, Kept
  <2>3. put' \in [Streams -> Nat] /\ opt' \in Options /\ opt'.faults \in Nat /\ faults' \in Nat /\ faults' <= opt'.faults
      BY <1>1 DEF OInv, Kept
  <2> QED
      BY <2>1, <2>2, <2>3 DEF Kept
<1>11. Sorted(taken'[s], queue'[s], put'[s]) /\ Counted(taken'[s], queue'[s], m)
  <2>1. CASE taken'[s] = t
      BY <1>2, <1>3, <1>4, <1>5, <1>6, <2>1
  <2>2. CASE taken'[s] = Append(t, Head(q)) /\ queue'[s] = Tail(q)
      BY <1>3, <1>7, <1>8, <2>2
  <2>3. CASE taken'[s] = Append(t, Head(q)) /\ results = {} /\ faults' = faults - 1 /\ queue'[s] = q
      BY <1>2, <1>3, <1>7, <2>3
  <2> QED
      BY <1>3, <2>1, <2>2, <2>3
<1> QED
    BY <1>1, <1>3, <1>10, <1>11, OneStream DEF m

\* The first of the queue leaves it unpushed.
LEMMA DropSorted ==
    ASSUME OInv, NEW s \in Streams, queue[s] # << >>, queue' = [queue EXCEPT ![s] = Tail(@)],
           UNCHANGED <<opt, taken, put, faults>>
    PROVE  OInv'
<1>1. /\ taken[s] \in Seq(Nat) /\ Sorted(taken[s], queue[s], put[s])
      /\ Counted(taken[s], queue[s], opt.faults - faults)
    BY DEF OInv, Kept
<1>2. Sorted(taken[s], Tail(queue[s]), put[s]) /\ Again(taken[s], Tail(queue[s])) = 0
    BY <1>1, SortedTail
<1>3. Counted(taken[s], Tail(queue[s]), opt.faults - faults)
    BY <1>1, <1>2, CountedTail
<1>4. queue' \in [Streams -> Seq(Nat)] /\ queue'[s] = Tail(queue[s])
    BY <1>2 DEF OInv, Kept, Sorted
<1>5. Kept' /\ \A r \in Streams : r # s => queue'[r] = queue[r]
    BY <1>4 DEF OInv, Kept
<1>6. faults' <= faults
    BY DEF OInv, Kept
<1> QED
    BY <1>2, <1>3, <1>4, <1>5, <1>6, OneStream

LEMMA SenderSorted ==
    ASSUME OInv, NEW s \in Senders, Sender(s)
    PROVE  OInv'
<1> USE DEF clientVars, client, stages, threads
<1>1. s \in Streams
    BY DEF Senders
<1>2. CASE PushContinues(s)
    BY <1>1, <1>2, PushSorted DEF PushContinues
<1>3. CASE Pushed(s)
    BY <1>1, <1>3, PushSorted DEF Pushed
<1>4. CASE LoopEnds(s)
  <2>1. UNCHANGED <<opt, taken, put, faults>>
      BY <1>4 DEF LoopEnds
  <2>2. CASE queue' = queue
      BY <2>1, <2>2 DEF OInv, Kept
  <2>3. CASE queue' # queue
      BY <1>1, <1>4, <2>1, <2>3, DropSorted DEF LoopEnds
  <2> QED
      BY <2>2, <2>3
<1>5. CASE Purge(s)
  <2>1. UNCHANGED <<opt, taken, put, faults>>
      BY <1>5 DEF Purge
  <2>2. CASE queue' = queue
      BY <2>1, <2>2 DEF OInv, Kept
  <2>3. CASE queue' # queue
      BY <1>1, <1>5, <2>1, <2>3, DropSorted DEF Purge
  <2> QED
      BY <2>2, <2>3
<1> QED
    BY <1>2, <1>3, <1>4, <1>5 DEF Sender

LEMMA PutSorted ==
    ASSUME OInv, NEW s \in Senders, Put(s)
    PROVE  OInv'
<1>1. /\ s \in Streams /\ UNCHANGED <<opt, taken, faults>>
      /\ put' = [put EXCEPT ![s] = @ + 1] /\ queue' = [queue EXCEPT ![s] = Append(@, put[s] + 1)]
    BY DEF Put, Moves, Senders, client
<1>2. /\ put[s] \in Nat /\ Sorted(taken[s], queue[s], put[s])
      /\ Counted(taken[s], queue[s], opt.faults - faults)
    BY <1>1 DEF OInv, Kept
<1>3. /\ Sorted(taken[s], Append(queue[s], put[s] + 1), put[s] + 1)
      /\ Counted(taken[s], Append(queue[s], put[s] + 1), opt.faults - faults)
    BY <1>2, SortedPut
<1>4. put'[s] = put[s] + 1 /\ queue'[s] = Append(queue[s], put[s] + 1)
    BY <1>1 DEF OInv, Kept
<1>5. put' \in [Streams -> Nat] /\ queue' \in [Streams -> Seq(Nat)]
    BY <1>1, <1>2, <1>3 DEF OInv, Kept, Sorted
<1>6. /\ Kept' /\ faults' <= faults
      /\ \A r \in Streams : r # s => queue'[r] = queue[r] /\ put'[r] = put[r]
    BY <1>1, <1>5 DEF OInv, Kept
<1> QED
    BY <1>1, <1>3, <1>4, <1>6, OneStream

LEMMA NextSorted ==
    ASSUME OInv, [Next]_vars
    PROVE  OInv'
<1>1. CASE Interrupt
    BY <1>1 DEF Interrupt, client, stages, threads, OInv, Kept
<1>2. CASE Reported
  <2>1. ASSUME NEW results, Report(results)
        PROVE  UNCHANGED <<opt, taken, queue, put>> /\ faults' \in Nat /\ faults' <= faults
    <3>1. "status" \notin Streams
        BY DEF Streams
    <3> QED
        BY <2>1, <3>1, ClientLeaves, ClientFaults DEF Report, OInv, Kept
  <2>2. UNCHANGED <<opt, taken, queue, put>> /\ faults' \in Nat /\ faults' <= faults
      BY <1>2, <2>1 DEF Reported
  <2>3. Kept'
      BY <2>2 DEF OInv, Kept
  <2>4. "data" \in Streams
      BY DEF Streams
  <2>5. Sorted(taken["data"], queue["data"], put["data"]) /\ opt.faults - faults' \in Nat
        /\ opt.faults - faults <= opt.faults - faults' /\ taken["data"] \in Seq(Nat)
        /\ Counted(taken["data"], queue["data"], opt.faults - faults)
      BY <2>2, <2>4 DEF OInv, Kept
  <2>6. Counted(taken["data"], queue["data"], opt.faults - faults')
      BY <2>5, CountedMore
  <2> QED
      BY <2>2, <2>3, <2>4, <2>5, <2>6, OneStream
<1>3. CASE UNCHANGED vars
    BY <1>3 DEF vars, clientVars, client, stages, threads, OInv, Kept
<1> QED
    BY <1>1, <1>2, <1>3, MainSorted, PutSorted, SenderSorted DEF Next, Main

LEMMA InitSorted ==
    ASSUME Init
    PROVE  OInv
<1>1. opt \in Options /\ opt.faults \in Nat
    BY UploaderAssumption DEF Init, UploaderAssumption
<1>2. << >> \in Seq(Nat) /\ Sorted(<< >>, << >>, 0) /\ \A n \in Nat : Counted(<< >>, << >>, n)
    BY SortedStart, EmptySeq
<1>3. opt.faults - faults \in Nat
    BY <1>1 DEF Init, ClientInit
<1> QED
    BY <1>1, <1>2, <1>3 DEF Init, ClientInit, OInv, Kept, Senders

\* What the service took and what the queues hold are in order.
THEOREM StreamsSorted == Spec => []OInv
<1>1. Init => OInv
    BY InitSorted
<1>2. OInv /\ [Next]_vars => OInv'
    BY NextSorted
<1> QED
    BY <1>1, <1>2, PTL DEF Spec

\* Whatever is answered, lost and repeated, the service gets each stream in the
\* order in which its items were put, and an item twice only after a fault.
THEOREM StreamsInOrder == Spec => []PushedInOrder
<1>1. OInv => PushedInOrder
  <2> SUFFICES ASSUME OInv, NEW s \in Streams
               PROVE  /\ \A i, j \in DOMAIN taken[s] : i < j => taken[s][i] <= taken[s][j]
                      /\ Len(taken[s]) <= Cardinality(ToSet(taken[s])) + opt.faults - faults
      BY DEF PushedInOrder
  <2>1. /\ taken[s] \in Seq(Nat) /\ opt.faults \in Nat /\ faults \in Nat
        /\ Sorted(taken[s], queue[s], put[s]) /\ Counted(taken[s], queue[s], opt.faults - faults)
      BY DEF OInv, Kept
  <2>2. DOMAIN taken[s] = 1 .. Len(taken[s]) /\ Len(taken[s]) \in Nat /\ Cardinality(ToSet(taken[s])) \in Nat
      BY <2>1, LenProperties, FS_CardinalityType DEF Counted
  <2>3. Again(taken[s], queue[s]) \in {0, 1}
      BY DEF Again
  <2>4. Len(taken[s]) + Again(taken[s], queue[s]) <= Cardinality(ToSet(taken[s])) + (opt.faults - faults)
      BY <2>1 DEF Counted
  <2>5. Len(taken[s]) <= Cardinality(ToSet(taken[s])) + opt.faults - faults
      BY <2>1, <2>2, <2>3, <2>4
  <2> QED
      BY <2>1, <2>2, <2>5 DEF Sorted
<1> QED
    BY <1>1, StreamsSorted, PTL

-----------------------------------------------------------------------------
(***************************************************************************)
(* The end of a run                                                        *)
(***************************************************************************)

CallsOK == call \in [Threads -> [api : Nat \ {0}, network : Nat \ {0}, maintenance : Nat \ {0}]]

-----------------------------------------------------------------------------
(***************************************************************************)
(* Calls that succeed were served                                          *)
(***************************************************************************)

LEMMA ClientCounts ==
    ASSUME CallsOK, NEW t \in Threads, NEW op, NEW item, NEW results, Client(t, op, item, results)
    PROVE  CallsOK'
<1> DEFINE Counts == [api : Nat \ {0}, network : Nat \ {0}, maintenance : Nat \ {0}]
<1>1. call[t] \in Counts /\ NoCall \in Counts
    BY DEF CallsOK, NoCall
<1>2. [NoCall EXCEPT !.api = call[t].api + 1] \in Counts
    BY <1>1
<1>3. [call EXCEPT ![t].network = @ + 1] \in [Threads -> Counts]
    BY <1>1 DEF CallsOK
<1>4. [call EXCEPT ![t].maintenance = Paused(op, @)] \in [Threads -> Counts]
    BY <1>1 DEF CallsOK, Paused
<1>5. \A c \in Counts : [call EXCEPT ![t] = c] \in [Threads -> Counts]
    BY DEF CallsOK
<1> QED
    BY <1>1, <1>2, <1>3, <1>4, <1>5 DEF CallsOK, Client, GiveUp, Done, Rejected, Unavailable, Stopped, NetworkError,
       Maintenance, Return, AgainAfterApi

\* A call that ends well ends with a request that was served.
LEMMA EndsServed ==
    ASSUME CallsOK, NEW t \in Threads, NEW op, NEW item, NEW results, Client(t, op, item, results),
           results \subseteq {"ok"}, call'[t] = NoCall
    PROVE  Serve(op, item)
<1>1. call[t] \in [api : Nat \ {0}, network : Nat \ {0}, maintenance : Nat \ {0}] /\ t \in DOMAIN call
    BY DEF CallsOK
<1>2. [NoCall EXCEPT !.api = call[t].api + 1] # NoCall
  <2>1. [NoCall EXCEPT !.api = call[t].api + 1].api # NoCall.api
      BY <1>1 DEF NoCall
  <2> QED
      BY <2>1
<1>3. call' # [call EXCEPT ![t].network = @ + 1]
  <2>1. [call EXCEPT ![t].network = @ + 1][t].network # NoCall.network
      BY <1>1 DEF NoCall
  <2> QED
      BY <2>1
<1>4. call' # [call EXCEPT ![t].maintenance = Paused(op, @)]
  <2>1. [call EXCEPT ![t].maintenance = Paused(op, @)][t].maintenance # NoCall.maintenance
      BY <1>1 DEF NoCall, Paused
  <2> QED
      BY <2>1
<1>5. call' # [call EXCEPT ![t] = [NoCall EXCEPT !.api = call[t].api + 1]]
    BY <1>1, <1>2
<1> QED
    BY <1>3, <1>4, <1>5 DEF Client, GiveUp, Done, Rejected, Unavailable, Stopped, NetworkError, Maintenance, Return,
       AgainAfterApi

\* What the service does with the targets and with the jobs.
LEMMA ServeHeld ==
    ASSUME NEW op, NEW item, Serve(op, item)
    PROVE  /\ op = "unlock" => held' = held \ {item}
           /\ op \notin {"lock", "unlock"} => held' = held
<1>1. ASSUME op = "unlock"
      PROVE  held' = held \ {item}
    BY <1>1, Zenon DEF Serve
<1>2. ASSUME op \notin {"lock", "unlock"}
      PROVE  held' = held
    BY <1>2, Zenon DEF Serve
<1> QED
    BY <1>1, <1>2

LEMMA PushHeld ==
    ASSUME NEW t, NEW op, NEW item, NEW results, Client(t, op, item, results), op \notin {"lock", "unlock"}
    PROVE  held' = held
<1>1. CASE Serve(op, item)
    BY <1>1, ServeHeld
<1>2. CASE ~Serve(op, item)
    BY <1>2 DEF Client, GiveUp, Done, Rejected, Unavailable, Stopped, NetworkError, Maintenance, Idle
<1> QED
    BY <1>1, <1>2

LEMMA ClientHeld ==
    ASSUME NEW t, NEW op, NEW item, NEW results, Client(t, op, item, results)
    PROVE  /\ op # "lock" => held' \subseteq held
           /\ closed \subseteq closed'
<1>1. CASE Serve(op, item)
    BY <1>1, ServeHeld DEF Serve
<1>2. CASE ~Serve(op, item)
    BY <1>2 DEF Client, GiveUp, Done, Rejected, Unavailable, Stopped, NetworkError, Maintenance, Idle
<1> QED
    BY <1>1, <1>2

-----------------------------------------------------------------------------
(***************************************************************************)
(* A quiet run pushes everything                                           *)
(***************************************************************************)

\* The stages after post_process has put the sentinels.
Late ==
    \/ main \in {"join", "cause", "postConfs", "close", "cleanup", "joinThreads", "done"}
    \/ main \in {"job", "config"} /\ back \in {"post", "close"}
    \/ main = "unlock" /\ back = "cleanup"

\* The stages that ask for lp_job.
Asked == main \in {"job", "config"} => back \in {"prepare", "end", "post", "close"}

LEMMA Resumes ==
    /\ back = "prepare" => Resume = "locking"
    /\ back = "end" => Resume = "endJob"
    /\ back = "post" => Resume = "postConfs"
    /\ back = "close" => Resume = "close"
BY DEF Resume

\* Unless the plugin is disabled its senders run when the test does.
Begun == main \in {"startConfs", "run", "ending"} => disabled \/ \A s \in Streams : thread[s] # "idle"

Quiet == ~interrupted /\ failed \cap Streams = {}

\* What was put was taken, or is in the queue, where the sentinel comes last.
Fed(t, q, p) ==
    /\ ToSet(t) \cup (ToSet(q) \ {None}) = 1 .. p
    /\ \A i \in 1 .. Len(q) : q[i] = None => i = Len(q)

\* A sender that is through has left nothing.
Whole(s) ==
    /\ Fed(taken[s], queue[s], put[s])
    /\ None \in ToSet(queue[s]) => Late
    /\ thread[s] \in {"purge", "dead"} => queue[s] = << >> /\ Late
    /\ thread[s] = "idle" => put[s] = 0

QInv ==
    /\ CallsOK /\ Begun /\ Asked
    /\ finished => Late /\ Joined
    /\ Quiet => \A s \in Streams : Whole(s)

\* The stage that a cleanup action leads to.
LEMMA CleanupStage ==
    ASSUME Shape, Cleanup
    PROVE  /\ main' \in {"close", "unlock", "joinThreads", "job", "config", "done"}
           /\ main' \in {"job", "config"} => back' = "close"
           /\ main' = "unlock" => back' = "cleanup"
           /\ main' = "done" => cleanups' = << >>
<1>1. CASE cleanups = << >>
    BY <1>1 DEF Cleanup, Now
<1>2. CASE cleanups # << >>
  <2>1. Len(cleanups) \in Nat \ {0}
      BY <1>2, EmptySeq DEF Shape
  <2>2. Last(cleanups) \in {"close", "unlock", "join"}
      BY <2>1, ElementOfSeq DEF Shape, Last
  <2> QED
      BY <1>2, <2>2 DEF Cleanup, Now
<1> QED
    BY <1>1, <1>2

\* What a stage does to the threads, the events and the history.
LEMMA MainMoves ==
    ASSUME Shape, MainDoes
    PROVE  /\ interrupted => interrupted'
           /\ failed \subseteq failed'
           /\ Late => Late'
           /\ finished' = finished \/ (main = "join" /\ Joined)
           /\ thread' = thread \/ (main = "ready" /\ thread' = [t \in DOMAIN thread |-> "loop"])
           /\ queue' = queue \/ (main = "post" /\ Late' /\ queue' = [s \in Senders |-> Append(queue[s], None)])
<1> USE DEF stages, threads, client, targets, job, codes
<1>1. ASSUME NEW results, Calling(results)
      PROVE  UNCHANGED <<interrupted, thread, queue>>
    BY <1>1 DEF Calling
<1>2. (interrupted => interrupted') /\ failed \subseteq failed'
    BY <1>1 DEF MainDoes, CallContinues, JobCreated, JobReady, Prepare, Locking, TargetLocked, Locked,
       PrepareFails, TaskClosed, Prepared, Start, NotStarted, StartFails, TestEnds, EndTest, EndSkipped, EndJob,
       EndConfs, Unlocked, AllUnlocked, EndFails, PostProcess, Finished, Cleanup, ThreadsJoined, Succeeds, Fails,
       Moves
<1>3. Late => Late'
  <2>1. CASE Cleanup
      BY <2>1, CleanupStage DEF Late
  <2>2. CASE ~Cleanup
      BY <2>2, Resumes DEF MainDoes, CallContinues, JobCreated, JobReady, Prepare, Locking, TargetLocked, Locked,
         PrepareFails, TaskClosed, Prepared, Start, NotStarted, StartFails, TestEnds, EndTest, EndSkipped, EndJob,
         EndConfs, Unlocked, AllUnlocked, EndFails, PostProcess, Finished, ThreadsJoined, Succeeds, Fails,
         Moves, NewLpJob, Now, Late
  <2> QED
      BY <2>1, <2>2
<1>4. finished' = finished \/ (main = "join" /\ Joined)
    BY DEF MainDoes, CallContinues, JobCreated, JobReady, Prepare, Locking, TargetLocked, Locked,
       PrepareFails, TaskClosed, Prepared, Start, NotStarted, StartFails, TestEnds, EndTest, EndSkipped, EndJob,
       EndConfs, Unlocked, AllUnlocked, EndFails, PostProcess, Finished, Cleanup, ThreadsJoined, Moves
<1>5. thread' = thread \/ (main = "ready" /\ thread' = [t \in DOMAIN thread |-> "loop"])
    BY <1>1 DEF MainDoes, CallContinues, JobCreated, JobReady, Prepare, Locking, TargetLocked, Locked,
       PrepareFails, TaskClosed, Prepared, Start, NotStarted, StartFails, TestEnds, EndTest, EndSkipped, EndJob,
       EndConfs, Unlocked, AllUnlocked, EndFails, PostProcess, Finished, Cleanup, ThreadsJoined, Succeeds, Fails,
       Moves
<1>6. queue' = queue \/ (main = "post" /\ Late' /\ queue' = [s \in Senders |-> Append(queue[s], None)])
    BY <1>1 DEF MainDoes, CallContinues, JobCreated, JobReady, Prepare, Locking, TargetLocked, Locked,
       PrepareFails, TaskClosed, Prepared, Start, NotStarted, StartFails, TestEnds, EndTest, EndSkipped, EndJob,
       EndConfs, Unlocked, AllUnlocked, EndFails, PostProcess, Finished, Cleanup, ThreadsJoined, Succeeds, Fails,
       Moves, Now, Late
<1> QED
    BY <1>2, <1>3, <1>4, <1>5, <1>6

LEMMA MainBegun ==
    ASSUME Shape, Begun, Asked, MainDoes
    PROVE  Begun'
<1> USE DEF stages, threads, client, targets, job, codes
<1>1. ASSUME NEW results, Calling(results)
      PROVE  UNCHANGED thread
    BY <1>1 DEF Calling
<1>2. CASE Start
    BY <1>2 DEF Start, Now, Begun, Shape, Senders
<1>3. CASE Prepared("startConfs", "run") \/ TestEnds \/ CallContinues
    BY <1>1, <1>3 DEF Prepared, Succeeds, TestEnds, CallContinues, Moves, Now, Begun
<1>4. CASE main' \notin {"startConfs", "run", "ending"}
    BY <1>4 DEF Begun
<1>5. CASE Cleanup
    BY <1>5, CleanupStage DEF Begun
<1>6. Start \/ Cleanup \/ Prepared("startConfs", "run") \/ TestEnds \/ CallContinues
      \/ main' \notin {"startConfs", "run", "ending"}
    BY Resumes DEF Asked, MainDoes, JobCreated, JobReady, Prepare, Locking, TargetLocked, Locked, ThreadsJoined,
       Succeeds, Fails, PrepareFails, TaskClosed, Prepared, NotStarted, StartFails, EndTest, EndSkipped, EndJob,
       EndConfs, Unlocked, AllUnlocked, EndFails, PostProcess, Finished, Moves, NewLpJob, Now
<1> QED
    BY <1>2, <1>3, <1>4, <1>5, <1>6

LEMMA MainAsked ==
    ASSUME Shape, Asked, MainDoes
    PROVE  Asked'
<1> USE DEF stages, threads, client, targets, job, codes
<1>1. CASE Cleanup
    BY <1>1, CleanupStage DEF Asked
<1>2. CASE ~Cleanup
    BY <1>2, Resumes DEF MainDoes, CallContinues, JobCreated, JobReady, Prepare, Locking, TargetLocked, Locked,
       PrepareFails, TaskClosed, Prepared, Start, NotStarted, StartFails, TestEnds, EndTest, EndSkipped, EndJob,
       EndConfs, Unlocked, AllUnlocked, EndFails, PostProcess, Finished, ThreadsJoined, Succeeds, Fails,
       Moves, NewLpJob, Now, Asked
<1> QED
    BY <1>1, <1>2

LEMMA MainCounts ==
    ASSUME CallsOK, MainDoes
    PROVE  CallsOK'
<1> USE DEF stages, threads, client, targets, job, codes
<1>1. "main" \in Threads
    BY UploaderAssumption DEF UploaderAssumption
<1>2. ASSUME NEW results, Calling(results)
      PROVE  CallsOK'
    BY <1>1, <1>2, ClientCounts DEF Calling
<1>3. (\E results : Calling(results)) \/ call' = call
    BY DEF MainDoes, CallContinues, JobCreated, JobReady, Prepare, Locking, TargetLocked, Locked,
       PrepareFails, TaskClosed, Prepared, Start, NotStarted, StartFails, TestEnds, EndTest, EndSkipped, EndJob,
       EndConfs, Unlocked, AllUnlocked, EndFails, PostProcess, Finished, Cleanup, ThreadsJoined, Succeeds, Fails,
       Moves
<1> QED
    BY <1>2, <1>3 DEF CallsOK

\* The elements of a queue and of what is left of it.
LEMMA TailToSet ==
    ASSUME NEW q \in Seq(Nat), q # << >>
    PROVE  /\ Head(q) \in Nat /\ Tail(q) \in Seq(Nat)
           /\ ToSet(q) = ToSet(Tail(q)) \cup {Head(q)}
<1> DEFINE a == Tail(q)
<1>1. /\ a \in Seq(Nat) /\ Len(a) = Len(q) - 1 /\ Len(q) \in Nat \ {0} /\ Len(a) \in Nat
      /\ \A i \in 1 .. Len(a) : a[i] = q[i + 1]
      /\ Head(q) = q[1] /\ Head(q) \in Nat
    BY HeadTailProperties, EmptySeq, LenProperties
<1>2. DOMAIN q = 1 .. Len(q) /\ DOMAIN a = 1 .. Len(a)
    BY <1>1, LenProperties
<1> HIDE DEF a
<1>3. \A i \in 1 .. Len(q) : i = 1 \/ (i - 1 \in 1 .. Len(a) /\ a[i - 1] = q[i])
    BY <1>1
<1>4. \A i \in 1 .. Len(a) : i + 1 \in 1 .. Len(q) /\ a[i] = q[i + 1]
    BY <1>1
<1>5. 1 \in 1 .. Len(q)
    BY <1>1
<1>6. ToSet(q) = ToSet(a) \cup {Head(q)}
  <2>1. ASSUME NEW i \in 1 .. Len(q)
        PROVE  q[i] \in ToSet(a) \cup {Head(q)}
      BY <1>1, <1>2, <1>3 DEF ToSet
  <2>2. ASSUME NEW i \in 1 .. Len(a)
        PROVE  a[i] \in ToSet(q)
      BY <1>2, <1>4 DEF ToSet
  <2>3. Head(q) \in ToSet(q)
      BY <1>1, <1>2, <1>5 DEF ToSet
  <2> QED
      BY <1>2, <2>1, <2>2, <2>3 DEF ToSet
<1> QED
    BY <1>1, <1>6 DEF a

LEMMA FedPut ==
    ASSUME NEW t, NEW q \in Seq(Nat), NEW p \in Nat, Fed(t, q, p), None \notin ToSet(q)
    PROVE  /\ Fed(t, Append(q, None), p)
           /\ Fed(t, Append(q, p + 1), p + 1) /\ None \notin ToSet(Append(q, p + 1))
<1>1. ASSUME NEW x \in Nat
      PROVE  /\ Len(Append(q, x)) = Len(q) + 1 /\ Len(q) \in Nat
             /\ \A i \in 1 .. Len(q) : Append(q, x)[i] = q[i]
             /\ ToSet(Append(q, x)) = ToSet(q) \cup {x}
    BY AppendProperties, LenProperties, AppendToSet
<1>2. DOMAIN q = 1 .. Len(q)
    BY LenProperties
<1>3. \A i \in 1 .. Len(q) : q[i] # None
    BY <1>2 DEF ToSet
<1>4. ASSUME NEW x \in Nat
      PROVE  \A i \in 1 .. Len(Append(q, x)) : Append(q, x)[i] = None => i = Len(Append(q, x))
    BY <1>1, <1>3
<1>5. None \in Nat /\ p + 1 \in Nat /\ p + 1 # None /\ 1 .. p + 1 = (1 .. p) \cup {p + 1}
    BY DEF None
<1>6. ToSet(Append(q, None)) = ToSet(q) \cup {None} /\ ToSet(Append(q, p + 1)) = ToSet(q) \cup {p + 1}
    BY <1>1, <1>5
<1> QED
    BY <1>4, <1>5, <1>6 DEF Fed

LEMMA FedTaken ==
    ASSUME NEW t \in Seq(Nat), NEW q \in Seq(Nat), NEW p, Fed(t, q, p), q # << >>
    PROVE  /\ Head(q) # None => /\ Fed(Append(t, Head(q)), q, p)
                                /\ Fed(Append(t, Head(q)), Tail(q), p)
           /\ ToSet(Tail(q)) \subseteq ToSet(q)
           /\ Head(q) = None => Tail(q) = << >> /\ None \in ToSet(q) /\ Fed(t, Tail(q), p)
<1>1. /\ Head(q) \in Nat /\ Tail(q) \in Seq(Nat)
      /\ ToSet(q) = ToSet(Tail(q)) \cup {Head(q)}
      /\ ToSet(Append(t, Head(q))) = ToSet(t) \cup {Head(q)}
    BY TailToSet, AppendToSet
<1>2. /\ Len(Tail(q)) = Len(q) - 1 /\ Len(q) \in Nat \ {0} /\ Head(q) = q[1]
      /\ \A i \in 1 .. Len(Tail(q)) : Tail(q)[i] = q[i + 1]
    BY HeadTailProperties, EmptySeq, LenProperties
<1>0. \A i \in 1 .. Len(q) : q[i] = None => i = Len(q)
    BY DEF Fed
<1>3. \A i \in 1 .. Len(Tail(q)) : Tail(q)[i] = None => i = Len(Tail(q))
  <2> SUFFICES ASSUME NEW i \in 1 .. Len(Tail(q)), Tail(q)[i] = None
               PROVE  i = Len(Tail(q))
      OBVIOUS
  <2>1. i + 1 \in 1 .. Len(q) /\ q[i + 1] = None
      BY <1>2
  <2>2. i + 1 = Len(q)
      BY <1>0, <2>1
  <2>3. i \in Int /\ Len(q) \in Int /\ Len(Tail(q)) = Len(q) - 1
      BY <1>2
  <2> QED
      BY ONLY <2>2, <2>3
<1>4. ASSUME Head(q) = None
      PROVE  Tail(q) = << >>
  <2>1. Len(q) = 1
    <3>1. 1 \in 1 .. Len(q) /\ q[1] = None
        BY <1>2, <1>4
    <3> QED
        BY <1>0, <3>1
  <2>2. Len(Tail(q)) = 0
      BY <1>2, <2>1
  <2> QED
      BY <1>1, <2>2, EmptySeq
<1>5. ToSet(<< >>) = {}
    BY DEF ToSet
<1>6. ASSUME Head(q) # None
      PROVE  Fed(Append(t, Head(q)), q, p) /\ Fed(Append(t, Head(q)), Tail(q), p)
    BY <1>1, <1>3, <1>6 DEF Fed
<1>7. ASSUME Head(q) = None
      PROVE  Fed(t, Tail(q), p)
    BY <1>1, <1>3, <1>4, <1>5, <1>7 DEF Fed
<1> QED
    BY <1>1, <1>4, <1>6, <1>7

LEMMA MainWhole ==
    ASSUME Kept, Shape, QInv, MainDoes
    PROVE  QInv'
<1>1. CallsOK' /\ Begun' /\ Asked'
    BY MainCounts, MainBegun, MainAsked DEF QInv
<1>2. /\ interrupted => interrupted'
      /\ failed \subseteq failed'
      /\ Late => Late'
      /\ finished' = finished \/ (main = "join" /\ Joined)
      /\ thread' = thread \/ (main = "ready" /\ thread' = [t \in DOMAIN thread |-> "loop"])
      /\ queue' = queue \/ (main = "post" /\ Late' /\ queue' = [s \in Senders |-> Append(queue[s], None)])
    BY MainMoves
<1>3. UNCHANGED <<taken, put>>
    BY MainPuts DEF Kept
<1>4. ASSUME finished'
      PROVE  Late' /\ Joined'
  <2>1. Late /\ Joined
      BY <1>2, <1>4 DEF QInv, Late
  <2> QED
      BY <1>2, <2>1 DEF Late, Joined
<1>5. ASSUME Quiet', NEW s \in Streams
      PROVE  Whole(s)'
  <2>1. Quiet /\ Whole(s)
      BY <1>2, <1>5 DEF Quiet, QInv
  <2>2. s \in DOMAIN thread /\ taken[s] \in Seq(Nat) /\ queue[s] \in Seq(Nat) /\ put[s] \in Nat
      BY DEF Shape, Kept, Senders
  <2>3. CASE queue' = queue
      BY <1>2, <1>3, <2>1, <2>2, <2>3 DEF Whole
  <2>4. CASE main = "post" /\ Late' /\ queue' = [r \in Senders |-> Append(queue[r], None)]
    <3>1. ~Late /\ thread' = thread
        BY <1>2, <2>4 DEF Late
    <3>2. None \notin ToSet(queue[s]) /\ thread[s] \notin {"purge", "dead"}
        BY <2>1, <3>1 DEF Whole
    <3>3. Fed(taken[s], Append(queue[s], None), put[s])
        BY <2>1, <2>2, <3>2, FedPut DEF Whole
    <3>4. queue'[s] = Append(queue[s], None)
        BY <2>4 DEF Senders
    <3> QED
        BY <1>3, <2>1, <2>4, <3>1, <3>2, <3>3, <3>4 DEF Whole
  <2> QED
      BY <1>2, <2>3, <2>4
<1> QED
    BY <1>1, <1>4, <1>5 DEF QInv

LEMMA PutWhole ==
    ASSUME Kept, Shape, QInv, NEW s \in Senders, Put(s)
    PROVE  QInv'
<1>1. /\ s \in Streams /\ UNCHANGED <<taken, thread, call, main, back, interrupted, failed, finished, disabled>>
      /\ put' = [put EXCEPT ![s] = @ + 1] /\ queue' = [queue EXCEPT ![s] = Append(@, put[s] + 1)]
      /\ main \in {"run", "ending"} /\ ~disabled
    BY DEF Put, Moves, Senders, client, job, codes
<1>2. ~Late /\ Late' = Late
    BY <1>1 DEF Late
<1>3. CallsOK' /\ Begun' /\ Asked' /\ ~finished'
    BY <1>1, <1>2 DEF QInv, CallsOK, Begun, Asked
<1>4. ASSUME Quiet', NEW r \in Streams
      PROVE  Whole(r)'
  <2>1. Whole(r)
      BY <1>1, <1>4 DEF Quiet, QInv
  <2>2. CASE r # s
      BY <1>1, <1>2, <2>1, <2>2 DEF Whole, Kept
  <2>3. CASE r = s
    <3>1. queue[s] \in Seq(Nat) /\ put[s] \in Nat /\ None \notin ToSet(queue[s]) /\ Fed(taken[s], queue[s], put[s])
        BY <1>1, <1>2, <2>1, <2>3 DEF Whole, Kept
    <3>2. /\ Fed(taken[s], Append(queue[s], put[s] + 1), put[s] + 1)
          /\ None \notin ToSet(Append(queue[s], put[s] + 1))
        BY <3>1, FedPut
    <3>3. thread[s] \notin {"idle", "purge", "dead"}
        BY <1>1, <1>2, <2>1, <2>3 DEF QInv, Begun, Whole
    <3>4. put'[s] = put[s] + 1 /\ queue'[s] = Append(queue[s], put[s] + 1)
        BY <1>1 DEF Kept
    <3> QED
        BY <1>1, <2>3, <3>2, <3>3, <3>4 DEF Whole
  <2> QED
      BY <2>2, <2>3
<1> QED
    BY <1>3, <1>4 DEF QInv

\* What every step of a sender leaves alone.
LEMMA SenderQuiet ==
    ASSUME Kept, Shape, QInv, NEW s \in Senders, Sender(s)
    PROVE  /\ CallsOK' /\ Begun' /\ Asked' /\ ~finished' /\ Late' = Late
           /\ UNCHANGED put /\ s \in Streams
           /\ Quiet' => Quiet
           /\ \A r \in Streams : r # s => taken'[r] = taken[r] /\ queue'[r] = queue[r] /\ thread'[r] = thread[r]
<1> USE DEF clientVars, client, threads
<1>1. s \in Streams /\ s \in Threads
    BY UploaderAssumption DEF Senders, UploaderAssumption
<1>2. /\ UNCHANGED <<main, back, disabled, finished, put>> /\ Running
      /\ \E state \in {"loop", "purge", "dead"} : thread' = [thread EXCEPT ![s] = state]
    BY SenderLeaves DEF stages, job, codes
<1>3. ~finished' /\ Late' = Late /\ Asked'
    BY <1>2 DEF QInv, Joined, Running, Late, Asked
<1>4. Begun' /\ \A r \in Streams : r # s => thread'[r] = thread[r]
    BY <1>1, <1>2 DEF QInv, Begun, Shape, Senders
<1>5. ASSUME NEW results, Push(s, results)
      PROVE  CallsOK' /\ \A r \in Streams : r # s => taken'[r] = taken[r]
  <2>1. Client(s, s, Head(queue[s]), results)
      BY <1>5 DEF Push
  <2>2. CallsOK'
      BY <1>1, <2>1, ClientCounts DEF QInv
  <2> QED
      BY <1>1, <1>5, <2>2, PushTakes DEF Kept
<1>6. CallsOK' /\ \A r \in Streams : r # s => taken'[r] = taken[r]
    BY <1>5 DEF Sender, PushContinues, Pushed, LoopEnds, Purge, QInv, CallsOK
<1>7. \A r \in Streams : r # s => queue'[r] = queue[r]
    BY DEF Sender, PushContinues, Pushed, LoopEnds, Purge, Kept
<1>8. Quiet' => Quiet
    BY DEF Sender, PushContinues, Pushed, LoopEnds, Purge, Quiet
<1> QED
    BY <1>1, <1>2, <1>3, <1>4, <1>6, <1>7, <1>8

LEMMA SenderWhole ==
    ASSUME Kept, Shape, QInv, NEW s \in Senders, Sender(s)
    PROVE  QInv'
<1> USE DEF clientVars, client, threads
<1>1. /\ CallsOK' /\ Begun' /\ Asked' /\ ~finished' /\ Late' = Late
      /\ UNCHANGED put /\ s \in Streams
      /\ Quiet' => Quiet
      /\ \A r \in Streams : r # s => taken'[r] = taken[r] /\ queue'[r] = queue[r] /\ thread'[r] = thread[r]
    BY SenderQuiet
<1>2. ASSUME Quiet'
      PROVE  Whole(s)'
  <2>1. /\ Whole(s) /\ Quiet /\ taken[s] \in Seq(Nat) /\ queue[s] \in Seq(Nat)
        /\ Fed(taken[s], queue[s], put[s])
        /\ s \in DOMAIN taken /\ s \in DOMAIN queue /\ s \in DOMAIN thread
      BY <1>1, <1>2 DEF QInv, Kept, Shape, Whole
  <2>2. CASE PushContinues(s)
    <3>1. /\ queue[s] # << >> /\ Head(queue[s]) # None
          /\ taken'[s] = taken[s] \/ taken'[s] = Append(taken[s], Head(queue[s]))
        BY <1>1, <2>1, <2>2, PushTakes DEF PushContinues
    <3>2. Fed(taken'[s], queue[s], put[s])
        BY <2>1, <3>1, FedTaken
    <3> QED
        BY <1>1, <2>1, <2>2, <3>2 DEF PushContinues, Whole
  <2>3. CASE Pushed(s)
    <3>1. Push(s, {"ok"}) /\ call'[s] = NoCall /\ thread' = thread /\ queue' = [queue EXCEPT ![s] = Tail(@)]
        BY <1>1, <1>2, <2>3 DEF Pushed, Quiet
    <3>2. Serve(s, Head(queue[s]))
      <4>1. s \in Threads
          BY <1>1, UploaderAssumption DEF UploaderAssumption
      <4>2. Client(s, s, Head(queue[s]), {"ok"}) /\ CallsOK
          BY <3>1 DEF Push, QInv
      <4> QED
          BY <3>1, <4>1, <4>2, EndsServed
    <3>3. taken'[s] = Append(taken[s], Head(queue[s]))
        BY <1>1, <2>1, <3>2 DEF Serve
    <3>4. queue[s] # << >> /\ Head(queue[s]) # None /\ thread[s] = "loop"
        BY <3>1 DEF Push
    <3>5. Fed(taken'[s], Tail(queue[s]), put[s]) /\ ToSet(Tail(queue[s])) \subseteq ToSet(queue[s])
        BY <2>1, <3>3, <3>4, FedTaken
    <3> QED
        BY <1>1, <2>1, <3>1, <3>4, <3>5 DEF Whole
  <2>4. CASE LoopEnds(s)
    <3>1. /\ queue[s] # << >> /\ Head(queue[s]) = None /\ queue' = [queue EXCEPT ![s] = Tail(@)]
          /\ thread' = [thread EXCEPT ![s] = "purge"] /\ taken' = taken
        BY <2>1, <2>4 DEF LoopEnds, Thread, Quiet
    <3>2. Tail(queue[s]) = << >> /\ None \in ToSet(queue[s]) /\ Fed(taken[s], Tail(queue[s]), put[s])
        BY <2>1, <3>1, FedTaken
    <3>3. Late /\ queue'[s] = << >> /\ thread'[s] = "purge"
        BY <2>1, <3>1, <3>2 DEF Whole
    <3> QED
        BY <1>1, <3>1, <3>2, <3>3 DEF Whole
  <2>5. CASE Purge(s)
    <3>1. queue[s] = << >> /\ Late
        BY <2>1, <2>5 DEF Purge, Whole
    <3>2. queue' = queue /\ taken' = taken /\ thread' = [thread EXCEPT ![s] = "dead"]
        BY <2>5, <3>1 DEF Purge, Thread
    <3> QED
        BY <1>1, <2>1, <3>1, <3>2 DEF Whole
  <2> QED
      BY <2>2, <2>3, <2>4, <2>5 DEF Sender
<1>3. ASSUME Quiet', NEW r \in Streams
      PROVE  Whole(r)'
  <2>1. CASE r = s
      BY <1>2, <1>3, <2>1
  <2>2. CASE r # s
      BY <1>1, <1>3, <2>2 DEF QInv, Whole
  <2> QED
      BY <2>1, <2>2
<1> QED
    BY <1>1, <1>3 DEF QInv

LEMMA NextWhole ==
    ASSUME Kept, Shape, QInv, [Next]_vars
    PROVE  QInv'
<1>1. CASE Interrupt
    BY <1>1 DEF Interrupt, client, stages, threads, job, codes, QInv, CallsOK, Begun, Asked, Late, Joined, Quiet, Whole
<1>2. CASE Reported
  <2>1. ASSUME NEW results, Report(results)
        PROVE  CallsOK' /\ UNCHANGED <<queue, interrupted, failed, put, finished>>
    <3>1. "status" \in Threads
        BY UploaderAssumption DEF UploaderAssumption
    <3> QED
        BY <2>1, <3>1, ClientCounts DEF Report, QInv
  <2>2. CallsOK' /\ UNCHANGED <<queue, interrupted, failed, put, finished>>
      BY <1>2, <2>1 DEF Reported
  <2>3. /\ UNCHANGED <<taken, main, back, disabled>>
        /\ \E state \in {"loop", "dead"} : thread' = [thread EXCEPT !["status"] = state]
      BY <1>2, ReportedLeaves DEF job
  <2>4. \A s \in Streams : thread'[s] = thread[s]
      BY <2>3 DEF Streams
  <2> QED
      BY <2>2, <2>3, <2>4 DEF QInv, Begun, Asked, Late, Joined, Quiet, Whole, Senders
<1>3. CASE UNCHANGED vars
    BY <1>3 DEF vars, clientVars, client, stages, threads, job, codes, QInv, CallsOK, Begun, Asked, Late, Joined,
       Quiet, Whole
<1> QED
    BY <1>1, <1>2, <1>3, MainWhole, PutWhole, SenderWhole DEF Next, Main

LEMMA InitWhole ==
    ASSUME Init
    PROVE  QInv
<1>1. ToSet(<< >>) = {} /\ Len(<< >>) = 0
    BY EmptySeq DEF ToSet
<1>2. 1 .. 0 = {}
    OBVIOUS
<1>3. Fed(<< >>, << >>, 0)
    BY <1>1, <1>2 DEF Fed
<1>4. CallsOK
    BY DEF Init, ClientInit, CallsOK, NoCall
<1> QED
    BY <1>1, <1>3, <1>4 DEF Init, QInv, ClientInit, Begun, Asked, Whole, Senders

\* In every state of a run without a failure the items that were put are taken
\* or in the queues.
THEOREM QuietRuns == Spec => []QInv
<1>1. Init => QInv
    BY InitWhole
<1>2. Kept /\ Shape /\ QInv /\ [Next]_vars => QInv'
    BY NextWhole
<1>3. OInv /\ CInv => Kept /\ Shape
    BY DEF OInv, CInv
<1> QED
    BY <1>1, <1>2, <1>3, StreamsSorted, CleanupOrder, PTL DEF Spec

\* When post_process has joined the senders, and nothing told them to stop and
\* no push failed, the service has all the seconds and all the monitoring data.
THEOREM QuietRunIsWhole == Spec => []QuietRunUploadsAll
<1>1. QInv => QuietRunUploadsAll
  <2> SUFFICES ASSUME QInv, finished, Quiet, NEW s \in Streams
               PROVE  ToSet(taken[s]) = 1 .. put[s]
      BY DEF QuietRunUploadsAll, Quiet
  <2>1. Whole(s) /\ thread[s] \in {"idle", "dead"}
      BY DEF QInv, Joined, Senders
  <2>2. ToSet(<< >>) = {} /\ 1 .. 0 = {}
      BY DEF ToSet
  <2>3. CASE thread[s] = "idle"
      BY <2>1, <2>2, <2>3 DEF Whole, Fed
  <2>4. CASE thread[s] = "dead"
      BY <2>1, <2>2, <2>4 DEF Whole, Fed
  <2> QED
      BY <2>1, <2>3, <2>4
<1> QED
    BY <1>1, QuietRuns, PTL

-----------------------------------------------------------------------------
(***************************************************************************)
(* Targets are unlocked                                                    *)
(***************************************************************************)

\* What is locked has an action that unlocks it, or was unlocked by it target
\* by target, or is not held any more.
LInv ==
    /\ left \in Nat \ {0} /\ locked \in Seq({Targets[i] : i \in Nat})
    /\ main = "lock" => "unlock" \in ToSet(cleanups)
    /\ main = "done" => cleanups = << >>
    /\ "unlock" \notin failed =>
          \/ "unlock" \in ToSet(cleanups)
          \/ ToSet(locked) \cap held = {}
          \/ main = "unlock" /\ back = "cleanup" /\ \A i \in 1 .. Len(locked) : i < left => locked[i] \notin held

\* The actions that are left when the last was taken.
LEMMA FrontToSet ==
    ASSUME Shape, cleanups # << >>
    PROVE  /\ ToSet(cleanups) = ToSet(Front(cleanups)) \cup {Last(cleanups)}
           /\ Last(cleanups) \in {"close", "unlock", "join"}
<1> DEFINE Actions == {"close", "unlock", "join"}
           f == Front(cleanups)
<1>1. cleanups \in Seq(Actions) /\ Len(cleanups) \in Nat \ {0}
    BY EmptySeq DEF Shape
<1>2. f = SubSeq(cleanups, 1, Len(cleanups) - 1)
    BY DEF Front
<1>3. f \in Seq(Actions) /\ Len(f) = Len(cleanups) - 1 /\ \A i \in 1 .. Len(f) : f[i] = cleanups[i]
  <2> DEFINE n == Len(cleanups) - 1
  <2>1. n \in Int /\ n \in Nat /\ 1 \in Int /\ \A i \in 1 .. n : cleanups[i] \in Actions
      BY <1>1, ElementOfSeq
  <2>2. f = SubSeq(cleanups, 1, n)
      BY <1>2
  <2> HIDE DEF n
  <2>3. /\ f \in Seq(Actions) /\ Len(f) = (IF 1 <= n THEN n - 1 + 1 ELSE 0)
        /\ \A i \in 1 .. n - 1 + 1 : f[i] = cleanups[1 + i - 1]
      BY <2>1, <2>2, SubSeqProperties
  <2>4. Len(f) = n
      BY <2>1, <2>3
  <2>5. \A i \in 1 .. n : f[i] = cleanups[i]
      BY <2>1, <2>3
  <2> QED
      BY <2>3, <2>4, <2>5 DEF n
<1>4. DOMAIN cleanups = 1 .. Len(cleanups) /\ DOMAIN f = 1 .. Len(f)
    BY <1>1, <1>3, LenProperties
<1>5. Last(cleanups) = cleanups[Len(cleanups)] /\ Last(cleanups) \in Actions
    BY <1>1, ElementOfSeq DEF Last
<1> HIDE DEF f, Actions
<1>6. \A i \in 1 .. Len(cleanups) : i = Len(cleanups) \/ i \in 1 .. Len(f)
    BY <1>1, <1>3
<1>7. Len(cleanups) \in 1 .. Len(cleanups) /\ \A i \in 1 .. Len(f) : i \in 1 .. Len(cleanups)
    BY <1>1, <1>3
<1> QED
    BY <1>3, <1>4, <1>5, <1>6, <1>7 DEF ToSet, f, Actions

\* A cleanup action is registered last, or is taken from the end.
LEMMA MainCleanups ==
    ASSUME Shape, MainDoes, ~Cleanup
    PROVE  ToSet(cleanups) \subseteq ToSet(cleanups')
<1> USE DEF stages, threads, client, targets, job, codes
<1>1. \A a \in {"close", "unlock", "join"} : ToSet(Append(cleanups, a)) = ToSet(cleanups) \cup {a}
    BY AppendToSet DEF Shape
<1>2. cleanups' = cleanups \/ \E a \in {"close", "unlock", "join"} : cleanups' = Append(cleanups, a)
    BY DEF MainDoes, CallContinues, JobCreated, JobReady, Prepare, Locking, TargetLocked, Locked,
       PrepareFails, TaskClosed, Prepared, Start, NotStarted, StartFails, TestEnds, EndTest, EndSkipped, EndJob,
       EndConfs, Unlocked, AllUnlocked, EndFails, PostProcess, Finished, ThreadsJoined, NewLpJob, Plus
<1> QED
    BY <1>1, <1>2

LEMMA MainHeld ==
    ASSUME MainDoes, main # "lock"
    PROVE  held' \subseteq held
<1> USE DEF stages, threads, client, targets, job, codes
<1>1. ASSUME NEW results, Calling(results)
      PROVE  held' \subseteq held
  <2>1. Calls[main] # "lock"
      BY <1>1 DEF Calling, Calls
  <2> QED
      BY <1>1, <2>1, ClientHeld DEF Calling
<1>2. (\E results : Calling(results)) \/ held' = held
    BY DEF MainDoes, CallContinues, JobCreated, JobReady, Prepare, Locking, TargetLocked, Locked,
       PrepareFails, TaskClosed, Prepared, Start, NotStarted, StartFails, TestEnds, EndTest, EndSkipped, EndJob,
       EndConfs, Unlocked, AllUnlocked, EndFails, PostProcess, Finished, Cleanup, ThreadsJoined, Succeeds, Fails,
       Moves
<1> QED
    BY <1>1, <1>2

\* A stage that neither locks, unlocks nor cleans up.
LEMMA ElsewhereKeeps ==
    ASSUME LInv, Shape, MainDoes, ~Cleanup, UNCHANGED locked, left' \in Nat \ {0},
           main' = "lock" => main = "lock" \/ "unlock" \in ToSet(cleanups'), main' # "done",
           main # "lock" \/ UNCHANGED held,
           main = "unlock" /\ back = "cleanup" => UNCHANGED <<main, back, left>>
    PROVE  LInv'
<1>1. ToSet(cleanups) \subseteq ToSet(cleanups') /\ held' \subseteq held /\ failed \subseteq failed'
    BY MainCleanups, MainHeld, MainMoves
<1>2. ASSUME "unlock" \notin failed'
      PROVE  \/ "unlock" \in ToSet(cleanups')
             \/ ToSet(locked') \cap held' = {}
             \/ /\ main' = "unlock" /\ back' = "cleanup"
                /\ \A i \in 1 .. Len(locked') : i < left' => locked'[i] \notin held'
    BY <1>1, <1>2 DEF LInv
<1> QED
    BY <1>1, <1>2 DEF LInv

LEMMA CleanupLocks ==
    ASSUME LInv, Shape, Cleanup
    PROVE  LInv'
<1>1. /\ main = "cleanup" /\ UNCHANGED <<locked, held, failed>>
      /\ left' \in Nat \ {0} /\ main' # "lock"
    BY CleanupStage DEF Cleanup, Moves, client, LInv
<1>2. CASE cleanups = << >>
  <2>1. cleanups' = << >> /\ main' = "done" /\ ToSet(cleanups) = {}
      BY <1>2 DEF Cleanup, Now, ToSet
  <2> QED
      BY <1>1, <2>1 DEF LInv
<1>3. CASE cleanups # << >>
  <2>1. /\ ToSet(cleanups) = ToSet(cleanups') \cup {Last(cleanups)} /\ Last(cleanups) \in {"close", "unlock", "join"}
        /\ Last(cleanups) = "unlock" => main' = "unlock" /\ back' = "cleanup" /\ left' = 1
        /\ main' # "done"
      BY <1>3, FrontToSet DEF Cleanup, Now
  <2>2. CASE Last(cleanups) = "unlock"
    <3>1. locked' = locked /\ Len(locked) \in Nat
        BY <1>1, LenProperties DEF LInv
    <3>2. \A i \in 1 .. Len(locked) : ~(i < 1)
        BY <3>1
    <3> QED
        BY <1>1, <2>1, <2>2, <3>2 DEF LInv
  <2>3. CASE Last(cleanups) # "unlock"
      BY <1>1, <2>1, <2>3 DEF LInv
  <2> QED
      BY <2>2, <2>3
<1> QED
    BY <1>2, <1>3

LEMMA UnlockedLocks ==
    ASSUME LInv, Shape, CallsOK, Unlocked
    PROVE  LInv'
<1>1. /\ main = "unlock" /\ left <= Len(locked) /\ left' = left + 1
      /\ UNCHANGED <<main, back, locked, cleanups, failed>>
      /\ Client("main", "unlock", locked[left], {"ok"}) /\ call'["main"] = NoCall
    BY DEF Unlocked, Succeeds, Calling, ListedTargets, Calls, Good, Forgiven
<1>2. Serve("unlock", locked[left])
    BY <1>1, EndsServed, UploaderAssumption DEF UploaderAssumption
<1>3. held' = held \ {locked[left]}
    BY <1>2, ServeHeld
<1>4. left \in Nat \ {0} /\ left' \in Nat \ {0} /\ Len(locked) \in Nat
    BY <1>1, LenProperties DEF LInv
<1>5. ASSUME \A i \in 1 .. Len(locked) : i < left => locked[i] \notin held
      PROVE  \A i \in 1 .. Len(locked) : i < left' => locked[i] \notin held'
  <2>1. \A i \in 1 .. Len(locked) : i < left + 1 => i < left \/ i = left
      BY <1>4
  <2> QED
      BY <1>1, <1>3, <1>5, <2>1
<1> QED
    BY <1>1, <1>3, <1>4, <1>5 DEF LInv

\* The last target was asked for: in the cleanup none is held any more.
LEMMA AllUnlockedLocks ==
    ASSUME LInv, Shape, AllUnlocked
    PROVE  LInv'
<1>1. /\ main = "unlock" /\ left > Len(locked) /\ UNCHANGED <<left, locked, held, cleanups, failed>>
      /\ main' \in {"post", "cleanup"}
    BY DEF AllUnlocked, Moves, Now, targets, client
<1>2. DOMAIN locked = 1 .. Len(locked) /\ Len(locked) \in Nat /\ left \in Nat
    BY LenProperties DEF LInv
<1>3. ASSUME \A i \in 1 .. Len(locked) : i < left => locked[i] \notin held
      PROVE  ToSet(locked) \cap held = {}
    BY <1>1, <1>2, <1>3 DEF ToSet
<1> QED
    BY <1>1, <1>3 DEF LInv

LEMMA LockLocks ==
    ASSUME LInv, Shape, MainDoes, main = "lock"
    PROVE  LInv'
<1> USE DEF stages, threads, client, targets, job, codes
<1>1. CASE CallContinues
    BY <1>1 DEF CallContinues, LInv
<1>2. CASE TargetLocked
  <2>1. /\ left' = left + 1 /\ UNCHANGED <<main, cleanups>>
        /\ locked' = locked \/ locked' = Append(locked, Targets[left])
      BY <1>2 DEF TargetLocked
  <2>2. Append(locked, Targets[left]) \in Seq({Targets[i] : i \in Nat})
    <3>1. Targets[left] \in {Targets[i] : i \in Nat}
        BY DEF LInv
    <3> QED
        BY <3>1, AppendProperties DEF LInv
  <2> QED
      BY <2>1, <2>2 DEF LInv
<1>3. CASE Locked
    BY <1>3, ElsewhereKeeps DEF Locked, Moves, Now, LInv, MainDoes, Cleanup
<1>4. CASE PrepareFails
  <2>1. locked' = << >> /\ main' \in {"ready", "cleanup"} /\ UNCHANGED left
      BY <1>4 DEF PrepareFails, Now
  <2>2. ToSet(<< >>) = {} /\ << >> \in Seq({Targets[i] : i \in Nat})
      BY EmptySeq DEF ToSet
  <2> QED
      BY <2>1, <2>2 DEF LInv
<1>5. CallContinues \/ TargetLocked \/ Locked \/ PrepareFails
    BY DEF MainDoes, JobCreated, JobReady, Prepare, Locking, TaskClosed, Prepared, Start, NotStarted, StartFails,
       TestEnds, EndTest, EndSkipped, EndJob, EndConfs, Unlocked, AllUnlocked, EndFails, PostProcess, Finished,
       Cleanup, ThreadsJoined, Succeeds, Moves
<1> QED
    BY <1>1, <1>2, <1>3, <1>4, <1>5

LEMMA MainLocks ==
    ASSUME LInv, Shape, CallsOK, Asked, MainDoes
    PROVE  LInv'
<1> USE DEF stages, threads, client, targets, job, codes
<1>1. CASE main = "lock"
    BY <1>1, LockLocks
<1>2. CASE Cleanup
    BY <1>2, CleanupLocks
<1>3. CASE Unlocked
    BY <1>3, UnlockedLocks
<1>4. CASE AllUnlocked
    BY <1>4, AllUnlockedLocks
<1>5. CASE EndFails /\ main = "unlock"
  <2>1. "unlock" \in failed' /\ main' \notin {"lock", "done"} /\ UNCHANGED <<left, locked>>
      BY <1>5 DEF EndFails, Fails, Now, Calls
  <2> QED
      BY <2>1 DEF LInv
<1>6. CASE Locking
  <2>1. cleanups' = Append(cleanups, "unlock") /\ main = "locking" /\ main' = "lock" /\ left' = 1 /\ locked' = locked
      BY <1>6 DEF Locking, Plus, Moves, Now
  <2>2. "unlock" \in ToSet(cleanups')
      BY <2>1, AppendToSet DEF Shape
  <2> QED
      BY <2>1, <2>2 DEF LInv
<1>7. CASE main # "lock" /\ ~Cleanup /\ ~Unlocked /\ ~AllUnlocked /\ ~(EndFails /\ main = "unlock") /\ ~Locking
  <2>1. /\ UNCHANGED locked /\ left' \in {left, 1}
        /\ main' \notin {"lock", "done"} \/ main' = main
        /\ main = "unlock" => UNCHANGED <<main, back, left>>
      BY <1>7, Resumes DEF MainDoes, CallContinues, JobCreated, JobReady, Prepare, TargetLocked, Locked,
         PrepareFails, TaskClosed, Prepared, Start, NotStarted, StartFails, TestEnds, EndTest, EndSkipped, EndJob,
         EndConfs, EndFails, PostProcess, Finished, ThreadsJoined, Succeeds, Moves, NewLpJob, Now, Asked
  <2>2. main' # "done"
    <3>1. main = "done" => FALSE
        BY <1>7 DEF MainDoes, CallContinues, JobCreated, JobReady, Prepare, TargetLocked, Locked,
           PrepareFails, TaskClosed, Prepared, Start, NotStarted, StartFails, TestEnds, EndTest, EndSkipped, EndJob,
           EndConfs, EndFails, PostProcess, Finished, ThreadsJoined, Succeeds, Moves, Calling, Calls
    <3> QED
        BY <2>1, <3>1
  <2> QED
      BY <1>7, <2>1, <2>2, ElsewhereKeeps DEF LInv
<1> QED
    BY <1>1, <1>2, <1>3, <1>4, <1>5, <1>6, <1>7

LEMMA NextLocks ==
    ASSUME LInv, Shape, CallsOK, Asked, [Next]_vars
    PROVE  LInv'
<1> USE DEF clientVars, client, stages, threads, targets, job, codes
<1>1. CASE MainDoes
    BY <1>1, MainLocks
<1>2. ASSUME NEW s \in Senders, Put(s)
      PROVE  LInv'
    BY <1>2 DEF Put, Moves, LInv
<1>3. CASE Interrupt
    BY <1>3 DEF Interrupt, LInv
<1>4. ASSUME NEW s \in Senders, Sender(s)
      PROVE  LInv'
  <2>1. s \in Streams /\ s \notin {"lock", "unlock"}
      BY DEF Senders, Streams
  <2>2. ASSUME NEW results, Push(s, results)
        PROVE  held' = held /\ UNCHANGED stages
      BY <2>1, <2>2, PushHeld DEF Push
  <2>3. held' = held /\ failed \subseteq failed' /\ failed' \subseteq failed \cup Streams
      BY <1>4, <2>1, <2>2 DEF Sender, PushContinues, Pushed, LoopEnds, Purge
  <2>4. UNCHANGED <<main, back, left, locked, cleanups>>
      BY <1>4, SenderLeaves
  <2> QED
      BY <2>3, <2>4 DEF LInv
<1>5. CASE Reported
  <2>1. ASSUME NEW results, Report(results)
        PROVE  held' = held /\ UNCHANGED <<left, locked, cleanups, main, back, failed>>
      BY <2>1, PushHeld DEF Report
  <2> QED
      BY <1>5, <2>1 DEF Reported, LInv
<1>6. CASE UNCHANGED vars
    BY <1>6 DEF vars, LInv
<1> QED
    BY <1>1, <1>2, <1>3, <1>4, <1>5, <1>6 DEF Next, Main

LEMMA InitLocks ==
    ASSUME Init
    PROVE  LInv
<1>1. << >> \in Seq({Targets[i] : i \in Nat}) /\ ToSet(<< >>) = {}
    BY EmptySeq DEF ToSet
<1> QED
    BY <1>1 DEF Init, LInv

-----------------------------------------------------------------------------
(***************************************************************************)
(* The job is closed                                                       *)
(***************************************************************************)

NoJobFailed == failed \cap {"create", "config", "close"} = {}

\* As long as no call for it failed there is one job, whose closing is
\* registered, under way or done.
JInv ==
    /\ jobs \in Nat
    /\ main = "prepare" => ~lpJob
    /\ NoJobFailed =>
          /\ main \in {"job", "config"} => back # "close"
          /\ number # None => number \in closed \/ "close" \in ToSet(cleanups) \/ main = "close"
          /\ number # None /\ main \notin {"job", "config"} => lpJob
          /\ "close" \in ToSet(cleanups) => number # None

LEMMA ClientJobs ==
    ASSUME NEW t, NEW op, NEW item, NEW results, Client(t, op, item, results)
    PROVE  jobs' \in {jobs, jobs + 1} /\ closed \subseteq closed'
BY DEF Client, GiveUp, Done, Rejected, Unavailable, Stopped, NetworkError, Maintenance, Serve, Idle

LEMMA MainJobs ==
    ASSUME MainDoes, jobs \in Nat
    PROVE  jobs' \in Nat /\ closed \subseteq closed'
<1> USE DEF stages, threads, client, targets, job, codes
<1>1. ASSUME NEW results, Calling(results)
      PROVE  jobs' \in Nat /\ closed \subseteq closed'
    BY <1>1, ClientJobs DEF Calling
<1>2. (\E results : Calling(results)) \/ UNCHANGED <<jobs, closed>>
    BY DEF MainDoes, CallContinues, JobCreated, JobReady, Prepare, Locking, TargetLocked, Locked,
       PrepareFails, TaskClosed, Prepared, Start, NotStarted, StartFails, TestEnds, EndTest, EndSkipped, EndJob,
       EndConfs, Unlocked, AllUnlocked, EndFails, PostProcess, Finished, Cleanup, ThreadsJoined, Succeeds, Fails,
       Moves
<1> QED
    BY <1>1, <1>2

\* A stage that has nothing to do with the job.
LEMMA SameJob ==
    ASSUME JInv, jobs' \in Nat, closed \subseteq closed', failed \subseteq failed', UNCHANGED <<number, lpJob>>,
           main' = "prepare" => main = "prepare",
           "close" \in ToSet(cleanups) <=> "close" \in ToSet(cleanups'),
           main \in {"job", "config", "close"} => ~NoJobFailed' \/ (main' = main /\ back' = back),
           main' \in {"job", "config"} => main' = main /\ back' = back
    PROVE  JInv'
<1>1. CASE NoJobFailed'
  <2>1. NoJobFailed
      BY <1>1 DEF NoJobFailed
  <2> QED
      BY <1>1, <2>1 DEF JInv
<1>2. CASE ~NoJobFailed'
    BY <1>2 DEF JInv
<1> QED
    BY <1>1, <1>2

\* A job is made only when there was none.
LEMMA NewJob ==
    ASSUME JInv, Shape, NEW b \in {"prepare", "end", "post"}, NewLpJob(b), ~lpJob, main \notin {"job", "config"},
           UNCHANGED <<jobs, closed, failed, lpJob>>
    PROVE  JInv'
<1>1. NoJobFailed' = NoJobFailed
    BY DEF NoJobFailed
<1>2. NoJobFailed => "close" \notin ToSet(cleanups)
    BY DEF JInv
<1>3. ToSet(Append(cleanups, "close")) = ToSet(cleanups) \cup {"close"}
    BY AppendToSet DEF Shape
<1>4. b # "close" /\ 1 # None
    BY DEF None
<1> QED
    BY <1>1, <1>2, <1>3, <1>4 DEF NewLpJob, Now, JInv

LEMMA CleanupJob ==
    ASSUME JInv, Shape, Cleanup
    PROVE  JInv'
<1>1. /\ main = "cleanup" /\ UNCHANGED <<jobs, closed, failed, lpJob>> /\ NoJobFailed' = NoJobFailed
      /\ main' # "prepare"
    BY CleanupStage DEF Cleanup, Moves, client, NoJobFailed
<1>2. CASE cleanups = << >>
  <2>1. cleanups' = cleanups /\ main' = "done" /\ UNCHANGED number
      BY <1>2 DEF Cleanup, Now
  <2> QED
      BY <1>1, <2>1 DEF JInv
<1>3. CASE cleanups # << >>
  <2>1. ToSet(cleanups) = ToSet(cleanups') \cup {Last(cleanups)} /\ Last(cleanups) \in {"close", "unlock", "join"}
      BY <1>3, FrontToSet DEF Cleanup
  <2>2. CASE Last(cleanups) = "close" /\ lpJob
    <3>1. main' = "close" /\ UNCHANGED number
        BY <1>3, <2>2 DEF Cleanup, Now
    <3> QED
        BY <1>1, <2>1, <2>2, <3>1 DEF JInv
  <2>3. CASE Last(cleanups) = "close" /\ ~lpJob
    <3>1. ~NoJobFailed
        BY <1>1, <2>1, <2>3 DEF JInv
    <3> QED
        BY <1>1, <3>1 DEF JInv
  <2>4. CASE Last(cleanups) # "close"
    <3>1. main' \notin {"job", "config", "close"} /\ UNCHANGED number
        BY <1>3, <2>1, <2>4 DEF Cleanup, Now
    <3> QED
        BY <1>1, <2>1, <2>4, <3>1 DEF JInv
  <2> QED
      BY <2>2, <2>3, <2>4
<1> QED
    BY <1>2, <1>3

LEMMA JobCreatedJob ==
    ASSUME JInv, Shape, CallsOK, JobCreated
    PROVE  JInv'
<1>1. /\ main = "job" /\ main' = "config" /\ number' = jobs' /\ UNCHANGED <<back, failed, lpJob>>
      /\ cleanups' = IF back = "close" THEN cleanups ELSE Append(cleanups, "close")
      /\ Client("main", "create", number, {"ok"}) /\ call'["main"] = NoCall
    BY DEF JobCreated, Succeeds, Calling, Calls, Good, Forgiven, Now
<1>2. jobs' = jobs + 1
  <2>1. Serve("create", number)
      BY <1>1, EndsServed, UploaderAssumption DEF UploaderAssumption
  <2> QED
      BY <2>1 DEF Serve
<1>3. number' # None /\ jobs' \in Nat
    BY <1>1, <1>2 DEF JInv, None
<1>4. ToSet(Append(cleanups, "close")) = ToSet(cleanups) \cup {"close"}
    BY AppendToSet DEF Shape
<1> QED
    BY <1>1, <1>3, <1>4 DEF JInv, NoJobFailed

LEMMA JobClosed ==
    ASSUME JInv, Shape, CallsOK, Prepared("close", "cleanup")
    PROVE  JInv'
<1>1. /\ main = "close" /\ main' = "cleanup" /\ UNCHANGED <<back, failed, lpJob, number, cleanups>>
      /\ Client("main", "close", number, {"ok"}) /\ call'["main"] = NoCall
    BY DEF Prepared, Succeeds, Calling, Calls, Good, Forgiven, Now, job
<1>2. number \in closed' /\ jobs' = jobs
  <2>1. Serve("close", number)
      BY <1>1, EndsServed, UploaderAssumption DEF UploaderAssumption
  <2> QED
      BY <2>1 DEF Serve
<1> QED
    BY <1>1, <1>2 DEF JInv, NoJobFailed

LEMMA MainJob ==
    ASSUME JInv, Shape, CallsOK, Asked, MainDoes
    PROVE  JInv'
<1> USE DEF stages, threads, client, targets, job, codes
<1>1. jobs' \in Nat /\ closed \subseteq closed' /\ failed \subseteq failed'
    BY MainJobs, MainMoves DEF JInv
<1>2. CASE JobCreated
    BY <1>2, JobCreatedJob
<1>3. CASE JobReady
  <2>1. /\ main = "config" /\ main' \in {"locking", "endJob", "postConfs", "close"} /\ lpJob'
        /\ UNCHANGED <<back, number, cleanups, failed>>
      BY <1>3, Resumes DEF JobReady, Succeeds, Now, Asked
  <2> QED
      BY <1>1, <2>1 DEF JInv, NoJobFailed
<1>4. CASE Prepare
  <2>1. main = "prepare" /\ ~lpJob /\ UNCHANGED <<jobs, closed, failed, lpJob>>
      BY <1>4 DEF Prepare, Moves, JInv
  <2>2. CASE core
      BY <1>1, <1>4, <2>1, <2>2, SameJob DEF Prepare, Now
  <2>3. CASE ~core
      BY <1>4, <2>1, <2>3, NewJob DEF Prepare
  <2> QED
      BY <2>2, <2>3
<1>5. CASE EndTest
  <2>1. main \in {"ending", "end"} /\ UNCHANGED <<jobs, closed, failed, lpJob>>
      BY <1>5 DEF EndTest, Moves
  <2>2. CASE lpJob
      BY <1>1, <1>5, <2>1, <2>2, SameJob DEF EndTest, Now
  <2>3. CASE ~lpJob
      BY <1>5, <2>1, <2>3, NewJob DEF EndTest
  <2> QED
      BY <2>2, <2>3
<1>6. CASE Finished
  <2>1. main = "join" /\ UNCHANGED <<jobs, closed, failed, lpJob>>
      BY <1>6 DEF Finished, Moves
  <2>2. CASE lpJob
      BY <1>1, <1>6, <2>1, <2>2, SameJob DEF Finished, Now
  <2>3. CASE ~lpJob
      BY <1>6, <2>1, <2>3, NewJob DEF Finished
  <2> QED
      BY <2>2, <2>3
<1>7. CASE Cleanup
    BY <1>7, CleanupJob
<1>8. CASE Prepared("close", "cleanup")
    BY <1>8, JobClosed
<1>9. CASE PrepareFails \/ EndFails
  <2>1. /\ UNCHANGED <<number, lpJob, cleanups>> /\ failed' = failed \cup {Calls[main]}
        /\ main' \in {"ready", "cleanup", "post"}
      BY <1>9 DEF PrepareFails, EndFails, Fails, Now
  <2>2. main \in {"job", "config", "close"} => Calls[main] \in {"create", "config", "close"}
      BY DEF Calls
  <2>3. main \in {"job", "config", "close"} => ~NoJobFailed'
      BY <2>1, <2>2 DEF NoJobFailed
  <2> QED
      BY <1>1, <2>1, <2>3, SameJob
<1>10. CASE /\ ~JobCreated /\ ~JobReady /\ ~Prepare /\ ~EndTest /\ ~Finished /\ ~Cleanup
            /\ ~Prepared("close", "cleanup") /\ ~PrepareFails /\ ~EndFails
  <2>1. \A a \in {"unlock", "join"} : ToSet(Append(cleanups, a)) = ToSet(cleanups) \cup {a}
      BY AppendToSet DEF Shape
  <2>2. /\ UNCHANGED <<number, lpJob>>
        /\ cleanups' = cleanups \/ \E a \in {"unlock", "join"} : cleanups' = Append(cleanups, a)
        /\ \/ main' = main /\ back' = back
           \/ main \notin {"job", "config", "close"} /\ main' \notin {"prepare", "job", "config"}
      BY <1>10 DEF MainDoes, CallContinues, Locking, TargetLocked, Locked, TaskClosed, Prepared, Start, NotStarted,
         StartFails, TestEnds, EndSkipped, EndJob, EndConfs, Unlocked, AllUnlocked, PostProcess, ThreadsJoined,
         Succeeds, Moves, Now, Plus
  <2>3. "close" \in ToSet(cleanups) <=> "close" \in ToSet(cleanups')
      BY <2>1, <2>2
  <2> QED
      BY <1>1, <2>2, <2>3, SameJob
<1> QED
    BY <1>2, <1>3, <1>4, <1>5, <1>6, <1>7, <1>8, <1>9, <1>10

LEMMA NextJob ==
    ASSUME JInv, Shape, CallsOK, Asked, [Next]_vars
    PROVE  JInv'
<1> USE DEF clientVars, client, stages, threads, targets, job, codes
<1>1. CASE MainDoes
    BY <1>1, MainJob
<1>2. ASSUME NEW s \in Senders, Put(s)
      PROVE  JInv'
    BY <1>2 DEF Put, Moves, JInv, NoJobFailed
<1>3. CASE Interrupt
    BY <1>3 DEF Interrupt, JInv, NoJobFailed
<1>4. ASSUME NEW s \in Senders, Sender(s)
      PROVE  JInv'
  <2>1. ASSUME NEW results, Push(s, results)
        PROVE  jobs' \in Nat
      BY <2>1, ClientJobs DEF Push, JInv
  <2>2. jobs' \in Nat /\ failed \subseteq failed'
      BY <1>4, <2>1 DEF Sender, PushContinues, Pushed, LoopEnds, Purge, JInv
  <2>3. UNCHANGED <<closed, main, back, cleanups, number, lpJob>>
      BY <1>4, SenderLeaves
  <2> QED
      BY <2>2, <2>3, SameJob
<1>5. CASE Reported
  <2>1. ASSUME NEW results, Report(results)
        PROVE  jobs' \in Nat /\ failed' = failed
      BY <2>1, ClientJobs DEF Report, JInv
  <2>2. jobs' \in Nat /\ failed' = failed
      BY <1>5, <2>1 DEF Reported
  <2>3. UNCHANGED <<closed, main, back, cleanups, number, lpJob>>
      BY <1>5, ReportedLeaves
  <2> QED
      BY <2>2, <2>3, SameJob
<1>6. CASE UNCHANGED vars
    BY <1>6 DEF vars, JInv, NoJobFailed
<1> QED
    BY <1>1, <1>2, <1>3, <1>4, <1>5, <1>6 DEF Next, Main

LEMMA InitJob ==
    ASSUME Init
    PROVE  JInv
<1>1. ToSet(<< >>) = {}
    BY DEF ToSet
<1> QED
    BY <1>1 DEF Init, ClientInit, JInv

-----------------------------------------------------------------------------
\* In the end the targets that the plugin knows to be locked are unlocked, and
\* its job is closed, unless the calls for it failed.
THEOREM EndsCleanedUp == Spec => []CleanedUp
<1>1. LInv /\ JInv => CleanedUp
  <2> SUFFICES ASSUME LInv, JInv, main = "done"
               PROVE  /\ "unlock" \notin failed => ToSet(locked) \cap held = {}
                      /\ failed \cap {"create", "config", "close"} = {} /\ number # None => number \in closed
      BY DEF CleanedUp
  <2>1. cleanups = << >> /\ ToSet(<< >>) = {}
      BY DEF LInv, ToSet
  <2> QED
      BY <2>1 DEF LInv, JInv, NoJobFailed
<1>2. Init => LInv /\ JInv
    BY InitLocks, InitJob
<1>3. Shape /\ QInv /\ LInv /\ JInv /\ [Next]_vars => LInv' /\ JInv'
    BY NextLocks, NextJob DEF QInv
<1>4. CInv => Shape
    BY DEF CInv
<1> QED
    BY <1>1, <1>2, <1>3, <1>4, CleanupOrder, QuietRuns, PTL DEF Spec
=============================================================================
