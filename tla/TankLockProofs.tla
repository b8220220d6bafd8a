--------------------------- MODULE TankLockProofs ---------------------------
(***************************************************************************)
(* What TankLock guarantees for any number of tanks, runs and crashes.     *)
(*                                                                         *)
(* HolderKeepsFile is not inductive: that no late os.remove hits a live    *)
(* lock rests on what the scanning tank read before.  IInv adds it: runs   *)
(* are distinct and their files fresh, the file a tank inspects belongs to *)
(* an owner or to a finished run (Inspected), the pid it read is the pid   *)
(* of that owner (ReadPid), and once the pid was found dead no active run  *)
(* owns the file (Condemned).                                              *)
(***************************************************************************)
EXTENDS TankLock, TLAPS

RunsDistinct ==
    /\ \A p \in Tanks : Active(p) => run[p] \in 1 .. runs
    /\ \A p, q \in Tanks : p # q /\ Active(p) /\ Active(q) => run[p] # run[q]

FilesFresh ==
    /\ \A f \in Runs : f > runs => dir[f] = Absent
    /\ \A p \in Tanks :
        pc[p] \in Scanning \cup {"loop", "create"} => dir[run[p]] = Absent

Inspecting(s) == pc[s] \in {"load", "check", "sweep"}

Inspected ==
    \A s \in Tanks : Inspecting(s) =>
        /\ cur[s] \in 1 .. runs
        /\ \A p \in Tanks : Active(p) /\ run[p] = cur[s] => Owns(p)

ReadPid ==
    \A s \in Tanks : pc[s] = "check" =>
        \A p \in Tanks : Owns(p) /\ run[p] = cur[s] => pid[s] = p

Condemned ==
    \A s \in Tanks : pc[s] = "sweep" =>
        \A p \in Tanks : Active(p) => run[p] # cur[s]

\* What a clean answer of is_locked means: nobody owned a lock when it listed.
CleanAnswer ==
    \A p \in Tanks :
        /\ pc[p] = "decide" /\ ~locked[p] /\ ~stale[p] => owners[p] = {}
        /\ (pc[p] = "create" \/ Owns(p)) /\ p \notin Ignore /\ ~stale[p]
              => owners[p] = {}

IInv ==
    /\ TypeOK
    /\ RunsDistinct
    /\ FilesFresh
    /\ HolderKeepsFile
    /\ Inspected
    /\ ReadPid
    /\ Condemned
    /\ CleanAnswer

----------------------------------------------------------------------------
\* Every step keeps the types.
LEMMA TypeStep == ASSUME TypeOK, [Next]_vars PROVE TypeOK'
<1> USE LockAssumption DEF LockAssumption, Runs, PC, Scanning, Owning
<1>1. CASE UNCHANGED vars
  BY <1>1 DEF TypeOK, vars
<1>2. ASSUME NEW p \in Tanks, Start(p) PROVE TypeOK'
  BY <1>2 DEF TypeOK, Start
<1>3. ASSUME NEW p \in Tanks, ListNone(p) PROVE TypeOK'
  <2>1. (owners \in [Tanks -> SUBSET (0 .. MaxRuns)])'
    BY <1>3 DEF TypeOK, ListNone, Listed
  <2>2. QED
    BY <1>3, <2>1 DEF TypeOK, ListNone, Listed
<1>4. ASSUME NEW p \in Tanks, NEW f \in Runs, ListFile(p, f) PROVE TypeOK'
  <2>1. (owners \in [Tanks -> SUBSET (0 .. MaxRuns)])'
    BY <1>4 DEF TypeOK, ListFile, Listed
  <2>2. QED
    BY <1>4, <2>1 DEF TypeOK, ListFile, Listed
<1>5. ASSUME NEW p \in Tanks, LoadFails(p) PROVE TypeOK'
  BY <1>5 DEF TypeOK, LoadFails
<1>6. ASSUME NEW p \in Tanks, LoadPid(p) PROVE TypeOK'
  BY <1>6 DEF TypeOK, LoadPid
<1>7. ASSUME NEW p \in Tanks, Check(p) PROVE TypeOK'
  <2>1. PidExists(pid[p]) \in BOOLEAN
    BY DEF PidExists
  <2>2. QED
    BY <1>7, <2>1 DEF TypeOK, Check
<1>8. ASSUME NEW p \in Tanks, Sweep(p) PROVE TypeOK'
  BY <1>8 DEF TypeOK, Sweep, SweepEnds
<1>9. ASSUME NEW p \in Tanks, SweepFails(p) PROVE TypeOK'
  BY <1>9 DEF TypeOK, SweepFails, SweepEnds
<1>10. ASSUME NEW p \in Tanks, Refuse(p) PROVE TypeOK'
  BY <1>10 DEF TypeOK, Refuse, Answer, Forget
<1>11. ASSUME NEW p \in Tanks, Launch(p) PROVE TypeOK'
  BY <1>11 DEF TypeOK, Launch, Answer, Forget
<1>12. ASSUME NEW p \in Tanks, Retry(p) PROVE TypeOK'
  BY <1>12 DEF TypeOK, Retry, Answer, Forget
<1>13. ASSUME NEW p \in Tanks, Grant(p) PROVE TypeOK'
  BY <1>13 DEF TypeOK, Grant, Answer
<1>14. ASSUME NEW p \in Tanks, Loop(p) PROVE TypeOK'
  BY <1>14 DEF TypeOK, Loop
<1>15. ASSUME NEW p \in Tanks, Create(p) PROVE TypeOK'
  BY <1>15 DEF TypeOK, Create
<1>16. ASSUME NEW p \in Tanks, Write(p) PROVE TypeOK'
  BY <1>16 DEF TypeOK, Write
<1>17. ASSUME NEW p \in Tanks, WriteFails(p) PROVE TypeOK'
  <2>1. run[p] \in 0 .. MaxRuns
    BY DEF TypeOK
  <2>2. (lost \subseteq 0 .. MaxRuns)'
    BY <1>17, <2>1 DEF TypeOK, WriteFails
  <2>3. QED
    BY <1>17, <2>2 DEF TypeOK, WriteFails
<1>18. ASSUME NEW p \in Tanks, EndTest(p) PROVE TypeOK'
  BY <1>18 DEF TypeOK, EndTest
<1>19. ASSUME NEW p \in Tanks, Release(p) PROVE TypeOK'
  BY <1>19 DEF TypeOK, Release
<1>20. ASSUME NEW p \in Tanks, Unlink(p) PROVE TypeOK'
  BY <1>20 DEF TypeOK, Unlink
<1>21. ASSUME NEW p \in Tanks, Stop(p) PROVE TypeOK'
  BY <1>21 DEF TypeOK, Stop
<1>22. ASSUME NEW p \in Tanks, Reap(p) PROVE TypeOK'
  BY <1>22 DEF TypeOK, Reap
<1>23. ASSUME NEW p \in Tanks, Kill(p) PROVE TypeOK'
  <2>1. run[p] \in 0 .. MaxRuns
    BY DEF TypeOK
  <2>2. (lost \subseteq 0 .. MaxRuns)'
    BY <1>23, <2>1 DEF TypeOK, Kill
  <2>3. QED
    BY <1>23, <2>2 DEF TypeOK, Kill
<1>24. QED
  BY <1>1, <1>2, <1>3, <1>4, <1>5, <1>6, <1>7, <1>8, <1>9, <1>10, <1>11,
     <1>12, <1>13, <1>14, <1>15, <1>16, <1>17, <1>18, <1>19, <1>20, <1>21,
     <1>22, <1>23
     DEF Next, IsLocked, Load, GetLock, LetGo, Abort

\* The variables keep their types.
THEOREM TypeCorrect == Spec => []TypeOK
<1>1. Init => TypeOK
  BY LockAssumption DEF LockAssumption, Init, TypeOK, Runs, PC
<1>2. TypeOK /\ [Next]_vars => TypeOK'
  BY TypeStep
<1>3. QED
  BY <1>1, <1>2, PTL DEF Spec

----------------------------------------------------------------------------
\* The runs of active tanks are runs, and no two of them are the same.
LEMMA ActiveRun ==
    ASSUME TypeOK, RunsDistinct, NEW p \in Tanks, Active(p)
    PROVE  /\ run[p] \in Runs
           /\ run[p] <= runs
           /\ \A q \in Tanks : q # p /\ Active(q) => run[q] # run[p]
<1>1. run[p] \in 1 .. runs /\ runs \in 0 .. MaxRuns
  BY DEF TypeOK, RunsDistinct
<1>2. QED
  BY <1>1, LockAssumption DEF LockAssumption, Runs, RunsDistinct

\* A tank that owns a lock is active, and so is one about to make its file.
LEMMA OwnerActive == ASSUME NEW p \in Tanks PROVE
    /\ Owns(p) => Active(p)
    /\ pc[p] \in Scanning \cup {"loop", "create"} => Active(p) /\ ~Owns(p)
BY DEF Owns, Active, Owning, Scanning

\* Every step keeps the strengthened invariant: one step per action and, below
\* it, one per part.
LEMMA StepIInv == ASSUME IInv, [Next]_vars PROVE IInv'
<1> USE LockAssumption DEF LockAssumption, TypeOK, Runs, Scanning, Owning, PC,
                           Active, Owns, Inspecting
<1>0. TypeOK' /\ TypeOK
  BY TypeStep DEF IInv
<1>a. \A q \in Tanks : Active(q) =>
        /\ run[q] \in Runs /\ run[q] <= runs
        /\ \A r \in Tanks : r # q /\ Active(r) => run[r] # run[q]
  BY <1>0, ActiveRun DEF IInv
<1>1. CASE UNCHANGED vars
  BY <1>1 DEF vars, IInv, RunsDistinct, FilesFresh, HolderKeepsFile, Inspected,
              ReadPid, Condemned, CleanAnswer
<1>2. ASSUME NEW p \in Tanks, Start(p) PROVE IInv'
  <2>1. RunsDistinct'
    BY <1>0, <1>2 DEF IInv, RunsDistinct, Start
  <2>2. FilesFresh'
    BY <1>0, <1>2 DEF IInv, FilesFresh, Start, RunsDistinct
  <2>3. HolderKeepsFile'
    BY <1>0, <1>2 DEF IInv, HolderKeepsFile, Start, RunsDistinct, FilesFresh, Condemned
  <2>4. Inspected'
    BY <1>0, <1>2 DEF IInv, Inspected, Start, RunsDistinct, FilesFresh
  <2>5. ReadPid'
    BY <1>0, <1>2 DEF IInv, ReadPid, Start, HolderKeepsFile, Inspected
  <2>6. Condemned'
    BY <1>0, <1>2 DEF IInv, Condemned, Start, RunsDistinct, Inspected, ReadPid
  <2>7. CleanAnswer'
    BY <1>0, <1>2 DEF IInv, CleanAnswer, Start, HolderKeepsFile
  <2>8. QED
    BY <1>0, <2>1, <2>2, <2>3, <2>4, <2>5, <2>6, <2>7 DEF IInv
<1>3. ASSUME NEW p \in Tanks, ListNone(p) PROVE IInv'
  <2>1. RunsDistinct'
    BY <1>0, <1>3 DEF IInv, RunsDistinct, ListNone, Listed
  <2>2. FilesFresh'
    BY <1>0, <1>3 DEF IInv, FilesFresh, ListNone, Listed, RunsDistinct
  <2>3. HolderKeepsFile'
    BY <1>0, <1>3 DEF IInv, HolderKeepsFile, ListNone, Listed, RunsDistinct, FilesFresh, Condemned
  <2>4. Inspected'
    BY <1>0, <1>3 DEF IInv, Inspected, ListNone, Listed, RunsDistinct, FilesFresh
  <2>5. ReadPid'
    BY <1>0, <1>3 DEF IInv, ReadPid, ListNone, Listed, HolderKeepsFile, Inspected
  <2>6. Condemned'
    BY <1>0, <1>3 DEF IInv, Condemned, ListNone, Listed, RunsDistinct, Inspected, ReadPid
  <2>7. CleanAnswer'
    <3>1. \A q \in Tanks : ~Owns(q)
      <4> SUFFICES ASSUME NEW q \in Tanks, Owns(q) PROVE FALSE
        OBVIOUS
      <4>1. dir[run[q]] = Absent
        BY <1>a, <1>3 DEF ListNone
      <4>2. dir[run[q]] = Empty \/ dir[run[q]] = q
        BY DEF IInv, HolderKeepsFile
      <4>3. QED
        BY <4>1, <4>2
    <3>2. owners' = [owners EXCEPT ![p] = {}]
      BY <1>3, <3>1 DEF ListNone, Listed
    <3>3. /\ pc[p] = "list" /\ pc' = [pc EXCEPT ![p] = "decide"]
          /\ stale' = [stale EXCEPT ![p] = FALSE]
          /\ UNCHANGED locked
      BY <1>3 DEF ListNone, Listed
    <3>4. QED
      BY <1>0, <3>2, <3>3 DEF IInv, CleanAnswer
  <2>8. QED
    BY <1>0, <2>1, <2>2, <2>3, <2>4, <2>5, <2>6, <2>7 DEF IInv
<1>4. ASSUME NEW p \in Tanks, NEW f \in Runs, ListFile(p, f) PROVE IInv'
  <2>1. RunsDistinct'
    BY <1>0, <1>4 DEF IInv, RunsDistinct, ListFile, Listed
  <2>2. FilesFresh'
    BY <1>0, <1>4 DEF IInv, FilesFresh, ListFile, Listed, RunsDistinct
  <2>3. HolderKeepsFile'
    BY <1>0, <1>4 DEF IInv, HolderKeepsFile, ListFile, Listed, RunsDistinct, FilesFresh, Condemned
  <2>4. Inspected'
    BY <1>0, <1>4 DEF IInv, Inspected, ListFile, Listed, RunsDistinct, FilesFresh
  <2>5. ReadPid'
    BY <1>0, <1>4 DEF IInv, ReadPid, ListFile, Listed, HolderKeepsFile, Inspected
  <2>6. Condemned'
    BY <1>0, <1>4 DEF IInv, Condemned, ListFile, Listed, RunsDistinct, Inspected, ReadPid
  <2>7. CleanAnswer'
    BY <1>0, <1>4 DEF IInv, CleanAnswer, ListFile, Listed, HolderKeepsFile
  <2>8. QED
    BY <1>0, <2>1, <2>2, <2>3, <2>4, <2>5, <2>6, <2>7 DEF IInv
<1>5. ASSUME NEW p \in Tanks, LoadFails(p) PROVE IInv'
  <2>1. RunsDistinct'
    BY <1>0, <1>5 DEF IInv, RunsDistinct, LoadFails
  <2>2. FilesFresh'
    BY <1>0, <1>5 DEF IInv, FilesFresh, LoadFails, RunsDistinct
  <2>3. HolderKeepsFile'
    BY <1>0, <1>5 DEF IInv, HolderKeepsFile, LoadFails, RunsDistinct, FilesFresh, Condemned
  <2>4. Inspected'
    BY <1>0, <1>5 DEF IInv, Inspected, LoadFails, RunsDistinct, FilesFresh
  <2>5. ReadPid'
    BY <1>0, <1>5 DEF IInv, ReadPid, LoadFails, HolderKeepsFile, Inspected
  <2>6. Condemned'
    BY <1>0, <1>5 DEF IInv, Condemned, LoadFails, RunsDistinct, Inspected, ReadPid
  <2>7. CleanAnswer'
    BY <1>0, <1>5 DEF IInv, CleanAnswer, LoadFails, HolderKeepsFile
  <2>8. QED
    BY <1>0, <2>1, <2>2, <2>3, <2>4, <2>5, <2>6, <2>7 DEF IInv
<1>6. ASSUME NEW p \in Tanks, LoadPid(p) PROVE IInv'
  <2>1. RunsDistinct'
    BY <1>0, <1>6 DEF IInv, RunsDistinct, LoadPid
  <2>2. FilesFresh'
    BY <1>0, <1>6 DEF IInv, FilesFresh, LoadPid, RunsDistinct
  <2>3. HolderKeepsFile'
    BY <1>0, <1>6 DEF IInv, HolderKeepsFile, LoadPid, RunsDistinct, FilesFresh, Condemned
  <2>4. Inspected'
    BY <1>0, <1>6 DEF IInv, Inspected, LoadPid, RunsDistinct, FilesFresh
  <2>5. ReadPid'
    BY <1>0, <1>6 DEF IInv, ReadPid, LoadPid, HolderKeepsFile, Inspected
  <2>6. Condemned'
    BY <1>0, <1>6 DEF IInv, Condemned, LoadPid, RunsDistinct, Inspected, ReadPid
  <2>7. CleanAnswer'
    BY <1>0, <1>6 DEF IInv, CleanAnswer, LoadPid, HolderKeepsFile
  <2>8. QED
    BY <1>0, <2>1, <2>2, <2>3, <2>4, <2>5, <2>6, <2>7 DEF IInv
<1>7. ASSUME NEW p \in Tanks, Check(p) PROVE IInv'
  <2>1. RunsDistinct'
    BY <1>0, <1>7 DEF IInv, RunsDistinct, Check, PidExists
  <2>2. FilesFresh'
    BY <1>0, <1>7 DEF IInv, FilesFresh, Check, PidExists, RunsDistinct
  <2>3. HolderKeepsFile'
    BY <1>0, <1>7 DEF IInv, HolderKeepsFile, Check, PidExists, RunsDistinct, FilesFresh, Condemned
  <2>4. Inspected'
    BY <1>0, <1>7 DEF IInv, Inspected, Check, PidExists, RunsDistinct, FilesFresh
  <2>5. ReadPid'
    BY <1>0, <1>7 DEF IInv, ReadPid, Check, PidExists, HolderKeepsFile, Inspected
  <2>6. Condemned'
    BY <1>0, <1>7 DEF IInv, Condemned, Check, PidExists, RunsDistinct, Inspected, ReadPid
  <2>7. CleanAnswer'
    BY <1>0, <1>7 DEF IInv, CleanAnswer, Check, PidExists, HolderKeepsFile
  <2>8. QED
    BY <1>0, <2>1, <2>2, <2>3, <2>4, <2>5, <2>6, <2>7 DEF IInv
<1>8. ASSUME NEW p \in Tanks, Sweep(p) PROVE IInv'
  <2>1. RunsDistinct'
    BY <1>0, <1>8 DEF IInv, RunsDistinct, Sweep, SweepEnds
  <2>2. FilesFresh'
    BY <1>0, <1>8 DEF IInv, FilesFresh, Sweep, SweepEnds, RunsDistinct
  <2>3. HolderKeepsFile'
    <3>1. \A q \in Tanks : Owns(q) => run[q] # cur[p] /\ run[q] \in Runs
      BY <1>a, <1>8 DEF IInv, Condemned, Sweep, SweepEnds
    <3>2. \A q \in Tanks : Owns(q) => dir'[run[q]] = dir[run[q]]
      BY <1>0, <1>8, <3>1 DEF Sweep
    <3>3. QED
      BY <1>0, <1>8, <3>2 DEF IInv, HolderKeepsFile, Sweep, SweepEnds
  <2>4. Inspected'
    BY <1>0, <1>8 DEF IInv, Inspected, Sweep, SweepEnds, RunsDistinct, FilesFresh
  <2>5. ReadPid'
    BY <1>0, <1>8 DEF IInv, ReadPid, Sweep, SweepEnds, HolderKeepsFile, Inspected
  <2>6. Condemned'
    BY <1>0, <1>8 DEF IInv, Condemned, Sweep, SweepEnds, RunsDistinct, Inspected, ReadPid
  <2>7. CleanAnswer'
    BY <1>0, <1>8 DEF IInv, CleanAnswer, Sweep, SweepEnds, HolderKeepsFile
  <2>8. QED
    BY <1>0, <2>1, <2>2, <2>3, <2>4, <2>5, <2>6, <2>7 DEF IInv
<1>9. ASSUME NEW p \in Tanks, SweepFails(p) PROVE IInv'
  <2>1. RunsDistinct'
    BY <1>0, <1>9 DEF IInv, RunsDistinct, SweepFails, SweepEnds
  <2>2. FilesFresh'
    BY <1>0, <1>9 DEF IInv, FilesFresh, SweepFails, SweepEnds, RunsDistinct
  <2>3. HolderKeepsFile'
    BY <1>0, <1>9 DEF IInv, HolderKeepsFile, SweepFails, SweepEnds, RunsDistinct, FilesFresh, Condemned
  <2>4. Inspected'
    BY <1>0, <1>9 DEF IInv, Inspected, SweepFails, SweepEnds, RunsDistinct, FilesFresh
  <2>5. ReadPid'
    BY <1>0, <1>9 DEF IInv, ReadPid, SweepFails, SweepEnds, HolderKeepsFile, Inspected
  <2>6. Condemned'
    BY <1>0, <1>9 DEF IInv, Condemned, SweepFails, SweepEnds, RunsDistinct, Inspected, ReadPid
  <2>7. CleanAnswer'
    BY <1>0, <1>9 DEF IInv, CleanAnswer, SweepFails, SweepEnds, HolderKeepsFile
  <2>8. QED
    BY <1>0, <2>1, <2>2, <2>3, <2>4, <2>5, <2>6, <2>7 DEF IInv
<1>10. ASSUME NEW p \in Tanks, Refuse(p) PROVE IInv'
  <2>1. RunsDistinct'
    BY <1>0, <1>10 DEF IInv, RunsDistinct, Refuse, Answer, Forget, Busy
  <2>2. FilesFresh'
    BY <1>0, <1>10 DEF IInv, FilesFresh, Refuse, Answer, Forget, Busy, RunsDistinct
  <2>3. HolderKeepsFile'
    BY <1>0, <1>10 DEF IInv, HolderKeepsFile, Refuse, Answer, Forget, Busy, RunsDistinct, FilesFresh, Condemned
  <2>4. Inspected'
    BY <1>0, <1>10 DEF IInv, Inspected, Refuse, Answer, Forget, Busy, RunsDistinct, FilesFresh
  <2>5. ReadPid'
    BY <1>0, <1>10 DEF IInv, ReadPid, Refuse, Answer, Forget, Busy, HolderKeepsFile, Inspected
  <2>6. Condemned'
    BY <1>0, <1>10 DEF IInv, Condemned, Refuse, Answer, Forget, Busy, RunsDistinct, Inspected, ReadPid
  <2>7. CleanAnswer'
    BY <1>0, <1>10 DEF IInv, CleanAnswer, Refuse, Answer, Forget, Busy, HolderKeepsFile
  <2>8. QED
    BY <1>0, <2>1, <2>2, <2>3, <2>4, <2>5, <2>6, <2>7 DEF IInv
<1>11. ASSUME NEW p \in Tanks, Launch(p) PROVE IInv'
  <2>1. RunsDistinct'
    BY <1>0, <1>11 DEF IInv, RunsDistinct, Launch, Answer, Forget, Busy
  <2>2. FilesFresh'
    BY <1>0, <1>11 DEF IInv, FilesFresh, Launch, Answer, Forget, Busy, RunsDistinct
  <2>3. HolderKeepsFile'
    BY <1>0, <1>11 DEF IInv, HolderKeepsFile, Launch, Answer, Forget, Busy, RunsDistinct, FilesFresh, Condemned
  <2>4. Inspected'
    BY <1>0, <1>11 DEF IInv, Inspected, Launch, Answer, Forget, Busy, RunsDistinct, FilesFresh
  <2>5. ReadPid'
    BY <1>0, <1>11 DEF IInv, ReadPid, Launch, Answer, Forget, Busy, HolderKeepsFile, Inspected
  <2>6. Condemned'
    BY <1>0, <1>11 DEF IInv, Condemned, Launch, Answer, Forget, Busy, RunsDistinct, Inspected, ReadPid
  <2>7. CleanAnswer'
    BY <1>0, <1>11 DEF IInv, CleanAnswer, Launch, Answer, Forget, Busy, HolderKeepsFile
  <2>8. QED
    BY <1>0, <2>1, <2>2, <2>3, <2>4, <2>5, <2>6, <2>7 DEF IInv
<1>12. ASSUME NEW p \in Tanks, Retry(p) PROVE IInv'
  <2>1. RunsDistinct'
    BY <1>0, <1>12 DEF IInv, RunsDistinct, Retry, Answer, Forget, Busy
  <2>2. FilesFresh'
    BY <1>0, <1>12 DEF IInv, FilesFresh, Retry, Answer, Forget, Busy, RunsDistinct
  <2>3. HolderKeepsFile'
    BY <1>0, <1>12 DEF IInv, HolderKeepsFile, Retry, Answer, Forget, Busy, RunsDistinct, FilesFresh, Condemned
  <2>4. Inspected'
    BY <1>0, <1>12 DEF IInv, Inspected, Retry, Answer, Forget, Busy, RunsDistinct, FilesFresh
  <2>5. ReadPid'
    BY <1>0, <1>12 DEF IInv, ReadPid, Retry, Answer, Forget, Busy, HolderKeepsFile, Inspected
  <2>6. Condemned'
    BY <1>0, <1>12 DEF IInv, Condemned, Retry, Answer, Forget, Busy, RunsDistinct, Inspected, ReadPid
  <2>7. CleanAnswer'
    BY <1>0, <1>12 DEF IInv, CleanAnswer, Retry, Answer, Forget, Busy, HolderKeepsFile
  <2>8. QED
    BY <1>0, <2>1, <2>2, <2>3, <2>4, <2>5, <2>6, <2>7 DEF IInv
<1>13. ASSUME NEW p \in Tanks, Grant(p) PROVE IInv'
  <2>1. RunsDistinct'
    BY <1>0, <1>13 DEF IInv, RunsDistinct, Grant, Answer, Busy
  <2>2. FilesFresh'
    BY <1>0, <1>13 DEF IInv, FilesFresh, Grant, Answer, Busy, RunsDistinct
  <2>3. HolderKeepsFile'
    BY <1>0, <1>13 DEF IInv, HolderKeepsFile, Grant, Answer, Busy, RunsDistinct, FilesFresh, Condemned
  <2>4. Inspected'
    BY <1>0, <1>13 DEF IInv, Inspected, Grant, Answer, Busy, RunsDistinct, FilesFresh
  <2>5. ReadPid'
    BY <1>0, <1>13 DEF IInv, ReadPid, Grant, Answer, Busy, HolderKeepsFile, Inspected
  <2>6. Condemned'
    BY <1>0, <1>13 DEF IInv, Condemned, Grant, Answer, Busy, RunsDistinct, Inspected, ReadPid
  <2>7. CleanAnswer'
    BY <1>0, <1>13 DEF IInv, CleanAnswer, Grant, Answer, Busy, HolderKeepsFile
  <2>8. QED
    BY <1>0, <2>1, <2>2, <2>3, <2>4, <2>5, <2>6, <2>7 DEF IInv
<1>14. ASSUME NEW p \in Tanks, Loop(p) PROVE IInv'
  <2>1. RunsDistinct'
    BY <1>0, <1>14 DEF IInv, RunsDistinct, Loop
  <2>2. FilesFresh'
    BY <1>0, <1>14 DEF IInv, FilesFresh, Loop, RunsDistinct
  <2>3. HolderKeepsFile'
    BY <1>0, <1>14 DEF IInv, HolderKeepsFile, Loop, RunsDistinct, FilesFresh, Condemned
  <2>4. Inspected'
    BY <1>0, <1>14 DEF IInv, Inspected, Loop, RunsDistinct, FilesFresh
  <2>5. ReadPid'
    BY <1>0, <1>14 DEF IInv, ReadPid, Loop, HolderKeepsFile, Inspected
  <2>6. Condemned'
    BY <1>0, <1>14 DEF IInv, Condemned, Loop, RunsDistinct, Inspected, ReadPid
  <2>7. CleanAnswer'
    BY <1>0, <1>14 DEF IInv, CleanAnswer, Loop, HolderKeepsFile
  <2>8. QED
    BY <1>0, <2>1, <2>2, <2>3, <2>4, <2>5, <2>6, <2>7 DEF IInv
<1>15. ASSUME NEW p \in Tanks, Create(p) PROVE IInv'
  <2>1. RunsDistinct'
    BY <1>0, <1>15 DEF IInv, RunsDistinct, Create
  <2>2. FilesFresh'
    <3>1. run[p] \in 1 .. runs
      BY <1>0, <1>15 DEF IInv, RunsDistinct, Create
    <3>2. \A f \in Runs : f # run[p] => dir'[f] = dir[f]
      BY <1>0, <1>15 DEF Create
    <3>3. \A q \in Tanks : Active(q) /\ q # p => dir'[run[q]] = dir[run[q]]
      BY <1>a, <1>15, <3>2 DEF Create
    <3>4. \A f \in Runs : f > runs => f # run[p]
      BY <1>0, <3>1
    <3>5. \A f \in Runs : f > runs' => dir'[f] = Absent
      BY <1>15, <3>2, <3>4 DEF IInv, FilesFresh, Create
    <3>6. QED
      BY <1>0, <1>15, <3>3, <3>5 DEF IInv, FilesFresh, Create
  <2>3. HolderKeepsFile'
    BY <1>0, <1>15 DEF IInv, HolderKeepsFile, Create, RunsDistinct, FilesFresh, Condemned
  <2>4. Inspected'
    BY <1>0, <1>15 DEF IInv, Inspected, Create, RunsDistinct, FilesFresh
  <2>5. ReadPid'
    <3>1. \A s \in Tanks : pc[s] = "check" => cur[s] # run[p]
      BY <1>0, <1>15 DEF IInv, Inspected, Create
    <3>2. QED
      BY <1>0, <1>15, <3>1 DEF IInv, ReadPid, Create
  <2>6. Condemned'
    BY <1>0, <1>15 DEF IInv, Condemned, Create, RunsDistinct, Inspected, ReadPid
  <2>7. CleanAnswer'
    BY <1>0, <1>15 DEF IInv, CleanAnswer, Create, HolderKeepsFile
  <2>8. QED
    BY <1>0, <2>1, <2>2, <2>3, <2>4, <2>5, <2>6, <2>7 DEF IInv
<1>16. ASSUME NEW p \in Tanks, Write(p) PROVE IInv'
  <2>1. RunsDistinct'
    BY <1>0, <1>16 DEF IInv, RunsDistinct, Write
  <2>2. FilesFresh'
    <3>1. run[p] \in 1 .. runs
      BY <1>0, <1>16 DEF IInv, RunsDistinct, Write
    <3>2. \A f \in Runs : f # run[p] => dir'[f] = dir[f]
      BY <1>0, <1>16 DEF Write
    <3>3. \A q \in Tanks : Active(q) /\ q # p => dir'[run[q]] = dir[run[q]]
      BY <1>a, <1>16, <3>2 DEF Write
    <3>4. \A f \in Runs : f > runs => f # run[p]
      BY <1>0, <3>1
    <3>5. \A f \in Runs : f > runs' => dir'[f] = Absent
      BY <1>16, <3>2, <3>4 DEF IInv, FilesFresh, Write
    <3>6. QED
      BY <1>0, <1>16, <3>3, <3>5 DEF IInv, FilesFresh, Write
  <2>3. HolderKeepsFile'
    <3>1. run[p] \in Runs
      BY <1>0, <1>16 DEF IInv, RunsDistinct, Write
    <3>2. \A q \in Tanks : Owns(q) /\ q # p => dir'[run[q]] = dir[run[q]]
      BY <1>0, <1>a, <1>16 DEF Write
    <3>3. QED
      BY <1>0, <1>16, <3>1, <3>2 DEF IInv, HolderKeepsFile, Write
  <2>4. Inspected'
    BY <1>0, <1>16 DEF IInv, Inspected, Write, RunsDistinct, FilesFresh
  <2>5. ReadPid'
    BY <1>0, <1>16 DEF IInv, ReadPid, Write, HolderKeepsFile, Inspected
  <2>6. Condemned'
    BY <1>0, <1>16 DEF IInv, Condemned, Write, RunsDistinct, Inspected, ReadPid
  <2>7. CleanAnswer'
    BY <1>0, <1>16 DEF IInv, CleanAnswer, Write, HolderKeepsFile
  <2>8. QED
    BY <1>0, <2>1, <2>2, <2>3, <2>4, <2>5, <2>6, <2>7 DEF IInv
<1>17. ASSUME NEW p \in Tanks, WriteFails(p) PROVE IInv'
  <2>1. RunsDistinct'
    BY <1>0, <1>17 DEF IInv, RunsDistinct, WriteFails
  <2>2. FilesFresh'
    BY <1>0, <1>17 DEF IInv, FilesFresh, WriteFails, RunsDistinct
  <2>3. HolderKeepsFile'
    BY <1>0, <1>17 DEF IInv, HolderKeepsFile, WriteFails, RunsDistinct, FilesFresh, Condemned
  <2>4. Inspected'
    BY <1>0, <1>17 DEF IInv, Inspected, WriteFails, RunsDistinct, FilesFresh
  <2>5. ReadPid'
    BY <1>0, <1>17 DEF IInv, ReadPid, WriteFails, HolderKeepsFile, Inspected
  <2>6. Condemned'
    BY <1>0, <1>17 DEF IInv, Condemned, WriteFails, RunsDistinct, Inspected, ReadPid
  <2>7. CleanAnswer'
    BY <1>0, <1>17 DEF IInv, CleanAnswer, WriteFails, HolderKeepsFile
  <2>8. QED
    BY <1>0, <2>1, <2>2, <2>3, <2>4, <2>5, <2>6, <2>7 DEF IInv
<1>18. ASSUME NEW p \in Tanks, EndTest(p) PROVE IInv'
  <2>1. RunsDistinct'
    BY <1>0, <1>18 DEF IInv, RunsDistinct, EndTest
  <2>2. FilesFresh'
    BY <1>0, <1>18 DEF IInv, FilesFresh, EndTest, RunsDistinct
  <2>3. HolderKeepsFile'
    BY <1>0, <1>18 DEF IInv, HolderKeepsFile, EndTest, RunsDistinct, FilesFresh, Condemned
  <2>4. Inspected'
    BY <1>0, <1>18 DEF IInv, Inspected, EndTest, RunsDistinct, FilesFresh
  <2>5. ReadPid'
    BY <1>0, <1>18 DEF IInv, ReadPid, EndTest, HolderKeepsFile, Inspected
  <2>6. Condemned'
    BY <1>0, <1>18 DEF IInv, Condemned, EndTest, RunsDistinct, Inspected, ReadPid
  <2>7. CleanAnswer'
    BY <1>0, <1>18 DEF IInv, CleanAnswer, EndTest, HolderKeepsFile
  <2>8. QED
    BY <1>0, <2>1, <2>2, <2>3, <2>4, <2>5, <2>6, <2>7 DEF IInv
<1>19. ASSUME NEW p \in Tanks, Release(p) PROVE IInv'
  <2>1. RunsDistinct'
    BY <1>0, <1>19 DEF IInv, RunsDistinct, Release
  <2>2. FilesFresh'
    BY <1>0, <1>19 DEF IInv, FilesFresh, Release, RunsDistinct
  <2>3. HolderKeepsFile'
    BY <1>0, <1>19 DEF IInv, HolderKeepsFile, Release, RunsDistinct, FilesFresh, Condemned
  <2>4. Inspected'
    BY <1>0, <1>19 DEF IInv, Inspected, Release, RunsDistinct, FilesFresh
  <2>5. ReadPid'
    BY <1>0, <1>19 DEF IInv, ReadPid, Release, HolderKeepsFile, Inspected
  <2>6. Condemned'
    BY <1>0, <1>19 DEF IInv, Condemned, Release, RunsDistinct, Inspected, ReadPid
  <2>7. CleanAnswer'
    BY <1>0, <1>19 DEF IInv, CleanAnswer, Release, HolderKeepsFile
  <2>8. QED
    BY <1>0, <2>1, <2>2, <2>3, <2>4, <2>5, <2>6, <2>7 DEF IInv
<1>20. ASSUME NEW p \in Tanks, Unlink(p) PROVE IInv'
  <2>1. RunsDistinct'
    BY <1>0, <1>20 DEF IInv, RunsDistinct, Unlink
  <2>2. FilesFresh'
    BY <1>0, <1>20 DEF IInv, FilesFresh, Unlink, RunsDistinct
  <2>3. HolderKeepsFile'
    BY <1>0, <1>20 DEF IInv, HolderKeepsFile, Unlink, RunsDistinct, FilesFresh, Condemned
  <2>4. Inspected'
    BY <1>0, <1>20 DEF IInv, Inspected, Unlink, RunsDistinct, FilesFresh
  <2>5. ReadPid'
    BY <1>0, <1>20 DEF IInv, ReadPid, Unlink, HolderKeepsFile, Inspected
  <2>6. Condemned'
    BY <1>0, <1>20 DEF IInv, Condemned, Unlink, RunsDistinct, Inspected, ReadPid
  <2>7. CleanAnswer'
    BY <1>0, <1>20 DEF IInv, CleanAnswer, Unlink, HolderKeepsFile
  <2>8. QED
    BY <1>0, <2>1, <2>2, <2>3, <2>4, <2>5, <2>6, <2>7 DEF IInv
<1>21. ASSUME NEW p \in Tanks, Stop(p) PROVE IInv'
  <2>1. RunsDistinct'
    BY <1>0, <1>21 DEF IInv, RunsDistinct, Stop
  <2>2. FilesFresh'
    BY <1>0, <1>21 DEF IInv, FilesFresh, Stop, RunsDistinct
  <2>3. HolderKeepsFile'
    BY <1>0, <1>21 DEF IInv, HolderKeepsFile, Stop, RunsDistinct, FilesFresh, Condemned
  <2>4. Inspected'
    BY <1>0, <1>21 DEF IInv, Inspected, Stop, RunsDistinct, FilesFresh
  <2>5. ReadPid'
    BY <1>0, <1>21 DEF IInv, ReadPid, Stop, HolderKeepsFile, Inspected
  <2>6. Condemned'
    BY <1>0, <1>21 DEF IInv, Condemned, Stop, RunsDistinct, Inspected, ReadPid
  <2>7. CleanAnswer'
    BY <1>0, <1>21 DEF IInv, CleanAnswer, Stop, HolderKeepsFile
  <2>8. QED
    BY <1>0, <2>1, <2>2, <2>3, <2>4, <2>5, <2>6, <2>7 DEF IInv
<1>22. ASSUME NEW p \in Tanks, Reap(p) PROVE IInv'
  <2>1. RunsDistinct'
    BY <1>0, <1>22 DEF IInv, RunsDistinct, Reap
  <2>2. FilesFresh'
    BY <1>0, <1>22 DEF IInv, FilesFresh, Reap, RunsDistinct
  <2>3. HolderKeepsFile'
    BY <1>0, <1>22 DEF IInv, HolderKeepsFile, Reap, RunsDistinct, FilesFresh, Condemned
  <2>4. Inspected'
    BY <1>0, <1>22 DEF IInv, Inspected, Reap, RunsDistinct, FilesFresh
  <2>5. ReadPid'
    BY <1>0, <1>22 DEF IInv, ReadPid, Reap, HolderKeepsFile, Inspected
  <2>6. Condemned'
    BY <1>0, <1>22 DEF IInv, Condemned, Reap, RunsDistinct, Inspected, ReadPid
  <2>7. CleanAnswer'
    BY <1>0, <1>22 DEF IInv, CleanAnswer, Reap, HolderKeepsFile
  <2>8. QED
    BY <1>0, <2>1, <2>2, <2>3, <2>4, <2>5, <2>6, <2>7 DEF IInv
<1>23. ASSUME NEW p \in Tanks, Kill(p) PROVE IInv'
  <2>1. RunsDistinct'
    BY <1>0, <1>23 DEF IInv, RunsDistinct, Kill
  <2>2. FilesFresh'
    BY <1>0, <1>23 DEF IInv, FilesFresh, Kill, RunsDistinct
  <2>3. HolderKeepsFile'
    BY <1>0, <1>23 DEF IInv, HolderKeepsFile, Kill, RunsDistinct, FilesFresh, Condemned
  <2>4. Inspected'
    BY <1>0, <1>23 DEF IInv, Inspected, Kill, RunsDistinct, FilesFresh
  <2>5. ReadPid'
    BY <1>0, <1>23 DEF IInv, ReadPid, Kill, HolderKeepsFile, Inspected
  <2>6. Condemned'
    BY <1>0, <1>23 DEF IInv, Condemned, Kill, RunsDistinct, Inspected, ReadPid
  <2>7. CleanAnswer'
    BY <1>0, <1>23 DEF IInv, CleanAnswer, Kill, HolderKeepsFile
  <2>8. QED
    BY <1>0, <2>1, <2>2, <2>3, <2>4, <2>5, <2>6, <2>7 DEF IInv
<1>24. QED
  BY <1>1, <1>2, <1>3, <1>4, <1>5, <1>6, <1>7, <1>8, <1>9, <1>10, <1>11,
     <1>12, <1>13, <1>14, <1>15, <1>16, <1>17, <1>18, <1>19, <1>20, <1>21,
     <1>22, <1>23
     DEF Next, IsLocked, Load, GetLock, LetGo, Abort

----------------------------------------------------------------------------
\* The strengthened invariant holds of every reachable state.
THEOREM Inductive == Spec => []IInv
<1>1. Init => IInv
  <2>1. Init => TypeOK
    BY LockAssumption DEF LockAssumption, Init, TypeOK, Runs, PC
  <2>2. QED
    BY <2>1, LockAssumption
       DEF LockAssumption, Init, IInv, RunsDistinct, FilesFresh, HolderKeepsFile,
           Inspected, Inspecting, ReadPid, Condemned, CleanAnswer, Active, Owns,
           Owning, Scanning, Runs
<1>2. IInv /\ [Next]_vars => IInv'
  BY StepIInv
<1>3. QED
  BY <1>1, <1>2, PTL DEF Spec

\* No tank's lock file is taken for a stale one while the tank runs.
THEOREM HolderSafe == Spec => []HolderKeepsFile
BY Inductive, PTL DEF IInv

\* Two tanks only ever shoot together if their acquire calls raced, if one of
\* them met a stale lock, or if one ignores locks.
THEOREM OverlapOnlyByRace == Spec => []NoOverlap
<1>1. IInv => NoOverlap
  BY DEF IInv, CleanAnswer, NoOverlap
<1>2. QED
  BY <1>1, Inductive, PTL

\* Whatever removes the lock file of a running process is that process.
THEOREM RemovalByOwner == Spec => OnlyOwnerRemoves
<1> DEFINE Own(p) == Active(p) /\ run[p] \in Runs /\ dir[run[p]] # Absent
                       /\ dir'[run[p]] = Absent
                         => pc[p] = "unlink" /\ pc'[p] = "exited"
<1>1. ASSUME IInv, [Next]_vars PROVE [\A p \in Tanks : Own(p)]_vars
  <2>0. TypeOK
    BY <1>1 DEF IInv
  <2> SUFFICES ASSUME NEW p \in Tanks, Active(p), run[p] \in Runs,
                      dir[run[p]] # Absent, dir'[run[p]] = Absent, ~UNCHANGED vars
               PROVE  pc[p] = "unlink" /\ pc'[p] = "exited"
    OBVIOUS
  <2>1. PICK q \in Tanks : Sweep(q) \/ Create(q) \/ Write(q) \/ Unlink(q)
    BY <1>1 DEF Next, IsLocked, GetLock, LetGo, Abort, Start, ListNone, ListFile,
                Listed, Load, LoadFails, LoadPid, Check, SweepFails, Refuse,
                Launch, Retry, Grant, Answer, Loop, WriteFails, EndTest,
                Release, Stop, Reap, Kill
  <2>2. ~Sweep(q)
    BY <1>1, <2>0 DEF IInv, Condemned, Sweep, SweepEnds, TypeOK
  <2>3. ~Create(q) /\ ~Write(q)
    BY <2>0, LockAssumption DEF LockAssumption, Create, Write, TypeOK
  <2>4. Unlink(q) /\ run[q] = run[p]
    BY <2>0, <2>1, <2>2, <2>3 DEF Unlink, TypeOK
  <2>5. q = p
    BY <1>1, <2>4 DEF IInv, RunsDistinct, Unlink, Active
  <2>6. QED
    BY <2>0, <2>4, <2>5 DEF Unlink, TypeOK
<1>2. QED
  BY <1>1, Inductive, PTL DEF Spec, OnlyOwnerRemoves

\* Every way out of run() that is not a crash releases the lock.
THEOREM LeakFree == Spec => []NoLeak
<1>1. Init => NoLeak
  BY DEF Init, NoLeak
<1>2. ASSUME IInv, NoLeak, [Next]_vars PROVE NoLeak'
  <2>0. TypeOK
    BY <1>2 DEF IInv
  <2>1. lost \subseteq lost'
    BY <1>2 DEF Next, vars, IsLocked, GetLock, LetGo, Abort, Start, ListNone,
                ListFile, Listed, Load, LoadFails, LoadPid, Check, Sweep,
                SweepFails, SweepEnds, Refuse, Launch, Retry, Grant, Answer,
                Loop, Create, Write, WriteFails, EndTest, Release, Unlink, Stop,
                Reap, Kill
  <2> SUFFICES ASSUME NEW f \in Runs, dir'[f] # Absent, f \notin lost'
               PROVE  \E p \in Tanks : (Owns(p) /\ run[p] = f)'
    BY DEF NoLeak
  <2>2. CASE dir[f] # Absent
    <3>1. PICK p \in Tanks : Owns(p) /\ run[p] = f
      BY <1>2, <2>1, <2>2 DEF NoLeak
    <3>2. dir[f] = p \/ pc[p] = "write"
      BY <1>2, <3>1 DEF IInv, HolderKeepsFile, Owns, Owning
    <3>3. CASE UNCHANGED vars
      BY <3>1, <3>3 DEF vars, Owns
    <3>4. ASSUME NEW q \in Tanks, q # p, Start(q) \/ IsLocked(q) \/ GetLock(q)
                                           \/ LetGo(q) \/ Abort(q)
          PROVE  pc'[p] = pc[p] /\ run'[p] = run[p]
      BY <2>0, <3>4
         DEF TypeOK, IsLocked, GetLock, LetGo, Abort, Start, ListNone, ListFile,
             Listed, Load, LoadFails, LoadPid, Check, Sweep, SweepFails,
             SweepEnds, Refuse, Launch, Retry, Grant, Answer, Loop, Create,
             Write, WriteFails, EndTest, Release, Unlink, Stop, Reap, Kill
    <3>5. ASSUME Start(p) \/ IsLocked(p) \/ GetLock(p) \/ LetGo(p) \/ Abort(p)
          PROVE  Write(p) \/ WriteFails(p) \/ EndTest(p) \/ Release(p) \/ Unlink(p)
                   \/ Kill(p)
      BY <3>1, <3>5
         DEF Owns, Owning, Scanning, IsLocked, GetLock, LetGo, Abort, Start, ListNone,
             ListFile, Listed, Load, LoadFails, LoadPid, Check, Sweep, SweepFails,
             SweepEnds, Refuse, Launch, Retry, Grant, Answer, Loop, Create, Stop, Reap
    <3>6. ASSUME WriteFails(p) \/ Kill(p) PROVE FALSE
      BY <3>1, <3>6 DEF WriteFails, Kill
    <3>7. ASSUME Write(p) \/ EndTest(p) \/ Release(p) PROVE (Owns(p) /\ run[p] = f)'
      BY <2>0, <2>2, <3>1, <3>7 DEF TypeOK, Owns, Owning, Write, EndTest, Release
    <3>8. ASSUME Unlink(p) PROVE FALSE
      BY <2>0, <3>1, <3>8 DEF TypeOK, Unlink
    <3>9. QED
      BY <1>2, <3>1, <3>3, <3>4, <3>5, <3>6, <3>7, <3>8 DEF Next, Owns
  <2>3. CASE dir[f] = Absent
    <3>1. PICK p \in Tanks : Create(p) \/ Write(p)
      BY <1>2, <2>0, <2>3
         DEF TypeOK, Next, vars, IsLocked, GetLock, LetGo, Abort, Start, ListNone,
             ListFile, Listed, Load, LoadFails, LoadPid, Check, Sweep, SweepFails,
             SweepEnds, Refuse, Launch, Retry, Grant, Answer, Loop, WriteFails,
             EndTest, Release, Unlink, Stop, Reap, Kill
    <3>2. run[p] = f
      BY <2>0, <2>3, <3>1 DEF TypeOK, Create, Write
    <3>3. QED
      BY <2>0, <3>1, <3>2 DEF TypeOK, Owns, Owning, Create, Write
  <2>4. QED
    BY <2>2, <2>3
<1>3. QED
  BY <1>1, <1>2, Inductive, PTL DEF Spec

\* Tanks run together only by a race, the file of a running tank stays, and only
\* lost runs leave one behind (Lock in tankcore.py).
THEOREM LockIsSafe == Spec => []LockSafe
<1>1. LockSafe <=> NoOverlap /\ HolderKeepsFile /\ NoLeak
  BY DEF LockSafe
<1>2. QED
  BY <1>1, OverlapOnlyByRace, HolderSafe, LeakFree, PTL
=============================================================================
