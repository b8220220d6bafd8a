----------------------------- MODULE TankStatus -----------------------------
(***************************************************************************)
(* What a TankWorker promises to the process that polls its status and its *)
(* return code: the order of the statuses, that no load is given before    *)
(* the command to shoot, that a test which did not reach post-processing   *)
(* is never finished with code 0, and that nothing changes afterwards.     *)
(***************************************************************************)
EXTENDS Integers

VARIABLES
    status,  \* TankWorker.status
    code,    \* TankWorker.retcode
    shoot,   \* the command to shoot was given
    over,    \* the process ended
    killed   \* ... in the middle of something

vars == <<status, code, shoot, over, killed>>

Init ==
    /\ status = "INITIATED"
    /\ code = 0
    /\ shoot \in BOOLEAN
    /\ over = FALSE /\ killed = FALSE

\* A step of the worker from one of the statuses `from`.
Step(from, to) ==
    /\ ~over
    /\ status \in from
    /\ status' = to
    /\ UNCHANGED <<shoot, over, killed>>

Prepare == Step({"INITIATED"}, "PREPARING") /\ UNCHANGED code
Wait    == Step({"PREPARING"}, "WAITING") /\ ~shoot /\ UNCHANGED code
Run     == Step({"PREPARING", "WAITING"}, "RUNNING") /\ shoot /\ UNCHANGED code
End     == Step({"PREPARING", "WAITING", "RUNNING"}, "FINISHING")
Post    == Step({"FINISHING"}, "POST_PROCESS")

\* The run breaks off, or post-processing gives its code.
Break   == ~over /\ status # "FINISHED" /\ code' = 1 /\ UNCHANGED <<status, shoot, over, killed>>
Result  == Step({"POST_PROCESS"}, "POST_PROCESS")

\* The test is finished: by post-processing, or with another code than 0.
Finished ==
    /\ Step({"INITIATED", "PREPARING", "FINISHING", "POST_PROCESS"}, "FINISHED")
    /\ status = "POST_PROCESS" \/ code # 0
    /\ UNCHANGED code

Shoot == ~shoot /\ shoot' = TRUE /\ UNCHANGED <<status, code, over, killed>>

\* The process ends; the status stays what it is if it could not be saved or if
\* the process was killed.
Over ==
    /\ ~over /\ over' = TRUE
    /\ killed' \in BOOLEAN
    /\ UNCHANGED <<status, code, shoot>>

Next == Prepare \/ Wait \/ Run \/ End \/ Post \/ Break \/ Result \/ Finished \/ Shoot \/ Over

Spec == Init /\ [][Next]_vars
=============================================================================
