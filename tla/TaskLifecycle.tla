---------------------------- MODULE TaskLifecycle ----------------------------
(***************************************************************************)
(* What the task board promises: one status per task, moved one edge of    *)
(* the transition table at a time.  The README calls it a strict state     *)
(* machine.  Module Tasks is the request handlers that implement it.       *)
(***************************************************************************)
EXTENDS TaskStatus

CONSTANT Task

VARIABLE status

Init == status = [t \in Task |-> "absent"]

Dispatch(t) ==
    /\ status[t] = "absent"
    /\ status' = [status EXCEPT ![t] = "pending"]

Move(t, to) ==
    /\ status[t] \in Status
    /\ to \in ValidTransitions[status[t]]
    /\ status' = [status EXCEPT ![t] = to]

Delete(t) ==
    /\ status[t] \in Status
    /\ status' = [status EXCEPT ![t] = "deleted"]

Next == \E t \in Task : Dispatch(t) \/ Delete(t) \/ \E to \in Status : Move(t, to)

Spec == Init /\ [][Next]_status
==============================================================================
