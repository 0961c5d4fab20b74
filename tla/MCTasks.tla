------------------------------- MODULE MCTasks -------------------------------
(* Instances of Tasks: a flat board, and a parent with its subtasks. *)
EXTENDS Tasks

CONSTANTS t1, t2, t3, a1, a2

NoParents == [t \in Task |-> NoTask]

\* t1 is the parent of every other task.
OneParent == [t \in Task |-> IF t = t1 THEN NoTask ELSE t1]

\* Two handlers at once, while nobody archives or deletes: they only read the status.
RaceNext ==
    /\ Next
    /\ \A t \in Task : row'[t].status # "deleted" /\ ~row'[t].archived

RaceSpec == Init /\ [][RaceNext]_vars /\ \A r \in Req : WF_vars(Handle(r))
==============================================================================
