-------------------------------- MODULE Tasks --------------------------------
(***************************************************************************)
(* The task board: rows of the tasks table and the request handlers that   *)
(* move them (internal/db/tasks.go, internal/relay/handlers.go, api.go).   *)
(*                                                                         *)
(* A handler reads a row through the reader pool and later writes it       *)
(* through the single writer connection.  The two are separate steps and   *)
(* the UPDATE names the row only, not the status that was checked.  Every  *)
(* statement is one step here, so handlers interleave between statements.  *)
(***************************************************************************)
EXTENDS TaskStatus, Naturals, FiniteSets

CONSTANTS
    Task,     \* task identifiers
    Req,      \* request handlers (goroutines) that may run at once
    Caller,   \* names requests are made under, User possibly among them
    User,     \* the operator: its moves are not validated
    Nobody,   \* assigned_to IS NULL
    NoTask,   \* parent_task_id IS NULL
    Parent,   \* the parent_task_id each task is dispatched with
    Doors,    \* "mcp": tool handlers; "rest": POST /tasks/{id}/transition
    Asked,    \* the statuses requests ask for
    MaxBatch  \* bound: tasks in one batch_complete_tasks call

ASSUME TaskAssumption ==
    /\ User # Nobody
    /\ Nobody \notin Caller
    /\ NoTask \notin Task
    /\ IsFiniteSet(Task)
    /\ Parent \in [Task -> Task \cup {NoTask}]
    /\ Doors \subseteq {"mcp", "rest"}
    /\ Asked \subseteq Status
    /\ MaxBatch \in Nat \ {0}

VARIABLES
    row,      \* row[t]: the tasks row of t
    req       \* req[r]: where handler r is, and what it remembers

vars == <<row, req>>

Row == [status : Status \cup Missing, assigned : Caller \cup {Nobody}, archived : BOOLEAN]

(***************************************************************************)
(* A handler first works through todo, the tasks of its request (several   *)
(* for batch_complete_tasks): read and validate, then write.  It then      *)
(* runs the task-ready trigger for each parent it collected: read the      *)
(* parent, count its subtasks, count the resolved ones, and reset it with  *)
(* the same read-then-write.  seen and total are what it read.             *)
(***************************************************************************)
Steps == {"item", "write", "total", "count", "reset", "rewrite"}

Request == [pc : Steps, who : Caller, door : {"mcp", "rest"}, to : Status,
            todo : SUBSET Task, parents : SUBSET Task, cur : Task,
            seen : Status, total : Nat]

Idle == [pc |-> "idle"]

TypeOK ==
    /\ row \in [Task -> Row]
    /\ req \in [Req -> Request \cup {Idle}]

Exists(t) == row[t].status \in Status

Blocked(t) == row[t].status = "blocked"

Subtasks(p) == {t \in Task : Exists(t) /\ Parent[t] = p}

ResolvedSubtasks(p) == {t \in Subtasks(p) : row[t].status \in Terminal}

AllResolved(p) == Subtasks(p) # {} /\ Subtasks(p) \subseteq ResolvedSubtasks(p)

Init ==
    /\ row = [t \in Task |-> [status |-> "absent", assigned |-> Nobody, archived |-> FALSE]]
    /\ req = [r \in Req |-> Idle]

-----------------------------------------------------------------------------
(***************************************************************************)
(* One statement each: INSERT, archive, DELETE.                            *)
(***************************************************************************)

Dispatch(t) ==
    /\ row[t].status = "absent"
    /\ row' = [row EXCEPT ![t].status = "pending"]
    /\ UNCHANGED req

\* archive_tasks: every row of the given statuses; board_id may narrow it to the
\* rows of one board.
ArchiveTasks(statuses, board) ==
    /\ row' = [t \in Task |->
                 IF t \in board /\ row[t].status \in statuses
                 THEN [row[t] EXCEPT !.archived = TRUE] ELSE row[t]]
    /\ UNCHANGED req

DeleteTask(t) ==
    /\ Exists(t)
    /\ row' = [row EXCEPT ![t].status = "deleted", ![t].assigned = Nobody]
    /\ UNCHANGED req

-----------------------------------------------------------------------------
(***************************************************************************)
(* transitionTask: GetTask and validation, then the UPDATE.                *)
(***************************************************************************)

\* A bug that validates nobody's moves, as if every caller were the operator.
MutUnvalidated(who, from, to) == TRUE

Validated(who, from, to) == who = User \/ to \in ValidTransitions[from]

\* A bug that forgets assigned_to = NULL when a task goes back to pending.
MutKeepAssignee(old, to, who) ==
    [old EXCEPT !.status = to,
                !.assigned = IF to \in {"accepted", "in-progress"} THEN who ELSE @]

\* The columns the UPDATE of each status sets.
Updated(old, to, who) ==
    [old EXCEPT !.status = to,
                !.assigned = CASE to = "pending" -> Nobody
                               [] to \in {"accepted", "in-progress"} -> who
                               [] OTHER -> @]

\* UPDATE ... WHERE id = ?: no row, no effect, and no error either.
Update(t, to, who) ==
    row' = IF Exists(t) THEN [row EXCEPT ![t] = Updated(@, to, who)] ELSE row

\* The handler returns once it has no task and no parent left.
Settle(q) == IF q.todo = {} /\ q.parents = {} THEN Idle ELSE [q EXCEPT !.pc = "item"]

Begin(r, who, door, to, todo) ==
    /\ req[r] = Idle
    /\ door = "mcp" => to # "pending"
    /\ Cardinality(todo) <= IF door = "mcp" /\ to = "done" THEN MaxBatch ELSE 1
    /\ req' = [req EXCEPT ![r] =
                 [pc |-> "item", who |-> who, door |-> door, to |-> to, todo |-> todo,
                  parents |-> {}, cur |-> CHOOSE t \in todo : TRUE,
                  seen |-> "pending", total |-> 0]]
    /\ UNCHANGED row

\* Reads and validates t; a refused item is dropped with an error.
ReadTask(r, t) ==
    /\ req[r].pc = "item"
    /\ t \in req[r].todo
    /\ LET q == req[r] IN
         req' = [req EXCEPT ![r] =
                   IF Exists(t) /\ Validated(q.who, row[t].status, q.to)
                   THEN [q EXCEPT !.pc = "write", !.cur = t, !.seen = row[t].status]
                   ELSE Settle([q EXCEPT !.todo = @ \ {t}])]
    /\ UNCHANGED row

\* A bug that forgets that parent_task_id may be NULL.
MutNilParent(q) ==
    IF q.door = "mcp" /\ q.to \in Terminal THEN {Parent[q.cur]} ELSE {}

\* complete, batch-complete and cancel tools fire the task-ready trigger of the
\* parent; the REST endpoint does not.
TriggeredParent(q) ==
    IF q.door = "mcp" /\ q.to \in Terminal /\ Parent[q.cur] # NoTask
    THEN {Parent[q.cur]} ELSE {}

WriteTask(r) ==
    /\ req[r].pc = "write"
    /\ LET q == req[r] IN
         /\ Update(q.cur, q.to, q.who)
         /\ req' = [req EXCEPT ![r] =
                      Settle([q EXCEPT !.todo = @ \ {q.cur},
                                       !.parents = @ \cup TriggeredParent(q)])]

-----------------------------------------------------------------------------
(***************************************************************************)
(* readyBlockedParent.                                                     *)
(***************************************************************************)

\* The trigger is done with its current parent.
Ready(q) == Settle([q EXCEPT !.parents = @ \ {q.cur}])

ReadParent(r, p) ==
    /\ req[r].pc = "item"
    /\ req[r].todo = {}
    /\ p \in req[r].parents
    /\ LET q == [req[r] EXCEPT !.cur = p] IN
         req' = [req EXCEPT ![r] = IF Blocked(p) THEN [q EXCEPT !.pc = "total"] ELSE Ready(q)]
    /\ UNCHANGED row

\* The first count of CheckSubtasksComplete.
CountSubtasks(r) ==
    /\ req[r].pc = "total"
    /\ LET q == req[r]
           n == Cardinality(Subtasks(q.cur)) IN
         req' = [req EXCEPT ![r] = IF n = 0 THEN Ready(q)
                                   ELSE [q EXCEPT !.pc = "count", !.total = n]]
    /\ UNCHANGED row

\* A bug that compares the two counts with > instead of >=.
MutCountStrict(r) ==
    /\ req[r].pc = "count"
    /\ LET q == req[r] IN
         req' = [req EXCEPT ![r] = IF Cardinality(ResolvedSubtasks(q.cur)) > q.total
                                   THEN [q EXCEPT !.pc = "reset"] ELSE Ready(q)]
    /\ UNCHANGED row

\* The second count, compared with the first.
CountResolved(r) ==
    /\ req[r].pc = "count"
    /\ LET q == req[r] IN
         req' = [req EXCEPT ![r] = IF Cardinality(ResolvedSubtasks(q.cur)) >= q.total
                                   THEN [q EXCEPT !.pc = "reset"] ELSE Ready(q)]
    /\ UNCHANGED row

\* ResetTask reads and validates the parent once more ...
ReadReset(r) ==
    /\ req[r].pc = "reset"
    /\ LET q == req[r]
           s == row[q.cur].status IN
         req' = [req EXCEPT ![r] =
                   IF Exists(q.cur) /\ Validated(q.who, s, "pending")
                   THEN [q EXCEPT !.pc = "rewrite", !.seen = s]
                   ELSE Ready(q)]
    /\ UNCHANGED row

\* ... and writes it.
WriteReset(r) ==
    /\ req[r].pc = "rewrite"
    /\ Update(req[r].cur, "pending", req[r].who)
    /\ req' = [req EXCEPT ![r] = Ready(@)]

-----------------------------------------------------------------------------

Handle(r) ==
    \/ \E t \in Task : ReadTask(r, t) \/ ReadParent(r, t)
    \/ WriteTask(r)
    \/ CountSubtasks(r)
    \/ CountResolved(r)
    \/ ReadReset(r)
    \/ WriteReset(r)

Submit(r) ==
    \E who \in Caller, door \in Doors, to \in Asked, todo \in (SUBSET Task) \ {{}} :
        Begin(r, who, door, to, todo)

\* archive_tasks takes any status, resolved or not, and archives the resolved tasks
\* when it is given none; archive_board archives all tasks of the board.
Housekeeping ==
    \/ \E t \in Task : Dispatch(t)
    \/ \E t \in Task : DeleteTask(t)
    \/ \E statuses \in {Terminal, Status} \cup {{s} : s \in Status}, board \in SUBSET Task :
          ArchiveTasks(statuses, board)

Next == Housekeeping \/ \E r \in Req : Submit(r) \/ Handle(r)

Spec == Init /\ [][Next]_vars

\* A handler that has begun runs on: its goroutine is scheduled and its
\* statements return.  Nothing makes anybody submit a request.
FairSpec == Spec /\ \A r \in Req : WF_vars(Handle(r))

-----------------------------------------------------------------------------
(***************************************************************************)
(* Properties.                                                             *)
(***************************************************************************)

Writing(r, t) == req[r].pc \in {"write", "rewrite"} /\ req[r].cur = t

IllegalMove(t) ==
    /\ Exists(t)
    /\ row'[t].status \in Status \ {row[t].status}
    /\ row'[t].status \notin ValidTransitions[row[t].status]

\* A move outside the transition table happens only through the operator, or
\* through a handler that validated a status the row no longer has: the missing
\* status in the UPDATE's WHERE clause is the only hole in the state machine.
LegalUnlessStale ==
    [][\A t \in Task : IllegalMove(t) =>
          \E r \in Req : /\ Writing(r, t)
                         /\ \/ req[r].who = User
                            \/ req[r].seen # row[t].status]_vars

\* Whatever order handlers write in, a task offered in the pool carries no
\* owner of an earlier attempt, and one being worked on has an owner.
OwnerMatchesStatus ==
    \A t \in Task :
        /\ row[t].status = "pending" => row[t].assigned = Nobody
        /\ row[t].status \in {"accepted", "in-progress"} => row[t].assigned # Nobody

\* The statuses behave as the promised lifecycle.
TL == INSTANCE TaskLifecycle WITH status <- [t \in Task |-> row[t].status]

StrictLifecycle == TL!Spec

\* The first claim_task owns the task: a later claim never takes it over.
FirstClaimOwns ==
    [][\A t \in Task :
          row[t].status = "accepted" /\ row'[t].status = "accepted"
              => row'[t].assigned = row[t].assigned]_vars

\* Some handler that just resolved a subtask still has p to look at.
TriggerDue(p) ==
    \E r \in Req : req[r].pc = "item" /\ req[r].todo = {} /\ p \in req[r].parents

\* However two handlers that resolve the last subtasks interleave, a blocked
\* parent with all its subtasks resolved is re-readied by one of them.
TriggerReadiesParent ==
    \A p \in Task :
        (TriggerDue(p) /\ Blocked(p) /\ AllResolved(p)) ~> ~(Blocked(p) /\ AllResolved(p))
==============================================================================
