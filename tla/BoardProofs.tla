----------------------------- MODULE BoardProofs -----------------------------
(*****************************************************************************)
(* Proofs about Tasks, for any number of tasks, handlers and callers, about  *)
(* Profiles and Planning, for any number of rows and of calls at once, and   *)
(* about the specification that runs the three side by side.                 *)
(*****************************************************************************)
EXTENDS MCBoard, FiniteSetTheorems, SequenceTheorems, WellFoundedInduction, TLAPS

-----------------------------------------------------------------------------
(***************************************************************************)
(* Type correctness.                                                       *)
(***************************************************************************)

\* The next position of a handler is one of a handler's positions.
LEMMA SettleType ==
    ASSUME NEW q \in Request
    PROVE  Settle(q) \in Request \cup {Idle}
BY DEF Settle, Request, Steps

\* Leaving a parent behind keeps the handler well formed.
LEMMA ReadyType ==
    ASSUME NEW q \in Request
    PROVE  Ready(q) \in Request \cup {Idle}
<1>1. [q EXCEPT !.parents = @ \ {q.cur}] \in Request
  BY DEF Request
<1> QED BY <1>1, SettleType DEF Ready

\* A handler that is anywhere but at rest remembers a whole request.
LEMMA BusyRequest ==
    ASSUME TypeOK, NEW r \in Req, req[r].pc # "idle"
    PROVE  req[r] \in Request
BY DEF TypeOK, Idle

\* The UPDATE of a known status leaves a row.
LEMMA UpdateType ==
    ASSUME TypeOK, NEW t \in Task, NEW to \in Status, NEW who \in Caller, Update(t, to, who)
    PROVE  row' \in [Task -> Row]
<1>1. Updated(row[t], to, who) \in Row
  BY DEF TypeOK, Row, Updated
<1> QED BY <1>1 DEF Update, TypeOK

\* A task has finitely many subtasks, so they can be counted.
LEMMA SubtasksFinite ==
    ASSUME NEW p
    PROVE  IsFiniteSet(Subtasks(p))
BY TaskAssumption, FS_Subset DEF Subtasks

\* Every statement of a handler keeps the types.
LEMMA HandleType ==
    ASSUME TypeOK, NEW r \in Req, Handle(r)
    PROVE  TypeOK'
<1> DEFINE q == req[r]
<1>1. ASSUME NEW t \in Task, ReadTask(r, t) PROVE TypeOK'
  <2>1. q \in Request
    BY <1>1, BusyRequest DEF ReadTask
  <2>2. row[t].status \in Status =>
          [q EXCEPT !.pc = "write", !.cur = t, !.seen = row[t].status] \in Request
    BY <2>1 DEF Request, Steps
  <2>3. Settle([q EXCEPT !.todo = @ \ {t}]) \in Request \cup {Idle}
    <3>1. [q EXCEPT !.todo = @ \ {t}] \in Request
      BY <2>1 DEF Request
    <3> QED BY <3>1, SettleType
  <2> QED BY <1>1, <2>2, <2>3 DEF ReadTask, TypeOK, Exists
<1>2. ASSUME NEW p \in Task, ReadParent(r, p) PROVE TypeOK'
  <2>1. [q EXCEPT !.cur = p] \in Request
    BY <1>2, BusyRequest DEF ReadParent, Request
  <2>2. [[q EXCEPT !.cur = p] EXCEPT !.pc = "total"] \in Request
    BY <2>1 DEF Request, Steps
  <2> QED BY <1>2, <2>1, <2>2, ReadyType DEF ReadParent, TypeOK
<1>3. ASSUME WriteTask(r) PROVE TypeOK'
  <2>1. q \in Request
    BY <1>3, BusyRequest DEF WriteTask
  <2>2. q.cur \in Task /\ q.to \in Status /\ q.who \in Caller
    BY <2>1 DEF Request
  <2>3. row' \in [Task -> Row]
    BY <1>3, <2>2, UpdateType DEF WriteTask
  <2>4. TriggeredParent(q) \subseteq Task
    BY <2>2, TaskAssumption DEF TriggeredParent
  <2>5. [q EXCEPT !.todo = @ \ {q.cur}, !.parents = @ \cup TriggeredParent(q)] \in Request
    BY <2>1, <2>4 DEF Request
  <2> QED BY <1>3, <2>3, <2>5, SettleType DEF WriteTask, TypeOK
<1>4. ASSUME CountSubtasks(r) PROVE TypeOK'
  <2>1. q \in Request
    BY <1>4, BusyRequest DEF CountSubtasks
  <2>2. Cardinality(Subtasks(q.cur)) \in Nat
    BY SubtasksFinite, FS_CardinalityType
  <2>3. [q EXCEPT !.pc = "count", !.total = Cardinality(Subtasks(q.cur))] \in Request
    BY <2>1, <2>2 DEF Request, Steps
  <2> QED BY <1>4, <2>1, <2>3, ReadyType DEF CountSubtasks, TypeOK
<1>5. ASSUME CountResolved(r) PROVE TypeOK'
  <2>1. q \in Request
    BY <1>5, BusyRequest DEF CountResolved
  <2>2. [q EXCEPT !.pc = "reset"] \in Request
    BY <2>1 DEF Request, Steps
  <2> QED BY <1>5, <2>1, <2>2, ReadyType DEF CountResolved, TypeOK
<1>6. ASSUME ReadReset(r) PROVE TypeOK'
  <2>1. q \in Request
    BY <1>6, BusyRequest DEF ReadReset
  <2>2. Exists(q.cur) =>
          [q EXCEPT !.pc = "rewrite", !.seen = row[q.cur].status] \in Request
    BY <2>1 DEF Request, Steps, Exists
  <2> QED BY <1>6, <2>1, <2>2, ReadyType DEF ReadReset, TypeOK
<1>7. ASSUME WriteReset(r) PROVE TypeOK'
  <2>1. q \in Request
    BY <1>7, BusyRequest DEF WriteReset
  <2>2. row' \in [Task -> Row]
    <3>1. q.cur \in Task /\ q.who \in Caller /\ "pending" \in Status
      BY <2>1 DEF Request, Status
    <3> QED BY <1>7, <3>1, UpdateType DEF WriteReset
  <2> QED BY <1>7, <2>1, <2>2, ReadyType DEF WriteReset, TypeOK
<1> QED BY <1>1, <1>2, <1>3, <1>4, <1>5, <1>6, <1>7 DEF Handle

\* So does every other statement.
LEMMA HousekeepingType ==
    ASSUME TypeOK, Housekeeping
    PROVE  TypeOK'
<1>1. ASSUME NEW t \in Task, Dispatch(t) PROVE TypeOK'
  BY <1>1 DEF Dispatch, TypeOK, Row, Status
<1>2. ASSUME NEW statuses, NEW there, ArchiveTasks(statuses, there) PROVE TypeOK'
  BY <1>2 DEF ArchiveTasks, TypeOK, Row
<1>3. ASSUME NEW t \in Task, DeleteTask(t) PROVE TypeOK'
  BY <1>3 DEF DeleteTask, TypeOK, Row, Missing
<1> QED BY <1>1, <1>2, <1>3 DEF Housekeeping

\* A submitted request is well formed.
LEMMA SubmitType ==
    ASSUME TypeOK, NEW r \in Req, Submit(r)
    PROVE  TypeOK'
<1> PICK who \in Caller, door \in Doors, to \in Asked, todo \in (SUBSET Task) \ {{}} :
        Begin(r, who, door, to, todo)
  BY DEF Submit
<1>1. (CHOOSE t \in todo : TRUE) \in Task
  OBVIOUS
<1> QED BY <1>1, TaskAssumption DEF Begin, TypeOK, Request, Steps, Status

\* Every step of the board, and a stutter, keeps the types.
LEMMA TypeStep == TypeOK /\ [Next]_vars => TypeOK'
<1> SUFFICES ASSUME TypeOK, [Next]_vars PROVE TypeOK'
  OBVIOUS
<1>1. CASE UNCHANGED vars
  BY <1>1 DEF vars, TypeOK
<1> QED BY <1>1, HandleType, HousekeepingType, SubmitType DEF Next

\* Rows and requests keep their shape under every interleaving of handlers.
THEOREM TypeCorrect == Spec => []TypeOK
<1>1. Init => TypeOK
  BY DEF Init, TypeOK, Row, Missing, Idle
<1> QED BY <1>1, TypeStep, PTL DEF Spec

-----------------------------------------------------------------------------
(***************************************************************************)
(* The hole in the state machine: a handler about to write has validated   *)
(* its move from the status it saw, not from the status the row has.       *)
(***************************************************************************)

Target(q) == IF q.pc = "rewrite" THEN "pending" ELSE q.to

ValidatedWrites ==
    \A r \in Req : req[r].pc \in {"write", "rewrite"} =>
        Validated(req[r].who, req[r].seen, Target(req[r]))

\* Settle sends a handler to the next item or to rest, never to a write.
LEMMA SettlePosition ==
    ASSUME NEW q \in Request
    PROVE  /\ Settle(q).pc \notin {"write", "rewrite"}
           /\ Ready(q).pc \notin {"write", "rewrite"}
BY DEF Settle, Ready, Idle, Request

\* Which step put r where it may write.
LEMMA WritesAreValidated == TypeOK /\ ValidatedWrites /\ [Next]_vars => ValidatedWrites'
<1> SUFFICES ASSUME TypeOK, ValidatedWrites, [Next]_vars,
                    NEW r \in Req, req'[r].pc \in {"write", "rewrite"}
             PROVE  Validated(req'[r].who, req'[r].seen, Target(req'[r]))
  BY DEF ValidatedWrites, Validated, Target
<1>1. CASE req'[r] = req[r]
  BY <1>1 DEF ValidatedWrites
<1>2. CASE req'[r] # req[r]
  <2>1. Submit(r) \/ Handle(r)
    <3>1. ~Housekeeping /\ ~UNCHANGED vars
      BY <1>2 DEF Housekeeping, Dispatch, ArchiveTasks, DeleteTask, vars
    <3>2. PICK s \in Req : Submit(s) \/ Handle(s)
      BY <3>1 DEF Next
    <3>3. s # r => req'[r] = req[r]
      BY <3>2 DEF TypeOK, Submit, Begin, Handle, ReadTask, ReadParent, WriteTask,
                  CountSubtasks, CountResolved, ReadReset, WriteReset
    <3> QED BY <3>2, <3>3, <1>2
  <2>2. ASSUME Submit(r) PROVE FALSE
    BY <2>2 DEF Submit, Begin, TypeOK
  <2>3. ASSUME NEW t \in Task, ReadTask(r, t)
        PROVE  Validated(req'[r].who, req'[r].seen, Target(req'[r]))
    <3>1. req[r] \in Request
      BY <2>3, BusyRequest DEF ReadTask
    <3>2. [req[r] EXCEPT !.todo = @ \ {t}] \in Request
      BY <3>1 DEF Request
    <3>3. CASE Exists(t) /\ Validated(req[r].who, row[t].status, req[r].to)
      <4>1. req'[r] = [req[r] EXCEPT !.pc = "write", !.cur = t, !.seen = row[t].status]
        BY <2>3, <3>3 DEF ReadTask, TypeOK
      <4> QED BY <4>1, <3>1, <3>3 DEF Target, Request
    <3>4. CASE ~(Exists(t) /\ Validated(req[r].who, row[t].status, req[r].to))
      BY <2>3, <3>2, <3>4, SettlePosition DEF ReadTask, TypeOK
    <3> QED BY <3>3, <3>4
  <2>4. ASSUME NEW p \in Task, ReadParent(r, p) PROVE FALSE
    <3>1. [req[r] EXCEPT !.cur = p] \in Request
      BY <2>4, BusyRequest DEF ReadParent, Request
    <3> QED BY <2>4, <3>1, SettlePosition DEF ReadParent, TypeOK, Request
  <2>5. ASSUME WriteTask(r) PROVE FALSE
    <3>1. req[r] \in Request
      BY <2>5, BusyRequest DEF WriteTask
    <3>2. TriggeredParent(req[r]) \subseteq Task
      BY <3>1, TaskAssumption DEF TriggeredParent, Request
    <3>3. [req[r] EXCEPT !.todo = @ \ {req[r].cur},
                         !.parents = @ \cup TriggeredParent(req[r])] \in Request
      BY <3>1, <3>2 DEF Request
    <3> QED BY <2>5, <3>3, SettlePosition DEF WriteTask, TypeOK
  <2>6. ASSUME CountSubtasks(r) \/ CountResolved(r) \/ WriteReset(r) PROVE FALSE
    <3>1. req[r] \in Request
      BY <2>6, BusyRequest DEF CountSubtasks, CountResolved, WriteReset
    <3> QED BY <2>6, <3>1, SettlePosition
            DEF CountSubtasks, CountResolved, WriteReset, TypeOK, Request
  <2>7. ASSUME ReadReset(r)
        PROVE  Validated(req'[r].who, req'[r].seen, Target(req'[r]))
    <3>1. req[r] \in Request
      BY <2>7, BusyRequest DEF ReadReset
    <3> DEFINE s == row[req[r].cur].status
    <3>2. CASE Exists(req[r].cur) /\ Validated(req[r].who, s, "pending")
      <4>1. req'[r] = [req[r] EXCEPT !.pc = "rewrite", !.seen = s]
        BY <2>7, <3>2 DEF ReadReset, TypeOK
      <4> QED BY <4>1, <3>1, <3>2 DEF Target, Request
    <3>3. CASE ~(Exists(req[r].cur) /\ Validated(req[r].who, s, "pending"))
      BY <2>7, <3>1, <3>3, SettlePosition DEF ReadReset, TypeOK
    <3> QED BY <3>2, <3>3
  <2> QED BY <2>1, <2>2, <2>3, <2>4, <2>5, <2>6, <2>7 DEF Handle
<1> QED BY <1>1, <1>2

\* A status changes from one to another only where a handler writes it.
LEMMA StatusWriter ==
    ASSUME TypeOK, [Next]_vars, NEW t \in Task,
           Exists(t), row'[t].status \in Status, row'[t].status # row[t].status
    PROVE  \E r \in Req : Writing(r, t) /\ row'[t].status = Target(req[r])
<1>1. ~Housekeeping
  BY DEF Housekeeping, Dispatch, ArchiveTasks, DeleteTask, TypeOK, Row, Exists, Status
<1>2. PICK r \in Req : Submit(r) \/ Handle(r)
  BY <1>1 DEF Next, vars
<1>3. WriteTask(r) \/ WriteReset(r)
  BY <1>2 DEF Submit, Begin, Handle, ReadTask, ReadParent, CountSubtasks, CountResolved,
              ReadReset
<1>4. Update(req[r].cur, Target(req[r]), req[r].who) /\ req[r].pc \in {"write", "rewrite"}
  BY <1>3 DEF WriteTask, WriteReset, Target
<1>5. req[r].cur = t
  BY <1>4 DEF Update, TypeOK
<1>6. row'[t] = Updated(row[t], Target(req[r]), req[r].who)
  BY <1>4, <1>5 DEF Update, TypeOK
<1> QED BY <1>4, <1>5, <1>6 DEF Writing, Updated, TypeOK, Row

\* An illegal move comes from the operator or from a stale read, and from
\* nothing else: had the UPDATE named the status it checked, no agent could
\* make one.
THEOREM OnlyStaleMovesAreIllegal == Spec => LegalUnlessStale
<1>1. Init => ValidatedWrites
  BY DEF Init, ValidatedWrites, Idle
<1>2. TypeOK /\ ValidatedWrites /\ [Next]_vars =>
        [\A t \in Task : IllegalMove(t) =>
            \E r \in Req : /\ Writing(r, t)
                           /\ \/ req[r].who = User
                              \/ req[r].seen # row[t].status]_vars
  <2> SUFFICES ASSUME TypeOK, ValidatedWrites, [Next]_vars, NEW t \in Task, IllegalMove(t)
               PROVE  \E r \in Req : /\ Writing(r, t)
                                     /\ \/ req[r].who = User
                                        \/ req[r].seen # row[t].status
    OBVIOUS
  <2>1. PICK r \in Req : Writing(r, t) /\ row'[t].status = Target(req[r])
    BY StatusWriter DEF IllegalMove
  <2>2. Validated(req[r].who, req[r].seen, row'[t].status)
    BY <2>1 DEF ValidatedWrites, Writing
  <2> QED BY <2>1, <2>2 DEF Validated, IllegalMove
<1> QED BY <1>1, <1>2, WritesAreValidated, TypeCorrect, PTL DEF Spec, LegalUnlessStale

-----------------------------------------------------------------------------
(***************************************************************************)
(* Ownership.                                                              *)
(***************************************************************************)

\* What makes ownership inductive: a row not dispatched yet has no owner.
OwnershipInv ==
    /\ OwnerMatchesStatus
    /\ \A t \in Task : row[t].status = "absent" => row[t].assigned = Nobody

\* No order of writes leaves a pending task with an owner or a running one
\* without.
THEOREM OwnershipCorrect == Spec => []OwnerMatchesStatus
<1>1. Init => OwnershipInv
  BY DEF Init, OwnershipInv, OwnerMatchesStatus
<1>2. TypeOK /\ OwnershipInv /\ [Next]_vars => OwnershipInv'
  <2> SUFFICES ASSUME TypeOK, OwnershipInv, [Next]_vars PROVE OwnershipInv'
    OBVIOUS
  <2> USE DEF OwnershipInv, OwnerMatchesStatus
  <2>1. ASSUME NEW t \in Task, NEW to \in Status, NEW who \in Caller, Update(t, to, who)
        PROVE  OwnershipInv'
    <3>1. CASE row' = row
      BY <3>1
    <3>2. CASE row' = [row EXCEPT ![t] = Updated(row[t], to, who)]
      <4> DEFINE new == Updated(row[t], to, who)
      <4>1. /\ new.status = to
            /\ to = "pending" => new.assigned = Nobody
            /\ to \in {"accepted", "in-progress"} => new.assigned # Nobody
        BY TaskAssumption DEF Updated, TypeOK, Row
      <4> QED BY <3>2, <4>1 DEF TypeOK, Status
    <3> QED BY <2>1, <3>1, <3>2 DEF Update
  <2>2. CASE UNCHANGED row
    BY <2>2
  <2>3. CASE Housekeeping
    <3>1. ASSUME NEW t \in Task, Dispatch(t) PROVE OwnershipInv'
      BY <3>1 DEF Dispatch, TypeOK, Row
    <3>2. ASSUME NEW statuses, NEW there, ArchiveTasks(statuses, there) PROVE OwnershipInv'
      BY <3>2 DEF ArchiveTasks, TypeOK, Row
    <3>3. ASSUME NEW t \in Task, DeleteTask(t) PROVE OwnershipInv'
      BY <3>3 DEF DeleteTask, TypeOK, Row
    <3> QED BY <2>3, <3>1, <3>2, <3>3 DEF Housekeeping
  <2>4. ASSUME NEW r \in Req, WriteTask(r) \/ WriteReset(r) PROVE OwnershipInv'
    <3>1. req[r] \in Request
      BY <2>4, BusyRequest DEF WriteTask, WriteReset
    <3> QED BY <2>1, <2>4, <3>1 DEF WriteTask, WriteReset, Request, Status
  <2> QED BY <2>2, <2>3, <2>4
          DEF Next, vars, Submit, Begin, Handle, ReadTask, ReadParent, CountSubtasks,
              CountResolved, ReadReset
<1>3. OwnershipInv => OwnerMatchesStatus
  BY DEF OwnershipInv
<1> QED BY <1>1, <1>2, <1>3, TypeCorrect, PTL DEF Spec

-----------------------------------------------------------------------------
(***************************************************************************)
(* With one handler at a time and no operator, the board keeps what it     *)
(* promises.                                                               *)
(***************************************************************************)

\* Between its read and its write the only handler sees no other writer; the
\* row may only be deleted under it.
FreshReads ==
    \A r \in Req : req[r].pc \in {"write", "rewrite"} =>
        row[req[r].cur].status \in {req[r].seen, "deleted"}

Serial == User \notin Caller /\ \A r, s \in Req : r = s

\* With one handler and no operator, what it validated is still what the row
\* holds when it writes.
LEMMA SerialReadsAreFresh ==
    ASSUME Serial
    PROVE  TypeOK /\ FreshReads /\ [Next]_vars => FreshReads'
<1> SUFFICES ASSUME TypeOK, FreshReads, [Next]_vars,
                    NEW r \in Req, req'[r].pc \in {"write", "rewrite"}
             PROVE  row'[req'[r].cur].status \in {req'[r].seen, "deleted"}
  BY DEF FreshReads
<1>1. CASE UNCHANGED vars
  BY <1>1 DEF FreshReads, vars
<1>2. CASE Housekeeping
  <2>1. req' = req /\ req[r] \in Request
    BY <1>2, BusyRequest DEF Housekeeping, Dispatch, ArchiveTasks, DeleteTask
  <2>2. req[r].cur \in Task /\ req[r].seen \in Status
    BY <2>1 DEF Request
  <2>3. row[req[r].cur].status \in {req[r].seen, "deleted"}
    BY <2>1 DEF FreshReads
  <2>4. \A t \in Task : Exists(t) => row'[t].status \in {row[t].status, "deleted"}
    BY <1>2 DEF Housekeeping, Dispatch, ArchiveTasks, DeleteTask, TypeOK, Row, Exists, Status
  <2>5. \A t \in Task : row[t].status = "deleted" => row'[t].status = "deleted"
    BY <1>2 DEF Housekeeping, Dispatch, ArchiveTasks, DeleteTask, TypeOK, Row, Exists, Status
  <2> QED BY <2>1, <2>2, <2>3, <2>4, <2>5 DEF Exists
<1>3. CASE Submit(r)
  BY <1>3 DEF Submit, Begin, TypeOK
<1>4. CASE Handle(r)
  <2>1. req[r] \in Request
    BY <1>4, BusyRequest DEF Handle, ReadTask, ReadParent, WriteTask, CountSubtasks,
                             CountResolved, ReadReset, WriteReset
  <2>2. row' = row /\ req'[r].seen = row[req'[r].cur].status
    <3>1. ASSUME NEW t \in Task, ReadTask(r, t) PROVE <2>2
      <4>1. [req[r] EXCEPT !.todo = @ \ {t}] \in Request
        BY <2>1 DEF Request
      <4> QED BY <3>1, <4>1, <2>1, SettlePosition DEF ReadTask, TypeOK, Request
    <3>2. ASSUME NEW p \in Task, ReadParent(r, p) PROVE FALSE
      <4>1. [req[r] EXCEPT !.cur = p] \in Request
        BY <2>1, <3>2 DEF Request
      <4> QED BY <3>2, <4>1, SettlePosition DEF ReadParent, TypeOK, Request
    <3>3. ASSUME WriteTask(r) PROVE FALSE
      <4>1. TriggeredParent(req[r]) \subseteq Task
        BY <2>1, TaskAssumption DEF TriggeredParent, Request
      <4>2. [req[r] EXCEPT !.todo = @ \ {req[r].cur},
                           !.parents = @ \cup TriggeredParent(req[r])] \in Request
        BY <2>1, <4>1 DEF Request
      <4> QED BY <3>3, <4>2, SettlePosition DEF WriteTask, TypeOK
    <3>4. ASSUME CountSubtasks(r) \/ CountResolved(r) \/ WriteReset(r) PROVE FALSE
      BY <3>4, <2>1, SettlePosition
         DEF CountSubtasks, CountResolved, WriteReset, TypeOK, Request
    <3>5. ASSUME ReadReset(r) PROVE <2>2
      BY <3>5, <2>1, SettlePosition DEF ReadReset, TypeOK, Request
    <3> QED BY <1>4, <3>1, <3>2, <3>3, <3>4, <3>5 DEF Handle
  <2> QED BY <2>2
<1> QED BY <1>1, <1>2, <1>3, <1>4 DEF Next, Serial

\* One at a time, every status change is an edge of the transition table.
LEMMA SerialMovesAreLegal ==
    ASSUME Serial, TypeOK, ValidatedWrites, FreshReads, [Next]_vars,
           NEW t \in Task, Exists(t), row'[t].status \in Status,
           row'[t].status # row[t].status
    PROVE  row'[t].status \in ValidTransitions[row[t].status]
<1>1. PICK r \in Req : Writing(r, t) /\ row'[t].status = Target(req[r])
  BY StatusWriter
<1>2. req[r] \in Request
  BY <1>1, BusyRequest DEF Writing
<1>3. req[r].who # User /\ Validated(req[r].who, req[r].seen, Target(req[r]))
  BY <1>1, <1>2 DEF ValidatedWrites, Writing, Serial, Request
<1>4. req[r].seen = row[t].status
  BY <1>1 DEF FreshReads, Writing, Exists, Status
<1> QED BY <1>1, <1>3, <1>4 DEF Validated

\* The board implements the promised lifecycle when requests come one at a time.
THEOREM SerialBoardIsStrict ==
    ASSUME Serial
    PROVE  Spec => StrictLifecycle
<1>1. Init => TL!Init
  BY DEF Init, TL!Init
<1>2. TypeOK /\ ValidatedWrites /\ FreshReads /\ [Next]_vars =>
        [TL!Next]_[t \in Task |-> row[t].status]
  <2> SUFFICES ASSUME TypeOK, ValidatedWrites, FreshReads, [Next]_vars
               PROVE  [TL!Next]_[t \in Task |-> row[t].status]
    OBVIOUS
  <2> DEFINE st == [t \in Task |-> row[t].status]
             stn == [t \in Task |-> row'[t].status]
  <2>1. ASSUME NEW t \in Task, Dispatch(t) PROVE TL!Dispatch(t)
    BY <2>1 DEF Dispatch, TL!Dispatch, TypeOK, Row
  <2>2. ASSUME NEW statuses, NEW there, ArchiveTasks(statuses, there) PROVE stn = st
    BY <2>2 DEF ArchiveTasks, TypeOK, Row
  <2>3. ASSUME NEW t \in Task, DeleteTask(t) PROVE TL!Delete(t)
    BY <2>3 DEF DeleteTask, TL!Delete, TypeOK, Row, Exists, Status, TL!Status
  <2>4. ASSUME NEW r \in Req, Submit(r) \/ Handle(r), stn # st
        PROVE  \E t \in Task : \E to \in Status : TL!Move(t, to)
    <3>1. PICK t \in Task : row'[t].status # row[t].status
      BY <2>4
    <3>2. WriteTask(r) \/ WriteReset(r)
      BY <2>4 DEF Submit, Begin, Handle, ReadTask, ReadParent, CountSubtasks, CountResolved,
                  ReadReset
    <3>3. Update(req[r].cur, Target(req[r]), req[r].who) /\ req[r].pc \in {"write", "rewrite"}
      BY <3>2 DEF WriteTask, WriteReset, Target
    <3>4. req[r] \in Request
      BY <3>3, BusyRequest
    <3>5. Target(req[r]) \in Status
      BY <3>4 DEF Target, Request, Status
    <3>6. t = req[r].cur /\ Exists(t)
          /\ row' = [row EXCEPT ![t] = Updated(row[t], Target(req[r]), req[r].who)]
      BY <3>1, <3>3 DEF Update, TypeOK
    <3>7. row'[t].status = Target(req[r])
      BY <3>6 DEF Updated, TypeOK, Row
    <3>8. row'[t].status \in ValidTransitions[row[t].status]
      BY <3>1, <3>5, <3>6, <3>7, SerialMovesAreLegal
    <3>9. stn = [st EXCEPT ![t] = row'[t].status]
      BY <3>6 DEF TypeOK
    <3>10. TL!Status = Status /\ TL!ValidTransitions = ValidTransitions
      BY DEF Status, TL!Status, ValidTransitions, TL!ValidTransitions
    <3> QED BY <3>5, <3>6, <3>7, <3>8, <3>9, <3>10 DEF TL!Move, Exists
  <2>5. CASE UNCHANGED vars
    BY <2>5 DEF vars
  <2>6. TL!Status = Status
    BY DEF Status, TL!Status
  <2>7. CASE Housekeeping
    BY <2>1, <2>2, <2>3, <2>7 DEF Housekeeping, TL!Next
  <2>8. ASSUME NEW r \in Req, Submit(r) \/ Handle(r) PROVE TL!Next \/ stn = st
    BY <2>4, <2>6, <2>8 DEF TL!Next
  <2> QED BY <2>5, <2>7, <2>8 DEF Next
<1>3. Init => ValidatedWrites /\ FreshReads
  BY DEF Init, ValidatedWrites, FreshReads, Idle
<1> QED BY <1>1, <1>2, <1>3, WritesAreValidated, SerialReadsAreFresh, TypeCorrect, PTL
        DEF Spec, StrictLifecycle, TL!Spec
\* A new owner is entered only where a handler writes.
LEMMA OwnerWriter ==
    ASSUME TypeOK, [Next]_vars, NEW t \in Task,
           Exists(t), Exists(t)', row'[t].assigned # row[t].assigned
    PROVE  \E r \in Req : Writing(r, t) /\ row'[t].status = Target(req[r])
<1>1. ~Housekeeping
  BY DEF Housekeeping, Dispatch, ArchiveTasks, DeleteTask, TypeOK, Row, Exists, Status
<1>2. PICK r \in Req : Submit(r) \/ Handle(r)
  BY <1>1 DEF Next, vars
<1>3. WriteTask(r) \/ WriteReset(r)
  BY <1>2 DEF Submit, Begin, Handle, ReadTask, ReadParent, CountSubtasks, CountResolved,
              ReadReset
<1>4. Update(req[r].cur, Target(req[r]), req[r].who) /\ req[r].pc \in {"write", "rewrite"}
  BY <1>3 DEF WriteTask, WriteReset, Target
<1>5. req[r].cur = t
  BY <1>4 DEF Update, TypeOK
<1>6. row'[t] = Updated(row[t], Target(req[r]), req[r].who)
  BY <1>4, <1>5 DEF Update, TypeOK
<1> QED BY <1>4, <1>5, <1>6 DEF Writing, Updated, TypeOK, Row

\* One request at a time, the first claim owns: nobody takes over a claimed task, since
\* no move leads from "accepted" to itself (README.md:554).
THEOREM FirstClaimStands ==
    ASSUME Serial
    PROVE  Spec => FirstClaimOwns
<1>1. TypeOK /\ ValidatedWrites /\ FreshReads /\ [Next]_vars =>
        [\A t \in Task : row[t].status = "accepted" /\ row'[t].status = "accepted"
            => row'[t].assigned = row[t].assigned]_vars
  <2> SUFFICES ASSUME TypeOK, ValidatedWrites, FreshReads, [Next]_vars, NEW t \in Task,
                      row[t].status = "accepted", row'[t].status = "accepted",
                      row'[t].assigned # row[t].assigned
               PROVE  FALSE
    OBVIOUS
  <2>1. PICK r \in Req : Writing(r, t) /\ Target(req[r]) = "accepted"
    <3>1. Exists(t) /\ Exists(t)'
      BY DEF Exists, Status
    <3> QED BY <3>1, OwnerWriter
  <2>2. req[r] \in Request
    BY <2>1, BusyRequest DEF Writing
  <2>3. req[r].who # User /\ Validated(req[r].who, req[r].seen, "accepted")
    BY <2>1, <2>2 DEF ValidatedWrites, Writing, Serial, Request
  <2>4. req[r].seen = "accepted"
    BY <2>1 DEF FreshReads, Writing
  <2> QED BY <2>3, <2>4 DEF Validated, ValidTransitions, Status
<1>2. Init => ValidatedWrites /\ FreshReads
  BY DEF Init, ValidatedWrites, FreshReads, Idle
<1> QED BY <1>1, <1>2, WritesAreValidated, SerialReadsAreFresh, TypeCorrect, PTL
        DEF Spec, FirstClaimOwns

-----------------------------------------------------------------------------
(*****************************************************************************)
(* Profiles.                                                                 *)
(*****************************************************************************)

\* Calls on the row of a slug that others must not cross.
Holds(c, p) == clerk[c].pc \in {"insert", "update", "delete"} /\ clerk[c].slug = p

\* What a registration is about to write is what it was asked for, over a row that
\* nobody else has touched.
RecordingKept ==
    \A c \in Clerk : clerk[c].pc \in {"insert", "update"} =>
        LET k == clerk[c] IN
        /\ k.new.there /\ k.new.skills = k.ask.skills
        /\ "pool" \in DOMAIN k.ask => k.new.pool = k.ask.pool
        /\ k.pc = "update" /\ k.slug \notin mixed =>
             /\ profile[k.slug].there
             /\ "pool" \notin DOMAIN k.ask => k.new.pool = profile[k.slug].pool

\* Two calls at once on a row have been seen to cross.
CrossingsSeen ==
    \A c, d \in Clerk : c # d =>
        \A p \in Slug : Holds(c, p) /\ Holds(d, p) => p \in mixed

\* What was asked for names columns of a profile.
AskedColumns == \A p \in Slug : DOMAIN asked[p] \subseteq {"skills", "pool"}

\* A profile is deleted only after nobody was found to run it.
DeletesChecked ==
    \A c \in Clerk : clerk[c].pc = "delete" =>
        \A a \in Crew : crew[a].active /\ crew[a].slug = clerk[c].slug => a \in unkept

\* A skill or a profile that a call has found is there, or its id is gone.
FoundOrGone ==
    \A c \in Clerk :
        /\ clerk[c].pc \in {"profile", "link", "unlink", "drop"} => clerk[c].skill \in skill \cup {Gone}
        /\ clerk[c].pc = "link" => clerk[c].slug \in ListProfiles \cup {Gone}
        /\ clerk[c].pc = "learn" => clerk[c].skill \in Skill

LinksHeld ==
    /\ \A l \in link : l.slug \in ListProfiles /\ l.skill \in skill
    /\ \A l, m \in link : l.slug = m.slug /\ l.skill = m.skill => l = m

ProfilesInv ==
    /\ ProfilesTypeOK
    /\ asked = [p \in Slug |-> asked[p]]
    /\ RecordingKept /\ CrossingsSeen /\ AskedColumns /\ DeletesChecked /\ FoundOrGone
    /\ RegistrationKept /\ AgentsKept /\ LinksHeld

\* The columns of a profile's row, a missing one included.
LEMMA RowFields ==
    ASSUME NEW r \in ProfileRow
    PROVE  /\ r.there \in BOOLEAN /\ r.skills \subseteq Skill /\ r.pool \in Pool
           /\ DOMAIN r = {"there", "skills", "pool"}
<1>1. CASE r = NoProfile
  BY <1>1, ProfilesAssumption DEF NoProfile
<1>2. CASE r \in [there : {TRUE}, skills : SUBSET Skill, pool : Pool]
  BY <1>2
<1> QED
  BY <1>1, <1>2 DEF ProfileRow

\* The columns a registration may name.
LEMMA AskFields ==
    ASSUME NEW ask \in Registration
    PROVE  /\ ask.skills \subseteq Skill
           /\ "skills" \in DOMAIN ask /\ DOMAIN ask \subseteq {"skills", "pool"}
           /\ "pool" \in DOMAIN ask => ask.pool \in Pool
<1>1. CASE ask \in [skills : SUBSET Skill]
  BY <1>1
<1>2. CASE ask \in [skills : SUBSET Skill, pool : Pool]
  BY <1>2
<1> QED
  BY <1>1, <1>2 DEF Registration

\* What a call remembers at each of its positions.
LEMMA ClerkStates ==
    ASSUME ProfilesTypeOK, NEW c \in Clerk
    PROVE  /\ clerk[c].pc \in {"idle", "insert", "update", "users", "delete", "learn", "profile",
                               "link", "unlink", "drop"}
           /\ clerk[c].pc = "idle" => clerk[c] = OffDuty
           /\ clerk[c].pc \in {"insert", "update"} =>
                /\ clerk[c].slug \in Slug /\ clerk[c].ask \in Registration
                /\ clerk[c].new \in ProfileRow
           /\ clerk[c].pc \in {"users", "delete"} => clerk[c].slug \in Slug
           /\ clerk[c].pc \in {"learn", "profile"} =>
                clerk[c].skill \in Skill \cup {Gone} /\ clerk[c].slug \in Slug /\ clerk[c].rank \in Rank
           /\ clerk[c].pc = "link" =>
                /\ clerk[c].skill \in Skill \cup {Gone} /\ clerk[c].slug \in Slug \cup {Gone}
                /\ clerk[c].rank \in Rank
           /\ clerk[c].pc \in {"unlink", "drop"} => clerk[c].skill \in Skill \cup {Gone}
<1>1. clerk[c] \in {OffDuty} \cup Recording \cup Removing \cup Teaching \cup Forgetting
  BY DEF ProfilesTypeOK
<1>2. CASE clerk[c] = OffDuty
  BY <1>2 DEF OffDuty
<1>3. CASE clerk[c] \in Recording
  BY <1>3 DEF Recording
<1>4. CASE clerk[c] \in Removing
  BY <1>4 DEF Removing
<1>5. CASE clerk[c] \in Teaching
  BY <1>5 DEF Teaching
<1>6. CASE clerk[c] \in Forgetting
  BY <1>6 DEF Forgetting
<1> QED
  BY <1>1, <1>2, <1>3, <1>4, <1>5, <1>6

\* Nothing is registered and no call is open: the invariant holds.
LEMMA ProfilesInitially == ProfilesInit => ProfilesInv
<1> SUFFICES ASSUME ProfilesInit PROVE ProfilesInv
  OBVIOUS
<1>1. ProfilesTypeOK
  BY DEF ProfilesInit, ProfilesTypeOK, ProfileRow, Link
<1>2. RecordingKept /\ CrossingsSeen /\ DeletesChecked /\ FoundOrGone
  BY DEF ProfilesInit, RecordingKept, CrossingsSeen, DeletesChecked, FoundOrGone, Holds, OffDuty
<1>3. DOMAIN <<>> = {}
  OBVIOUS
<1>4. AskedColumns /\ RegistrationKept
  BY <1>3 DEF ProfilesInit, AskedColumns, RegistrationKept
<1>5. AgentsKept /\ LinksHeld /\ asked = [p \in Slug |-> asked[p]]
  BY DEF ProfilesInit, AgentsKept, LinksHeld
<1> QED
  BY <1>1, <1>2, <1>4, <1>5 DEF ProfilesInv

ClerkState == {OffDuty} \cup Recording \cup Removing \cup Teaching \cup Forgetting

\* One clerk turns to something else, the others go on with what they are at.
LEMMA Turning ==
    ASSUME ProfilesTypeOK, NEW c \in Clerk, NEW d \in ClerkState, Turns(c, d)
    PROVE  /\ clerk' \in [Clerk -> ClerkState]
           /\ clerk'[c] = d
           /\ \A e \in Clerk : e # c => clerk'[e] = clerk[e]
  BY DEF Turns, ProfilesTypeOK, ClerkState

\* A registration reads the row and prepares what it will write: what it was asked for
\* over what it found; if another call is on the row, the two have crossed.
LEMMA RegisterProfileStep ==
    ASSUME ProfilesInv, NEW c \in Clerk, NEW p \in Slug, NEW ask \in Registration,
           RegisterProfile(c, p, ask)
    PROVE  ProfilesInv'
<1> DEFINE new == [there |-> TRUE, skills |-> ask.skills, pool |-> Column(ask, profile[p], "pool")]
           d == [pc |-> IF profile[p].there THEN "update" ELSE "insert",
                 slug |-> p, ask |-> ask, new |-> new]
<1>1. profile[p] \in ProfileRow
  BY DEF ProfilesInv, ProfilesTypeOK
<1>2. new \in ProfileRow
  <2>1. Column(ask, profile[p], "pool") \in Pool
    BY <1>1, RowFields, AskFields DEF Column
  <2> QED
    BY <2>1, AskFields DEF ProfileRow
<1>3. /\ d.pc \in {"insert", "update"} /\ d.slug = p /\ d.ask = ask /\ d.new = new
      /\ d.pc = "update" => profile[p].there
  BY DEF d
<1>4. d \in ClerkState
  BY <1>2 DEF ClerkState, Recording
<1>5. new.there /\ new.skills = ask.skills /\ new.pool = Column(ask, profile[p], "pool")
  OBVIOUS
<1>6. Turns(c, d) /\ UNCHANGED <<profile, skill, link, crew, asked, unkept>>
  BY DEF RegisterProfile
<1>7. /\ clerk' \in [Clerk -> ClerkState]
      /\ clerk'[c] = d
      /\ \A e \in Clerk : e # c => clerk'[e] = clerk[e]
  BY <1>4, <1>6, Turning DEF ProfilesInv
<1>8. mixed' = IF Meets(c, p) THEN mixed \cup {p} ELSE mixed
  BY DEF RegisterProfile
<1> HIDE DEF d, new
<1>9. ProfilesTypeOK'
  BY <1>6, <1>7, <1>8 DEF ProfilesInv, ProfilesTypeOK, ClerkState
<1>10. RecordingKept'
  <2> SUFFICES ASSUME NEW e \in Clerk, clerk'[e].pc \in {"insert", "update"}
               PROVE  LET k == clerk'[e] IN
                      /\ k.new.there /\ k.new.skills = k.ask.skills
                      /\ "pool" \in DOMAIN k.ask => k.new.pool = k.ask.pool
                      /\ k.pc = "update" /\ k.slug \notin mixed =>
                           /\ profile[k.slug].there
                           /\ "pool" \notin DOMAIN k.ask => k.new.pool = profile[k.slug].pool
    BY <1>6, <1>8 DEF RecordingKept
  <2>1. CASE e = c
    BY <2>1, <1>3, <1>5, <1>7 DEF Column
  <2>2. CASE e # c
    BY <2>2, <1>7 DEF ProfilesInv, RecordingKept
  <2> QED
    BY <2>1, <2>2
<1>11. CrossingsSeen'
  <2> SUFFICES ASSUME NEW e \in Clerk, NEW f \in Clerk, e # f, NEW q \in Slug,
                      Holds(e, q)', Holds(f, q)'
               PROVE  q \in mixed'
    BY DEF CrossingsSeen
  <2>1. CASE e # c /\ f # c
    BY <2>1, <1>7, <1>8 DEF Holds, ProfilesInv, CrossingsSeen
  <2>2. CASE e = c \/ f = c
    BY <2>2, <1>3, <1>7, <1>8 DEF Holds, Meets
  <2> QED
    BY <2>1, <2>2
<1>12. DeletesChecked' /\ FoundOrGone'
  BY <1>3, <1>6, <1>7 DEF ProfilesInv, DeletesChecked, FoundOrGone, ListProfiles
<1>13. AskedColumns' /\ RegistrationKept' /\ AgentsKept' /\ LinksHeld'
  BY <1>6, <1>8 DEF ProfilesInv, AskedColumns, RegistrationKept, AgentsKept, LinksHeld, ListProfiles
<1> QED
  BY <1>6, <1>9, <1>10, <1>11, <1>12, <1>13 DEF ProfilesInv

\* The INSERT of a registration that found no row: it fails if another call was faster.
LEMMA InsertProfileStep ==
    ASSUME ProfilesInv, NEW c \in Clerk, InsertProfile(c)
    PROVE  ProfilesInv'
<1> DEFINE p == clerk[c].slug
           k == clerk[c]
<1>1. k.pc = "insert" /\ p \in Slug /\ k.ask \in Registration /\ k.new \in ProfileRow
  BY ClerkStates DEF InsertProfile, ProfilesInv
<1>2. /\ OffDuty.pc = "idle" /\ OffDuty \in ClerkState
  BY DEF OffDuty, ClerkState
<1>3. Turns(c, OffDuty) /\ UNCHANGED <<skill, link, crew, mixed, unkept>>
  BY DEF InsertProfile
<1>4. /\ clerk' \in [Clerk -> ClerkState]
      /\ clerk'[c] = OffDuty
      /\ \A e \in Clerk : e # c => clerk'[e] = clerk[e]
  BY <1>2, <1>3, Turning DEF ProfilesInv
<1>5. CASE profile[p].there
  <2>1. UNCHANGED <<profile, asked>>
    BY <1>5 DEF InsertProfile
  <2>2. ProfilesTypeOK'
    BY <1>3, <1>4, <2>1 DEF ProfilesInv, ProfilesTypeOK, ClerkState
  <2>3. RecordingKept' /\ CrossingsSeen'
    BY <1>2, <1>3, <1>4, <2>1 DEF ProfilesInv, RecordingKept, CrossingsSeen, Holds
  <2>4. DeletesChecked' /\ FoundOrGone'
    BY <1>2, <1>3, <1>4, <2>1 DEF ProfilesInv, DeletesChecked, FoundOrGone, ListProfiles
  <2>5. AskedColumns' /\ RegistrationKept' /\ AgentsKept' /\ LinksHeld'
    BY <1>3, <2>1 DEF ProfilesInv, AskedColumns, RegistrationKept, AgentsKept, LinksHeld, ListProfiles
  <2> QED
    BY <2>1, <2>2, <2>3, <2>4, <2>5 DEF ProfilesInv
<1>6. CASE ~profile[p].there
  <2>1. /\ profile' = [profile EXCEPT ![p] = k.new]
        /\ asked' = [asked EXCEPT ![p] = k.ask]
    BY <1>6 DEF InsertProfile
  <2>2. /\ profile' \in [Slug -> ProfileRow]
        /\ profile'[p] = k.new
        /\ \A q \in Slug : q # p => profile'[q] = profile[q]
    BY <1>1, <2>1 DEF ProfilesInv, ProfilesTypeOK
  <2>3. /\ asked' = [q \in Slug |-> asked'[q]]
        /\ asked'[p] = k.ask
        /\ \A q \in Slug : q # p => asked'[q] = asked[q]
    BY <1>1, <2>1 DEF ProfilesInv
  <2>4. k.new.there /\ k.new.skills = k.ask.skills /\ ("pool" \in DOMAIN k.ask => k.new.pool = k.ask.pool)
    BY <1>1 DEF ProfilesInv, RecordingKept
  <2>5. ListProfiles' = ListProfiles \cup {p}
    BY <1>1, <2>2, <2>4 DEF ListProfiles
  <2> HIDE DEF p, k
  <2>6. ProfilesTypeOK'
    BY <1>3, <1>4, <2>2 DEF ProfilesInv, ProfilesTypeOK, ClerkState
  <2>7. RecordingKept'
    <3> SUFFICES ASSUME NEW e \in Clerk, clerk'[e].pc \in {"insert", "update"}
                 PROVE  LET d == clerk'[e] IN
                        /\ d.new.there /\ d.new.skills = d.ask.skills
                        /\ "pool" \in DOMAIN d.ask => d.new.pool = d.ask.pool
                        /\ d.pc = "update" /\ d.slug \notin mixed =>
                             /\ profile'[d.slug].there
                             /\ "pool" \notin DOMAIN d.ask => d.new.pool = profile'[d.slug].pool
      BY <1>3 DEF RecordingKept
    <3>1. e # c /\ clerk'[e] = clerk[e] /\ clerk[e].slug \in Slug
      BY <1>2, <1>4, ClerkStates DEF ProfilesInv
    <3>2. CASE clerk[e].slug # p
      BY <3>1, <3>2, <2>2 DEF ProfilesInv, RecordingKept
    <3>3. CASE clerk[e].slug = p
      <4>1. p \in mixed
        BY <1>1, <3>1, <3>3 DEF ProfilesInv, CrossingsSeen, Holds, p, k
      <4> QED
        BY <3>1, <3>3, <4>1 DEF ProfilesInv, RecordingKept
    <3> QED
      BY <3>2, <3>3
  <2>8. CrossingsSeen'
    BY <1>2, <1>3, <1>4 DEF ProfilesInv, CrossingsSeen, Holds
  <2>9. DeletesChecked' /\ FoundOrGone'
    BY <1>2, <1>3, <1>4, <2>5 DEF ProfilesInv, DeletesChecked, FoundOrGone
  <2>10. AskedColumns'
    BY <1>1, <2>3, AskFields DEF ProfilesInv, AskedColumns
  <2>11. RegistrationKept'
    <3> SUFFICES ASSUME NEW q \in Slug \ mixed, asked'[q] # <<>>
                 PROVE  q \in ListProfiles' /\ \A col \in DOMAIN asked'[q] : profile'[q][col] = asked'[q][col]
      BY <1>3 DEF RegistrationKept
    <3>1. CASE q # p
      BY <3>1, <2>2, <2>3, <2>5 DEF ProfilesInv, RegistrationKept
    <3>2. CASE q = p
      <4>1. \A col \in DOMAIN k.ask : k.new[col] = k.ask[col]
        <5> SUFFICES ASSUME NEW col \in DOMAIN k.ask PROVE k.new[col] = k.ask[col]
          OBVIOUS
        <5>1. col \in {"skills", "pool"}
          BY <1>1, AskFields
        <5> QED
          BY <5>1, <2>4
      <4> QED
        BY <3>2, <4>1, <2>2, <2>3, <2>5
    <3> QED
      BY <3>1, <3>2
  <2>12. AgentsKept' /\ LinksHeld'
    BY <1>3, <2>5 DEF ProfilesInv, AgentsKept, LinksHeld
  <2> QED
    BY <2>3, <2>6, <2>7, <2>8, <2>9, <2>10, <2>11, <2>12 DEF ProfilesInv
<1> QED
  BY <1>5, <1>6

\* The UPDATE of a registration: the row is as it was read, unless another call has
\* crossed it, and what it was not asked for stays.
LEMMA UpdateProfileStep ==
    ASSUME ProfilesInv, NEW c \in Clerk, UpdateProfile(c)
    PROVE  ProfilesInv'
<1> DEFINE p == clerk[c].slug
           k == clerk[c]
<1>1. k.pc = "update" /\ p \in Slug /\ k.ask \in Registration /\ k.new \in ProfileRow
  BY ClerkStates DEF UpdateProfile, ProfilesInv
<1>2. /\ OffDuty.pc = "idle" /\ OffDuty \in ClerkState
  BY DEF OffDuty, ClerkState
<1>3. Turns(c, OffDuty) /\ UNCHANGED <<skill, link, crew, mixed, unkept>>
  BY DEF UpdateProfile
<1>4. /\ clerk' \in [Clerk -> ClerkState]
      /\ clerk'[c] = OffDuty
      /\ \A e \in Clerk : e # c => clerk'[e] = clerk[e]
  BY <1>2, <1>3, Turning DEF ProfilesInv
<1>5. /\ profile' = IF profile[p].there THEN [profile EXCEPT ![p] = k.new] ELSE profile
      /\ asked' = [asked EXCEPT ![p] = Merged(k.ask, @)]
  BY DEF UpdateProfile
<1>6. /\ profile' \in [Slug -> ProfileRow]
      /\ profile'[p] = IF profile[p].there THEN k.new ELSE profile[p]
      /\ \A q \in Slug : q # p => profile'[q] = profile[q]
  BY <1>1, <1>5 DEF ProfilesInv, ProfilesTypeOK
<1>7. /\ asked' = [q \in Slug |-> asked'[q]]
      /\ asked'[p] = Merged(k.ask, asked[p])
      /\ \A q \in Slug : q # p => asked'[q] = asked[q]
  BY <1>1, <1>5 DEF ProfilesInv
<1>8. /\ k.new.there /\ k.new.skills = k.ask.skills
      /\ "pool" \in DOMAIN k.ask => k.new.pool = k.ask.pool
      /\ p \notin mixed => /\ profile[p].there
                           /\ "pool" \notin DOMAIN k.ask => k.new.pool = profile[p].pool
  BY <1>1 DEF ProfilesInv, RecordingKept
<1>9. ListProfiles' = ListProfiles
  BY <1>1, <1>6, <1>8 DEF ListProfiles
<1> HIDE DEF p, k
<1>10. ProfilesTypeOK'
  BY <1>3, <1>4, <1>6 DEF ProfilesInv, ProfilesTypeOK, ClerkState
<1>11. RecordingKept'
  <2> SUFFICES ASSUME NEW e \in Clerk, clerk'[e].pc \in {"insert", "update"}
               PROVE  LET d == clerk'[e] IN
                      /\ d.new.there /\ d.new.skills = d.ask.skills
                      /\ "pool" \in DOMAIN d.ask => d.new.pool = d.ask.pool
                      /\ d.pc = "update" /\ d.slug \notin mixed =>
                           /\ profile'[d.slug].there
                           /\ "pool" \notin DOMAIN d.ask => d.new.pool = profile'[d.slug].pool
    BY <1>3 DEF RecordingKept
  <2>1. e # c /\ clerk'[e] = clerk[e] /\ clerk[e].slug \in Slug
    BY <1>2, <1>4, ClerkStates DEF ProfilesInv
  <2>2. CASE clerk[e].slug # p
    BY <2>1, <2>2, <1>6 DEF ProfilesInv, RecordingKept
  <2>3. CASE clerk[e].slug = p
    <3>1. p \in mixed
      BY <1>1, <2>1, <2>3 DEF ProfilesInv, CrossingsSeen, Holds, p, k
    <3> QED
      BY <2>1, <2>3, <3>1 DEF ProfilesInv, RecordingKept
  <2> QED
    BY <2>2, <2>3
<1>12. CrossingsSeen'
  BY <1>2, <1>3, <1>4 DEF ProfilesInv, CrossingsSeen, Holds
<1>13. DeletesChecked' /\ FoundOrGone'
  BY <1>2, <1>3, <1>4, <1>9 DEF ProfilesInv, DeletesChecked, FoundOrGone
<1>14. DOMAIN asked'[p] = DOMAIN k.ask \cup DOMAIN asked[p]
  BY <1>7 DEF Merged
<1>15. AskedColumns'
  BY <1>1, <1>7, <1>14, AskFields DEF ProfilesInv, AskedColumns
<1>16. RegistrationKept'
  <2> SUFFICES ASSUME NEW q \in Slug \ mixed, asked'[q] # <<>>
               PROVE  q \in ListProfiles' /\ \A col \in DOMAIN asked'[q] : profile'[q][col] = asked'[q][col]
    BY <1>3 DEF RegistrationKept
  <2>1. CASE q # p
    BY <2>1, <1>6, <1>7, <1>9 DEF ProfilesInv, RegistrationKept
  <2>2. CASE q = p
    <3>1. profile[p].there /\ profile'[p] = k.new
      BY <2>2, <1>6, <1>8
    <3>2. ASSUME NEW col \in DOMAIN asked'[p] PROVE k.new[col] = asked'[p][col]
      <4>1. col \in {"skills", "pool"}
        BY <1>1, <1>15 DEF AskedColumns
      <4>2. asked'[p][col] = Column(k.ask, asked[p], col)
        BY <1>7, <1>14 DEF Merged
      <4>3. CASE col \in DOMAIN k.ask
        BY <4>1, <4>2, <4>3, <1>8 DEF Column
      <4>4. CASE col \notin DOMAIN k.ask
        <5>1. col = "pool" /\ col \in DOMAIN asked[p]
          BY <4>1, <4>4, <1>1, <1>14, AskFields
        <5>2. asked[p] # <<>>
          BY <5>1, DOMAIN <<>> = {}
        <5>3. profile[p].pool = asked[p].pool
          BY <5>1, <5>2, <2>2, <1>1 DEF ProfilesInv, RegistrationKept
        <5> QED
          BY <5>1, <5>3, <4>2, <4>4, <2>2, <1>8 DEF Column
      <4> QED
        BY <4>3, <4>4
    <3> QED
      BY <2>2, <3>1, <3>2, <1>1, <1>9 DEF ListProfiles
  <2> QED
    BY <2>1, <2>2
<1>17. AgentsKept' /\ LinksHeld'
  BY <1>3, <1>9 DEF ProfilesInv, AgentsKept, LinksHeld
<1> QED
  BY <1>7, <1>10, <1>11, <1>12, <1>13, <1>15, <1>16, <1>17 DEF ProfilesInv

\* A step of a call that writes no profile and asks nobody: what is promised of the
\* registrations under way is as it was.
LEMMA AsideStep ==
    ASSUME ProfilesInv, ProfilesTypeOK', UNCHANGED <<profile, crew, asked, mixed, unkept>>,
           \A e \in Clerk : clerk'[e].pc \in {"insert", "update", "delete"} => clerk'[e] = clerk[e],
           FoundOrGone', LinksHeld'
    PROVE  ProfilesInv'
<1>1. RecordingKept' /\ CrossingsSeen'
  BY DEF ProfilesInv, RecordingKept, CrossingsSeen, Holds
<1>2. DeletesChecked' /\ AskedColumns' /\ RegistrationKept' /\ AgentsKept'
  BY DEF ProfilesInv, DeletesChecked, AskedColumns, RegistrationKept, AgentsKept, ListProfiles
<1> QED
  BY <1>1, <1>2 DEF ProfilesInv

\* delete_profile starts.
LEMMA HandleDeleteProfileStep ==
    ASSUME ProfilesInv, NEW c \in Clerk, NEW p \in Slug, HandleDeleteProfile(c, p)
    PROVE  ProfilesInv'
<1> DEFINE d == [pc |-> "users", slug |-> p]
<1>1. d \in ClerkState /\ d.pc = "users"
  BY DEF ClerkState, Removing
<1>2. Turns(c, d) /\ UNCHANGED <<profile, skill, link, crew, asked, mixed, unkept>>
  BY DEF HandleDeleteProfile
<1> HIDE DEF d
<1>3. /\ clerk' \in [Clerk -> ClerkState]
      /\ clerk'[c] = d
      /\ \A e \in Clerk : e # c => clerk'[e] = clerk[e]
  BY <1>1, <1>2, Turning DEF ProfilesInv
<1>4. ProfilesTypeOK' /\ FoundOrGone' /\ LinksHeld'
  BY <1>1, <1>2, <1>3
  DEF ProfilesInv, ProfilesTypeOK, ClerkState, FoundOrGone, LinksHeld, ListProfiles
<1> QED
  BY <1>1, <1>2, <1>3, <1>4, AsideStep

\* A delete asks whether an agent runs the profile, and goes on only if none does.
LEMMA CheckInUseStep ==
    ASSUME ProfilesInv, NEW c \in Clerk, CheckInUse(c)
    PROVE  ProfilesInv'
<1> DEFINE p == clerk[c].slug
           d == [pc |-> "delete", slug |-> p]
<1>1. clerk[c].pc = "users" /\ p \in Slug
  BY ClerkStates DEF CheckInUse, ProfilesInv
<1>2. /\ OffDuty.pc = "idle" /\ OffDuty \in ClerkState
      /\ d \in ClerkState /\ d.pc = "delete" /\ d.slug = p
  BY <1>1 DEF OffDuty, ClerkState, Removing
<1>3. UNCHANGED <<profile, skill, link, crew, asked, unkept>>
  BY DEF CheckInUse
<1> HIDE DEF d, p
<1>4. CASE GetAgentsByProfile(p) # {}
  <2>1. Turns(c, OffDuty) /\ mixed' = mixed
    BY <1>4 DEF CheckInUse, p
  <2>2. /\ clerk' \in [Clerk -> ClerkState]
        /\ clerk'[c] = OffDuty
        /\ \A e \in Clerk : e # c => clerk'[e] = clerk[e]
    BY <1>2, <2>1, Turning DEF ProfilesInv
  <2>3. ProfilesTypeOK' /\ FoundOrGone' /\ LinksHeld'
    BY <1>2, <1>3, <2>1, <2>2
    DEF ProfilesInv, ProfilesTypeOK, ClerkState, FoundOrGone, LinksHeld, ListProfiles
  <2> QED
    BY <1>2, <1>3, <2>1, <2>2, <2>3, AsideStep
<1>5. CASE GetAgentsByProfile(p) = {}
  <2>1. Turns(c, d) /\ mixed' = IF Meets(c, p) THEN mixed \cup {p} ELSE mixed
    BY <1>5 DEF CheckInUse, d, p
  <2>2. /\ clerk' \in [Clerk -> ClerkState]
        /\ clerk'[c] = d
        /\ \A e \in Clerk : e # c => clerk'[e] = clerk[e]
    BY <1>2, <2>1, Turning DEF ProfilesInv
  <2>3. ProfilesTypeOK' /\ FoundOrGone' /\ LinksHeld'
    BY <1>1, <1>2, <1>3, <2>1, <2>2
    DEF ProfilesInv, ProfilesTypeOK, ClerkState, FoundOrGone, LinksHeld, ListProfiles
  <2>4. RecordingKept'
    BY <1>2, <1>3, <2>1, <2>2 DEF ProfilesInv, RecordingKept
  <2>5. CrossingsSeen'
    <3> SUFFICES ASSUME NEW e \in Clerk, NEW f \in Clerk, e # f, NEW q \in Slug,
                        Holds(e, q)', Holds(f, q)'
                 PROVE  q \in mixed'
      BY DEF CrossingsSeen
    <3>1. CASE e # c /\ f # c
      BY <3>1, <2>1, <2>2 DEF Holds, ProfilesInv, CrossingsSeen
    <3>2. CASE e = c \/ f = c
      BY <3>2, <1>2, <2>1, <2>2 DEF Holds, Meets
    <3> QED
      BY <3>1, <3>2
  <2>6. DeletesChecked'
    BY <1>2, <1>3, <1>5, <2>2 DEF ProfilesInv, DeletesChecked, GetAgentsByProfile
  <2>7. AskedColumns' /\ RegistrationKept' /\ AgentsKept'
    BY <1>3, <2>1 DEF ProfilesInv, AskedColumns, RegistrationKept, AgentsKept, ListProfiles
  <2> QED
    BY <1>3, <2>3, <2>4, <2>5, <2>6, <2>7 DEF ProfilesInv
<1> QED
  BY <1>4, <1>5

\* The DELETE: its links go with the row, agents that registered since it asked were noted.
LEMMA DeleteProfileStep ==
    ASSUME ProfilesInv, NEW c \in Clerk, DeleteProfile(c)
    PROVE  ProfilesInv'
<1> DEFINE p == clerk[c].slug
<1>1. clerk[c].pc = "delete" /\ p \in Slug
  BY ClerkStates DEF DeleteProfile, ProfilesInv
<1>2. UNCHANGED <<skill, crew, mixed, unkept>>
  BY DEF DeleteProfile
<1>3. /\ profile' = [profile EXCEPT ![p] = NoProfile]
      /\ link' = {l \in link : l.slug # p}
      /\ asked' = [asked EXCEPT ![p] = <<>>]
      /\ clerk' = [d \in Clerk |->
                     CASE d = c -> OffDuty
                       [] clerk[d].pc = "link" /\ clerk[d].slug = p -> [clerk[d] EXCEPT !.slug = Gone]
                       [] OTHER -> clerk[d]]
  BY DEF DeleteProfile
<1> HIDE DEF p
<1>4. /\ NoProfile \in ProfileRow /\ ~NoProfile.there
      /\ OffDuty.pc = "idle" /\ OffDuty \in ClerkState
  BY DEF ProfileRow, NoProfile, OffDuty, ClerkState
<1>5. /\ profile' \in [Slug -> ProfileRow]
      /\ profile'[p] = NoProfile
      /\ \A q \in Slug : q # p => profile'[q] = profile[q]
      /\ asked' = [q \in Slug |-> asked'[q]]
      /\ asked'[p] = <<>>
      /\ \A q \in Slug : q # p => asked'[q] = asked[q]
  BY <1>1, <1>3, <1>4 DEF ProfilesInv, ProfilesTypeOK
<1>6. ListProfiles' = ListProfiles \ {p}
  BY <1>1, <1>4, <1>5 DEF ListProfiles
<1>7. ASSUME NEW e \in Clerk
      PROVE  /\ clerk'[e] \in ClerkState
             /\ e = c => clerk'[e] = OffDuty
             /\ clerk'[e].pc # "link" /\ e # c => clerk'[e] = clerk[e]
             /\ clerk'[e].pc = "link" =>
                  /\ clerk[e].pc = "link" /\ clerk'[e].skill = clerk[e].skill
                  /\ clerk'[e].slug = IF clerk[e].slug = p THEN Gone ELSE clerk[e].slug
  <2>1. CASE e = c
    BY <2>1, <1>1, <1>3, <1>4 DEF p
  <2>2. CASE e # c /\ clerk[e].pc = "link" /\ clerk[e].slug = p
    <3>1. clerk'[e] = [clerk[e] EXCEPT !.slug = Gone]
      BY <2>2, <1>3
    <3>2. clerk[e] \in [pc : {"link"}, skill : Skill \cup {Gone}, slug : Slug \cup {Gone}, rank : Rank]
      <4>1. clerk[e] \in {OffDuty} \cup Recording \cup Removing \cup Teaching \cup Forgetting
        BY DEF ProfilesInv, ProfilesTypeOK
      <4> QED
        BY <4>1, <2>2, <1>4 DEF Recording, Removing, Teaching, Forgetting
    <3>3. /\ clerk'[e] \in [pc : {"link"}, skill : Skill \cup {Gone}, slug : Slug \cup {Gone}, rank : Rank]
          /\ clerk'[e].pc = "link" /\ clerk'[e].skill = clerk[e].skill /\ clerk'[e].slug = Gone
      BY <3>1, <3>2
    <3>4. clerk'[e] \in ClerkState
      BY <3>3 DEF ClerkState, Teaching
    <3> QED
      BY <3>3, <3>4, <2>2
  <2>3. CASE e # c /\ ~(clerk[e].pc = "link" /\ clerk[e].slug = p)
    BY <2>3, <1>3 DEF ProfilesInv, ProfilesTypeOK, ClerkState
  <2> QED
    BY <2>1, <2>2, <2>3
<1>8. ProfilesTypeOK'
  <2>1. clerk' \in [Clerk -> ClerkState]
    BY <1>3, <1>7
  <2> QED
    BY <1>2, <1>3, <1>5, <2>1 DEF ProfilesInv, ProfilesTypeOK, ClerkState
<1>9. RecordingKept'
  <2> SUFFICES ASSUME NEW e \in Clerk, clerk'[e].pc \in {"insert", "update"}
               PROVE  LET d == clerk'[e] IN
                      /\ d.new.there /\ d.new.skills = d.ask.skills
                      /\ "pool" \in DOMAIN d.ask => d.new.pool = d.ask.pool
                      /\ d.pc = "update" /\ d.slug \notin mixed =>
                           /\ profile'[d.slug].there
                           /\ "pool" \notin DOMAIN d.ask => d.new.pool = profile'[d.slug].pool
    BY <1>2 DEF RecordingKept
  <2>1. e # c /\ clerk'[e] = clerk[e] /\ clerk[e].slug \in Slug
    BY <1>4, <1>7, ClerkStates DEF ProfilesInv
  <2>2. CASE clerk[e].slug # p
    BY <2>1, <2>2, <1>5 DEF ProfilesInv, RecordingKept
  <2>3. CASE clerk[e].slug = p
    <3>1. p \in mixed
      BY <1>1, <2>1, <2>3 DEF ProfilesInv, CrossingsSeen, Holds, p
    <3> QED
      BY <2>1, <2>3, <3>1 DEF ProfilesInv, RecordingKept
  <2> QED
    BY <2>2, <2>3
<1>10. CrossingsSeen'
  BY <1>2, <1>4, <1>7 DEF ProfilesInv, CrossingsSeen, Holds
<1>11. DeletesChecked'
  BY <1>2, <1>4, <1>7 DEF ProfilesInv, DeletesChecked
<1>12. FoundOrGone'
  BY <1>2, <1>4, <1>6, <1>7 DEF ProfilesInv, FoundOrGone
<1>13. AskedColumns' /\ RegistrationKept'
  BY <1>2, <1>5, <1>6, DOMAIN <<>> = {} DEF ProfilesInv, AskedColumns, RegistrationKept
<1>14. AgentsKept'
  BY <1>1, <1>2, <1>6 DEF ProfilesInv, AgentsKept, DeletesChecked, p
<1>15. LinksHeld'
  BY <1>2, <1>3, <1>6 DEF ProfilesInv, LinksHeld
<1> QED
  BY <1>5, <1>8, <1>9, <1>10, <1>11, <1>12, <1>13, <1>14, <1>15 DEF ProfilesInv

\* An agent registers under a profile or leaves.
LEMMA CrewStep ==
    ASSUME ProfilesInv, NEW a \in Crew,
           Leave(a) \/ \E p \in Slug \cup {NoSlug} : Enroll(a, p)
    PROVE  ProfilesInv'
<1>1. UNCHANGED <<profile, skill, link, clerk, asked, mixed>>
  BY DEF Leave, Enroll
<1>2. RecordingKept' /\ CrossingsSeen' /\ AskedColumns' /\ FoundOrGone'
  BY <1>1 DEF ProfilesInv, RecordingKept, CrossingsSeen, Holds, AskedColumns, FoundOrGone, ListProfiles
<1>3. RegistrationKept' /\ LinksHeld'
  BY <1>1 DEF ProfilesInv, RegistrationKept, LinksHeld, ListProfiles
<1>4. CASE Leave(a)
  <2>1. unkept' = unkept /\ crew' = [crew EXCEPT ![a].active = FALSE]
    BY <1>4 DEF Leave
  <2>2. /\ crew' \in [Crew -> [slug : Slug \cup {NoSlug}, active : BOOLEAN]]
        /\ ~crew'[a].active
        /\ \A b \in Crew : b # a => crew'[b] = crew[b]
    BY <2>1 DEF ProfilesInv, ProfilesTypeOK
  <2>3. ProfilesTypeOK'
    BY <1>1, <2>1, <2>2 DEF ProfilesInv, ProfilesTypeOK
  <2>4. DeletesChecked' /\ AgentsKept'
    BY <1>1, <2>1, <2>2 DEF ProfilesInv, DeletesChecked, AgentsKept, ListProfiles
  <2> QED
    BY <1>1, <1>2, <1>3, <2>3, <2>4 DEF ProfilesInv
<1>5. ASSUME NEW p \in Slug \cup {NoSlug}, Enroll(a, p) PROVE ProfilesInv'
  <2>1. crew' = [crew EXCEPT ![a] = [slug |-> p, active |-> TRUE]]
    BY <1>5 DEF Enroll
  <2>2. /\ crew' \in [Crew -> [slug : Slug \cup {NoSlug}, active : BOOLEAN]]
        /\ crew'[a].slug = p
        /\ \A b \in Crew : b # a => crew'[b] = crew[b]
    BY <2>1 DEF ProfilesInv, ProfilesTypeOK
  <2>3. unkept' \subseteq unkept \cup {a} /\ \A b \in unkept : b # a => b \in unkept'
    BY <1>5 DEF Enroll
  <2>4. a \notin unkept' =>
          /\ p \in ListProfiles \cup {NoSlug}
          /\ ~ \E c \in Clerk : clerk[c].pc = "delete" /\ clerk[c].slug = p
    BY <1>5 DEF Enroll
  <2>5. ProfilesTypeOK'
    BY <1>1, <2>2, <2>3 DEF ProfilesInv, ProfilesTypeOK
  <2>6. DeletesChecked'
    BY <1>1, <2>2, <2>3, <2>4 DEF ProfilesInv, DeletesChecked
  <2>7. AgentsKept'
    BY <1>1, <2>2, <2>3, <2>4 DEF ProfilesInv, AgentsKept, ListProfiles
  <2> QED
    BY <1>1, <1>2, <1>3, <2>5, <2>6, <2>7 DEF ProfilesInv
<1> QED
  BY <1>4, <1>5

\* POST /skills looks for the name.
LEMMA UpsertSkillStep ==
    ASSUME ProfilesInv, NEW c \in Clerk, NEW s \in Skill, NEW p \in Slug, NEW r \in Rank,
           UpsertSkill(c, s, p, r)
    PROVE  ProfilesInv'
<1> DEFINE d == [pc |-> IF s \in skill THEN "profile" ELSE "learn",
                 skill |-> s, slug |-> p, rank |-> r]
<1>1. /\ d \in ClerkState /\ d.pc \in {"profile", "learn"} /\ d.skill = s
      /\ d.pc = "profile" => s \in skill
  BY DEF ClerkState, Teaching
<1>2. Turns(c, d) /\ UNCHANGED <<profile, skill, link, crew, asked, mixed, unkept>>
  BY DEF UpsertSkill
<1> HIDE DEF d
<1>3. /\ clerk' \in [Clerk -> ClerkState]
      /\ clerk'[c] = d
      /\ \A e \in Clerk : e # c => clerk'[e] = clerk[e]
  BY <1>1, <1>2, Turning DEF ProfilesInv
<1>4. ProfilesTypeOK' /\ FoundOrGone' /\ LinksHeld'
  BY <1>1, <1>2, <1>3
  DEF ProfilesInv, ProfilesTypeOK, ClerkState, FoundOrGone, LinksHeld, ListProfiles
<1> QED
  BY <1>1, <1>2, <1>3, <1>4, AsideStep

\* A call that goes on teaching remembers which skill of which profile.
LEMMA Taught ==
    ASSUME ProfilesTypeOK, NEW c \in Clerk, clerk[c].pc \in {"learn", "profile"},
           NEW pc \in {"profile", "link"}
    PROVE  /\ [clerk[c] EXCEPT !.pc = pc] \in ClerkState
           /\ [clerk[c] EXCEPT !.pc = pc].pc = pc
           /\ [clerk[c] EXCEPT !.pc = pc].slug = clerk[c].slug
           /\ [clerk[c] EXCEPT !.pc = pc].skill = clerk[c].skill
<1>1. clerk[c] \in {OffDuty} \cup Recording \cup Removing \cup Teaching \cup Forgetting
  BY DEF ProfilesTypeOK
<1>2. OffDuty.pc = "idle"
  BY DEF OffDuty
<1>3. clerk[c] \in [pc : {"learn", "profile"}, skill : Skill \cup {Gone}, slug : Slug, rank : Rank]
  BY <1>1, <1>2 DEF Recording, Removing, Teaching, Forgetting
<1> QED
  BY <1>3 DEF ClerkState, Teaching

\* A skill that was not found is created.
LEMMA InsertSkillStep ==
    ASSUME ProfilesInv, NEW c \in Clerk, InsertSkill(c)
    PROVE  ProfilesInv'
<1> DEFINE s == clerk[c].skill
           d == IF s \in skill THEN OffDuty ELSE [clerk[c] EXCEPT !.pc = "profile"]
<1>1. clerk[c].pc = "learn" /\ s \in Skill
  BY DEF InsertSkill, ProfilesInv, FoundOrGone
<1>2. OffDuty.pc = "idle" /\ OffDuty \in ClerkState
  BY DEF OffDuty, ClerkState
<1>3. d \in ClerkState /\ (d.pc = "idle" \/ (d.pc = "profile" /\ d.skill = s))
  BY <1>1, <1>2, Taught DEF ProfilesInv
<1>4. /\ Turns(c, d) /\ UNCHANGED <<profile, link, crew, asked, mixed, unkept>>
      /\ skill' = skill \cup {s}
  BY DEF InsertSkill
<1> HIDE DEF d, s
<1>5. /\ clerk' \in [Clerk -> ClerkState]
      /\ clerk'[c] = d
      /\ \A e \in Clerk : e # c => clerk'[e] = clerk[e]
  BY <1>3, <1>4, Turning DEF ProfilesInv
<1>6. ProfilesTypeOK' /\ FoundOrGone' /\ LinksHeld'
  BY <1>1, <1>3, <1>4, <1>5
  DEF ProfilesInv, ProfilesTypeOK, ClerkState, FoundOrGone, LinksHeld, ListProfiles
<1> QED
  BY <1>3, <1>4, <1>5, <1>6, AsideStep

\* It goes on with the profile, if there is one of that slug.
LEMMA CreateSkillStep ==
    ASSUME ProfilesInv, NEW c \in Clerk, apiCreateSkill(c)
    PROVE  ProfilesInv'
<1> DEFINE p == clerk[c].slug
           d == IF p \in ListProfiles THEN [clerk[c] EXCEPT !.pc = "link"] ELSE OffDuty
<1>1. clerk[c].pc = "profile"
  BY DEF apiCreateSkill
<1>2. OffDuty.pc = "idle" /\ OffDuty \in ClerkState
  BY DEF OffDuty, ClerkState
<1>3. d \in ClerkState /\ (d.pc = "idle" \/ /\ d.pc = "link" /\ d.skill = clerk[c].skill
                                            /\ d.slug = p /\ p \in ListProfiles)
  BY <1>1, <1>2, Taught DEF ProfilesInv
<1>4. Turns(c, d) /\ UNCHANGED <<profile, skill, link, crew, asked, mixed, unkept>>
  BY DEF apiCreateSkill
<1> HIDE DEF d, p
<1>5. /\ clerk' \in [Clerk -> ClerkState]
      /\ clerk'[c] = d
      /\ \A e \in Clerk : e # c => clerk'[e] = clerk[e]
  BY <1>3, <1>4, Turning DEF ProfilesInv
<1>6. ProfilesTypeOK' /\ FoundOrGone' /\ LinksHeld'
  BY <1>1, <1>3, <1>4, <1>5
  DEF ProfilesInv, ProfilesTypeOK, ClerkState, FoundOrGone, LinksHeld, ListProfiles
<1> QED
  BY <1>3, <1>4, <1>5, <1>6, AsideStep

\* The link is written if both its ends are still there, and replaces an earlier one.
LEMMA LinkProfileSkillStep ==
    ASSUME ProfilesInv, NEW c \in Clerk, LinkProfileSkill(c)
    PROVE  ProfilesInv'
<1> DEFINE k == clerk[c]
           new == [slug |-> k.slug, skill |-> k.skill, rank |-> k.rank]
<1>1. /\ k.pc = "link" /\ k.rank \in Rank
      /\ k.slug \in Slug \cup {Gone} /\ k.skill \in Skill \cup {Gone}
      /\ k.slug \in ListProfiles \cup {Gone} /\ k.skill \in skill \cup {Gone}
  BY ClerkStates DEF LinkProfileSkill, ProfilesInv, FoundOrGone
<1>2. OffDuty.pc = "idle" /\ OffDuty \in ClerkState
  BY DEF OffDuty, ClerkState
<1>3. Turns(c, OffDuty) /\ UNCHANGED <<profile, skill, crew, asked, mixed, unkept>>
  BY DEF LinkProfileSkill
<1>4. /\ clerk' \in [Clerk -> ClerkState]
      /\ clerk'[c] = OffDuty
      /\ \A e \in Clerk : e # c => clerk'[e] = clerk[e]
  BY <1>2, <1>3, Turning DEF ProfilesInv
<1>5. new.slug = k.slug /\ new.skill = k.skill
  OBVIOUS
<1>6. Gone \notin {k.slug, k.skill} => new \in Link
  BY <1>1 DEF Link
<1>7. link' = IF Gone \in {k.slug, k.skill} THEN link
              ELSE {l \in link : <<l.slug, l.skill>> # <<k.slug, k.skill>>} \cup {new}
  BY DEF LinkProfileSkill
<1> HIDE DEF k, new
<1>8. FoundOrGone' /\ ProfilesTypeOK'
  BY <1>2, <1>3, <1>4, <1>6, <1>7
  DEF ProfilesInv, ProfilesTypeOK, ClerkState, FoundOrGone, ListProfiles
<1>9. LinksHeld'
  <2>1. UNCHANGED ListProfiles
    BY <1>3 DEF ListProfiles
  <2>2. CASE Gone \in {k.slug, k.skill}
    BY <2>1, <2>2, <1>3, <1>7 DEF ProfilesInv, LinksHeld
  <2>3. CASE Gone \notin {k.slug, k.skill}
    BY <2>1, <2>3, <1>1, <1>3, <1>5, <1>7 DEF ProfilesInv, LinksHeld
  <2> QED
    BY <2>2, <2>3
<1> QED
  BY <1>2, <1>3, <1>4, <1>8, <1>9, AsideStep

\* The deletion of a skill finds its id.
LEMMA DeleteSkillStep ==
    ASSUME ProfilesInv, NEW c \in Clerk, NEW s \in Skill, apiDeleteSkill(c, s)
    PROVE  ProfilesInv'
<1> DEFINE d == [pc |-> "unlink", skill |-> s]
<1>1. d \in ClerkState /\ d.pc = "unlink" /\ d.skill = s
  BY DEF ClerkState, Forgetting
<1>2. s \in skill /\ Turns(c, d) /\ UNCHANGED <<profile, skill, link, crew, asked, mixed, unkept>>
  BY DEF apiDeleteSkill
<1> HIDE DEF d
<1>3. /\ clerk' \in [Clerk -> ClerkState]
      /\ clerk'[c] = d
      /\ \A e \in Clerk : e # c => clerk'[e] = clerk[e]
  BY <1>1, <1>2, Turning DEF ProfilesInv
<1>4. ProfilesTypeOK' /\ FoundOrGone' /\ LinksHeld'
  BY <1>1, <1>2, <1>3
  DEF ProfilesInv, ProfilesTypeOK, ClerkState, FoundOrGone, LinksHeld, ListProfiles
<1> QED
  BY <1>1, <1>2, <1>3, <1>4, AsideStep

\* The links of a skill are deleted before its row.
LEMMA UnlinkSkillStep ==
    ASSUME ProfilesInv, NEW c \in Clerk, UnlinkSkill(c)
    PROVE  ProfilesInv'
<1> DEFINE s == clerk[c].skill
           d == [clerk[c] EXCEPT !.pc = "drop"]
<1>1. clerk[c].pc = "unlink" /\ s \in Skill \cup {Gone} /\ s \in skill \cup {Gone}
  BY ClerkStates DEF UnlinkSkill, ProfilesInv, FoundOrGone
<1>2. clerk[c] \in Forgetting
  <2>1. clerk[c] \in {OffDuty} \cup Recording \cup Removing \cup Teaching \cup Forgetting
    BY DEF ProfilesInv, ProfilesTypeOK
  <2> QED
    BY <2>1, <1>1 DEF OffDuty, Recording, Removing, Teaching
<1>3. d \in ClerkState /\ d.pc = "drop" /\ d.skill = s
  BY <1>2 DEF ClerkState, Forgetting
<1>4. /\ Turns(c, d) /\ UNCHANGED <<profile, skill, crew, asked, mixed, unkept>>
      /\ link' = {l \in link : l.skill # s}
  BY DEF UnlinkSkill
<1> HIDE DEF d, s
<1>5. /\ clerk' \in [Clerk -> ClerkState]
      /\ clerk'[c] = d
      /\ \A e \in Clerk : e # c => clerk'[e] = clerk[e]
  BY <1>3, <1>4, Turning DEF ProfilesInv
<1>6. ProfilesTypeOK' /\ FoundOrGone' /\ LinksHeld'
  BY <1>1, <1>3, <1>4, <1>5
  DEF ProfilesInv, ProfilesTypeOK, ClerkState, FoundOrGone, LinksHeld, ListProfiles
<1> QED
  BY <1>3, <1>4, <1>5, <1>6, AsideStep

\* The row of a skill is deleted, with the links that were made meanwhile; calls that
\* hold its id hold nothing.
LEMMA DropSkillStep ==
    ASSUME ProfilesInv, NEW c \in Clerk, DropSkill(c)
    PROVE  ProfilesInv'
<1> DEFINE s == clerk[c].skill
<1>1. clerk[c].pc = "drop"
  BY DEF DropSkill
<1>2. UNCHANGED <<profile, crew, asked, mixed, unkept>>
  BY DEF DropSkill
<1>3. /\ skill' = skill \ {s}
      /\ link' = {l \in link : l.skill # s}
      /\ clerk' = [d \in Clerk |->
                     CASE d = c -> OffDuty
                       [] d # c /\ clerk[d].skill = s
                            /\ clerk[d].pc \in {"profile", "link", "unlink", "drop"} ->
                            [clerk[d] EXCEPT !.skill = Gone]
                       [] OTHER -> clerk[d]]
  BY DEF DropSkill
<1> HIDE DEF s
<1>4. OffDuty.pc = "idle" /\ OffDuty \in ClerkState
  BY DEF OffDuty, ClerkState
<1>5. ASSUME NEW e \in Clerk
      PROVE  /\ clerk'[e] \in ClerkState
             /\ e = c => clerk'[e] = OffDuty
             /\ e # c => clerk'[e].pc = clerk[e].pc
             /\ clerk'[e].pc \notin {"profile", "link", "unlink", "drop"} /\ e # c => clerk'[e] = clerk[e]
             /\ clerk'[e].pc \in {"profile", "link", "unlink", "drop"} =>
                  clerk'[e].skill = IF clerk[e].skill = s THEN Gone ELSE clerk[e].skill
             /\ clerk'[e].pc = "link" => clerk'[e].slug = clerk[e].slug
  <2>1. CASE e = c
    BY <2>1, <1>3, <1>4
  <2>2. CASE e # c /\ clerk[e].pc \in {"profile", "link", "unlink", "drop"} /\ clerk[e].skill = s
    <3>1. clerk'[e] = [clerk[e] EXCEPT !.skill = Gone]
      BY <2>2, <1>3
    <3>2. clerk[e] \in Teaching \cup Forgetting
      <4>1. clerk[e] \in {OffDuty} \cup Recording \cup Removing \cup Teaching \cup Forgetting
        BY DEF ProfilesInv, ProfilesTypeOK
      <4> QED
        BY <4>1, <2>2, <1>4 DEF Recording, Removing
    <3>3. CASE clerk[e] \in Forgetting
      BY <3>1, <3>3, <2>2 DEF Forgetting, ClerkState
    <3>4. CASE clerk[e] \in [pc : {"learn", "profile"}, skill : Skill \cup {Gone}, slug : Slug, rank : Rank]
      BY <3>1, <3>4, <2>2 DEF Teaching, ClerkState
    <3>5. CASE clerk[e] \in [pc : {"link"}, skill : Skill \cup {Gone}, slug : Slug \cup {Gone}, rank : Rank]
      BY <3>1, <3>5, <2>2 DEF Teaching, ClerkState
    <3> QED
      BY <3>2, <3>3, <3>4, <3>5 DEF Teaching
  <2>3. CASE e # c /\ ~(clerk[e].pc \in {"profile", "link", "unlink", "drop"} /\ clerk[e].skill = s)
    BY <2>3, <1>3 DEF ProfilesInv, ProfilesTypeOK, ClerkState
  <2> QED
    BY <2>1, <2>2, <2>3
<1>6. ProfilesTypeOK'
  <2>1. clerk' \in [Clerk -> ClerkState]
    BY <1>3, <1>5
  <2> QED
    BY <1>2, <1>3, <2>1 DEF ProfilesInv, ProfilesTypeOK, ClerkState
<1>7. UNCHANGED ListProfiles
  BY <1>2 DEF ListProfiles
<1>8. FoundOrGone'
  <2> SUFFICES ASSUME NEW e \in Clerk
               PROVE  /\ clerk'[e].pc \in {"profile", "link", "unlink", "drop"} => clerk'[e].skill \in skill' \cup {Gone}
                      /\ clerk'[e].pc = "link" => clerk'[e].slug \in ListProfiles \cup {Gone}
                      /\ clerk'[e].pc = "learn" => clerk'[e].skill \in Skill
    BY <1>7 DEF FoundOrGone
  <2>1. CASE e = c
    BY <2>1, <1>4, <1>5
  <2>2. CASE e # c
    BY <2>2, <1>3, <1>5 DEF ProfilesInv, FoundOrGone
  <2> QED
    BY <2>1, <2>2
<1>9. LinksHeld'
  BY <1>3, <1>7 DEF ProfilesInv, LinksHeld
<1> QED
  BY <1>2, <1>4, <1>5, <1>6, <1>8, <1>9, AsideStep

\* The relay stops: open calls are gone, rows stay.
LEMMA ProfilesStopStep ==
    ASSUME ProfilesInv, ProfilesStop
    PROVE  ProfilesInv'
<1>1. /\ clerk' = [c \in Clerk |-> OffDuty]
      /\ UNCHANGED <<profile, skill, link, crew, asked, mixed, unkept>>
  BY DEF ProfilesStop
<1>2. \A e \in Clerk : clerk'[e].pc = "idle"
  BY <1>1 DEF OffDuty
<1>3. ProfilesTypeOK' /\ FoundOrGone' /\ LinksHeld'
  BY <1>1, <1>2 DEF ProfilesInv, ProfilesTypeOK, FoundOrGone, LinksHeld, ListProfiles
<1> QED
  BY <1>1, <1>2, <1>3, AsideStep

\* Every step of a call, of an agent or of the relay keeps the invariant.
LEMMA ProfilesInductive ==
    ASSUME ProfilesInv, [ProfilesNext]_profileVars
    PROVE  ProfilesInv'
<1>1. ASSUME NEW c \in Clerk, ProfileCall(c) PROVE ProfilesInv'
  BY <1>1, RegisterProfileStep, InsertProfileStep, UpdateProfileStep, HandleDeleteProfileStep,
     CheckInUseStep, DeleteProfileStep
  DEF ProfileCall, HandleRegisterProfile
<1>2. ASSUME NEW c \in Clerk, SkillCall(c) PROVE ProfilesInv'
  BY <1>2, UpsertSkillStep, InsertSkillStep, CreateSkillStep, LinkProfileSkillStep,
     DeleteSkillStep, UnlinkSkillStep, DropSkillStep
  DEF SkillCall
<1>3. CASE UNCHANGED profileVars
  BY <1>3
  DEF profileVars, ProfilesInv, ProfilesTypeOK, RecordingKept, CrossingsSeen, Holds, AskedColumns,
      DeletesChecked, FoundOrGone, RegistrationKept, AgentsKept, LinksHeld, ListProfiles
<1> QED
  BY <1>1, <1>2, <1>3, CrewStep, ProfilesStopStep DEF ProfilesNext

\* Profiles, skills, links and calls keep their types, for any number of them.
THEOREM ProfilesTypeCorrect == ProfilesSpec => []ProfilesTypeOK
<1>1. ProfilesInv => ProfilesTypeOK
  BY DEF ProfilesInv
<1> QED
  BY <1>1, ProfilesInitially, ProfilesInductive, PTL DEF ProfilesSpec

\* As links have both their ends, one per pair, the queries over them show the same.
LEMMA LinksShown == ProfilesInv => LinksKept
<1> SUFFICES ASSUME ProfilesInv PROVE LinksKept
  OBVIOUS
<1>1. LinksHeld /\ link \subseteq Link
  BY DEF ProfilesInv, ProfilesTypeOK
<1>2. ASSUME NEW s \in skill
      PROVE  /\ FindProfilesBySkill(s) = {p \in Slug : s \in apiGetSkills(p)}
             /\ FindBestProfileForSkill(s) \subseteq
                  IF FindProfilesBySkill(s) = {} THEN FindProfilesBySkillTag(s) ELSE FindProfilesBySkill(s)
  <2>1. FindProfilesBySkill(s) = {p \in Slug : s \in apiGetSkills(p)}
    BY DEF FindProfilesBySkill, apiGetSkills, GetProfileSkillLinks, ListProfiles
  <2>2. \A l \in GetSkillProfileLinks(s) : l.slug \in FindProfilesBySkill(s)
    BY DEF GetSkillProfileLinks, FindProfilesBySkill
  <2>3. CASE GetSkillProfileLinks(s) = {}
    <3>1. FindProfilesBySkill(s) = {}
      BY <2>3, <1>1 DEF GetSkillProfileLinks, FindProfilesBySkill, LinksHeld
    <3> QED
      BY <2>1, <2>3, <3>1 DEF FindBestProfileForSkill
  <2>4. CASE GetSkillProfileLinks(s) # {}
    BY <2>1, <2>2, <2>4 DEF FindBestProfileForSkill
  <2> QED
    BY <2>3, <2>4
<1> QED
  BY <1>1, <1>2 DEF LinksKept, LinksHeld

-----------------------------------------------------------------------------
(*****************************************************************************)
(* Planning.                                                                 *)
(*****************************************************************************)

PlanState == {AtEase} \cup Placing \cup Emptying \cup Editing \cup Measuring

ItemsOf(g) == {t \in StoredItems : item[t].goal = g}

\* A row that was never created was never edited.
Untouched ==
    /\ \A t \in Item : item[t].status = "absent" => answered[t] = <<>> /\ item[t].goal = Nowhere
    /\ \A g \in Goal : goal[g].status = "absent" => answered[g] = <<>>

\* A call edits a row.
EditsRow(c, r) == plan[c].pc \in {"task", "goal"} /\ plan[c].row = r

\* Two calls that edit a row at once have been seen to cross.
EditorsSeen ==
    \A c, d \in Planner : c # d =>
        \A r \in Item \cup Goal : EditsRow(c, r) /\ EditsRow(d, r) => r \in crossed

\* What a call has read of a task is what the row says, if nobody crossed it.
TasksRead ==
    \A c \in Planner : plan[c].pc = "task" =>
        LET t == plan[c].row IN
        /\ item[t].status # "absent"
        /\ t \in StoredItems /\ t \notin crossed =>
             plan[c].old.board = item[t].board /\ plan[c].old.goal = item[t].goal

\* Of a goal the parent stays, whoever crosses, and a completed goal was read with its date.
GoalsRead ==
    \A c \in Planner : plan[c].pc = "goal" =>
        LET g == plan[c].row
            old == plan[c].old IN
        /\ goal[g].status # "absent" /\ old.status # "absent"
        /\ old.parent = goal[g].parent
        /\ old.status = "completed" => old.completed
        /\ g \notin crossed => old.title = goal[g].title /\ old.status = goal[g].status

\* The tasks of a goal are among those that were counted, unless one joined.
Counted ==
    \A c \in Planner : plan[c].pc = "progress" /\ ~plan[c].joined =>
        \E S \in SUBSET Item : Cardinality(S) = plan[c].total /\ ItemsOf(plan[c].goal) \subseteq S

Dated == \A g \in StoredGoals : goal[g].status = "completed" => goal[g].completed

\* Goals hang below roots: each is one step further down than its parent.
Hangs(depth, g) ==
    LET p == goal[g].parent IN
    /\ p \in StoredGoals \cup {Nowhere}
    /\ depth[g] < Cardinality(StoredGoals)
    /\ p \in StoredGoals => depth[g] = depth[p] + 1
    /\ p \notin StoredGoals => depth[g] = 0

Forest == \E depth \in [Goal -> Nat] : \A g \in StoredGoals : Hangs(depth, g)

PlanningInv ==
    /\ PlanningTypeOK
    /\ answered = [r \in Item \cup Goal |-> answered[r]]
    /\ Untouched /\ EditorsSeen /\ TasksRead /\ GoalsRead /\ Counted /\ Dated /\ Forest
    /\ BoardsKept /\ EditsKept

\* What a call remembers at each of its positions.
LEMMA PlanStates ==
    ASSUME PlanningTypeOK, NEW c \in Planner
    PROVE  /\ plan[c] \in PlanState
           /\ plan[c].pc \in {"idle", "shelve", "insert", "empty", "task", "goal", "progress"}
           /\ plan[c].pc = "idle" => plan[c] = AtEase
           /\ plan[c].pc = "shelve" => plan[c].goal \in Goal \cup {Nowhere}
           /\ plan[c].pc = "insert" =>
                plan[c].board \in Board \cup {Nowhere} /\ plan[c].goal \in Goal \cup {Nowhere}
           /\ plan[c].pc = "empty" => plan[c].board \in Board
           /\ plan[c].pc = "task" =>
                plan[c].row \in Item /\ plan[c].ask \in TaskEdit /\ plan[c].old \in ItemRow
           /\ plan[c].pc = "goal" =>
                plan[c].row \in Goal /\ plan[c].ask \in GoalEdit /\ plan[c].old \in GoalRow
           /\ plan[c].pc = "progress" =>
                /\ plan[c] \in Measuring
                /\ plan[c].goal \in Goal /\ plan[c].total \in Nat /\ plan[c].joined \in BOOLEAN
<1>1. plan[c] \in {AtEase} \cup Placing \cup Emptying \cup Editing \cup Measuring
  BY DEF PlanningTypeOK
<1>2. CASE plan[c] = AtEase
  BY <1>2 DEF AtEase, PlanState
<1>3. CASE plan[c] \in Placing
  BY <1>3 DEF Placing, PlanState
<1>4. CASE plan[c] \in Emptying
  BY <1>4 DEF Emptying, PlanState
<1>5. CASE plan[c] \in Editing
  BY <1>5 DEF Editing, PlanState
<1>6. CASE plan[c] \in Measuring
  BY <1>6 DEF Measuring, PlanState
<1> QED
  BY <1>1, <1>2, <1>3, <1>4, <1>5, <1>6

\* The columns an edit of a task may name.
LEMMA TaskAsks ==
    ASSUME NEW ask \in TaskEdit
    PROVE  /\ DOMAIN ask \subseteq {"board", "goal"}
           /\ "board" \in DOMAIN ask => ask["board"] \in Board
           /\ "goal" \in DOMAIN ask => ask["goal"] \in Goal
<1>1. CASE ask = <<>>
  BY <1>1, DOMAIN <<>> = {}
<1>2. CASE ask \in [board : Board]
  BY <1>2
<1>3. CASE ask \in [goal : Goal]
  BY <1>3
<1>4. CASE ask \in [board : Board, goal : Goal]
  BY <1>4
<1> QED
  BY <1>1, <1>2, <1>3, <1>4 DEF TaskEdit

\* The columns an edit of a goal may name.
LEMMA GoalAsks ==
    ASSUME NEW ask \in GoalEdit
    PROVE  /\ DOMAIN ask \subseteq {"title", "status"}
           /\ "title" \in DOMAIN ask => ask["title"] \in Title
           /\ "status" \in DOMAIN ask => ask["status"] \in GoalStatus
<1>1. CASE ask \in [title : Title]
  BY <1>1
<1>2. CASE ask \in [status : GoalStatus]
  BY <1>2
<1> QED
  BY <1>1, <1>2 DEF GoalEdit

\* Nothing is created and no call is open: the invariant holds, with every goal at depth 0.
LEMMA PlanningInitially == PlanningInit => PlanningInv
<1> SUFFICES ASSUME PlanningInit PROVE PlanningInv
  OBVIOUS
<1>1. AtEase.pc = "idle" /\ DOMAIN <<>> = {}
  BY DEF AtEase
<1>2. \A c \in Planner : plan[c].pc = "idle"
  BY <1>1 DEF PlanningInit
<1>3. PlanningTypeOK
  BY DEF PlanningInit, PlanningTypeOK, BoardRow, ItemRow, GoalRow
<1>4. StoredItems = {} /\ StoredGoals = {}
  BY DEF PlanningInit, StoredItems, StoredGoals
<1>5. Untouched /\ BoardsKept /\ EditsKept /\ Dated
  BY <1>1, <1>4 DEF PlanningInit, Untouched, BoardsKept, EditsKept, Dated
<1>6. EditorsSeen /\ TasksRead /\ GoalsRead /\ Counted
  BY <1>2 DEF EditorsSeen, EditsRow, TasksRead, GoalsRead, Counted
<1>7. Forest
  <2>1. [g \in Goal |-> 0] \in [Goal -> Nat]
    OBVIOUS
  <2> QED
    BY <2>1, <1>4 DEF Forest
<1> QED
  BY <1>3, <1>5, <1>6, <1>7 DEF PlanningInv, PlanningInit

-----------------------------------------------------------------------------

\* One call moves on, the others stay where they are.
LEMMA Moving ==
    ASSUME PlanningTypeOK, NEW c \in Planner, NEW d \in PlanState, Moves(c, d)
    PROVE  /\ plan' \in [Planner -> PlanState]
           /\ plan'[c] = d
           /\ \A e \in Planner : e # c => plan'[e] = plan[e]
  BY DEF Moves, PlanningTypeOK, PlanState

\* The forest stays as long as no goal is created.
LEMMA ForestStays ==
    ASSUME Forest, StoredGoals' = StoredGoals,
           \A g \in StoredGoals : goal'[g].parent = goal[g].parent
    PROVE  Forest'
<1>1. PICK depth \in [Goal -> Nat] : \A g \in StoredGoals : Hangs(depth, g)
  BY DEF Forest
<1>2. \A g \in StoredGoals' : Hangs(depth, g)'
  BY <1>1 DEF Hangs
<1> QED
  BY <1>2 DEF Forest

\* A step of a call that edits no row and counts nothing.
LEMMA AsideKeeps ==
    ASSUME PlanningInv, UNCHANGED <<item, goal, answered, crossed>>,
           \A e \in Planner : plan'[e].pc \in {"task", "goal", "progress"} => plan'[e] = plan[e],
           PlanningTypeOK', BoardsKept'
    PROVE  PlanningInv'
<1>1. StoredItems' = StoredItems /\ StoredGoals' = StoredGoals
  BY DEF StoredItems, StoredGoals
<1>2. Untouched' /\ Dated' /\ EditsKept'
  <2>1. Untouched'
    BY DEF PlanningInv, Untouched
  <2>2. Dated'
    BY <1>1 DEF PlanningInv, Dated
  <2>3. EditsKept'
    BY <1>1 DEF PlanningInv, EditsKept
  <2> QED
    BY <2>1, <2>2, <2>3
<1>3. EditorsSeen'
  BY DEF PlanningInv, EditorsSeen, EditsRow
<1>4. TasksRead' /\ GoalsRead'
  BY <1>1 DEF PlanningInv, TasksRead, GoalsRead
<1>5. Counted'
  BY <1>1 DEF PlanningInv, Counted, ItemsOf
<1>6. Forest'
  BY <1>1, ForestStays DEF PlanningInv
<1> QED
  BY <1>2, <1>4, <1>5, <1>6, <1>3 DEF PlanningInv

-----------------------------------------------------------------------------

\* A board is created under a free slug or deleted once archived.
LEMMA EditBoardsStep ==
    ASSUME PlanningInv, NEW b \in Board, NewBoard(b) \/ DeleteBoard(b)
    PROVE  PlanningInv'
<1>1. /\ UNCHANGED <<item, goal, plan, answered, crossed, late, cut>>
      /\ board' = [board EXCEPT ![b] = board'[b]] /\ board[b] \in {"absent", "archived"}
      /\ board'[b] \in {"open", "deleted"}
  <2>1. board \in [Board -> BoardRow]
    BY DEF PlanningInv, PlanningTypeOK
  <2> QED
    BY <2>1 DEF NewBoard, CreateBoard, DeleteBoard
<1>2. PlanningTypeOK'
  BY <1>1 DEF PlanningInv, PlanningTypeOK, BoardRow
<1>3. StoredItems' = StoredItems
  BY <1>1 DEF StoredItems
<1>4. ListBoards \subseteq ListBoards'
  BY <1>1 DEF ListBoards, PlanningInv, PlanningTypeOK
<1>5. BoardsKept'
  BY <1>1, <1>3, <1>4 DEF PlanningInv, BoardsKept
<1> QED
  BY <1>1, <1>2, <1>5, AsideKeeps

\* The first statement of archive_board: the board is noted until its tasks follow.
LEMMA ArchiveBoardStep ==
    ASSUME PlanningInv, NEW c \in Planner, NEW b \in Board, ArchiveBoard(c, b)
    PROVE  PlanningInv'
<1> DEFINE d == [pc |-> "empty", board |-> b]
<1>1. d \in PlanState /\ d.pc = "empty"
  BY DEF PlanState, Emptying
<1>2. /\ UNCHANGED <<item, goal, answered, crossed, late>>
      /\ board' = [board EXCEPT ![b] = IF @ = "open" THEN "archived" ELSE @]
      /\ Moves(c, d)
      /\ cut' = cut \cup {b}
  BY DEF ArchiveBoard
<1> HIDE DEF d
<1>3. /\ plan' \in [Planner -> PlanState]
      /\ plan'[c] = d
      /\ \A e \in Planner : e # c => plan'[e] = plan[e]
  BY <1>1, <1>2, Moving DEF PlanningInv
<1>4. PlanningTypeOK'
  BY <1>2, <1>3 DEF PlanningInv, PlanningTypeOK, BoardRow, PlanState
<1>5. StoredItems' = StoredItems /\ ListBoards \subseteq ListBoards' \cup {b}
  BY <1>2 DEF StoredItems, ListBoards, PlanningInv, PlanningTypeOK
<1>6. BoardsKept'
  BY <1>2, <1>5 DEF PlanningInv, BoardsKept
<1> QED
  BY <1>1, <1>2, <1>3, <1>4, <1>6, AsideKeeps

\* A call settles where its task will go: a board it was given, the first open one, or
\* a new backlog.
LEMMA PlaceStep ==
    ASSUME PlanningInv, NEW c \in Planner,
           \/ \E g \in StoredGoals \cup {Nowhere} : PickBoard(c, g) \/ \E b \in Board : NameBoard(c, b, g)
           \/ AutoBacklog(c)
    PROVE  PlanningInv'
<1>1. StoredGoals \subseteq Goal /\ ListBoards \subseteq Board
  BY DEF StoredGoals, ListBoards
<1>2. \A b \in Board \cup {Nowhere}, g \in Goal \cup {Nowhere} :
        LET d == [pc |-> "insert", board |-> b, goal |-> g] IN d \in PlanState /\ d.pc = "insert"
  BY DEF PlanState, Placing
<1>3. \A g \in Goal \cup {Nowhere} :
        LET d == [pc |-> "shelve", goal |-> g] IN d \in PlanState /\ d.pc = "shelve"
  BY DEF PlanState, Placing
<1>4. plan[c].pc = "shelve" => plan[c].goal \in Goal \cup {Nowhere}
  BY PlanStates DEF PlanningInv
<1>5. PICK d \in PlanState : d.pc \in {"insert", "shelve"} /\ Moves(c, d)
  <2>1. ASSUME NEW g \in StoredGoals \cup {Nowhere}, PickBoard(c, g)
        PROVE  \E d \in PlanState : d.pc \in {"insert", "shelve"} /\ Moves(c, d)
    BY <2>1, <1>1, <1>2, <1>3 DEF PickBoard
  <2>2. ASSUME NEW g \in StoredGoals \cup {Nowhere}, NEW b \in Board, NameBoard(c, b, g)
        PROVE  \E d \in PlanState : d.pc \in {"insert", "shelve"} /\ Moves(c, d)
    BY <2>2, <1>1, <1>2 DEF NameBoard
  <2>3. ASSUME AutoBacklog(c)
        PROVE  \E d \in PlanState : d.pc \in {"insert", "shelve"} /\ Moves(c, d)
    BY <2>3, <1>2, <1>4 DEF AutoBacklog
  <2> QED
    BY <2>1, <2>2, <2>3
<1>6. /\ UNCHANGED <<item, goal, answered, crossed, late, cut>>
      /\ board' \in [Board -> BoardRow]
      /\ ListBoards \subseteq ListBoards'
  <2>1. board \in [Board -> BoardRow] /\ "open" \in BoardRow
    BY DEF PlanningInv, PlanningTypeOK, BoardRow
  <2> QED
    BY <2>1 DEF PickBoard, NameBoard, AutoBacklog, CreateBoard, ListBoards
<1>7. /\ plan' \in [Planner -> PlanState]
      /\ plan'[c] = d
      /\ \A e \in Planner : e # c => plan'[e] = plan[e]
  BY <1>5, Moving DEF PlanningInv
<1>8. PlanningTypeOK'
  BY <1>6, <1>7 DEF PlanningInv, PlanningTypeOK, PlanState
<1>9. StoredItems' = StoredItems
  BY <1>6 DEF StoredItems
<1>10. BoardsKept'
  BY <1>6, <1>9 DEF PlanningInv, BoardsKept
<1> QED
  BY <1>5, <1>6, <1>7, <1>8, <1>10, AsideKeeps

\* The relay stops: open calls are gone, boards cut off halfway stay noted.
LEMMA StopsStep ==
    ASSUME PlanningInv, PlanningStops
    PROVE  PlanningInv'
<1>1. /\ plan' = [c \in Planner |-> AtEase]
      /\ UNCHANGED <<board, item, goal, answered, crossed, late, cut>>
  BY DEF PlanningStops
<1>2. \A e \in Planner : plan'[e].pc = "idle"
  BY <1>1 DEF AtEase
<1>3. PlanningTypeOK'
  BY <1>1 DEF PlanningInv, PlanningTypeOK
<1>4. BoardsKept'
  BY <1>1 DEF PlanningInv, BoardsKept, StoredItems, ListBoards
<1> QED
  BY <1>1, <1>2, <1>3, <1>4, AsideKeeps

\* The second count is taken and the call answers.
LEMMA GetGoalProgressStep ==
    ASSUME PlanningInv, NEW c \in Planner, GetGoalProgress(c)
    PROVE  PlanningInv'
<1>1. Moves(c, AtEase) /\ UNCHANGED <<board, item, goal, answered, crossed, late, cut>>
  BY DEF GetGoalProgress
<1>2. AtEase \in PlanState /\ AtEase.pc = "idle"
  BY DEF PlanState, AtEase
<1>3. /\ plan' \in [Planner -> PlanState]
      /\ plan'[c] = AtEase
      /\ \A e \in Planner : e # c => plan'[e] = plan[e]
  BY <1>1, <1>2, Moving DEF PlanningInv
<1>4. PlanningTypeOK'
  BY <1>1, <1>3 DEF PlanningInv, PlanningTypeOK, PlanState
<1>5. BoardsKept'
  BY <1>1 DEF PlanningInv, BoardsKept, StoredItems, ListBoards
<1> QED
  BY <1>1, <1>2, <1>3, <1>4, <1>5, AsideKeeps

\* A step that moves, hides or deletes tasks and leaves them on their boards and goals.
LEMMA ItemsKeep ==
    ASSUME PlanningInv, UNCHANGED <<goal, crossed>>,
           \A e \in Planner : plan'[e].pc \in {"task", "goal", "progress"} => plan'[e] = plan[e],
           StoredItems' \subseteq StoredItems,
           \A t \in Item :
             /\ item'[t].board = item[t].board /\ item'[t].goal = item[t].goal
             /\ item'[t].status = "absent" <=> item[t].status = "absent",
           answered' = [r \in Item \cup Goal |-> answered'[r]],
           \A r \in Item \cup Goal :
             \/ answered'[r] = answered[r]
             \/ r \in Item \ StoredItems' /\ answered'[r] = <<>>,
           PlanningTypeOK', BoardsKept'
    PROVE  PlanningInv'
<1>1. StoredGoals' = StoredGoals
  BY DEF StoredGoals
<1>2. Item \cap Goal = {}
  BY PlanningAssumption
<1>3. \A g \in Goal : answered'[g] = answered[g]
  BY <1>2
<1>4. Untouched'
  BY <1>3 DEF PlanningInv, Untouched
<1>5. EditorsSeen'
  BY DEF PlanningInv, EditorsSeen, EditsRow
<1>6. TasksRead'
  <2> SUFFICES ASSUME NEW c \in Planner, plan[c].pc = "task", plan'[c] = plan[c]
               PROVE  LET t == plan[c].row IN
                      /\ item'[t].status # "absent"
                      /\ t \in StoredItems' /\ t \notin crossed =>
                           plan[c].old.board = item'[t].board /\ plan[c].old.goal = item'[t].goal
    BY DEF TasksRead
  <2>1. plan[c].row \in Item
    BY PlanStates DEF PlanningInv
  <2> QED
    BY <2>1 DEF PlanningInv, TasksRead
<1>7. GoalsRead'
  BY DEF PlanningInv, GoalsRead
<1>8. Counted'
  <2> SUFFICES ASSUME NEW c \in Planner, plan'[c].pc = "progress", ~plan'[c].joined
               PROVE  \E S \in SUBSET Item :
                        /\ Cardinality(S) = plan'[c].total
                        /\ {t \in StoredItems' : item'[t].goal = plan'[c].goal} \subseteq S
    BY DEF Counted, ItemsOf
  <2>1. plan'[c] = plan[c]
    OBVIOUS
  <2>2. PICK S \in SUBSET Item : Cardinality(S) = plan[c].total /\ ItemsOf(plan[c].goal) \subseteq S
    BY <2>1 DEF PlanningInv, Counted
  <2>3. {t \in StoredItems' : item'[t].goal = plan[c].goal} \subseteq ItemsOf(plan[c].goal)
    BY DEF ItemsOf, StoredItems
  <2> QED
    BY <2>1, <2>2, <2>3
<1>9. Dated'
  BY <1>1 DEF PlanningInv, Dated
<1>10. Forest'
  BY <1>1, ForestStays DEF PlanningInv
<1>11. EditsKept'
  <2>1. ASSUME NEW t \in StoredItems' \ crossed', NEW col \in {"board", "goal"},
               col \in DOMAIN answered'[t]
        PROVE  item'[t][col] = answered'[t][col]
    <3>1. t \in Item /\ t \in StoredItems /\ answered'[t] = answered[t]
      BY <2>1, DOMAIN <<>> = {} DEF StoredItems
    <3>2. item[t][col] = answered[t][col]
      BY <2>1, <3>1 DEF PlanningInv, EditsKept
    <3> QED
      BY <2>1, <3>1, <3>2
  <2>2. ASSUME NEW g \in StoredGoals' \ crossed', NEW col \in {"title", "status"},
               col \in DOMAIN answered'[g]
        PROVE  goal'[g][col] = answered'[g][col]
    <3>1. g \in Goal
      BY DEF StoredGoals
    <3> QED
      BY <1>1, <1>3, <2>2, <3>1 DEF PlanningInv, EditsKept
  <2> QED
    BY <2>1, <2>2 DEF EditsKept
<1> QED
  BY <1>4, <1>5, <1>6, <1>7, <1>8, <1>9, <1>10, <1>11 DEF PlanningInv

\* The columns of a task.
LEMMA ItemFields ==
    ASSUME PlanningTypeOK, NEW t \in Item
    PROVE  /\ item[t].status \in {"absent", "open", "resolved", "deleted"}
           /\ item[t].archived \in BOOLEAN
           /\ item[t].board \in Board \cup {Nowhere} /\ item[t].goal \in Goal \cup {Nowhere}
  BY DEF PlanningTypeOK, ItemRow

\* The second statement of archive_board: no task of the board stays in sight.
LEMMA ArchiveBoardTasksStep ==
    ASSUME PlanningInv, NEW c \in Planner, ArchiveBoardTasks(c)
    PROVE  PlanningInv'
<1> DEFINE b == plan[c].board
<1>1. Moves(c, AtEase) /\ UNCHANGED <<board, goal, answered, crossed>>
  BY DEF ArchiveBoardTasks
<1>2. /\ item' = [t \in Item |-> IF t \in StoredItems /\ item[t].board = b
                                 THEN [item[t] EXCEPT !.archived = TRUE] ELSE item[t]]
      /\ late' = {t \in late : item[t].board # b}
      /\ cut' = cut \ {b}
  BY DEF ArchiveBoardTasks
<1> HIDE DEF b
<1>3. AtEase \in PlanState /\ AtEase.pc = "idle"
  BY DEF PlanState, AtEase
<1>4. /\ plan' \in [Planner -> PlanState]
      /\ plan'[c] = AtEase
      /\ \A e \in Planner : e # c => plan'[e] = plan[e]
  BY <1>1, <1>3, Moving DEF PlanningInv
<1>5. item \in [Item -> ItemRow]
  BY DEF PlanningInv, PlanningTypeOK
<1>6. /\ item' \in [Item -> ItemRow]
      /\ \A t \in Item :
           /\ item'[t].status = item[t].status
           /\ item'[t].board = item[t].board /\ item'[t].goal = item[t].goal
           /\ item'[t].archived = (item[t].archived \/ (t \in StoredItems /\ item[t].board = b))
  BY <1>2, <1>5 DEF ItemRow
<1>7. StoredItems' = StoredItems /\ ListBoards' = ListBoards
  BY <1>1, <1>6 DEF StoredItems, ListBoards
<1>8. PlanningTypeOK'
  BY <1>1, <1>2, <1>4, <1>6 DEF PlanningInv, PlanningTypeOK, PlanState
<1>9. BoardsKept'
  BY <1>2, <1>6, <1>7 DEF PlanningInv, BoardsKept, StoredItems
<1>10. \A e \in Planner : plan'[e].pc \in {"task", "goal", "progress"} => plan'[e] = plan[e]
  BY <1>3, <1>4
<1>11. answered' = [r \in Item \cup Goal |-> answered'[r]]
  BY <1>1 DEF PlanningInv
<1> QED
  BY <1>1, <1>6, <1>7, <1>8, <1>9, <1>10, <1>11, ItemsKeep

\* archive_tasks hides tasks, and a hidden task may be on any board.
LEMMA ArchiveItemsStep ==
    ASSUME PlanningInv, NEW s \in {"open", "resolved"}, NEW boards, ArchiveItems(s, boards)
    PROVE  PlanningInv'
<1>1. /\ item' = [t \in Item |-> IF item[t].status = s /\ item[t].board \in boards
                                 THEN [item[t] EXCEPT !.archived = TRUE] ELSE item[t]]
      /\ UNCHANGED <<board, goal, plan, answered, crossed, late, cut>>
  BY DEF ArchiveItems
<1>2. item \in [Item -> ItemRow]
  BY DEF PlanningInv, PlanningTypeOK
<1>3. /\ item' \in [Item -> ItemRow]
      /\ \A t \in Item :
           /\ item'[t].status = item[t].status
           /\ item'[t].board = item[t].board /\ item'[t].goal = item[t].goal
           /\ item[t].archived => item'[t].archived
  BY <1>1, <1>2 DEF ItemRow
<1>4. StoredItems' = StoredItems /\ ListBoards' = ListBoards
  BY <1>1, <1>3 DEF StoredItems, ListBoards
<1>5. PlanningTypeOK'
  BY <1>1, <1>3 DEF PlanningInv, PlanningTypeOK
<1>6. BoardsKept'
  BY <1>1, <1>3, <1>4 DEF PlanningInv, BoardsKept, StoredItems
<1>7. answered' = [r \in Item \cup Goal |-> answered'[r]]
  BY <1>1 DEF PlanningInv
<1> QED
  BY <1>1, <1>3, <1>4, <1>5, <1>6, <1>7, ItemsKeep

\* A change of a task's status leaves its board and its goal.
LEMMA MoveItemStep ==
    ASSUME PlanningInv, NEW t \in Item, NEW s \in {"open", "resolved"}, MoveItem(t, s)
    PROVE  PlanningInv'
<1>1. /\ t \in StoredItems /\ item' = [item EXCEPT ![t].status = s]
      /\ UNCHANGED <<board, goal, plan, answered, crossed, late, cut>>
  BY DEF MoveItem
<1>2. item \in [Item -> ItemRow]
  BY DEF PlanningInv, PlanningTypeOK
<1>3. /\ item' \in [Item -> ItemRow]
      /\ item'[t].status = s /\ item[t].status \in {"open", "resolved"}
      /\ \A u \in Item :
           /\ u # t => item'[u] = item[u]
           /\ item'[u].board = item[u].board /\ item'[u].goal = item[u].goal
           /\ item'[u].archived = item[u].archived
  BY <1>1, <1>2 DEF ItemRow, StoredItems
<1>4. StoredItems' = StoredItems /\ ListBoards' = ListBoards
  BY <1>1, <1>3 DEF StoredItems, ListBoards
<1>5. PlanningTypeOK'
  BY <1>1, <1>3 DEF PlanningInv, PlanningTypeOK
<1>6. BoardsKept'
  BY <1>1, <1>3, <1>4 DEF PlanningInv, BoardsKept, StoredItems
<1>7. answered' = [r \in Item \cup Goal |-> answered'[r]]
  BY <1>1 DEF PlanningInv
<1>8. \A u \in Item : item'[u].status = "absent" <=> item[u].status = "absent"
  BY <1>3
<1> QED
  BY <1>1, <1>3, <1>4, <1>5, <1>6, <1>7, <1>8, ItemsKeep

\* A deleted task is no task of its goal any more.
LEMMA RemoveItemStep ==
    ASSUME PlanningInv, NEW t \in Item, RemoveItem(t)
    PROVE  PlanningInv'
<1>1. /\ t \in StoredItems /\ item' = [item EXCEPT ![t].status = "deleted"]
      /\ answered' = [answered EXCEPT ![t] = <<>>]
      /\ UNCHANGED <<board, goal, plan, crossed, late, cut>>
  BY DEF RemoveItem
<1>2. item \in [Item -> ItemRow] /\ answered = [r \in Item \cup Goal |-> answered[r]]
  BY DEF PlanningInv, PlanningTypeOK
<1>3. /\ item' \in [Item -> ItemRow]
      /\ item'[t].status = "deleted" /\ item[t].status # "absent"
      /\ \A u \in Item :
           /\ u # t => item'[u] = item[u]
           /\ item'[u].board = item[u].board /\ item'[u].goal = item[u].goal
           /\ item'[u].archived = item[u].archived
  BY <1>1, <1>2 DEF ItemRow, StoredItems
<1>4. /\ answered' = [r \in Item \cup Goal |-> answered'[r]]
      /\ answered'[t] = <<>>
      /\ \A r \in Item \cup Goal : r # t => answered'[r] = answered[r]
  BY <1>1, <1>2
<1>5. StoredItems' = StoredItems \ {t} /\ ListBoards' = ListBoards
  BY <1>1, <1>3 DEF StoredItems, ListBoards
<1>6. PlanningTypeOK'
  BY <1>1, <1>3 DEF PlanningInv, PlanningTypeOK
<1>7. BoardsKept'
  BY <1>1, <1>3, <1>5 DEF PlanningInv, BoardsKept, StoredItems
<1>8. \A u \in Item : item'[u].status = "absent" <=> item[u].status = "absent"
  BY <1>3
<1>9. \A r \in Item \cup Goal :
        answered'[r] = answered[r] \/ (r \in Item \ StoredItems' /\ answered'[r] = <<>>)
  BY <1>4, <1>5
<1> QED
  BY <1>1, <1>3, <1>4, <1>5, <1>6, <1>7, <1>8, <1>9, ItemsKeep

-----------------------------------------------------------------------------

\* A task is dispatched, or written back with a board and a goal: the calls that are
\* counting the tasks of its new goal have missed it.
LEMMA Joining ==
    ASSUME PlanningTypeOK, NEW c \in Planner, NEW t \in Item, NEW g \in Goal \cup {Nowhere},
           NEW p \in [Planner -> PlanState], p[c] = AtEase,
           \A e \in Planner : e # c => p[e] = plan[e],
           plan' = Joins(t, g, p)
    PROVE  /\ plan' \in [Planner -> PlanState]
           /\ plan'[c] = AtEase
           /\ \A e \in Planner :
                /\ plan'[e].pc # "progress" /\ e # c => plan'[e] = plan[e]
                /\ plan'[e].pc = "progress" =>
                     /\ e # c /\ plan[e].pc = "progress"
                     /\ plan'[e].goal = plan[e].goal /\ plan'[e].total = plan[e].total
                     /\ ~plan'[e].joined => /\ ~plan[e].joined
                                            /\ plan[e].goal = g => item[t].goal = g
<1>1. AtEase \in PlanState /\ AtEase.pc = "idle"
  BY DEF PlanState, AtEase
<1>2. /\ p \in [Planner -> PlanState] /\ p[c] = AtEase
      /\ \A e \in Planner : e # c => p[e] = plan[e]
  OBVIOUS
<1>3. plan' = [e \in Planner |-> IF p[e].pc = "progress" /\ p[e].goal = g /\ item[t].goal # g
                                 THEN [p[e] EXCEPT !.joined = TRUE] ELSE p[e]]
  BY DEF Joins
<1>4. plan'[c] = AtEase
  BY <1>1, <1>2, <1>3
<1>5. ASSUME NEW e \in Planner, e # c
      PROVE  /\ plan'[e] \in PlanState
             /\ plan'[e].pc # "progress" => plan'[e] = plan[e]
             /\ plan'[e].pc = "progress" =>
                  /\ plan[e].pc = "progress"
                  /\ plan'[e].goal = plan[e].goal /\ plan'[e].total = plan[e].total
                  /\ ~plan'[e].joined => /\ ~plan[e].joined
                                         /\ plan[e].goal = g => item[t].goal = g
  <2>1. CASE p[e].pc = "progress" /\ p[e].goal = g /\ item[t].goal # g
    <3>1. plan'[e] = [plan[e] EXCEPT !.joined = TRUE] /\ plan[e] \in Measuring
      BY <2>1, <1>2, <1>3, <1>5, PlanStates
    <3>2. /\ plan'[e] \in Measuring
          /\ plan'[e].pc = "progress" /\ plan'[e].goal = plan[e].goal
          /\ plan'[e].total = plan[e].total /\ plan'[e].joined
      BY <3>1 DEF Measuring
    <3> QED
      BY <2>1, <3>2, <1>2, <1>5 DEF PlanState
  <2>2. CASE ~(p[e].pc = "progress" /\ p[e].goal = g /\ item[t].goal # g)
    BY <2>2, <1>2, <1>3, <1>5
  <2> QED
    BY <2>1, <2>2
<1>6. \A e \in Planner : plan'[e] \in PlanState
  BY <1>1, <1>4, <1>5
<1>7. plan' \in [Planner -> PlanState]
  BY <1>3, <1>6
<1> QED
  BY <1>1, <1>4, <1>5, <1>7

\* What was counted still holds the tasks of a goal, if nobody joined it.
LEMMA CountedStays ==
    ASSUME PlanningInv, NEW t \in Item, NEW g \in Goal \cup {Nowhere},
           \A u \in Item : u # t => item'[u] = item[u],
           t \in StoredItems' => item'[t].goal = g,
           t \in StoredItems \/ item[t].goal = Nowhere,
           \A e \in Planner : plan'[e].pc = "progress" =>
             /\ plan[e].pc = "progress"
             /\ plan'[e].goal = plan[e].goal /\ plan'[e].total = plan[e].total
             /\ ~plan'[e].joined => /\ ~plan[e].joined
                                    /\ plan[e].goal = g => item[t].goal = g
    PROVE  Counted'
<1> SUFFICES ASSUME NEW e \in Planner, plan'[e].pc = "progress", ~plan'[e].joined
             PROVE  \E S \in SUBSET Item :
                      /\ Cardinality(S) = plan'[e].total
                      /\ {u \in StoredItems' : item'[u].goal = plan'[e].goal} \subseteq S
  BY DEF Counted, ItemsOf
<1>1. /\ plan[e].pc = "progress" /\ ~plan[e].joined
      /\ plan'[e].goal = plan[e].goal /\ plan'[e].total = plan[e].total
      /\ plan[e].goal = g => item[t].goal = g
  OBVIOUS
<1>2. plan[e].goal \in Goal /\ plan[e].goal # Nowhere
  BY <1>1, PlanStates, PlanningAssumption DEF PlanningInv
<1>3. PICK S \in SUBSET Item : Cardinality(S) = plan[e].total /\ ItemsOf(plan[e].goal) \subseteq S
  BY <1>1 DEF PlanningInv, Counted
<1>4. {u \in StoredItems' : item'[u].goal = plan[e].goal} \subseteq ItemsOf(plan[e].goal)
  BY <1>1, <1>2 DEF ItemsOf, StoredItems
<1> QED
  BY <1>1, <1>3, <1>4

\* A task is inserted on the board that was chosen for it, which may have closed since,
\* and comes to its goal.
LEMMA DispatchItemStep ==
    ASSUME PlanningInv, NEW c \in Planner, NEW t \in Item, DispatchItem(c, t)
    PROVE  PlanningInv'
<1> DEFINE p == plan[c]
           q == [plan EXCEPT ![c] = AtEase]
           new == [status |-> "open", archived |-> FALSE, board |-> p.board, goal |-> p.goal]
<1>1. PlanningTypeOK
  BY DEF PlanningInv
<1>2. AtEase.pc = "idle"
  BY DEF AtEase
<1>3. /\ p.pc = "insert" /\ p.board \in Board \cup {Nowhere} /\ p.goal \in Goal \cup {Nowhere}
      /\ item[t].status = "absent"
  BY PlanStates DEF DispatchItem, PlanningInv
<1>4. /\ new \in ItemRow /\ new.status = "open" /\ new.board = p.board /\ new.goal = p.goal
  BY <1>3 DEF ItemRow
<1>5. /\ item' = [item EXCEPT ![t] = new]
      /\ plan' = Joins(t, p.goal, q)
      /\ late' = Stray(t, p.board)
      /\ UNCHANGED <<board, goal, answered, crossed, cut>>
  BY DEF DispatchItem
<1>6. /\ q \in [Planner -> PlanState] /\ q[c] = AtEase
      /\ \A e \in Planner : e # c => q[e] = plan[e]
  BY <1>1 DEF PlanningTypeOK, PlanState
<1> HIDE DEF new, q
<1>7. /\ plan' \in [Planner -> PlanState]
      /\ plan'[c] = AtEase
      /\ \A e \in Planner :
           /\ plan'[e].pc # "progress" /\ e # c => plan'[e] = plan[e]
           /\ plan'[e].pc = "progress" =>
                /\ e # c /\ plan[e].pc = "progress"
                /\ plan'[e].goal = plan[e].goal /\ plan'[e].total = plan[e].total
                /\ ~plan'[e].joined => /\ ~plan[e].joined
                                       /\ plan[e].goal = p.goal => item[t].goal = p.goal
  BY <1>1, <1>3, <1>5, <1>6, Joining
<1> HIDE DEF p
<1>8. \A e \in Planner : plan'[e].pc \in {"task", "goal"} => plan'[e] = plan[e]
  BY <1>7, <1>2
<1>9. \A e \in Planner : plan'[e].pc = "progress" =>
         /\ plan[e].pc = "progress"
         /\ plan'[e].goal = plan[e].goal /\ plan'[e].total = plan[e].total
         /\ ~plan'[e].joined => /\ ~plan[e].joined
                                /\ plan[e].goal = p.goal => item[t].goal = p.goal
  BY <1>7
<1>10. /\ item' \in [Item -> ItemRow] /\ item'[t] = new
       /\ \A u \in Item : u # t => item'[u] = item[u]
  BY <1>4, <1>5 DEF PlanningInv, PlanningTypeOK
<1>11. /\ StoredItems' = StoredItems \cup {t} /\ t \notin StoredItems
       /\ StoredGoals' = StoredGoals /\ ListBoards' = ListBoards
  BY <1>3, <1>4, <1>5, <1>10 DEF StoredItems, StoredGoals, ListBoards
<1>12. /\ late' \subseteq late \cup {t} /\ late \subseteq late' \cup {t}
       /\ t \notin late' => p.board \in ListBoards \cup {Nowhere}
  BY <1>5 DEF Stray
<1>13. PlanningTypeOK'
  BY <1>5, <1>7, <1>10, <1>12 DEF PlanningInv, PlanningTypeOK, PlanState
<1>14. answered[t] = <<>> /\ item[t].goal = Nowhere
  BY <1>3 DEF PlanningInv, Untouched
<1>15. Untouched'
  BY <1>4, <1>5, <1>10 DEF PlanningInv, Untouched
<1>16. EditorsSeen'
  BY <1>5, <1>8 DEF PlanningInv, EditorsSeen, EditsRow
<1>17. TasksRead'
  <2> SUFFICES ASSUME NEW e \in Planner, plan'[e].pc = "task"
               PROVE  LET u == plan'[e].row IN
                      /\ item'[u].status # "absent"
                      /\ u \in StoredItems' /\ u \notin crossed =>
                           plan'[e].old.board = item'[u].board /\ plan'[e].old.goal = item'[u].goal
    BY <1>5 DEF TasksRead
  <2>1. plan'[e] = plan[e] /\ plan[e].row \in Item
    BY <1>7, <1>2, PlanStates DEF PlanningInv
  <2>2. plan[e].row # t
    BY <2>1, <1>3 DEF PlanningInv, TasksRead
  <2> QED
    BY <2>1, <2>2, <1>10, <1>11 DEF PlanningInv, TasksRead
<1>18. GoalsRead'
  BY <1>5, <1>8 DEF PlanningInv, GoalsRead
<1>19. Counted'
  <2>1. p.goal \in Goal \cup {Nowhere} /\ (t \in StoredItems' => item'[t].goal = p.goal)
    BY <1>3, <1>4, <1>10
  <2>2. t \in StoredItems \/ item[t].goal = Nowhere
    BY <1>14
  <2> QED
    BY <2>1, <2>2, <1>10, <1>9, CountedStays
<1>20. Dated' /\ Forest'
  BY <1>5, <1>11, ForestStays DEF PlanningInv, Dated
<1>21. BoardsKept'
  BY <1>4, <1>5, <1>10, <1>11, <1>12 DEF PlanningInv, BoardsKept, StoredItems
<1>22. EditsKept'
  <2>1. ASSUME NEW u \in StoredItems' \ crossed', NEW col \in {"board", "goal"},
               col \in DOMAIN answered'[u]
        PROVE  item'[u][col] = answered'[u][col]
    <3>1. u # t /\ u \in StoredItems /\ u \in Item
      BY <2>1, <1>5, <1>11, <1>14, DOMAIN <<>> = {} DEF StoredItems
    <3> QED
      BY <2>1, <3>1, <1>5, <1>10 DEF PlanningInv, EditsKept
  <2>2. ASSUME NEW g \in StoredGoals' \ crossed', NEW col \in {"title", "status"},
               col \in DOMAIN answered'[g]
        PROVE  goal'[g][col] = answered'[g][col]
    BY <2>2, <1>5, <1>11 DEF PlanningInv, EditsKept
  <2> QED
    BY <2>1, <2>2 DEF EditsKept
<1>23. answered' = [r \in Item \cup Goal |-> answered'[r]]
  BY <1>5 DEF PlanningInv
<1> QED
  BY <1>13, <1>15, <1>16, <1>17, <1>18, <1>19, <1>20, <1>21, <1>22, <1>23 DEF PlanningInv

\* An edit reads its task; if another edit has read it, the two have crossed.
LEMMA GetTaskStep ==
    ASSUME PlanningInv, NEW c \in Planner, NEW t \in Item, NEW ask \in TaskEdit, GetTask(c, t, ask)
    PROVE  PlanningInv'
<1> DEFINE d == [pc |-> "task", row |-> t, ask |-> ask, old |-> item[t]]
<1>1. PlanningTypeOK
  BY DEF PlanningInv
<1>2. d \in PlanState
  BY <1>1 DEF PlanState, Editing, PlanningTypeOK
<1>3. d.pc = "task" /\ d.row = t /\ d.old = item[t]
  OBVIOUS
<1>4. /\ t \in StoredItems /\ Moves(c, d)
      /\ crossed' = IF Crossing(c, t) THEN crossed \cup {t} ELSE crossed
      /\ UNCHANGED <<board, item, goal, answered, late, cut>>
  BY DEF GetTask
<1> HIDE DEF d
<1>5. /\ plan' \in [Planner -> PlanState]
      /\ plan'[c] = d
      /\ \A e \in Planner : e # c => plan'[e] = plan[e]
  BY <1>1, <1>2, <1>4, Moving
<1>6. StoredItems' = StoredItems /\ StoredGoals' = StoredGoals /\ ListBoards' = ListBoards
  BY <1>4 DEF StoredItems, StoredGoals, ListBoards
<1>7. crossed \subseteq crossed' /\ crossed' \subseteq crossed \cup {t}
  BY <1>4
<1>8. PlanningTypeOK'
  BY <1>1, <1>4, <1>5, <1>7 DEF PlanningTypeOK, PlanState
<1>9. Untouched' /\ Dated' /\ Forest' /\ BoardsKept'
  <2>1. Untouched' /\ Dated'
    BY <1>4, <1>6 DEF PlanningInv, Untouched, Dated
  <2>2. Forest'
    BY <1>4, <1>6, ForestStays DEF PlanningInv
  <2>3. BoardsKept'
    BY <1>4, <1>6 DEF PlanningInv, BoardsKept
  <2> QED
    BY <2>1, <2>2, <2>3
<1>10. EditorsSeen'
  <2> SUFFICES ASSUME NEW e \in Planner, NEW f \in Planner, e # f, NEW r \in Item \cup Goal,
                      EditsRow(e, r)', EditsRow(f, r)'
               PROVE  r \in crossed'
    BY DEF EditorsSeen
  <2>1. CASE e # c /\ f # c
    BY <2>1, <1>5, <1>7 DEF PlanningInv, EditorsSeen, EditsRow
  <2>2. CASE e = c \/ f = c
    BY <2>2, <1>3, <1>4, <1>5 DEF EditsRow, Crossing
  <2> QED
    BY <2>1, <2>2
<1>11. TasksRead'
  <2> SUFFICES ASSUME NEW e \in Planner, plan'[e].pc = "task"
               PROVE  LET u == plan'[e].row IN
                      /\ item[u].status # "absent"
                      /\ u \in StoredItems /\ u \notin crossed' =>
                           plan'[e].old.board = item[u].board /\ plan'[e].old.goal = item[u].goal
    BY <1>4, <1>6 DEF TasksRead
  <2>1. CASE e # c
    BY <2>1, <1>5, <1>7 DEF PlanningInv, TasksRead
  <2>2. CASE e = c
    BY <2>2, <1>3, <1>4, <1>5 DEF StoredItems
  <2> QED
    BY <2>1, <2>2
<1>12. GoalsRead'
  <2> SUFFICES ASSUME NEW e \in Planner, plan'[e].pc = "goal"
               PROVE  LET h == plan'[e].row
                          old == plan'[e].old IN
                      /\ goal[h].status # "absent" /\ old.status # "absent"
                      /\ old.parent = goal[h].parent
                      /\ old.status = "completed" => old.completed
                      /\ h \notin crossed' => old.title = goal[h].title /\ old.status = goal[h].status
    BY <1>4 DEF GoalsRead
  <2>1. CASE e # c
    BY <2>1, <1>5, <1>7 DEF PlanningInv, GoalsRead
  <2>2. CASE e = c
    BY <2>2, <1>3, <1>4, <1>5 DEF StoredGoals, PlanningInv, Dated
  <2> QED
    BY <2>1, <2>2
<1>13. Counted'
  BY <1>3, <1>4, <1>5, <1>6 DEF PlanningInv, Counted, ItemsOf
<1>14. EditsKept'
  BY <1>4, <1>6, <1>7 DEF PlanningInv, EditsKept
<1>15. answered' = [r \in Item \cup Goal |-> answered'[r]]
  BY <1>4 DEF PlanningInv
<1> QED
  BY <1>8, <1>9, <1>10, <1>11, <1>12, <1>13, <1>14, <1>15 DEF PlanningInv

\* An edit reads its goal; if another edit has read it, the two have crossed.
LEMMA GetGoalStep ==
    ASSUME PlanningInv, NEW c \in Planner, NEW g \in Goal, NEW ask \in GoalEdit, GetGoal(c, g, ask)
    PROVE  PlanningInv'
<1> DEFINE d == [pc |-> "goal", row |-> g, ask |-> ask, old |-> goal[g]]
<1>1. PlanningTypeOK
  BY DEF PlanningInv
<1>2. d \in PlanState
  BY <1>1 DEF PlanState, Editing, PlanningTypeOK
<1>3. d.pc = "goal" /\ d.row = g /\ d.old = goal[g]
  OBVIOUS
<1>4. /\ g \in StoredGoals /\ Moves(c, d)
      /\ crossed' = IF Crossing(c, g) THEN crossed \cup {g} ELSE crossed
      /\ UNCHANGED <<board, item, goal, answered, late, cut>>
  BY DEF GetGoal
<1> HIDE DEF d
<1>5. /\ plan' \in [Planner -> PlanState]
      /\ plan'[c] = d
      /\ \A e \in Planner : e # c => plan'[e] = plan[e]
  BY <1>1, <1>2, <1>4, Moving
<1>6. StoredItems' = StoredItems /\ StoredGoals' = StoredGoals /\ ListBoards' = ListBoards
  BY <1>4 DEF StoredItems, StoredGoals, ListBoards
<1>7. crossed \subseteq crossed' /\ crossed' \subseteq crossed \cup {g}
  BY <1>4
<1>8. PlanningTypeOK'
  BY <1>1, <1>4, <1>5, <1>7 DEF PlanningTypeOK, PlanState
<1>9. Untouched' /\ Dated' /\ Forest' /\ BoardsKept'
  <2>1. Untouched' /\ Dated'
    BY <1>4, <1>6 DEF PlanningInv, Untouched, Dated
  <2>2. Forest'
    BY <1>4, <1>6, ForestStays DEF PlanningInv
  <2>3. BoardsKept'
    BY <1>4, <1>6 DEF PlanningInv, BoardsKept
  <2> QED
    BY <2>1, <2>2, <2>3
<1>10. EditorsSeen'
  <2> SUFFICES ASSUME NEW e \in Planner, NEW f \in Planner, e # f, NEW r \in Item \cup Goal,
                      EditsRow(e, r)', EditsRow(f, r)'
               PROVE  r \in crossed'
    BY DEF EditorsSeen
  <2>1. CASE e # c /\ f # c
    BY <2>1, <1>5, <1>7 DEF PlanningInv, EditorsSeen, EditsRow
  <2>2. CASE e = c \/ f = c
    BY <2>2, <1>3, <1>4, <1>5 DEF EditsRow, Crossing
  <2> QED
    BY <2>1, <2>2
<1>11. TasksRead'
  <2> SUFFICES ASSUME NEW e \in Planner, plan'[e].pc = "task"
               PROVE  LET u == plan'[e].row IN
                      /\ item[u].status # "absent"
                      /\ u \in StoredItems /\ u \notin crossed' =>
                           plan'[e].old.board = item[u].board /\ plan'[e].old.goal = item[u].goal
    BY <1>4, <1>6 DEF TasksRead
  <2>1. CASE e # c
    BY <2>1, <1>5, <1>7 DEF PlanningInv, TasksRead
  <2>2. CASE e = c
    BY <2>2, <1>3, <1>4, <1>5 DEF StoredItems
  <2> QED
    BY <2>1, <2>2
<1>12. GoalsRead'
  <2> SUFFICES ASSUME NEW e \in Planner, plan'[e].pc = "goal"
               PROVE  LET h == plan'[e].row
                          old == plan'[e].old IN
                      /\ goal[h].status # "absent" /\ old.status # "absent"
                      /\ old.parent = goal[h].parent
                      /\ old.status = "completed" => old.completed
                      /\ h \notin crossed' => old.title = goal[h].title /\ old.status = goal[h].status
    BY <1>4 DEF GoalsRead
  <2>1. CASE e # c
    BY <2>1, <1>5, <1>7 DEF PlanningInv, GoalsRead
  <2>2. CASE e = c
    BY <2>2, <1>3, <1>4, <1>5 DEF StoredGoals, PlanningInv, Dated
  <2> QED
    BY <2>1, <2>2
<1>13. Counted'
  BY <1>3, <1>4, <1>5, <1>6 DEF PlanningInv, Counted, ItemsOf
<1>14. EditsKept'
  BY <1>4, <1>6, <1>7 DEF PlanningInv, EditsKept
<1>15. answered' = [r \in Item \cup Goal |-> answered'[r]]
  BY <1>4 DEF PlanningInv
<1> QED
  BY <1>8, <1>9, <1>10, <1>11, <1>12, <1>13, <1>14, <1>15 DEF PlanningInv

\* The tasks of a goal are counted: they are among those that were counted.
LEMMA GetGoalWithProgressStep ==
    ASSUME PlanningInv, NEW c \in Planner, NEW g \in Goal, GetGoalWithProgress(c, g)
    PROVE  PlanningInv'
<1> DEFINE total == Cardinality(ItemsOf(g))
           d == [pc |-> "progress", goal |-> g, joined |-> FALSE, total |-> total]
<1>1. PlanningTypeOK
  BY DEF PlanningInv
<1>2. ItemsOf(g) \in SUBSET Item /\ total \in Nat
  <2>1. ItemsOf(g) \subseteq Item
    BY DEF ItemsOf, StoredItems
  <2> QED
    BY <2>1, PlanningAssumption, FS_Subset, FS_CardinalityType
<1> HIDE DEF total
<1>3. d \in PlanState /\ d.pc = "progress" /\ d.goal = g /\ d.total = total /\ ~d.joined
  BY <1>2 DEF PlanState, Measuring
<1>4. Moves(c, d) /\ UNCHANGED <<board, item, goal, answered, crossed, late, cut>>
  BY DEF GetGoalWithProgress, total, ItemsOf
<1> HIDE DEF d
<1>5. /\ plan' \in [Planner -> PlanState]
      /\ plan'[c] = d
      /\ \A e \in Planner : e # c => plan'[e] = plan[e]
  BY <1>1, <1>3, <1>4, Moving
<1>6. StoredItems' = StoredItems /\ StoredGoals' = StoredGoals /\ ListBoards' = ListBoards
  BY <1>4 DEF StoredItems, StoredGoals, ListBoards
<1>7. PlanningTypeOK'
  BY <1>1, <1>4, <1>5 DEF PlanningTypeOK, PlanState
<1>8. Untouched' /\ Dated' /\ EditsKept'
  BY <1>4, <1>6 DEF PlanningInv, Untouched, Dated, EditsKept
<1>9. Forest' /\ BoardsKept'
  <2>1. Forest'
    BY <1>4, <1>6, ForestStays DEF PlanningInv
  <2> QED
    BY <2>1, <1>4, <1>6 DEF PlanningInv, BoardsKept
<1>10. EditorsSeen' /\ TasksRead' /\ GoalsRead'
  BY <1>3, <1>4, <1>5, <1>6 DEF PlanningInv, EditorsSeen, EditsRow, TasksRead, GoalsRead
<1>11. Counted'
  <2> SUFFICES ASSUME NEW e \in Planner, plan'[e].pc = "progress", ~plan'[e].joined
               PROVE  \E S \in SUBSET Item :
                        Cardinality(S) = plan'[e].total /\ ItemsOf(plan'[e].goal) \subseteq S
    BY <1>4, <1>6 DEF Counted, ItemsOf
  <2>1. CASE e # c
    BY <2>1, <1>5 DEF PlanningInv, Counted
  <2>2. CASE e = c
    BY <2>2, <1>2, <1>3, <1>5 DEF total
  <2> QED
    BY <2>1, <2>2
<1>12. answered' = [r \in Item \cup Goal |-> answered'[r]]
  BY <1>4 DEF PlanningInv
<1> QED
  BY <1>7, <1>8, <1>9, <1>10, <1>11, <1>12 DEF PlanningInv

\* An edit writes its task back: what it was not given is what the row said, unless
\* another edit crossed it.
LEMMA UpdateTaskFieldsStep ==
    ASSUME PlanningInv, NEW c \in Planner, UpdateTaskFields(c)
    PROVE  PlanningInv'
<1> DEFINE t == plan[c].row
           ask == plan[c].ask
           old == plan[c].old
           b == Column(ask, old, "board")
           g == Column(ask, old, "goal")
           q == [plan EXCEPT ![c] = AtEase]
<1>1. PlanningTypeOK
  BY DEF PlanningInv
<1>2. /\ plan[c].pc = "task" /\ t \in Item /\ ask \in TaskEdit /\ old \in ItemRow
      /\ UNCHANGED <<board, goal, crossed, cut>>
  BY <1>1, PlanStates DEF UpdateTaskFields
<1>3. /\ b \in Board \cup {Nowhere} /\ g \in Goal \cup {Nowhere}
      /\ "board" \in DOMAIN ask => b = ask["board"]
      /\ "board" \notin DOMAIN ask => b = old.board
      /\ "goal" \in DOMAIN ask => g = ask["goal"]
      /\ "goal" \notin DOMAIN ask => g = old.goal
  BY <1>2, TaskAsks DEF Column, ItemRow
<1>4. AtEase \in PlanState /\ AtEase.pc = "idle"
  BY DEF PlanState, AtEase
<1>5. CASE t \notin StoredItems
  <2>1. Moves(c, AtEase) /\ UNCHANGED <<item, late, answered>>
    BY <1>5 DEF UpdateTaskFields
  <2>2. /\ plan' \in [Planner -> PlanState]
        /\ plan'[c] = AtEase
        /\ \A e \in Planner : e # c => plan'[e] = plan[e]
    BY <1>1, <1>4, <2>1, Moving
  <2>3. PlanningTypeOK'
    BY <1>1, <1>2, <2>1, <2>2 DEF PlanningTypeOK, PlanState
  <2>4. BoardsKept'
    BY <1>2, <2>1 DEF PlanningInv, BoardsKept, StoredItems, ListBoards
  <2> QED
    BY <1>2, <1>4, <2>1, <2>2, <2>3, <2>4, AsideKeeps
<1>6. CASE t \in StoredItems
  <2>1. /\ item' = [item EXCEPT ![t].board = b, ![t].goal = g]
        /\ plan' = Joins(t, g, q)
        /\ late' = Stray(t, b)
        /\ answered' = [answered EXCEPT ![t] = Merged(ask, @)]
    BY <1>6 DEF UpdateTaskFields
  <2>2. /\ q \in [Planner -> PlanState] /\ q[c] = AtEase
        /\ \A e \in Planner : e # c => q[e] = plan[e]
    BY <1>1, <1>4 DEF PlanningTypeOK, PlanState
  <2> HIDE DEF q, b, g
  <2>3. /\ plan' \in [Planner -> PlanState]
        /\ plan'[c] = AtEase
        /\ \A e \in Planner :
             /\ plan'[e].pc # "progress" /\ e # c => plan'[e] = plan[e]
             /\ plan'[e].pc = "progress" =>
                  /\ e # c /\ plan[e].pc = "progress"
                  /\ plan'[e].goal = plan[e].goal /\ plan'[e].total = plan[e].total
                  /\ ~plan'[e].joined => /\ ~plan[e].joined
                                         /\ plan[e].goal = g => item[t].goal = g
    BY <1>1, <1>2, <1>3, <2>1, <2>2, Joining
  <2>4. \A e \in Planner : plan'[e].pc \in {"task", "goal"} => plan'[e] = plan[e] /\ e # c
    BY <1>4, <2>3
  <2>5. \A e \in Planner : plan'[e].pc = "progress" =>
          /\ plan[e].pc = "progress"
          /\ plan'[e].goal = plan[e].goal /\ plan'[e].total = plan[e].total
          /\ ~plan'[e].joined => /\ ~plan[e].joined
                                 /\ plan[e].goal = g => item[t].goal = g
    BY <2>3
  <2> HIDE DEF t, ask, old
  <2>6. /\ item' \in [Item -> ItemRow]
        /\ item'[t].board = b /\ item'[t].goal = g
        /\ item'[t].status = item[t].status /\ item'[t].archived = item[t].archived
        /\ \A u \in Item : u # t => item'[u] = item[u]
    BY <1>1, <1>2, <1>3, <2>1 DEF PlanningTypeOK, ItemRow
  <2>7. /\ answered' = [r \in Item \cup Goal |-> answered'[r]]
        /\ answered'[t] = Merged(ask, answered[t])
        /\ \A r \in Item \cup Goal : r # t => answered'[r] = answered[r]
    BY <1>2, <2>1 DEF PlanningInv
  <2>8. /\ StoredItems' = StoredItems /\ StoredGoals' = StoredGoals /\ ListBoards' = ListBoards
    BY <1>2, <2>6 DEF StoredItems, StoredGoals, ListBoards
  <2>9. /\ late' \subseteq late \cup {t} /\ late \subseteq late' \cup {t}
        /\ t \notin late' => b \in ListBoards \cup {Nowhere}
    BY <2>1 DEF Stray
  <2>10. PlanningTypeOK'
    BY <1>1, <1>2, <2>3, <2>6, <2>9 DEF PlanningTypeOK, PlanState
  <2>11. item[t].status # "absent" /\ t \notin Goal
    BY <1>2, <1>6, PlanningAssumption DEF StoredItems
  <2>12. Untouched'
    BY <1>2, <2>6, <2>7, <2>11 DEF PlanningInv, Untouched
  <2>13. EditorsSeen' /\ GoalsRead'
    BY <1>2, <2>4 DEF PlanningInv, EditorsSeen, EditsRow, GoalsRead
  <2>14. TasksRead'
    <3> SUFFICES ASSUME NEW e \in Planner, plan'[e].pc = "task"
                 PROVE  LET u == plan'[e].row IN
                        /\ item'[u].status # "absent"
                        /\ u \in StoredItems' /\ u \notin crossed =>
                             plan'[e].old.board = item'[u].board /\ plan'[e].old.goal = item'[u].goal
      BY <1>2 DEF TasksRead
    <3>1. plan'[e] = plan[e] /\ e # c /\ plan[e].row \in Item
      BY <1>1, <2>4, PlanStates
    <3>2. CASE plan[e].row # t
      BY <3>1, <3>2, <2>6, <2>8 DEF PlanningInv, TasksRead
    <3>3. CASE plan[e].row = t
      <4>1. t \in crossed
        BY <3>1, <3>3, <1>2 DEF PlanningInv, EditorsSeen, EditsRow, t
      <4> QED
        BY <3>1, <3>3, <4>1, <2>6, <2>11
    <3> QED
      BY <3>2, <3>3
  <2>15. Counted'
    BY <1>2, <1>3, <1>6, <2>5, <2>6, CountedStays
  <2>16. Dated' /\ Forest'
    BY <1>2, <2>8, ForestStays DEF PlanningInv, Dated
  <2>17. BoardsKept'
    BY <1>2, <2>6, <2>8, <2>9 DEF PlanningInv, BoardsKept, StoredItems
  <2>18. ASSUME NEW u \in StoredItems \ crossed, NEW col \in {"board", "goal"},
                col \in DOMAIN answered'[u]
         PROVE  item'[u][col] = answered'[u][col]
    <3>1. u \in Item
      BY DEF StoredItems
    <3>2. CASE u # t
      BY <3>1, <3>2, <2>6, <2>7, <2>18 DEF PlanningInv, EditsKept
    <3>3. CASE u = t
      <4>1. answered'[t][col] = Column(ask, answered[t], col) /\ col \in DOMAIN ask \cup DOMAIN answered[t]
        BY <2>7, <2>18, <3>3 DEF Merged
      <4>2. CASE col \in DOMAIN ask
        BY <4>1, <4>2, <3>3, <1>3, <2>6 DEF Column
      <4>3. CASE col \notin DOMAIN ask
        <5>1. item[t][col] = answered[t][col]
          BY <4>1, <4>3, <3>3 DEF PlanningInv, EditsKept
        <5>2. old.board = item[t].board /\ old.goal = item[t].goal
          BY <1>2, <1>6, <3>3 DEF PlanningInv, TasksRead, t, old
        <5> QED
          BY <4>1, <4>3, <5>1, <5>2, <3>3, <1>3, <2>6 DEF Column
      <4> QED
        BY <4>2, <4>3
    <3> QED
      BY <3>2, <3>3
  <2>19. ASSUME NEW h \in StoredGoals \ crossed, NEW col \in {"title", "status"},
                col \in DOMAIN answered'[h]
         PROVE  goal[h][col] = answered'[h][col]
    <3>1. h \in Goal /\ h # t
      BY <2>11 DEF StoredGoals
    <3> QED
      BY <3>1, <2>7, <2>19 DEF PlanningInv, EditsKept
  <2>20. EditsKept'
    BY <1>2, <2>8, <2>18, <2>19 DEF EditsKept
  <2> QED
    BY <2>7, <2>10, <2>12, <2>13, <2>14, <2>15, <2>16, <2>17, <2>20 DEF PlanningInv
<1> QED
  BY <1>5, <1>6

\* A new goal hangs one step below its parent, which was there before it.
LEMMA ForestGrows ==
    ASSUME Forest, NEW g \in Goal \ StoredGoals, NEW parent \in StoredGoals \cup {Nowhere},
           StoredGoals' = StoredGoals \cup {g}, goal'[g].parent = parent,
           \A h \in StoredGoals : goal'[h].parent = goal[h].parent
    PROVE  Forest'
<1> DEFINE n == Cardinality(StoredGoals)
<1>1. PICK depth \in [Goal -> Nat] : \A h \in StoredGoals : Hangs(depth, h)
  BY DEF Forest
<1>2. StoredGoals \subseteq Goal /\ IsFiniteSet(StoredGoals) /\ n \in Nat
  <2>1. StoredGoals \subseteq Goal
    BY DEF StoredGoals
  <2> QED
    BY <2>1, PlanningAssumption, FS_Subset, FS_CardinalityType
<1>3. Cardinality(StoredGoals') = n + 1
  BY <1>2, FS_AddElement
<1> HIDE DEF n
<1>4. Nowhere \notin Goal
  BY PlanningAssumption
<1> DEFINE below == IF parent \in StoredGoals THEN depth[parent] + 1 ELSE 0
<1>5. below \in Nat /\ below < n + 1
  BY <1>1, <1>2 DEF Hangs, n
<1>6. PICK deeper \in [Goal -> Nat] :
        deeper[g] = below /\ \A h \in Goal : h # g => deeper[h] = depth[h]
  <2>1. /\ [depth EXCEPT ![g] = below] \in [Goal -> Nat]
        /\ [depth EXCEPT ![g] = below][g] = below
        /\ \A h \in Goal : h # g => [depth EXCEPT ![g] = below][h] = depth[h]
    BY <1>1, <1>5
  <2> QED
    BY <2>1
<1>7. ASSUME NEW h \in StoredGoals' PROVE Hangs(deeper, h)'
  <2>1. CASE h = g
    <3>1. parent # g
      BY <1>4
    <3>2. parent \in StoredGoals' <=> parent \in StoredGoals
      BY <3>1
    <3>3. parent \in StoredGoals => deeper[parent] = depth[parent]
      BY <3>1, <1>2, <1>6
    <3> QED
      BY <2>1, <3>2, <3>3, <1>3, <1>5, <1>6 DEF Hangs
  <2>2. CASE h # g
    <3>1. h \in StoredGoals /\ Hangs(depth, h)
      BY <2>2, <1>1
    <3>2. goal[h].parent # g
      BY <3>1, <1>4 DEF Hangs
    <3>3. /\ goal[h].parent \in StoredGoals' <=> goal[h].parent \in StoredGoals
          /\ goal[h].parent \in StoredGoals => deeper[goal[h].parent] = depth[goal[h].parent]
      BY <3>2, <1>2, <1>6
    <3>4. deeper[h] = depth[h] /\ depth[h] \in Nat /\ goal'[h].parent = goal[h].parent
      BY <2>2, <3>1, <1>1, <1>2, <1>6
    <3>5. depth[h] < n + 1
      BY <3>1, <3>4, <1>2 DEF Hangs, n
    <3> QED
      BY <3>1, <3>3, <3>4, <3>5, <1>3 DEF Hangs
  <2> QED
    BY <2>1, <2>2
<1> QED
  BY <1>6, <1>7 DEF Forest

\* A goal is created below one that is there.
LEMMA CreateGoalStep ==
    ASSUME PlanningInv, NEW g \in Goal, NEW parent \in StoredGoals \cup {Nowhere},
           NEW title \in Title, CreateGoal(g, parent, title)
    PROVE  PlanningInv'
<1> DEFINE new == [status |-> "active", title |-> title, completed |-> FALSE, parent |-> parent]
<1>1. PlanningTypeOK
  BY DEF PlanningInv
<1>2. /\ new \in GoalRow /\ new.status = "active" /\ new.parent = parent
  BY DEF GoalRow, GoalStatus, StoredGoals
<1>3. /\ g \notin StoredGoals /\ goal' = [goal EXCEPT ![g] = new]
      /\ UNCHANGED <<board, item, plan, answered, crossed, late, cut>>
  BY DEF CreateGoal
<1> HIDE DEF new
<1>4. /\ goal' \in [Goal -> GoalRow] /\ goal'[g] = new
      /\ \A h \in Goal : h # g => goal'[h] = goal[h]
  BY <1>1, <1>2, <1>3 DEF PlanningTypeOK
<1>5. /\ StoredItems' = StoredItems /\ ListBoards' = ListBoards
      /\ StoredGoals' = StoredGoals \cup {g} /\ goal[g].status = "absent"
  BY <1>2, <1>3, <1>4 DEF StoredItems, StoredGoals, ListBoards
<1>6. PlanningTypeOK'
  BY <1>1, <1>3, <1>4 DEF PlanningTypeOK
<1>7. answered[g] = <<>>
  BY <1>5 DEF PlanningInv, Untouched
<1>8. Untouched' /\ Dated'
  BY <1>2, <1>3, <1>4, <1>5 DEF PlanningInv, Untouched, Dated, StoredGoals
<1>9. EditorsSeen' /\ TasksRead' /\ Counted' /\ BoardsKept'
  BY <1>3, <1>5 DEF PlanningInv, EditorsSeen, EditsRow, TasksRead, Counted, ItemsOf, BoardsKept
<1>10. GoalsRead'
  <2> SUFFICES ASSUME NEW e \in Planner, plan[e].pc = "goal"
               PROVE  LET h == plan[e].row
                          old == plan[e].old IN
                      /\ goal'[h].status # "absent" /\ old.status # "absent"
                      /\ old.parent = goal'[h].parent
                      /\ old.status = "completed" => old.completed
                      /\ h \notin crossed => old.title = goal'[h].title /\ old.status = goal'[h].status
    BY <1>3 DEF GoalsRead
  <2>1. plan[e].row \in Goal /\ plan[e].row # g
    BY <1>1, <1>5, PlanStates DEF PlanningInv, GoalsRead
  <2> QED
    BY <2>1, <1>4 DEF PlanningInv, GoalsRead
<1>11. Forest'
  <2>1. \A h \in StoredGoals : goal'[h].parent = goal[h].parent
    BY <1>3, <1>4 DEF StoredGoals
  <2> QED
    BY <2>1, <1>2, <1>3, <1>4, <1>5, ForestGrows DEF PlanningInv
<1>12. EditsKept'
  <2>1. ASSUME NEW h \in StoredGoals' \ crossed', NEW col \in {"title", "status"},
               col \in DOMAIN answered'[h]
        PROVE  goal'[h][col] = answered'[h][col]
    <3>1. h # g /\ h \in StoredGoals /\ h \in Goal
      BY <2>1, <1>3, <1>5, <1>7, DOMAIN <<>> = {} DEF StoredGoals
    <3> QED
      BY <2>1, <3>1, <1>3, <1>4 DEF PlanningInv, EditsKept
  <2> QED
    BY <2>1, <1>3, <1>5 DEF PlanningInv, EditsKept
<1>13. answered' = [r \in Item \cup Goal |-> answered'[r]]
  BY <1>3 DEF PlanningInv
<1> QED
  BY <1>6, <1>8, <1>9, <1>10, <1>11, <1>12, <1>13 DEF PlanningInv

\* An edit writes its goal back, the parent it read among it: the forest stays, and a
\* completed goal keeps its date.
LEMMA UpdateGoalStep ==
    ASSUME PlanningInv, NEW c \in Planner, UpdateGoal(c)
    PROVE  PlanningInv'
<1> DEFINE g == plan[c].row
           ask == plan[c].ask
           old == plan[c].old
           new == [old EXCEPT !.title = Column(ask, old, "title"),
                              !.status = Column(ask, old, "status"),
                              !.completed = @ \/ /\ "status" \in DOMAIN ask
                                                 /\ ask.status = "completed"]
<1>1. PlanningTypeOK
  BY DEF PlanningInv
<1>2. /\ plan[c].pc = "goal" /\ g \in Goal /\ ask \in GoalEdit /\ old \in GoalRow
      /\ Moves(c, AtEase) /\ UNCHANGED <<board, item, crossed, late, cut>>
  BY <1>1, PlanStates DEF UpdateGoal
<1>3. /\ goal' = [goal EXCEPT ![g] = new]
      /\ answered' = [answered EXCEPT ![g] = Merged(ask, @)]
  BY DEF UpdateGoal
<1>4. AtEase \in PlanState /\ AtEase.pc = "idle"
  BY DEF PlanState, AtEase
<1>5. /\ plan' \in [Planner -> PlanState]
      /\ plan'[c] = AtEase
      /\ \A e \in Planner : e # c => plan'[e] = plan[e]
  BY <1>1, <1>2, <1>4, Moving
<1>6. /\ goal[g].status # "absent" /\ old.status # "absent"
      /\ old.parent = goal[g].parent
      /\ old.status = "completed" => old.completed
      /\ g \notin crossed => old.title = goal[g].title /\ old.status = goal[g].status
  BY <1>2 DEF PlanningInv, GoalsRead
<1> HIDE DEF g, ask, old
<1>7. /\ Column(ask, old, "title") \in Title
      /\ Column(ask, old, "status") \in GoalStatus \cup {"absent"}
      /\ Column(ask, old, "status") # "absent"
  BY <1>2, <1>6, GoalAsks DEF Column, GoalRow, GoalStatus
<1>8. /\ new.parent = goal[g].parent
      /\ new.title = Column(ask, old, "title") /\ new.status = Column(ask, old, "status")
      /\ new.completed = (old.completed \/ ("status" \in DOMAIN ask /\ ask.status = "completed"))
  BY <1>2, <1>6 DEF GoalRow
<1>9. new \in GoalRow
  <2>1. ("status" \in DOMAIN ask /\ ask.status = "completed") \in BOOLEAN
    OBVIOUS
  <2> QED
    BY <2>1, <1>2, <1>7 DEF GoalRow
<1>10. new.status # "absent" /\ (new.status = "completed" => new.completed)
  BY <1>6, <1>7, <1>8 DEF Column
<1> HIDE DEF new
<1>11. /\ goal' \in [Goal -> GoalRow] /\ goal'[g] = new
       /\ \A h \in Goal : h # g => goal'[h] = goal[h]
  BY <1>1, <1>2, <1>3, <1>9 DEF PlanningTypeOK
<1>12. /\ answered' = [r \in Item \cup Goal |-> answered'[r]]
       /\ answered'[g] = Merged(ask, answered[g])
       /\ \A r \in Item \cup Goal : r # g => answered'[r] = answered[r]
  BY <1>2, <1>3 DEF PlanningInv
<1>13. /\ StoredItems' = StoredItems /\ StoredGoals' = StoredGoals /\ ListBoards' = ListBoards
       /\ g \in StoredGoals /\ g \notin Item
  BY <1>2, <1>6, <1>10, <1>11, PlanningAssumption DEF StoredItems, StoredGoals, ListBoards
<1>14. PlanningTypeOK'
  BY <1>1, <1>2, <1>5, <1>11 DEF PlanningTypeOK, PlanState
<1>15. Untouched'
  BY <1>2, <1>6, <1>10, <1>11, <1>12, <1>13 DEF PlanningInv, Untouched
<1>16. Dated'
  BY <1>10, <1>11, <1>13 DEF PlanningInv, Dated, StoredGoals
<1>17. EditorsSeen' /\ TasksRead'
  BY <1>2, <1>4, <1>5, <1>13 DEF PlanningInv, EditorsSeen, EditsRow, TasksRead
<1>18. Counted' /\ BoardsKept'
  BY <1>2, <1>4, <1>5, <1>13 DEF PlanningInv, Counted, ItemsOf, BoardsKept
<1>19. GoalsRead'
  <2> SUFFICES ASSUME NEW e \in Planner, plan'[e].pc = "goal"
               PROVE  LET h == plan'[e].row
                          o == plan'[e].old IN
                      /\ goal'[h].status # "absent" /\ o.status # "absent"
                      /\ o.parent = goal'[h].parent
                      /\ o.status = "completed" => o.completed
                      /\ h \notin crossed => o.title = goal'[h].title /\ o.status = goal'[h].status
    BY <1>2 DEF GoalsRead
  <2>1. e # c /\ plan'[e] = plan[e] /\ plan[e].row \in Goal
    BY <1>1, <1>4, <1>5, PlanStates
  <2>2. CASE plan[e].row # g
    BY <2>1, <2>2, <1>11 DEF PlanningInv, GoalsRead
  <2>3. CASE plan[e].row = g
    <3>1. g \in crossed
      BY <2>1, <2>3, <1>2 DEF PlanningInv, EditorsSeen, EditsRow, g
    <3> QED
      BY <2>1, <2>3, <3>1, <1>8, <1>10, <1>11 DEF PlanningInv, GoalsRead
  <2> QED
    BY <2>2, <2>3
<1>20. Forest'
  <2>1. \A h \in StoredGoals : goal'[h].parent = goal[h].parent
    BY <1>8, <1>11 DEF StoredGoals
  <2> QED
    BY <2>1, <1>13, ForestStays DEF PlanningInv
<1>21. ASSUME NEW h \in StoredGoals \ crossed, NEW col \in {"title", "status"},
              col \in DOMAIN answered'[h]
       PROVE  goal'[h][col] = answered'[h][col]
  <2>1. h \in Goal
    BY DEF StoredGoals
  <2>2. CASE h # g
    BY <2>1, <2>2, <1>11, <1>12, <1>21 DEF PlanningInv, EditsKept
  <2>3. CASE h = g
    <3>1. answered'[g][col] = Column(ask, answered[g], col) /\ col \in DOMAIN ask \cup DOMAIN answered[g]
      BY <2>3, <1>12, <1>21 DEF Merged
    <3>2. goal'[g][col] = Column(ask, old, col)
      BY <1>8, <1>11
    <3>3. CASE col \in DOMAIN ask
      BY <3>1, <3>2, <3>3, <2>3 DEF Column
    <3>4. CASE col \notin DOMAIN ask
      <4>1. goal[g][col] = answered[g][col]
        BY <3>1, <3>4, <2>3, <1>13 DEF PlanningInv, EditsKept
      <4> QED
        BY <3>1, <3>2, <3>4, <4>1, <2>3, <1>6 DEF Column
    <3> QED
      BY <3>3, <3>4
  <2> QED
    BY <2>2, <2>3
<1>22. ASSUME NEW t \in StoredItems \ crossed, NEW col \in {"board", "goal"},
              col \in DOMAIN answered'[t]
       PROVE  item[t][col] = answered'[t][col]
  <2>1. t \in Item /\ t # g
    BY <1>13 DEF StoredItems
  <2> QED
    BY <2>1, <1>12, <1>22 DEF PlanningInv, EditsKept
<1>23. EditsKept'
  BY <1>2, <1>13, <1>21, <1>22 DEF EditsKept
<1> QED
  BY <1>12, <1>14, <1>15, <1>16, <1>17, <1>18, <1>19, <1>20, <1>23 DEF PlanningInv

\* Every step of a call and of the relay keeps the invariant.
LEMMA PlanningInductive ==
    ASSUME PlanningInv, [PlanningNext]_planningVars
    PROVE  PlanningInv'
<1>1. CASE UNCHANGED planningVars
  <2>1. PlanningTypeOK' /\ BoardsKept'
    BY <1>1 DEF planningVars, PlanningInv, PlanningTypeOK, BoardsKept, StoredItems, ListBoards
  <2> QED
    BY <1>1, <2>1, AsideKeeps DEF planningVars
<1>2. CASE EditBoards
  BY <1>2, EditBoardsStep, ArchiveBoardStep DEF EditBoards
<1>3. CASE ItemStep
  BY <1>3, DispatchItemStep, MoveItemStep, RemoveItemStep DEF ItemStep
<1>4. ASSUME NEW s \in {"open", "resolved"}, NEW boards, ArchiveItems(s, boards) PROVE PlanningInv'
  BY <1>4, ArchiveItemsStep
<1>5. ASSUME NEW c \in Planner, HandleUpdateTask(c) \/ HandleMoveTask(c) \/ UpdateTaskFields(c)
      PROVE  PlanningInv'
  <2>1. Given \subseteq TaskEdit
    BY DEF Given
  <2> QED
    BY <1>5, <2>1, GetTaskStep, UpdateTaskFieldsStep DEF HandleUpdateTask, HandleMoveTask
<1>6. ASSUME NEW c \in Planner, apiGoals(c) \/ UpdateGoal(c) \/ GetGoalProgress(c)
      PROVE  PlanningInv'
  BY <1>6, GetGoalStep, UpdateGoalStep, CreateGoalStep, GetGoalWithProgressStep, GetGoalProgressStep
  DEF apiGoals, HandleUpdateGoal, HandleCreateGoal
<1>7. ASSUME NEW c \in Planner,
             \/ \E g \in StoredGoals \cup {Nowhere} : PickBoard(c, g) \/ \E b \in Board : NameBoard(c, b, g)
             \/ AutoBacklog(c)
             \/ ArchiveBoardTasks(c)
      PROVE  PlanningInv'
  BY <1>7, PlaceStep, ArchiveBoardTasksStep
<1> QED
  BY <1>1, <1>2, <1>3, <1>4, <1>5, <1>6, <1>7, StopsStep DEF PlanningNext

\* A set of naturals that is not empty has a smallest member.
LEMMA Smallest ==
  ASSUME NEW S \in SUBSET Nat, S # {}
  PROVE  \E n \in S : \A m \in S : n <= m
<1> DEFINE Less == OpToRel(<, Nat)
<1>1. IsWellFoundedOn(Less, Nat)
  BY NatLessThanWellFounded
<1>2. \A x, y \in Nat : y < x => <<y, x>> \in Less
  BY DEF OpToRel
<1> HIDE DEF Less
<1>3. PICK x \in S : \A y \in S : ~ (<<y, x>> \in Less)
  BY <1>1, WFMin
<1>4. ASSUME NEW y \in S
      PROVE  x <= y
  <2>1. ~(y < x)
     BY <1>3, <1>2
  <2> QED BY <2>1
<1> QED
  BY <1>4

\* The paths of n steps from a root down.
Paths(n) ==
    {path \in [1 .. n + 1 -> StoredGoals] :
       /\ goal[path[1]].parent \notin StoredGoals
       /\ \A i \in 1 .. n : goal[path[i + 1]].parent = path[i]}

Extended(paths) == UNION {{Append(path, g) : g \in GetGoalChildren(path[Len(path)])} : path \in paths}

\* The paths of no step are the roots.
LEMMA PathsStart == Paths(0) = {<<g>> : g \in {h \in StoredGoals : goal[h].parent \notin StoredGoals}}
<1>1. ASSUME NEW path \in Paths(0)
      PROVE  \E g \in StoredGoals : goal[g].parent \notin StoredGoals /\ path = <<g>>
  BY DEF Paths
<1>2. ASSUME NEW g \in StoredGoals, goal[g].parent \notin StoredGoals PROVE <<g>> \in Paths(0)
  BY <1>2 DEF Paths
<1> QED
  BY <1>1, <1>2

\* The paths of one more step are those extended by a child of their end.
LEMMA PathsGrow ==
    ASSUME NEW n \in Nat \ {0}
    PROVE  Paths(n) = Extended(Paths(n - 1))
<1>1. ASSUME NEW path \in Paths(n) PROVE path \in Extended(Paths(n - 1))
  <2> DEFINE q == [i \in 1 .. n |-> path[i]]
  <2>1. /\ path \in [1 .. n + 1 -> StoredGoals]
        /\ goal[path[1]].parent \notin StoredGoals
        /\ \A i \in 1 .. n : goal[path[i + 1]].parent = path[i]
    BY DEF Paths
  <2>2. q \in Paths(n - 1) /\ Len(q) = n /\ q[n] = path[n]
    BY <2>1 DEF Paths
  <2>3. path[n + 1] \in GetGoalChildren(q[Len(q)])
    BY <2>1, <2>2 DEF GetGoalChildren
  <2>4. path = Append(q, path[n + 1])
    <3>1. q \in Seq(StoredGoals) /\ path[n + 1] \in StoredGoals /\ path \in Seq(StoredGoals)
          /\ Len(path) = n + 1
      BY <2>1
    <3> DEFINE a == Append(q, path[n + 1])
    <3>2. a \in Seq(StoredGoals) /\ Len(a) = n + 1 /\ a[n + 1] = path[n + 1]
          /\ \A i \in 1 .. n : a[i] = q[i]
      BY <3>1, <2>2, AppendProperties
    <3>3. \A i \in 1 .. n + 1 : a[i] = path[i]
      BY <3>2
    <3> HIDE DEF a
    <3>4. a = path
      BY <3>1, <3>2, <3>3, SeqEqual
    <3> QED
      BY <3>4 DEF a
  <2> QED
    BY <2>2, <2>3, <2>4 DEF Extended
<1>2. ASSUME NEW path \in Paths(n - 1), NEW g \in GetGoalChildren(path[Len(path)])
      PROVE  Append(path, g) \in Paths(n)
  <2>1. /\ path \in [1 .. n -> StoredGoals] /\ path \in Seq(StoredGoals) /\ Len(path) = n
        /\ goal[path[1]].parent \notin StoredGoals
        /\ \A i \in 1 .. (n - 1) : goal[path[i + 1]].parent = path[i]
    BY DEF Paths
  <2>2. g \in StoredGoals /\ goal[g].parent = path[n]
    BY <2>1 DEF GetGoalChildren
  <2> DEFINE a == Append(path, g)
  <2>3. /\ a \in [1 .. n + 1 -> StoredGoals] /\ a[n + 1] = g
        /\ \A i \in 1 .. n : a[i] = path[i]
    <3>1. a \in Seq(StoredGoals) /\ Len(a) = n + 1 /\ a[n + 1] = g
          /\ \A i \in 1 .. n : a[i] = path[i]
      BY <2>1, <2>2, AppendProperties
    <3> HIDE DEF a
    <3> QED
      BY <3>1
  <2> HIDE DEF a
  <2>4. \A i \in 1 .. n : goal[a[i + 1]].parent = a[i]
    BY <2>1, <2>2, <2>3
  <2>5. a \in Paths(n)
    BY <2>1, <2>3, <2>4 DEF Paths
  <2> QED
    BY <2>5 DEF a
<1>3. ASSUME NEW x \in Extended(Paths(n - 1)) PROVE x \in Paths(n)
  <2>1. PICK path \in Paths(n - 1) : x \in {Append(path, g) : g \in GetGoalChildren(path[Len(path)])}
    BY DEF Extended
  <2> QED
    BY <2>1, <1>2
<1> QED
  BY <1>1, <1>3

\* The cascade is the set of paths with at most as many steps as there are goals: level
\* by level it computes what Paths describes.
LEMMA Cascade ==
    GetGoalCascade = UNION {Paths(n) : n \in 0 .. Cardinality(Goal)}
<1> DEFINE N == 0 .. Cardinality(Goal)
           roots == {<<g>> : g \in {h \in StoredGoals : goal[h].parent \notin StoredGoals}}
           Level(f) == [n \in N |-> IF n = 0 THEN roots ELSE Extended(f[n - 1])]
           level == CHOOSE f : f = Level(f)
<1>1. GetGoalCascade = UNION {level[n] : n \in DOMAIN level}
  BY DEF GetGoalCascade, Extended
<1>2. Cardinality(Goal) \in Nat
  BY PlanningAssumption, FS_CardinalityType
<1>3. level = Level(level)
  <2> DEFINE f == [n \in N |-> Paths(n)]
  <2>1. ASSUME NEW n \in N PROVE f[n] = IF n = 0 THEN roots ELSE Extended(f[n - 1])
    <3>1. CASE n = 0
      BY <3>1, PathsStart
    <3>2. CASE n # 0
      <4>1. n \in Nat \ {0} /\ n - 1 \in N
        BY <3>2, <1>2
      <4> QED
        BY <3>2, <4>1, PathsGrow
    <3> QED
      BY <3>1, <3>2
  <2>2. f = Level(f)
    BY <2>1
  <2> HIDE DEF f, Level
  <2> QED
    BY <2>2
<1> HIDE DEF level
<1>4. DOMAIN level = N
  BY <1>3
<1>5. \A n \in N : level[n] = IF n = 0 THEN roots ELSE Extended(level[n - 1])
  BY <1>3
<1>6. \A n \in N : level[n] = Paths(n)
  <2> SUFFICES ASSUME {n \in N : level[n] # Paths(n)} # {} PROVE FALSE
    OBVIOUS
  <2>1. PICK n \in N : level[n] # Paths(n) /\ \A m \in N : level[m] # Paths(m) => n <= m
    <3>1. {n \in N : level[n] # Paths(n)} \in SUBSET Nat
      OBVIOUS
    <3> QED
      BY <3>1, Smallest
  <2>2. CASE n = 0
    BY <2>1, <2>2, <1>5, PathsStart
  <2>3. CASE n # 0
    <3>1. n \in Nat \ {0} /\ n - 1 \in N /\ ~(n <= n - 1)
      BY <2>3, <1>2
    <3>2. level[n - 1] = Paths(n - 1)
      BY <3>1, <2>1
    <3> QED
      BY <2>1, <2>3, <3>1, <3>2, <1>5, PathsGrow
  <2> QED
    BY <2>2, <2>3
<1> QED
  BY <1>1, <1>4, <1>6

\* Along a path the depth of a goal is its place.
LEMMA DepthsAlong ==
    ASSUME NEW depth, \A g \in StoredGoals : Hangs(depth, g), NEW n \in Nat, NEW path \in Paths(n)
    PROVE  \A i \in 1 .. n + 1 : depth[path[i]] = i - 1
<1>1. /\ path \in [1 .. n + 1 -> StoredGoals]
      /\ goal[path[1]].parent \notin StoredGoals
      /\ \A i \in 1 .. n : goal[path[i + 1]].parent = path[i]
  BY DEF Paths
<1> DEFINE wrong == {i \in 1 .. n + 1 : depth[path[i]] # i - 1}
<1>2. SUFFICES ASSUME wrong # {} PROVE FALSE
  OBVIOUS
<1>3. PICK k \in wrong : \A i \in wrong : k <= i
  <2>1. wrong \in SUBSET Nat
    OBVIOUS
  <2> HIDE DEF wrong
  <2> QED
    BY <1>2, <2>1, Smallest
<1>4. CASE k = 1
  BY <1>1, <1>3, <1>4 DEF Hangs
<1>5. CASE k # 1
  <2>1. k - 1 \in 1 .. n /\ k = (k - 1) + 1 /\ k \in 1 .. n + 1
    BY <1>3, <1>5
  <2>2. depth[path[k - 1]] = k - 2
    BY <2>1, <1>3
  <2>3. goal[path[k]].parent = path[k - 1] /\ path[k - 1] \in StoredGoals /\ path[k] \in StoredGoals
    BY <1>1, <2>1
  <2>4. depth[path[k]] = depth[path[k - 1]] + 1
    BY <2>3 DEF Hangs
  <2> QED
    BY <1>3, <2>1, <2>2, <2>4
<1> QED
  BY <1>4, <1>5

\* Two paths to a goal are the same: they have its depth for length, and going up from
\* their end they never part.
LEMMA OnePath ==
    ASSUME NEW depth, \A g \in StoredGoals : Hangs(depth, g),
           NEW n \in Nat, NEW path \in Paths(n), NEW m \in Nat, NEW q \in Paths(m),
           path[n + 1] = q[m + 1]
    PROVE  n = m /\ path = q
<1>1. n = m
  <2>1. depth[path[n + 1]] = n /\ depth[q[m + 1]] = m
    <3>1. depth[path[n + 1]] = (n + 1) - 1 /\ depth[q[m + 1]] = (m + 1) - 1
      BY DepthsAlong
    <3> QED
      BY <3>1
  <2> QED
    BY <2>1
<1>2. /\ path \in [1 .. n + 1 -> StoredGoals] /\ q \in [1 .. n + 1 -> StoredGoals]
      /\ \A i \in 1 .. n : goal[path[i + 1]].parent = path[i] /\ goal[q[i + 1]].parent = q[i]
  BY <1>1 DEF Paths
<1> DEFINE apart == {k \in 0 .. n : path[n + 1 - k] # q[n + 1 - k]}
<1>3. ASSUME apart # {} PROVE FALSE
  <2>1. PICK k \in apart : \A i \in apart : k <= i
    <3>1. apart \in SUBSET Nat
      OBVIOUS
    <3> HIDE DEF apart
    <3> QED
      BY <1>3, <3>1, Smallest
  <2>2. k # 0
    BY <1>1, <2>1
  <2>3. n + 1 - k \in 1 .. n /\ k - 1 \in 0 .. n /\ n + 1 - (k - 1) = (n + 1 - k) + 1 /\ k \in 0 .. n
    BY <2>1, <2>2
  <2>4. path[n + 1 - (k - 1)] = q[n + 1 - (k - 1)]
    BY <2>1, <2>3
  <2> QED
    BY <1>2, <2>1, <2>3, <2>4
<1>4. \A i \in 1 .. n + 1 : path[i] = q[i]
  <2> TAKE i \in 1 .. n + 1
  <2>1. n + 1 - i \in 0 .. n /\ n + 1 - (n + 1 - i) = i
    OBVIOUS
  <2> QED
    BY <1>3, <2>1
<1> QED
  BY <1>1, <1>2, <1>4

\* Every goal has a path, as long as its depth: the one of its parent and a step.
LEMMA SomePath ==
    ASSUME NEW depth \in [Goal -> Nat], \A g \in StoredGoals : Hangs(depth, g)
    PROVE  \A g \in StoredGoals : \E path \in Paths(depth[g]) : path[depth[g] + 1] = g
<1> DEFINE Shown(g) == \E path \in Paths(depth[g]) : path[depth[g] + 1] = g
           missed == {depth[g] : g \in {h \in StoredGoals : ~Shown(h)}}
<1>1. SUFFICES ASSUME missed # {} PROVE FALSE
  OBVIOUS
<1>2. StoredGoals \subseteq Goal
  BY DEF StoredGoals
<1>3. missed \in SUBSET Nat
  BY <1>2
<1>4. PICK d \in missed : \A e \in missed : d <= e
  <2> HIDE DEF missed
  <2> QED
    BY <1>1, <1>3, Smallest
<1>5. PICK g \in StoredGoals : ~Shown(g) /\ d = depth[g]
  BY <1>4
<1>6. CASE goal[g].parent \notin StoredGoals
  <2>1. depth[g] = 0
    BY <1>6 DEF Hangs
  <2>2. <<g>> \in Paths(0) /\ <<g>>[0 + 1] = g
    BY <1>6, PathsStart
  <2> QED
    BY <1>5, <2>1, <2>2
<1>7. CASE goal[g].parent \in StoredGoals
  <2> DEFINE p == goal[g].parent
  <2>1. depth[g] = depth[p] + 1 /\ depth[p] \in Nat /\ depth[g] \in Nat
    BY <1>2, <1>7 DEF Hangs
  <2>2. Shown(p)
    BY <1>4, <1>5, <1>7, <2>1
  <2>3. PICK path \in Paths(depth[p]) : path[depth[p] + 1] = p
    BY <2>2
  <2>4. path \in Seq(StoredGoals) /\ Len(path) = depth[g]
    BY <2>1, <2>3 DEF Paths
  <2>5. g \in GetGoalChildren(path[Len(path)])
    BY <2>1, <2>3, <2>4 DEF GetGoalChildren
  <2>6. depth[g] \in Nat \ {0} /\ depth[p] = depth[g] - 1
    BY <2>1
  <2>7. Append(path, g) \in Paths(depth[g])
    <3>1. path \in Paths(depth[g] - 1) /\ Paths(depth[g]) = Extended(Paths(depth[g] - 1))
      BY <2>3, <2>6, PathsGrow
    <3> QED
      BY <2>5, <3>1 DEF Extended
  <2>8. Append(path, g)[depth[g] + 1] = g
    BY <2>4, AppendProperties
  <2> QED
    BY <1>5, <2>7, <2>8
<1> QED
  BY <1>6, <1>7

\* The ancestors among n steps from a root, the nearest i of them.
Above(path, n, i) == SubSeq(path, IF n > i THEN n + 1 - i ELSE 1, n)

\* get_goal's chain of parents is what lies above the goal on its path, five at most.
LEMMA Ancestry ==
    ASSUME NEW n \in Nat, NEW path \in Paths(n)
    PROVE  GetGoalAncestry(path[n + 1]) = Above(path, n, 5)
<1> DEFINE g == path[n + 1]
           last(c) == IF c = <<>> THEN g ELSE Head(c)
           Longer(c) == IF goal[last(c)].parent \in StoredGoals
                        THEN <<goal[last(c)].parent>> \o c ELSE c
           Chain(f) == [i \in 0 .. 5 |-> IF i = 0 THEN <<>> ELSE Longer(f[i - 1])]
           chain == CHOOSE f : f = Chain(f)
           witness == [i \in 0 .. 5 |-> Above(path, n, i)]
<1>1. GetGoalAncestry(g) = chain[5]
  BY DEF GetGoalAncestry
<1>2. /\ path \in [1 .. n + 1 -> StoredGoals] /\ path \in Seq(StoredGoals) /\ Len(path) = n + 1
      /\ goal[path[1]].parent \notin StoredGoals
      /\ \A i \in 1 .. n : goal[path[i + 1]].parent = path[i]
  BY DEF Paths
<1>3. Above(path, n, 0) = <<>>
  <2>1. CASE n > 0
    BY <2>1, SubSeqEmpty DEF Above
  <2>2. CASE n = 0
    BY <2>2, SubSeqEmpty DEF Above
  <2> QED
    BY <2>1, <2>2
<1>4. ASSUME NEW i \in 1 .. 5 PROVE Above(path, n, i) = Longer(Above(path, n, i - 1))
  <2>1. CASE n >= i
    <3> DEFINE k == n + 1 - i
    <3>1. k \in 1 .. n /\ k \in 1 .. Len(path) /\ n \in k .. Len(path) /\ path[k] \in StoredGoals
      BY <1>2, <2>1
    <3>2. Above(path, n, i) = SubSeq(path, k, n)
      BY <2>1 DEF Above
    <3>3. Above(path, n, i - 1) = SubSeq(path, k + 1, n)
      BY <2>1 DEF Above
    <3>4. SubSeq(path, k, n) = <<path[k]>> \o SubSeq(path, k + 1, n)
      BY <1>2, <3>1, SubSeqRecursiveFirst
    <3>5. last(SubSeq(path, k + 1, n)) = path[k + 1]
      <4>1. CASE k = n
        <5>1. SubSeq(path, k + 1, n) = <<>>
          BY <4>1, SubSeqEmpty
        <5> QED
          BY <4>1, <5>1
      <4>2. CASE k < n
        <5>1. k + 1 \in 1 .. Len(path) /\ n \in (k + 1) .. Len(path)
          BY <1>2, <3>1, <4>2
        <5>2. Head(SubSeq(path, k + 1, n)) = path[k + 1]
          BY <1>2, <5>1, HeadTailOfSubSeq
        <5>3. SubSeq(path, k + 1, n) # <<>>
          <6>1. Len(SubSeq(path, k + 1, n)) = n - (k + 1) + 1
            BY <1>2, <5>1, SubSeqProperties
          <6> QED
            BY <6>1, <5>1, <4>2
        <5> QED
          BY <5>2, <5>3
      <4> QED
        BY <3>1, <4>1, <4>2
    <3>6. goal[path[k + 1]].parent = path[k]
      BY <1>2, <3>1
    <3> HIDE DEF k
    <3> QED
      BY <3>1, <3>2, <3>3, <3>4, <3>5, <3>6
  <2>2. CASE n < i
    <3>1. Above(path, n, i) = SubSeq(path, 1, n) /\ Above(path, n, i - 1) = SubSeq(path, 1, n)
      BY <2>2 DEF Above
    <3>2. last(SubSeq(path, 1, n)) = path[1]
      <4>1. CASE n = 0
        <5>1. SubSeq(path, 1, n) = <<>>
          BY <4>1, SubSeqEmpty
        <5> QED
          BY <4>1, <5>1
      <4>2. CASE n > 0
        <5>1. 1 \in 1 .. Len(path) /\ n \in 1 .. Len(path)
          BY <1>2, <4>2
        <5>2. Head(SubSeq(path, 1, n)) = path[1]
          BY <1>2, <5>1, HeadTailOfSubSeq
        <5>3. SubSeq(path, 1, n) # <<>>
          <6>1. Len(SubSeq(path, 1, n)) = n - 1 + 1 /\ Len(<<>>) = 0 /\ n - 1 + 1 # 0
            BY <1>2, <4>2, <5>1, SubSeqProperties
          <6> QED
            BY <6>1
        <5> QED
          BY <5>2, <5>3
      <4> QED
        BY <4>1, <4>2
    <3> QED
      BY <1>2, <3>1, <3>2
  <2> QED
    BY <2>1, <2>2
<1>5. witness = Chain(witness)
  <2>1. \A i \in 0 .. 5 : i # 0 => i - 1 \in 0 .. 5 /\ i \in 1 .. 5
    OBVIOUS
  <2>2. \A i \in 0 .. 5 : Above(path, n, i) =
          IF i = 0 THEN <<>> ELSE Longer(witness[i - 1])
    <3> HIDE DEF Longer
    <3> QED
      BY <1>3, <1>4, <2>1
  <2> HIDE DEF Longer
  <2> QED
    BY <2>2
<1>6. chain = Chain(chain)
  <2> HIDE DEF witness, Chain
  <2> QED
    BY <1>5
<1> HIDE DEF chain, Longer
<1>7. \A i \in 0 .. 5 : chain[i] = IF i = 0 THEN <<>> ELSE Longer(chain[i - 1])
  BY <1>6
<1>8. chain[0] = Above(path, n, 0)
  BY <1>7, <1>3
<1>9. chain[1] = Above(path, n, 1)
  BY <1>7, <1>4, <1>8
<1>10. chain[2] = Above(path, n, 2)
  BY <1>7, <1>4, <1>9
<1>11. chain[3] = Above(path, n, 3)
  BY <1>7, <1>4, <1>10
<1>12. chain[4] = Above(path, n, 4)
  BY <1>7, <1>4, <1>11
<1>13. chain[5] = Above(path, n, 5)
  BY <1>7, <1>4, <1>12
<1> QED
  BY <1>1, <1>13

\* The cascade shows each goal once, below the ancestors that get_goal names.
LEMMA GoalsShown ==
    ASSUME PlanningTypeOK, Forest, NEW g \in StoredGoals
    PROVE  LET shown == {path \in GetGoalCascade : path[Len(path)] = g} IN
             \E path \in shown : shown = {path} /\ GetGoalAncestry(g) = Nearest(path)
<1> DEFINE shown == {path \in GetGoalCascade : path[Len(path)] = g}
           N == Cardinality(Goal)
<1>1. PICK depth \in [Goal -> Nat] : \A h \in StoredGoals : Hangs(depth, h)
  BY DEF Forest
<1>2. N \in Nat /\ g \in Goal /\ depth[g] \in 0 .. N
  <2>1. StoredGoals \subseteq Goal
    BY DEF StoredGoals
  <2>2. N \in Nat /\ Cardinality(StoredGoals) \in Nat /\ Cardinality(StoredGoals) <= N
    BY <2>1, PlanningAssumption, FS_CardinalityType, FS_Subset
  <2>3. depth[g] < Cardinality(StoredGoals)
    BY <1>1 DEF Hangs
  <2> HIDE DEF N
  <2> QED
    BY <2>1, <2>2, <2>3
<1> DEFINE n == depth[g]
<1>3. PICK path \in Paths(n) : path[n + 1] = g
  BY <1>1, SomePath
<1>4. \A m \in Nat : \A q \in Paths(m) : Len(q) = m + 1
  BY DEF Paths
<1>5. n \in Nat /\ n \in 0 .. N /\ Len(path) = n + 1
  BY <1>2, <1>3, <1>4
<1> HIDE DEF N, n
<1>6. path \in shown
  BY <1>3, <1>5, Cascade DEF N
<1>7. ASSUME NEW q \in shown PROVE q = path
  <2>1. PICK m \in 0 .. N : q \in Paths(m)
    BY Cascade DEF N
  <2>2. m \in Nat /\ q[m + 1] = g
    BY <1>2, <1>4, <2>1
  <2> QED
    BY <1>1, <1>3, <1>5, <2>1, <2>2, OnePath
<1>8. GetGoalAncestry(g) = Nearest(path)
  <2>1. GetGoalAncestry(g) = Above(path, n, 5)
    BY <1>3, <1>5, Ancestry
  <2>2. Above(path, n, 5) = Nearest(path)
    BY <1>5 DEF Above, Nearest
  <2> QED
    BY <2>1, <2>2
<1>9. shown = {path}
  BY <1>6, <1>7
<1> QED
  BY <1>6, <1>8, <1>9

\* What is promised of goals follows from the invariant: a finished goal was dated, the
\* forest gives each goal its one path, and what is resolved was counted.
LEMMA PlanningImplied == PlanningInv => GoalsKept
<1> SUFFICES ASSUME PlanningInv PROVE GoalsKept
  OBVIOUS
<1>1. PlanningTypeOK /\ Forest /\ Dated /\ Counted
  BY DEF PlanningInv
<1>2. ASSUME NEW c \in Planner, plan[c].pc = "progress", ~plan[c].joined
      PROVE  DoneTasks(plan[c].goal) <= plan[c].total
  <2> DEFINE done == {t \in StoredItems : item[t].goal = plan[c].goal /\ item[t].status = "resolved"}
  <2>1. PICK S \in SUBSET Item :
          Cardinality(S) = plan[c].total /\ ItemsOf(plan[c].goal) \subseteq S
    BY <1>1, <1>2 DEF Counted
  <2>2. done \subseteq S
    BY <2>1 DEF ItemsOf
  <2>3. IsFiniteSet(S)
    BY PlanningAssumption, FS_Subset
  <2>4. Cardinality(done) <= Cardinality(S)
    <3> HIDE DEF done
    <3> QED
      BY <2>2, <2>3, FS_Subset
  <2> QED
    BY <2>1, <2>4 DEF DoneTasks
<1> QED
  BY <1>1, <1>2, GoalsShown DEF GoalsKept, Dated

-----------------------------------------------------------------------------
(*****************************************************************************)
(* Side by side.                                                             *)
(*****************************************************************************)

CatalogInv == PlanningInv /\ ProfilesInv

\* Nothing is registered and no call is open.
LEMMA CatalogInitially == BoardInit => CatalogInv
  BY PlanningInitially, ProfilesInitially DEF BoardInit, CatalogInv

\* A step moves tasks, or boards and goals, or profiles, and leaves the rest.
LEMMA CatalogInductive == CatalogInv /\ [BoardNext]_allVars => CatalogInv'
<1>1. [BoardNext]_allVars => [PlanningNext]_planningVars /\ [ProfilesNext]_profileVars
  <2>1. CASE UNCHANGED allVars
    BY <2>1 DEF allVars, planningVars, profileVars
  <2>2. CASE BoardNext
    BY <2>2 DEF BoardNext
  <2> QED
    BY <2>1, <2>2
<1> QED
  BY <1>1, PlanningInductive, ProfilesInductive DEF CatalogInv

\* Boards, goals and the calls on them keep their types, for any number of them.
THEOREM PlanningTypeCorrect == PlanningSpec => []PlanningTypeOK
<1>1. PlanningInv => PlanningTypeOK
  BY DEF PlanningInv
<1> QED
  BY <1>1, PlanningInitially, PlanningInductive, PTL DEF PlanningSpec

\* Archiving a board hides its tasks, and an edit of a task or a goal loses nothing that
\* an earlier one wrote, except where calls cross, for any number of boards, tasks and
\* calls (boards.go, UpdateTaskFields in tasks.go, UpdateGoal in goals.go).
THEOREM BoardsAreKept == PlanningSpec => [](BoardsKept /\ EditsKept)
<1>1. PlanningInv => BoardsKept /\ EditsKept
  BY DEF PlanningInv
<1> QED
  BY <1>1, PlanningInitially, PlanningInductive, PTL DEF PlanningSpec

\* Each goal is shown once, below the ancestors that get_goal names, a completed one with
\* its date, and no count of resolved tasks exceeds the total, unless a task came in
\* between: for any number of goals, however deep they hang (goals.go).
THEOREM GoalsAreShown == PlanningSpec => []GoalsKept
  BY PlanningImplied, PlanningInitially, PlanningInductive, PTL DEF PlanningSpec

\* A registration that was answered is in its row, agents keep the profile they run
\* under and links their ends, except where two calls cross, for any number of profiles,
\* skills, agents and calls (profiles.go, skills.go).
THEOREM ProfilesAreKept == ProfilesSpec => [](RegistrationKept /\ AgentsKept /\ LinksKept)
<1>1. ProfilesInv => RegistrationKept /\ AgentsKept /\ LinksKept
  BY LinksShown DEF ProfilesInv
<1> QED
  BY <1>1, ProfilesInitially, ProfilesInductive, PTL DEF ProfilesSpec

\* Archiving a board hides its tasks, an edit loses nothing that an earlier one wrote,
\* goals are shown as their rows are, agents keep their profile and links their ends,
\* except where two calls cross, for any number of rows and of calls (boards.go,
\* goals.go, profiles.go, skills.go, UpdateTaskFields in tasks.go).
THEOREM CatalogIsKept == BoardSpec => []CatalogKept
<1>1. CatalogInv => CatalogKept
  BY PlanningImplied, LinksShown DEF CatalogInv, CatalogKept, PlanningInv, ProfilesInv
<1> QED
  BY <1>1, CatalogInitially, CatalogInductive, PTL DEF BoardSpec
==============================================================================
