------------------------------ MODULE Schedules ------------------------------
(***************************************************************************)
(* Cron schedules: the rows of the schedules table and the entries of the  *)
(* in-memory cron scheduler (internal/spawn/manager.go,                    *)
(* internal/db/schedules.go, internal/scheduler/scheduler.go), and the     *)
(* handlers that change them.                                              *)
(*                                                                         *)
(* Schedule writes the row and then the entry, Unschedule removes the      *)
(* entry and then the row.  Nothing spans the two statements, so calls on  *)
(* one schedule interleave, and a restart comes between them.              *)
(***************************************************************************)
EXTENDS Naturals

CONSTANTS
    Key,      \* a project, an agent and a schedule name of it
    RestName, \* the ids POST /schedules makes up: "name-agent", without the project
    RestId,   \* the one it makes up for each key
    Uuid,     \* the ids the schedule tool draws
    Cron,     \* cron expressions
    BadCron,  \* the ones the cron parser refuses
    Prompt,   \* the other columns
    Keep,     \* a field a PUT leaves out
    None,     \* no row, no entry
    Call,     \* handlers that may run at once
    MaxFaults \* bound: relay restarts and failed writes

ASSUME SchedulesAssumption ==
    /\ RestId \in [Key -> RestName]
    /\ RestName \cap Uuid = {}
    /\ BadCron \subseteq Cron
    /\ Keep \notin Cron \cup Prompt
    /\ MaxFaults \in Nat

VARIABLES
    row,     \* row[id]: the schedules row
    job,     \* job[id]: the cron entry Scheduler.jobs[id] stands for, if it still runs
    drawn,   \* the uuids drawn so far
    call,    \* call[c]: what handler c still has to do
    settled, \* history: ids whose last change was undisturbed and took effect
    faults   \* bound only

vars == <<row, job, drawn, call, settled, faults>>

Id == RestName \cup Uuid

Entry == [key : Key, cron : Cron, prompt : Prompt]

ASSUME NoneAssumption == None \notin Entry

\* clean: no other call touched the id meanwhile, and every write took effect.
Work ==
    [pc : {"upsert", "register"}, id : Id, entry : Entry, clean : BOOLEAN]
      \cup [pc : {"remove", "delete"}, id : Id, entry : {None}, clean : BOOLEAN]

Idle == [pc |-> "idle"]

TypeOK ==
    /\ row \in [Id -> Entry \cup {None}]
    /\ job \in [Id -> Entry \cup {None}]
    /\ drawn \subseteq Uuid
    /\ call \in [Call -> Work \cup {Idle}]
    /\ settled \subseteq Id
    /\ faults \in 0 .. MaxFaults

\* What LoadSchedulesFromDB registers for a row: an entry, unless the parser
\* refuses its expression.
Loaded(e) == IF e # None /\ e.cron \notin BadCron THEN e ELSE None

Init ==
    /\ row = [id \in Id |-> None]
    /\ job = [id \in Id |-> None]
    /\ drawn = {}
    /\ call = [c \in Call |-> Idle]
    /\ settled = Id
    /\ faults = 0

-----------------------------------------------------------------------------
(***************************************************************************)
(* A handler starts; the calls under way on the same id are disturbed.     *)
(***************************************************************************)

On(c, id) == call[c] # Idle /\ call[c].id = id

Busy(id) == \E c \in Call : On(c, id)

Begin(c, pc, id, entry) ==
    /\ call[c] = Idle
    /\ call' = [d \in Call |->
                  IF d = c THEN [pc |-> pc, id |-> id, entry |-> entry, clean |-> ~Busy(id)]
                  ELSE IF On(d, id) THEN [call[d] EXCEPT !.clean = FALSE]
                  ELSE call[d]]
    /\ settled' = settled \ {id}
    /\ UNCHANGED <<row, job, faults>>

\* schedule tool: a new id on every call, also for a name that has one.
ToolSchedule(c, id, e) ==
    /\ id \notin drawn
    /\ drawn' = drawn \cup {id}
    /\ Begin(c, "upsert", id, e)

\* POST /schedules.
RestCreate(c, e) ==
    /\ Begin(c, "upsert", RestId[e.key], e)
    /\ UNCHANGED drawn

\* A bug that stores a missing field instead of keeping the column.
MutMerged(e, cron, prompt) == [e EXCEPT !.cron = cron, !.prompt = prompt]

\* The fields a PUT leaves out keep the value of the row.
Merged(e, cron, prompt) ==
    [e EXCEPT !.cron = IF cron = Keep THEN @ ELSE cron,
              !.prompt = IF prompt = Keep THEN @ ELSE prompt]

\* PUT /schedules/{id}: reads the row, which names the key, and merges.
RestUpdate(c, id, cron, prompt) ==
    /\ row[id] # None
    /\ Begin(c, "upsert", id, Merged(row[id], cron, prompt))
    /\ UNCHANGED drawn

\* unschedule tool and DELETE /schedules/{id}: any id, known or not.
Unschedule(c, id) ==
    /\ Begin(c, "remove", id, None)
    /\ UNCHANGED drawn

-----------------------------------------------------------------------------
(***************************************************************************)
(* The two statements of Schedule and of Unschedule.                       *)
(***************************************************************************)

\* INSERT ... ON CONFLICT(id) DO UPDATE, its error ignored: an existing row
\* keeps its key, and a new row whose key another row has is refused.
Upserted(id, e) ==
    IF row[id] # None THEN [row EXCEPT ![id] = [e EXCEPT !.key = row[id].key]]
    ELSE IF \E other \in Id : row[other] # None /\ row[other].key = e.key THEN row
    ELSE [row EXCEPT ![id] = e]

\* The statement may fail, and nobody hears of it.
WriteRow(wanted) ==
    \/ row' = wanted /\ UNCHANGED faults
    \/ faults < MaxFaults /\ faults' = faults + 1 /\ UNCHANGED row

UpsertSchedule(c) ==
    /\ call[c].pc = "upsert"
    /\ LET w == call[c] IN
         /\ WriteRow(Upserted(w.id, w.entry))
         /\ call' = [call EXCEPT ![c] = [w EXCEPT !.pc = "register",
                                                  !.clean = @ /\ row'[w.id] = w.entry]]
    /\ UNCHANGED <<job, drawn, settled>>

\* The call returns.
Return(c, clean) ==
    /\ call' = [call EXCEPT ![c] = Idle]
    /\ settled' = IF clean THEN settled \cup {call[c].id} ELSE settled

\* A bug that parses the expression before it removes the old entry.
MutRegistered(old, e) == IF Loaded(e) = None THEN old ELSE e

\* The old entry goes first; a refused expression leaves none.
Registered(old, e) == Loaded(e)

AddJob(c) ==
    /\ call[c].pc = "register"
    /\ LET w == call[c] IN
         /\ job' = [job EXCEPT ![w.id] = Registered(@, w.entry)]
         /\ Return(c, w.clean)
    /\ UNCHANGED <<row, drawn, faults>>

RemoveJob(c) ==
    /\ call[c].pc = "remove"
    /\ job' = [job EXCEPT ![call[c].id] = None]
    /\ call' = [call EXCEPT ![c].pc = "delete"]
    /\ UNCHANGED <<row, drawn, settled, faults>>

DeleteSchedule(c) ==
    /\ call[c].pc = "delete"
    /\ LET w == call[c] IN
         /\ WriteRow([row EXCEPT ![w.id] = None])
         /\ Return(c, w.clean /\ row'[w.id] = None)
    /\ UNCHANGED <<job, drawn>>

\* The relay comes back: LoadSchedulesFromDB before it serves requests.
Restart ==
    /\ faults < MaxFaults
    /\ faults' = faults + 1
    /\ job' = [id \in Id |-> Loaded(row[id])]
    /\ call' = [c \in Call |-> Idle]
    /\ settled' = Id
    /\ UNCHANGED <<row, drawn>>

-----------------------------------------------------------------------------

Submit(c) ==
    \/ \E id \in Uuid, e \in Entry : ToolSchedule(c, id, e)
    \/ \E e \in Entry : RestCreate(c, e)
    \/ \E id \in Id, cron \in Cron \cup {Keep}, prompt \in Prompt \cup {Keep} :
           RestUpdate(c, id, cron, prompt)
    \/ \E id \in Id : Unschedule(c, id)

Handle(c) == UpsertSchedule(c) \/ AddJob(c) \/ RemoveJob(c) \/ DeleteSchedule(c)

Next == Restart \/ \E c \in Call : Submit(c) \/ Handle(c)

Spec == Init /\ [][Next]_vars

-----------------------------------------------------------------------------
(***************************************************************************)
(* Properties.                                                             *)
(***************************************************************************)

\* Whatever failed or collided before, a call on a schedule that no other call
\* disturbs and whose row takes the write leaves the cron entry and the row in
\* agreement, and so does a restart: an agent is triggered by what is stored.
SettledAgrees == \A id \in settled : job[id] = Loaded(row[id])
==============================================================================
