-------------------------------- MODULE Spawn --------------------------------
(***************************************************************************)
(* Child agents: the manager's in-memory map of children, the rows of      *)
(* spawn_children, the claude processes, and the reaper that compares the  *)
(* first two (internal/spawn/manager.go, reaper.go, internal/db/spawn.go). *)
(*                                                                         *)
(* A call of Spawn ends by starting a goroutine that owns the child until  *)
(* its process has exited.  Kills, the reaper and a relay restart come     *)
(* between any two statements of it.                                       *)
(***************************************************************************)
EXTENDS Naturals, FiniteSets

CONSTANTS
    Child,      \* the ids of children, one for each call of Spawn
    Project,
    Profile,
    ProjectOf,  \* the project each child is spawned in
    ProfileOf,  \* and its profile
    Direct,     \* children spawned from a raw prompt; the others use SpawnWithContext
    MaxPool,    \* RELAY_MAX_POOL_SIZE
    PoolSize,   \* profiles.pool_size, 0 for no limit
    Killer,     \* kill_child calls that may run at once
    MaxFaults   \* bound: relay restarts and failed writes

ASSUME SpawnAssumption ==
    /\ IsFiniteSet(Child)
    /\ ProjectOf \in [Child -> Project]
    /\ ProfileOf \in [Child -> Profile]
    /\ Direct \subseteq Child
    /\ MaxPool \in Nat
    /\ PoolSize \in [Profile -> Nat]
    /\ MaxFaults \in Nat

VARIABLES
    children,   \* Manager.children
    row,        \* spawn_children.status of each child
    run,        \* where the call and then the goroutine of each child is
    cancelled,  \* children whose context was cancelled
    alive,      \* children whose process runs
    kill,       \* kill[k]: where kill_child call k is
    reaper,     \* where the reaper is, and the rows it still has to look at
    faults      \* bound only

vars == <<children, row, run, cancelled, alive, kill, reaper, faults>>

\* new, checked: the profile pool; reserved: in the map; inserted: the row
\* exists; exec: the process runs; exited; recorded: the row is updated; over.
Positions ==
    {"new", "checked", "reserved", "inserted", "exec", "exited", "recorded", "over"}

Unreserved == {"new", "checked"}

Statuses == {"none", "running", "finished", "killed", "dead"}

Kill == [pc : {"cancel", "mark", "remove"}, child : Child]

Idle == [pc |-> "idle"]

Reaper == [pc : {"idle", "listed", "marking"}, list : SUBSET Child]

TypeOK ==
    /\ children \subseteq Child
    /\ row \in [Child -> Statuses]
    /\ run \in [Child -> Positions]
    /\ cancelled \subseteq Child
    /\ alive \subseteq Child
    /\ kill \in [Killer -> Kill \cup {Idle}]
    /\ reaper \in Reaper
    /\ faults \in 0 .. MaxFaults

Resting == [pc |-> "idle", list |-> {}]

Init ==
    /\ children = {}
    /\ row = [c \in Child |-> "none"]
    /\ run = [c \in Child |-> "new"]
    /\ cancelled = {}
    /\ alive = {}
    /\ kill = [k \in Killer |-> Idle]
    /\ reaper = Resting
    /\ faults = 0

InProject(p) == {c \in children : ProjectOf[c] = p}

InPool(c) == {d \in InProject(ProjectOf[c]) : ProfileOf[d] = ProfileOf[c]}

GoTo(c, pos) == run' = [run EXCEPT ![c] = pos]

\* UpdateSpawnChild: an UPDATE of one row whatever its status, its error ignored.
UpdateRow(c, status) ==
    \/ /\ row' = IF row[c] = "none" THEN row ELSE [row EXCEPT ![c] = status]
       /\ UNCHANGED faults
    \/ /\ faults < MaxFaults
       /\ faults' = faults + 1
       /\ UNCHANGED row

-----------------------------------------------------------------------------
(***************************************************************************)
(* SpawnWithContext and Spawn.                                             *)
(***************************************************************************)

ProfileHasRoom(c) ==
    PoolSize[ProfileOf[c]] = 0 \/ Cardinality(InPool(c)) < PoolSize[ProfileOf[c]]

\* SpawnWithContext counts the profile's children under the read lock.
CheckProfile(c) ==
    /\ run[c] = "new"
    /\ c \notin Direct
    /\ ProfileHasRoom(c)
    /\ GoTo(c, "checked")
    /\ UNCHANGED <<children, row, cancelled, alive, kill, reaper, faults>>

HasRoom(c) == Cardinality(InProject(ProjectOf[c])) < MaxPool

\* Spawn counts the project's children and enters the new one, under the lock.
\* A full pool is an error and leaves nothing behind.
Reserve(c) ==
    /\ run[c] = IF c \in Direct THEN "new" ELSE "checked"
    /\ IF HasRoom(c)
       THEN children' = children \cup {c} /\ GoTo(c, "reserved")
       ELSE UNCHANGED children /\ GoTo(c, "new")
    /\ UNCHANGED <<row, cancelled, alive, kill, reaper, faults>>

\* InsertSpawnChild, its error ignored.
Insert(c) ==
    /\ run[c] = "reserved"
    /\ GoTo(c, "inserted")
    /\ \/ row' = [row EXCEPT ![c] = "running"] /\ UNCHANGED faults
       \/ faults < MaxFaults /\ faults' = faults + 1 /\ UNCHANGED row
    /\ UNCHANGED <<children, cancelled, alive, kill, reaper>>

\* cmd.Start: nothing is started under a cancelled context.
Start(c) ==
    /\ run[c] = "inserted"
    /\ IF c \in cancelled
       THEN GoTo(c, "exited") /\ UNCHANGED alive
       ELSE GoTo(c, "exec") /\ alive' = alive \cup {c}
    /\ UNCHANGED <<children, row, cancelled, kill, reaper, faults>>

\* The process ends by itself, at its TTL, or killed; cmd.Run returns.
Exit(c) ==
    /\ run[c] = "exec"
    /\ GoTo(c, "exited")
    /\ alive' = alive \ {c}
    /\ UNCHANGED <<children, row, cancelled, kill, reaper, faults>>

\* A bug that records a status nobody asks for.
MutRecord(c) ==
    /\ run[c] = "exited"
    /\ GoTo(c, "recorded")
    /\ UpdateRow(c, "done")
    /\ UNCHANGED <<children, cancelled, alive, kill, reaper>>

\* UpdateSpawnChild, then the metrics and the cycle history.
Record(c) ==
    /\ run[c] = "exited"
    /\ GoTo(c, "recorded")
    /\ UpdateRow(c, "finished")
    /\ UNCHANGED <<children, cancelled, alive, kill, reaper>>

\* A bug that forgets to take the child out of the map.
MutForget(c) ==
    /\ run[c] = "recorded"
    /\ GoTo(c, "over")
    /\ UNCHANGED <<children, row, cancelled, alive, kill, reaper, faults>>

Forget(c) ==
    /\ run[c] = "recorded"
    /\ GoTo(c, "over")
    /\ children' = children \ {c}
    /\ UNCHANGED <<row, cancelled, alive, kill, reaper, faults>>

-----------------------------------------------------------------------------
(***************************************************************************)
(* KillChild.                                                              *)
(***************************************************************************)

\* Callers know the ids of children whose Spawn has returned or that are listed.
KillLookup(k, c) ==
    /\ kill[k] = Idle
    /\ c \in children
    /\ run[c] # "reserved"
    /\ kill' = [kill EXCEPT ![k] = [pc |-> "cancel", child |-> c]]
    /\ UNCHANGED <<children, row, run, cancelled, alive, reaper, faults>>

\* A bug that takes the child out of the map and never cancels it.
MutKillCancel(k) ==
    /\ kill[k].pc = "cancel"
    /\ kill' = [kill EXCEPT ![k].pc = "mark"]
    /\ UNCHANGED <<children, row, run, cancelled, alive, reaper, faults>>

KillCancel(k) ==
    /\ kill[k].pc = "cancel"
    /\ cancelled' = cancelled \cup {kill[k].child}
    /\ kill' = [kill EXCEPT ![k].pc = "mark"]
    /\ UNCHANGED <<children, row, run, alive, reaper, faults>>

KillMark(k) ==
    /\ kill[k].pc = "mark"
    /\ UpdateRow(kill[k].child, "killed")
    /\ kill' = [kill EXCEPT ![k].pc = "remove"]
    /\ UNCHANGED <<children, run, cancelled, alive, reaper>>

KillRemove(k) ==
    /\ kill[k].pc = "remove"
    /\ children' = children \ {kill[k].child}
    /\ kill' = [kill EXCEPT ![k] = Idle]
    /\ UNCHANGED <<row, run, cancelled, alive, reaper, faults>>

-----------------------------------------------------------------------------
(***************************************************************************)
(* reapGhosts, every 30 seconds.                                           *)
(***************************************************************************)

ReapList ==
    /\ reaper.pc = "idle"
    /\ \E c \in Child : row[c] = "running"
    /\ reaper' = [pc |-> "listed", list |-> {c \in Child : row[c] = "running"}]
    /\ UNCHANGED <<children, row, run, cancelled, alive, kill, faults>>

\* A bug that trusts the rows and never looks at the map.
MutGhosts(list) == list

\* The rows whose child the manager does not know.
Ghosts(list) == list \ children

ReapSnapshot ==
    /\ reaper.pc = "listed"
    /\ reaper' = [pc |-> "marking", list |-> Ghosts(reaper.list)]
    /\ UNCHANGED <<children, row, run, cancelled, alive, kill, faults>>

ReapMark(c) ==
    /\ reaper.pc = "marking"
    /\ c \in reaper.list
    /\ UpdateRow(c, "dead")
    /\ reaper' = [reaper EXCEPT !.list = @ \ {c}]
    /\ UNCHANGED <<children, run, cancelled, alive, kill>>

ReapDone ==
    /\ reaper.pc = "marking"
    /\ reaper.list = {}
    /\ reaper' = Resting
    /\ UNCHANGED <<children, row, run, cancelled, alive, kill, faults>>

-----------------------------------------------------------------------------
(***************************************************************************)
(* The relay stops and comes back: the map and every goroutine are gone,   *)
(* the rows stay, and the processes run on without a parent.               *)
(***************************************************************************)

Restart ==
    /\ faults < MaxFaults
    /\ faults' = faults + 1
    /\ children' = {}
    /\ run' = [c \in Child |-> IF run[c] \in Unreserved THEN "new" ELSE "over"]
    /\ kill' = [k \in Killer |-> Idle]
    /\ reaper' = Resting
    /\ UNCHANGED <<row, cancelled, alive>>

OrphanExit(c) ==
    /\ c \in alive
    /\ run[c] = "over"
    /\ alive' = alive \ {c}
    /\ UNCHANGED <<children, row, run, cancelled, kill, reaper, faults>>

-----------------------------------------------------------------------------

\* What the goroutine of a child does once Spawn has entered it.
Supervise(c) == Insert(c) \/ Start(c) \/ Exit(c) \/ Record(c) \/ Forget(c)

Killing(k) == KillCancel(k) \/ KillMark(k) \/ KillRemove(k)

Reap == ReapList \/ ReapSnapshot \/ ReapDone \/ \E c \in Child : ReapMark(c)

Next ==
    \/ \E c \in Child : CheckProfile(c) \/ Reserve(c) \/ Supervise(c) \/ OrphanExit(c)
    \/ \E k \in Killer : Killing(k) \/ \E c \in Child : KillLookup(k, c)
    \/ Reap
    \/ Restart

Spec == Init /\ [][Next]_vars

\* Goroutines are scheduled, a process ends at its TTL at the latest, and the
\* reaper's ticker runs on.  Nobody has to spawn or to kill.
FairSpec ==
    /\ Spec
    /\ \A c \in Child : WF_vars(Supervise(c))
    /\ \A k \in Killer : WF_vars(Killing(k))
    /\ WF_vars(Reap)

-----------------------------------------------------------------------------
(***************************************************************************)
(* Properties.                                                             *)
(***************************************************************************)

\* The processes of a project that this relay started and nobody killed.
Working(p) == {c \in Child : run[c] = "exec" /\ c \notin cancelled /\ ProjectOf[c] = p}

\* The processes a project has at work fit in its pool: no finish, kill, reap or
\* restart frees the slot of a child that is still running.
PoolBound == \A p \in Project : Cardinality(Working(p)) <= MaxPool

\* The reaper never writes off a child the manager still tracks, though it lists
\* the rows before it looks at the map.
DeadIsUntracked == \A c \in children : row[c] # "dead"

\* No row stays "running" for good, through failed writes, kills and restarts.
RunningSettles == \A c \in Child : row[c] = "running" ~> row[c] # "running"

\* Every child gives its slot in the pool back.
SlotsFreed == \A c \in Child : c \in children ~> c \notin children
==============================================================================
