# WRAI.TH agent relay: verification project

This directory holds TLA+ specifications of the coordination core of the relay,
the TLC configurations that check them on small instances, and proofs, checked
by TLAPS, that hold for every instance. The specifications are written from the Go
code under `src/internal` and `src/main.go`, and for the chat from its view in
`src/web/chat`; line numbers below are relative to `src/`.

Contents: [the system](#1-the-system), [how it is modelled](#2-how-it-is-modelled),
[modules](#3-modules), [runs](#4-runs), [fairness](#5-fairness), [proofs](#6-proofs),
[what the code does not keep](#7-what-the-code-does-not-keep),
[what is left out](#8-what-is-left-out), [plan](#9-plan).

## 1. The system

The relay is one Go process. AI agents call its MCP tools, people use its REST
doors and web UI, and timers run inside it. Every request is a goroutine. All of
them share one SQLite database, through a writer handle of one connection and a
pool of readers (`db.go`), and a few maps in memory. There are few transactions
(`ResolveConflict`, the batches of usage records, the deletion of a project); almost
everywhere each statement commits by itself and most errors of background writes
are dropped. That is where the difficulty lies: a handler that reads, decides
and writes is several atomic steps.

| Part | State | Operations | Talks to | What is hard |
|---|---|---|---|---|
| Task board (`db/tasks.go`, task handlers) | `tasks` rows: status, assigned_to, archived_at, parent | dispatch, claim, start, complete, batch complete, block, cancel, reset, move, archive, delete | notifications; the ACK checker; goals | read and write are apart; the task-ready trigger of a parent reads three times before it writes; the operator's moves skip validation |
| Boards and goals (`db/boards.go`, `goals.go`, `UpdateTaskFields`) | rows of boards and goals, the board and goal of a task | create, archive, delete, dispatch to a board, edit, count, cascade | tasks | an edit writes every column back; a board and its tasks are archived apart; a goal's tasks are counted twice |
| Profiles and skills (`db/profiles.go`, `skills.go`) | rows, links, the profile of an agent | register, delete, create, link, unlink, find | agents, spawn | look, then delete; look up, then link |
| Agents, teams, permissions (`db/agents.go`, `orgs.go`, `elevations.go`) | status and reporting line, teams, members, channels, elevations | register, sleep, deactivate, go stale; join, leave; grant, end; may I message whom | messages | the leadership team in three statements; a query for each rule |
| Conversations (`db/conversations.go`) | rows, members, last_read_at | create, invite, leave, archive, send, read, mark | messages | times are taken before statements run |
| Quotas (`db/quotas.go`) | limits | check, set, delete | the handlers they guard | count, then insert |
| Memories (`db/memories.go`) | versions of keys, conflict flags | set, get, search, list, resolve, delete | | three statements for each write |
| Messages and deliveries (`db/messages.go`, `db/deliveries.go`, `budget.go`) | `messages`, `deliveries`, `message_reads` | send, get_inbox, ack_delivery, mark_read, thread, expire | agents, teams and conversations resolve the recipients | selecting, marking and answering are apart; two tables say "read"; expiry in two statements |
| Chat (`db/chat.go`, `chat_handlers.go`, `web/chat`) | the executive's role, messages not yet drained, chat rows, views | send, reply, poll, history | messages | replies enter late under an old time; a view merges answers in any order |
| Spawn manager, executor, reaper (`spawn/`) | `children` map, `spawn_children` rows, processes | spawn, spawn with context, kill, list, inject, reap | profiles, metrics, cycle history | two records of the same fact, written by the child's goroutine, by kills and by the reaper, and lost separately at a restart |
| PTY sessions and terminal (`spawn/pty*.go`, `ws_terminal.go`) | sessions, ring, subscribers, connections | start, kill, read, write, watch | browsers | store and tell under two locks; two writers on a connection |
| Cycle lock and queue (`lock/`, `executeCycle`) | lock file (a path and inodes), flock, one-slot queue | acquire, release, enqueue, dequeue | cron scheduler, executor | path operations and locks on inodes are different things; stale locks; refusal and enqueue are two steps |
| Cron schedules (`scheduler/`, `db/schedules.go`, `Manager.Schedule`) | `schedules` rows, cron entries | schedule, unschedule, REST create, update, delete, load | cycle execution | row and entry are two writes, in opposite orders when setting and removing; ids are made in two ways |
| Workflow engine (`workflow/`) | run and node-run rows; queue, `completed` map, goroutines of a round | execute, executeBFS | spawn, tasks, messages | goroutines write what the engine reads; graphs are user input |
| Triggers, dispatcher, pollers (`relay/dispatcher.go`, `poller.go`) | trigger, poll and workflow rows | fire on event, webhook, poll | spawn, workflows | the cooldown is checked from a row read earlier |
| ACK checker (`relay/cleanup.go`) | notice and escalation marks on tasks | ticks | messages, tasks | notice and mark are two statements |
| Token batcher (`handlers.go`, `db/token_usage.go`) | channel, buffer, batch | record, flush | | drops when full |
| File locks (`db/file_locks.go`) | advisory rows | claim, release, expire | | no exclusion is promised |
| Vault (`vault/`, `db/vault.go`) | files, rows, watchers | register, index, watch, edit, delete | the file system | index, then watch; two watchers |
| Activity ingest (`ingest/`, `GET /activity/stream`) | hook files, entries, subscribers | read, age, stream | hooks of agents, browsers | the order of files; channels that drop |
| Session registry, event bus, observatory, store, HTTP, CLI, UI | | push, count, route, show | | transport and display |

Correctness, component by component:

* Tasks: statuses follow the transition table; a task has an owner exactly when
  somebody works on it; one claim wins; a blocked parent is re-readied when its last
  subtask is resolved.
* Boards, goals, profiles, skills: no open task is hidden behind a closed board; an
  edit keeps what another wrote; counts fit together; agents keep their profile and
  links their ends.
* Directory: an executive leads; a message is judged, and its recipients are found, by
  what held while it was sent.
* Conversations and chat: what counts as read was there to be seen.
* Quotas: what gets through is bounded.
* Memories: a key once written is found, and a resolved conflict is over.
* Deliveries: a delivery only moves forward; what was shown is not unread; what
  is surfaced was shown; an expired message is in no inbox.
* Spawn: the pool bounds what runs; nothing tracked is written off; no row says
  "running" for good; every slot comes back.
* Terminals and activity: who watches sees what there is, in order.
* Cycles: one cycle of an agent at a time; the lock is never left behind; a
  cycle queued behind a running one starts, or a later one in its place.
* Schedules: what fires is what is stored; one entry for each schedule name.
* Workflow: no node before its parents; each node once; a completed run is complete;
  every run ends.
* Automation: no trigger fires twice within its cooldown.
* Upkeep: nobody is told twice, every usage record is written once or counted as lost.
* Vault: the index follows the files, with one watcher.

`PROJECT.json` lists all components, and under `hazards` the places in the code
where one of these could go wrong in a way a test would hardly reach.

## 2. How it is modelled

* **A step is a statement.** One SQL statement or transaction, one system call or one
  section under a Go mutex is one action. A handler is a small program counter with
  what it remembers between statements. So every interleaving the process allows is an
  interleaving of the model.
* **A restart** clears what is in memory and keeps rows, files and, for spawned
  children, processes. In the modules with a `MaxFaults`, restarts and failed writes
  share that budget; in the others a stop may come at any time (`RelayStops`,
  `AutomationStops`, `UpkeepStops`, `VaultStops`, `StopIngest`, `DirectoryStops`,
  `ConversationsStop`, `QuotasStop`, `PlanningStops`, `ProfilesStop`). Where the code
  drops an error, the failing statement is an action or an alternative of its own and the
  handler goes on (`ReadLimitFails`, `CountFails`, `HasTeamsFails`, `LookupFails`,
  `ListFails`, `RecordFails`, `MarkNoticeFails`, `WriteDocFails`, `RemoveFails`,
  `StartWatchFails`, `DequeueFails` and others); where it returns one, the call ends. In
  `Tasks` no statement fails (section 8).
* **Data** is model values: a message is its identity, a schedule entry the three
  columns that differ. Where only "old enough" matters, time is an event (`Elapse`,
  `Age`). Where two ages are compared it is a number that a step advances up to a bound
  (`clock` in Automation, `time` in Upkeep, `seconds` in Activity). Where the order of
  time stamps matters (Conversations, Chat) a row is its place in that order.
* **History variables** are named as such where they are declared. Most of them say
  when a promise does not bind, because the code cannot keep it then: `crossed` in
  Automation and Planning, `unrecorded` in Automation, `unmarked` and `lost` in Upkeep,
  `unseen` and `overlapped` in Vault, `gone` in Memories, `lead` in Directory and `blind`
  of its sends, `mixed` and `unkept` in Profiles, `passed` in the views of Chat, `missed` in
  Deliveries, Conversations, Terminal and Activity. Each stands for a
  behaviour of the code that section 7 describes, and is as narrow as we could make it:
  `unmarked` and `lost` count what went wrong and excuse no more than that, and `crossed`
  in Automation, `unrecorded` and `unseen` end with the step that mends what they stand for.
  The others record what the property compares with (`settled`, `shown`, `told`, `held`,
  `seen`, `answered`, `asked`, `fired`, `raised`, `notices`, `tracked`, `cap`). No action of
  the code depends on one, with two exceptions: `AckDelivery` reads `shown` because the id
  of a delivery reaches an agent in an inbox answer, and `Track` reads `tracked` because
  an answer goes out once.
* `Mut...` operators next to a definition are plausible bugs of that code. Each
  property is broken by one of them (`mutants` in `PROJECT.json`): the properties
  depend on what the code does.
* **Composition.** Components that share no state are checked side by side in one MC
  module (`MCBoard`, `MCSociety`, `MCBackground`): the initial state's `focus` says which
  of them moves. The state space is the sum of theirs and not the product.

## 3. Modules

### Task board: `TaskStatus`, `TaskLifecycle`, `Tasks`, `MCTasks`, `BoardProofs`

`TaskStatus` is the transition table (`ValidTransitions`, tasks.go). `TaskLifecycle`
is the abstract specification: what README.md:538 calls a strict state machine.
`Tasks` is the handlers.

| Model | Code |
|---|---|
| `row[t]` | the row: status, assigned_to, archived_at; `absent` and `deleted` are no row |
| `req[r]` | the goroutine of a request: tasks left, parents collected, what it read |
| `Begin` | a transition tool, `batch_complete_tasks`, or `POST /tasks/{id}/transition` |
| `ReadTask`, `WriteTask` | `transitionTask`: GetTask on a reader and `ValidateTransition`; then the UPDATE, which names only the id |
| `ReadParent`, `CountSubtasks`, `CountResolved`, `ReadReset`, `WriteReset` | `readyBlockedParent` and `CheckSubtasksComplete`, one action per statement |
| `Dispatch`, `ArchiveTasks`, `DeleteTask` | single statements |

The columns of a task that its status does not touch are in `Planning`. Notifications
are left out.

### Boards, goals, profiles, skills: `Edits`, `Planning`, `Profiles`, `MCBoard`, `BoardProofs`

`Planning` has the rows of boards and goals and the board and goal of a task (`item`).
`GetTask` and `GetGoal` begin an edit, `UpdateTaskFields` and `UpdateGoal` write all
columns back. `ArchiveBoard` and `ArchiveBoardTasks` are the two statements of one
call. `PickBoard`, `AutoBacklog` and `DispatchItem` are how a dispatched task comes
to a board. `GetGoalWithProgress` and `GetGoalProgress` are the two counts.
`GetGoalAncestry` and `GetGoalCascade` walk the tree. The first stops at five parents, the
second at none, so `GoalsKept` compares it with the `Nearest` five of the cascade's path.
`Edits` is what an edit makes of the columns it was not given.

`Profiles` has profiles, skills, links between them, and agents with the profile each
runs. `HandleRegisterProfile` reads, then `InsertProfile` or `UpdateProfile` writes;
`CheckInUse` looks for agents before `DeleteProfile`; `UpsertSkill`, `InsertSkill` and
`LinkProfileSkill` are `POST /skills`. Links follow the foreign keys, which take the
links of a deleted row with it. `MCBoard` has these two beside `Tasks`.

### Society: `Directory`, `Conversations`, `Quotas`, `Memories`, `Chat`, `MCSociety`, `SocietyProofs`

`Directory`: `HandleRegisterAgent`, `FindLeadership`, `CreateLeadership`, `JoinLeadership`
are a registration; `HandleSendMessage`, `CheckTeams`, one `CheckRule` per rule of
`CanMessage`, `InsertChecked` and `ResolveRecipients` are a send, in which `HasTeamsFails`
and `LookupFails` are the queries whose error is dropped; the rest are single
statements on agents, teams, members, channels and elevations. `held` and `seen`
watch what a sender could have found while its call was open.

`Conversations`: each handler first asks whether its agent is a member (`...Checks`).
`Stamp` takes the time of a message and `Store` inserts it; `Fetch` and `MarkFetched` are
get_conversation_messages; `MarkConversationRead` is mark_read.

`Quotas`: `ReadLimit` and `CountUsed` are CheckQuota, `ReadLimitFails` and `CountFails` its
two ways of letting a call through unchecked ("waved"); `InsertCounted` or
`InsertsNothing` ends the call; `InsertUnchecked` is a row that nobody asked the quota for.

`Memories`: one key, since keys never meet. `SetMemory`, `ArchiveOld` and `InsertMemory`
are one write, `ResolveConflict` and the transaction `CommitResolution` a resolution.
`GetMemory`, `SearchMemory`, `SearchEverywhere` and `ListMemories` are the queries, as
sets of the rows they match; a list may leave scope and name open (`NotGiven`). That a
query returns the 20 or 50 newest of them at most (memories.go:208, 273) is left out, so
"found" means found by a query that asks for enough.

`Chat`: a message is numbered by its `created_at`, and `mail` says in which table its
row is. `ServePoll` is `GET /chat/messages`, which drains the executive's messages into
the chat and then selects what is newer than the cursor; `PollElsewhere` and
`PostElsewhere` are other views. `view[v]` is one chat view (chat-view.tsx): the entries
it shows and what it has asked for; `MergePoll`, `MergePost` and `MergeHistory` are the
answers, in any order.

### Background: `Automation`, `Upkeep`, `Vault`, `Terminal`, `Activity`, `MCBackground`, `BackgroundProofs`

`Automation`: `dsp[d]` is the goroutine of an event, or the request of a webhook.
`List` reads the triggers, `Skip` and `Fire` decide one, `RecordHistory` and
`RecordLastFired` are RecordTriggerFire and `RecordFails` its dropped error;
`FireWorkflows` starts workflows. `PollTick` reads the due polls, `PollOnce` fetches,
evaluates and records one, or fails to, and `PollRaises` raises its event. The answer of a URL is any of "holds" and "does not".

`Upkeep`: `ListUnacked`, `NotifyDispatcher`, `MarkNotice` are the ACK checker;
`Track`, `Receive`, `FlushTick`, `CommitBatch` or `BatchFails` the token batcher; `ClaimFiles`,
`ReleaseFiles`, `ExpireFileLocks` the file locks.

`Vault`: one document, since documents never meet. `CancelOld`, `IndexAll`, `WriteDoc`,
`EnterWatched`, `StartWatch` are AddVault; `TakeEvent` and `Reindex` the watcher;
`ApiUpdateVaultDoc` to `PutDoc` the dashboard's editor. A file event waits in `queue`;
one that finds it full is dropped, as on an overflow of inotify (`Hears`). `WriteDocFails`,
`RemoveFails` and `EditFails` are reads and writes that fail, `StartWatchFails` a watcher that
cannot be had, and a keeper that is `deaf` one whose directory could not be added.

`Terminal`: `ptys` is the manager's map and `pty[s]` a session with its process, its
reader and its ring. `StoreChunk` and `TellChunk` are the two sections of the reader.
A browser (`viewer[v]`) is its handler (`Subscribe`, `SendReplay`, `TakeInput`, `Pong`,
`StopReading`) and its pump (`PumpTakes`, `PumpWrites`), which picks at random between
a chunk and the end of the session. `ShownTo` is what reaches the browser, `NeverShown` what
stays behind in the channel of a pump that is over.

`Activity`: `ListFiles`, `ProcessFile` and `StartWatching` are the hooks watcher,
`RecordEvent` and `Tick` the detector, `Broadcast` its `notifySubscribers`, the other
actions the handler of `GET /activity/stream`.

### Spawn: `Spawn`, `MCSpawn`, `SpawnProofs`

Each child runs through the positions of the call that spawns it and of its
goroutine: `CheckProfile` (SpawnWithContext, under the read lock), `Reserve` (the
check and the map entry, under the lock), `Insert`, `Start`, `Exit`, `Record`,
`Forget`. `KillLookup`, `KillCancel`, `KillMark` and `KillRemove` are KillChild.
`ReapList`, `ReapSnapshot`, `ReapMark` and `ReapDone` are `reapGhosts`. `Restart` leaves
rows and processes, and `OrphanExit` ends a process whose relay is gone. The prompt and
the live buffer are left out; interactive sessions are in `Terminal`.

### Cycle lock and queue: `CycleLock`, `MCCycleLock`, `CycleLockProofs`

The lock path and the inodes it may name are separate, because `Release` unlocks
before it removes the path and `Acquire` removes a path it judged stale. `ReadInfo`,
`Purge`, `Open`, `Flock`, `WriteInfo` are Acquire; `Unlock`, `Unlink` are Release;
`Enqueue` and `Dequeue` are the queue, `DequeueFails` a read of the schedules that fails;
`Context` may fail and release early. An
inode is reused once nothing names it or has it open. One instance is one agent.

### Schedules: `Schedules`, `MCSchedules`, `SchedulesProofs`

`row` is the table and `job` the entries of the cron library (external; only that
it parses an expression and removes an entry is used). `UpsertSchedule` then `AddJob` is
Manager.Schedule, `RemoveJob` then `DeleteSchedule` is Unschedule, and both may run at
once. `Upserted` is the ON CONFLICT(id) clause together with the unique index on
(project, agent, name). `RestId` is what `POST /schedules` makes of a key, without
its project.

### Deliveries: `DeliveryLifecycle`, `Deliveries`, `MCDeliveries`, `DeliveriesProofs`

`DeliveryLifecycle` is the abstract specification of delivery tracking.
`InsertMessage` and one `CreateDelivery` per recipient are a send. `GetInbox` (with its
expiry), `SelectInbox`, one `Surface` per row and `Answer` are get_inbox; `Answers` is
`applyBudget`, which may leave out whatever is not urgent. `MarkRead`, `InsertRead` and
`AckRead` are mark_read. `CleanMessages` and `CleanDeliveries` are the cleanup tick.
Who may write to whom is a constant, `To`; `Directory` says who it is.

### Workflow engine: `Workflow`, `MCWorkflow`, `WorkflowProofs`

One run of one graph. `Take`, `Examine`, `Wait` and `Complete` are executeBFS;
`CreateNodeRun`, `ExecuteNode` and `CompleteNode` are the goroutine of a node. The engine
reads the `completed` map without the goroutines' mutex: the outcome of that race is
any interleaving of the two, or a fatal error of the Go runtime, which `Stop`
covers. Parallel edges between two nodes are one edge.

Where components meet, each module leaves the other side open rather than
constrain it: any cron entry may fire a cycle at any time, any executed node or
spawned child may or may not succeed, any task may be claimed or resolved while the
ACK checker is at work, any agent may register for any profile.

## 4. Runs

Runs marked V state what a document or comment of the repository says and end in a
counterexample; see section 7. The rest finish without error.

| Run | Instance | What it shows |
|---|---|---|
| `tasks_race` | a parent and two subtasks, two handlers, one caller, tool handlers, batches of two; nobody archives or deletes (`RaceSpec`) | Racing handlers break the transition table only through a stale read (`LegalUnlessStale`), ownership agrees with status (`OwnerMatchesStatus`), and a blocked parent whose subtasks are resolved is re-readied by one of them (`TriggerReadiesParent`) |
| `tasks_serial` | a parent and a subtask, one handler, two callers, tools and REST, all statuses, archive, delete; beside it two boards, a task, two goals, two planners, and two profiles, a skill, two agents, two calls | One request at a time, the board refines `TaskLifecycle` (`StrictLifecycle`) and the first claim owns (`FirstClaimOwns`). Two calls at once on boards, goals, profiles and skills lose nothing but where they cross as `CatalogKept` says |
| `tasks_double_claim` V | one task, two handlers, two callers | Two claims both succeed |
| `spawn_pool` | two children of one profile, one by each door, pool of one, one killer, two faults | `PoolBound`, `DeadIsUntracked`, and that rows and slots settle (`RunningSettles`, `SlotsFreed`) |
| `cycle_queue` | two workers, two inodes, two jobs, in one project or in two, a restart or a failed read | `RefusedOnlyIfBusy`; a cycle that waits behind a running process is itself started, unless a later one takes its slot, its schedule goes, the fault comes or a cycle of another project ends first (`QueuedIsStarted`) |
| `cycle_overlap` V | one project, no fault | Two cycles at once |
| `schedules` | one name in two projects that share a REST id, one drawn id, a good and a bad expression, two prompts, two handlers, one fault | `SettledAgrees` |
| `deliveries` | a message with a TTL and an urgent one, two handlers, one fault | `OnlyForward` (refinement), `ShownIsNotUnread`, `ExpiryCloses` |
| `deliveries_pruned` V | one handler, no fault | Surfaced and never shown |
| `workflow` | every graph on four nodes, and every graph on two nodes and a deleted one, with failures | `ParentsFirst`, `CompletedIsComplete`, `Ends` |
| `background` | two events at once on a trigger, a poll and a workflow, a clock of three; two late tasks; three usage records and a channel of one; two holders of a file; two directories, two watchers with room for one event, an editor; a loud and a quiet terminal, a browser; three hook files, a stream | `CooldownKept`, `UpkeepOnce`, `VaultIndexed`, `WatchersFollow` (`OutputInOrder` and `ActivityFollows`) |
| `society` | two agents of which both may lead and one sends, one team; two talkers, one conversation longer than the page; three open calls and limits up to two; an agent and a dashboard user on a key of three versions; a chat view and three messages | `ExecutivesLead`, `SendFair`, `NothingSkipped` (`ReadWasShown` and `NothingBetween`), `QuotaOvershoot`, `KeyKept`, `ResolutionSettles` |

**Why these bounds.** Every safety violation known in this code needs at most two actors
and one or two objects, and every passing run has that many (`tasks_serial` has one handler
for statuses on purpose, `workflow` as many goroutines as a round has nodes).
The task-ready trigger needs two subtasks, one for each racing handler, under one
parent. A pool of one with two children has both the full pool and the slot that is
freed. Two inodes are needed for a path that no longer names a locked file, and two workers
to have one open each; two jobs share a project or do not (`Layouts`). The schedules instance has the collision of ids, the refused
expression and the dropped write together. Four nodes are the least graph with a
join, a cycle beside it and an unreachable node. One fault reaches every "crash
between two statements"; `spawn_pool` has two, so that a write may fail before or after a
restart. A clock of three ticks against a cooldown of two has a fire before, within and
after it; a task's ages are reached one after the other and together. Two registrations of
a vault that overlap, and an editor beside one at a time, are checked apart. A channel of one
with three records has the full channel, the full batch and the half-filled buffer. Three
chunks wrap a ring of two and fill a subscriber's channel of one. Three hooks are the start
and the end of a tool and the stop after it, in every order the files may be read in. A page
of one makes two messages of a conversation, and three of a chat, longer than the page.
Three versions of a key are a conflict and what resolves it. Three calls at once
exceed a limit of two by as much as the property admits. Other bounds are `MaxFaults`,
`MaxBatch`, `MaxRows`, `MaxElevations`, `MaxEvents`, `MaxText` and the constant sets.
Counters that could grow (`ran` in Workflow) are finite because the engine ends.

Symmetry is used in `tasks_serial`, `background` and `society`, over sets whose members
no definition tells apart and which no temporal property with fairness speaks of: what
these runs check are invariants, action properties and the refinement of
`TaskLifecycle`, whose tasks and callers are not permuted.

**Deadlock** is checked in `schedules`, `deliveries` and `deliveries_pruned`. The others
may stop for good: a board whose tasks are all deleted, children that are all over, an
agent without schedules, a workflow run that has ended, a clock or a table at its bound.

## 5. Fairness

Fairness is weak and only on what the Go scheduler, a timer or a timeout drives.
Nobody ever has to call the relay.

* `Tasks`: `WF(Handle(r))`. A handler that has begun goes on.
* `Spawn`: `WF(Supervise(c))`, `WF(Killing(k))`, `WF(Reap)`. The goroutine goes on, the
  process ends at the TTL that the executor's context enforces, and the reaper's ticker
  has no condition under which it stops. No fairness on `OrphanExit`: nothing ends an orphan.
  `SlotsFreed` assumes that `cmd.Run` returns once the process is dead, which a grandchild
  holding the output pipes may delay (executor.go:128 sets no WaitDelay).
* `CycleLock`: `WF(Execute(w))`. No timer has to fire, so a queued cycle must be started
  by the worker whose cycle is in progress. A read of the schedules need not fail:
  `DequeueFails` has no fairness.
* `Deliveries`: `WF(Deliver)`, `WF(Clean)`. No fairness on handlers: expiry must not depend
  on anybody reading.
* `Workflow`: `WF(up /\ Engine)`, and `WF(up /\ Goroutine(n))` for each node. A goroutine is
  scheduled, and an action returns.

The composed runs check safety only and state no fairness.

## 6. Proofs

TLAPS checks every theorem for all values of the constants that satisfy the named
assumption of each module (`TaskAssumption` to `ActivityAssumption`). They say that sets
are finite where they are counted, that null values are no members, that mappings have
the right domains, and that limits are naturals, those that the code never sets to zero
positive (sizes of rings, channels, batches and pages; in Automation and Vault also the
bound on the clock and on the texts, without which their first states have no type). The
order of ages is the code's (`NotifyAge` before `EscalateAge`; waiting, idle, exited). TLC
evaluates them in every run. Liveness apart, every property of a passing run is a
theorem.

| Module | Theorem | Argument |
|---|---|---|
| `BoardProofs` | `TypeCorrect` | types; the helpers `Settle`, `Ready`, `Update` in lemmas |
| | `OnlyStaleMovesAreIllegal` | `ValidatedWrites`: a handler about to write has validated its move from the status it *saw*. An illegal move then has a writer who is the operator or saw another status. `StatusWriter` finds the writer of a changed status |
| | `OwnershipCorrect` | `OwnershipInv`, which adds that a row not dispatched yet has no assignee: each UPDATE sets status and assignee together, so the order of writers does not matter |
| | `SerialBoardIsStrict` | with one handler and no operator, `FreshReads`: between read and write the row holds what was seen, or is deleted. With it each step maps to a step of `TaskLifecycle` or a stutter |
| | `FirstClaimStands` | likewise with one handler: who writes "accepted" saw "accepted" (`OwnerWriter`, `FreshReads`), and no valid move leads from it to itself |
| | `PlanningTypeCorrect`, `BoardsAreKept` | `PlanningInv`: two calls that edit a row are in `crossed` (`EditorsSeen`), hence what a call has read of a row that is not in it is what the row says (`TasksRead`, `GoalsRead`), and writing all columns back changes only those asked for. A row never created was never edited (`Untouched`) |
| | `GoalsAreShown` | `Dated`; `Counted`: the tasks of a goal are within the set that was counted until one joins; `Forest`: there is a depth for each goal, one more than its parent's and less than the number of goals. From a depth follows that each goal has one path (`SomePath`, `OnePath`, by least counterexamples). `Cascade` shows that the recursion over levels computes those paths, `Ancestry` that the five steps up are their end |
| | `ProfilesTypeCorrect`, `ProfilesAreKept` | `ProfilesInv`: as for edits, `CrossingsSeen` and `RecordingKept`; a delete that has looked for agents knows those that came since (`DeletesChecked`); what a call holds an id of is there or the id is gone (`FoundOrGone`), so no link can be written to a missing end |
| | `CatalogIsKept` | a step of `MCBoard` is a step or a stutter of each component |
| `SpawnProofs` | `TypeCorrect` | types |
| | `ReaperCorrect` | `Tracked` (who is busy and not cancelled is in the map; kills remove what they cancelled) and `Reaped` (a row exists only after the map entry, hence a row listed before the map was read and missing from it can never enter it again). The order list-then-look in the reaper is what carries this |
| | `PoolCorrect` | `Slots`, the bound on the map kept by `Reserve`, and `Tracked`, which puts everything at work into the map |
| `CycleLockProofs` | `TypeCorrect` | with `FilesAreOpen`: a worker about to lock has a file |
| | `LockIsGivenBack` | `OwnersAreBusy`: a flock belongs to a worker that is between lock and unlock and has that file open |
| `SchedulesProofs` | `TypeCorrect` | types |
| | `SchedulesAgree` | `CleanCalls`: an undisturbed call is alone on its id, and what its first statement did is still there at its second |
| `DeliveriesProofs` | `TypeCorrect` | types |
| | `ShownStaysRead` | `Tracked`: a sender inserts a row only where there is none (`Unsent`), what a handler has found and already handled is marked (`Found`), and what was shown is (`Marked`). Without `Unsent` a second insert would make a read delivery unread |
| | `DeliveriesOnlyForward` | refinement of `DeliveryLifecycle`: each step of the rows is forward; needs `Unsent` for the insert |
| `WorkflowProofs` | `TypeCorrect`, `ParentsComplete` | `Ordered`: a goroutine runs only for a node whose parents have completed (`Started`), and completed nodes stay completed, so it does not matter when the engine sees a completion |
| | `CompletedCorrect` | `Rounds` (nothing left over between rounds) and `NoneForgotten`: a node whose parents have all completed has completed, is started, is yet to be examined, or has a parent in the queue. The last parent to complete is queued after it is in the map, so the race cannot lose the node |
| `SocietyProofs` | `QuotaTypeCorrect` | types |
| | `OvershootBounded` | `Caps`: what a counting call compares with is at most the largest limit of the hour. So a call that passes saw fewer rows than that, and all others that are through are open (`OvershootStep`); inserting moves one from the calls to the rows. The history begins anew when no row and no call of the hour is left |
| | `MemoryTypeCorrect`, `KeysKept` | a call between archiving the old version and inserting the new one is the only reason for a place without an active row that is not in `gone` (`PlaceKept`); what such a call holds agrees with the rows (`AimedAt`), and versions count the rows (`Numbered`). The queries then find the same row |
| | `ResolutionSettled` | an action property: the commit leaves the chosen row active and archives the others it listed; nobody else's row was added, or the place is in `gone` |
| | `DirectoryTypeCorrect`, `ExecutivesSeated` | each step of a registration keeps `lead` of the agents it does not seat |
| | `SendersJudgedFairly` | `RuleKept`: a rule that a query has refused did not hold throughout; `Sandwiched`: who was seen as recipient lies between who was one all along and who was one at some time; a sender none of whose queries failed (`blind`) is judged by these |
| | `ConversationTypeCorrect`, `ReadersWereShown` | `Fetched`: a page is what the reader could see, and accounts for the messages up to then; `Accounted`: whatever lies before the mark was shown, told or missed |
| | `SocietyTypeCorrect`, `NothingIsSkipped` | `ChatInv`: a view is `Sound` with respect to the rows, whichever of its answers are still to come. The newest and the oldest row come from well-foundedness (`Least`). `OneMoves`: a step of `MCSociety` is a step or a stutter of each component |
| `BackgroundProofs` | `UpkeepTypeCorrect`, `UpkeepDoneOnce` | `RecordsApart`: a usage record is at one place of channel, buffer, batch, table and loss, once; `ListIsFresh` and `NoticesCounted`: the one list of the checker has no task whose mark is set, and every notice has its mark, or owes it, or its mark failed (`unmarked`) |
| | `AutomationTypeCorrect`, `CooldownsKept` | `Tracked`: what a dispatch read of a trigger is no newer than the row; `FiringsRecorded`: the last firing of a trigger nobody crossed is in its row or with the one call that will put it there, unless the write failed (`unrecorded`). Hence who compares with the row compares with the last firing |
| | `VaultTypeCorrect`, `IndexFollows` | `IndexMended`: while the index is not the file, some watcher has yet to look at the file, holds its text or has an event queued (`Mends`), unless a change was `unseen`. `OneWatches`: registrations that do not overlap cancel what they replace |
| | `BackgroundTypeCorrect`, `WatchersAreShown` | `RingKeeps`: a ring is the last chunks, the oldest where the next goes; `Follows`: what a viewer was shown, the replay, the chunk in the pump and the channel are in order, and with `missed` and `NeverShown` complete. `UpToDate`: the last snapshot of a stream that was not passed over is the sessions; `Fits`: an entry's state fits its last event |

The recursions are not proved by induction, which the provers cannot instantiate, but by
a least counterexample: the naturals are well-founded (`NatLessThanWellFounded`,
`WFMin`), and a recursive function is the one that satisfies its equation, once one that
does is given.

The attempts corrected the models in five places, which TLC had passed on its instances.
`GoalsKept` compared ancestors and cascade without a limit and was false from the seventh
goal of a chain on. A stop of the vault quantified over too much. A `CASE` of `DropSkill` had
two arms that held at once, so that its value was left to the reader. `MaxClock` and
`MaxText` might have been zero. `:>` and `@@` of module TLC gave way to explicit functions
in `Chat`, `Planning` and `Profiles`, as the prover does not know them.

Only model-checked: the liveness properties (`TriggerReadiesParent`, `RunningSettles`,
`SlotsFreed`, `QueuedIsStarted`, `ExpiryCloses`, `Ends`), since TLAPS proves neither liveness under
fairness nor ENABLED. `StrictLifecycle` and `FirstClaimOwns` are proved, as they are
checked, for one handler and without the operator; `tasks_double_claim` shows that two
handlers are too many.

## 7. What the code does not keep

Three statements of the repository are refuted by a run (`findings` in `PROJECT.json`):

1. README.md:554, first to `claim_task` owns it: two claims that read the same
   pending row both succeed (tasks.go:140, `tasks_double_claim`).
2. lock.go:50, `Acquire` gives an exclusive lock: a release removes a file another cycle
   has just locked, and the next cycle locks a new one (lock.go:107, `cycle_overlap`).
3. README.md:310, `surfaced` means received: messages the budget leaves out are surfaced
   too, and never shown again as unread (deliveries.go:101, `deliveries_pruned`).

Four more are plain from the modules and have no run. queue.go:8-9: the queue holds the
latest pending cycle of an agent, but a queued cycle is looked up among the schedules of
the project whose cycle has ended, and dropped when it is of another (manager.go:431), which
is why `QueuedIsStarted` has `LostOn`. handlers.go:1001: a list over the agent scope is
filtered "to prevent leaking other agents' private memories", and README.md:462 calls them
"private to this agent", but the filter is set only if the call names that scope, and
list_memories' default names none (handlers.go:1003), which is why `KeyKept` compares
such a list with `SearchEverywhere`. tools.go:904-907: `schedule` creates
or updates and names are unique, but a second call for a name leaves two cron entries
(handlers_spawn.go:155), which is why `SettledAgrees` speaks of calls whose row takes.
engine.go:134: nodes run in topological order, but the join of a diamond is run once per
branch (engine.go:173), which is why `ran` counts.

Seen while modelling, inside the models or at their edge:

* Tasks: README.md:538 "Strict transitions enforced at the DB level" fails under
  races (`LegalUnlessStale` says exactly when). handlers.go:1389-1393: a parent blocked
  after its last subtask was resolved stays blocked, and so does one whose last
  subtask is resolved through REST, or deleted between the two counts. archive_tasks with an
  open status archives live tasks, and so does archiving a board.
* Boards and goals: two first dispatches at once, or an archived board named "backlog",
  leave a task without a board (handlers.go:1279 drops the error). dispatch_task and
  move_task do not ask whether a board is open. An update_task and a move_task at once,
  or two update_goal, lose an edit, and a completed goal may be taken back; its
  completed_at stays. The two counts of a goal may report more tasks resolved than
  there are. A parent goal is not checked.
* Profiles and skills: register_profile of a row that was just deleted answers success and
  writes nothing. Registering again without skills wipes them. `POST /skills` ignores a
  link that fails. An agent may register for a profile that is missing.
* Spawn: config.go:21 and manager.go:40 speak of a global maximum, the code counts per
  project. Two `SpawnWithContext` calls both pass the profile's pool check
  (manager.go:256). After a restart the reaper marks living children dead
  (reaper.go:10-11 calls them ghosts). The last of `finished`, `killed` and `dead` to
  be written stays.
* Terminals: a viewer who subscribes while a chunk is stored and not yet told gets it
  twice; one whose channel is full misses it without a sign. When the session ends, the
  pump picks at random between the chunks that wait and the end (ws_terminal.go:116): the
  last ones may not be shown. `Write` holds the session's
  lock while the process takes no input, so that output is not stored and a kill
  waits until the TTL. The handler of a browser that is gone waits for its pump
  (ws_terminal.go:160), until the next output or the end of the session. A pong and
  output may be written at once, which gorilla forbids: in the pump that panic ends the
  relay. A kill forgets the session before the process is gone, so more than five may
  run. A session that ends by itself never closes its PTY.
* Cycles: a cycle enqueued after the holder has dequeued waits for the next firing
  (manager.go:352). A cycle is dequeued by name before its schedules are read, and is lost
  when the read fails (schedules.go:46).
* Schedules: `POST /schedules` ids of two projects collide, and the row keeps the older
  one's project. Concurrent schedule and unschedule may leave an entry without a row. A
  refused expression leaves a row and no entry.
* Deliveries: README.md:300 gives a default TTL of an hour, handlers.go:243 sets 14400
  seconds. Messages inserted without deliveries (handlers.go:1311, 1861, 1878;
  relay.go:87; cli/send.go:34) are invisible to get_inbox once any delivery exists. A stop or a
  failed insert between a message and its deliveries loses recipients. mark_read
  before the delivery is inserted leaves it queued.
* Workflow: nodes that are unreachable or on a cycle never run, and the run is
  "completed" all the same. A run cut off by a stop, or whose last write fails, says
  "running" for good. The engine and the goroutines access a map concurrently.
* Directory: of two executives that register at once the second gets no seat and is not
  told; the team may be there already as an ordinary one. Messages to a team are never
  checked, nor those to a user or a conversation. A newer elevation to "lead" hides an
  older one to "admin". Registering again as no executive keeps the seat. When HasTeams
  fails, nothing is checked (handlers.go:275, 319); when the query of a rule fails, the
  rule counts as not held (orgs.go:372-427).
* Conversations: get_conversation_messages returns the oldest page and marks everything
  read; mark_read of one message marks its conversation, whoever asks. Archived
  conversations take messages. Of two inviters at once one is told an error.
* Quotas: batch_dispatch, REST and the relay's own notices are not counted against
  anything before they are inserted; spawns for a cycle are checked, and counted for
  "relay-os"; the quota of tokens is never checked. A limit that cannot be read is none,
  and a count that fails is 0 (quotas.go:74, 134-161): whatever is asked then goes through,
  and `QuotaOvershoot` bounds only what a check that could be made let through.
* Memories: README.md:469 says nothing is silently overwritten; upserting, the default, replaces
  the value and keeps the older versions archived. A conflict of values a, b, a is resolved
  to two active rows, one of them flagged. Two resolutions at once with different
  choices archive every version. A search over a project shows rows other
  agents set for themselves, and so does a list that names an agent (handlers.go:1003).
* Chat: a view's cursor is its newest entry, its own message included, so that replies
  not yet answered to it are never asked for (chat-view.tsx:101). Replies drained late keep
  their old time and are behind other views' cursors. On opening, replies older than
  five minutes and newer than the history's answer are not shown (chat_handlers.go:199). Those
  are shown when the view is opened again. Naming another executive leaves
  the old one's replies undrained, and drains whatever the new one ever sent
  (chat.go:117). The errors of a drain's two statements are dropped (chat.go:137, 142).
* Automation: two events at once both pass a trigger's cooldown, and so does the next one
  when a fire could not be recorded (triggers.go:142, 146). A poll whose result could not be
  written raises its event again at the next tick (poller.go:42, 45). A poll's match is
  recorded before its event is raised, so that a stop loses it; its cooldown is compared
  with the last poll and not the last event, and one poll that fails or finds nothing
  resets it. Webhooks never start workflows. Upserting a trigger always inserts
  one. A `PUT` of a workflow with nothing but `enabled` wipes the rest.
* Upkeep: a task first seen when it is very late is escalated first and notified
  afterwards. Records are dropped when the channel is full, when their batch fails and
  when the relay stops.
* Vault: what changes before the watch begins, or while the relay is down, is not indexed;
  neither is what fails to be read, written, deleted or watched, nor what an overflow of
  events swallows (watcher.go:145, 212, 226, 250, 259-269): nothing tries again. Rows of
  files deleted meanwhile stay. Registering another path keeps the old rows; new
  subdirectories are not watched. Two registrations at once leave a watcher nobody can
  cancel, a deleted project one that goes on writing; a cancelled watcher may still write once. The editor may insert a document again that has been removed.
* Activity: after a restart files are read by name, "tool-end" before "tool-start", so a tool
  that has ended counts as running until it is idle; files that come between that and the
  watch wait for the next restart (hooks.go:43). A tool of more than 30 seconds is shown
  idle, and its session is forgotten after five minutes; nobody ever sees "exited". A full
  channel drops the newest snapshot until the next tick. Stopping closes a channel that others may
  still send on (ingest.go:67).

## 8. What is left out

Inside the modelled components: text, formatting, logging, notifications and metrics;
threads and unread counts of messages; what conditions, templates and actions of
workflows compute; types, owners and limits of goals; tags, confidence and the
full-text match of memories; frontmatter and ranking of documents; roles, tags and
organisations of agents; who may log in to the chat and its badge of unread messages;
resizing of terminals; the names of tools and the log of events. Errors of statements
that end a call and leave nothing behind are the call's ending. In `Tasks` no statement
fails and the relay does not stop: a query of the task-ready trigger that fails leaves the
parent blocked, as one that was too late does.

Not modelled:

* The event bus and the registry of sessions push to whoever is connected, and drop
  what a slow one does not take; nothing depends on them.
* The SQLite store: each statement is taken as one atomic step, as SQLite guarantees
  on one writer connection; migrations run once before anything else.
* The observatory writes telemetry to a Postgres database and aggregates it in
  queries.
* HTTP routing, tool schemas, the CLI and the web UI (but for the chat's view) are wiring,
  formatting and display. Their handlers that change state are part of the
  components' modules.

## 9. Plan

The order is by how much goes wrong when the part is wrong.

1. *Task board*, *spawn*, *cycle lock*, *schedules*, *deliveries*, *workflow engine*: modelled,
   checked, their safety proved.
2. *Memories*, *directory*, *conversations*, *quotas*, *chat*; *automation*, *upkeep*, *vault*,
   *terminals*, *activity*; *boards and goals*, *profiles and skills*: modelled, checked,
   their safety proved.
3. Proofs to come: what of the liveness properties is safety, such as that the task-ready
   trigger is due as long as a blocked parent has its subtasks resolved.
4. Refinements to come: an abstract lock by `CycleLock` without stale removal and with an
   unlink before the unlock, to show which order would be right; a register of one
   value by `Memories` with one writer.
5. Compositions to come: schedules with cycles (an entry that fires while its row is
   removed); the workflow engine with spawn; chat with deliveries.
