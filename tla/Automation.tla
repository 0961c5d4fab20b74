----------------------------- MODULE Automation -----------------------------
(***************************************************************************)
(* Events, and what they set off: triggers that spawn a child, workflows   *)
(* that are started, and URLs polled for a condition that raises an event  *)
(* (internal/relay/dispatcher.go, poller.go, internal/db/triggers.go,      *)
(* poll_triggers.go, workflows.go and their REST handlers).                *)
(*                                                                         *)
(* Every event runs in a goroutine of its own (a webhook in its request):  *)
(* it lists the triggers once, checks each cooldown against the row it     *)
(* listed, spawns, and then records the fire in two statements.            *)
(***************************************************************************)
EXTENDS Naturals

CONSTANTS
    Trigger, Poll, Flow,  \* ids of the rows that may be created
    Event, Meta,
    EventOf,        \* triggers.event
    RuleOf,         \* the metas a trigger's match_rules accept
    PollEvent,      \* poll_triggers.fire_event
    FlowEvent,      \* the events and metas each workflow's trigger nodes accept
    Cooldown, PollCooldown, PollInterval,   \* in ticks of the clock
    Dispatch,       \* bound: goroutines at once
    MaxClock        \* bound

ASSUME AutomationAssumption ==
    /\ EventOf \in [Trigger -> Event]
    /\ RuleOf \in [Trigger -> SUBSET Meta]
    /\ PollEvent \in [Poll -> Event]
    /\ FlowEvent \in [Flow -> SUBSET (Event \X Meta)]
    /\ {Cooldown, PollCooldown, PollInterval, MaxClock} \subseteq Nat
    /\ 0 < MaxClock

VARIABLES
    clock,
    trig,       \* trig[t]: whether row t exists and its last_fired_at, 0 for NULL
    dsp,        \* dsp[d]: the goroutine or request d
    polls,      \* the rows of poll_triggers
    poller,     \* the rows the poller's goroutine still has to poll, as it read
                \* them, and the one whose event it is about to raise
    flows,      \* the rows of workflows
    started,    \* the workflow executions started
    fired,      \* history only: when each trigger was last fired, 0 if never
    raised,     \* history only: the match for which each poll last raised its
                \* event, 0 if none since its condition began to hold
    crossed,    \* history only: triggers that two events looked at at once, or
                \* whose fire was not recorded because the relay stopped or the write
                \* failed, until an event that is alone with them has recorded a fire
    unrecorded  \* history only: polls whose last result could not be written

automationVars ==
    <<clock, trig, dsp, polls, poller, flows, started, fired, raised, crossed, unrecorded>>

RowStatus == {"none", "live", "deleted"}

Listed == [id : Trigger, last : 0 .. MaxClock]

PollRow == [row : RowStatus, last : 0 .. MaxClock, matched : BOOLEAN]

\* meta is what the rules see.
Running == [pc : {"begin", "list", "loop", "record", "update"}, event : Event, meta : Meta,
            todo : SUBSET Listed, at : Trigger, now : 0 .. MaxClock]

NoDispatch == [pc |-> "idle"]

PolledRow == [id : Poll, last : 0 .. MaxClock, matched : BOOLEAN]

Polling == [todo : SUBSET PolledRow, raise : SUBSET Poll]

NoPoll == [todo |-> {}, raise |-> {}]

AutomationInit ==
    /\ clock = 1
    /\ trig = [t \in Trigger |-> [row |-> "none", last |-> 0]]
    /\ dsp = [d \in Dispatch |-> NoDispatch]
    /\ polls = [p \in Poll |-> [row |-> "none", last |-> 0, matched |-> FALSE]]
    /\ poller = NoPoll
    /\ flows = [f \in Flow |-> "absent"]
    /\ started = {}
    /\ fired = [t \in Trigger |-> 0]
    /\ raised = [p \in Poll |-> 0]
    /\ crossed = {}
    /\ unrecorded = {}

LiveTriggers == {t \in Trigger : trig[t].row = "live"}

\* ListTriggers; every row is enabled, ToggleTrigger has no caller.
ListTriggers(e) ==
    {[id |-> t, last |-> trig[t].last] : t \in {u \in LiveTriggers : EventOf[u] = e}}

\* matchesRules: what a rule says about the meta is in RuleOf.
Matches(t, m) == m \in RuleOf[t]

Cooling(last, period) == last # 0 /\ clock - last < period

Set(d, r) == dsp' = [dsp EXCEPT ![d] = r]

\* --- events ---

\* FireTriggers and FireTriggersSync start with their event and what it is about.
Begin(d, e, m, sync) ==
    /\ dsp[d] = NoDispatch
    /\ \E t \in Trigger :
        Set(d, [pc |-> IF sync THEN "list" ELSE "begin", event |-> e, meta |-> m,
                todo |-> {}, at |-> t, now |-> 0])

Rest == <<clock, trig, polls, poller, flows, fired, raised, crossed, unrecorded>>

\* go fireTriggers(...) of the task and message handlers.
HandlerEvent(d) ==
    /\ \E e \in Event, m \in Meta : Begin(d, e, m, FALSE)
    /\ UNCHANGED <<Rest, started>>

ApiWebhook(d) ==
    /\ \E e \in Event, m \in Meta : Begin(d, e, m, TRUE)
    /\ UNCHANGED <<Rest, started>>

\* Each enabled workflow with a trigger node for the event is started, once;
\* a webhook does not come through here.
FireWorkflows(d) ==
    LET r == dsp[d] IN
    /\ r.pc = "begin"
    /\ started' = started \cup
         {<<d, f>> : f \in {g \in Flow : flows[g] = "on" /\ <<r.event, r.meta>> \in FlowEvent[g]}}
    /\ Set(d, [r EXCEPT !.pc = "list"])
    /\ UNCHANGED Rest

Others(d) == {c \in Dispatch \ {d} : dsp[c].pc \in {"loop", "record", "update"}}

List(d) ==
    LET r == dsp[d] IN
    /\ r.pc = "list"
    /\ Set(d, [r EXCEPT !.pc = "loop", !.todo = ListTriggers(r.event)])
    /\ crossed' = IF \E c \in Others(d) : dsp[c].event = r.event
                  THEN crossed \cup {t \in Trigger : EventOf[t] = r.event}
                  ELSE crossed
    /\ UNCHANGED <<clock, trig, polls, poller, flows, started, fired, raised, unrecorded>>

\* The error of the query is dropped: no trigger is listed, and the goroutine ends.
ListFails(d) ==
    /\ dsp[d].pc = "list"
    /\ Set(d, NoDispatch)
    /\ started' = {s \in started : s[1] # d}
    /\ UNCHANGED Rest

\* A trigger whose rules reject the event, or that has fired within its cooldown.
Skip(d) ==
    LET r == dsp[d] IN
    /\ r.pc = "loop"
    /\ \E t \in r.todo :
        /\ ~Matches(t.id, r.meta) \/ Cooling(t.last, Cooldown)
        /\ Set(d, [r EXCEPT !.todo = @ \ {t}])
    /\ UNCHANGED <<Rest, started>>

\* SpawnWithContext, which takes its time: a fire is recorded whatever comes of it.
Fire(d) ==
    LET r == dsp[d] IN
    /\ r.pc = "loop"
    /\ \E t \in r.todo :
        /\ Matches(t.id, r.meta)
        /\ ~Cooling(t.last, Cooldown)
        /\ fired' = [fired EXCEPT ![t.id] = clock]
        /\ Set(d, [r EXCEPT !.pc = "record", !.todo = @ \ {t}, !.at = t.id])
    /\ UNCHANGED <<clock, trig, polls, poller, flows, started, raised, crossed, unrecorded>>

\* RecordTriggerFire takes the time, and inserts into trigger_history; when that
\* fails it goes on as well.
RecordHistory(d) ==
    /\ dsp[d].pc = "record"
    /\ Set(d, [dsp[d] EXCEPT !.pc = "update", !.now = clock])
    /\ UNCHANGED <<Rest, started>>

\* A bug that records the fire in the history only.
MutRecordLastFired(d) ==
    /\ dsp[d].pc = "update"
    /\ Set(d, [dsp[d] EXCEPT !.pc = "loop", !.now = 0])
    /\ UNCHANGED <<Rest, started>>

\* last_fired_at, if the trigger is still there.
RecordLastFired(d) ==
    LET r == dsp[d]
        alone == fired[r.at] <= r.now /\ \A c \in Others(d) : dsp[c].event # r.event
    IN
    /\ r.pc = "update"
    /\ trig' = IF r.at \in LiveTriggers THEN [trig EXCEPT ![r.at].last = r.now] ELSE trig
    /\ Set(d, [r EXCEPT !.pc = "loop", !.now = 0])
    /\ crossed' = IF alone THEN crossed \ {r.at} ELSE crossed
    /\ UNCHANGED <<clock, polls, poller, flows, started, fired, raised, unrecorded>>

\* The error of that UPDATE is dropped.
RecordFails(d) ==
    LET r == dsp[d] IN
    /\ r.pc = "update"
    /\ Set(d, [r EXCEPT !.pc = "loop", !.now = 0])
    /\ crossed' = crossed \cup {r.at}
    /\ UNCHANGED <<clock, trig, polls, poller, flows, started, fired, raised, unrecorded>>

EndDispatch(d) ==
    /\ dsp[d].pc = "loop"
    /\ dsp[d].todo = {}
    /\ Set(d, NoDispatch)
    /\ started' = {s \in started : s[1] # d}
    /\ UNCHANGED Rest

\* --- the poller ---

Due(p) == polls[p].row = "live" /\ ~Cooling(polls[p].last, PollInterval)

\* A tick of 30 seconds: GetDuePollTriggers.
PollTick ==
    /\ poller = NoPoll
    /\ \E p \in Poll : Due(p)
    /\ poller' = [NoPoll EXCEPT !.todo =
         {[id |-> p, last |-> polls[p].last, matched |-> polls[p].matched] :
            p \in {q \in Poll : Due(q)}}]
    /\ UNCHANGED <<clock, trig, dsp, polls, flows, started, fired, raised, crossed, unrecorded>>

\* A bug that looks for a change of the result.
MutSuppressed(p) == ~p.matched /\ Cooling(p.last, PollCooldown)

\* The cooldown is checked against the poll before this one.
Suppressed(p) == p.matched /\ Cooling(p.last, PollCooldown)

\* evaluateCondition on whatever the URL answers.
EvaluateCondition == BOOLEAN

\* One URL, and UpdatePollResult, if the row is still there; its error is dropped, and
\* the event raised all the same.  A failed request is recorded like one whose answer
\* does not meet the condition.
PollOnce(p, matched) ==
    /\ poller.raise = {}
    /\ p \in poller.todo
    /\ poller' = [todo |-> poller.todo \ {p},
                  raise |-> IF matched /\ ~Suppressed(p) THEN {p.id} ELSE {}]
    /\ \/ /\ polls' = IF polls[p.id].row = "live"
                       THEN [polls EXCEPT ![p.id].last = clock, ![p.id].matched = matched]
                       ELSE polls
          /\ unrecorded' = unrecorded \ {p.id}
       \/ /\ polls' = polls
          /\ unrecorded' = unrecorded \cup {p.id}
    /\ raised' = IF ~matched THEN [raised EXCEPT ![p.id] = 0]
                 ELSE IF Suppressed(p) THEN raised ELSE [raised EXCEPT ![p.id] = clock]
    /\ UNCHANGED <<clock, trig, dsp, flows, started, fired, crossed>>

\* go fireTriggers(...): the match was recorded first, so a relay that stops here
\* has lost the event.
PollRaises(p, d) ==
    /\ p \in poller.raise
    /\ poller' = [poller EXCEPT !.raise = {}]
    /\ \E m \in Meta : Begin(d, PollEvent[p], m, FALSE)
    /\ UNCHANGED <<clock, trig, polls, flows, started, fired, raised, crossed, unrecorded>>

\* --- the rows ---

\* UpsertTrigger always inserts; signal handlers are triggers too.
CreateTrigger(t) ==
    /\ trig[t].row = "none"
    /\ trig' = [trig EXCEPT ![t].row = "live"]

DeleteTrigger(t) ==
    /\ trig[t].row = "live"
    /\ trig' = [trig EXCEPT ![t].row = "deleted"]

\* UpsertPollTrigger: a second one of the name keeps the row and its last poll.
UpsertPollTrigger(p) ==
    /\ polls[p].row = "none"
    /\ polls' = [polls EXCEPT ![p].row = "live"]

DeletePollTrigger(p) ==
    /\ polls[p].row = "live"
    /\ polls' = [polls EXCEPT ![p].row = "deleted"]

SetFlow(f, from, to) == flows[f] \in from /\ flows' = [flows EXCEPT ![f] = to]

CreateWorkflow(f) == SetFlow(f, {"absent"}, "on")

\* The request that switches a workflow also writes its name, nodes and edges.
ToggleWorkflow(f) == SetFlow(f, {"on"}, "off") \/ SetFlow(f, {"off"}, "on")

DeleteWorkflow(f) == SetFlow(f, {"on", "off"}, "absent")

EditTriggers ==
    /\ \E t \in Trigger : CreateTrigger(t) \/ DeleteTrigger(t)
    /\ UNCHANGED <<clock, dsp, polls, poller, flows, started, fired, raised, crossed, unrecorded>>

EditPolls ==
    /\ \E p \in Poll : UpsertPollTrigger(p) \/ DeletePollTrigger(p)
    /\ UNCHANGED <<clock, trig, dsp, poller, flows, started, fired, raised, crossed, unrecorded>>

EditWorkflows ==
    /\ \E f \in Flow : CreateWorkflow(f) \/ ToggleWorkflow(f) \/ DeleteWorkflow(f)
    /\ UNCHANGED <<clock, trig, dsp, polls, poller, started, fired, raised, crossed, unrecorded>>

TimePasses ==
    /\ clock < MaxClock
    /\ clock' = clock + 1
    /\ UNCHANGED <<trig, dsp, polls, poller, flows, started, fired, raised, crossed, unrecorded>>

\* The relay stops: goroutines and requests are gone, rows stay.
AutomationStops ==
    /\ dsp' = [d \in Dispatch |-> NoDispatch]
    /\ poller' = NoPoll
    /\ started' = {}
    /\ crossed' = crossed \cup
         {dsp[d].at : d \in {c \in Dispatch : dsp[c].pc \in {"record", "update"}}}
    /\ UNCHANGED <<clock, trig, polls, flows, fired, raised, unrecorded>>

DispatchStep(d) ==
    \/ FireWorkflows(d) \/ List(d) \/ ListFails(d) \/ Skip(d) \/ Fire(d)
    \/ RecordHistory(d) \/ RecordLastFired(d) \/ RecordFails(d) \/ EndDispatch(d)

AutomationNext ==
    \/ \E d \in Dispatch : HandlerEvent(d) \/ ApiWebhook(d) \/ DispatchStep(d)
    \/ PollTick
    \/ \E p \in poller.todo, matched \in EvaluateCondition : PollOnce(p, matched)
    \/ \E p \in poller.raise, d \in Dispatch : PollRaises(p, d)
    \/ EditTriggers \/ EditPolls \/ EditWorkflows
    \/ TimePasses
    \/ AutomationStops

\* --- properties ---

AutomationTypeOK ==
    /\ clock \in 1 .. MaxClock
    /\ trig \in [Trigger -> [row : RowStatus, last : 0 .. MaxClock]]
    /\ dsp \in [Dispatch -> {NoDispatch} \cup Running]
    /\ polls \in [Poll -> PollRow]
    /\ poller \in Polling
    /\ flows \in [Flow -> {"absent", "on", "off"}]
    /\ started \subseteq Dispatch \X Flow
    /\ raised \in [Poll -> 0 .. MaxClock]
    /\ fired \in [Trigger -> 0 .. MaxClock]
    /\ crossed \subseteq Trigger
    /\ unrecorded \subseteq Poll

TriggerWaited(d, t) ==
    dsp[d].pc = "loop" /\ dsp'[d].pc = "record" /\ dsp'[d].at = t /\ fired[t] # 0
        => clock - fired[t] >= Cooldown

PollWaited(p) ==
    raised[p] # 0 /\ raised'[p] \notin {0, raised[p]} => raised'[p] - raised[p] >= PollCooldown

\* A trigger never fires twice within its cooldown, whatever events, webhooks and
\* polls reach it and however long a spawn takes, unless two of them looked at it
\* at the same time, or the fire before was not recorded because the relay stopped or
\* the write failed; the next event that is alone with it and records its fire brings
\* the cooldown back.  A poll whose condition goes on holding, and whose last result
\* was written, raises its event again only when its cooldown has passed since it last
\* did, although the code never records that time and looks at the last poll instead.
CooldownKept ==
    [][/\ \A d \in Dispatch, t \in Trigger \ crossed : TriggerWaited(d, t)
       /\ \A p \in Poll \ unrecorded : PollWaited(p)]_automationVars

AutomationSpec == AutomationInit /\ [][AutomationNext]_automationVars
==============================================================================
