------------------------------- MODULE Quotas --------------------------------
(***************************************************************************)
(* The quotas of one agent: what it may send, dispatch and spawn in an     *)
(* hour (internal/db/quotas.go, its REST handlers in api_spawn.go, and the *)
(* checks in send_message, dispatch_task and spawn).                       *)
(*                                                                         *)
(* A call reads the limit, counts the rows of the last hour and only then  *)
(* does what it came for, so calls of the same agent that are open at once *)
(* all see the same count.                                                 *)
(***************************************************************************)
EXTENDS Naturals, FiniteSets

CONSTANTS
    Kind,       \* what is limited: messages, tasks, spawns
    Call,       \* bound: calls of the agent at once
    MaxLimit,   \* bound
    MaxRows     \* bound: rows of a kind within an hour

ASSUME QuotaAssumption ==
    /\ IsFiniteSet(Call)
    /\ {MaxLimit, MaxRows} \subseteq Nat

VARIABLES
    limit,      \* limit[k] of the agent's row; 0 is unlimited, as is no row
    checked,    \* checked[k]: rows of the last hour whose call passed the check,
    others,     \* and those of calls without one, or whose check could not be made
    op,         \* op[c]: where call c is
    cap         \* history only: cap[k] is the largest limit since the hour began to
                \* fill, 0 if there was a time without

quotaVars == <<limit, checked, others, op, cap>>

NoCall == [pc |-> "idle"]

\* "act" has passed the check; "waved" goes on because the check could not be made.
Limited == [pc : {"count"}, kind : Kind, limit : 1 .. MaxLimit]
           \cup [pc : {"act", "waved"}, kind : Kind]

QuotaInit ==
    /\ limit = [k \in Kind |-> 0]
    /\ checked = [k \in Kind |-> 0]
    /\ others = [k \in Kind |-> 0]
    /\ op = [c \in Call |-> NoCall]
    /\ cap = [k \in Kind |-> 0]

Becomes(c, d) == op' = [op EXCEPT ![c] = d]

\* What countMessages1h, countTasks1h and countSpawns1h count.
Used(k) == checked[k] + others[k]

\* The one statement that writes all limits of the row.
SetAgentQuota(limits) ==
    /\ limit # limits
    /\ limit' = limits
    /\ UNCHANGED <<checked, others, op>>

DeleteQuota == SetAgentQuota([k \in Kind |-> 0])

\* A bug that counts against a limit of 0.
MutReadLimit(c, k) ==
    /\ op[c] = NoCall
    /\ Becomes(c, [pc |-> "count", kind |-> k, limit |-> limit[k]])
    /\ UNCHANGED <<limit, checked, others>>

\* CheckQuota reads the row: without a limit nothing is counted.
ReadLimit(c, k) ==
    /\ op[c] = NoCall
    /\ Becomes(c, IF limit[k] = 0 THEN [pc |-> "act", kind |-> k]
                                  ELSE [pc |-> "count", kind |-> k, limit |-> limit[k]])
    /\ UNCHANGED <<limit, checked, others>>

\* The row cannot be read: that counts as no limit.
ReadLimitFails(c, k) ==
    /\ op[c] = NoCall
    /\ Becomes(c, [pc |-> "waved", kind |-> k])
    /\ UNCHANGED <<limit, checked, others>>

\* A bug that lets a call through at the limit.
MutCountUsed(c) ==
    LET k == op[c].kind IN
    /\ op[c].pc = "count"
    /\ Becomes(c, IF Used(k) <= op[c].limit THEN [pc |-> "act", kind |-> k] ELSE NoCall)
    /\ UNCHANGED <<limit, checked, others>>

\* The rows are counted; a call at the limit is an error for the agent.
CountUsed(c) ==
    LET k == op[c].kind IN
    /\ op[c].pc = "count"
    /\ Becomes(c, IF Used(k) < op[c].limit THEN [pc |-> "act", kind |-> k] ELSE NoCall)
    /\ UNCHANGED <<limit, checked, others>>

\* The error of the count is dropped: the count is 0, below every limit.
CountFails(c) ==
    /\ op[c].pc = "count"
    /\ Becomes(c, [pc |-> "waved", kind |-> op[c].kind])
    /\ UNCHANGED <<limit, checked, others>>

\* The message, task or child is inserted.
InsertCounted(c) ==
    LET k == op[c].kind IN
    /\ \/ op[c].pc = "act" /\ checked' = [checked EXCEPT ![k] = @ + 1] /\ UNCHANGED others
       \/ op[c].pc = "waved" /\ others' = [others EXCEPT ![k] = @ + 1] /\ UNCHANGED checked
    /\ Used(k) < MaxRows
    /\ Becomes(c, NoCall)
    /\ UNCHANGED limit

\* Nothing that counts comes of it: an argument is missing, a later check says no,
\* a statement fails, or a child is spawned for a cycle, whose parent is "relay-os".
InsertsNothing(c) ==
    /\ op[c].pc \in {"act", "waved"}
    /\ Becomes(c, NoCall)
    /\ UNCHANGED <<limit, checked, others>>

\* batch_dispatch, the notices of dispatch_task, claim_files and release_files, and
\* the command line insert without asking.
InsertUnchecked(k) ==
    /\ Used(k) < MaxRows
    /\ others' = [others EXCEPT ![k] = @ + 1]
    /\ UNCHANGED <<limit, checked, op>>

\* A row gets an hour old.
HourPasses(k) ==
    /\ \/ checked[k] > 0 /\ checked' = [checked EXCEPT ![k] = @ - 1] /\ UNCHANGED others
       \/ others[k] > 0 /\ others' = [others EXCEPT ![k] = @ - 1] /\ UNCHANGED checked
    /\ UNCHANGED <<limit, op>>

\* The relay stops: open calls are gone.
QuotasStop ==
    /\ \E c \in Call : op[c] # NoCall
    /\ op' = [c \in Call |-> NoCall]
    /\ UNCHANGED <<limit, checked, others>>

QuotaStep ==
    \/ \E limits \in [Kind -> 0 .. MaxLimit] : SetAgentQuota(limits)
    \/ DeleteQuota
    \/ \E c \in Call :
        \/ \E k \in Kind : ReadLimit(c, k) \/ ReadLimitFails(c, k)
        \/ CountUsed(c) \/ CountFails(c) \/ InsertCounted(c) \/ InsertsNothing(c)
    \/ \E k \in Kind : InsertUnchecked(k) \/ HourPasses(k)
    \/ QuotasStop

Quiet(k) ==
    /\ checked[k] = 0
    /\ \A c \in Call : op[c].pc \in {"count", "act"} => op[c].kind # k

Larger(m, n) == IF m = 0 \/ n = 0 THEN 0 ELSE IF m > n THEN m ELSE n

\* A step of the code, and what the history makes of it.
QuotaNext ==
    /\ QuotaStep
    /\ cap' = [k \in Kind |-> IF Quiet(k)' THEN limit'[k] ELSE Larger(cap[k], limit'[k])]

\* --- properties ---

QuotaTypeOK ==
    /\ limit \in [Kind -> 0 .. MaxLimit]
    /\ checked \in [Kind -> 0 .. MaxRows]
    /\ others \in [Kind -> 0 .. MaxRows]
    /\ op \in [Call -> {NoCall} \cup Limited]
    /\ cap \in [Kind -> 0 .. MaxLimit]

Passed(k) == {c \in Call : op[c].pc = "act" /\ op[c].kind = k}

\* Check and insert are not one step, but what passes the check in an hour exceeds the
\* limit by less than the number of calls the agent may have open at once; whoever
\* lowers a limit has to wait for the hour to pass.  Calls whose limit or count could
\* not be read are not bounded at all: CheckQuota fails open (quotas.go:74 and 134).
QuotaOvershoot ==
    \A k \in Kind : cap[k] # 0
        => checked[k] + Cardinality(Passed(k)) <= cap[k] - 1 + Cardinality(Call)

QuotaSpec == QuotaInit /\ [][QuotaNext]_quotaVars
==============================================================================
