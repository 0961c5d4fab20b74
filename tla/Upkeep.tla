------------------------------- MODULE Upkeep --------------------------------
(***************************************************************************)
(* What the relay does by the clock: the notices about tasks nobody claims *)
(* (internal/relay/cleanup.go), the usage records that are written in      *)
(* batches (handlers.go, internal/db/token_usage.go) and the file locks    *)
(* that run out (internal/db/file_locks.go).                               *)
(***************************************************************************)
EXTENDS Naturals, Sequences

CONSTANTS
    Job, File, Holder, Usage,   \* tasks, paths, agents, usage records
    NotifyAge, EscalateAge,     \* the ages of a task nobody has claimed, in ticks
    LockTTL,
    QueueSize, BatchSize,       \* of the channel, and what is written at once
    MaxTime                     \* bound

ASSUME UpkeepAssumption ==
    /\ {NotifyAge, EscalateAge, LockTTL, QueueSize, BatchSize, MaxTime} \subseteq Nat
    /\ 0 < NotifyAge /\ NotifyAge <= EscalateAge
    /\ 0 < QueueSize /\ 0 < BatchSize

VARIABLES
    time,
    job,        \* job[j]: the row of the task
    checker,    \* the tasks the ACK checker has listed, and the mark it has yet to set
    notices,    \* history only: notices[j] counts what the dispatcher was told
    unmarked,   \* history only: unmarked[j] counts the notices whose mark failed or was
                \* cut off by a stop
    locks,      \* the active rows of file_locks
    queue, buf, batch,  \* usage records in the channel, the buffer and the open transaction
    stored,     \* stored[u] counts the rows of usage record u
    tracked,    \* history only: the records of the answers that went out
    lost        \* history only: records dropped because the channel was full, the batch
                \* failed or the relay stopped

ackVars == <<job, checker, notices, unmarked>>

tokenVars == <<queue, buf, batch, stored, tracked, lost>>

upkeepVars == <<time, ackVars, locks, tokenVars>>

Kinds == {"notified", "escalated"}

JobRow == [status : {"none", "pending", "claimed"}, since : 0 .. MaxTime, marks : SUBSET Kinds]

NoMark == [job |-> "none", kind |-> "none"]

\* A listed task keeps the marks it was read with; now is when the checker looks.
Listing == [job : Job, marks : SUBSET Kinds]

LockRow == [by : Holder, file : File, since : 0 .. MaxTime]

UpkeepInit ==
    /\ time = 0
    /\ job = [j \in Job |-> [status |-> "none", since |-> 0, marks |-> {}]]
    /\ checker = [todo |-> {}, now |-> 0, mark |-> NoMark]
    /\ notices = [j \in Job |-> [k \in Kinds |-> 0]]
    /\ unmarked = [j \in Job |-> [k \in Kinds |-> 0]]
    /\ locks = {}
    /\ queue = <<>>
    /\ buf = <<>>
    /\ batch = <<>>
    /\ stored = [u \in Usage |-> 0]
    /\ tracked = {}
    /\ lost = {}

Passes ==
    /\ time < MaxTime
    /\ time' = time + 1
    /\ UNCHANGED <<ackVars, locks, tokenVars>>

\* --- the ACK checker ---

DispatchJob(j) ==
    /\ job[j].status = "none"
    /\ job' = [job EXCEPT ![j] = [status |-> "pending", since |-> time, marks |-> {}]]
    /\ UNCHANGED <<checker, notices, unmarked>>

\* Claimed, cancelled or archived: the checker no longer asks for it.
ClaimJob(j) ==
    /\ job[j].status = "pending"
    /\ job' = [job EXCEPT ![j].status = "claimed"]
    /\ UNCHANGED <<checker, notices, unmarked>>

Unacked == {j \in Job : job[j].status = "pending" /\ time - job[j].since >= NotifyAge}

Resting == checker.todo = {} /\ checker.mark = NoMark

\* A tick of the checker: GetUnackedTasks, notified or not.
ListUnacked ==
    /\ Resting
    /\ checker.now < time
    /\ Unacked # {}
    /\ checker' = [checker EXCEPT !.todo = {[job |-> j, marks |-> job[j].marks] : j \in Unacked},
                                  !.now = time]
    /\ UNCHANGED <<job, notices, unmarked>>

\* The escalation is looked at first, so a task that was never seen young enough is
\* escalated first and notified later.
DueNotice(t) ==
    LET age == checker.now - job[t.job].since IN
    CASE age >= EscalateAge /\ "escalated" \notin t.marks -> "escalated"
      [] (age < EscalateAge \/ "escalated" \in t.marks) /\ "notified" \notin t.marks -> "notified"
      [] OTHER -> "none"

NotifyDispatcher(t) ==
    LET kind == DueNotice(t) IN
    /\ checker.mark = NoMark
    /\ checker' = [checker EXCEPT !.todo = @ \ {t},
                        !.mark = IF kind = "none" THEN NoMark ELSE [job |-> t.job, kind |-> kind]]
    /\ notices' = IF kind = "none" THEN notices ELSE [notices EXCEPT ![t.job][kind] = @ + 1]
    /\ UNCHANGED <<job, unmarked>>

\* A bug that marks every notice as the first.
MutMarkNotice ==
    LET m == checker.mark IN
    /\ m # NoMark
    /\ job' = [job EXCEPT ![m.job].marks = @ \cup {"notified"}]
    /\ checker' = [checker EXCEPT !.mark = NoMark]
    /\ UNCHANGED <<notices, unmarked>>

\* MarkTaskAckNotified and MarkTaskAckEscalated.
MarkNotice ==
    LET m == checker.mark IN
    /\ m # NoMark
    /\ job' = [job EXCEPT ![m.job].marks = @ \cup {m.kind}]
    /\ checker' = [checker EXCEPT !.mark = NoMark]
    /\ UNCHANGED <<notices, unmarked>>

Unmark == [j \in Job |-> [k \in Kinds |->
    unmarked[j][k] + IF checker.mark = [job |-> j, kind |-> k] THEN 1 ELSE 0]]

\* Its error is dropped.
MarkNoticeFails ==
    /\ checker.mark # NoMark
    /\ unmarked' = Unmark
    /\ checker' = [checker EXCEPT !.mark = NoMark]
    /\ UNCHANGED <<job, notices>>

\* --- usage records ---

\* resultJSONTracked: the answer never waits for a full channel.
Track(u) ==
    /\ u \notin tracked
    /\ tracked' = tracked \cup {u}
    /\ \/ Len(queue) < QueueSize /\ queue' = Append(queue, u) /\ UNCHANGED lost
       \/ Len(queue) = QueueSize /\ lost' = lost \cup {u} /\ UNCHANGED queue
    /\ UNCHANGED <<buf, batch, stored>>

Flush(b) == batch' = b /\ buf' = <<>>

\* A bug that writes one record too late.
MutReceive ==
    /\ batch = <<>>
    /\ queue # <<>>
    /\ LET b == Append(buf, Head(queue)) IN
       IF Len(b) > BatchSize THEN Flush(b) ELSE buf' = b /\ UNCHANGED batch
    /\ queue' = Tail(queue)
    /\ UNCHANGED <<stored, tracked, lost>>

\* A bug that writes the buffer before it has taken the record that fills it.
MutReceiveFull ==
    /\ batch = <<>>
    /\ queue # <<>>
    /\ IF Len(buf) + 1 >= BatchSize THEN Flush(buf)
       ELSE buf' = Append(buf, Head(queue)) /\ UNCHANGED batch
    /\ queue' = Tail(queue)
    /\ UNCHANGED <<stored, tracked, lost>>

\* flushTokenUsage takes a record, and writes when there are enough of them.
Receive ==
    /\ batch = <<>>
    /\ queue # <<>>
    /\ LET b == Append(buf, Head(queue)) IN
       IF Len(b) >= BatchSize THEN Flush(b) ELSE buf' = b /\ UNCHANGED batch
    /\ queue' = Tail(queue)
    /\ UNCHANGED <<stored, tracked, lost>>

\* Every five seconds.
FlushTick ==
    /\ batch = <<>>
    /\ buf # <<>>
    /\ Flush(buf)
    /\ UNCHANGED <<queue, stored, tracked, lost>>

Records(s) == {s[i] : i \in DOMAIN s}

\* InsertTokenUsageBatch: one transaction, whose error loses the batch.
CommitBatch ==
    /\ batch # <<>>
    /\ stored' = [u \in Usage |-> stored[u] + IF u \in Records(batch) THEN 1 ELSE 0]
    /\ batch' = <<>>
    /\ UNCHANGED <<queue, buf, tracked, lost>>

BatchFails ==
    /\ batch # <<>>
    /\ lost' = lost \cup Records(batch)
    /\ batch' = <<>>
    /\ UNCHANGED <<queue, buf, stored, tracked>>

\* --- file locks: advisory, several agents may hold the same path ---

ClaimFiles(a, f) == locks' = locks \cup {[by |-> a, file |-> f, since |-> time]}

\* All of the agent's locks of the path.
ReleaseFiles(a, f) ==
    /\ \E l \in locks : l.by = a /\ l.file = f
    /\ locks' = {l \in locks : l.by # a \/ l.file # f}

\* By the cleanup, and by whoever lists the locks.
ExpireFileLocks ==
    /\ \E l \in locks : time - l.since > LockTTL
    /\ locks' = {l \in locks : time - l.since <= LockTTL}

\* --- everything together ---

Lock ==
    \/ \E a \in Holder, f \in File : ClaimFiles(a, f) \/ ReleaseFiles(a, f)
    \/ ExpireFileLocks

Ack ==
    \/ \E j \in Job : DispatchJob(j) \/ ClaimJob(j)
    \/ ListUnacked
    \/ \E t \in checker.todo : NotifyDispatcher(t)
    \/ MarkNotice \/ MarkNoticeFails

Count == (\E u \in Usage : Track(u)) \/ Receive \/ FlushTick \/ CommitBatch \/ BatchFails

\* The channel is never closed: what has not been written when the relay stops is gone.
UpkeepStops ==
    /\ ~Resting \/ queue \o buf \o batch # <<>>
    /\ checker' = [todo |-> {}, now |-> time, mark |-> NoMark]
    /\ unmarked' = Unmark
    /\ lost' = lost \cup Records(queue \o buf \o batch)
    /\ queue' = <<>> /\ buf' = <<>> /\ batch' = <<>>
    /\ UNCHANGED <<time, job, notices, locks, stored, tracked>>

UpkeepNext ==
    \/ Passes
    \/ Ack /\ UNCHANGED <<time, locks, tokenVars>>
    \/ Count /\ UNCHANGED <<time, ackVars, locks>>
    \/ Lock /\ UNCHANGED <<time, ackVars, tokenVars>>
    \/ UpkeepStops

\* --- properties ---

UpkeepTypeOK ==
    /\ time \in 0 .. MaxTime
    /\ job \in [Job -> JobRow]
    /\ checker \in [todo : SUBSET Listing, now : 0 .. MaxTime,
                    mark : {NoMark} \cup [job : Job, kind : Kinds]]
    /\ unmarked \in [Job -> [Kinds -> Nat]]
    /\ locks \subseteq LockRow
    /\ {queue, buf, batch} \subseteq Seq(Usage)
    /\ Len(queue) <= QueueSize /\ Len(buf) < BatchSize /\ Len(batch) <= BatchSize
    /\ tracked \subseteq Usage
    /\ lost \subseteq Usage

\* In how many places the record u is: waiting, written, or known to be lost.
Copies(u) ==
    LET In(A) == IF u \in A THEN 1 ELSE 0 IN
    In(Records(queue)) + In(Records(buf)) + In(Records(batch)) + stored[u] + In(lost)

\* What upkeep does by the clock it does once.  A dispatcher is told once that a task
\* is late and once that it is very late, and once more for each mark that failed or
\* that a stop cut off.  The record of an answer that went out is in one place: it
\* waits, or has one row, or is lost to a full channel, a failed batch or a stop; none
\* is dropped in any other way and none is written twice.
UpkeepOnce ==
    /\ \A j \in Job, k \in Kinds : notices[j][k] <= 1 + unmarked[j][k]
    /\ \A u \in Usage : Copies(u) = IF u \in tracked THEN 1 ELSE 0

UpkeepSpec == UpkeepInit /\ [][UpkeepNext]_upkeepVars
==============================================================================
