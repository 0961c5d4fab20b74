------------------------------ MODULE CycleLock ------------------------------
(***************************************************************************)
(* The scheduled cycles of one agent: Manager.executeCycle, the lock file  *)
(* that keeps them apart and the one-slot queue behind it                  *)
(* (internal/spawn/manager.go, internal/lock/lock.go, queue.go).           *)
(*                                                                         *)
(* Each firing of the cron timer or of trigger_cycle is a goroutine.  The  *)
(* lock is a flock on whatever file the path names when it is opened: the  *)
(* path may be unlinked while the file is locked, so files are inodes.     *)
(***************************************************************************)
EXTENDS Naturals, FiniteSets

CONSTANTS
    Worker,     \* goroutines that run executeCycle
    Inode,      \* files, reused once nobody holds or names them
    NoFile,     \* the path names no file
    Nobody,     \* no worker holds a flock
    Job,        \* the agent's schedules, by name
    NoJob,      \* the queue's slot is empty
    Project,
    Layouts,    \* the projects the jobs may be of
    MaxFaults   \* bound: relay restarts and failed reads of the schedules

ASSUME CycleLockAssumption ==
    /\ IsFiniteSet(Worker) /\ IsFiniteSet(Inode)
    /\ Cardinality(Inode) >= Cardinality(Worker)
    /\ NoFile \notin Inode
    /\ Nobody \notin Worker
    /\ NoJob \notin Job
    /\ Layouts \subseteq [Job -> Project]
    /\ MaxFaults \in Nat

VARIABLES
    path,       \* the inode the lock path names
    info,       \* what is written in each inode
    owner,      \* who holds the flock of each inode
    at,         \* at[w]: where worker w is
    file,       \* file[w]: the inode it has open
    job,        \* job[w]: the cycle it executes
    project,    \* a job's project, for good: the lock and the queue know the agent only
    pending,    \* PriorityQueue.pending of the agent
    schedules,  \* the rows of schedules
    faults      \* bound only

vars == <<path, info, owner, at, file, job, project, pending, schedules, faults>>

\* An empty or torn file cannot be parsed; a stale one is older than its TTL.
Info == {"empty", "fresh", "stale"}

Places == {"idle", "readinfo", "purge", "open", "flock", "refused", "write", "context",
           "exec", "unlock", "unlink", "failed", "unlinkfailed", "dequeue"}

\* Between a successful flock and its release.
Holding == {"write", "context", "exec", "unlock", "failed"}

TypeOK ==
    /\ path \in Inode \cup {NoFile}
    /\ info \in [Inode -> Info]
    /\ owner \in [Inode -> Worker \cup {Nobody}]
    /\ at \in [Worker -> Places]
    /\ file \in [Worker -> Inode \cup {NoFile}]
    /\ job \in [Worker -> Job \cup {NoJob}]
    /\ \A w \in Worker : job[w] = NoJob => at[w] = "idle"
    /\ project \in Layouts
    /\ pending \in Job \cup {NoJob}
    /\ schedules \subseteq Job
    /\ faults \in 0 .. MaxFaults

Init ==
    /\ path = NoFile
    /\ info = [i \in Inode |-> "empty"]
    /\ owner = [i \in Inode |-> Nobody]
    /\ at = [w \in Worker |-> "idle"]
    /\ file = [w \in Worker |-> NoFile]
    /\ job = [w \in Worker |-> NoJob]
    /\ project \in Layouts
    /\ pending = NoJob
    /\ schedules = Job
    /\ faults = 0

Step(w, from, to) == at[w] = from /\ at' = [at EXCEPT ![w] = to]

Unused(i) == i # path /\ \A w \in Worker : file[w] # i

-----------------------------------------------------------------------------
(***************************************************************************)
(* Acquire.                                                                *)
(***************************************************************************)

\* The cron timer, or trigger_cycle, starts a cycle.
Fire(w, j) ==
    /\ j \in schedules
    /\ Step(w, "idle", "readinfo")
    /\ job' = [job EXCEPT ![w] = j]
    /\ UNCHANGED <<path, info, owner, file, pending, schedules, faults>>

ReadInfo(w) ==
    /\ Step(w, "readinfo", IF path # NoFile /\ info[path] = "stale" THEN "purge" ELSE "open")
    /\ UNCHANGED <<path, info, owner, file, job, pending, schedules, faults>>

\* os.Remove of whatever the path names by now.
Purge(w) ==
    /\ Step(w, "purge", "open")
    /\ path' = NoFile
    /\ UNCHANGED <<info, owner, file, job, pending, schedules, faults>>

Open(w) ==
    /\ Step(w, "open", "flock")
    /\ IF path # NoFile
       THEN file' = [file EXCEPT ![w] = path] /\ UNCHANGED <<path, info>>
       ELSE \E i \in Inode : /\ Unused(i)
                             /\ path' = i
                             /\ info' = [info EXCEPT ![i] = "empty"]
                             /\ file' = [file EXCEPT ![w] = i]
    /\ UNCHANGED <<owner, job, pending, schedules, faults>>

Flock(w) ==
    /\ at[w] = "flock"
    /\ IF owner[file[w]] = Nobody
       THEN /\ Step(w, "flock", "write")
            /\ owner' = [owner EXCEPT ![file[w]] = w]
            /\ UNCHANGED file
       ELSE /\ Step(w, "flock", "refused")
            /\ file' = [file EXCEPT ![w] = NoFile]
            /\ UNCHANGED owner
    /\ UNCHANGED <<path, info, job, pending, schedules, faults>>

\* A cycle that finds the lock taken waits in the slot; the latest wins.
Enqueue(w) ==
    /\ Step(w, "refused", "idle")
    /\ pending' = job[w]
    /\ job' = [job EXCEPT ![w] = NoJob]
    /\ UNCHANGED <<path, info, owner, file, schedules, faults>>

WriteInfo(w) ==
    /\ Step(w, "write", "context")
    /\ info' = [info EXCEPT ![file[w]] = "fresh"]
    /\ UNCHANGED <<path, owner, file, job, pending, schedules, faults>>

-----------------------------------------------------------------------------
(***************************************************************************)
(* The cycle and the release.                                              *)
(***************************************************************************)

\* A bug that returns from a failed BuildSpawnContext without a Release.
MutContext(w) ==
    /\ \/ Step(w, "context", "exec") /\ UNCHANGED job
       \/ Step(w, "context", "idle") /\ job' = [job EXCEPT ![w] = NoJob]
    /\ UNCHANGED <<path, info, owner, file, pending, schedules, faults>>

\* BuildSpawnContext; without a profile it fails and the cycle ends here.
Context(w) ==
    /\ \/ Step(w, "context", "exec")
       \/ Step(w, "context", "failed")
    /\ UNCHANGED <<path, info, owner, file, job, pending, schedules, faults>>

\* The process exits or is killed at its TTL; metrics and history.
Exec(w) ==
    /\ Step(w, "exec", "unlock")
    /\ UNCHANGED <<path, info, owner, file, job, pending, schedules, faults>>

\* Release: unlock and close ...
Unlock(w) ==
    /\ Step(w, "unlock", "unlink") \/ Step(w, "failed", "unlinkfailed")
    /\ owner' = [owner EXCEPT ![file[w]] = Nobody]
    /\ file' = [file EXCEPT ![w] = NoFile]
    /\ UNCHANGED <<path, info, job, pending, schedules, faults>>

\* ... then remove whatever the path names.  A failed cycle ends here.
Unlink(w) ==
    /\ path' = NoFile
    /\ \/ Step(w, "unlink", "dequeue") /\ UNCHANGED job
       \/ Step(w, "unlinkfailed", "idle") /\ job' = [job EXCEPT ![w] = NoJob]
    /\ UNCHANGED <<info, owner, file, pending, schedules, faults>>

\* A bug that looks for the queued cycle under the name of the one that has run.
MutDequeueName(w) ==
    /\ at[w] = "dequeue"
    /\ pending' = NoJob
    /\ IF pending = job[w] /\ pending \in schedules
       THEN Step(w, "dequeue", "readinfo") /\ job' = [job EXCEPT ![w] = pending]
       ELSE Step(w, "dequeue", "idle") /\ job' = [job EXCEPT ![w] = NoJob]
    /\ UNCHANGED <<path, info, owner, file, schedules, faults>>

\* A bug that goes on with an empty slot.
MutDequeue(w) ==
    /\ Step(w, "dequeue", "readinfo")
    /\ job' = [job EXCEPT ![w] = pending]
    /\ pending' = NoJob
    /\ UNCHANGED <<path, info, owner, file, schedules, faults>>

\* The cycle taken from the slot is looked for among the agent's schedules in the
\* project of the cycle that has just run, and dropped when it is not there.
Dequeue(w) ==
    /\ at[w] = "dequeue"
    /\ pending' = NoJob
    /\ IF pending # NoJob /\ pending \in schedules /\ project[pending] = project[job[w]]
       THEN Step(w, "dequeue", "readinfo") /\ job' = [job EXCEPT ![w] = pending]
       ELSE Step(w, "dequeue", "idle") /\ job' = [job EXCEPT ![w] = NoJob]
    /\ UNCHANGED <<path, info, owner, file, schedules, faults>>

\* ListSchedulesByAgent drops the error of its query and returns no schedule: the
\* cycle taken from the slot is not found.
DequeueFails(w) ==
    /\ pending # NoJob
    /\ faults < MaxFaults
    /\ faults' = faults + 1
    /\ Step(w, "dequeue", "idle")
    /\ pending' = NoJob
    /\ job' = [job EXCEPT ![w] = NoJob]
    /\ UNCHANGED <<path, info, owner, file, schedules>>

Unschedule(j) ==
    /\ j \in schedules
    /\ schedules' = schedules \ {j}
    /\ UNCHANGED <<path, info, owner, at, file, job, pending, faults>>

\* More than the TTL has passed since the info was written.
Age(i) ==
    /\ info[i] = "fresh"
    /\ info' = [info EXCEPT ![i] = "stale"]
    /\ UNCHANGED <<path, owner, at, file, job, pending, schedules, faults>>

\* The relay stops and comes back: locks and queue are gone, the file stays.
Restart ==
    /\ faults < MaxFaults
    /\ faults' = faults + 1
    /\ owner' = [i \in Inode |-> Nobody]
    /\ at' = [w \in Worker |-> "idle"]
    /\ file' = [w \in Worker |-> NoFile]
    /\ job' = [w \in Worker |-> NoJob]
    /\ pending' = NoJob
    /\ UNCHANGED <<path, info, schedules>>

-----------------------------------------------------------------------------
Execute(w) ==
    \/ ReadInfo(w) \/ Purge(w) \/ Open(w) \/ Flock(w) \/ Enqueue(w) \/ WriteInfo(w)
    \/ Context(w) \/ Exec(w) \/ Unlock(w) \/ Unlink(w) \/ Dequeue(w)

Next ==
    /\ \/ \E w \in Worker : Execute(w) \/ DequeueFails(w) \/ \E j \in Job : Fire(w, j)
       \/ \E j \in Job : Unschedule(j)
       \/ \E i \in Inode : Age(i)
       \/ Restart
    /\ UNCHANGED project

Spec == Init /\ [][Next]_vars

\* Goroutines are scheduled and a process ends at its TTL.  No timer has to fire.
FairSpec == Spec /\ \A w \in Worker : WF_vars(Execute(w) /\ UNCHANGED project)

-----------------------------------------------------------------------------
(***************************************************************************)
(* Properties.                                                             *)
(***************************************************************************)

\* The cycle that left the slot is the one that starts.
Started(j) == pending = NoJob /\ \E w \in Worker : job[w] = j /\ at[w] = "readinfo"

\* A cycle of another project is about to empty the slot.
LostOn(j) == \E w \in Worker : at[w] = "dequeue" /\ project[job[w]] # project[j]

\* A cycle that waits in the slot behind another one's process starts, unless a
\* later one takes its place (queue.go:9), its schedule is deleted, the relay stops,
\* the schedules cannot be read, or a cycle of another project of the agent ends
\* first (manager.go:431).
QueuedIsStarted ==
    \A j \in Job, f \in 0 .. MaxFaults :
        (pending = j /\ faults = f /\ \E w \in Worker : at[w] = "exec")
            ~> \/ Started(j)
               \/ pending \notin {j, NoJob}
               \/ j \notin schedules
               \/ faults # f
               \/ LostOn(j)

\* A cycle is turned away only while another one is in progress: no finished,
\* failed or killed cycle, and no relay that is gone, leaves the agent locked.
RefusedOnlyIfBusy ==
    [][\A w \in Worker : at[w] = "flock" /\ at'[w] = "refused"
          => \E v \in Worker \ {w} : at[v] \in Holding]_vars

\* One cycle of the agent at a time.
MutualExclusion ==
    \A v, w \in Worker : at[v] \in Holding /\ at[w] \in Holding => v = w
==============================================================================
