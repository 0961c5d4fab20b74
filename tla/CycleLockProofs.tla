--------------------------- MODULE CycleLockProofs ---------------------------
(***************************************************************************)
(* Proofs about CycleLock, for every number of workers, jobs, files and    *)
(* restarts.                                                               *)
(***************************************************************************)
EXTENDS CycleLock, TLAPS

\* A flock belongs to a cycle in progress, and is on the file it has open.
OwnersAreBusy ==
    \A i \in Inode, w \in Worker : owner[i] = w => at[w] \in Holding /\ file[w] = i

\* A worker that is about to lock a file, or has locked one, has it open.
FilesAreOpen == \A w \in Worker : at[w] \in Holding \cup {"flock"} => file[w] \in Inode

-----------------------------------------------------------------------------
\* Every step, and a stutter, keeps the types; a cycle has a file to lock.
LEMMA TypeStep == TypeOK /\ FilesAreOpen /\ [Next]_vars => TypeOK' /\ FilesAreOpen'
<1> SUFFICES ASSUME TypeOK, FilesAreOpen, [Next]_vars PROVE TypeOK' /\ FilesAreOpen'
    OBVIOUS
<1>a. project' \in Layouts BY DEF Next, vars, TypeOK
<1> USE <1>a, CycleLockAssumption DEF TypeOK, FilesAreOpen, Info, Places, Holding, Step
<1>1. CASE UNCHANGED vars BY <1>1 DEF vars
<1>2. ASSUME NEW w \in Worker, NEW j \in Job, Fire(w, j) PROVE TypeOK' /\ FilesAreOpen'
      BY <1>2 DEF Fire
<1>3. ASSUME NEW w \in Worker, ReadInfo(w) PROVE TypeOK' /\ FilesAreOpen'
      BY <1>3 DEF ReadInfo
<1>4. ASSUME NEW w \in Worker, Purge(w) PROVE TypeOK' /\ FilesAreOpen'
      BY <1>4 DEF Purge
<1>5. ASSUME NEW w \in Worker, Open(w) PROVE TypeOK' /\ FilesAreOpen'
  <2>1. CASE path # NoFile BY <1>5, <2>1 DEF Open
  <2>2. CASE path = NoFile BY <1>5, <2>2 DEF Open
  <2> QED BY <2>1, <2>2
<1>6. ASSUME NEW w \in Worker, Flock(w) PROVE TypeOK' /\ FilesAreOpen'
  <2>1. CASE owner[file[w]] = Nobody BY <1>6, <2>1 DEF Flock
  <2>2. CASE owner[file[w]] # Nobody BY <1>6, <2>2 DEF Flock
  <2> QED BY <2>1, <2>2
<1>7. ASSUME NEW w \in Worker, Enqueue(w) PROVE TypeOK' /\ FilesAreOpen'
      BY <1>7 DEF Enqueue
<1>8. ASSUME NEW w \in Worker, WriteInfo(w) PROVE TypeOK' /\ FilesAreOpen'
      BY <1>8 DEF WriteInfo
<1>9. ASSUME NEW w \in Worker, Context(w) PROVE TypeOK' /\ FilesAreOpen'
      BY <1>9 DEF Context
<1>10. ASSUME NEW w \in Worker, Exec(w) PROVE TypeOK' /\ FilesAreOpen'
      BY <1>10 DEF Exec
<1>11. ASSUME NEW w \in Worker, Unlock(w) PROVE TypeOK' /\ FilesAreOpen'
      BY <1>11 DEF Unlock
<1>12. ASSUME NEW w \in Worker, Unlink(w) PROVE TypeOK' /\ FilesAreOpen'
      BY <1>12 DEF Unlink
<1>13. ASSUME NEW w \in Worker, Dequeue(w) PROVE TypeOK' /\ FilesAreOpen'
      BY <1>13 DEF Dequeue
<1>14. ASSUME NEW w \in Worker, DequeueFails(w) PROVE TypeOK' /\ FilesAreOpen'
      BY <1>14 DEF DequeueFails
<1>15. ASSUME NEW j \in Job, Unschedule(j) PROVE TypeOK' /\ FilesAreOpen'
      BY <1>15 DEF Unschedule
<1>16. ASSUME NEW i \in Inode, Age(i) PROVE TypeOK' /\ FilesAreOpen'
      BY <1>16 DEF Age
<1>17. CASE Restart BY <1>17 DEF Restart
<1> QED BY <1>1, <1>2, <1>3, <1>4, <1>5, <1>6, <1>7, <1>8, <1>9, <1>10, <1>11,
           <1>12, <1>13, <1>15, <1>16, <1>17, <1>14 DEF Next, Execute

\* Lock file, queue and cycles keep their shape in every order of their steps.
THEOREM TypeCorrect == Spec => []TypeOK
<1>1. Init => TypeOK /\ FilesAreOpen
      BY CycleLockAssumption DEF Init, TypeOK, FilesAreOpen, Info, Places, Holding
<1> QED BY <1>1, TypeStep, PTL DEF Spec

-----------------------------------------------------------------------------
\* A flock is given back by the cycle that took it, on every way out of it.
LEMMA OwnersStep ==
    TypeOK /\ FilesAreOpen /\ OwnersAreBusy /\ [Next]_vars => OwnersAreBusy'
<1> SUFFICES ASSUME TypeOK, FilesAreOpen, OwnersAreBusy, [Next]_vars
             PROVE  OwnersAreBusy'
    OBVIOUS
<1> USE CycleLockAssumption DEF TypeOK, OwnersAreBusy, Holding, Step
<1>1. CASE UNCHANGED vars BY <1>1 DEF vars
<1>2. ASSUME NEW w \in Worker, NEW j \in Job, Fire(w, j) PROVE OwnersAreBusy'
      BY <1>2 DEF Fire
<1>3. ASSUME NEW w \in Worker, ReadInfo(w) PROVE OwnersAreBusy'
      BY <1>3 DEF ReadInfo
<1>4. ASSUME NEW w \in Worker, Purge(w) PROVE OwnersAreBusy'
      BY <1>4 DEF Purge
<1>5. ASSUME NEW w \in Worker, Open(w) PROVE OwnersAreBusy'
      BY <1>5 DEF Open
<1>6. ASSUME NEW w \in Worker, Flock(w) PROVE OwnersAreBusy'
  <2>1. file[w] \in Inode BY <1>6 DEF Flock, FilesAreOpen
  <2>2. CASE owner[file[w]] = Nobody BY <1>6, <2>1, <2>2 DEF Flock
  <2>3. CASE owner[file[w]] # Nobody BY <1>6, <2>1, <2>3 DEF Flock
  <2> QED BY <2>2, <2>3
<1>7. ASSUME NEW w \in Worker, Enqueue(w) PROVE OwnersAreBusy'
      BY <1>7 DEF Enqueue
<1>8. ASSUME NEW w \in Worker, WriteInfo(w) PROVE OwnersAreBusy'
      BY <1>8 DEF WriteInfo
<1>9. ASSUME NEW w \in Worker, Context(w) PROVE OwnersAreBusy'
      BY <1>9 DEF Context
<1>10. ASSUME NEW w \in Worker, Exec(w) PROVE OwnersAreBusy'
      BY <1>10 DEF Exec
<1>11. ASSUME NEW w \in Worker, Unlock(w) PROVE OwnersAreBusy'
  <2>1. file[w] \in Inode BY <1>11 DEF Unlock, FilesAreOpen
  <2> QED BY <1>11, <2>1 DEF Unlock
<1>12. ASSUME NEW w \in Worker, Unlink(w) PROVE OwnersAreBusy'
      BY <1>12 DEF Unlink
<1>13. ASSUME NEW w \in Worker, Dequeue(w) PROVE OwnersAreBusy'
      BY <1>13 DEF Dequeue
<1>14. ASSUME NEW w \in Worker, DequeueFails(w) PROVE OwnersAreBusy'
      BY <1>14 DEF DequeueFails
<1>15. ASSUME NEW j \in Job, Unschedule(j) PROVE OwnersAreBusy'
      BY <1>15 DEF Unschedule
<1>16. ASSUME NEW i \in Inode, Age(i) PROVE OwnersAreBusy'
      BY <1>16 DEF Age
<1>17. CASE Restart BY <1>17 DEF Restart
<1> QED BY <1>1, <1>2, <1>3, <1>4, <1>5, <1>6, <1>7, <1>8, <1>9, <1>10, <1>11,
           <1>12, <1>13, <1>15, <1>16, <1>17, <1>14 DEF Next, Execute

\* Only the step that tries the flock turns a cycle away, and the file it tries
\* is then locked by another worker.
LEMMA RefusalStep ==
    ASSUME TypeOK, FilesAreOpen, OwnersAreBusy, [Next]_vars,
           NEW w \in Worker, at[w] = "flock", at'[w] = "refused"
    PROVE  \E v \in Worker \ {w} : at[v] \in Holding
<1>1. Flock(w)
  <2>1. at' # at /\ at' \in [Worker -> Places]
    BY TypeStep DEF TypeOK
  <2>2. ASSUME NEW v \in Worker, v # w, Execute(v) PROVE at'[w] = at[w]
    BY <2>2 DEF Execute, ReadInfo, Purge, Open, Flock, Enqueue, WriteInfo, Context, Exec,
                Unlock, Unlink, Dequeue, Step, TypeOK
  <2>3. ASSUME NEW v \in Worker, NEW j \in Job, Fire(v, j) PROVE at'[w] # "refused"
    BY <2>3 DEF Fire, Step, TypeOK
  <2>4. ASSUME NEW v \in Worker, DequeueFails(v) PROVE at'[w] = at[w]
    BY <2>4 DEF DequeueFails, Step, TypeOK
  <2>5. ASSUME NEW j \in Job, Unschedule(j) PROVE FALSE BY <2>1, <2>5 DEF Unschedule
  <2>6. ASSUME NEW i \in Inode, Age(i) PROVE FALSE BY <2>1, <2>6 DEF Age
  <2>7. ASSUME Restart PROVE FALSE BY <2>7 DEF Restart
  <2>8. Execute(w)
    BY <2>1, <2>2, <2>3, <2>4, <2>5, <2>6, <2>7 DEF Next, vars
  <2> QED BY <2>8 DEF Execute, ReadInfo, Purge, Open, Enqueue, WriteInfo, Context, Exec,
                      Unlock, Unlink, Dequeue, Step, TypeOK
<1>2. file[w] \in Inode BY DEF FilesAreOpen
<1>3. owner[file[w]] # Nobody
  <2> SUFFICES ASSUME owner[file[w]] = Nobody PROVE FALSE
      OBVIOUS
  <2> QED BY <1>1 DEF Flock, Step, TypeOK
<1>4. owner[file[w]] \in Worker BY <1>2, <1>3 DEF TypeOK
<1>5. owner[file[w]] # w BY <1>2 DEF OwnersAreBusy, Holding
<1> QED BY <1>2, <1>4, <1>5 DEF OwnersAreBusy

\* Whatever fires, fails, ages or restarts, a cycle is turned away only while
\* another one is in progress.
THEOREM LockIsGivenBack == Spec => RefusedOnlyIfBusy
<1>1. Init => TypeOK /\ FilesAreOpen /\ OwnersAreBusy
      BY CycleLockAssumption
      DEF Init, TypeOK, FilesAreOpen, OwnersAreBusy, Info, Places, Holding
<1>2. TypeOK /\ FilesAreOpen /\ OwnersAreBusy /\ [Next]_vars
        => [\A w \in Worker : at[w] = "flock" /\ at'[w] = "refused"
               => \E v \in Worker \ {w} : at[v] \in Holding]_vars
      BY RefusalStep
<1> QED BY <1>1, <1>2, TypeStep, OwnersStep, PTL DEF Spec, RefusedOnlyIfBusy
==============================================================================
