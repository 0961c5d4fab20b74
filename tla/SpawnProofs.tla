----------------------------- MODULE SpawnProofs -----------------------------
(***************************************************************************)
(* Proofs about Spawn, for every number of children, projects, profiles,   *)
(* kills and restarts.                                                     *)
(***************************************************************************)
EXTENDS Spawn, FiniteSetTheorems, TLAPS

Busy(c) == run[c] \notin Unreserved \cup {"over"}

\* A child is in the map from its reservation until it is forgotten or killed,
\* and a kill takes it out only after it has cancelled it.
Tracked ==
    /\ \A c \in Child : Busy(c) /\ c \notin cancelled => c \in children
    /\ \A c \in children : Busy(c)
    /\ \A k \in Killer : kill[k].pc \in {"mark", "remove"} => kill[k].child \in cancelled

\* A child has a row only after it is in the map, and the reaper holds no ghost
\* that is tracked.
Reaped ==
    /\ \A c \in Child : run[c] \in Unreserved \cup {"reserved"} => row[c] = "none"
    /\ \A c \in reaper.list : row[c] # "none"
    /\ reaper.pc = "marking" => reaper.list \cap children = {}
    /\ DeadIsUntracked

\* The count Spawn takes under the lock never exceeds the limit.
Slots == \A p \in Project : Cardinality(InProject(p)) <= MaxPool

-----------------------------------------------------------------------------
\* An UPDATE of a row leaves a row, and counts a failed write at most.
LEMMA UpdateRowType ==
    ASSUME TypeOK, NEW c \in Child, NEW status \in Statuses, UpdateRow(c, status)
    PROVE  row' \in [Child -> Statuses] /\ faults' \in 0 .. MaxFaults
BY SpawnAssumption DEF TypeOK, UpdateRow

\* The state of a child and of its supervisor keeps its shape.
LEMMA ChildType ==
    ASSUME TypeOK, NEW c \in Child, CheckProfile(c) \/ Reserve(c) \/ Supervise(c) \/ OrphanExit(c)
    PROVE  TypeOK'
<1> USE DEF TypeOK, GoTo, Positions
<1>1. CASE CheckProfile(c) BY <1>1 DEF CheckProfile
<1>2. CASE Reserve(c) BY <1>2 DEF Reserve
<1>3. CASE Insert(c) BY <1>3, SpawnAssumption DEF Insert, Statuses
<1>4. CASE Start(c) BY <1>4 DEF Start
<1>5. CASE Exit(c) BY <1>5 DEF Exit
<1>6. CASE Record(c)
  <2>1. row' \in [Child -> Statuses] /\ faults' \in 0 .. MaxFaults
        BY <1>6, UpdateRowType DEF Record, Statuses
  <2> QED BY <1>6, <2>1 DEF Record
<1>7. CASE Forget(c) BY <1>7 DEF Forget
<1>8. CASE OrphanExit(c) BY <1>8 DEF OrphanExit
<1> QED BY <1>1, <1>2, <1>3, <1>4, <1>5, <1>6, <1>7, <1>8 DEF Supervise

\* So does the state of a kill.
LEMMA KillType ==
    ASSUME TypeOK, NEW k \in Killer, Killing(k) \/ \E c \in Child : KillLookup(k, c)
    PROVE  TypeOK'
<1>0. kill[k].pc # "idle" => kill[k] \in Kill BY DEF TypeOK, Idle
<1>1. CASE \E c \in Child : KillLookup(k, c)
      BY <1>1 DEF TypeOK, KillLookup, Kill
<1>2. CASE KillCancel(k)
      BY <1>0, <1>2 DEF TypeOK, KillCancel, Kill
<1>3. CASE KillMark(k)
  <2>1. kill[k].child \in Child BY <1>0, <1>3 DEF KillMark, Kill
  <2>2. row' \in [Child -> Statuses] /\ faults' \in 0 .. MaxFaults
        BY <1>3, <2>1, UpdateRowType DEF KillMark, Statuses
  <2> QED BY <1>0, <1>3, <2>2 DEF TypeOK, KillMark, Kill
<1>4. CASE KillRemove(k)
      BY <1>4 DEF TypeOK, KillRemove
<1> QED BY <1>1, <1>2, <1>3, <1>4 DEF Killing

\* So does the state of the reaper.
LEMMA ReapType ==
    ASSUME TypeOK, Reap
    PROVE  TypeOK'
<1>1. CASE ReapList BY <1>1 DEF TypeOK, ReapList, Reaper
<1>2. CASE ReapSnapshot BY <1>2 DEF TypeOK, ReapSnapshot, Reaper, Ghosts
<1>3. CASE ReapDone BY <1>3 DEF TypeOK, ReapDone, Reaper, Resting
<1>4. ASSUME NEW c \in Child, ReapMark(c) PROVE TypeOK'
  <2>1. row' \in [Child -> Statuses] /\ faults' \in 0 .. MaxFaults
        BY <1>4, UpdateRowType DEF ReapMark, Statuses
  <2> QED BY <1>4, <2>1 DEF TypeOK, ReapMark, Reaper
<1> QED BY <1>1, <1>2, <1>3, <1>4 DEF Reap

\* A restart leaves a well formed relay.
LEMMA RestartType ==
    ASSUME TypeOK, Restart
    PROVE  TypeOK'
BY SpawnAssumption DEF TypeOK, Restart, Positions, Resting, Reaper

\* Every step, and a stutter, keeps the types.
LEMMA TypeStep == TypeOK /\ [Next]_vars => TypeOK'
<1>1. TypeOK /\ UNCHANGED vars => TypeOK' BY DEF TypeOK, vars
<1> QED BY <1>1, ChildType, KillType, ReapType, RestartType DEF Next

\* Rows, map, kills and reaper keep their shape through every interleaving and
\* restart.
THEOREM TypeCorrect == Spec => []TypeOK
<1>1. Init => TypeOK
      BY SpawnAssumption DEF Init, TypeOK, Statuses, Positions, Resting, Reaper
<1> QED BY <1>1, TypeStep, PTL DEF Spec

-----------------------------------------------------------------------------
\* The map follows the children that are being supervised.
LEMMA TrackedStep == TypeOK /\ Tracked /\ [Next]_vars => Tracked'
<1> SUFFICES ASSUME TypeOK, Tracked, [Next]_vars PROVE Tracked'
    OBVIOUS
<1> USE DEF Tracked, Busy, Unreserved
<1>1. CASE UNCHANGED vars BY <1>1 DEF vars
<1>2. ASSUME NEW c \in Child, CheckProfile(c) PROVE Tracked'
      BY <1>2 DEF CheckProfile, GoTo, TypeOK
<1>3. ASSUME NEW c \in Child, Reserve(c) PROVE Tracked'
      BY <1>3 DEF Reserve, GoTo, TypeOK
<1>4. ASSUME NEW c \in Child, Insert(c) PROVE Tracked'
      BY <1>4 DEF Insert, GoTo, TypeOK
<1>5. ASSUME NEW c \in Child, Start(c) PROVE Tracked'
      BY <1>5 DEF Start, GoTo, TypeOK
<1>6. ASSUME NEW c \in Child, Exit(c) PROVE Tracked'
      BY <1>6 DEF Exit, GoTo, TypeOK
<1>7. ASSUME NEW c \in Child, Record(c) PROVE Tracked'
      BY <1>7 DEF Record, GoTo, TypeOK
<1>8. ASSUME NEW c \in Child, Forget(c) PROVE Tracked'
      BY <1>8 DEF Forget, GoTo, TypeOK
<1>9. ASSUME NEW c \in Child, OrphanExit(c) PROVE Tracked'
      BY <1>9 DEF OrphanExit
<1>10. ASSUME NEW k \in Killer, NEW c \in Child, KillLookup(k, c) PROVE Tracked'
      BY <1>10 DEF KillLookup, TypeOK
<1>11. ASSUME NEW k \in Killer, KillCancel(k) PROVE Tracked'
      BY <1>11 DEF KillCancel, TypeOK, Kill, Idle
<1>12. ASSUME NEW k \in Killer, KillMark(k) PROVE Tracked'
      BY <1>12 DEF KillMark, TypeOK, Kill, Idle
<1>13. ASSUME NEW k \in Killer, KillRemove(k) PROVE Tracked'
      BY <1>13 DEF KillRemove, TypeOK, Idle
<1>14. CASE Reap
      BY <1>14 DEF Reap, ReapList, ReapSnapshot, ReapDone, ReapMark
<1>15. CASE Restart
      BY <1>15 DEF Restart, TypeOK, Idle
<1> QED BY <1>1, <1>2, <1>3, <1>4, <1>5, <1>6, <1>7, <1>8, <1>9, <1>10, <1>11,
           <1>12, <1>13, <1>14, <1>15 DEF Next, Supervise, Killing

-----------------------------------------------------------------------------
\* The reaper's two reads are in the order that keeps it away from young children.
LEMMA ReapedStep == TypeOK /\ Tracked /\ Reaped /\ [Next]_vars => Reaped'
<1> SUFFICES ASSUME TypeOK, Tracked, Reaped, [Next]_vars PROVE Reaped'
    OBVIOUS
<1>0. \A c \in children : c \in Child /\ run[c] \notin Unreserved
      BY DEF TypeOK, Tracked, Busy
<1> USE DEF Reaped, DeadIsUntracked, Unreserved
<1>1. CASE UNCHANGED vars BY <1>1 DEF vars
<1>2. ASSUME NEW c \in Child, CheckProfile(c) PROVE Reaped'
      BY <1>2 DEF CheckProfile, GoTo, TypeOK
<1>3. ASSUME NEW c \in Child, Reserve(c) PROVE Reaped'
      BY <1>3 DEF Reserve, GoTo, TypeOK
<1>4. ASSUME NEW c \in Child, Insert(c) PROVE Reaped'
  <2>1. \A d \in Child : row'[d] = row[d] \/ (d = c /\ row'[d] = "running")
        BY <1>4 DEF Insert, TypeOK
  <2> QED BY <1>4, <2>1 DEF Insert, GoTo, TypeOK, Reaper
<1>5. ASSUME NEW c \in Child, Start(c) PROVE Reaped'
      BY <1>5 DEF Start, GoTo, TypeOK
<1>6. ASSUME NEW c \in Child, Exit(c) PROVE Reaped'
      BY <1>6 DEF Exit, GoTo, TypeOK
<1>7. ASSUME NEW c \in Child, Record(c) PROVE Reaped'
  <2>1. \A d \in Child : row'[d] = row[d] \/ (row[d] # "none" /\ row'[d] = "finished")
        BY <1>7 DEF Record, UpdateRow, TypeOK
  <2> QED BY <1>7, <2>1, <1>0 DEF Record, GoTo, TypeOK, Reaper
<1>8. ASSUME NEW c \in Child, Forget(c) PROVE Reaped'
      BY <1>8 DEF Forget, GoTo, TypeOK
<1>9. ASSUME NEW c \in Child, OrphanExit(c) PROVE Reaped'
      BY <1>9 DEF OrphanExit
<1>10. ASSUME NEW k \in Killer, NEW c \in Child, KillLookup(k, c) PROVE Reaped'
      BY <1>10 DEF KillLookup
<1>11. ASSUME NEW k \in Killer, KillCancel(k) PROVE Reaped'
      BY <1>11 DEF KillCancel
<1>12. ASSUME NEW k \in Killer, KillMark(k) PROVE Reaped'
  <2>1. kill[k].child \in Child BY <1>12 DEF KillMark, TypeOK, Kill, Idle
  <2>2. \A d \in Child : row'[d] = row[d] \/ (row[d] # "none" /\ row'[d] = "killed")
        BY <1>12, <2>1 DEF KillMark, UpdateRow, TypeOK
  <2> QED BY <1>12, <2>2, <1>0 DEF KillMark, TypeOK, Reaper
<1>13. ASSUME NEW k \in Killer, KillRemove(k) PROVE Reaped'
      BY <1>13 DEF KillRemove
<1>14. CASE ReapList BY <1>14 DEF ReapList
<1>15. CASE ReapSnapshot BY <1>15 DEF ReapSnapshot, Ghosts
<1>16. CASE ReapDone BY <1>16 DEF ReapDone, Resting
<1>17. ASSUME NEW c \in Child, ReapMark(c) PROVE Reaped'
  <2>1. \A d \in Child : row'[d] = row[d] \/ (d = c /\ row[d] # "none" /\ row'[d] = "dead")
        BY <1>17 DEF ReapMark, UpdateRow, TypeOK
  <2>2. c \notin children BY <1>17 DEF ReapMark
  <2>3. reaper'.list \subseteq reaper.list BY <1>17 DEF ReapMark, TypeOK, Reaper
  <2> QED BY <1>17, <2>1, <2>2, <2>3, <1>0 DEF ReapMark, TypeOK, Reaper
<1>18. CASE Restart BY <1>18 DEF Restart, TypeOK, Resting
<1> QED BY <1>1, <1>2, <1>3, <1>4, <1>5, <1>6, <1>7, <1>8, <1>9, <1>10, <1>11,
           <1>12, <1>13, <1>14, <1>15, <1>16, <1>17, <1>18
        DEF Next, Supervise, Killing, Reap

\* No child the manager tracks is ever written off by the reaper.
THEOREM ReaperCorrect == Spec => []DeadIsUntracked
<1>1. Init => Tracked /\ Reaped
      BY DEF Init, Tracked, Reaped, Busy, Unreserved, DeadIsUntracked, Resting, Idle
<1>2. Tracked /\ Reaped => DeadIsUntracked BY DEF Reaped
<1> QED BY <1>1, <1>2, TypeCorrect, TrackedStep, ReapedStep, PTL DEF Spec

-----------------------------------------------------------------------------
\* Only Spawn adds to a project's children, and only below the limit.
LEMMA SlotsStep == TypeOK /\ Slots /\ [Next]_vars => Slots'
<1> SUFFICES ASSUME TypeOK, Slots, [Next]_vars, NEW p \in Project
             PROVE  Cardinality(InProject(p)') <= MaxPool
    BY DEF Slots
<1>1. IsFiniteSet(InProject(p)) /\ Cardinality(InProject(p)) \in Nat
      BY SpawnAssumption, FS_Subset, FS_CardinalityType DEF InProject, TypeOK
<1>2. CASE children' \subseteq children
  <2>1. InProject(p)' \subseteq InProject(p) BY <1>2 DEF InProject
  <2>2. Cardinality(InProject(p)') <= Cardinality(InProject(p))
        BY <1>1, <2>1, FS_Subset
  <2>3. Cardinality(InProject(p)') \in Nat
        BY <1>1, <2>1, FS_Subset, FS_CardinalityType
  <2> QED BY <1>1, <2>2, <2>3, SpawnAssumption DEF Slots
<1>3. ASSUME NEW c \in Child, Reserve(c), HasRoom(c)
      PROVE  Cardinality(InProject(p)') <= MaxPool
  <2>1. children' = children \cup {c} BY <1>3 DEF Reserve
  <2>2. CASE ProjectOf[c] = p
    <3>1. InProject(p)' = InProject(p) \cup {c} BY <2>1, <2>2 DEF InProject
    <3>2. Cardinality(InProject(p)') <= Cardinality(InProject(p)) + 1
          BY <1>1, <3>1, FS_AddElement
    <3>3. Cardinality(InProject(p)) < MaxPool BY <1>3, <2>2 DEF HasRoom
    <3>4. Cardinality(InProject(p)') \in Nat
          BY <1>1, <3>1, FS_AddElement, FS_CardinalityType
    <3> QED BY <1>1, <3>2, <3>3, <3>4, SpawnAssumption
  <2>3. CASE ProjectOf[c] # p
    <3>1. InProject(p)' = InProject(p) BY <2>1, <2>3 DEF InProject
    <3> QED BY <3>1 DEF Slots
  <2> QED BY <2>2, <2>3
<1>4. children' \subseteq children \/ \E c \in Child : Reserve(c) /\ HasRoom(c)
      BY DEF Next, vars, CheckProfile, Reserve, Supervise, Insert, Start, Exit, Record,
             Forget, OrphanExit, Killing, KillLookup, KillCancel, KillMark, KillRemove,
             Reap, ReapList, ReapSnapshot, ReapDone, ReapMark, Restart
<1> QED BY <1>2, <1>3, <1>4

\* The processes of a project that nobody killed fit in its pool, whatever the
\* order of spawns, exits, kills, reaps and restarts.
THEOREM PoolCorrect == Spec => []PoolBound
<1>1. Init => Tracked
      BY DEF Init, Tracked, Busy, Unreserved, Idle
<1>2. Init => Slots
      BY FS_EmptySet, SpawnAssumption DEF Init, Slots, InProject
<1>3. TypeOK /\ Tracked /\ Slots => PoolBound
  <2> SUFFICES ASSUME TypeOK, Tracked, Slots, NEW p \in Project
               PROVE  Cardinality(Working(p)) <= MaxPool
      BY DEF PoolBound
  <2>1. Working(p) \subseteq InProject(p)
        BY DEF Working, InProject, Tracked, Busy, Unreserved
  <2>2. IsFiniteSet(InProject(p))
        BY SpawnAssumption, FS_Subset DEF InProject, TypeOK
  <2>3. Cardinality(Working(p)) <= Cardinality(InProject(p)) BY <2>1, <2>2, FS_Subset
  <2>4. Cardinality(Working(p)) \in Nat /\ Cardinality(InProject(p)) \in Nat
        BY <2>1, <2>2, FS_Subset, FS_CardinalityType
  <2> QED BY <2>3, <2>4, SpawnAssumption DEF Slots
<1> QED BY <1>1, <1>2, <1>3, TypeCorrect, TrackedStep, SlotsStep, PTL DEF Spec
==============================================================================
