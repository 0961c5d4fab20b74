----------------------------- MODULE TaskStatus ------------------------------
(***************************************************************************)
(* The statuses of a task and the table of moves between them              *)
(* (internal/db/tasks.go).                                                 *)
(***************************************************************************)

Status == {"pending", "accepted", "in-progress", "blocked", "done", "cancelled"}

\* Not dispatched yet, or removed for good: an identifier is never reused.
Missing == {"absent", "deleted"}

Terminal == {"done", "cancelled"}

\* A bug that lets an accepted task be claimed once more.
MutReclaim ==
    [s \in Status |->
        CASE s = "pending"     -> {"accepted", "in-progress", "done", "cancelled"}
          [] s = "accepted"    -> {"accepted", "in-progress", "done", "cancelled"}
          [] s = "in-progress" -> {"done", "blocked", "cancelled"}
          [] s = "blocked"     -> {"pending", "in-progress", "done", "cancelled"}
          [] OTHER             -> {"cancelled"}]

\* Where a task may go from each status.
ValidTransitions ==
    [s \in Status |->
        CASE s = "pending"     -> {"accepted", "in-progress", "done", "cancelled"}
          [] s = "accepted"    -> {"in-progress", "done", "cancelled"}
          [] s = "in-progress" -> {"done", "blocked", "cancelled"}
          [] s = "blocked"     -> {"pending", "in-progress", "done", "cancelled"}
          [] s = "done"        -> {"cancelled"}
          [] s = "cancelled"   -> {}]
==============================================================================
