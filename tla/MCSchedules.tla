----------------------------- MODULE MCSchedules -----------------------------
(* Instances of Schedules: one schedule name in two projects. *)
EXTENDS Schedules

CONSTANT shared

\* The id of POST /schedules leaves the project out.
SharedId == [k \in Key |-> shared]
==============================================================================
