-------------------------------- MODULE Edits ---------------------------------
(***************************************************************************)
(* Edits of a row that leave what they are not given: a call names some    *)
(* columns, the others stay (the nil arguments of UpdateTaskFields in      *)
(* tasks.go and of UpdateGoal in goals.go, the options of RegisterProfile  *)
(* in profiles.go).                                                        *)
(***************************************************************************)

\* A column as it is asked for, or else as it was read.
Column(ask, old, col) == IF col \in DOMAIN ask THEN ask[col] ELSE old[col]

\* What was asked for last of each column.
Merged(ask, before) ==
    [col \in DOMAIN ask \cup DOMAIN before |-> Column(ask, before, col)]
==============================================================================
