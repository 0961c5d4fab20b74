------------------------------ MODULE MCWorkflow -----------------------------
(* Instances of Workflow: every graph on a few nodes. *)
EXTENDS Workflow

CONSTANTS t, a, b, c, ghost

\* Cycles, edges back into the trigger and unreachable nodes included.
On(S) == SUBSET {e \in S \X S : e[1] # e[2]}

\* A deleted node may have left its edges behind.
AllGraphs == On({t, a, b, c}) \cup On({t, a, ghost})
==============================================================================
