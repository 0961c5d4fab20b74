----------------------------- MODULE MCCycleLock -----------------------------
(* Instances of CycleLock: two jobs of an agent, in one project or in two. *)
EXTENDS CycleLock

CONSTANTS j1, j2, p1, p2

OneProject == {[j \in Job |-> p1]}

OneOrTwo == OneProject \cup {[j \in Job |-> IF j = j1 THEN p1 ELSE p2]}
==============================================================================
