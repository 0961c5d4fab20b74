------------------------------- MODULE MCSpawn -------------------------------
(* Instances of Spawn: one project, children with one profile. *)
EXTENDS Spawn

CONSTANTS c1, c2, p1, f1

OneProject == [c \in Child |-> p1]

OneProfile == [c \in Child |-> f1]

Singleton == [f \in Profile |-> 1]
==============================================================================
