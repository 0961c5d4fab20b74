------------------------------- MODULE Workflow ------------------------------
(***************************************************************************)
(* One run of a workflow graph (internal/workflow/engine.go).              *)
(*                                                                         *)
(* The engine takes a node from its queue, examines the nodes downstream   *)
(* of it one after the other, starts a goroutine for each whose parents    *)
(* have all completed, and waits for the goroutines.  A goroutine that     *)
(* succeeds marks its node completed and queues it, under a mutex that the *)
(* engine does not take to examine the next node: what it sees of the      *)
(* nodes just started is a race, and the runtime may stop the relay for it.*)
(***************************************************************************)
EXTENDS Naturals, Sequences

CONSTANTS
    Node,    \* the node ids the nodes and the edges of a workflow name
    Known,   \* the ids that have a node
    Trigger, \* the entry node
    Graphs,  \* the sets of edges a workflow may have
    MayFail  \* BOOLEAN: writes may fail and the relay may stop during the run

ASSUME WorkflowAssumption ==
    /\ Known \subseteq Node
    /\ Trigger \in Known
    /\ Graphs \subseteq SUBSET (Node \X Node)
    /\ MayFail \in BOOLEAN

VARIABLES
    edges,     \* the workflow's edges
    status,    \* workflow_runs.status
    pc,        \* where executeBFS is: taking a node, examining, or done
    queue,     \* the completed nodes whose downstream nodes are not examined yet
    rest,      \* the downstream nodes it has yet to examine
    go,        \* go[n]: where the goroutine of node n is
    completed, \* the nodes that have completed
    failing,   \* a node failed in this round
    ran,       \* ran[n]: the rows of node n in workflow_node_runs
    up         \* whether the relay runs

vars == <<edges, status, pc, queue, rest, go, completed, failing, ran, up>>

TypeOK ==
    /\ edges \in Graphs
    /\ status \in {"running", "completed", "failed"}
    /\ pc \in {"take", "examine", "done"}
    /\ queue \in Seq(Known)
    /\ rest \subseteq Node
    /\ go \in [Node -> {"idle", "create", "execute", "complete"}]
    /\ completed \subseteq Known
    /\ failing \in BOOLEAN
    /\ ran \in [Node -> Nat]
    /\ up \in BOOLEAN

Children(n) == {m \in Node : <<n, m>> \in edges}

Parents(n) == {m \in Node : <<m, n>> \in edges}

\* The run row is there and the trigger node has completed, whether or not its
\* own row could be written.
Init ==
    /\ edges \in Graphs
    /\ status = "running"
    /\ pc = "take"
    /\ queue = <<Trigger>>
    /\ rest = {}
    /\ go = [n \in Node |-> "idle"]
    /\ completed = {Trigger}
    /\ failing = FALSE
    /\ \E rows \in IF MayFail THEN {0, 1} ELSE {1} :
           ran = [n \in Node |-> IF n = Trigger THEN rows ELSE 0]
    /\ up = TRUE

-----------------------------------------------------------------------------
(***************************************************************************)
(* The engine: executeBFS.                                                 *)
(***************************************************************************)

\* FinishWorkflowRun, the end of Execute, drops the error of its write.
Finish(outcome) ==
    /\ pc' = "done"
    /\ status' = outcome \/ (MayFail /\ UNCHANGED status)

Take ==
    /\ pc = "take"
    /\ queue # <<>>
    /\ queue' = Tail(queue)
    /\ rest' = Children(Head(queue))
    /\ pc' = "examine"
    /\ UNCHANGED <<edges, status, go, completed, failing, ran, up>>

Complete ==
    /\ pc = "take"
    /\ queue = <<>>
    /\ Finish("completed")
    /\ UNCHANGED <<edges, queue, rest, go, completed, failing, ran, up>>

\* A bug that starts a node as soon as one of its parents has completed.
MutReadyOne(n) == n \in Known /\ Parents(n) \cap completed # {}

\* A bug that takes an edge to a deleted node for an edge to a node.
MutReadyGhost(n) == Parents(n) \subseteq completed

\* All parents have completed, and the id has a node.
Ready(n) == n \in Known /\ Parents(n) \subseteq completed

Examine(n) ==
    /\ pc = "examine"
    /\ n \in rest
    /\ rest' = rest \ {n}
    /\ go' = IF Ready(n) THEN [go EXCEPT ![n] = "create"] ELSE go
    /\ UNCHANGED <<edges, status, pc, queue, completed, failing, ran, up>>

\* A bug that forgets to see whether a goroutine failed.
MutWait ==
    /\ pc = "examine"
    /\ rest = {}
    /\ \A n \in Node : go[n] = "idle"
    /\ pc' = "take"
    /\ UNCHANGED <<edges, status, queue, rest, go, completed, failing, ran, up>>

\* wg.Wait: the first error ends the run, once the other goroutines are through.
Wait ==
    /\ pc = "examine"
    /\ rest = {}
    /\ \A n \in Node : go[n] = "idle"
    /\ IF failing THEN Finish("failed") ELSE pc' = "take" /\ UNCHANGED status
    /\ UNCHANGED <<edges, queue, rest, go, completed, failing, ran, up>>

-----------------------------------------------------------------------------
(***************************************************************************)
(* The goroutine of a node.                                                *)
(***************************************************************************)

\* A bug that returns on an error without telling the wait group.
MutFail(n) ==
    /\ failing' = TRUE
    /\ go' = [go EXCEPT ![n] = "lost"]

Fail(n) ==
    /\ failing' = TRUE
    /\ go' = [go EXCEPT ![n] = "idle"]

CreateNodeRun(n) ==
    /\ go[n] = "create"
    /\ \/ /\ ran' = [ran EXCEPT ![n] = @ + 1]
          /\ go' = [go EXCEPT ![n] = "execute"]
          /\ UNCHANGED failing
       \/ MayFail /\ Fail(n) /\ UNCHANGED ran
    /\ UNCHANGED <<edges, status, pc, queue, rest, completed, up>>

\* Conditions and actions may fail; any other type of node always does, and a
\* trigger node is one when an edge leads back to it.
ExecuteNode(n) ==
    /\ go[n] = "execute"
    /\ \/ /\ n # Trigger
          /\ go' = [go EXCEPT ![n] = "complete"]
          /\ UNCHANGED failing
       \/ Fail(n)
    /\ UNCHANGED <<edges, status, pc, queue, rest, completed, ran, up>>

CompleteNode(n) ==
    /\ go[n] = "complete"
    /\ completed' = completed \cup {n}
    /\ queue' = Append(queue, n)
    /\ go' = [go EXCEPT ![n] = "idle"]
    /\ UNCHANGED <<edges, status, pc, rest, failing, ran, up>>

\* The relay stops for any reason: a fatal "concurrent map read and map write"
\* between Examine and CompleteNode is one.  Nothing resumes the run.
Stop ==
    /\ MayFail
    /\ up' = FALSE
    /\ UNCHANGED <<edges, status, pc, queue, rest, go, completed, failing, ran>>

-----------------------------------------------------------------------------

Engine == Take \/ Complete \/ Wait \/ \E n \in Node : Examine(n)

Goroutine(n) == CreateNodeRun(n) \/ ExecuteNode(n) \/ CompleteNode(n)

Next == up /\ (Engine \/ Stop \/ \E n \in Node : Goroutine(n))

Spec == Init /\ [][Next]_vars

\* The engine and its goroutines are scheduled, and an action returns.
FairSpec ==
    /\ Spec
    /\ WF_vars(up /\ Engine)
    /\ \A n \in Node : WF_vars(up /\ Goroutine(n))

-----------------------------------------------------------------------------
(***************************************************************************)
(* Properties.                                                             *)
(***************************************************************************)

\* Whatever the graph and whatever the race lets the engine see, no node starts
\* before all the nodes upstream of it have completed.
ParentsFirst == \A n \in Node \ {Trigger} : ran[n] > 0 => Parents(n) \subseteq completed

\* A run recorded as completed had no failing node and left out none that could
\* run: the engine looks at a node again when its last parent completes.
CompletedIsComplete ==
    status = "completed" =>
        /\ ~failing
        /\ \A n \in Known \ {Trigger} :
               Parents(n) # {} /\ Parents(n) \subseteq completed => n \in completed

\* The engine comes to an end on every graph, cycles included, unless the relay
\* stops.
Ends == <>(pc = "done" \/ ~up)
==============================================================================
