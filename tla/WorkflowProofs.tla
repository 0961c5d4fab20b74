---------------------------- MODULE WorkflowProofs ---------------------------
(***************************************************************************)
(* Proofs about Workflow, for any set of nodes and any graphs.             *)
(***************************************************************************)
EXTENDS Workflow, TLAPS

\* A goroutine belongs to a node whose parents have all completed.
Started ==
    \A n \in Node : go[n] # "idle" => n \in Known /\ Parents(n) \subseteq completed

\* Between two rounds nothing is left over, and none of them has failed.
Rounds ==
    /\ pc # "examine" => rest = {} /\ \A n \in Node : go[n] = "idle"
    /\ pc = "take" => ~failing
    /\ pc # "done" => status = "running"
    /\ status = "completed" => ~failing /\ queue = <<>>

Queued(p) == \E i \in 1 .. Len(queue) : queue[i] = p

\* A node that could run has run, is about to, or hangs on a completed node the
\* engine has yet to look downstream of.
Attended(n) ==
    n \in completed \/ failing \/ go[n] # "idle" \/ n \in rest
      \/ \E p \in Parents(n) : Queued(p)

Runnable(n) == Parents(n) # {} /\ Parents(n) \subseteq completed

NoneForgotten == \A n \in Known \ {Trigger} : Runnable(n) => Attended(n)

-----------------------------------------------------------------------------
(***************************************************************************)
(* Type correctness, and parents first.                                    *)
(***************************************************************************)

Ordered == TypeOK /\ Started /\ ParentsFirst

\* The first state is ordered.
LEMMA OrderedInit == Init => Ordered
<1> SUFFICES ASSUME Init PROVE Ordered
  OBVIOUS
<1>1. TypeOK
  <2>1. queue \in Seq(Known) /\ completed \subseteq Known
    BY WorkflowAssumption DEF Init
  <2>2. ran \in [Node -> Nat]
    BY DEF Init
  <2>3. QED
    BY <2>1, <2>2 DEF Init, TypeOK
<1>2. Started /\ ParentsFirst
  BY DEF Init, Started, ParentsFirst
<1>3. QED
  BY <1>1, <1>2 DEF Ordered

\* Completed nodes stay completed and the graph stays as it is: a step that
\* starts and records nothing keeps the order.
LEMMA OrderKept ==
  ASSUME Started, ParentsFirst, edges' = edges, completed \subseteq completed',
         \A n \in Node : go'[n] = "idle" \/ go[n] # "idle",
         \A n \in Node : ran'[n] > 0 => ran[n] > 0 \/ go[n] # "idle"
  PROVE  Started' /\ ParentsFirst'
<1>1. \A n \in Node : Parents(n)' = Parents(n)
  BY DEF Parents
<1>2. QED
  BY <1>1 DEF Started, ParentsFirst

\* A step of the engine keeps the order.
LEMMA EngineOrdered ==
  ASSUME Ordered, Engine
  PROVE  Ordered'
<1> USE DEF Ordered
<1>1. CASE Take
  <2>1. queue \in Seq(Known) /\ queue # <<>> /\ Tail(queue) \in Seq(Known)
    BY <1>1 DEF Take, TypeOK
  <2>2. TypeOK'
    BY <1>1, <2>1 DEF Take, TypeOK, Children
  <2>3. QED
    BY <1>1, <2>2, OrderKept DEF Take
<1>2. CASE Complete
  <2>1. TypeOK'
    BY <1>2 DEF Complete, Finish, TypeOK
  <2>2. QED
    BY <1>2, <2>1, OrderKept DEF Complete
<1>3. CASE Wait
  <2>1. TypeOK'
    BY <1>3 DEF Wait, Finish, TypeOK
  <2>2. QED
    BY <1>3, <2>1, OrderKept DEF Wait
<1>4. ASSUME NEW n \in Node, Examine(n) PROVE Ordered'
  <2>1. TypeOK'
    BY <1>4 DEF Examine, TypeOK
  <2>2. \A m \in Node : Parents(m)' = Parents(m)
    BY <1>4 DEF Examine, Parents
  <2>3. ParentsFirst'
    BY <1>4, <2>2 DEF Examine, ParentsFirst
  <2>4. Started'
    BY <1>4, <2>2 DEF Examine, Started, Ready, TypeOK
  <2>5. QED
    BY <2>1, <2>3, <2>4
<1>5. QED
  BY <1>1, <1>2, <1>3, <1>4 DEF Engine

\* A step of a goroutine keeps the order.
LEMMA GoroutineOrdered ==
  ASSUME Ordered, NEW n \in Node, Goroutine(n)
  PROVE  Ordered'
<1> USE DEF Ordered
<1>1. CASE CreateNodeRun(n)
  <2>1. TypeOK'
    <3>1. ran' \in [Node -> Nat]
      BY <1>1 DEF CreateNodeRun, TypeOK
    <3>2. go' \in [Node -> {"idle", "create", "execute", "complete"}] /\ failing' \in BOOLEAN
      BY <1>1 DEF CreateNodeRun, Fail, TypeOK
    <3>3. QED
      BY <1>1, <3>1, <3>2 DEF CreateNodeRun, TypeOK
  <2>2. \A m \in Node : go'[m] = "idle" \/ go[m] # "idle"
    BY <1>1 DEF CreateNodeRun, Fail, TypeOK
  <2>3. \A m \in Node : ran'[m] > 0 => ran[m] > 0 \/ go[m] # "idle"
    BY <1>1 DEF CreateNodeRun, TypeOK
  <2>4. QED
    BY <1>1, <2>1, <2>2, <2>3, OrderKept DEF CreateNodeRun
<1>2. CASE ExecuteNode(n)
  <2>1. TypeOK'
    BY <1>2 DEF ExecuteNode, Fail, TypeOK
  <2>2. \A m \in Node : go'[m] = "idle" \/ go[m] # "idle"
    BY <1>2 DEF ExecuteNode, Fail, TypeOK
  <2>3. QED
    BY <1>2, <2>1, <2>2, OrderKept DEF ExecuteNode
<1>3. CASE CompleteNode(n)
  <2>1. n \in Known
    BY <1>3 DEF CompleteNode, Started
  <2>2. TypeOK'
    BY <1>3, <2>1 DEF CompleteNode, TypeOK
  <2>3. \A m \in Node : go'[m] = "idle" \/ go[m] # "idle"
    BY <1>3 DEF CompleteNode, TypeOK
  <2>4. QED
    BY <1>3, <2>2, <2>3, OrderKept DEF CompleteNode
<1>4. QED
  BY <1>1, <1>2, <1>3 DEF Goroutine

\* Every step, and a stutter, keeps the order.
LEMMA OrderedStep == Ordered /\ [Next]_vars => Ordered'
<1> SUFFICES ASSUME Ordered, [Next]_vars PROVE Ordered'
  OBVIOUS
<1>1. CASE Stop
  <2>1. TypeOK'
    BY <1>1 DEF Stop, TypeOK, Ordered
  <2>2. QED
    BY <1>1, <2>1, OrderKept DEF Stop, Ordered
<1>2. CASE UNCHANGED vars
  <2>1. TypeOK'
    BY <1>2 DEF vars, TypeOK, Ordered
  <2>2. QED
    BY <1>2, <2>1, OrderKept DEF vars, Ordered
<1>3. QED
  BY <1>1, <1>2, EngineOrdered, GoroutineOrdered DEF Next

\* The engine's state keeps its shape on every graph; only nodes of the workflow
\* are ever queued or completed.
THEOREM TypeCorrect == Spec => []TypeOK
<1>1. Ordered => TypeOK
  BY DEF Ordered
<1>2. QED
  BY <1>1, OrderedInit, OrderedStep, PTL DEF Spec

\* On every graph, no node starts before all the nodes upstream have completed.
THEOREM ParentsComplete == Spec => []ParentsFirst
<1>1. Ordered => ParentsFirst
  BY DEF Ordered
<1>2. QED
  BY <1>1, OrderedInit, OrderedStep, PTL DEF Spec

-----------------------------------------------------------------------------
(***************************************************************************)
(* A completed run is complete.                                            *)
(***************************************************************************)

\* Each step keeps the rounds apart.
LEMMA RoundsStep == TypeOK /\ Rounds /\ [Next]_vars => Rounds'
<1> SUFFICES ASSUME TypeOK, Rounds, [Next]_vars PROVE Rounds'
  OBVIOUS
<1> USE DEF Rounds
<1>1. CASE Take
  BY <1>1 DEF Take, TypeOK
<1>2. CASE Complete
  BY <1>2 DEF Complete, Finish
<1>3. CASE Wait
  BY <1>3 DEF Wait, Finish
<1>4. ASSUME NEW n \in Node, Examine(n) PROVE Rounds'
  BY <1>4 DEF Examine
<1>5. ASSUME NEW n \in Node, Goroutine(n) PROVE Rounds'
  <2>1. pc = "examine" /\ pc' = pc /\ status' = status
    BY <1>5 DEF Goroutine, CreateNodeRun, ExecuteNode, CompleteNode, TypeOK
  <2>2. QED
    BY <2>1
<1>6. CASE Stop \/ UNCHANGED vars
  BY <1>6 DEF Stop, vars
<1>7. QED
  BY <1>1, <1>2, <1>3, <1>4, <1>5, <1>6 DEF Next, Engine

\* A step that drops no claim on a node's attention, and completes nothing,
\* forgets none.
LEMMA AttentionKept ==
  ASSUME NoneForgotten, edges' = edges, completed' = completed,
         failing => failing', rest \subseteq rest',
         \A n \in Node : go[n] # "idle" => go'[n] # "idle" \/ failing',
         \A p \in Node : Queued(p) => Queued(p)',
         Known \subseteq Node
  PROVE  NoneForgotten'
<1>1. \A n \in Node : Parents(n)' = Parents(n) /\ Parents(n) \subseteq Node
  BY DEF Parents
<1>2. QED
  BY <1>1 DEF NoneForgotten, Attended, Runnable

\* Taking a node from the queue puts what is downstream of it on the list.
LEMMA TakeForgetsNone ==
  ASSUME TypeOK, Rounds, NoneForgotten, Take
  PROVE  NoneForgotten'
<1>1. \A n \in Node : Parents(n)' = Parents(n) /\ Parents(n) \subseteq Node
  BY DEF Take, Parents
<1>2. rest = {} /\ \A n \in Node : go[n] = "idle" /\ ~failing
  BY DEF Rounds, Take
<1>3. ASSUME NEW n \in Known \ {Trigger}, Runnable(n)', n \notin completed
      PROVE  Attended(n)'
  <2>1. n \in Node /\ Runnable(n)
    BY <1>1, <1>3, WorkflowAssumption DEF Take, Runnable
  <2>2. PICK p \in Parents(n) : Queued(p)
    BY <1>2, <1>3, <2>1 DEF NoneForgotten, Attended
  <2>3. PICK i \in 1 .. Len(queue) : queue[i] = p
    BY <2>2 DEF Queued
  <2>4. CASE i = 1
    <3>1. n \in Children(Head(queue))
      BY <2>1, <2>2, <2>3, <2>4 DEF Children, Parents, TypeOK
    <3>2. QED
      BY <3>1 DEF Take, Attended
  <2>5. CASE i # 1
    <3>1. i - 1 \in 1 .. Len(Tail(queue)) /\ Tail(queue)[i - 1] = p
      BY <2>3, <2>5 DEF TypeOK
    <3>2. Queued(p)'
      BY <3>1 DEF Take, Queued
    <3>3. QED
      BY <1>1, <2>1, <2>2, <3>2 DEF Attended
  <2>6. QED
    BY <2>4, <2>5
<1>4. QED
  BY <1>3 DEF NoneForgotten, Attended, Take

\* Examining a node starts it if it can run.
LEMMA ExamineForgetsNone ==
  ASSUME TypeOK, NoneForgotten, NEW n \in Node, Examine(n)
  PROVE  NoneForgotten'
<1>1. \A m \in Node : Parents(m)' = Parents(m)
  BY DEF Examine, Parents
<1>2. \A p \in Node : Queued(p)' = Queued(p)
  BY DEF Examine, Queued
<1>3. ASSUME NEW m \in Known \ {Trigger}, Runnable(m)' PROVE Attended(m)'
  <2>1. m \in Node /\ Runnable(m) /\ Parents(m) \subseteq Node
    BY <1>1, <1>3, WorkflowAssumption DEF Examine, Runnable, Parents
  <2>2. CASE m = n
    BY <1>3, <2>1, <2>2 DEF Examine, Attended, Ready, Runnable, TypeOK
  <2>3. CASE m # n
    BY <1>1, <1>2, <2>1, <2>3 DEF NoneForgotten, Attended, Examine, TypeOK
  <2>4. QED
    BY <2>2, <2>3
<1>4. QED
  BY <1>3 DEF NoneForgotten

\* A node that completes is queued, for what is downstream of it.
LEMMA CompleteForgetsNone ==
  ASSUME TypeOK, NoneForgotten, NEW n \in Node, CompleteNode(n)
  PROVE  NoneForgotten'
<1>1. \A m \in Node : Parents(m)' = Parents(m)
  BY DEF CompleteNode, Parents
<1>2. \A p \in Node : p = n \/ Queued(p) => Queued(p)'
  <2>1. /\ queue \in Seq(Known)
        /\ queue' = Append(queue, n)
    BY DEF CompleteNode, TypeOK
  <2>2. Len(queue') = Len(queue) + 1 /\ queue'[Len(queue) + 1] = n
    BY <2>1
  <2>3. \A i \in 1 .. Len(queue) : i \in 1 .. Len(queue') /\ queue'[i] = queue[i]
    BY <2>1
  <2>4. Len(queue) + 1 \in 1 .. Len(queue')
    BY <2>1, <2>2
  <2>5. QED
    BY <2>2, <2>3, <2>4 DEF Queued
<1>3. ASSUME NEW m \in Known \ {Trigger}, Runnable(m)' PROVE Attended(m)'
  <2>1. m \in Node /\ Parents(m) \subseteq Node /\ Parents(m) # {} /\ Parents(m) \subseteq completed \cup {n}
    BY <1>1, <1>3, WorkflowAssumption DEF CompleteNode, Runnable, Parents
  <2>2. CASE n \in Parents(m)
    BY <1>1, <1>2, <2>1, <2>2 DEF Attended
  <2>3. CASE m = n
    BY <2>3 DEF CompleteNode, Attended
  <2>4. CASE n \notin Parents(m) /\ m # n
    <3>1. Attended(m)
      BY <2>1, <2>4 DEF NoneForgotten, Runnable
    <3>2. QED
      BY <1>1, <1>2, <2>1, <2>4, <3>1 DEF Attended, CompleteNode, TypeOK
  <2>5. QED
    BY <2>2, <2>3, <2>4
<1>4. QED
  BY <1>3 DEF NoneForgotten

Kept == Ordered /\ Rounds /\ NoneForgotten

\* No step forgets a node that could run.
LEMMA KeptStep == Kept /\ [Next]_vars => Kept'
<1> SUFFICES ASSUME Ordered, Rounds, NoneForgotten, TypeOK, [Next]_vars
             PROVE  NoneForgotten'
  BY OrderedStep, RoundsStep DEF Kept, Ordered
<1>1. CASE Take
  BY <1>1, TakeForgetsNone
<1>2. ASSUME NEW n \in Node, Examine(n) PROVE NoneForgotten'
  BY <1>2, ExamineForgetsNone
<1>3. ASSUME NEW n \in Node, CompleteNode(n) PROVE NoneForgotten'
  BY <1>3, CompleteForgetsNone
<1>4. CASE Complete
  BY <1>4, AttentionKept, WorkflowAssumption DEF Complete, Queued
<1>5. CASE Wait
  BY <1>5, AttentionKept, WorkflowAssumption DEF Wait, Queued
<1>6. ASSUME NEW n \in Node, CreateNodeRun(n) \/ ExecuteNode(n) PROVE NoneForgotten'
  <2>1. \A m \in Node : go[m] # "idle" => go'[m] # "idle" \/ failing'
    BY <1>6 DEF CreateNodeRun, ExecuteNode, Fail, TypeOK
  <2>2. failing => failing'
    BY <1>6 DEF CreateNodeRun, ExecuteNode, Fail
  <2>3. UNCHANGED <<edges, completed, rest, queue>>
    BY <1>6 DEF CreateNodeRun, ExecuteNode
  <2>4. QED
    BY <2>1, <2>2, <2>3, AttentionKept, WorkflowAssumption DEF Queued
<1>7. CASE Stop \/ UNCHANGED vars
  BY <1>7, AttentionKept, WorkflowAssumption DEF Stop, vars, Queued
<1>8. QED
  BY <1>1, <1>2, <1>3, <1>4, <1>5, <1>6, <1>7 DEF Next, Engine, Goroutine

\* On every graph, a run recorded as completed had no failing node and left out
\* none that could run.
THEOREM CompletedCorrect == Spec => []CompletedIsComplete
<1>1. Init => Kept
  <2>1. ASSUME Init PROVE Rounds
    BY <2>1 DEF Init, Rounds
  <2>2. ASSUME Init PROVE NoneForgotten
    <3>1. Queued(Trigger)
      BY <2>2 DEF Init, Queued
    <3>2. QED
      BY <2>2, <3>1 DEF Init, NoneForgotten, Runnable, Attended
  <2>3. QED
    BY <2>1, <2>2, OrderedInit DEF Kept
<1>2. Kept => CompletedIsComplete
  <2>1. SUFFICES ASSUME Kept, status = "completed",
                        NEW n \in Known \ {Trigger}, Parents(n) # {}, Parents(n) \subseteq completed
                 PROVE  ~failing /\ n \in completed
    BY DEF CompletedIsComplete, Kept, Rounds
  <2>2. queue = <<>> /\ ~failing /\ pc = "done"
    BY <2>1 DEF Kept, Rounds, Ordered, TypeOK
  <2>3. rest = {} /\ go[n] = "idle"
    BY <2>1, <2>2, WorkflowAssumption DEF Kept, Rounds
  <2>4. \A p : ~Queued(p)
    BY <2>2 DEF Queued
  <2>5. QED
    BY <2>1, <2>2, <2>3, <2>4 DEF Kept, NoneForgotten, Runnable, Attended
<1>3. QED
  BY <1>1, <1>2, KeptStep, PTL DEF Spec
==============================================================================
