---------------------------- MODULE MCBackground -----------------------------
(***************************************************************************)
(* Automation, Upkeep, Vault, Terminal and Activity side by side.  They    *)
(* share no state, so the first state says which moves: one of the modules *)
(* or a part of it.  The vault's editor is at work where calls of AddVault *)
(* do not overlap.                                                         *)
(***************************************************************************)
EXTENDS Automation, Upkeep, Vault, Terminal, Activity, TLC

CONSTANTS
    event, yes, no, loud, quiet, starts, ends, stops

VARIABLE focus

vars == <<automationVars, upkeepVars, vaultVars, terminalVars, activityVars, focus>>

\* One event, that all listen to, with two kinds of meta of which the rules accept one.
OneEvent == [t \in Trigger |-> event]

OneRule == [t \in Trigger |-> {yes}]

PollsRaise == [p \in Poll |-> event]

FlowsStart == [f \in Flow |-> {<<event, yes>>}]

\* A session with output enough to wrap the ring, and one that only takes a place.
OneLoud == [s \in {loud, quiet} |-> IF s = loud THEN MaxChunk ELSE 0]

\* A hook for each event of a tool's turn.
OneTurn == [h \in {starts, ends, stops} |->
    CASE h = starts -> "tool_start" [] h = ends -> "tool_end" [] h = stops -> "stop"]

Symmetric == Permutations(Dispatch) \cup Permutations(Keeper) \cup Permutations(Dir)

Init ==
    /\ focus \in {"triggers", "flows", "ack", "usage", "locks", "vault", "editor", "terminal",
                  "activity"}
    /\ AutomationInit
    /\ UpkeepInit
    /\ VaultInit
    /\ TerminalInit
    /\ ActivityInit
    /\ focus \notin {"vault", "editor"} => file = [p \in Dir |-> 0]

Next ==
    /\ \/ /\ focus \in {"triggers", "flows"}
          /\ AutomationNext
          /\ IF focus = "flows" THEN polls' = polls ELSE flows' = flows
          /\ UNCHANGED <<upkeepVars, vaultVars, terminalVars, activityVars>>
       \/ /\ focus \in {"vault", "editor"}
          /\ VaultNext
          /\ IF focus = "editor" THEN ~overlapped' ELSE edit' = edit
          /\ UNCHANGED <<automationVars, upkeepVars, terminalVars, activityVars>>
       \/ /\ focus = "terminal"
          /\ TerminalNext
          /\ UNCHANGED <<automationVars, upkeepVars, vaultVars, activityVars>>
       \/ /\ focus = "activity"
          /\ ActivityNext
          /\ UNCHANGED <<automationVars, upkeepVars, vaultVars, terminalVars>>
       \/ /\ focus \in {"ack", "usage", "locks"}
          /\ UpkeepNext
          /\ focus # "ack" => ackVars' = ackVars
          /\ IF focus = "usage" THEN time' = time ELSE tokenVars' = tokenVars
          /\ focus # "locks" => locks' = locks
          /\ UNCHANGED <<automationVars, vaultVars, terminalVars, activityVars>>
    /\ UNCHANGED focus

Spec == Init /\ [][Next]_vars

\* The values that triggers, polls, workflows, late tasks, usage records, locks,
\* the documents of a vault, terminals and their viewers, sessions and their streams
\* may have.
BackgroundTypeOK ==
    AutomationTypeOK /\ UpkeepTypeOK /\ VaultTypeOK /\ TerminalTypeOK /\ ActivityTypeOK

\* Who watches sees what there is: a terminal's viewer its output in order
\* (pty.go:139), a browser the sessions of agents as they are (detector.go:67).
WatchersFollow == OutputInOrder /\ ActivityFollows
==============================================================================
