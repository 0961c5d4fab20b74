------------------------------ MODULE MCSociety ------------------------------
(***************************************************************************)
(* Directory, Conversations, Quotas, Memories and Chat side by side.  They *)
(* share no state, so the first state says which of them moves; the        *)
(* directory moves either with executives registering or with messages     *)
(* being sent.                                                             *)
(***************************************************************************)
EXTENDS Directory, Conversations, Quotas, Memories, Chat, TLC

CONSTANTS ann, bob, leaders, bot, user, proj

VARIABLE focus

vars == <<directoryVars, conversationVars, quotaVars, memoryVars, chatVars, focus>>

\* ann may report to bob.
Reporting == [a \in {ann, bob} |-> {bob} \ {a}]

\* An agent and a dashboard user of one project.
OneHome == [w \in {bot, user} |-> proj]

TwoScopes == [w \in {bot, user} |-> {IF w = bot THEN "agent" ELSE "project", "global"}]

Symmetric == Permutations(Talker) \cup Permutations(Value)

Init ==
    /\ focus \in {"leadership", "sending", "conversations", "quotas", "memories", "chat"}
    /\ DirectoryInit
    /\ ConversationInit
    /\ QuotaInit
    /\ MemoryInit
    /\ ChatInit

OnlyLeadership ==
    /\ <<channel, elevation, sent>>' = <<channel, elevation, sent>>
    /\ \A a \in Agent : desk'[a] \in {AtRest} \cup Registering

Next ==
    /\ \/ /\ focus \in {"leadership", "sending"}
          /\ DirectoryNext
          /\ focus = "leadership" => OnlyLeadership
          /\ focus = "sending" => lead' = lead
          /\ UNCHANGED <<conversationVars, quotaVars, memoryVars, chatVars>>
       \/ /\ focus = "conversations"
          /\ ConversationNext
          /\ UNCHANGED <<directoryVars, quotaVars, memoryVars, chatVars>>
       \/ /\ focus = "quotas"
          /\ QuotaNext
          /\ UNCHANGED <<directoryVars, conversationVars, memoryVars, chatVars>>
       \/ /\ focus = "memories"
          /\ MemoryNext
          /\ UNCHANGED <<directoryVars, conversationVars, quotaVars, chatVars>>
       \/ /\ focus = "chat"
          /\ ChatNext
          /\ UNCHANGED <<directoryVars, conversationVars, quotaVars, memoryVars>>
    /\ UNCHANGED focus

Spec == Init /\ [][Next]_vars

\* The values that agents, teams, messages, conversations, quotas, memories, chat rows
\* and chat views may have.
SocietyTypeOK ==
    DirectoryTypeOK /\ ConversationTypeOK /\ QuotaTypeOK /\ MemoryTypeOK /\ ChatTypeOK

\* What counts as read was there to be seen: what get_conversation_messages marks was
\* shown (handlers.go:627), and what a chat view's cursor has passed is shown, but for
\* what the view was bound to pass over (chat.go:120).
NothingSkipped == ReadWasShown /\ NothingBetween
==============================================================================
