---------------------------- MODULE Conversations ----------------------------
(***************************************************************************)
(* Conversations: who is in them, what is said, and what counts as read    *)
(* (internal/db/conversations.go, InsertMessage, and the conversation,     *)
(* send and mark_read handlers).                                           *)
(*                                                                         *)
(* A message is unread for whoever has no last_read_at as late as its      *)
(* created_at.  Both are taken before their statement runs, so what is     *)
(* compared is the order of the stamps: a conversation keeps its messages  *)
(* in that order, and each carries the agents with a later last_read_at.   *)
(***************************************************************************)
EXTENDS Naturals, Sequences, FiniteSets

CONSTANTS
    Talker, Conv,
    Page,       \* the limit of get_conversation_messages
    MaxMessages \* bound: messages of a conversation

ASSUME ConversationAssumption == {Page, MaxMessages} \subseteq Nat

VARIABLES
    conv,       \* conv[c]: the row of conversations
    within,     \* within[c][a]: the row of conversation_members
    said,       \* said[c]: the messages of c, in the order of created_at
    chat,       \* chat[a]: where the call of a is
    shown,      \* history only: <<a, c, i>> for a message of others that a was shown,
    told,       \* that a said it had read,
    missed      \* or that came in between a's fetch and its mark

conversationVars == <<conv, within, said, chat, shown, told, missed>>

Silent == [pc |-> "idle"]

Message == [from : Talker, stored : BOOLEAN, read : SUBSET Talker]

Talking ==
         [pc : {"may send", "stamp", "may read", "fetch", "may leave", "leave"}, conv : Conv]
    \cup [pc : {"store"}, conv : Conv, at : 1 .. MaxMessages]
    \cup [pc : {"mark"}, conv : Conv, page : SUBSET (1 .. MaxMessages)]
    \cup [pc : {"may invite", "rejoin", "insert"}, conv : Conv, whom : Talker]

ConversationInit ==
    /\ conv = [c \in Conv |-> "none"]
    /\ within = [c \in Conv |-> [a \in Talker |-> "none"]]
    /\ said = [c \in Conv |-> <<>>]
    /\ chat = [a \in Talker |-> Silent]
    /\ shown = {}
    /\ told = {}
    /\ missed = {}

\* IsConversationMember; archived conversations have members like any other.
IsMember(a, c) == within[c][a] = "in"

Turns(a, d) == chat' = [chat EXCEPT ![a] = d]

Ready(a, pc) == chat[a].pc = pc

\* The messages of c among S that a did not send.
ToRead(a, c, S) == {<<a, c, i>> : i \in {j \in S : said[c][j].from # a}}

\* The call goes on, if its agent is a member.
Members(a, pc, then) ==
    /\ Ready(a, pc)
    /\ Turns(a, IF IsMember(a, chat[a].conv) THEN [chat[a] EXCEPT !.pc = then] ELSE Silent)
    /\ UNCHANGED <<conv, within, said, shown, told, missed>>

Begins(a, d) ==
    /\ chat[a] = Silent
    /\ Turns(a, d)
    /\ UNCHANGED <<conv, within, said, shown, told, missed>>

\* One transaction: the conversation, its creator and the others.
CreateConversation(a, c, others) ==
    /\ chat[a] = Silent
    /\ conv[c] = "none"
    /\ conv' = [conv EXCEPT ![c] = "open"]
    /\ within' = [within EXCEPT ![c] =
         [b \in Talker |-> IF b \in others \cup {a} THEN "in" ELSE "none"]]
    /\ UNCHANGED <<said, chat, shown, told, missed>>

\* Anybody may.
ArchiveConversation(c) ==
    /\ conv[c] = "open"
    /\ conv' = [conv EXCEPT ![c] = "archived"]
    /\ UNCHANGED <<within, said, chat, shown, told, missed>>

\* --- invite, leave ---

\* Inviting oneself changes nothing.
HandleInvite(a) ==
    \E c \in Conv, b \in Talker \ {a} : Begins(a, [pc |-> "may invite", conv |-> c, whom |-> b])

InviteChecks(a) == Members(a, "may invite", "rejoin")

\* AddConversationMember: whoever has a row is in again, others get one.
Rejoin(a) ==
    LET c == chat[a].conv
        b == chat[a].whom
        known == within[c][b] # "none"
    IN
    /\ Ready(a, "rejoin")
    /\ within' = IF known THEN [within EXCEPT ![c][b] = "in"] ELSE within
    /\ Turns(a, IF known THEN Silent ELSE [chat[a] EXCEPT !.pc = "insert"])
    /\ UNCHANGED <<conv, said, shown, told, missed>>

\* The key is taken when somebody else was faster: an error for the caller.
InsertMember(a) ==
    LET c == chat[a].conv
        b == chat[a].whom
    IN
    /\ Ready(a, "insert")
    /\ within' = [within EXCEPT ![c][b] = IF @ = "none" THEN "in" ELSE @]
    /\ Turns(a, Silent)
    /\ UNCHANGED <<conv, said, shown, told, missed>>

HandleLeave(a) == \E c \in Conv : Begins(a, [pc |-> "may leave", conv |-> c])

LeaveChecks(a) == Members(a, "may leave", "leave")

LeaveConversation(a) ==
    LET c == chat[a].conv IN
    /\ Ready(a, "leave")
    /\ within' = [within EXCEPT ![c][a] = IF @ = "in" THEN "left" ELSE @]
    /\ Turns(a, Silent)
    /\ UNCHANGED <<conv, said, shown, told, missed>>

\* --- send_message to a conversation ---

HandleSend(a) == \E c \in Conv : Begins(a, [pc |-> "may send", conv |-> c])

SendChecks(a) == Members(a, "may send", "stamp")

\* InsertMessage takes the time.  Whoever has fetched and not yet marked will have
\* missed it.
Stamp(a) ==
    LET c == chat[a].conv
        i == Len(said[c]) + 1
    IN
    /\ Ready(a, "stamp")
    /\ i <= MaxMessages
    /\ said' = [said EXCEPT ![c] = Append(@, [from |-> a, stored |-> FALSE, read |-> {}])]
    /\ Turns(a, [pc |-> "store", conv |-> c, at |-> i])
    /\ missed' = missed \cup
         {<<b, c, i>> : b \in {r \in Talker : Ready(r, "mark") /\ chat[r].conv = c}}
    /\ UNCHANGED <<conv, within, shown, told>>

Store(a) ==
    LET c == chat[a].conv IN
    /\ Ready(a, "store")
    /\ said' = [said EXCEPT ![c][chat[a].at].stored = TRUE]
    /\ Turns(a, Silent)
    /\ UNCHANGED <<conv, within, shown, told, missed>>

\* --- reading ---

HandleGetMessages(a) == \E c \in Conv : Begins(a, [pc |-> "may read", conv |-> c])

ReadChecks(a) == Members(a, "may read", "fetch")

Stored(c) == {i \in DOMAIN said[c] : said[c][i].stored}

\* A bug that takes the newest n.
MutFirstPage(c) == {i \in Stored(c) : Cardinality({j \in Stored(c) : j > i}) < Page}

\* GetConversationMessages: ORDER BY created_at LIMIT n, so the oldest n.
FirstPage(c) == {i \in Stored(c) : Cardinality({j \in Stored(c) : j < i}) < Page}

Fetch(a) ==
    LET c == chat[a].conv IN
    /\ Ready(a, "fetch")
    /\ Turns(a, [pc |-> "mark", conv |-> c, page |-> FirstPage(c)])
    /\ missed' = missed \cup ToRead(a, c, DOMAIN said[c] \ Stored(c))
    /\ UNCHANGED <<conv, within, said, shown, told>>

\* last_read_at is now: later than every stamp so far, stored or not.
ReadAll(a, c) ==
    said' = [said EXCEPT ![c] =
        [i \in DOMAIN said[c] |-> [said[c][i] EXCEPT !.read = @ \cup {a}]]]

\* MarkConversationRead, and the answer.
MarkFetched(a) ==
    LET c == chat[a].conv IN
    /\ Ready(a, "mark")
    /\ ReadAll(a, c)
    /\ shown' = shown \cup ToRead(a, c, chat[a].page)
    /\ Turns(a, Silent)
    /\ UNCHANGED <<conv, within, told, missed>>

\* The mark fails, whose error is dropped.
MarkFails(a) ==
    /\ Ready(a, "mark")
    /\ shown' = shown \cup ToRead(a, chat[a].conv, chat[a].page)
    /\ Turns(a, Silent)
    /\ UNCHANGED <<conv, within, said, told, missed>>

\* mark_read of a conversation, or of one message, which marks the conversation it
\* is in; neither asks whether a is a member.
MarkConversationRead(a, c) ==
    /\ chat[a] = Silent
    /\ said[c] # <<>>
    /\ ReadAll(a, c)
    /\ told' = told \cup ToRead(a, c, DOMAIN said[c])
    /\ UNCHANGED <<conv, within, chat, shown, missed>>

\* A statement fails and the call with it, or the relay stops.
Silenced(A) ==
    /\ chat' = [a \in Talker |-> IF a \in A THEN Silent ELSE chat[a]]
    /\ UNCHANGED <<conv, within, said, shown, told, missed>>

TalkFails(a) == chat[a] # Silent /\ Silenced({a})

ConversationsStop == (\E a \in Talker : chat[a] # Silent) /\ Silenced(Talker)

Says(a) ==
    \/ InviteChecks(a) \/ Rejoin(a) \/ InsertMember(a)
    \/ LeaveChecks(a) \/ LeaveConversation(a)
    \/ SendChecks(a) \/ Stamp(a) \/ Store(a)
    \/ ReadChecks(a) \/ Fetch(a) \/ MarkFetched(a) \/ MarkFails(a)

ConversationNext ==
    \/ \E a \in Talker :
        \/ HandleInvite(a) \/ HandleLeave(a) \/ HandleSend(a) \/ HandleGetMessages(a)
        \/ Says(a)
        \/ TalkFails(a)
        \/ \E c \in Conv : \/ \E others \in SUBSET Talker \ {{}} : CreateConversation(a, c, others)
                            \/ MarkConversationRead(a, c)
    \/ \E c \in Conv : ArchiveConversation(c)
    \/ ConversationsStop

\* ListConversations, with the messages of others that are not read yet.
ListConversations(a) ==
    [c \in {d \in Conv : conv[d] = "open" /\ IsMember(a, d)} |->
        {i \in Stored(c) : said[c][i].from # a /\ a \notin said[c][i].read}]

\* --- properties ---

ConversationTypeOK ==
    /\ conv \in [Conv -> {"none", "open", "archived"}]
    /\ within \in [Conv -> [Talker -> {"none", "in", "left"}]]
    /\ \A c \in Conv : said[c] \in Seq(Message) /\ Len(said[c]) <= MaxMessages
    /\ chat \in [Talker -> {Silent} \cup Talking]
    /\ {shown, told, missed} \subseteq SUBSET (Talker \X Conv \X (1 .. MaxMessages))

\* What a conversation no longer counts as unread, its reader was shown: unless it
\* came in between the fetch and the mark of the same call, the reader said it had
\* read the conversation, or the conversation is longer than the page, of which
\* only the beginning is ever shown and all of it marked.
ReadWasShown ==
    \A a \in Talker : \A c \in DOMAIN ListConversations(a) :
        \A i \in Stored(c) \ ListConversations(a)[c] :
            \/ said[c][i].from = a
            \/ <<a, c, i>> \in shown \cup told \cup missed
            \/ Cardinality({j \in Stored(c) : j < i}) >= Page

ConversationSpec == ConversationInit /\ [][ConversationNext]_conversationVars
==============================================================================
