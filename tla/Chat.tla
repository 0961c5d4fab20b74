-------------------------------- MODULE Chat --------------------------------
(***************************************************************************)
(* The chat between people and a project's executive: db/chat.go and       *)
(* relay/chat_handlers.go, with the view of web/chat that polls them.      *)
(* What a person sends is stored as a chat row at once.  What the          *)
(* executive sends waits among the messages until somebody polls the       *)
(* project: that poll drains it into the chat, under the time at which it  *)
(* was sent.  A view asks for the newest page of the past once, for what   *)
(* is newer than the newest entry it shows again and again, and merges     *)
(* those answers, and that to its own sending, in whatever order they      *)
(* come.                                                                   *)
(*                                                                         *)
(* Not modelled: who may log in, the text, the list of projects and what   *)
(* it counts as read, the copy of a person's message in the executive's    *)
(* inbox (it is like any other delivery), and statements of a drain that   *)
(* fail one by one.                                                        *)
(***************************************************************************)
EXTENDS Integers, FiniteSets, FiniteSetsExt

CONSTANTS
    MaxChat,   \* bound: messages
    Exec,      \* roles that may be the executive
    NoRole,    \* chat_executive_role IS NULL
    View,      \* chat views: the tabs whose entries are followed
    ChatPage   \* PAGE_SIZE

ASSUME ChatAssumption ==
    /\ MaxChat \in Nat
    /\ NoRole \notin Exec
    /\ "human" \notin Exec
    /\ ChatPage \in Nat \ {0}

VARIABLES
    chatRole, \* projects.chat_executive_role
    mail,     \* mail[m]: the m-th message by created_at, and the table its row is in
    view      \* view[v]: what v shows and what it waits for

chatVars == <<chatRole, mail, view>>

-----------------------------------------------------------------------------
ChatMsg == 1..MaxChat

NoMail == [at |-> "none"]

Closed == [at |-> "closed"]

ChatRows == {m \in ChatMsg : mail[m].at = "chat"}

\* The newest created_at that was taken.
Latest == Cardinality({m \in ChatMsg : mail[m] # NoMail})

NewestStamp(S) == IF S = {} THEN 0 ELSE Max(S)

\* lastTsRef: a view's cursor is the newest entry that it shows.
Cursor(v) == NewestStamp(view[v].shows)

\* What was answered to v, whether it has merged it or not.
Answered(v) == view[v].shows \cup view[v].poll.rows \cup view[v].history.rows \cup view[v].post

ChatInit ==
    /\ chatRole \in Exec
    /\ mail = [m \in ChatMsg |-> NoMail]
    /\ view = [v \in View |-> Closed]

-----------------------------------------------------------------------------
(* The relay. *)

\* set_chat_executive, by an agent that is an executive; an empty role disables.
SetChatExecutiveRole(role) ==
    /\ chatRole' = role
    /\ UNCHANGED <<mail, view>>

\* An agent's send_message takes its time first,
StampReply(e, m) ==
    /\ m = Latest + 1
    /\ mail' = [mail EXCEPT ![m] = [at |-> "stamped", by |-> e]]
    /\ UNCHANGED <<chatRole, view>>

\* and stores the message once the writer's connection is free.
InsertReply(m) ==
    /\ mail[m].at = "stamped"
    /\ mail' = [mail EXCEPT ![m].at = "inbox"]
    /\ UNCHANGED <<chatRole, view>>

\* A person's message: stamped and stored in one transaction.  What was in the chat
\* but had not been answered to the sender is behind its cursor from now on, unless
\* its first page of history is still to come.
InsertChatMessage(v, m) ==
    /\ view[v].at = "open"
    /\ view[v].post = {}
    /\ chatRole # NoRole
    /\ m = Latest + 1
    /\ mail' = [mail EXCEPT ![m] = [at |-> "chat", by |-> "human"]]
    /\ view' = [view EXCEPT ![v].post = {m},
                            ![v].passed = @ \cup IF view[v].history.at = "first" /\ view[v].shows = {}
                                                 THEN {} ELSE ChatRows \ Answered(v)]
    /\ UNCHANGED chatRole

\* The replies that a poll moves into the chat.
Drained ==
    IF chatRole = NoRole THEN {}
    ELSE {m \in ChatMsg : mail[m].at = "inbox" /\ mail[m].by = chatRole}

AfterDrain == [m \in ChatMsg |-> IF m \in Drained THEN [mail[m] EXCEPT !.at = "chat"] ELSE mail[m]]

\* Drained rows keep their time: they are behind a view that was answered newer ones.
Behind(u) == {m \in Drained : m < NewestStamp(Answered(u))}

\* A first poll has no cursor: rows older than its five minutes are behind it too, when
\* the first page of history was answered before.
TooOld(v, since) ==
    IF view[v].poll.since # 0 \/ view[v].history.at = "first" THEN {}
    ELSE {m \in ChatRows \cup Drained : m <= since} \ Answered(v)

\* A view that did not poll only comes to be behind.
Beside(u) == IF view[u] = Closed THEN Closed ELSE [view[u] EXCEPT !.passed = @ \cup Behind(u)]

\* A bug that selects the answer before the drain.
MutGetChatMessagesSince(v, since) ==
    /\ mail' = AfterDrain
    /\ view' = [u \in View |->
          IF u # v THEN Beside(u)
          ELSE [view[u] EXCEPT !.passed = @ \cup Behind(u) \cup TooOld(u, since),
                               !.poll.at = "answered",
                               !.poll.rows = {m \in ChatRows : m > since}]]

\* Drain, then select, in one transaction.
GetChatMessagesSince(v, since) ==
    /\ mail' = AfterDrain
    /\ view' = [u \in View |->
          IF u # v THEN Beside(u)
          ELSE [view[u] EXCEPT !.passed = @ \cup Behind(u) \cup TooOld(u, since),
                               !.poll.at = "answered",
                               !.poll.rows = {m \in ChatRows \cup Drained : m > since}]]

\* A poll without a cursor gets the last five minutes, whatever they hold; it does not
\* wait that long itself.
ServePoll(v) ==
    /\ view[v].at = "open"
    /\ view[v].poll.at = "asked"
    /\ \/ /\ view[v].poll.since > 0
          /\ GetChatMessagesSince(v, view[v].poll.since)
       \/ /\ view[v].poll.since = 0
          /\ \E since \in 0..view[v].poll.asked : GetChatMessagesSince(v, since)
    /\ UNCHANGED chatRole

\* What the views of other people do to this one's: they poll,
PollElsewhere ==
    /\ Drained # {}
    /\ mail' = AfterDrain
    /\ view' = [u \in View |-> Beside(u)]
    /\ UNCHANGED chatRole

\* and they send.
PostElsewhere(m) ==
    /\ chatRole # NoRole
    /\ m = Latest + 1
    /\ mail' = [mail EXCEPT ![m] = [at |-> "chat", by |-> "human"]]
    /\ UNCHANGED <<chatRole, view>>

\* The newest page of some chat rows.
NewestPage(rows) == {m \in rows : Cardinality({n \in rows : n > m}) < ChatPage}

\* The first page of the past.
GetChatHistory(v) ==
    /\ view[v].at = "open"
    /\ view[v].history.at = "first"
    /\ view' = [view EXCEPT ![v].history.at = "answered", ![v].history.rows = NewestPage(ChatRows)]
    /\ UNCHANGED <<chatRole, mail>>

-----------------------------------------------------------------------------
(* The view. *)

NotPolling == [at |-> "idle", asked |-> 0, since |-> 0, rows |-> {}]

Asking(cursor) ==
    [at |-> "asked", asked |-> IF cursor = 0 THEN Latest ELSE 0, since |-> cursor, rows |-> {}]

\* A view asks for the past and polls when it mounts.
OpenView(v) ==
    /\ view[v] = Closed
    /\ view' = [view EXCEPT ![v] =
          [at |-> "open", shows |-> {}, post |-> {}, passed |-> {}, floor |-> MaxChat + 1, hasMore |-> FALSE,
           poll |-> Asking(0),
           history |-> [at |-> "first", first |-> TRUE, rows |-> {}]]]
    /\ UNCHANGED <<chatRole, mail>>

CloseView(v) ==
    /\ view[v].at = "open"
    /\ view' = [view EXCEPT ![v] = Closed]
    /\ UNCHANGED <<chatRole, mail>>

\* One poll at a time.
PollOnce(v) ==
    /\ view[v].at = "open"
    /\ view[v].poll = NotPolling
    /\ view' = [view EXCEPT ![v].poll = Asking(Cursor(v))]
    /\ UNCHANGED <<chatRole, mail>>

\* The answer to a poll is merged, or lost on its way.
MergePoll(v) ==
    /\ view[v].at = "open"
    /\ view[v].poll.at = "answered"
    /\ view' = [view EXCEPT ![v].shows = @ \cup view[v].poll.rows, ![v].poll = NotPolling]
    /\ UNCHANGED <<chatRole, mail>>

LosePoll(v) ==
    /\ view[v].at = "open"
    /\ view[v].poll.at = "answered"
    /\ LET others == view[v].shows \cup view[v].history.rows \cup view[v].post
           behind == {m \in view[v].poll.rows : m < NewestStamp(others)}
       IN view' = [view EXCEPT ![v].poll = NotPolling, ![v].passed = @ \cup (behind \ others)]
    /\ UNCHANGED <<chatRole, mail>>

\* The own message joins the entries, and moves the cursor.
MergePost(v) ==
    /\ view[v].at = "open"
    /\ view[v].post # {}
    /\ view' = [view EXCEPT ![v].shows = @ \cup view[v].post, ![v].post = {}]
    /\ UNCHANGED <<chatRole, mail>>

\* A page that is not full is the last one; the first tells how far back v has it all.
MergeHistory(v) ==
    /\ view[v].at = "open"
    /\ view[v].history.at = "answered"
    /\ LET page == view[v].history.rows
           full == Cardinality(page) = ChatPage
       IN view' = [view EXCEPT
             ![v].shows = @ \cup page,
             ![v].hasMore = full,
             ![v].floor = IF ~view[v].history.first THEN @
                          ELSE IF full THEN Min(page) ELSE 0,
             ![v].history = [at |-> "idle", first |-> FALSE, rows |-> {}]]
    /\ UNCHANGED <<chatRole, mail>>

\* The page before the oldest entry shown; it is asked for and answered in one step.
LoadOlder(v) ==
    /\ view[v].at = "open"
    /\ view[v].history.at = "idle"
    /\ view[v].hasMore
    /\ view[v].shows # {}
    /\ LET older == {m \in ChatRows : \A n \in view[v].shows : m < n}
       IN view' = [view EXCEPT ![v].history = [at |-> "answered", first |-> FALSE, rows |-> NewestPage(older)]]
    /\ UNCHANGED <<chatRole, mail>>

-----------------------------------------------------------------------------
ChatNext ==
    \/ \E role \in Exec \cup {NoRole} : SetChatExecutiveRole(role)
    \/ \E e \in Exec, m \in ChatMsg : StampReply(e, m)
    \/ \E m \in ChatMsg : InsertReply(m) \/ PostElsewhere(m)
    \/ PollElsewhere
    \/ \E v \in View, m \in ChatMsg : InsertChatMessage(v, m)
    \/ \E v \in View :
          \/ ServePoll(v) \/ GetChatHistory(v)
          \/ OpenView(v) \/ CloseView(v) \/ PollOnce(v) \/ LoadOlder(v)
          \/ MergePoll(v) \/ LosePoll(v) \/ MergePost(v) \/ MergeHistory(v)

-----------------------------------------------------------------------------
ChatTypeOK ==
    /\ chatRole \in Exec \cup {NoRole}
    /\ \A m \in ChatMsg : mail[m].at \in {"none", "stamped", "inbox", "chat"}
    /\ \A v \in View : view[v] = Closed
          \/ Answered(v) \cup view[v].passed \subseteq ChatRows

\* A view shows, or is about to be answered, every chat row between the end of its
\* first page of the past and its cursor, but for the rows that it was bound to pass
\* over: in the chat and not yet answered to it when its own message was stored,
\* drained after it was answered something newer, or older than its first poll and
\* newer than its history (chat.go:120, chat-view.tsx:101).
NothingBetween ==
    \A v \in View : view[v] # Closed =>
        \A m \in ChatRows \ view[v].passed :
            m \in view[v].floor..Cursor(v) => m \in Answered(v)
==============================================================================
