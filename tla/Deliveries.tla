----------------------------- MODULE Deliveries ------------------------------
(***************************************************************************)
(* Messages and their deliveries (internal/db/messages.go, deliveries.go,  *)
(* the message handlers of internal/relay/handlers.go, and the expiry of   *)
(* internal/relay/cleanup.go).                                             *)
(*                                                                         *)
(* A send inserts the message and then one delivery for each recipient;    *)
(* get_inbox expires messages, selects the open deliveries, marks them     *)
(* surfaced one by one and answers; mark_read writes two tables.  Nothing  *)
(* spans the statements, so they interleave, and a restart cuts them off.  *)
(***************************************************************************)
EXTENDS Naturals, FiniteSets

CONSTANTS
    Msg,      \* messages
    Agent,    \* recipients
    To,       \* the recipients each message resolves to, nobody for those the
              \* relay inserts without deliveries
    Timed,    \* messages with a TTL
    Urgent,   \* P0 messages: the context budget never leaves them out
    Req,      \* get_inbox and mark_read handlers that may run at once
    MaxFaults \* bound: relay restarts and failed writes

ASSUME DeliveriesAssumption ==
    /\ To \in [Msg -> SUBSET Agent]
    /\ Timed \subseteq Msg
    /\ Urgent \subseteq Msg
    /\ MaxFaults \in Nat

VARIABLES
    msg,     \* msg[m]: absent, live, due (its TTL has elapsed) or expired
    state,   \* state[<<m, a>>]: deliveries.state of m for a
    reads,   \* the message_reads rows
    sending, \* sending[m]: the recipients its sender has yet to insert
    req,     \* req[r]: where handler r is
    cleaner, \* whether the cleanup tick has ExpireDeliveries left to do
    shown,   \* history: what get_inbox answered, from deliveries
    missed,  \* history: what it failed to mark
    faults   \* bound only

vars == <<msg, state, reads, sending, req, cleaner, shown, missed, faults>>

Mail == Msg \X Agent

Stages == {"none", "queued", "surfaced", "acknowledged", "expired"}

Open == {"queued", "surfaced"}

\* get_inbox: what it still has to mark, and what it will answer.
Reading ==
    [pc : {"select"}, who : Agent, unread : BOOLEAN]
      \cup [pc : {"surface"}, who : Agent, todo : SUBSET Msg, found : SUBSET Msg]

\* mark_read: the messages left, and whether the current one is in message_reads.
Marking == [pc : {"read", "acknowledge"}, who : Agent, left : SUBSET Msg, cur : Msg]

Idle == [pc |-> "idle"]

TypeOK ==
    /\ msg \in [Msg -> {"absent", "live", "due", "expired"}]
    /\ state \in [Mail -> Stages]
    /\ reads \subseteq Mail
    /\ sending \in [Msg -> SUBSET Agent]
    /\ req \in [Req -> Reading \cup Marking \cup {Idle}]
    /\ cleaner \in {"idle", "deliveries"}
    /\ shown \subseteq Mail
    /\ missed \subseteq Mail
    /\ faults \in 0 .. MaxFaults

Init ==
    /\ msg = [m \in Msg |-> "absent"]
    /\ state = [d \in Mail |-> "none"]
    /\ reads = {}
    /\ sending = [m \in Msg |-> {}]
    /\ req = [r \in Req |-> Idle]
    /\ cleaner = "idle"
    /\ shown = {}
    /\ missed = {}
    /\ faults = 0

Exists(m) == msg[m] # "absent"

-----------------------------------------------------------------------------
(***************************************************************************)
(* Sending.                                                                *)
(***************************************************************************)

InsertMessage(m) ==
    /\ ~Exists(m)
    /\ msg' = [msg EXCEPT ![m] = "live"]
    /\ sending' = [sending EXCEPT ![m] = To[m]]
    /\ UNCHANGED <<state, reads, req, cleaner, shown, missed, faults>>

\* One INSERT of CreateDeliveries.  A failed one ends the loop, and the handler
\* drops the error.
CreateDelivery(m, a) ==
    /\ a \in sending[m]
    /\ \/ /\ state' = [state EXCEPT ![<<m, a>>] = "queued"]
          /\ sending' = [sending EXCEPT ![m] = @ \ {a}]
          /\ UNCHANGED faults
       \/ /\ faults < MaxFaults
          /\ faults' = faults + 1
          /\ sending' = [sending EXCEPT ![m] = {}]
          /\ UNCHANGED state
    /\ UNCHANGED <<msg, reads, req, cleaner, shown, missed>>

-----------------------------------------------------------------------------
(***************************************************************************)
(* Expiry.                                                                 *)
(***************************************************************************)

Elapse(m) ==
    /\ m \in Timed
    /\ msg[m] = "live"
    /\ msg' = [msg EXCEPT ![m] = "due"]
    /\ UNCHANGED <<state, reads, sending, req, cleaner, shown, missed, faults>>

ExpireMessages == msg' = [m \in Msg |-> IF msg[m] = "due" THEN "expired" ELSE msg[m]]

\* The cleanup tick expires messages, and then their open deliveries.
CleanMessages ==
    /\ cleaner = "idle"
    /\ ExpireMessages
    /\ cleaner' = "deliveries"
    /\ UNCHANGED <<state, reads, sending, req, shown, missed, faults>>

\* A bug that leaves the deliveries nobody has looked at open.
MutExpired(d) == state[d] = "surfaced" /\ msg[d[1]] = "expired"

Expired(d) == state[d] \in Open /\ msg[d[1]] = "expired"

CleanDeliveries ==
    /\ cleaner = "deliveries"
    /\ state' = [d \in Mail |-> IF Expired(d) THEN "expired" ELSE state[d]]
    /\ cleaner' = "idle"
    /\ UNCHANGED <<msg, reads, sending, req, shown, missed, faults>>

-----------------------------------------------------------------------------
(***************************************************************************)
(* get_inbox.                                                              *)
(***************************************************************************)

\* The deliveries an inbox query selects from.
Visible(a, unread) ==
    {m \in Msg : /\ msg[m] # "expired"
                 /\ state[<<m, a>>] \in IF unread THEN {"queued"} ELSE Open}

HasDeliveries == \E d \in Mail : state[d] # "none"

GetInbox(r, a, unread) ==
    /\ req[r] = Idle
    /\ ExpireMessages
    /\ req' = [req EXCEPT ![r] = [pc |-> "select", who |-> a, unread |-> unread]]
    /\ UNCHANGED <<state, reads, sending, cleaner, shown, missed, faults>>

\* The filters and the limit pick a part of the inbox.  A board without any
\* delivery answers from message_reads and marks nothing.
SelectInbox(r) ==
    /\ req[r].pc = "select"
    /\ LET q == req[r] IN
         IF HasDeliveries
         THEN \E found \in SUBSET Visible(q.who, q.unread) :
                req' = [req EXCEPT ![r] =
                          [pc |-> "surface", who |-> q.who, found |-> found,
                           todo |-> {m \in found : state[<<m, q.who>>] = "queued"}]]
         ELSE req' = [req EXCEPT ![r] = Idle]
    /\ UNCHANGED <<msg, state, reads, sending, cleaner, shown, missed, faults>>

\* A bug that marks without looking at the state the row has by now.
MutSurfaced(s) == "surfaced"

Surfaced(s) == IF s = "queued" THEN "surfaced" ELSE s

\* One UPDATE of GetInboxViaDeliveries, its error ignored.
Surface(r, m) ==
    /\ req[r].pc = "surface"
    /\ m \in req[r].todo
    /\ LET d == <<m, req[r].who>> IN
         \/ /\ state' = [state EXCEPT ![d] = Surfaced(@)]
            /\ UNCHANGED <<missed, faults>>
         \/ /\ faults < MaxFaults
            /\ faults' = faults + 1
            /\ missed' = missed \cup {d}
            /\ UNCHANGED state
    /\ req' = [req EXCEPT ![r].todo = @ \ {m}]
    /\ UNCHANGED <<msg, reads, sending, cleaner, shown>>

\* All of it, or, when the agent asks for applyBudget, the urgent messages and
\* those of the others that fit.
Answers(found) == {some \in SUBSET found : found \cap Urgent \subseteq some}

\* A bug that answers before the rows are marked.
MutAnswer(r) ==
    /\ req[r].pc = "surface"
    /\ shown' = shown \cup (req[r].found \X {req[r].who})
    /\ req' = [req EXCEPT ![r] = Idle]
    /\ UNCHANGED <<msg, state, reads, sending, cleaner, missed, faults>>

Answer(r) ==
    /\ req[r].pc = "surface"
    /\ req[r].todo = {}
    /\ \E answer \in Answers(req[r].found) :
           shown' = shown \cup (answer \X {req[r].who})
    /\ req' = [req EXCEPT ![r] = Idle]
    /\ UNCHANGED <<msg, state, reads, sending, cleaner, missed, faults>>

-----------------------------------------------------------------------------
(***************************************************************************)
(* Acknowledging.                                                          *)
(***************************************************************************)

\* A bug that writes a state nobody asks for.
MutAcknowledge(m, a) ==
    state' = [state EXCEPT ![<<m, a>>] = IF @ \in Open THEN "read" ELSE @]

\* One UPDATE of the open delivery of m to a, if there is one.
Acknowledge(m, a) ==
    state' = [state EXCEPT ![<<m, a>>] = IF @ \in Open THEN "acknowledged" ELSE @]

\* ack_delivery: the id of a delivery comes with an inbox answer.
AckDelivery(m, a) ==
    /\ <<m, a>> \in shown
    /\ Acknowledge(m, a)
    /\ UNCHANGED <<msg, reads, sending, req, cleaner, shown, missed, faults>>

\* mark_read of messages the agent knows from an inbox or a thread.
MarkRead(r, a, ids) ==
    /\ req[r] = Idle
    /\ \A m \in ids : Exists(m)
    /\ req' = [req EXCEPT ![r] = [pc |-> "read", who |-> a, left |-> ids,
                                  cur |-> CHOOSE m \in ids : TRUE]]
    /\ UNCHANGED <<msg, state, reads, sending, cleaner, shown, missed, faults>>

InsertRead(r, m) ==
    /\ req[r].pc = "read"
    /\ m \in req[r].left
    /\ reads' = reads \cup {<<m, req[r].who>>}
    /\ req' = [req EXCEPT ![r].pc = "acknowledge", ![r].cur = m]
    /\ UNCHANGED <<msg, state, sending, cleaner, shown, missed, faults>>

\* The error of this write is ignored too.
AckRead(r) ==
    /\ req[r].pc = "acknowledge"
    /\ LET q == req[r] IN
         /\ \/ Acknowledge(q.cur, q.who) /\ UNCHANGED faults
            \/ faults < MaxFaults /\ faults' = faults + 1 /\ UNCHANGED state
         /\ req' = [req EXCEPT ![r] = IF q.left = {q.cur} THEN Idle
                                      ELSE [q EXCEPT !.pc = "read", !.left = @ \ {q.cur}]]
    /\ UNCHANGED <<msg, reads, sending, cleaner, shown, missed>>

\* The relay comes back: the rows are all that is left.
Restart ==
    /\ faults < MaxFaults
    /\ faults' = faults + 1
    /\ sending' = [m \in Msg |-> {}]
    /\ req' = [r \in Req |-> Idle]
    /\ cleaner' = "idle"
    /\ UNCHANGED <<msg, state, reads, shown, missed>>

-----------------------------------------------------------------------------

Deliver == \E m \in Msg, a \in Agent : CreateDelivery(m, a)

Submit(r) ==
    \E a \in Agent :
        \/ \E unread \in BOOLEAN : GetInbox(r, a, unread)
        \/ \E ids \in (SUBSET Msg) \ {{}} : MarkRead(r, a, ids)

Handle(r) ==
    \/ SelectInbox(r)
    \/ \E m \in Msg : Surface(r, m) \/ InsertRead(r, m)
    \/ Answer(r)
    \/ AckRead(r)

Clean == CleanMessages \/ CleanDeliveries

Next ==
    \/ \E m \in Msg : InsertMessage(m) \/ Elapse(m)
    \/ \E m \in Msg, a \in Agent : AckDelivery(m, a)
    \/ Deliver
    \/ \E r \in Req : Submit(r) \/ Handle(r)
    \/ Clean
    \/ Restart

Spec == Init /\ [][Next]_vars

\* A sender that has begun goes on, and the cleanup ticker runs.  Nobody has to
\* send, read or acknowledge.
FairSpec == Spec /\ WF_vars(Deliver) /\ WF_vars(Clean)

-----------------------------------------------------------------------------
(***************************************************************************)
(* Properties.                                                             *)
(***************************************************************************)

\* However senders, readers, acknowledgements and the cleanup interleave, each
\* delivery only moves forward through the promised states.
DL == INSTANCE DeliveryLifecycle

OnlyForward == DL!Spec

\* What get_inbox has shown is not unread any more, unless it failed to mark it:
\* a later poll of unread messages does not bring it again.
ShownIsNotUnread == \A d \in shown \ missed : state[d] # "queued"

\* A message whose TTL has elapsed leaves every inbox for good, deliveries that
\* its sender is still inserting included.
ExpiryCloses ==
    \A m \in Msg : msg[m] = "due" ~> [](\A a \in Agent : state[<<m, a>>] \notin Open)

\* A handler has marked the delivery and has not answered yet.
Underway(m, a) ==
    \E r \in Req : req[r].pc = "surface" /\ req[r].who = a /\ m \in req[r].found

\* "surfaced" means that get_inbox gave the message to the recipient.
SurfacedIsShown ==
    \A m \in Msg, a \in Agent :
        state[<<m, a>>] = "surfaced" => <<m, a>> \in shown \/ Underway(m, a)
==============================================================================
