--------------------------- MODULE DeliveriesProofs --------------------------
(***************************************************************************)
(* Proofs about Deliveries, for any number of messages, recipients,        *)
(* handlers and faults.                                                    *)
(***************************************************************************)
EXTENDS Deliveries, TLAPS

\* A delivery that its sender has yet to insert, or whose message is not there
\* yet, has no row.
Unsent ==
    \A m \in Msg, a \in Agent :
        /\ ~Exists(m) \/ a \in sending[m] => state[<<m, a>>] = "none"
        /\ a \in sending[m] => Exists(m)

\* d has a row, and is unread only if get_inbox failed to mark it.
Marked(d) == state[d] # "none" /\ (state[d] = "queued" => d \in missed)

\* What a get_inbox under way has found has a row, and is marked unless it is
\* still to do.
Found(r) ==
    req[r].pc = "surface" =>
        \A m \in req[r].found :
            /\ state[<<m, req[r].who>>] # "none"
            /\ m \notin req[r].todo => Marked(<<m, req[r].who>>)

Tracked ==
    /\ Unsent
    /\ \A r \in Req : Found(r)
    /\ \A d \in shown : Marked(d)

-----------------------------------------------------------------------------
(***************************************************************************)
(* Type correctness.                                                       *)
(***************************************************************************)

\* What a handler is at tells what it remembers.
LEMMA RequestFields ==
  ASSUME TypeOK, NEW r \in Req
  PROVE  /\ req[r].pc \in {"idle", "select", "surface", "read", "acknowledge"}
         /\ req[r].pc = "select" => req[r].who \in Agent /\ req[r].unread \in BOOLEAN
         /\ req[r].pc = "surface" =>
              /\ req[r].who \in Agent
              /\ req[r].todo \subseteq Msg
              /\ req[r].found \subseteq Msg
         /\ req[r].pc \in {"read", "acknowledge"} => req[r] \in Marking
  BY DEF TypeOK, Reading, Marking, Idle

\* An UPDATE of deliveries.state leaves a state.
LEMMA AcknowledgeType ==
  ASSUME TypeOK, NEW m, NEW a, Acknowledge(m, a)
  PROVE  state' \in [Mail -> Stages]
  BY DEF TypeOK, Acknowledge, Stages

\* Sending, expiry, ack_delivery and restarts keep the types.
LEMMA BackgroundType ==
  ASSUME TypeOK,
         \/ \E m \in Msg : InsertMessage(m) \/ Elapse(m)
         \/ \E m \in Msg, a \in Agent : AckDelivery(m, a)
         \/ Deliver \/ Clean \/ Restart
  PROVE  TypeOK'
<1>1. ASSUME NEW m \in Msg, InsertMessage(m) PROVE TypeOK'
  BY <1>1, DeliveriesAssumption DEF TypeOK, InsertMessage
<1>2. ASSUME NEW m \in Msg, Elapse(m) PROVE TypeOK'
  BY <1>2 DEF TypeOK, Elapse
<1>3. ASSUME NEW m \in Msg, NEW a \in Agent, AckDelivery(m, a) PROVE TypeOK'
  BY <1>3, AcknowledgeType DEF TypeOK, AckDelivery
<1>4. ASSUME NEW m \in Msg, NEW a \in Agent, CreateDelivery(m, a) PROVE TypeOK'
  <2>1. /\ sending' \in [Msg -> SUBSET Agent]
        /\ state' \in [Mail -> Stages]
        /\ faults' \in 0 .. MaxFaults
    BY <1>4, DeliveriesAssumption DEF TypeOK, CreateDelivery, Mail, Stages
  <2>2. QED
    BY <1>4, <2>1 DEF TypeOK, CreateDelivery
<1>5. CASE CleanMessages
  BY <1>5 DEF TypeOK, CleanMessages, ExpireMessages
<1>6. CASE CleanDeliveries
  BY <1>6 DEF TypeOK, CleanDeliveries, Stages
<1>7. CASE Restart
  BY <1>7, DeliveriesAssumption DEF TypeOK, Restart
<1>8. QED
  BY <1>1, <1>2, <1>3, <1>4, <1>5, <1>6, <1>7 DEF Deliver, Clean

\* The statements of get_inbox keep the types.
LEMMA InboxType ==
  ASSUME TypeOK, NEW r \in Req,
         \/ \E a \in Agent, unread \in BOOLEAN : GetInbox(r, a, unread)
         \/ SelectInbox(r)
         \/ \E m \in Msg : Surface(r, m)
         \/ Answer(r)
  PROVE  TypeOK'
<1>1. ASSUME NEW a \in Agent, NEW unread \in BOOLEAN, GetInbox(r, a, unread) PROVE TypeOK'
  <2>1. [pc |-> "select", who |-> a, unread |-> unread] \in Reading
    BY DEF Reading
  <2>2. QED
    BY <1>1, <2>1 DEF TypeOK, GetInbox, ExpireMessages
<1>2. CASE SelectInbox(r)
  <2>1. CASE HasDeliveries
    <3>1. PICK found \in SUBSET Visible(req[r].who, req[r].unread) :
            req' = [req EXCEPT ![r] =
                      [pc |-> "surface", who |-> req[r].who, found |-> found,
                       todo |-> {m \in found : state[<<m, req[r].who>>] = "queued"}]]
      BY <1>2, <2>1 DEF SelectInbox
    <3>2. [pc |-> "surface", who |-> req[r].who, found |-> found,
           todo |-> {m \in found : state[<<m, req[r].who>>] = "queued"}] \in Reading
      BY <1>2, <3>1, RequestFields DEF SelectInbox, Visible, Reading
    <3>3. req' \in [Req -> Reading \cup Marking \cup {Idle}]
      BY <3>1, <3>2 DEF TypeOK
    <3>4. QED
      BY <1>2, <3>3 DEF TypeOK, SelectInbox
  <2>2. CASE ~HasDeliveries
    BY <1>2, <2>2 DEF TypeOK, SelectInbox
  <2>3. QED
    BY <2>1, <2>2
<1>3. ASSUME NEW m \in Msg, Surface(r, m) PROVE TypeOK'
  <2>1. [req[r] EXCEPT !.todo = @ \ {m}] \in Reading
    BY <1>3 DEF TypeOK, Surface, Reading, Marking, Idle
  <2>2. <<m, req[r].who>> \in Mail
    BY <1>3, RequestFields DEF Surface, Mail
  <2>3. /\ state' \in [Mail -> Stages]
        /\ missed' \subseteq Mail
        /\ faults' \in 0 .. MaxFaults
    BY <1>3, <2>2, DeliveriesAssumption DEF TypeOK, Surface, Surfaced, Stages
  <2>4. req' \in [Req -> Reading \cup Marking \cup {Idle}]
    BY <1>3, <2>1 DEF TypeOK, Surface
  <2>5. QED
    BY <1>3, <2>3, <2>4 DEF TypeOK, Surface
<1>4. CASE Answer(r)
  BY <1>4, RequestFields DEF TypeOK, Answer, Answers, Mail
<1>5. QED
  BY <1>1, <1>2, <1>3, <1>4

\* The statements of mark_read keep the types.
LEMMA MarkReadType ==
  ASSUME TypeOK, NEW r \in Req,
         \/ \E a \in Agent, ids \in (SUBSET Msg) \ {{}} : MarkRead(r, a, ids)
         \/ \E m \in Msg : InsertRead(r, m)
         \/ AckRead(r)
  PROVE  TypeOK'
<1>1. ASSUME NEW a \in Agent, NEW ids \in (SUBSET Msg) \ {{}}, MarkRead(r, a, ids) PROVE TypeOK'
  <2>1. (CHOOSE m \in ids : TRUE) \in Msg
    OBVIOUS
  <2>2. [pc |-> "read", who |-> a, left |-> ids, cur |-> CHOOSE m \in ids : TRUE] \in Marking
    BY <2>1 DEF Marking
  <2>3. QED
    BY <1>1, <2>2 DEF TypeOK, MarkRead
<1>2. ASSUME NEW m \in Msg, InsertRead(r, m) PROVE TypeOK'
  <2>1. /\ req[r] \in Marking
        /\ [req[r] EXCEPT !.pc = "acknowledge", !.cur = m] \in Marking
    BY <1>2, RequestFields DEF InsertRead, Marking
  <2>2. req' = [req EXCEPT ![r] = [req[r] EXCEPT !.pc = "acknowledge", !.cur = m]]
    BY <1>2 DEF TypeOK, InsertRead
  <2>3. reads' \subseteq Mail
    BY <1>2, <2>1 DEF TypeOK, InsertRead, Marking, Mail
  <2>4. QED
    BY <1>2, <2>1, <2>2, <2>3 DEF TypeOK, InsertRead
<1>3. CASE AckRead(r)
  <2>1. req[r] \in Marking
    BY <1>3, RequestFields DEF AckRead
  <2>2. [req[r] EXCEPT !.pc = "read", !.left = @ \ {req[r].cur}] \in Marking
    BY <2>1 DEF Marking
  <2>3. req' \in [Req -> Reading \cup Marking \cup {Idle}]
    BY <1>3, <2>2 DEF TypeOK, AckRead
  <2>4. state' \in [Mail -> Stages] /\ faults' \in 0 .. MaxFaults
    BY <1>3, AcknowledgeType, DeliveriesAssumption DEF TypeOK, AckRead
  <2>5. QED
    BY <1>3, <2>3, <2>4 DEF TypeOK, AckRead
<1>4. QED
  BY <1>1, <1>2, <1>3

\* Every step, and a stutter, keeps the types.
LEMMA TypeStep == TypeOK /\ [Next]_vars => TypeOK'
<1> SUFFICES ASSUME TypeOK, [Next]_vars PROVE TypeOK'
  OBVIOUS
<1>1. ASSUME NEW r \in Req, Submit(r) \/ Handle(r) PROVE TypeOK'
  BY <1>1, InboxType, MarkReadType DEF Submit, Handle
<1>2. CASE UNCHANGED vars
  BY <1>2 DEF TypeOK, vars
<1>3. QED
  BY <1>1, <1>2, BackgroundType DEF Next

\* Messages, deliveries and handlers keep their shape for every number of them.
THEOREM TypeCorrect == Spec => []TypeOK
<1>1. Init => TypeOK
  BY DeliveriesAssumption DEF Init, TypeOK, Stages
<1>2. QED
  BY <1>1, TypeStep, PTL DEF Spec

-----------------------------------------------------------------------------
(***************************************************************************)
(* What has been shown is not unread.                                      *)
(***************************************************************************)

\* A step that leaves a handler alone, unmarks nothing and creates no row where
\* there was one, keeps what the handler has found.
LEMMA FoundKept ==
  ASSUME TypeOK, NEW r \in Req, Found(r), req'[r] = req[r] \/ req'[r].pc # "surface",
         missed \subseteq missed',
         \A d \in Mail : state[d] # "none" => state'[d] # "none",
         \A d \in Mail : state[d] # "none" /\ state'[d] = "queued" => state[d] = "queued"
  PROVE  Found(r)'
<1>1. \A m \in Msg : req[r].pc = "surface" => <<m, req[r].who>> \in Mail
  BY RequestFields DEF Mail
<1>2. QED
  BY <1>1, RequestFields DEF Found, Marked

\* So it does what has been shown.
LEMMA ShownKept ==
  ASSUME TypeOK, \A d \in shown : Marked(d), shown' = shown, missed \subseteq missed',
         \A d \in Mail : state[d] # "none" => state'[d] # "none",
         \A d \in Mail : state[d] # "none" /\ state'[d] = "queued" => state[d] = "queued"
  PROVE  \A d \in shown' : Marked(d)'
BY DEF Marked, TypeOK

\* Only the sender creates rows, and rows stay.
LEMMA RowsStay ==
  ASSUME TypeOK, Tracked, [Next]_vars
  PROVE  /\ \A d \in Mail : state[d] # "none" => state'[d] # "none"
         /\ \A d \in Mail : state[d] # "none" /\ state'[d] = "queued" => state[d] = "queued"
         /\ missed \subseteq missed'
<1>1. ASSUME NEW m \in Msg, NEW a \in Agent, CreateDelivery(m, a)
      PROVE  state' = state \/ (state[<<m, a>>] = "none" /\ state' = [state EXCEPT ![<<m, a>>] = "queued"])
  BY <1>1 DEF CreateDelivery, Tracked, Unsent
<1>2. ASSUME NEW r \in Req, NEW m \in Msg, Surface(r, m)
      PROVE  /\ \A d \in Mail : state'[d] = state[d] \/ (state[d] = "queued" /\ state'[d] = "surfaced")
             /\ missed \subseteq missed'
  BY <1>2 DEF Surface, Surfaced, TypeOK
<1>3. ASSUME NEW m, NEW a, Acknowledge(m, a)
      PROVE  \A d \in Mail : state'[d] = state[d] \/ (state[d] \in Open /\ state'[d] = "acknowledged")
  BY <1>3 DEF Acknowledge, TypeOK
<1>4. CASE CleanDeliveries
  BY <1>4 DEF CleanDeliveries, Expired, Open, TypeOK
<1>5. ASSUME NEW m \in Msg, NEW a \in Agent, CreateDelivery(m, a)
      PROVE  /\ \A d \in Mail : state[d] # "none" => state'[d] = state[d]
             /\ missed' = missed
  BY <1>1, <1>5 DEF CreateDelivery, TypeOK
<1>6. ASSUME NEW m \in Msg, NEW a \in Agent, AckDelivery(m, a)
      PROVE  /\ \A d \in Mail : state'[d] = state[d] \/ (state[d] \in Open /\ state'[d] = "acknowledged")
             /\ missed' = missed
  BY <1>3, <1>6 DEF AckDelivery
<1>7. ASSUME NEW r \in Req, AckRead(r)
      PROVE  /\ \A d \in Mail : state'[d] = state[d] \/ (state[d] \in Open /\ state'[d] = "acknowledged")
             /\ missed' = missed
  BY <1>3, <1>7 DEF AckRead
<1>8. ASSUME NEW r \in Req,
             \/ \E a \in Agent, unread \in BOOLEAN : GetInbox(r, a, unread)
             \/ \E a \in Agent, ids \in (SUBSET Msg) \ {{}} : MarkRead(r, a, ids)
             \/ SelectInbox(r) \/ Answer(r) \/ \E m \in Msg : InsertRead(r, m)
      PROVE  state' = state /\ missed' = missed
  BY <1>8 DEF GetInbox, MarkRead, SelectInbox, Answer, InsertRead
<1>9. CASE (\E m \in Msg : InsertMessage(m) \/ Elapse(m)) \/ CleanMessages \/ Restart \/ UNCHANGED vars
  BY <1>9 DEF InsertMessage, Elapse, CleanMessages, Restart, vars
<1>10. CASE \E r \in Req : Submit(r) \/ Handle(r)
  BY <1>10, <1>2, <1>7, <1>8 DEF Submit, Handle, Open
<1>11. CASE Deliver \/ \E m \in Msg, a \in Agent : AckDelivery(m, a)
  BY <1>11, <1>5, <1>6 DEF Deliver, Open
<1>12. QED
  BY <1>4, <1>9, <1>10, <1>11 DEF Next, Clean, CleanDeliveries

\* A sender inserts a delivery once, and only for a message that is there.
LEMMA UnsentStep == TypeOK /\ Tracked /\ [Next]_vars => Unsent'
<1> SUFFICES ASSUME TypeOK, Tracked, [Next]_vars PROVE Unsent'
  OBVIOUS
<1> USE DEF Unsent, Exists
<1>1. ASSUME NEW m \in Msg, InsertMessage(m) PROVE Unsent'
  BY <1>1 DEF TypeOK, Tracked, InsertMessage
<1>2. ASSUME NEW m \in Msg, NEW a \in Agent, CreateDelivery(m, a) PROVE Unsent'
  <2>1. \A n \in Msg, b \in Agent : <<n, b>> # <<m, a>> => state'[<<n, b>>] = state[<<n, b>>]
    BY <1>2 DEF CreateDelivery, TypeOK, Mail
  <2>2. \A n \in Msg : sending'[n] \subseteq sending[n] /\ (n = m => sending'[n] \subseteq sending[n] \ {a})
    BY <1>2 DEF CreateDelivery, TypeOK
  <2>3. Exists(m) /\ msg' = msg
    BY <1>2 DEF CreateDelivery, Tracked
  <2>4. QED
    BY <2>1, <2>2, <2>3 DEF Tracked
<1>3. CASE UNCHANGED <<state, sending>> /\ \A m \in Msg : msg'[m] = "absent" <=> msg[m] = "absent"
  BY <1>3 DEF Tracked
<1>4. CASE /\ UNCHANGED <<msg, sending>>
           /\ \A d \in Mail : state[d] = "none" => state'[d] = "none"
  BY <1>4 DEF Tracked, Mail
<1>5. ASSUME NEW m, NEW a, Acknowledge(m, a)
      PROVE  \A d \in Mail : state[d] = "none" => state'[d] = "none"
  BY <1>5 DEF Acknowledge, TypeOK, Open
<1>6. ASSUME NEW r \in Req, \E m \in Msg : Surface(r, m) PROVE Unsent'
  BY <1>4, <1>6 DEF Surface, Surfaced, TypeOK
<1>7. ASSUME NEW r \in Req, AckRead(r) PROVE Unsent'
  BY <1>4, <1>5, <1>7 DEF AckRead
<1>8. ASSUME NEW m \in Msg, NEW a \in Agent, AckDelivery(m, a) PROVE Unsent'
  BY <1>4, <1>5, <1>8 DEF AckDelivery
<1>9. CASE CleanDeliveries
  BY <1>4, <1>9 DEF CleanDeliveries, Expired, Open, TypeOK
<1>10. CASE CleanMessages \/ UNCHANGED vars \/ \E m \in Msg : Elapse(m)
  BY <1>3, <1>10 DEF CleanMessages, ExpireMessages, Elapse, TypeOK, vars
<1>11. CASE Restart
  BY <1>11 DEF Restart, Tracked
<1>12. ASSUME NEW r \in Req, Submit(r) PROVE Unsent'
  BY <1>3, <1>12 DEF Submit, GetInbox, MarkRead, ExpireMessages, TypeOK
<1>13. ASSUME NEW r \in Req, SelectInbox(r) \/ Answer(r) \/ \E m \in Msg : InsertRead(r, m)
       PROVE  Unsent'
  BY <1>3, <1>13 DEF SelectInbox, Answer, InsertRead
<1>14. QED
  BY <1>1, <1>2, <1>6, <1>7, <1>8, <1>9, <1>10, <1>11, <1>12, <1>13 DEF Next, Deliver, Clean, Handle

\* What a handler finds is marked before it counts as done.
LEMMA FoundStep ==
  ASSUME TypeOK, Tracked, [Next]_vars, NEW r \in Req
  PROVE  Found(r)'
<1> USE RowsStay
<1>1. CASE req'[r] = req[r] \/ req'[r].pc # "surface"
  BY <1>1, FoundKept DEF Tracked
<1>2. CASE SelectInbox(r)
  <2>1. CASE HasDeliveries
    <3>1. PICK found \in SUBSET Visible(req[r].who, req[r].unread) :
            req' = [req EXCEPT ![r] =
                      [pc |-> "surface", who |-> req[r].who, found |-> found,
                       todo |-> {m \in found : state[<<m, req[r].who>>] = "queued"}]]
      BY <1>2, <2>1 DEF SelectInbox
    <3>2. \A m \in found : state[<<m, req[r].who>>] \in Open
      BY <3>1 DEF Visible, Open
    <3>3. state' = state
      BY <1>2 DEF SelectInbox
    <3>4. QED
      BY <3>1, <3>2, <3>3 DEF Found, Marked, Open, TypeOK
  <2>2. CASE ~HasDeliveries
    BY <1>1, <1>2, <2>2 DEF SelectInbox, Idle, TypeOK
  <2>3. QED
    BY <2>1, <2>2
<1>3. ASSUME NEW m \in Msg, Surface(r, m) PROVE Found(r)'
  <2>1. /\ req'[r].who = req[r].who
        /\ req'[r].found = req[r].found
        /\ req'[r].todo = req[r].todo \ {m}
        /\ req[r].pc = "surface"
        /\ req[r].who \in Agent
        /\ req[r].found \subseteq Msg
    BY <1>3, RequestFields DEF Surface, TypeOK
  <2> DEFINE w == req[r].who
  <2>2. ASSUME NEW n \in req[r].found, n \notin req[r].todo \ {m}
        PROVE  state'[<<n, w>>] = "queued" => <<n, w>> \in missed'
    <3>1. <<n, w>> \in Mail /\ state[<<n, w>>] # "none"
      BY <2>1, <2>2 DEF Tracked, Found, Mail
    <3>2. CASE n # m
      <4>1. n \notin req[r].todo
        BY <2>2, <3>2
      <4>2. Marked(<<n, w>>)
        BY <2>1, <2>2, <4>1 DEF Tracked, Found
      <4>3. QED
        BY <3>1, <4>2 DEF Marked
    <3>3. CASE n = m
      <4>1. state'[<<n, w>>] # "queued" \/ <<n, w>> \in missed'
        BY <1>3, <3>1, <3>3 DEF Surface, Surfaced, TypeOK
      <4>2. QED
        BY <4>1
    <3>4. QED
      BY <3>2, <3>3
  <2>3. ASSUME NEW n \in req[r].found
        PROVE  state'[<<n, w>>] # "none"
    BY <2>1 DEF Found, Tracked, Mail
  <2> HIDE DEF w
  <2>4. req'[r].who = w
    BY <2>1 DEF w
  <2>5. QED
    BY <2>1, <2>2, <2>3, <2>4 DEF Found, Marked
<1>4. ASSUME NEW q \in Req, Submit(q) PROVE Found(r)'
  BY <1>1, <1>4 DEF Submit, GetInbox, MarkRead, TypeOK
<1>5. ASSUME NEW q \in Req, q # r, Handle(q) PROVE Found(r)'
  <2>1. ASSUME SelectInbox(q) \/ Answer(q) PROVE req'[r] = req[r]
    BY <1>5, <2>1 DEF SelectInbox, Answer, TypeOK
  <2>2. ASSUME AckRead(q) \/ \E m \in Msg : Surface(q, m) \/ InsertRead(q, m)
        PROVE  req'[r] = req[r]
    BY <1>5, <2>2 DEF Surface, InsertRead, AckRead, TypeOK
  <2>3. QED
    BY <1>1, <1>5, <2>1, <2>2 DEF Handle
<1>6. CASE Answer(r) \/ AckRead(r) \/ \E m \in Msg : InsertRead(r, m)
  <2>1. CASE Answer(r)
    BY <1>1, <2>1 DEF Answer, TypeOK, Idle
  <2>2. CASE AckRead(r)
    <3>1. req[r] \in Marking
      BY <2>2, RequestFields DEF AckRead
    <3>2. req'[r].pc # "surface"
      BY <2>2, <3>1 DEF AckRead, Marking, TypeOK, Idle
    <3>3. QED
      BY <1>1, <3>2
  <2>3. CASE \E m \in Msg : InsertRead(r, m)
    <3>1. req[r] \in Marking
      BY <2>3, RequestFields DEF InsertRead
    <3>2. req'[r].pc = "acknowledge"
      BY <2>3, <3>1 DEF InsertRead, Marking, TypeOK
    <3>3. QED
      BY <1>1, <3>2
  <2>4. QED
    BY <1>6, <2>1, <2>2, <2>3
<1>7. CASE Deliver \/ Clean \/ Restart \/ UNCHANGED vars
           \/ (\E m \in Msg : InsertMessage(m) \/ Elapse(m))
           \/ (\E m \in Msg, a \in Agent : AckDelivery(m, a))
  <2>1. CASE Restart
    <3>1. req'[r].pc # "surface"
      BY <2>1 DEF Restart, Idle
    <3>2. QED
      BY <1>1, <3>1
  <2>2. CASE Clean \/ UNCHANGED vars
    BY <1>1, <2>2 DEF Clean, CleanMessages, CleanDeliveries, vars
  <2>3. CASE \E m \in Msg : InsertMessage(m) \/ Elapse(m)
    BY <1>1, <2>3 DEF InsertMessage, Elapse
  <2>4. CASE Deliver \/ \E m \in Msg, a \in Agent : AckDelivery(m, a)
    BY <1>1, <2>4 DEF Deliver, CreateDelivery, AckDelivery
  <2>5. QED
    BY <1>7, <2>1, <2>2, <2>3, <2>4
<1>8. QED
  BY <1>2, <1>3, <1>4, <1>5, <1>6, <1>7 DEF Next, Handle

\* An answer shows what is marked.
LEMMA ShownStep ==
  ASSUME TypeOK, Tracked, [Next]_vars
  PROVE  \A d \in shown' : Marked(d)'
<1>1. CASE shown' = shown
  BY <1>1, RowsStay, ShownKept DEF Tracked
<1>2. ASSUME NEW r \in Req, Answer(r) PROVE \A d \in shown' : Marked(d)'
  <2>1. \A m \in req[r].found : Marked(<<m, req[r].who>>)
    BY <1>2 DEF Answer, Tracked, Found
  <2>2. \A d \in shown' : Marked(d)
    BY <1>2, <2>1 DEF Answer, Answers, Tracked
  <2>3. state' = state /\ missed' = missed
    BY <1>2 DEF Answer
  <2>4. QED
    BY <2>2, <2>3 DEF Marked
<1>3. ASSUME NEW r \in Req, Submit(r) \/ Handle(r), ~Answer(r) PROVE shown' = shown
  BY <1>3 DEF Submit, GetInbox, MarkRead, Handle, SelectInbox, Surface, InsertRead, AckRead
<1>4. CASE Deliver \/ Clean \/ Restart \/ UNCHANGED vars
           \/ (\E m \in Msg : InsertMessage(m) \/ Elapse(m))
           \/ (\E m \in Msg, a \in Agent : AckDelivery(m, a))
  <2>1. shown' = shown
    BY <1>4 DEF Deliver, CreateDelivery, Clean, CleanMessages, CleanDeliveries, Restart,
                InsertMessage, Elapse, AckDelivery, vars
  <2>2. QED
    BY <1>1, <2>1
<1>5. QED
  BY <1>1, <1>2, <1>3, <1>4 DEF Next

\* Rows, finds and answers of the first state: there are none.
LEMMA TrackedInit == Init => TypeOK /\ Tracked
BY DeliveriesAssumption DEF Init, TypeOK, Stages, Tracked, Unsent, Found, Idle, Exists, Mail

\* The strengthened invariant is kept by every step.
LEMMA TrackedStep == TypeOK /\ Tracked /\ [Next]_vars => Tracked'
BY UnsentStep, FoundStep, ShownStep DEF Tracked

\* However polls, senders, acknowledgements, expiry and restarts interleave, a
\* message that get_inbox has shown, and marked, is never unread again.
THEOREM ShownStaysRead == Spec => []ShownIsNotUnread
<1>1. Tracked => ShownIsNotUnread
  BY DEF Tracked, Marked, ShownIsNotUnread
<1>2. QED
  BY <1>1, TrackedInit, TypeStep, TrackedStep, PTL DEF Spec

-----------------------------------------------------------------------------
(***************************************************************************)
(* Deliveries implements DeliveryLifecycle.                                *)
(***************************************************************************)

\* Every step moves each delivery forward, or leaves it.
LEMMA StepsForward == TypeOK /\ Tracked /\ [Next]_vars => [DL!Advance]_state
<1> SUFFICES ASSUME TypeOK, Tracked, [Next]_vars PROVE state' = state \/ DL!Advance
  OBVIOUS
<1> DEFINE Forward(d) == state'[d] = state[d] \/ state'[d] \in DL!Forward[state[d]]
<1>1. TypeOK'
  BY TypeStep
<1>2. (\A d \in Mail : Forward(d)) => DL!Advance
  BY <1>1 DEF TypeOK, DL!Advance, DL!Stages, Stages
<1>3. /\ DL!Forward["none"] = {"queued"}
      /\ DL!Forward["queued"] = {"surfaced", "acknowledged", "expired"}
      /\ DL!Forward["surfaced"] = {"acknowledged", "expired"}
  BY DEF DL!Forward, DL!Stages
<1>4. ASSUME NEW m \in Msg, NEW a \in Agent, CreateDelivery(m, a)
      PROVE  \A d \in Mail : Forward(d)
  <2>1. state[<<m, a>>] = "none"
    BY <1>4 DEF CreateDelivery, Tracked, Unsent
  <2>2. QED
    BY <1>3, <1>4, <2>1 DEF CreateDelivery, TypeOK
<1>5. ASSUME NEW m, NEW a, Acknowledge(m, a) PROVE \A d \in Mail : Forward(d)
  BY <1>3, <1>5 DEF Acknowledge, Open, TypeOK
<1>6. ASSUME NEW r \in Req, NEW m \in Msg, Surface(r, m) PROVE \A d \in Mail : Forward(d)
  BY <1>3, <1>6 DEF Surface, Surfaced, TypeOK
<1>7. CASE CleanDeliveries
  <2>1. \A d \in Mail : Forward(d)
    BY <1>3, <1>7 DEF CleanDeliveries, Expired, Open, TypeOK
  <2>2. QED
    BY <1>2, <2>1
<1>8. ASSUME NEW r \in Req, Handle(r) PROVE state' = state \/ DL!Advance
  <2>1. CASE AckRead(r)
    BY <1>2, <1>5, <2>1 DEF AckRead
  <2>2. CASE \E m \in Msg : Surface(r, m)
    BY <1>2, <1>6, <2>2
  <2>3. CASE SelectInbox(r) \/ Answer(r) \/ \E m \in Msg : InsertRead(r, m)
    BY <2>3 DEF SelectInbox, Answer, InsertRead
  <2>4. QED
    BY <1>8, <2>1, <2>2, <2>3 DEF Handle
<1>9. CASE \E m \in Msg, a \in Agent : AckDelivery(m, a)
  BY <1>2, <1>5, <1>9 DEF AckDelivery
<1>10. CASE Deliver
  BY <1>2, <1>4, <1>10 DEF Deliver
<1>11. CASE CleanMessages \/ Restart \/ UNCHANGED vars
            \/ (\E m \in Msg : InsertMessage(m) \/ Elapse(m)) \/ \E r \in Req : Submit(r)
  BY <1>11 DEF CleanMessages, Restart, vars, InsertMessage, Elapse, Submit, GetInbox, MarkRead
<1>12. QED
  BY <1>7, <1>8, <1>9, <1>10, <1>11 DEF Next, Clean

\* The deliveries table implements the promised lifecycle.
THEOREM DeliveriesOnlyForward == Spec => OnlyForward
<1>1. Init => DL!Init
  BY DEF Init, DL!Init
<1>2. QED
  BY <1>1, TrackedInit, TypeStep, TrackedStep, StepsForward, PTL DEF Spec, OnlyForward, DL!Spec
==============================================================================
