-------------------------- MODULE DeliveryLifecycle --------------------------
(***************************************************************************)
(* What delivery tracking promises: the delivery of a message to one       *)
(* recipient is queued once and then only moves forward.                   *)
(***************************************************************************)
CONSTANT Mail  \* messages with one of their recipients

VARIABLE state

Stages == {"none", "queued", "surfaced", "acknowledged", "expired"}

\* Where a delivery may go: an acknowledgement may come before get_inbox has
\* shown the message, and whatever is still open may expire.
Forward ==
    [s \in Stages |->
       CASE s = "none" -> {"queued"}
         [] s = "queued" -> {"surfaced", "acknowledged", "expired"}
         [] s = "surfaced" -> {"acknowledged", "expired"}
         [] OTHER -> {}]

Init == state = [d \in Mail |-> "none"]

\* One statement may move several deliveries.
Advance ==
    /\ state' \in [Mail -> Stages]
    /\ \A d \in Mail : state'[d] = state[d] \/ state'[d] \in Forward[state[d]]

Spec == Init /\ [][Advance]_state
==============================================================================
