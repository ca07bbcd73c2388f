---------------------------- MODULE EventDelivery ----------------------------
(***************************************************************************)
(* What the outbox promises to the rest of the system, and what            *)
(* TransferPipeline assumes of it: an event is delivered only if it was    *)
(* committed, it may be delivered again, in any order with the others, and *)
(* the outbox is done with it only after a delivery.                       *)
(***************************************************************************)
CONSTANT Events

VARIABLES
    committed,   \* events whose transaction has committed
    delivered,   \* events the topic holds, once or several times
    retired      \* events that will not be published again on purpose

vars == <<committed, delivered, retired>>

Init == committed = {} /\ delivered = {} /\ retired = {}

Commit(e) ==
    /\ committed' = committed \cup {e}
    /\ UNCHANGED <<delivered, retired>>

Deliver(e) ==
    /\ e \in committed
    /\ delivered' = delivered \cup {e}
    /\ UNCHANGED <<committed, retired>>

Retire(e) ==
    /\ e \in delivered
    /\ retired' = retired \cup {e}
    /\ UNCHANGED <<committed, delivered>>

Next == \E e \in Events : Commit(e) \/ Deliver(e) \/ Retire(e)

Spec == Init /\ [][Next]_vars
==============================================================================
