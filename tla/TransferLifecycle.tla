-------------------------- MODULE TransferLifecycle --------------------------
(***************************************************************************)
(* What the system promises of every transfer, with no database, broker or *)
(* worker: the documented life of a transfer as one visible state machine, *)
(* and the set of transfers whose money has moved.  Every step moves one   *)
(* transfer along one edge and its version by one, and money moves exactly *)
(* in the step that completes the transfer.  Every step also records one   *)
(* fact for the consumers: the transfer and its new version.               *)
(***************************************************************************)
EXTENDS Integers

CONSTANTS
    Transfers,   \* all transfers
    Direct       \* those completed in the step that accepts them

VARIABLES
    status,      \* the visible status of every transfer
    version,     \* the number of transitions it has made
    moved,       \* the transfers whose money has moved
    facts        \* <<transfer, version>> of every fact recorded for consumers

vars == <<status, version, moved, facts>>

Init ==
    /\ status = [t \in Transfers |-> "absent"]
    /\ version = [t \in Transfers |-> 0]
    /\ moved = {}
    /\ facts = {}

(* One edge of the life of t, recorded as one fact.                        *)
Move(t, from, to) ==
    /\ status[t] = from
    /\ status' = [status EXCEPT ![t] = to]
    /\ version' = [version EXCEPT ![t] = version[t] + 1]
    /\ facts' = facts \cup {<<t, version[t] + 1>>}

Accept(t) ==
    /\ t \notin Direct
    /\ Move(t, "absent", "pending_risk")
    /\ UNCHANGED moved

AcceptDirect(t) ==
    /\ t \in Direct
    /\ Move(t, "absent", "completed")
    /\ moved' = moved \cup {t}

Assess(t) ==
    /\ \E to \in {"approved", "review_required", "declined"} :
          Move(t, "pending_risk", to)
    /\ UNCHANGED moved

Review(t) ==
    /\ \E to \in {"approved", "declined"} : Move(t, "review_required", to)
    /\ UNCHANGED moved

Settle(t) ==
    /\ Move(t, "approved", "completed")
    /\ moved' = moved \cup {t}

Refuse(t) ==
    /\ Move(t, "approved", "failed")
    /\ UNCHANGED moved

Next ==
    \E t \in Transfers :
        \/ Accept(t) \/ AcceptDirect(t)
        \/ Assess(t) \/ Review(t)
        \/ Settle(t) \/ Refuse(t)

Spec == Init /\ [][Next]_vars
==============================================================================
