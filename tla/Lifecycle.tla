------------------------------ MODULE Lifecycle ------------------------------
(***************************************************************************)
(* The transfer aggregate of internal/transfer/domain/lifecycle.go: the    *)
(* mutable lifecycle of one transfer and the transitions of its state      *)
(* machine, as pure operators.  The immutable intent (accounts, amount) is *)
(* kept by the modules that use this one.                                  *)
(*                                                                         *)
(* journal abstracts journalEntryID: the transfer's own ID or nothing; no  *)
(* code path stores any other value.                                       *)
(***************************************************************************)
EXTENDS Integers

(* The empty strings of the code.                                          *)
NoPolicy == "none"
NoEntry == "none"
NoFailure == "none"

OwnEntry == "own_id"
InsufficientFunds == "insufficient_funds"

Statuses == {"pending_risk", "approved", "review_required", "declined",
             "completed", "failed"}

Lifecycles(policies) ==
    [status : Statuses, version : Nat, policy : policies \cup {NoPolicy},
     journal : {NoEntry, OwnEntry}, failure : {NoFailure, InsufficientFunds}]

(* The shape NewLifecycle enforces, on every construction and every load.  *)
Validate(l) ==
    /\ l.version > 0
    /\ l.status = "pending_risk" => l.version = 1
    /\ l.status \in {"approved", "review_required", "declined", "failed"}
         => l.version >= 2
    /\ l.journal = OwnEntry <=> l.status = "completed"
    /\ l.failure # NoFailure <=> l.status = "failed"
    /\ (l.status = "completed" /\ l.version = 1) \/ l.policy # NoPolicy

NewPendingLifecycle(policy) ==
    [status |-> "pending_risk", version |-> 1, policy |-> policy,
     journal |-> NoEntry, failure |-> NoFailure]

(* The column defaults of migration 000005 for a row that Create inserts   *)
(* without naming its lifecycle columns.                                   *)
NewCompletedLifecycle ==
    [status |-> "completed", version |-> 1, policy |-> NoPolicy,
     journal |-> OwnEntry, failure |-> NoFailure]

Transition(l, status, journal, failure) ==
    [status |-> status, version |-> l.version + 1, policy |-> l.policy,
     journal |-> journal, failure |-> failure]

CanApprove(l)       == l.status \in {"pending_risk", "review_required"}
CanRequireReview(l) == l.status = "pending_risk"
CanDecline(l)       == l.status \in {"pending_risk", "review_required"}
CanComplete(l)      == l.status = "approved"
CanFail(l)          == l.status = "approved"

Approve(l)       == Transition(l, "approved", NoEntry, NoFailure)
RequireReview(l) == Transition(l, "review_required", NoEntry, NoFailure)
Decline(l)       == Transition(l, "declined", NoEntry, NoFailure)
(* Mutant: completed without the journal entry ID.                         *)
CompleteWithoutEntry(l) == Transition(l, "completed", NoEntry, NoFailure)

Complete(l)      == Transition(l, "completed", OwnEntry, NoFailure)
Fail(l, reason)  == Transition(l, "failed", NoEntry, reason)
==============================================================================
