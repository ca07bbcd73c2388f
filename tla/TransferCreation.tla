--------------------------- MODULE TransferCreation --------------------------
(***************************************************************************)
(* Create and CreatePending of internal/transfer/postgres/repository.go,   *)
(* statement by statement: each attempt is a SERIALIZABLE transaction that *)
(* reads a snapshot, inserts under the unique (requester, key) and is      *)
(* retried when PostgreSQL reports a serialization failure.  Other         *)
(* attempts, the workers that advance stored transfers, lost connections   *)
(* and cancelled callers interleave with it.                               *)
(*                                                                         *)
(* Accounts, balances and the outbox belong to TransferPipeline, where a   *)
(* creation is one step; here the authorization and the posting only       *)
(* succeed or refuse.  This module shows that one step is what the         *)
(* attempts amount to, and what the callers are told.                      *)
(***************************************************************************)
EXTENDS Lifecycle

CONSTANTS
    Calls,        \* calls, standing for the transfer IDs assigned to them
    Direct,       \* the calls of Create; the others are of CreatePending
    KeyOf,        \* requester and idempotency key of a call
    IntentOf,     \* source, destination and amount of a call
    MaxAttempts   \* maxTransactionAttempts

ASSUME CallsAssumption == Direct \subseteq Calls
ASSUME AttemptsAssumption == MaxAttempts \in Nat \ {0}

VARIABLES
    row,          \* transfers: the lifecycle columns of the stored transfers
    phase,        \* how far every call has come
    attempt,      \* failed attempts of a call that has not returned
    snapshot,     \* the rows the open transaction of a call can see
    answer,       \* what the call returned
    floor         \* history: version of the key's transfer at the call

vars == <<row, phase, attempt, snapshot, answer, floor>>

Absent == [status |-> "absent", version |-> 0, policy |-> NoPolicy,
           journal |-> NoEntry, failure |-> NoFailure]

Nothing == [c \in Calls |-> Absent]

NoAnswer == [kind |-> "none", transfer |-> "none", version |-> 0]

SameKey(c, d) == KeyOf[c] = KeyOf[d]

(* The fields of IntentOf; request time and transfer ID are not compared.  *)
SameIntent(c, d) == IntentOf[c] = IntentOf[d]

Holders(table, c) == {d \in Calls : table[d] # Absent /\ SameKey(c, d)}

(* Transactions that have inserted the key and not yet ended; another      *)
(* insert of the key waits for them.                                       *)
InFlight(c) == {d \in Calls \ {c} : phase[d] = "reserved" /\ SameKey(c, d)}

Init ==
    /\ row = [c \in Calls |-> Absent]
    /\ phase = [c \in Calls |-> "idle"]
    /\ attempt = [c \in Calls |-> 0]
    /\ snapshot = [c \in Calls |-> Nothing]
    /\ answer = [c \in Calls |-> NoAnswer]
    /\ floor = [c \in Calls |-> 0]

Goto(c, p) == phase' = [phase EXCEPT ![c] = p]

EndTransaction(c) == snapshot' = [snapshot EXCEPT ![c] = Nothing]

Return(c, kind, transfer, version) ==
    /\ Goto(c, "done")
    /\ attempt' = [attempt EXCEPT ![c] = 0]
    /\ answer' = [answer EXCEPT ![c] = [kind |-> kind, transfer |-> transfer,
                                        version |-> version]]

(* prepareTransfer or preparePendingTransfer finds an invalid argument:    *)
(* the call returns before any transaction.                                *)
Reject(c) ==
    /\ phase[c] = "idle"
    /\ Return(c, "invalid", "none", 0)
    /\ UNCHANGED <<row, snapshot, floor>>

(* The arguments are valid, and the loop over the attempts begins.         *)
Call(c) ==
    /\ phase[c] = "idle"
    /\ Goto(c, "ready")
    /\ \/ Holders(row, c) = {} /\ floor' = floor
       \/ \E d \in Holders(row, c) :
             floor' = [floor EXCEPT ![c] = row[d].version]
    /\ UNCHANGED <<row, attempt, snapshot, answer>>

(* BeginTx; the snapshot is taken by the first statement, the insert.      *)
Begin(c) ==
    /\ phase[c] = "ready"
    /\ Goto(c, "open")
    /\ snapshot' = [snapshot EXCEPT ![c] = row]
    /\ UNCHANGED <<row, attempt, answer, floor>>

(* ctx.Err() before an attempt.                                            *)
Cancel(c) ==
    /\ phase[c] = "ready"
    /\ Return(c, "error", "none", 0)
    /\ UNCHANGED <<row, snapshot, floor>>

(* Mutant: the key is looked up in the snapshot instead of being unique.   *)
ReserveBySnapshot(c) ==
    /\ phase[c] = "open"
    /\ Holders(snapshot[c], c) = {}
    /\ Goto(c, "reserved")
    /\ UNCHANGED <<row, attempt, snapshot, answer, floor>>

(* The insert finds the key unused.                                        *)
Reserve(c) ==
    /\ phase[c] = "open"
    /\ InFlight(c) = {}
    /\ Holders(row, c) = {}
    /\ Goto(c, "reserved")
    /\ UNCHANGED <<row, attempt, snapshot, answer, floor>>

(* Create answers with the stored intent alone, CreatePending with the     *)
(* stored lifecycle.                                                       *)
VisibleVersion(c, d) == IF c \in Direct THEN 0 ELSE snapshot[c][d].version

(* The insert does nothing, and the select finds the row in the snapshot.  *)
Replay(c) ==
    /\ phase[c] = "open"
    /\ \E d \in Holders(snapshot[c], c) :
          /\ c \in Direct \/ Validate(snapshot[c][d])
          /\ \/ SameIntent(c, d) /\ Return(c, "success", d, VisibleVersion(c, d))
             \/ ~SameIntent(c, d) /\ Return(c, "conflict", "none", 0)
    /\ EndTransaction(c)
    /\ UNCHANGED <<row, floor>>

NextAttempt(c) ==
    /\ attempt' = [attempt EXCEPT ![c] = @ + 1]
    /\ Goto(c, "ready")
    /\ UNCHANGED answer

(* Mutant: one attempt too many.                                           *)
RetryOnceMore(c) ==
    /\ \/ attempt[c] < MaxAttempts /\ NextAttempt(c)
       \/ attempt[c] = MaxAttempts /\ Return(c, "exhausted", "none", 0)
    /\ EndTransaction(c)
    /\ UNCHANGED <<row, floor>>

(* Mutant: retries are not counted.                                        *)
RetryUncounted(c) ==
    /\ Goto(c, "ready")
    /\ EndTransaction(c)
    /\ UNCHANGED <<row, attempt, answer, floor>>

(* isRetryableTransaction: another attempt, or ErrSerializationFailure.    *)
Retry(c) ==
    /\ \/ attempt[c] + 1 < MaxAttempts /\ NextAttempt(c)
       \/ attempt[c] + 1 = MaxAttempts /\ Return(c, "exhausted", "none", 0)
    /\ EndTransaction(c)
    /\ UNCHANGED <<row, floor>>

(* The key belongs to a row that was committed after the snapshot.         *)
RetryHidden(c) ==
    /\ phase[c] = "open"
    /\ Holders(row, c) # {}
    /\ Holders(snapshot[c], c) = {}
    /\ Retry(c)

(* 40001 or 40P01 from any statement or from the commit.                   *)
SerializationFailure(c) ==
    /\ phase[c] \in {"open", "reserved"}
    /\ Retry(c)

(* Mutant: the accounts are authorized before the key is reserved.         *)
RefuseUnreserved(c) ==
    /\ phase[c] \in {"open", "reserved"}
    /\ Return(c, "refused", "none", 0)
    /\ EndTransaction(c)
    /\ UNCHANGED <<row, floor>>

(* authorizeTransferAccounts or PostTx refuse; the rollback frees the key. *)
Refuse(c) ==
    /\ phase[c] = "reserved"
    /\ Return(c, "refused", "none", 0)
    /\ EndTransaction(c)
    /\ UNCHANGED <<row, floor>>

NewRow(c) == IF c \in Direct THEN NewCompletedLifecycle
                             ELSE NewPendingLifecycle("v1")

(* The accounts are authorized, the entry posted, the event stored.        *)
Commit(c) ==
    /\ phase[c] = "reserved"
    /\ row' = [row EXCEPT ![c] = NewRow(c)]
    /\ Goto(c, "committed")
    /\ EndTransaction(c)
    /\ UNCHANGED <<attempt, answer, floor>>

ReturnCreated(c) ==
    /\ phase[c] = "committed"
    /\ Return(c, "success", c, IF c \in Direct THEN 0 ELSE NewRow(c).version)
    /\ EndTransaction(c)
    /\ UNCHANGED <<row, floor>>

(* Any error that is not retried: the connection is lost before or after   *)
(* the commit took effect, or the answer does not reach the caller.        *)
ConnectionLost(c) ==
    /\ phase[c] \in {"open", "reserved", "committed"}
    /\ Return(c, "error", "none", 0)
    /\ EndTransaction(c)
    /\ UNCHANGED <<row, floor>>

(* The workers and analysts of TransferPipeline.                           *)
Advance(c) ==
    /\ \/ CanApprove(row[c]) /\ row' = [row EXCEPT ![c] = Approve(@)]
       \/ CanRequireReview(row[c]) /\ row' = [row EXCEPT ![c] = RequireReview(@)]
       \/ CanDecline(row[c]) /\ row' = [row EXCEPT ![c] = Decline(@)]
       \/ CanComplete(row[c]) /\ row' = [row EXCEPT ![c] = Complete(@)]
       \/ CanFail(row[c]) /\ row' = [row EXCEPT ![c] = Fail(@, InsufficientFunds)]
    /\ UNCHANGED <<phase, attempt, snapshot, answer, floor>>

Attempt(c) ==
    \/ Begin(c) \/ Reserve(c) \/ Replay(c) \/ RetryHidden(c)
    \/ Refuse(c) \/ Commit(c) \/ ReturnCreated(c)

Next ==
    \E c \in Calls :
        \/ Reject(c) \/ Call(c) \/ Attempt(c) \/ Advance(c)
        \/ Cancel(c) \/ SerializationFailure(c) \/ ConnectionLost(c)

Spec == Init /\ [][Next]_vars

(* A call that has begun runs to its end: nothing but its own statements   *)
(* and the lock of a transaction that also runs to its end delays it.      *)
Fairness == \A c \in Calls : WF_vars(Attempt(c))

FairSpec == Spec /\ Fairness

------------------------------------------------------------------------------
(* Properties.                                                             *)

Answers == [kind : {"none", "success", "conflict", "invalid", "refused",
                    "exhausted", "error"},
            transfer : Calls \cup {"none"}, version : Nat]

(* Type correctness of the table, the attempts and the answers.            *)
TypeOK ==
    /\ row \in [Calls -> Lifecycles({"v1"}) \cup {Absent}]
    /\ phase \in [Calls -> {"idle", "ready", "open", "reserved", "committed",
                            "done"}]
    /\ attempt \in [Calls -> 0 .. MaxAttempts - 1]
    /\ snapshot \in [Calls -> [Calls -> Lifecycles({"v1"}) \cup {Absent}]]
    /\ answer \in [Calls -> Answers]
    /\ floor \in [Calls -> Nat]

Registry == INSTANCE TransferRegistry WITH
    stored <- {c \in Calls : row[c] # Absent},
    answer <- [c \in Calls |-> [kind |-> answer[c].kind,
                                transfer |-> answer[c].transfer]]

(* Snapshots, waits, retries and lost connections amount to an atomic      *)
(* registry: createOnce and createPendingOnce never store a key twice, on  *)
(* either path, and every answer of Create and CreatePending is true when  *)
(* it is given.                                                            *)
ImplementsRegistry == Registry!Spec

(* A call of a key that was stored before it is a replay: createOnce looks *)
(* for the key before it authorizes, so no change of accounts or balances  *)
(* turns the answer into a refusal; a success never names a transfer of    *)
(* the call's own, but by ImplementsRegistry the one of the key; and the   *)
(* lifecycle that CreatePending returns is no older than the one stored    *)
(* when the call was made, whichever snapshot its last attempt read.       *)
ReplayIsStable ==
    \A c \in Calls :
        floor[c] > 0 /\ phase[c] = "done" =>
            /\ answer[c].kind # "refused"
            /\ answer[c].kind = "success" => answer[c].transfer # c
            /\ answer[c].kind = "success" /\ c \notin Direct
                  => answer[c].version >= floor[c]

(* Every call returns: neither the wait for another insert of its key nor  *)
(* repeated serialization failures hold it for ever.                       *)
EveryCallReturns ==
    \A c \in Calls : phase[c] = "ready" ~> phase[c] = "done"
==============================================================================
