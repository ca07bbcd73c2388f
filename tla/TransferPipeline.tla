--------------------------- MODULE TransferPipeline --------------------------
(***************************************************************************)
(* The asynchronous transfer path, end to end: the transfer repository     *)
(* accepts commands, the outbox and Kafka carry their events, the risk     *)
(* worker assesses them, analysts decide review cases, and the transaction *)
(* worker posts approved transfers to the ledger.                          *)
(*                                                                         *)
(* Every handler runs in one SERIALIZABLE PostgreSQL transaction that      *)
(* locks the transfer row, so its database effects are one step.  What is  *)
(* not in that transaction is a step of its own: the append to Kafka, the  *)
(* commit of the consumer offset, and the crash that can come between.     *)
(* A handler that returns an error rolls back and ends its process; the    *)
(* restarted process sees the same record again, so a failing handler is a *)
(* step that is not enabled.                                               *)
(***************************************************************************)
EXTENDS Lifecycle, RiskPolicy, Posting, Sequences, FiniteSets, Functions

CONSTANTS
    Transfers,       \* server-assigned transfer IDs, one per command
    Direct,          \* the commands sent to Create; the others are async
    Intent,          \* the immutable intent of every command
    AccountInfo,     \* owner and currency of every account
    InitialBalance,  \* balance snapshots before the first transfer
    Freezable,       \* accounts an operator may freeze
    Policies,        \* the risk worker's registry, by policy version
    VelocityCounts,  \* counts a successful Redis observation may return
    NanosPerMicro,   \* nanoseconds in the database's time resolution
    Partitions,      \* partitions of the topic
    PartitionOf,     \* the partition of a transfer's record key
    Subjects,        \* verified analysts
    MaxDuplicates,   \* bound: republished records per partition
    MaxPoison        \* bound: undecodable records per partition

ASSUME DirectAssumption == Direct \subseteq Transfers

(* What NewTransfer and NewPendingLifecycle accept.                        *)
ValidIntent(intent) ==
    /\ intent.source \in Nat
    /\ intent.destination \in Nat
    /\ intent.source # intent.destination
    /\ intent.amount \in 1 .. MaxMinor
    /\ intent.requestedAt \in Nat
    /\ intent.policy # NoPolicy

ASSUME IntentAssumption == \A t \in Transfers : ValidIntent(Intent[t])
ASSUME BalanceAssumption ==
    /\ InitialBalance \in [Accounts -> Minor]
    /\ \A a \in Accounts \ System : InitialBalance[a] >= 0
ASSUME PartitionAssumption ==
    /\ Partitions \subseteq Nat
    /\ PartitionOf \in [Transfers -> Partitions]
ASSUME PolicyAssumption == \A v \in DOMAIN Policies : ValidPolicy(Policies[v])

VARIABLES
    row,         \* transfers: the lifecycle columns of every transfer
    assessment,  \* transfer_risk_assessments: the decision on a transfer
    reviewCase,  \* transfer_review_cases: state and decider of a case
    audit,       \* transfer_review_audit_records
    balance,     \* account_balances
    journal,     \* journal_entries: the IDs of posted entries
    frozen,      \* accounts whose status is not active
    outbox,      \* outbox_events: the events committed so far
    topic,       \* the records of each partition of wallet.events.v1
    inbox,       \* consumer_inbox: the events each worker has reserved
    quarantine,  \* consumer_quarantine: <<consumer, partition, offset>>
    offset,      \* committed offset of each consumer group and partition
    acked        \* partition whose next record is handled, not committed

database == <<row, assessment, reviewCase, audit, balance, journal, outbox>>
vars == <<database, frozen, topic, inbox, quarantine, offset, acked>>

Workers == {"risk", "transaction"}
NoPartition == -1

------------------------------------------------------------------------------
(* Rows, events and records.                                               *)

Absent == [status |-> "absent", version |-> 0, policy |-> NoPolicy,
           journal |-> NoEntry, failure |-> NoFailure]

NoCase == [status |-> "none", by |-> "none"]

EventTypes == {"requested", "risk_assessed", "review_decided", "completed",
               "failed"}

(* An event is identified by the unique key of outbox_events.  decision is *)
(* its only payload field that a consumer branches on; the intent and the  *)
(* policy version it repeats are those of Intent.                          *)
Event(type, t, l, decision) ==
    [type |-> type, transfer |-> t, version |-> l.version,
     decision |-> decision]

(* The event of each transition, from the new lifecycle of the transfer.   *)
Requested(t, l)              == Event("requested", t, l, "none")
RiskAssessed(t, l, decision) == Event("risk_assessed", t, l, decision)
ReviewDecided(t, l)          == Event("review_decided", t, l, l.status)
Completed(t, l)              == Event("completed", t, l, "none")
Failed(t, l)                 == Event("failed", t, l, "none")

(* Records other producers may write: one whose envelope does not parse or *)
(* whose type is unknown, and one whose payload its consumer rejects.      *)
Unknown == [type |-> "unknown", transfer |-> "none", version |-> 0,
            decision |-> "none"]
Malformed == [type |-> "risk_assessed", transfer |-> "none", version |-> 0,
              decision |-> "none"]
PoisonRecords == {Unknown, Malformed}

(* An analyst's decision is the name of the status it leads to.            *)
ReviewDecisions == {"approved", "declined"}

(* What the Parse functions require beyond the decoding of the payload.    *)
WellFormed(e) ==
    /\ e.type = "requested" => e.version = 1
    /\ e.type = "risk_assessed" => e.version = 2 /\ e.decision \in Decisions
    /\ e.type = "review_decided" =>
          e.version >= 3 /\ e.decision \in ReviewDecisions

OwnedTypes(w) == IF w = "risk" THEN {"requested"}
                               ELSE {"risk_assessed", "review_decided"}

(* The database keeps microseconds; the event payload keeps nanoseconds.   *)
StoredTime(nanos) == (nanos \div NanosPerMicro) * NanosPerMicro

------------------------------------------------------------------------------
(* Initial states.                                                         *)

Init ==
    /\ row = [t \in Transfers |-> Absent]
    /\ assessment = [t \in Transfers |-> "none"]
    /\ reviewCase = [t \in Transfers |-> NoCase]
    /\ audit = {}
    /\ balance = InitialBalance
    /\ journal = {}
    /\ frozen = {}
    /\ outbox = {}
    /\ topic = [p \in Partitions |-> <<>>]
    /\ inbox = [w \in Workers |-> {}]
    /\ quarantine = {}
    /\ offset = [w \in Workers |-> [p \in Partitions |-> 0]]
    /\ acked = [w \in Workers |-> NoPartition]

------------------------------------------------------------------------------
(* The transfer repository.  A call that finds its key taken, is refused   *)
(* or fails rolls back: only the inserting outcome changes the state.      *)

(* No row holds the command's requester and idempotency key.               *)
KeyIsFree(t) ==
    \A u \in Transfers :
        row[u] # Absent => \/ Intent[u].requester # Intent[t].requester
                           \/ Intent[u].key # Intent[t].key

Usable(a, currency) ==
    /\ a \in Accounts \ System
    /\ a \notin frozen
    /\ AccountInfo[a].currency = currency

AuthorizeTransferAccounts(t) ==
    /\ Usable(Intent[t].source, Intent[t].currency)
    /\ AccountInfo[Intent[t].source].owner = Intent[t].requester
    /\ Usable(Intent[t].destination, Intent[t].currency)

(* The two postings of a transfer's journal entry, by account.             *)
JournalEntry(t) ==
    [a \in {Intent[t].source, Intent[t].destination} |->
        IF a = Intent[t].source THEN -Intent[t].amount ELSE Intent[t].amount]

(* PostTx succeeds: balances move and the entry takes the transfer's ID.   *)
PostTx(t) ==
    /\ PostingError(balance, JournalEntry(t)) = "none"
    /\ t \notin journal
    /\ balance' = ApplyChange(balance, JournalEntry(t))
    /\ journal' = journal \cup {t}

AddTx(event) ==
    /\ event \notin outbox
    /\ outbox' = outbox \cup {event}

CreatePending(t) ==
    /\ t \notin Direct
    /\ row[t] = Absent
    /\ KeyIsFree(t)
    /\ AuthorizeTransferAccounts(t)
    /\ row' = [row EXCEPT ![t] = NewPendingLifecycle(Intent[t].policy)]
    /\ AddTx(Requested(t, row'[t]))
    /\ UNCHANGED <<assessment, reviewCase, audit, balance, journal, frozen,
                   topic, inbox, quarantine, offset, acked>>

Create(t) ==
    /\ t \in Direct
    /\ row[t] = Absent
    /\ KeyIsFree(t)
    /\ AuthorizeTransferAccounts(t)
    /\ row' = [row EXCEPT ![t] = NewCompletedLifecycle]
    /\ PostTx(t)
    /\ AddTx(Completed(t, row'[t]))
    /\ UNCHANGED <<assessment, reviewCase, audit, frozen, topic, inbox,
                   quarantine, offset, acked>>

------------------------------------------------------------------------------
(* Kafka.  OutboxPublisher details how a committed event gets there.       *)

RecordsIn(p) == {topic[p][i] : i \in DOMAIN topic[p]}

AppendRecord(p, record) == topic' = [topic EXCEPT ![p] = Append(@, record)]

Publish(e) ==
    /\ e \in outbox
    /\ e \notin RecordsIn(PartitionOf[e.transfer])
    /\ AppendRecord(PartitionOf[e.transfer], e)
    /\ UNCHANGED <<database, frozen, inbox, quarantine, offset, acked>>

(* A lost acknowledgement, or a publisher that died before MarkPublished.  *)
Republish(e) ==
    LET p == PartitionOf[e.transfer] IN
    /\ e \in outbox
    /\ e \in RecordsIn(p)
    /\ Len(topic[p]) - Cardinality(RecordsIn(p)) < MaxDuplicates
    /\ AppendRecord(p, e)
    /\ UNCHANGED <<database, frozen, inbox, quarantine, offset, acked>>

(* Another producer writes a record these workers cannot use.              *)
InjectPoison(p, record) ==
    /\ Cardinality({i \in DOMAIN topic[p] : topic[p][i] \in PoisonRecords})
         < MaxPoison
    /\ AppendRecord(p, record)
    /\ UNCHANGED <<database, frozen, inbox, quarantine, offset, acked>>

------------------------------------------------------------------------------
(* The consume loops: one record at a time, its offset committed after it. *)

Ready(w, p) == acked[w] = NoPartition /\ offset[w][p] < Len(topic[p])

Record(w, p) == topic[p][offset[w][p] + 1]

AdvanceOffset(w, p) == offset' = [offset EXCEPT ![w][p] = @ + 1]

(* Parsing succeeds and, in the risk worker, the policy is registered.     *)
Accepts(w, e) ==
    /\ e.type \in OwnedTypes(w)
    /\ WellFormed(e)
    /\ w = "risk" => Intent[e.transfer].policy \in DOMAIN Policies

(* handleRecord returns without the handler: a known type of another       *)
(* consumer.                                                               *)
IgnoreRecord(w, p) ==
    /\ Ready(w, p)
    /\ Record(w, p).type \in EventTypes \ OwnedTypes(w)
    /\ AdvanceOffset(w, p)
    /\ UNCHANGED <<database, frozen, topic, inbox, quarantine, acked>>

(* ReserveTx finds the event in the inbox: the handler commits nothing.    *)
SkipReserved(w, p) ==
    /\ Ready(w, p)
    /\ Accepts(w, Record(w, p))
    /\ Record(w, p) \in inbox[w]
    /\ AdvanceOffset(w, p)
    /\ UNCHANGED <<database, frozen, topic, inbox, quarantine, acked>>

(* Mutant: knownEventType knows only the consumer's own types.             *)
QuarantinableIfNotOwned(w, e) ==
    e.type \notin OwnedTypes(w) \/ ~WellFormed(e)

(* Mutant: an unknown type is an error like any other.                     *)
QuarantinableIfMalformed(w, e) == e.type \in OwnedTypes(w) /\ ~WellFormed(e)

(* Mutant: a payload that does not parse is an error like any other.       *)
QuarantinableIfUnknown(w, e) == e.type \notin EventTypes

(* The envelope, its type or the payload of an owned type is unusable.     *)
Quarantinable(w, e) ==
    \/ e.type \notin EventTypes
    \/ e.type \in OwnedTypes(w) /\ ~WellFormed(e)

(* Mutant: the record is skipped without being stored.                     *)
DropRecord(w, p) ==
    /\ Ready(w, p)
    /\ Quarantinable(w, Record(w, p))
    /\ acked' = [acked EXCEPT ![w] = p]
    /\ UNCHANGED <<database, frozen, topic, inbox, quarantine, offset>>

(* quarantine.Store ignores a conflict: the same offset is stored once.    *)
QuarantineRecord(w, p) ==
    /\ Ready(w, p)
    /\ Quarantinable(w, Record(w, p))
    /\ quarantine' = quarantine \cup {<<w, p, offset[w][p]>>}
    /\ acked' = [acked EXCEPT ![w] = p]
    /\ UNCHANGED <<database, frozen, topic, inbox, offset>>

CommitRecords(w) ==
    /\ acked[w] # NoPartition
    /\ AdvanceOffset(w, acked[w])
    /\ acked' = [acked EXCEPT ![w] = NoPartition]
    /\ UNCHANGED <<database, frozen, topic, inbox, quarantine>>

(* The process dies, or CommitRecords fails, after the database commit.    *)
Crash(w) ==
    /\ acked[w] # NoPartition
    /\ acked' = [acked EXCEPT ![w] = NoPartition]
    /\ UNCHANGED <<database, frozen, topic, inbox, quarantine, offset>>

(* Mutant: the reservation is not part of the handler's transaction.       *)
ReserveOutsideTx(w, p) ==
    /\ Ready(w, p)
    /\ Accepts(w, Record(w, p))
    /\ Record(w, p) \notin inbox[w]
    /\ acked' = [acked EXCEPT ![w] = p]
    /\ UNCHANGED <<frozen, topic, inbox, quarantine, offset>>

(* The frame of a handler that reserved its event and committed.           *)
Reserve(w, p) ==
    /\ Ready(w, p)
    /\ Accepts(w, Record(w, p))
    /\ Record(w, p) \notin inbox[w]
    /\ inbox' = [inbox EXCEPT ![w] = @ \cup {Record(w, p)}]
    /\ acked' = [acked EXCEPT ![w] = p]
    /\ UNCHANGED <<frozen, topic, quarantine, offset>>

(* The row exists and NewLifecycle accepts it; otherwise the caller fails. *)
LoadLifecycleForUpdateTx(t) == row[t] # Absent /\ Validate(row[t])

(* Under the row lock, the status and version it compares are the loaded.  *)
StoreLifecycleTransitionTx(t, next) == row' = [row EXCEPT ![t] = next]

------------------------------------------------------------------------------
(* The risk worker.                                                        *)

(* What captureInput may observe: Redis answers or not; without a policy   *)
(* that needs velocity there is only the no-op observer.                   *)
Observations ==
    IF \E v \in DOMAIN Policies : RequiresVelocity(Policies[v])
    THEN [count : VelocityCounts, degraded : {FALSE}]
           \cup {[count |-> 0, degraded |-> TRUE]}
    ELSE {[count |-> 0, degraded |-> FALSE]}

CaptureInput(t, seen) ==
    [currency |-> Intent[t].currency, amount |-> Intent[t].amount,
     count |-> seen.count, degraded |-> seen.degraded]

CanAssess(l, decision) ==
    CASE decision = "approve" -> CanApprove(l)
      [] decision = "review"  -> CanRequireReview(l)
      [] decision = "decline" -> CanDecline(l)

Assessed(l, decision) ==
    CASE decision = "approve" -> Approve(l)
      [] decision = "review"  -> RequireReview(l)
      [] decision = "decline" -> Decline(l)

(* Mutant: the resulting status is stored in the decision column.          *)
StoreStatusAsDecision(t, decision) ==
    /\ assessment[t] = "none"
    /\ assessment' = [assessment EXCEPT ![t] = Assessed(row[t], decision).status]
    /\ row' = [row EXCEPT ![t] = Assessed(@, decision)]
    /\ reviewCase' = IF decision = "review"
                     THEN [reviewCase EXCEPT ![t] = [status |-> "open", by |-> "none"]]
                     ELSE reviewCase

(* The assessment, the new lifecycle and, for a review, the open case.     *)
StoreRiskAssessmentTx(t, decision) ==
    /\ assessment[t] = "none"
    /\ assessment' = [assessment EXCEPT ![t] = decision]
    /\ row' = [row EXCEPT ![t] = Assessed(@, decision)]
    /\ reviewCase' = IF decision = "review"
                     THEN [reviewCase EXCEPT ![t] = [status |-> "open", by |-> "none"]]
                     ELSE reviewCase

RiskHandle(p) ==
    LET t == Record("risk", p).transfer IN
    /\ Reserve("risk", p)
    /\ LoadLifecycleForUpdateTx(t)
    /\ row[t].status = "pending_risk"
    /\ StoredTime(Intent[t].requestedAt) = Intent[t].requestedAt
    /\ \E seen \in Observations :
          LET decision == Evaluate(Policies[Intent[t].policy],
                                   CaptureInput(t, seen)).decision IN
          /\ CanAssess(row[t], decision)
          /\ StoreRiskAssessmentTx(t, decision)
          /\ AddTx(RiskAssessed(t, row'[t], decision))
    /\ UNCHANGED <<audit, balance, journal>>

------------------------------------------------------------------------------
(* Analyst review.  HTTP, OIDC and the rate limiter only refuse requests.  *)

Decided(l, decision) == IF decision = "approved" THEN Approve(l) ELSE Decline(l)

(* Closes the case only if it is open.                                     *)
DecideReviewCaseTx(t, decision, subject) ==
    /\ reviewCase[t].status = "open"
    /\ reviewCase' = [reviewCase EXCEPT ![t] = [status |-> decision,
                                               by |-> subject]]

AppendReviewDecisionTx(t, version, decision, subject) ==
    /\ version >= 3
    /\ audit' = audit \cup {[transfer |-> t, version |-> version,
                             decision |-> decision, by |-> subject]}

(* Mutant: a decision on a transfer that already has one is not refused.   *)
DecideAgain(t, decision, subject) ==
    /\ row[t].status \in {"review_required", "approved"}
    /\ row[t].version \in 2 .. 3
    /\ assessment[t] = "review"
    /\ StoreLifecycleTransitionTx(t, Decided(row[t], decision))
    /\ reviewCase' = [reviewCase EXCEPT ![t] = [status |-> decision,
                                               by |-> subject]]
    /\ AppendReviewDecisionTx(t, row'[t].version, decision, subject)
    /\ AddTx(ReviewDecided(t, row'[t]))
    /\ UNCHANGED <<assessment, balance, journal, frozen, topic, inbox,
                   quarantine, offset, acked>>

(* Mutant: the case is left open.                                          *)
DecideLeavingCaseOpen(t, decision, subject) ==
    /\ LoadLifecycleForUpdateTx(t)
    /\ row[t].status = "review_required"
    /\ StoreLifecycleTransitionTx(t, Decided(row[t], decision))
    /\ AppendReviewDecisionTx(t, row'[t].version, decision, subject)
    /\ AddTx(ReviewDecided(t, row'[t]))
    /\ UNCHANGED <<assessment, reviewCase, balance, journal, frozen, topic, inbox,
                   quarantine, offset, acked>>

Decide(t, decision, subject) ==
    /\ LoadLifecycleForUpdateTx(t)
    /\ row[t].status = "review_required"
    /\ StoreLifecycleTransitionTx(t, Decided(row[t], decision))
    /\ DecideReviewCaseTx(t, decision, subject)
    /\ AppendReviewDecisionTx(t, row'[t].version, decision, subject)
    /\ AddTx(ReviewDecided(t, row'[t]))
    /\ UNCHANGED <<assessment, balance, journal, frozen, topic, inbox,
                   quarantine, offset, acked>>

------------------------------------------------------------------------------
(* The transaction worker.                                                 *)

PostAndComplete(t) ==
    /\ PostTx(t)
    /\ CanComplete(row[t])
    /\ StoreLifecycleTransitionTx(t, Complete(row[t]))
    /\ AddTx(Completed(t, row'[t]))

(* Mutant: the entry is inserted before the balances are checked.          *)
FailAfterInsert(t) ==
    /\ PostingError(balance, JournalEntry(t)) = InsufficientFunds
    /\ CanFail(row[t])
    /\ StoreLifecycleTransitionTx(t, Fail(row[t], InsufficientFunds))
    /\ journal' = journal \cup {t}
    /\ AddTx(Failed(t, row'[t]))
    /\ UNCHANGED balance

(* Mutant: the failure is stored and not announced.                        *)
FailSilently(t) ==
    /\ PostingError(balance, JournalEntry(t)) = InsufficientFunds
    /\ CanFail(row[t])
    /\ StoreLifecycleTransitionTx(t, Fail(row[t], InsufficientFunds))
    /\ UNCHANGED <<balance, journal, outbox>>

FailTransfer(t) ==
    /\ PostingError(balance, JournalEntry(t)) = InsufficientFunds
    /\ CanFail(row[t])
    /\ StoreLifecycleTransitionTx(t, Fail(row[t], InsufficientFunds))
    /\ AddTx(Failed(t, row'[t]))
    /\ UNCHANGED <<balance, journal>>

(* Every other posting error is returned and rolls the handler back.       *)
Post(t) ==
    /\ row[t].status = "approved"
    /\ PostAndComplete(t) \/ FailTransfer(t)
    /\ UNCHANGED <<assessment, reviewCase, audit>>

StatusForDecision(decision) ==
    CASE decision = "approve" -> "approved"
      [] decision = "review"  -> "review_required"
      [] decision = "decline" -> "declined"

HandleRiskAssessed(p) ==
    LET e == Record("transaction", p) IN
    /\ Reserve("transaction", p)
    /\ e.type = "risk_assessed"
    /\ LoadLifecycleForUpdateTx(e.transfer)
    /\ row[e.transfer].version = e.version
    /\ row[e.transfer].status = StatusForDecision(e.decision)
    /\ \/ e.decision # "approve" /\ UNCHANGED database
       \/ e.decision = "approve" /\ Post(e.transfer)

HandleReviewDecision(p) ==
    LET e == Record("transaction", p) IN
    /\ Reserve("transaction", p)
    /\ e.type = "review_decided"
    /\ LoadLifecycleForUpdateTx(e.transfer)
    /\ row[e.transfer].version = e.version
    /\ row[e.transfer].status = e.decision
    /\ \/ e.decision = "declined" /\ UNCHANGED database
       \/ e.decision = "approved" /\ Post(e.transfer)

------------------------------------------------------------------------------
(* An operator freezes an account in the database.                         *)

Freeze(a) ==
    /\ a \in Freezable \ frozen
    /\ frozen' = frozen \cup {a}
    /\ UNCHANGED <<database, topic, inbox, quarantine, offset, acked>>

------------------------------------------------------------------------------
(* The specification.                                                      *)

Consume(w, p) ==
    \/ IgnoreRecord(w, p)
    \/ SkipReserved(w, p)
    \/ QuarantineRecord(w, p)
    \/ w = "risk" /\ RiskHandle(p)
    \/ w = "transaction" /\ (HandleRiskAssessed(p) \/ HandleReviewDecision(p))

Next ==
    \/ \E t \in Transfers : CreatePending(t) \/ Create(t)
    \/ \E t \in Transfers, d \in ReviewDecisions, s \in Subjects : Decide(t, d, s)
    \/ \E e \in outbox : Publish(e) \/ Republish(e)
    \/ \E p \in Partitions, r \in PoisonRecords : InjectPoison(p, r)
    \/ \E w \in Workers, p \in Partitions : Consume(w, p)
    \/ \E w \in Workers : CommitRecords(w) \/ Crash(w)
    \/ \E a \in Accounts : Freeze(a)

Spec == Init /\ [][Next]_vars

(* The publisher polls for ever and retries what it could not deliver; a   *)
(* worker is restarted and polls for ever.  A worker may crash any number  *)
(* of times between a database commit and its offset commit, but not every *)
(* time: hence strong fairness of CommitRecords.  Nothing obliges a client *)
(* to send a command, an analyst to decide or an operator to act.          *)
Fairness ==
    /\ WF_vars(\E e \in outbox : Publish(e))
    /\ \A w \in Workers, p \in Partitions : WF_vars(Consume(w, p))
    /\ \A w \in Workers : SF_vars(CommitRecords(w))

FairSpec == Spec /\ Fairness

------------------------------------------------------------------------------
(* Properties.                                                             *)

StoredLifecycles == Lifecycles({Intent[t].policy : t \in Transfers})

Events == [type : EventTypes, transfer : Transfers, version : Nat,
           decision : {"none"} \cup Decisions \cup ReviewDecisions]

Cases == [status : {"none", "open"} \cup ReviewDecisions,
          by : {"none"} \cup Subjects]

AuditRecords == [transfer : Transfers, version : Nat,
                 decision : ReviewDecisions, by : Subjects]

(* Type correctness of the tables, the topic and the consumers' positions. *)
TypeOK ==
    /\ row \in [Transfers -> StoredLifecycles \cup {Absent}]
    /\ assessment \in [Transfers -> Decisions \cup {"none"}]
    /\ reviewCase \in [Transfers -> Cases]
    /\ audit \subseteq AuditRecords
    /\ balance \in [Accounts -> Minor]
    /\ journal \subseteq Transfers
    /\ frozen \subseteq Accounts
    /\ outbox \subseteq Events
    /\ topic \in [Partitions -> Seq(Events \cup PoisonRecords)]
    /\ inbox \in [Workers -> SUBSET Events]
    /\ quarantine \subseteq Workers \X Partitions \X Nat
    /\ offset \in [Workers -> [Partitions -> Nat]]
    /\ acked \in [Workers -> Partitions \cup {NoPartition}]

(* Whatever the interleaving of repository, workers and analysts, every    *)
(* stored row satisfies the domain's invariants, so that                   *)
(* LoadLifecycleForUpdateTx can restore it; a row that failed NewLifecycle *)
(* would stop both workers on its next event.                              *)
StoredLifecyclesAreValid ==
    \A t \in Transfers : row[t] # Absent => Validate(row[t])

(* Money moves exactly with completion, across duplicates and crashes: the *)
(* ledger has an entry for a transfer if and only if its row is completed. *)
PostedIffCompleted == journal = {t \in Transfers : row[t].status = "completed"}

(* No order of direct transfers and postings overdraws a customer account. *)
NoOverdraft == \A a \in Accounts \ System : balance[a] >= 0

EntryEffectOn(a) ==
    [t \in Transfers |-> IF a \in DOMAIN JournalEntry(t) THEN JournalEntry(t)[a] ELSE 0]

(* The balances are exactly the sums of the posted entries: no update is   *)
(* lost or applied twice by concurrent postings.                           *)
BalancesAreJournalSums ==
    \A a \in Accounts :
        balance[a] = InitialBalance[a] + SumFunctionOnSet(EntryEffectOn(a), journal)

EventsOf(t) == {e \in outbox : e.transfer = t}

(* The outbox tells the whole life of every transfer: one event for each   *)
(* version from 1 to the row's, so no transition is lost, told twice or    *)
(* told without having happened.                                           *)
OutboxTellsEveryVersion ==
    \A t \in Transfers :
        /\ {e.version : e \in EventsOf(t)} = 1 .. row[t].version
        /\ \A e, f \in EventsOf(t) : e.version = f.version => e = f

(* The events that make the transaction worker post.                       *)
Approval(e) == \/ e.type = "risk_assessed" /\ e.decision = "approve"
               \/ e.type = "review_decided" /\ e.decision = "approved"

(* Exactly-once processing: a worker's inbox and the effect of the event   *)
(* agree at every moment.  The risk worker has a transfer's request in its *)
(* inbox exactly when it is assessed, and the transaction worker has its   *)
(* approval exactly when it is settled.                                    *)
InboxAgreesWithEffects ==
    \A t \in Transfers \ Direct :
        /\ (\E e \in inbox["risk"] : e.transfer = t)
              <=> row[t].status \notin {"absent", "pending_risk"}
        /\ (\E e \in inbox["transaction"] : e.transfer = t /\ Approval(e))
              <=> row[t].status \in {"completed", "failed"}

Processed(w, p, i) ==
    LET e == topic[p][i] IN
    \/ e \in inbox[w]
    \/ e.type \in EventTypes \ OwnedTypes(w)
    \/ <<w, p, i - 1>> \in quarantine

(* At-least-once consumption: every record below a committed offset, and   *)
(* the record whose offset is about to be committed, has been reserved in  *)
(* the inbox, belongs to another consumer, or is in quarantine.            *)
NoRecordLost ==
    \A w \in Workers, p \in Partitions :
        /\ offset[w][p] <= Len(topic[p])
        /\ \A i \in 1 .. offset[w][p] : Processed(w, p, i)
        /\ acked[w] = p => /\ offset[w][p] < Len(topic[p])
                           /\ Processed(w, p, offset[w][p] + 1)

(* Quarantine diverts only what it is meant for: no event that the system  *)
(* itself committed is ever quarantined by the worker that must act on it. *)
NoCommittedEventQuarantined ==
    \A q \in quarantine : /\ q[3] < Len(topic[q[2]])
                          /\ topic[q[2]][q[3] + 1] \notin outbox

(* The evidence of a manual decision is complete: a transfer has a case if *)
(* and only if its assessment was a review, the case is closed if and only *)
(* if exactly one audit record names the same decision and analyst, and    *)
(* that decision is the one in the version-3 event.                        *)
ReviewTrailIsComplete ==
    \A t \in Transfers :
        /\ reviewCase[t] # NoCase <=> assessment[t] = "review"
        /\ reviewCase[t].status = "open" <=> row[t].status = "review_required"
        /\ {r \in audit : r.transfer = t} =
              IF reviewCase[t].status \in ReviewDecisions
              THEN {[transfer |-> t, version |-> 3, by |-> reviewCase[t].by,
                     decision |-> reviewCase[t].status]}
              ELSE {}
        /\ {e.decision : e \in {f \in EventsOf(t) : f.type = "review_decided"}} =
              {reviewCase[t].status} \cap ReviewDecisions

(* The pipeline implements the documented life of a transfer.              *)
Abstract == INSTANCE TransferLifecycle WITH
    status  <- [t \in Transfers |-> row[t].status],
    version <- [t \in Transfers |-> row[t].version],
    moved   <- journal,
    facts   <- {<<e.transfer, e.version>> : e \in outbox}

(* Every step of the code moves at most one transfer, along one documented *)
(* edge, with one event and with the ledger entry exactly on completion.   *)
ImplementsTransferLifecycle == Abstract!Spec

(* The posting rechecks account status: no entry is posted while one of    *)
(* its accounts is not active.                                             *)
PostedAccountsAreActive ==
    [][\A t \in journal' \ journal : DOMAIN JournalEntry(t) \cap frozen = {}]_vars

(* Every accepted transfer is assessed, whatever crashes, duplicates and   *)
(* unusable records its partition carries.                                 *)
AcceptedIsAssessed ==
    \A t \in Transfers :
        row[t].status = "pending_risk" ~> row[t].status # "pending_risk"

(* Every approved transfer is posted or fails explicitly.                  *)
ApprovedIsSettled ==
    \A t \in Transfers :
        row[t].status = "approved" ~> row[t].status \in {"completed", "failed"}
==============================================================================
