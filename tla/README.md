# Verification of intelligent-wallet-ledger

TLA+ specifications of the wallet ledger, TLC
configurations that check them on small instances, and TLAPS proofs of the main
safety properties for every instance. Source paths are relative to the
repository; `PROJECT.json` maps every definition to the lines it models.

## The system

| part | state | operations | hard behaviour |
|---|---|---|---|
| transfer domain (`internal/transfer/domain`) | status, version, policy, journal entry and failure of one transfer | Approve, RequireReview, Decline, Complete, Fail; validation of every loaded row | a legal sequence that stores a row which cannot be loaded |
| transfer repository (`internal/transfer/postgres`) | `transfers`, `transfer_risk_assessments`, `transfer_review_cases` | Create (posts at once), CreatePending, StoreRiskAssessmentTx, StoreLifecycleTransitionTx, DecideReviewCaseTx | two creations with one key; stale snapshots and retries |
| ledger (`internal/ledger`) | `journal_entries`, `account_balances` | PostTx, Post, reversal, Get, Reconcile | concurrent postings, overdraft, overflow, double reversal |
| outbox (`internal/outbox`) | `outbox_events` with claim, lease, availability, attempts | AddTx, Claim, Publish, MarkPublished, MarkFailed | lost acknowledgement, lease that expires in a batch, stale owner, crash between broker and database |
| inbox, quarantine | `consumer_inbox`, `consumer_quarantine` | ReserveTx, Store | redelivery, crash before the offset commit, unusable records |
| risk worker (`internal/app/riskworker`) | consumer offset | Handle, consume | stuck partitions, comparison of event and row |
| risk policy, Redis velocity (`internal/risk`) | thresholds, counters | Evaluate, Observe | Redis unavailable, observation that outlives a rollback |
| transaction worker (`internal/app/transactionworker`) | consumer offset | Handle, handleReviewDecision, post, fail | events older than the row, failure inside the posting transaction |
| review decisions (`internal/app/reviewcase`, `internal/audit`) | case, audit record | Decide, AppendReviewDecisionTx | two analysts, decision that overtakes the worker |
| HTTP adapter for reviews, rate limiter (`internal/adapter/http/reviewdecision`) | token buckets | ServeHTTP, Allow | eviction at the limit, clock readings applied out of order |
| wallet repository (`internal/wallet/postgres`) | wallets, accounts, balances | Create, Get | accounts that appear beside a running posting |
| investigator, metrics, entry points | none durable | – | – |

A command is stored with its event in one PostgreSQL transaction. A publisher
sends the event to Kafka under the key of its transfer. The risk worker handles
`requested`, stores the assessment and emits `risk_assessed`. The transaction
worker handles `risk_assessed` and `review_decided` and posts approved
transfers. An analyst closes an open case over HTTP, which emits
`review_decided`. Every handler runs in one SERIALIZABLE transaction that
reserves the event in the inbox and locks the transfer; the offset is committed
afterwards, and a handler error ends the process.

What each part owes: every stored row can be loaded; money moves exactly with
completion; no customer is overdrawn; every transition is announced once;
every event takes effect exactly once; no consumed record is lost; quarantine
takes only unusable records; a manual decision leaves one complete trail; a live
claim is respected; what is committed is eventually published, assessed and
settled; calls of one key are answered with one transfer; ledger entries are
posted as if one at a time; a rebalance neither loses nor repeats an effect; a
velocity count is of its window; admitted review requests stay within the rate.

## Modules

The transfer path:

* `Lifecycle`, `RiskPolicy`, `Posting`: the pure algorithms (state machine and
  validation, policy evaluation, balance checks in lock order).
* `TransferLifecycle`: the abstract life of a transfer. One step moves one
  transfer along one edge, records one fact, and moves money exactly on
  completion.
* `TransferPipeline`: the whole asynchronous path. Its variables are the tables,
  the partitions of the topic, and the consumers' offsets; its actions are the
  handlers with everything they call, plus the steps that lie outside a database
  transaction (publication, offset commit, crash). `acked` holds the partition
  of a record whose transaction has committed and whose offset has not. A
  handler that returns an error rolls back and is retried after the restart, so
  it is an action that is not enabled. A skipped or ignored record changes no
  table, so its offset commit is part of the same step.
* `MCTransferPipeline`: commands, accounts and policies of the runs.
* `EventDelivery`: what the outbox promises, which is what `Publish` and
  `Republish` of `TransferPipeline` assume.
* `OutboxPublisher`: the publishers. Time is reduced to what the queries
  compare: a lease has lapsed or not, an event is waiting or not.
  `ORDER BY available_at` becomes any choice of the right number of candidates;
  the topic is a set, since only membership matters to the promise. A claim is
  one step: `SKIP LOCKED` and a row lock held for that statement only make a
  concurrent claim take less.

What the steps of `TransferPipeline` take for granted, in the detail the code
has:

* `TransferRegistry`: creation as callers may see it. A key is stored once, and
  every answer to a call of that key is true of the stored row.
* `TransferCreation`, `MCTransferCreation`: `Create` and `CreatePending`
  statement by statement. Invalid arguments end a call before any transaction.
  An attempt begins with a snapshot, inserts under the
  unique key (waiting for a transaction that has inserted it), replays or
  refuses what it finds, and commits. Serialization failures lead to the next
  attempt, a connection may be lost before or after the commit, and stored
  transfers are advanced meanwhile. Failed attempts are counted until the call
  returns.
* `JournalEntry`: amounts of a width, postings, balanced entries, `Reverse`, and
  `preparePostings` with its aggregation per account, as operators.
* `AtomicLedger`: a ledger that posts prepared entries one at a time, or answers
  with a reason that is true of its state.
* `Ledger`, `MCLedger`: `Post` with its transactions. An attempt takes a
  connection and a snapshot, locks balance rows in account order, fails to
  serialize if a row has changed since the snapshot, checks, and stores entry and
  balances together. Reversals, replay of a stored entry and `CreateWallet`
  belong to it; `Get` is `Restorable`, and `Reconcile` is the property
  `Reconciles`.
* `InOrderConsumer`: each record takes effect once and in order.
* `ConsumerGroup`, `MCConsumerGroup`: several processes of one worker on one
  partition. Rebalances do not wait for a batch in progress, so the old owner
  continues beside the new one and may commit an older offset.
* `VelocityWindow`: the Redis script and the handler's clock reading, answer,
  commit and rollback. Workers' clocks differ from that of Redis by up to `Skew`.
  `Resend` is the Redis client repeating a command (see the notes below).
* `ReviewAdapter`: requests that are authenticated, read the clock and then wait
  for the limiter's lock. Bucket levels are measured in time, so that they are
  integers at every rate. `spent`, `late` and `evicted` are history variables:
  what was admitted of a subject, how many of those requests were applied with an
  older reading than the one before, and how often its bucket was evicted.

`TransferPipelineProofs` and `TransferRecordsProofs` (both about
`TransferPipeline`), `TransferCreationProofs`, `LedgerProofs`, `MessagingProofs`
(about `OutboxPublisher` and `ConsumerGroup`, whose names differ so that one
module can extend both), `VelocityWindowProofs` and `ReviewAdapterProofs` hold the
theorems, `SumTheorems` the facts about sums over finite sets that two of them use.

Operators introduced by a comment that starts with "Mutant" are variants of the
definition that follows, with a plausible mistake; `PROJECT.json` names the
property that each one breaks. No specification uses them.

Abstractions: an event is its type, transfer, version and decision (the other
fields repeat the immutable intent); unusable records are one of unknown type
and one with an unusable payload; accounts are naturals in UUID order;
`MaxMinor` stands for the largest 64-bit amount; request times are nanoseconds
with `NanosPerMicro` per stored unit. External and modelled from their use:
Kafka's partitions and offsets, the resolution of database time, other producers
of the topic, and an operator who freezes an account; PostgreSQL's snapshots,
row locks and serialization failures; Kafka's group coordinator; the Redis sorted
set and its expiry; and the token bucket of `golang.org/x/time/rate`.

## Runs

| run | question | instance |
|---|---|---|
| `pipeline_settlement` | do tables, journal and balances agree, and is the lifecycle implemented? | an automatic, a reviewed and a declined transfer, two of them with one key, and a direct one in the other direction; three accounts, one of them freezable; one order overflows the destination, another exhausts the source, a third settles all |
| `pipeline_delivery` | is a record lost, applied twice or wrongly quarantined, and is everything settled? | one transfer, two partitions with one duplicate and one unusable record each, velocity policy, no analyst |
| `review_stuck` | is everything settled with an analyst? | one reviewed transfer: **violated** |
| `fine_time_stuck` | is everything assessed with a request time finer than a microsecond? | one transfer: **violated** |
| `frozen_posting` | does the posting recheck account status? | one transfer of a freezable account: **violated** |
| `outbox_delivery` | fencing, refinement of `EventDelivery`, and is every committed event published? | two publishers, two events, batches of two, four tokens |
| `creation_keys` | does creation look atomic, are replays stable, does every call return? | three calls of one key, two with one intent and one on the other path with another; two attempts |
| `ledger_entries` | do postings and reversals look atomic, do the books balance in every currency, and can every entry be loaded? | two entries of one ID, two reversals of one of them, the reversal of a reversal, an entry in the wrong currency; two connections, one attempt |
| `ledger_locks` | do balances, versions and journal agree, can rows deadlock, does every `Post` return? | funding, a payment, an entry that cancels out and one that is refused at once; two connections, two attempts, versions up to 2 |
| `group_rebalance` | does an overlap of members lose, repeat or reorder effects, and does every record take effect? | three members, batches of two, four rebalances |
| `velocity_window` | is the captured count of the window? | two transfers, window 3, skew 1, time up to 4 |
| `review_limiter` | are buckets and admissions bounded, and idle buckets full? | two goroutines, three subjects of which two are analysts, room for one bucket, time up to 8, one eviction per subject |

The bounds are `MaxDuplicates`, `MaxPoison`, `MaxAttempts`, `MaxVersion`,
`MaxRebalances`, `MaxTime`, `MaxDelay`, `MaxEvictions` and the sets of commands, calls, events and
tokens. Two transfers of one account suffice for competing postings. With two
accounts only, an overdraft of one would always be an overflow of the other
near `MaxMinor`; the third account keeps the two errors apart. One duplicate
suffices because a consumer's answer to a second copy does not depend on how many
came before; two partitions suffice for an offset that is committed for the wrong
one. Two events and batches of two reach full and partial claims; four tokens
leave a fresh one in every state.

Three calls of one key suffice in `creation_keys` for a key that is taken by a
committed row, by a running transaction, and by neither; two attempts for a retry
that ends in success or in exhaustion. In `ledger_entries` one attempt is enough:
a retry begins as a call does that starts late. The funding entry touches one
account twice, so that aggregation matters, and in `ledger_locks` three entries
meet on one account, so that the largest row version is reached. A window of 3
with a skew of 1 leaves room for a score that is trimmed by one worker and not by
another, and the key expires within the modelled time. Three members are one more
than overlap in any one rebalance. In `review_limiter` the idle time is the least
that `TTLAssumption` allows, and time 8 is enough for a bucket to empty, refill,
be removed and made again. One eviction of each subject is enough for both to
return to a full bucket.

Deadlock is not checked where an instance has finitely many commands, calls,
records or units of time and is at rest when they are done, nor in
`review_limiter`, where only `MaxEvictions` can hold a request back.

Fairness. In `TransferPipeline` the publisher and the workers poll for ever
(weak fairness of `Publish` and of each `Consume`), and a worker does not die at
every single offset commit (strong fairness of `CommitRecords`); nothing obliges
clients, analysts or operators. In `OutboxPublisher` time passes and `Run` polls
for ever (weak), and crashes, broker errors and lapses do not hit every attempt:
a publisher that keeps reaching the head of a batch eventually sends it while it
owns it, and records that (strong). The lease of 30 s is longer than the
delivery timeout of one record, 10 s, so this is not excluded by configuration.
In `TransferCreation` and `Ledger` an attempt that has begun goes on (weak
fairness of `Attempt` for each call): it waits only for a connection, a key or a
row of a transaction that goes on as well. Clients need not call. In
`ConsumerGroup` a member that can go on does, and a partition without an owner
is assigned (both weak); rebalances and restarts are finitely many by
`MaxRebalances`, since a group that is rebalanced for ever need not progress.

### Disagreements the runs show

1. `review_stuck`: an analyst may decide before the transaction worker has
   handled `risk_assessed`. The row is then at version 3, the event at version
   2, and `Handle` (`transactionworker/handler.go:71`) returns ErrStateConflict
   on every delivery. The record is not quarantined, so the partition stops and
   the approval behind it is not posted, against ADR 0012.
2. `fine_time_stuck`: the event keeps nanoseconds, the table microseconds, and
   `riskworker/handler.go:114` requires equality; such a transfer is accepted
   and never assessed.
3. `frozen_posting`: ADR 0008 says that the posting rechecks account status; the
   posting reads balance, type and currency only.

Noted while modelling, without a run of their own:

* `createOnce` (`transfer/postgres/repository.go:351`) answers a key that
  `CreatePending` used with the stored transfer as a success, also when that one
  is pending, declined or failed.
* Two postings of one account may add up to the smallest amount, which
  `preparePostings` (`ledger/postgres/repository.go:367`) accepts while it refuses
  the reversal as an overflow; ADR 0004 wants every accepted entry reversible.
* `post` (`transactionworker/handler.go:118`) turns only insufficient funds into a
  stored failure; an approved transfer whose destination would overflow stays
  approved, and its record stops the partition, where ADR 0008 has it fail.

* `NewObserver` (`risk/redis/velocity.go:48`) sets `MaxRetries: 0` and ADR 0010
  promises "no client retry". What the library makes of a zero is outside the
  repository, and it may be its default number of retries. `VelocityWindow`
  therefore lets the client repeat the command any number of times; the count is
  not affected, the time the handler waits may be.

## Proofs

`TransferPipelineProofs` and, from its lemmas, `TransferRecordsProofs` (the last
two invariants of the list) prove, for all constants that satisfy the named
assumptions (valid intents and policies, initial customer balances that are not
negative, a partition for every transfer, accounts that are naturals):

* `TypeCorrectness`, `StoredLifecyclesAlwaysValid`, `MoneyMovesExactlyOnce`,
  `CustomersAreNeverOverdrawn`, `OutboxTellsTheWholeLife`,
  `ConsumersLoseNoRecord`, `EventsTakeEffectExactlyOnce`,
  `QuarantineDivertsNoEvent`, `BalancesAreAlwaysJournalSums`,
  `ReviewTrailIsAlwaysComplete`: each is `Spec => []P` for the property of a run;
* `PipelineImplementsLifecycle`: the pipeline refines `TransferLifecycle`;
* `RiskierIsNeverMilder`, about `Evaluate` alone: a larger amount, a larger count
  or an unavailable observation never lowers the score, for any valid policy.

The argument rests on one lemma, `StepEffects`: every step either leaves rows,
outbox, balances and journal alone, or advances one transfer `t` to a valid
lifecycle `l` of the next version along a documented edge, adds one new event,
and posts exactly if `l` is completed. The inductive invariants are then layered:

* `RowsOK` (types and validity of rows) is inductive by itself. Validity is
  needed because a transition yields a valid row only from a valid one.
* `MoneyOK` adds journal and balances. `PostingSucceeds` and
  `ApplyChangeIsSafe` say that a posting without error touches existing accounts
  and leaves customers at zero or more.
* `SumsOK` adds that every balance is its initial one plus the sum over the
  journal, which is finite: a posting adds one entry to the sum and its change to
  each balance.
* `OutboxOK` adds one event per version: a new event has a version above all
  earlier ones.
* `LogOK` adds the offsets: what is processed stays processed, because inbox,
  topic and quarantine only grow (`StepGrows`).
* `InboxOK` adds exactly-once effects. It needs `OutboxOK` and that records come
  from the outbox, so that a reserved event is the one of the row's version.
* `RecordsOK` adds that events of the outbox are well formed, so that none is
  quarantined.
* `TrailOK` adds cases, audit records and decision events, and the fact that a
  row under review is at version 2: without it a decision might reuse the version
  of an earlier audit record.

`SumTheorems` proves what `SumFunctionOnSet` of the community module `Functions`
computes on a finite set. The operator is a recursive function over subsets, and
the library's induction theorems cannot be instantiated with a predicate, so the
inductions go by descent: if a set had a counterexample, it would have a smallest
one (`NatDescent`, `SubsetDescent`, from the well-foundedness of the naturals),
and removing an element from that one gives a smaller. From there: the sum is an
integer, adds the value of a new element (`SumAdd`), is additive in the function
(`SumPlus`, `SumNegate`, `SumZero`) and in the set (`SumUnion`), and may be taken
group by group (`SumByKey`).

`TransferCreationProofs`, for any calls, keys, intents and number of attempts:
`TypesAreKept`, `ReplayIsAlwaysStable` and `CreationImplementsRegistry`. The
invariant says that a key has one stored row or one transaction that has inserted
it (`KeysOK`), that snapshots show nothing that is not stored (`SnapshotsOK`),
and that a call which starts after a key was stored sees it stored and no older
(`FloorsOK`). The other calls of that key are then replays: not refused, and
successful only with a transfer that is not their own.

`LedgerProofs`, for any finite set of accounts, any entries (valid or not), calls
and connections: `TypesAreKept`, `NobodyEverWaitsInACircle`,
`VersionsAlwaysCountEntries`, `BalancesAlwaysReconcile`, `BooksAlwaysBalance`,
`EntriesStayRestorable` and `LedgerImplementsAtomicLedger`. `LocksOK` says that a
transaction holds a prefix of its rows in account order; a waiting transaction then holds only rows below
the one it waits for, so the greatest row waited for closes no circle.
`SnapshotsOK` says that a held row is still as the snapshot showed it, so what is
computed from the snapshot is what an atomic posting would compute. The theorems
about money rest on that: storing an entry changes every balance by the entry's
effect on the account (`StoreAddsEffect`), and every stored posting is in the
currency of its account (`StoredEntry`), which `Reconcile` joins by and which
makes the postings in one currency the effects on its accounts
(`EffectsCancelOut`). `SumsOK` strengthens `Reconciles` to accounts without a
wallet. `ReversalIsTheOpposite` is about `JournalEntry` alone: what `Reverse`
accepts becomes a valid entry with the opposite effect on every account, which
`prepareEntry` accepts as well unless an aggregate is the smallest amount, the
exception noted above.

`MessagingProofs`, for any events, publishers, tokens and batch size:
`TypesAreKept`, `BatchIsAlwaysOwed`, `LiveClaimIsAlwaysRespected` and
`OutboxImplementsEventDelivery`. The invariant says that claims are on rows still
to be published (`ClaimsOK`), and that publishers at work hold distinct tokens and
committed events, of which an acknowledged one is in the topic (`BatchesOK`).

The same module, for any members, log, batch size and rebalances:
`GroupTypesAreKept`, `CommittedIsAlwaysStored` and
`GroupImplementsInOrderConsumer`. What took effect is a prefix of the log
(`Prefix`), and no member is ahead of it by more than the record it handles
(`NobodyIsAhead`).

`VelocityWindowProofs`, for any finite set of transfers, any window, skew and
span of time: `TypesAreKept` and `CountIsAlwaysOfTheWindow`. No reading is more
than `Skew` ahead of Redis (`ReadingsOK`), a score lies between the first and the
latest observation of its transfer (`ScoresOK`), the key outlives each first
observation by a window less the skew (`KeyOutlives`), so that neither trimming
nor expiry takes what is surely in the window (`NothingMissing`). The members
after the script then contain the transfers surely in the window and are
contained in those possibly in it, and so are their numbers.

`ReviewAdapterProofs`, for any rate, burst, subjects and goroutines, if the idle
time covers a refill and two delays (`TTLAssumption`): `BucketsAreAlwaysBounded`,
`AdmittedIsAlwaysWithinBudget`, `IdleBucketsAreAlwaysFull`. What a subject has
spent and its bucket still holds never exceeds what it was made with and has
earned by its last admission (`Sound`); a subject whose bucket was removed was
owed a full one at every reading that may still come (`Repaid`). Both hold up to
`Excess`: a late reading sets a bucket back in time, which earns up to `MaxDelay`
once more, and an eviction forgets what was spent, which is worth a full bucket
and that delay. The two terms are exact in the sense that TLC refutes the
property without the first or without the delay in the second.

Only model-checked: the properties that need fairness (`AcceptedIsAssessed`,
`ApprovedIsSettled`, `CommittedIsPublished`, `EveryCallReturns`,
`EveryPostReturns`, `EveryRecordTakesEffect`), which are outside the prover's
reach. Every invariant, action property and refinement that a passing run checks
is proved.

## Not modelled

* `Get` of the wallet repository and the read paths of the transfer repository
  that lead to no write.
* Token verification against the identity provider, a library that only admits
  or refuses a request; `ReviewAdapter` starts from its outcome.
* JSON and HTTP encoding, request validation by shape, configuration, routing,
  metrics and tracing: no state that a correctness property relates. Whether a
  record parses is modelled (`PoisonRecords`).
* The investigator: advisory and read-only.
* Process entry points: signals and errors end a process, which the models cover
  as crash, restart or leaving a group.
* PostgreSQL's deadlock detection, since `NobodyWaitsInACircle`, and failures of
  a commit by the disk.
* `retryDelay` as a number: a failed event waits for any length of time.
* Exact fractions of tokens: the code's limiter computes with floating-point
  numbers, the model with time.
