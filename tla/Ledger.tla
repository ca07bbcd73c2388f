-------------------------------- MODULE Ledger -------------------------------
(***************************************************************************)
(* Post of internal/ledger/postgres/repository.go, with the transactions   *)
(* it runs in: every attempt reads a snapshot, locks the balance rows of   *)
(* its accounts one by one in account order, and stores the entry, its     *)
(* postings and the new balances together.  Attempts of several callers    *)
(* interleave, fail to serialize, and lose their connection before or      *)
(* after the commit.  Wallets are created meanwhile.                       *)
(*                                                                         *)
(* A call stands for the row its entry becomes; two calls may carry the    *)
(* same entry ID.  A waiting transaction is one whose next row another     *)
(* transaction holds.  PostgreSQL's own deadlock detection is left out:    *)
(* NobodyWaitsInACircle says that it never has to act.                     *)
(***************************************************************************)
EXTENDS JournalEntry

CONSTANTS
    Calls,          \* calls of Post
    EntryOf,        \* the entry a call posts
    CurrencyOf,     \* the currency of every account
    WalletOf,       \* the wallet of every customer account
    WalletRequests, \* wallets to be created, with the currencies asked for
    Connections,    \* size of the connection pool
    MaxAttempts,    \* maxTransactionAttempts
    MaxVersion      \* stands for math.MaxInt64 as a row version

ASSUME RowsAssumption == IsFiniteSet(Accounts)
ASSUME AttemptsAssumption == MaxAttempts \in Nat \ {0}
ASSUME VersionAssumption == MaxVersion \in Nat
ASSUME EntriesAssumption ==
    \A c \in Calls :
        /\ DOMAIN EntryOf[c] = {"id", "reverses", "postings"}
        /\ EntryOf[c].id # NoSource
        /\ EntryOf[c].postings \in Seq(Postings)

VARIABLES
    opened,         \* accounts, account_balances: accounts that have their rows
    posted,         \* journal_entries, postings: the calls whose entry is stored
    balance,        \* account_balances.balance_minor
    version,        \* account_balances.version
    phase,          \* how far every call has come
    attempt,        \* failed attempts of a call
    snapshot,       \* the tables as the open transaction of a call sees them
    held,           \* balance rows a transaction has locked
    answer          \* what Post returned

tables == <<opened, posted, balance, version>>
vars == <<opened, posted, balance, version, phase, attempt, snapshot, held, answer>>

Zero == [a \in Accounts |-> 0]

NoSnapshot == [opened |-> {}, balance |-> Zero, version |-> Zero]

(* System accounts are provisioned by the platform.                        *)
Init ==
    /\ opened = System
    /\ posted = {}
    /\ balance = Zero
    /\ version = Zero
    /\ phase = [c \in Calls |-> "idle"]
    /\ attempt = [c \in Calls |-> 0]
    /\ snapshot = [c \in Calls |-> NoSnapshot]
    /\ held = [c \in Calls |-> {}]
    /\ answer = [c \in Calls |-> "none"]

------------------------------------------------------------------------------
(* Wallets.                                                                *)

MaxCurrenciesPerWallet == 32

NormalizeCurrencies(currencies) ==
    /\ Len(currencies) \in 1 .. MaxCurrenciesPerWallet
    /\ \A i, j \in DOMAIN currencies : currencies[i] = currencies[j] => i = j

AccountsOfWallet(w) == {a \in Accounts \ System : WalletOf[a] = w}

(* One customer account per currency, each with a zero balance.            *)
CreateWallet(r) ==
    /\ NormalizeCurrencies(r.currencies)
    /\ opened \cap AccountsOfWallet(r.wallet) = {}
    /\ opened' = opened \cup {a \in AccountsOfWallet(r.wallet) :
                                \E i \in DOMAIN r.currencies :
                                   CurrencyOf[a] = r.currencies[i]}
    /\ UNCHANGED <<posted, balance, version, phase, attempt, snapshot, held, answer>>

------------------------------------------------------------------------------
(* One attempt.                                                            *)

Goto(c, p) == phase' = [phase EXCEPT ![c] = p]

EndTransaction(c) ==
    /\ snapshot' = [snapshot EXCEPT ![c] = NoSnapshot]
    /\ held' = [held EXCEPT ![c] = {}]

Return(c, a) ==
    /\ Goto(c, "done")
    /\ answer' = [answer EXCEPT ![c] = a]

(* What prepareEntry computes once for all attempts.                       *)
changes == [c \in Calls |-> Changes(EntryOf[c])]
currencies == [c \in Calls |-> [a \in AccountsOf(EntryOf[c]) |->
                                   CurrencyIn(EntryOf[c], a)]]
refusal == [c \in Calls |-> PrepareError(EntryOf[c])]

PrepareEntry(c) ==
    /\ phase[c] = "idle"
    /\ \/ refusal[c] = "none" /\ Goto(c, "ready") /\ UNCHANGED answer
       \/ /\ refusal[c] # "none"
          /\ Return(c, refusal[c])
    /\ UNCHANGED <<tables, attempt, snapshot, held>>

(* ctx.Err() before an attempt.                                            *)
Cancel(c) ==
    /\ phase[c] = "ready"
    /\ Return(c, "unknown")
    /\ UNCHANGED <<tables, attempt, snapshot, held>>

Reversals(id, entries) == {d \in entries : EntryOf[d].reverses = id}

(* Mutant: the source is looked up, its postings are not compared.         *)
ReversalErrorUnchecked(e, entries) ==
    IF e.reverses = NoSource THEN "none"
    ELSE IF ~\E s \in entries : EntryOf[s].id = e.reverses THEN "not_found"
    ELSE IF Reversals(e.reverses, entries) # {} THEN "already_reversed"
    ELSE "none"

(* validatePersistedReversal.                                              *)
ReversalError(e, entries) ==
    IF e.reverses = NoSource THEN "none"
    ELSE IF ~\E s \in entries : EntryOf[s].id = e.reverses THEN "not_found"
    ELSE IF Reversals(e.reverses, entries) # {} THEN "already_reversed"
    ELSE IF \E s \in entries : /\ EntryOf[s].id = e.reverses
                               /\ e.postings = Reverse(EntryOf[s], e.id).postings
         THEN "none"
    ELSE "invalid_reversal"

InTransaction == {c \in Calls : phase[c] = "locking"}

(* BeginTx and the validation of a reversal against the snapshot.          *)
Begin(c) ==
    /\ phase[c] = "ready"
    /\ Cardinality(InTransaction) < Connections
    /\ \/ /\ ReversalError(EntryOf[c], posted) = "none"
          /\ Goto(c, "locking")
          /\ snapshot' = [snapshot EXCEPT ![c] =
                            [opened |-> opened, balance |-> balance,
                             version |-> version]]
          /\ UNCHANGED answer
       \/ /\ ReversalError(EntryOf[c], posted) # "none"
          /\ Return(c, ReversalError(EntryOf[c], posted))
          /\ UNCHANGED snapshot
    /\ UNCHANGED <<tables, attempt, held>>

Rows(c) == DOMAIN changes[c] \cap snapshot[c].opened

Unlocked(c) == Rows(c) \ held[c]

(* Mutant: the rows are locked in no particular order.                     *)
NextRowsUnordered(c) == Unlocked(c)

(* ORDER BY account_id.                                                    *)
NextRows(c) == {a \in Unlocked(c) : \A b \in Unlocked(c) : a <= b}

(* Transactions that hold the row this one must lock next.                 *)
WaitsFor(c) ==
    {d \in InTransaction \ {c} :
        phase[c] = "locking" /\ NextRows(c) \cap held[d] # {}}

(* Mutant: retries are not counted.                                        *)
RetryUncounted(c) ==
    /\ Goto(c, "ready")
    /\ EndTransaction(c)
    /\ UNCHANGED <<tables, attempt, answer>>

(* isRetryableTransaction: another attempt, or ErrSerializationFailure.    *)
Retry(c) ==
    /\ attempt' = [attempt EXCEPT ![c] = @ + 1]
    /\ \/ attempt[c] + 1 < MaxAttempts /\ Goto(c, "ready") /\ UNCHANGED answer
       \/ attempt[c] + 1 = MaxAttempts /\ Return(c, "exhausted")
    /\ EndTransaction(c)
    /\ UNCHANGED tables

(* Mutant: a row that was updated after the snapshot is locked all the     *)
(* same.                                                                   *)
AnyRow(c, a) == TRUE

Current(c, a) == version[a] = snapshot[c].version[a]

(* Mutant: the largest version is not looked for.                          *)
RowFaultAnyVersion(c, a) ==
    IF CurrencyOf[a] # currencies[c][a] THEN "currency_mismatch"
    ELSE RowError(snapshot[c].balance, changes[c], a)

(* Mutant: the currency of the locked row is not compared.                 *)
RowFaultAnyCurrency(c, a) ==
    IF RowError(snapshot[c].balance, changes[c], a) # "none"
    THEN RowError(snapshot[c].balance, changes[c], a)
    ELSE IF snapshot[c].version[a] = MaxVersion THEN "overflow"
    ELSE "none"

(* The checks of one locked row, in the order of the code.                 *)
RowFault(c, a) ==
    IF CurrencyOf[a] # currencies[c][a] THEN "currency_mismatch"
    ELSE IF RowError(snapshot[c].balance, changes[c], a) # "none"
         THEN RowError(snapshot[c].balance, changes[c], a)
    ELSE IF snapshot[c].version[a] = MaxVersion THEN "overflow"
    ELSE "none"

Faulty(c) == {a \in Rows(c) : RowFault(c, a) # "none"}

(* FOR UPDATE of one row: it waits for the holder, and fails with 40001    *)
(* when the row was updated after the snapshot.  The rows before it reach  *)
(* the caller first, so that a fault of theirs hides the failure.          *)
LockRow(c) ==
    /\ phase[c] = "locking"
    /\ \E a \in NextRows(c) :
          /\ \A d \in Calls : a \notin held[d]
          /\ \/ /\ Current(c, a)
                /\ held' = [held EXCEPT ![c] = @ \cup {a}]
                /\ UNCHANGED <<tables, phase, attempt, snapshot, answer>>
             \/ ~Current(c, a) /\ Faulty(c) \cap held[c] = {} /\ Retry(c)
             \/ /\ ~Current(c, a)
                /\ Faulty(c) \cap held[c] # {}
                /\ Return(c, RowFault(c, Min(Faulty(c) \cap held[c])))
                /\ EndTransaction(c)
                /\ UNCHANGED <<tables, attempt>>

(* Mutant: the locked rows are not counted.                                *)
PostErrorUncounted(c) ==
    IF Faulty(c) # {} THEN RowFault(c, Min(Faulty(c)))
    ELSE IF \E d \in posted : EntryOf[d].id = EntryOf[c].id THEN "already_exists"
    ELSE IF /\ EntryOf[c].reverses # NoSource
            /\ Reversals(EntryOf[c].reverses, posted) # {}
         THEN "already_reversed"
    ELSE "none"

(* lockAndCalculateBalances and insertEntry: the first check that fails.   *)
PostError(c) ==
    IF Faulty(c) # {} THEN RowFault(c, Min(Faulty(c)))
    ELSE IF Rows(c) # DOMAIN changes[c] THEN "not_found"
    ELSE IF \E d \in posted : EntryOf[d].id = EntryOf[c].id THEN "already_exists"
    ELSE IF /\ EntryOf[c].reverses # NoSource
            /\ Reversals(EntryOf[c].reverses, posted) # {}
         THEN "already_reversed"
    ELSE "none"

(* Mutant: an account whose postings cancel out keeps its version.         *)
StoreEntryNetOnly(c) ==
    /\ phase[c] = "locking"
    /\ Unlocked(c) = {}
    /\ PostError(c) = "none"
    /\ posted' = posted \cup {c}
    /\ balance' = [a \in Accounts |-> IF a \in Rows(c)
                                      THEN snapshot[c].balance[a] + changes[c][a]
                                      ELSE balance[a]]
    /\ version' = [a \in Accounts |-> IF a \in Rows(c) /\ changes[c][a] # 0
                                      THEN snapshot[c].version[a] + 1 ELSE version[a]]
    /\ Goto(c, "committed")
    /\ EndTransaction(c)
    /\ UNCHANGED <<opened, attempt, answer>>

(* The entry, its postings and updateBalances, and the commit.             *)
StoreEntry(c) ==
    /\ phase[c] = "locking"
    /\ Unlocked(c) = {}
    /\ PostError(c) = "none"
    /\ posted' = posted \cup {c}
    /\ balance' = [a \in Accounts |-> IF a \in Rows(c)
                                      THEN snapshot[c].balance[a] + changes[c][a]
                                      ELSE balance[a]]
    /\ version' = [a \in Accounts |-> IF a \in Rows(c)
                                      THEN snapshot[c].version[a] + 1 ELSE version[a]]
    /\ Goto(c, "committed")
    /\ EndTransaction(c)
    /\ UNCHANGED <<opened, attempt, answer>>

Refuse(c) ==
    /\ phase[c] = "locking"
    /\ Unlocked(c) = {}
    /\ PostError(c) # "none"
    /\ Return(c, PostError(c))
    /\ EndTransaction(c)
    /\ UNCHANGED <<tables, attempt>>

ReturnPosted(c) ==
    /\ phase[c] = "committed"
    /\ Return(c, "success")
    /\ UNCHANGED <<tables, attempt, snapshot, held>>

SerializationFailure(c) ==
    /\ phase[c] = "locking"
    /\ Retry(c)

(* An error that is not retried, before the commit or after it.            *)
ConnectionLost(c) ==
    /\ phase[c] \in {"locking", "committed"}
    /\ Return(c, "unknown")
    /\ EndTransaction(c)
    /\ UNCHANGED <<tables, attempt>>

Attempt(c) ==
    Begin(c) \/ LockRow(c) \/ StoreEntry(c) \/ Refuse(c) \/ ReturnPosted(c)

Next ==
    \/ \E r \in WalletRequests : CreateWallet(r)
    \/ \E c \in Calls :
          \/ PrepareEntry(c) \/ Attempt(c)
          \/ Cancel(c) \/ SerializationFailure(c) \/ ConnectionLost(c)

Spec == Init /\ [][Next]_vars

(* An attempt runs to its end: it waits only for a connection and for rows *)
(* of transactions that run to their end as well.                          *)
Fairness == \A c \in Calls : WF_vars(Attempt(c))

FairSpec == Spec /\ Fairness

------------------------------------------------------------------------------
(* Properties.                                                             *)

Refusals == {"invalid", "currency_mismatch", "overflow", "not_found",
             "already_reversed", "invalid_reversal", "insufficient_funds",
             "already_exists", "exhausted"}

(* Type correctness; no row version passes the largest one.                *)
LedgerTypeOK ==
    /\ opened \in SUBSET Accounts
    /\ posted \in SUBSET Calls
    /\ balance \in [Accounts -> Minor]
    /\ version \in [Accounts -> 0 .. MaxVersion]
    /\ phase \in [Calls -> {"idle", "ready", "locking", "committed", "done"}]
    /\ attempt \in [Calls -> 0 .. MaxAttempts]
    /\ snapshot \in [Calls -> [opened : SUBSET Accounts,
                               balance : [Accounts -> Minor],
                               version : [Accounts -> 0 .. MaxVersion]]]
    /\ held \in [Calls -> SUBSET Accounts]
    /\ answer \in [Calls -> {"none", "success", "unknown"} \cup Refusals]

(* What the postings of every entry add to an account, by the join of      *)
(* selectBalanceDiscrepanciesQuery.                                        *)
EffectOn(a) ==
    [d \in Calls |-> SumWhere(EntryOf[d].postings,
                              LAMBDA p : p.account = a /\ p.currency = CurrencyOf[a])]

(* The rows that selectBalanceDiscrepanciesQuery returns.                  *)
Discrepancies == {a \in opened : balance[a] # SumFunctionOnSet(EffectOn(a), posted)}

(* Reconcile finds nothing, whatever Post calls ran and however they were  *)
(* interrupted: no balance update is lost and none happens without its     *)
(* entry.                                                                  *)
Reconciles == Discrepancies = {}

(* The books balance: in every currency the balances of all accounts add   *)
(* up to zero, after any entries, reversals and interrupted attempts.      *)
BooksBalance ==
    \A a \in Accounts :
        SumFunctionOnSet(balance, {b \in Accounts : CurrencyOf[b] = CurrencyOf[a]}) = 0

(* Get can rebuild every stored entry: what Post stores passes restoreEntry*)
(* for ever, reversals and reversals of reversals included.                *)
EveryEntryIsRestorable ==
    \A c \in posted : Restorable(EntryOf[c], {EntryOf[d] : d \in posted})

(* The version of a balance counts the entries its account takes part in,  *)
(* once each, also where the postings of an account cancel out; snapshots  *)
(* are compared by it.                                                     *)
VersionCountsEntries ==
    \A a \in Accounts :
        version[a] = Cardinality({c \in posted : a \in AccountsOf(EntryOf[c])})

(* The account order of the locking query excludes a deadlock: among any   *)
(* transactions there is one that waits for none of the others.            *)
NobodyWaitsInACircle ==
    \A S \in (SUBSET InTransaction) \ {{}} : \E c \in S : WaitsFor(c) \cap S = {}

(* Every Post returns: waiting for rows and for a connection ends, and so  *)
(* do the retries.                                                         *)
EveryPostReturns == \A c \in Calls : phase[c] = "ready" ~> phase[c] = "done"

Atomic == INSTANCE AtomicLedger WITH
    answer <- [c \in Calls |-> IF answer[c] \in Refusals THEN "refused"
                                                         ELSE answer[c]]

(* Snapshots, row locks and retries amount to entries posted one at a time *)
(* against current balances: no entry twice, no second or inexact          *)
(* reversal, no overdraft or overflow, every account opened and of the     *)
(* entry's currency; and no caller is told of a success that is not stored *)
(* or of a refusal that is.                                                *)
ImplementsAtomicLedger == Atomic!Spec
==============================================================================
