----------------------------- MODULE AtomicLedger ----------------------------
(***************************************************************************)
(* What the ledger promises: entries are posted one at a time, each one    *)
(* checked against the balances that are current at that moment, and every *)
(* caller is told the truth about its own entry.                           *)
(***************************************************************************)
EXTENDS JournalEntry

CONSTANTS
    Calls,        \* calls of Post
    EntryOf,      \* the entry a call posts
    CurrencyOf    \* the currency of every account

VARIABLES
    opened,       \* accounts that have a balance row
    posted,       \* the calls whose entry is in the journal
    balance,      \* balance of every account
    answer        \* what every call has been told

vars == <<opened, posted, balance, answer>>

Init ==
    /\ opened = System
    /\ posted = {}
    /\ balance = [a \in Accounts |-> 0]
    /\ answer = [c \in Calls |-> "none"]

Open(accounts) ==
    /\ opened' = opened \cup accounts
    /\ UNCHANGED <<posted, balance, answer>>

(* An entry may enter the journal once; a reversal only as the opposite of *)
(* an entry of the journal, and as the only one.                           *)
MayEnter(e) ==
    /\ PrepareError(e) = "none"
    /\ \A d \in posted : EntryOf[d].id # e.id
    /\ e.reverses # NoSource =>
          /\ \E s \in posted : /\ EntryOf[s].id = e.reverses
                               /\ e.postings = Reverse(EntryOf[s], e.id).postings
          /\ \A d \in posted : EntryOf[d].reverses # e.reverses

(* Every account exists, has the entry's currency and can take the change. *)
Affordable(e) ==
    /\ AccountsOf(e) \subseteq opened
    /\ \A a \in AccountsOf(e) :
          /\ CurrencyOf[a] = CurrencyIn(e, a)
          /\ RowError(balance, Changes(e), a) = "none"

Post(c) ==
    /\ answer[c] = "none"
    /\ c \notin posted
    /\ posted' = posted \cup {c}
    /\ MayEnter(EntryOf[c])
    /\ Affordable(EntryOf[c])
    /\ balance' = ApplyChange(balance, Changes(EntryOf[c]))
    /\ UNCHANGED <<opened, answer>>

(* Success means that the entry is in the journal, a refusal that it is    *)
(* not; an unknown outcome says nothing.                                   *)
Reply(c, a) ==
    /\ answer[c] = "none"
    /\ a = "success" => c \in posted
    /\ a = "refused" => c \notin posted
    /\ answer' = [answer EXCEPT ![c] = a]
    /\ UNCHANGED <<opened, posted, balance>>

Next ==
    \/ \E accounts \in SUBSET Accounts : Open(accounts)
    \/ \E c \in Calls :
          Post(c) \/ \E a \in {"success", "refused", "unknown"} : Reply(c, a)

Spec == Init /\ [][Next]_vars
==============================================================================
