----------------------------- MODULE JournalEntry ----------------------------
(***************************************************************************)
(* Journal entries of internal/ledger/domain/journal_entry.go and what     *)
(* preparePostings of the repository makes of them, as pure operators.  An *)
(* entry has an ID, the ID of the entry it reverses or NoSource, and a     *)
(* sequence of postings.                                                   *)
(***************************************************************************)
EXTENDS Posting, Sequences, FiniteSetsExt, Functions

NoSource == "none"

MinPostings == 2
MaxPostings == 1024

(* What a posting is made of, valid or not.                                *)
Postings == [account : Nat, currency : STRING, amount : Minor]

Amounts(postings) == [i \in DOMAIN postings |-> postings[i].amount]

(* Sum of the postings that satisfy a condition, in exact arithmetic.      *)
SumWhere(postings, P(_)) ==
    SumFunctionOnSet(Amounts(postings), {i \in DOMAIN postings : P(postings[i])})

(* An amount is not zero and can be negated.                               *)
ValidPosting(p) == p.amount \in Minor \ {0, -MaxMinor - 1}

BalancedPostings(postings) ==
    \A c \in {postings[i].currency : i \in DOMAIN postings} :
        SumWhere(postings, LAMBDA p : p.currency = c) = 0

ValidEntry(e) ==
    /\ e.reverses # e.id
    /\ Len(e.postings) \in MinPostings .. MaxPostings
    /\ \A i \in DOMAIN e.postings : ValidPosting(e.postings[i])
    /\ BalancedPostings(e.postings)

(* Money.Negate refuses the one amount whose opposite does not fit.        *)
CanNegate(n) == n # -MaxMinor - 1

(* JournalEntry.Reverse and the guards it returns early on.                *)
CanReverse(e, id) ==
    /\ ValidEntry(e)
    /\ id # e.id
    /\ \A i \in DOMAIN e.postings : CanNegate(e.postings[i].amount)

Reverse(e, id) ==
    [id |-> id, reverses |-> e.id,
     postings |-> [i \in DOMAIN e.postings |->
                      [e.postings[i] EXCEPT !.amount = -@]]]

AccountsOf(e) == {e.postings[i].account : i \in DOMAIN e.postings}

CurrenciesIn(e, a) ==
    {e.postings[i].currency : i \in {j \in DOMAIN e.postings :
                                        e.postings[j].account = a}}

CurrencyIn(e, a) == CHOOSE c \in CurrenciesIn(e, a) : TRUE

(* The aggregate effect of an entry on every account it names.             *)
Changes(e) ==
    [a \in AccountsOf(e) |-> SumWhere(e.postings, LAMBDA p : p.account = a)]

(* What prepareEntry refuses before a transaction begins.                  *)
PrepareError(e) ==
    IF ~ValidEntry(e) THEN "invalid"
    ELSE IF \E a \in AccountsOf(e) : Cardinality(CurrenciesIn(e, a)) > 1
         THEN "currency_mismatch"
    ELSE IF \E a \in AccountsOf(e) : Changes(e)[a] \notin Minor
         THEN "overflow"
    ELSE "none"

(* restoreEntry: whether Get can rebuild an entry from the stored ones.    *)
Restorable(e, entries) ==
    /\ ValidEntry([e EXCEPT !.reverses = NoSource])
    /\ e.reverses # NoSource =>
          \E s \in entries :
             /\ s.id = e.reverses
             /\ CanReverse([s EXCEPT !.reverses = NoSource], e.id)
             /\ e.postings = Reverse(s, e.id).postings
==============================================================================
