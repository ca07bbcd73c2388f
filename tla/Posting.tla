------------------------------- MODULE Posting -------------------------------
(***************************************************************************)
(* The balance arithmetic of internal/ledger/postgres/repository.go: what  *)
(* lockAndCalculateBalances decides for a set of account changes, and what *)
(* updateBalances writes.  Accounts are naturals: their order is the UUID  *)
(* order in which the rows are locked and examined, so the first account   *)
(* that fails in that order names the error.                               *)
(***************************************************************************)
EXTENDS Integers

CONSTANTS
    Accounts,     \* accounts that have a balance row
    System,       \* the accounts of type system; the others are customers
    MaxMinor      \* stands for math.MaxInt64

ASSUME AccountsAssumption == Accounts \subseteq Nat
ASSUME SystemAssumption   == System \subseteq Accounts
ASSUME MaxMinorAssumption == MaxMinor \in Nat

Minor == -MaxMinor - 1 .. MaxMinor

(* Mutant: the customer check is missing.                                  *)
RowErrorOverflowOnly(balance, change, a) ==
    IF balance[a] + change[a] \notin Minor THEN "overflow" ELSE "none"

(* checkedAdd, then the customer check: the error one locked row raises.   *)
RowError(balance, change, a) ==
    LET new == balance[a] + change[a] IN
    IF new \notin Minor THEN "overflow"
    ELSE IF a \notin System /\ new < 0 THEN "insufficient_funds"
    ELSE "none"

FailingRows(balance, change) ==
    {a \in DOMAIN change \cap Accounts : RowError(balance, change, a) # "none"}

(* The outcome of lockAndCalculateBalances; the row count is compared only *)
(* after every locked row has been examined.                               *)
PostingError(balance, change) ==
    IF FailingRows(balance, change) # {}
    THEN RowError(balance, change,
                  CHOOSE a \in FailingRows(balance, change) :
                      \A b \in FailingRows(balance, change) : a <= b)
    ELSE IF DOMAIN change \subseteq Accounts THEN "none" ELSE "not_found"

(* Mutant: the update of the credited account is lost.                     *)
ApplyDebitsOnly(balance, change) ==
    [a \in Accounts |-> IF a \in DOMAIN change /\ change[a] < 0
                        THEN balance[a] + change[a] ELSE balance[a]]

ApplyChange(balance, change) ==
    [a \in Accounts |-> IF a \in DOMAIN change THEN balance[a] + change[a]
                                               ELSE balance[a]]
==============================================================================
