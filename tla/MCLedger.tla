------------------------------- MODULE MCLedger ------------------------------
(***************************************************************************)
(* A settlement account and three customer accounts of two wallets, one of *)
(* them in another currency, and the entries that the runs choose from.    *)
(***************************************************************************)
EXTENDS Ledger

MCCurrencyOf == <<"USD", "USD", "USD", "EUR">>
MCWalletOf == <<"none", "first", "second", "first">>

MCWalletRequests ==
    {[wallet |-> "first", currencies |-> <<"USD", "EUR">>],
     [wallet |-> "second", currencies |-> <<"USD", "USD">>],
     [wallet |-> "second", currencies |-> <<"USD">>]}

(* Enough for the entries that leave account 3 alone.                      *)
MCFirstWallet == {r \in MCWalletRequests : r.wallet = "first"}

P(account, amount) == [account |-> account, currency |-> "USD", amount |-> amount]
Euro(account, amount) == [account |-> account, currency |-> "EUR", amount |-> amount]
E(id, postings) == [id |-> id, reverses |-> NoSource, postings |-> postings]

Fund == E("fund", <<P(1, -1), P(2, 2), P(1, -1)>>)

(* "fund_id" claims the ID of "fund" with other postings of the same sum,  *)
(* which "undo" does not reverse exactly; "redo" reverses the reversal     *)
(* "undo"; the postings of "around" cancel out; "wrong" is not in the      *)
(* currency of account 1, and "mixed" has two currencies for one account.  *)
MCEntryOf ==
    [fund    |-> Fund,
     fund_id |-> E("fund", <<P(1, -2), P(2, 2)>>),
     undo    |-> Reverse(Fund, "undo"),
     undo_2  |-> Reverse(Fund, "undo_2"),
     redo    |-> Reverse(Reverse(Fund, "undo"), "redo"),
     pay     |-> E("pay", <<P(2, -2), P(3, 2)>>),
     around  |-> E("around", <<P(1, -2), P(2, 1), P(1, 2), P(2, -1)>>),
     wrong   |-> E("wrong", <<Euro(1, -1), Euro(4, 1)>>),
     mixed   |-> E("mixed", <<P(2, -1), P(3, 1), Euro(2, -1), Euro(4, 1)>>)]
==============================================================================
