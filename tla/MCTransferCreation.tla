-------------------------- MODULE MCTransferCreation -------------------------
(***************************************************************************)
(* Concurrent uses of one idempotency key: two calls with one intent, and  *)
(* one with another.  Calls with different keys share no state of          *)
(* TransferCreation.                                                       *)
(***************************************************************************)
EXTENDS TransferCreation

MCKeyOf == [c \in Calls |-> "key"]
MCIntentOf == [c \in Calls |-> IF c = "other" THEN "other intent" ELSE "intent"]
==============================================================================
