------------------------- MODULE MCTransferPipeline --------------------------
(***************************************************************************)
(* Instances of TransferPipeline for TLC.                                  *)
(***************************************************************************)
EXTENDS TransferPipeline

CONSTANTS Pending, Immediate, SplitPartitions, Skew

(* Three customers and one policy.  In MCBalance account 1 can pay for     *)
(* only one of its transfers; in MCTight it can pay for "approve", which   *)
(* overflows account 2 until "back" has been posted, and cannot pay for    *)
(* "review" before that.                                                   *)
MCAccounts == {1, 2, 3}
MCOwner == <<"ann", "bob", "cal">>
MCBalance == [a \in MCAccounts |-> IF a = 1 THEN 4 ELSE 1]
MCTight == <<2, 4, 0>>
MCInfo == [a \in MCAccounts |-> [owner |-> MCOwner[a], currency |-> "USD"]]
MCTransfers == Pending \cup Immediate

(* The commands are named for what the policy makes of them; "decline"     *)
(* has the key of "approve", so that one of the two is refused, and "back" *)
(* is the other customer's.                                                *)
Command(source, destination, amount, key) ==
    [requester |-> MCOwner[source], key |-> key,
     source |-> source, destination |-> destination, currency |-> "USD",
     amount |-> amount, requestedAt |-> 2 + Skew, policy |-> "v1"]

MCIntent == [t \in MCTransfers |->
    CASE t = "approve"  -> Command(1, 2, 2, "k1")
      [] t = "review"   -> Command(1, 3, 3, "k2")
      [] t = "decline"  -> Command(1, 2, 5, "k1")
      [] t = "back"     -> Command(2, 1, 2, "k1")]
MCPartitions == IF SplitPartitions THEN {0, 1} ELSE {0}
MCPartitionOf == [t \in MCTransfers |->
    IF SplitPartitions /\ t = "approve" THEN 1 ELSE 0]
MCPlain == [v \in {"v1"} |->
    [c \in {"USD"} |-> [review |-> 3, decline |-> 5, velocity |-> 0]]]
MCVelocity == [v \in {"v1"} |->
    [c \in {"USD"} |-> [review |-> 3, decline |-> 5, velocity |-> 2]]]
==============================================================================
