--------------------------- MODULE InOrderConsumer ---------------------------
(***************************************************************************)
(* What a consumer group promises the tables it writes to, and what        *)
(* TransferPipeline takes for granted of a worker: the records of a        *)
(* partition take effect one after the other, each one once.               *)
(***************************************************************************)
EXTENDS Integers, Sequences

CONSTANT Log          \* the records of the partition

VARIABLE effects      \* the records that took effect, in that order

Init == effects = <<>>

TakeEffect ==
    /\ Len(effects) < Len(Log)
    /\ effects' = Append(effects, Log[Len(effects) + 1])

Spec == Init /\ [][TakeEffect]_effects
==============================================================================
