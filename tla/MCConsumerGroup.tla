--------------------------- MODULE MCConsumerGroup ---------------------------
(***************************************************************************)
(* A partition of distinct records, for ConsumerGroup.                     *)
(***************************************************************************)
EXTENDS ConsumerGroup

MCLog == <<"requested", "malformed", "assessed", "completed">>
==============================================================================
