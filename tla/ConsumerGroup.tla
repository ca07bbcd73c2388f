---------------------------- MODULE ConsumerGroup ----------------------------
(***************************************************************************)
(* Several processes of one worker in a Kafka consumer group, as the       *)
(* consume loops of internal/app/riskworker/run.go and transactionworker   *)
(* run them, on one partition.  Automatic commits are off, rebalances are  *)
(* not held back while a fetched batch is processed, and a group without a *)
(* committed offset starts at the beginning: a member goes on with its     *)
(* batch after it has lost the partition, side by side with the new owner, *)
(* and may commit an offset behind the new owner's.                        *)
(*                                                                         *)
(* Handlers are transactions that skip a record which the inbox holds, and *)
(* quarantine skips one that is stored; both are one step here.            *)
(***************************************************************************)
EXTENDS Integers, Sequences

CONSTANTS
    Members,        \* processes of the worker
    Log,            \* the records of the partition
    MaxBatch,       \* most records one poll returns
    MaxRebalances   \* bound on the rebalances of a behaviour

Nobody == "nobody"

ASSUME MembersAssumption == Nobody \notin Members
ASSUME LogAssumption == Log \in Seq({Log[r] : r \in DOMAIN Log})
ASSUME BatchAssumption == MaxBatch \in Nat \ {0}
ASSUME RebalancesAssumption == MaxRebalances \in Nat

VARIABLES
    owner,          \* member the partition is assigned to
    rebalances,     \* rebalances so far
    offset,         \* the group's committed offset: records before it are consumed
    position,       \* records a member has fetched since it got the partition
    fetched,        \* fetched records a member has still to process: [next, last]
    handled,        \* the member's current record is handled, not yet committed
    effects,        \* inbox and quarantine: records that took effect, in order
    stored          \* the set of offsets in inbox and quarantine

groupVars == <<owner, rebalances, offset, position, fetched, handled, effects, stored>>

NoBatch == [next |-> 1, last |-> 0]

GroupInit ==
    /\ owner = Nobody
    /\ rebalances = 0
    /\ offset = 0
    /\ position = [m \in Members |-> 0]
    /\ fetched = [m \in Members |-> NoBatch]
    /\ handled = [m \in Members |-> FALSE]
    /\ effects = <<>>
    /\ stored = {}

(* Mutant: without a committed offset, fetching starts at the end.         *)
RebalanceAtEnd(m) ==
    /\ rebalances < MaxRebalances
    /\ owner # m
    /\ owner' = m
    /\ rebalances' = rebalances + 1
    /\ position' = [position EXCEPT ![m] = IF offset = 0 THEN Len(Log)
                                                        ELSE offset]
    /\ UNCHANGED <<offset, fetched, handled, effects, stored>>

(* The group assigns the partition; fetching resumes at the committed      *)
(* offset.  The previous owner keeps the records it has polled.            *)
Rebalance(m) ==
    /\ rebalances < MaxRebalances
    /\ owner # m
    /\ owner' = m
    /\ rebalances' = rebalances + 1
    /\ position' = [position EXCEPT ![m] = offset]
    /\ UNCHANGED <<offset, fetched, handled, effects, stored>>

Busy(m) == fetched[m].next <= fetched[m].last

(* PollFetches, once the previous batch is finished.                       *)
Poll(m) ==
    /\ owner = m
    /\ ~Busy(m)
    /\ \E n \in 1 .. MaxBatch :
          /\ position[m] + n <= Len(Log)
          /\ fetched' = [fetched EXCEPT ![m] = [next |-> position[m] + 1,
                                                last |-> position[m] + n]]
          /\ position' = [position EXCEPT ![m] = @ + n]
    /\ UNCHANGED <<owner, rebalances, offset, handled, effects, stored>>

(* Mutant: the inbox is not asked.                                         *)
HandleRecordAgain(m) ==
    LET r == fetched[m].next IN
    /\ Busy(m)
    /\ ~handled[m]
    /\ handled' = [handled EXCEPT ![m] = TRUE]
    /\ effects' = Append(effects, Log[r])
    /\ stored' = stored \cup {r}
    /\ UNCHANGED <<owner, rebalances, offset, position, fetched>>

(* Handle or quarantine.Store of the next record succeeds.                 *)
HandleRecord(m) ==
    LET r == fetched[m].next IN
    /\ Busy(m)
    /\ ~handled[m]
    /\ handled' = [handled EXCEPT ![m] = TRUE]
    /\ \/ r \in stored /\ UNCHANGED <<effects, stored>>
       \/ /\ r \notin stored
          /\ effects' = Append(effects, Log[r])
          /\ stored' = stored \cup {r}
    /\ UNCHANGED <<owner, rebalances, offset, position, fetched>>

NextRecord(m) ==
    /\ handled' = [handled EXCEPT ![m] = FALSE]
    /\ fetched' = [fetched EXCEPT ![m] = [next |-> @.next + 1, last |-> @.last]]

(* Mutant: the whole batch is committed with its first record.             *)
CommitBatch(m) ==
    /\ handled[m]
    /\ offset' = fetched[m].last
    /\ NextRecord(m)
    /\ UNCHANGED <<owner, rebalances, position, effects, stored>>

(* Mutant: the committed offset is one too far.                            *)
CommitPastRecord(m) ==
    /\ handled[m]
    /\ offset' = fetched[m].next + 1
    /\ NextRecord(m)
    /\ UNCHANGED <<owner, rebalances, position, effects, stored>>

(* CommitRecords of the handled record.  The group accepts it from any     *)
(* member, also for a partition that has moved on to another one.          *)
CommitRecord(m) ==
    /\ handled[m]
    /\ offset' = fetched[m].next
    /\ NextRecord(m)
    /\ UNCHANGED <<owner, rebalances, position, effects, stored>>

(* consume returns an error: the handler, the quarantine or the commit     *)
(* failed, or the process was stopped.  It restarts as a new member, which *)
(* gets the partition again by a rebalance.                                *)
Leave(m) ==
    /\ rebalances < MaxRebalances
    /\ fetched' = [fetched EXCEPT ![m] = NoBatch]
    /\ handled' = [handled EXCEPT ![m] = FALSE]
    /\ owner' = IF owner = m THEN Nobody ELSE owner
    /\ UNCHANGED <<rebalances, offset, position, effects, stored>>

Consume(m) == Poll(m) \/ HandleRecord(m) \/ CommitRecord(m)

GroupNext == \E m \in Members : Rebalance(m) \/ Consume(m) \/ Leave(m)

GroupSpec == GroupInit /\ [][GroupNext]_groupVars

(* A member that can go on does, and a partition without an owner is       *)
(* assigned to somebody while rebalances last.                             *)
GroupFairness ==
    /\ \A m \in Members : WF_groupVars(Consume(m))
    /\ WF_groupVars(owner = Nobody /\ \E m \in Members : Rebalance(m))

FairGroupSpec == GroupSpec /\ GroupFairness

------------------------------------------------------------------------------
(* Type correctness of offsets, batches and inbox.                         *)
GroupTypeOK ==
    /\ owner \in Members \cup {Nobody}
    /\ rebalances \in 0 .. MaxRebalances
    /\ offset \in 0 .. Len(Log)
    /\ position \in [Members -> 0 .. Len(Log)]
    /\ fetched \in [Members -> [next : 1 .. Len(Log) + 1, last : 0 .. Len(Log)]]
    /\ handled \in [Members -> BOOLEAN]
    /\ effects \in Seq({Log[r] : r \in DOMAIN Log})
    /\ stored \subseteq DOMAIN Log

(* No offset is committed, by whichever member and however late, over a    *)
(* record that did not take effect: a group that restarts from it loses    *)
(* nothing.                                                                *)
CommittedIsStored == \A r \in 1 .. offset : r \in stored

Partition == INSTANCE InOrderConsumer

(* Rebalances, overlapping members, restarts and offsets that move back    *)
(* never reorder or repeat an effect: the group looks like one consumer    *)
(* that takes the records in their order.                                  *)
ImplementsInOrderConsumer == Partition!Spec

(* When the rebalances end, every record takes effect.                     *)
EveryRecordTakesEffect == <>(stored = DOMAIN Log)
==============================================================================
