--------------------------- MODULE OutboxPublisher ---------------------------
(***************************************************************************)
(* The outbox publishers: any number of processes that lease batches of    *)
(* outbox_events, send them to Kafka outside any transaction, and record   *)
(* the outcome under the token of their claim.  A process may die between  *)
(* any two steps, a broker call may fail before or after the record is     *)
(* stored, and a lease may expire at any moment of a slow batch.           *)
(*                                                                         *)
(* Time is abstracted to what the queries compare: a claim holds a row     *)
(* until it expires, and a failed event is not available until its delay   *)
(* has passed.  The number of attempts only determines that delay.  Tokens *)
(* are random UUIDs: a new claim takes one that nothing refers to.         *)
(***************************************************************************)
EXTENDS Naturals, FiniteSets, Sequences

CONSTANTS
    Events,       \* outbox rows, named by their sequence number
    Publishers,   \* publisher processes
    Tokens,       \* claim tokens
    NoToken,      \* claimed_by IS NULL
    BatchSize     \* the claim limit

ASSUME EventsAssumption == Events \subseteq Nat
ASSUME TokensAssumption == NoToken \notin Tokens
ASSUME BatchSizeAssumption == BatchSize \in Nat \ {0}

VARIABLES
    committed,    \* rows of outbox_events
    published,    \* rows whose published_at is set
    waiting,      \* rows whose available_at is in the future
    claimedBy,    \* claimed_by of every row
    lapsed,       \* claimed rows whose claimed_until has passed
    batch,        \* what is left of each publisher's claimed batch
    token,        \* the token of that batch
    sent,         \* outcome of the broker call for the head of the batch
    delivered     \* events the topic holds

vars == <<committed, published, waiting, claimedBy, lapsed, batch, token, sent,
          delivered>>

row == <<committed, published, waiting, claimedBy, lapsed>>

Init ==
    /\ committed = {}
    /\ published = {}
    /\ waiting = {}
    /\ claimedBy = [e \in Events |-> NoToken]
    /\ lapsed = {}
    /\ batch = [p \in Publishers |-> <<>>]
    /\ token = [p \in Publishers |-> NoToken]
    /\ sent = [p \in Publishers |-> "not_yet"]
    /\ delivered = {}

(* Another transaction commits an event.                                   *)
AddTx(e) ==
    /\ e \notin committed
    /\ committed' = committed \cup {e}
    /\ UNCHANGED <<published, waiting, claimedBy, lapsed, batch, token, sent,
                   delivered>>

(* Mutant: an expired lease is not taken over.                             *)
UnclaimedCandidates ==
    {e \in committed \ (published \cup waiting) : claimedBy[e] = NoToken}

Candidates ==
    {e \in committed \ (published \cup waiting) :
        claimedBy[e] = NoToken \/ e \in lapsed}

(* ORDER BY available_at: any choice of the right size.                    *)
Limited(candidates) ==
    {s \in SUBSET candidates :
        IF Cardinality(candidates) <= BatchSize THEN s = candidates
        ELSE Cardinality(s) = BatchSize}

(* The claimed rows in the order of their sequence numbers.                *)
Sorted(s) ==
    CHOOSE seq \in [1 .. Cardinality(s) -> s] :
        \A i, j \in DOMAIN seq : i < j => seq[i] < seq[j]

(* Mutant: a token is used for more than one claim.                        *)
AnyToken(k) == TRUE

Fresh(k) ==
    /\ \A e \in Events : claimedBy[e] # k
    /\ \A p \in Publishers : token[p] # k

Claim(p, k) ==
    /\ batch[p] = <<>>
    /\ Candidates # {}
    /\ Fresh(k)
    /\ \E s \in Limited(Candidates) :
          /\ lapsed' = lapsed \ s
          /\ claimedBy' = [e \in Events |-> IF e \in s THEN k ELSE claimedBy[e]]
          /\ batch' = [batch EXCEPT ![p] = Sorted(s)]
    /\ token' = [token EXCEPT ![p] = k]
    /\ UNCHANGED <<committed, published, waiting, sent, delivered>>

(* ProduceSync returns: acknowledged, or with an error, which says nothing *)
(* about whether the broker stored the record.                             *)
Produce(p, outcome, stored) ==
    /\ batch[p] # <<>>
    /\ sent[p] = "not_yet"
    /\ outcome = "acknowledged" => stored
    /\ sent' = [sent EXCEPT ![p] = outcome]
    /\ delivered' = IF stored THEN delivered \cup {Head(batch[p])} ELSE delivered
    /\ UNCHANGED <<row, batch, token>>

Acknowledge(p) == Produce(p, "acknowledged", TRUE)
FailToProduce(p) == \E stored \in BOOLEAN : Produce(p, "failed", stored)

(* Mutant: the mark does not compare the token.                            *)
HeadIsUnpublished(p) == Head(batch[p]) \notin published

(* The UPDATE of a mark affects the row only under the batch's token.      *)
OwnsHead(p) ==
    /\ claimedBy[Head(batch[p])] = token[p]
    /\ Head(batch[p]) \notin published

(* On to the next event of the batch; after the last one the token is      *)
(* forgotten.                                                              *)
NextInBatch(p) ==
    /\ batch' = [batch EXCEPT ![p] = Tail(@)]
    /\ token' = [token EXCEPT ![p] = IF Len(batch[p]) = 1 THEN NoToken ELSE @]
    /\ sent' = [sent EXCEPT ![p] = "not_yet"]

(* The process ends and is restarted with nothing in memory.               *)
Restart(p) ==
    /\ batch' = [batch EXCEPT ![p] = <<>>]
    /\ token' = [token EXCEPT ![p] = NoToken]
    /\ sent' = [sent EXCEPT ![p] = "not_yet"]

(* Mutant: the error of the broker call is ignored.                        *)
MarkWhateverHappened(p) ==
    /\ sent[p] # "not_yet"
    /\ OwnsHead(p)
    /\ published' = published \cup {Head(batch[p])}
    /\ claimedBy' = [claimedBy EXCEPT ![Head(batch[p])] = NoToken]
    /\ lapsed' = lapsed \ {Head(batch[p])}
    /\ NextInBatch(p)
    /\ UNCHANGED <<committed, waiting, delivered>>

MarkPublished(p) ==
    /\ sent[p] = "acknowledged"
    /\ OwnsHead(p)
    /\ published' = published \cup {Head(batch[p])}
    /\ claimedBy' = [claimedBy EXCEPT ![Head(batch[p])] = NoToken]
    /\ lapsed' = lapsed \ {Head(batch[p])}
    /\ NextInBatch(p)
    /\ UNCHANGED <<committed, waiting, delivered>>

(* Mutant: the arguments of the query are swapped.                         *)
MarkFailedSwapped(p) ==
    /\ sent[p] = "failed"
    /\ OwnsHead(p)
    /\ waiting' = waiting \cup {Head(batch[p])}
    /\ claimedBy' = [claimedBy EXCEPT ![Head(batch[p])] = Head(batch[p])]
    /\ lapsed' = lapsed \ {Head(batch[p])}
    /\ NextInBatch(p)
    /\ UNCHANGED <<committed, published, delivered>>

MarkFailed(p) ==
    /\ sent[p] = "failed"
    /\ OwnsHead(p)
    /\ waiting' = waiting \cup {Head(batch[p])}
    /\ claimedBy' = [claimedBy EXCEPT ![Head(batch[p])] = NoToken]
    /\ lapsed' = lapsed \ {Head(batch[p])}
    /\ NextInBatch(p)
    /\ UNCHANGED <<committed, published, delivered>>

(* ErrClaimLost ends Run, whichever mark raised it.                        *)
LoseClaim(p) ==
    /\ sent[p] # "not_yet"
    /\ ~OwnsHead(p)
    /\ Restart(p)
    /\ UNCHANGED <<row, delivered>>

Crash(p) ==
    /\ batch[p] # <<>>
    /\ Restart(p)
    /\ UNCHANGED <<row, delivered>>

(* Time passes: the rows of a claim share its claimed_until.               *)
ClaimedUnder(k) == {e \in Events : claimedBy[e] = k}

Expire(k) ==
    /\ ClaimedUnder(k) \ lapsed # {}
    /\ lapsed' = lapsed \cup ClaimedUnder(k)
    /\ UNCHANGED <<committed, published, waiting, claimedBy, batch, token, sent,
                   delivered>>

BecomeAvailable(e) ==
    /\ e \in waiting
    /\ waiting' = waiting \ {e}
    /\ UNCHANGED <<committed, published, claimedBy, lapsed, batch, token, sent,
                   delivered>>

Next ==
    \/ \E e \in Events : AddTx(e) \/ BecomeAvailable(e)
    \/ \E p \in Publishers, k \in Tokens : Claim(p, k)
    \/ \E p \in Publishers :
          \/ Acknowledge(p) \/ FailToProduce(p)
          \/ MarkPublished(p) \/ MarkFailed(p) \/ LoseClaim(p) \/ Crash(p)
    \/ \E k \in Tokens : Expire(k)

Spec == Init /\ [][Next]_vars

(* Run polls for ever, and time passes.  Crashes, broker errors and lost   *)
(* leases need not stop, but they do not hit every attempt: a publisher    *)
(* that reaches the head of a batch again and again sends it, sooner or    *)
(* later, while its claim still stands, and then records it.  (The lease,  *)
(* 30 s, is longer than the delivery timeout of one record, 10 s.)         *)
Fairness ==
    /\ \A e \in Events : WF_vars(BecomeAvailable(e))
    /\ \A k \in Tokens : WF_vars(Expire(k))
    /\ \A p \in Publishers :
          /\ WF_vars(\E k \in Tokens : Claim(p, k))
          /\ WF_vars(Acknowledge(p) \/ FailToProduce(p))
          /\ SF_vars(Acknowledge(p) /\ OwnsHead(p))
          /\ SF_vars(MarkPublished(p))
          /\ WF_vars(MarkFailed(p) \/ LoseClaim(p))

FairSpec == Spec /\ Fairness

------------------------------------------------------------------------------
(* Properties.                                                             *)

(* Type correctness of the rows and of the publishers' memory.             *)
TypeOK ==
    /\ committed \subseteq Events
    /\ published \subseteq Events
    /\ waiting \subseteq Events
    /\ claimedBy \in [Events -> Tokens \cup {NoToken}]
    /\ lapsed \subseteq Events
    /\ batch \in [Publishers -> Seq(Events)]
    /\ token \in [Publishers -> Tokens \cup {NoToken}]
    /\ sent \in [Publishers -> {"not_yet", "acknowledged", "failed"}]
    /\ delivered \subseteq Events

(* Fencing: while the lease of a claim is live, no other publisher changes *)
(* the claimed row, neither by claiming it again nor by recording the      *)
(* outcome of a claim it has lost.                                         *)
LiveClaimIsRespected ==
    [][\A e \in Events :
          LET unchanged == /\ claimedBy'[e] = claimedBy[e]
                           /\ e \in published' <=> e \in published
                           /\ e \in waiting' <=> e \in waiting
          IN  claimedBy[e] # NoToken /\ e \notin lapsed /\ ~unchanged =>
                 \E p \in Publishers :
                    /\ batch[p] # <<>> /\ Head(batch[p]) = e
                    /\ token[p] = claimedBy[e]
                    /\ batch'[p] = Tail(batch[p])]_vars

(* An event a publisher still has to send is never marked by its own       *)
(* claim: the rest of a batch is unpublished as long as the claim stands.  *)
BatchIsOwedWhileOwned ==
    \A p \in Publishers : \A i \in DOMAIN batch[p] :
        claimedBy[batch[p][i]] = token[p] =>
            /\ batch[p][i] \in committed \ (published \cup waiting)
            /\ \A q \in Publishers \ {p} : token[q] # token[p]

(* At-least-once delivery: the outbox keeps the promise the pipeline       *)
(* relies on; in particular published_at is set only for a stored record.  *)
Delivery == INSTANCE EventDelivery WITH retired <- published

(* Every step of the publishers is a step of EventDelivery.                *)
ImplementsEventDelivery == Delivery!Spec

(* Every committed event is published, whatever crashes, lost leases and   *)
(* broker errors come before.                                              *)
CommittedIsPublished ==
    \A e \in Events : e \in committed ~> e \in published
==============================================================================
