--------------------------- MODULE MessagingProofs ---------------------------
(***************************************************************************)
(* Proofs about the two ends of the topic.  OutboxPublisher, for any       *)
(* events, publishers, tokens and batch size: fencing, and at-least-once   *)
(* delivery.  ConsumerGroup, for any members, log, batch size and number   *)
(* of rebalances: records take effect in order, each one once.             *)
(***************************************************************************)
EXTENDS OutboxPublisher, ConsumerGroup, FiniteSetTheorems, TLAPS

------------------------------------------------------------------------------
(* The publishers.                                                         *)

(* A claim is only ever on a row that is still to be published.            *)
ClaimsOK ==
    \A e \in Events : claimedBy[e] # NoToken =>
        e \in committed /\ e \notin published /\ e \notin waiting

(* Publishers at work have a token each, and work on committed events; an  *)
(* acknowledged event is in the topic.                                     *)
BatchesOK ==
    \A p \in Publishers :
        /\ batch[p] \in Seq(committed)
        /\ batch[p] # <<>> => token[p] # NoToken
        /\ sent[p] # "not_yet" => batch[p] # <<>>
        /\ sent[p] = "acknowledged" => Head(batch[p]) \in delivered
        /\ \A q \in Publishers \ {p} : token[p] # NoToken => token[q] # token[p]

Inv ==
    /\ TypeOK
    /\ IsFiniteSet(committed)
    /\ ClaimsOK
    /\ BatchesOK

------------------------------------------------------------------------------
(* Every finite set of events has the sorted enumeration Sorted chooses.   *)
LEMMA SortedExists ==
    ASSUME NEW s \in SUBSET Nat, IsFiniteSet(s)
    PROVE  /\ Sorted(s) \in [1 .. Cardinality(s) -> s]
           /\ Cardinality(s) \in Nat
<1> DEFINE n == Cardinality(s)
           upTo(e) == {x \in s : x <= e}
           rank == [e \in s |-> Cardinality(upTo(e))]
<1>1. n \in Nat
    BY FS_CardinalityType
<1>2. ASSUME NEW e \in s
      PROVE  IsFiniteSet(upTo(e)) /\ rank[e] \in 1 .. n
  <2>1. upTo(e) \in SUBSET s /\ e \in upTo(e)
    OBVIOUS
  <2>2. IsFiniteSet(upTo(e)) /\ Cardinality(upTo(e)) <= n
    BY <2>1, FS_Subset
  <2>3. Cardinality(upTo(e)) \in Nat /\ Cardinality(upTo(e)) # 0
    BY <2>1, <2>2, FS_CardinalityType, FS_EmptySet
  <2> QED
    BY <1>1, <2>2, <2>3
<1>3. ASSUME NEW e \in s, NEW f \in s, e < f
      PROVE  rank[e] < rank[f]
  <2>0. e \in Nat /\ f \in Nat /\ \A x \in s : x \in Nat
    OBVIOUS
  <2>1. upTo(e) \in SUBSET upTo(f) /\ upTo(e) # upTo(f)
    <3>1. f \in upTo(f) /\ f \notin upTo(e)
      BY <1>3, <2>0
    <3>2. \A x \in s : x <= e => x <= f
      BY <1>3, <2>0
    <3> QED
      BY <3>1, <3>2, Zenon
  <2>2. rank[e] <= rank[f] /\ rank[e] # rank[f]
    BY <1>2, <2>1, FS_Subset
  <2> QED
    BY <1>2, <2>2
<1> HIDE DEF n, rank
<1>4. rank \in Injection(s, 1 .. n)
  <2>1. rank \in [s -> 1 .. n]
    BY <1>2 DEF rank
  <2>2. ASSUME NEW e \in s, NEW f \in s, rank[e] = rank[f] PROVE e = f
    <3>1. e \in Nat /\ f \in Nat /\ rank[e] \in Int
      BY <1>1, <2>1
    <3> QED
      BY <1>3, <2>2, <3>1
  <2> QED
    BY <2>1, <2>2 DEF Injection, IsInjective
<1>5. rank \in Surjection(s, 1 .. n)
  <2>1. IsFiniteSet(1 .. n) /\ Cardinality(1 .. n) = n
    BY <1>1, FS_Interval
  <2> QED
    BY <1>4, <2>1, FS_Injection DEF n
<1> DEFINE seq == [i \in 1 .. n |-> CHOOSE e \in s : rank[e] = i]
<1>6. \A i \in 1 .. n : seq[i] \in s /\ rank[seq[i]] = i
    BY <1>5 DEF Surjection
<1> HIDE DEF seq
<1>7. seq \in [1 .. n -> s]
    BY <1>6 DEF seq
<1>8. ASSUME NEW i \in DOMAIN seq, NEW j \in DOMAIN seq, i < j
      PROVE  seq[i] < seq[j]
  <2>1. i \in 1 .. n /\ j \in 1 .. n
    BY <1>7
  <2>2. seq[i] \in s /\ seq[j] \in s /\ rank[seq[i]] = i /\ rank[seq[j]] = j
    BY <1>6, <2>1
  <2>3. seq[i] \in Nat /\ seq[j] \in Nat
    BY <2>2, Zenon
  <2> QED
    BY <1>1, <1>3, <1>8, <2>1, <2>2, <2>3
<1>9. \E f \in [1 .. n -> s] : \A i, j \in DOMAIN f : i < j => f[i] < f[j]
    BY <1>7, <1>8, Zenon
<1> QED
    BY <1>1, <1>9 DEF Sorted, n

(* A claim takes a nonempty sequence of candidates.                        *)
LEMMA ClaimedBatch ==
    ASSUME Inv, Candidates # {}, NEW s \in Limited(Candidates)
    PROVE  /\ s \subseteq Candidates
           /\ s \subseteq committed
           /\ Sorted(s) \in Seq(s)
           /\ Sorted(s) # <<>>
<1>1. s \subseteq Candidates /\ Candidates \subseteq committed
    BY DEF Limited, Candidates
<1>2. committed \subseteq Nat
    BY EventsAssumption DEF Inv, TypeOK
<1>3. IsFiniteSet(s) /\ IsFiniteSet(Candidates)
    BY <1>1, FS_Subset DEF Inv
<1>4. s # {}
    BY <1>3, FS_EmptySet, BatchSizeAssumption DEF Limited
<1>5. Sorted(s) \in [1 .. Cardinality(s) -> s] /\ Cardinality(s) \in Nat
    BY <1>1, <1>2, <1>3, SortedExists
<1>6. Cardinality(s) # 0
    BY <1>3, <1>4, FS_EmptySet
<1>7. Sorted(s) \in Seq(s) /\ Len(Sorted(s)) = Cardinality(s)
    BY <1>5
<1> QED
    BY <1>1, <1>6, <1>7

------------------------------------------------------------------------------
(* The invariant, action by action.                                        *)
LEMMA InitInv == Init => Inv
<1> SUFFICES ASSUME Init PROVE Inv
    OBVIOUS
<1>1. TypeOK
    BY DEF Init, TypeOK
<1>2. IsFiniteSet(committed)
    BY FS_EmptySet DEF Init
<1>3. ClaimsOK /\ BatchesOK
    BY DEF Init, ClaimsOK, BatchesOK
<1> QED
    BY <1>1, <1>2, <1>3 DEF Inv

(* A new row is unclaimed.                                                 *)
LEMMA AddTxStep ==
    ASSUME Inv, NEW e \in Events, AddTx(e)
    PROVE  Inv'
<1>1. TypeOK'
    BY DEF Inv, TypeOK, AddTx
<1>2. IsFiniteSet(committed')
    BY FS_AddElement DEF Inv, AddTx
<1>3. ClaimsOK'
    BY DEF Inv, ClaimsOK, AddTx
<1>4. \A q \in Publishers : batch[q] \in Seq(committed')
    BY DEF Inv, BatchesOK, AddTx
<1>5. BatchesOK'
    BY <1>4 DEF Inv, BatchesOK, AddTx
<1> QED
    BY <1>1, <1>2, <1>3, <1>5 DEF Inv

(* The passing of time changes no claim and no batch.                      *)
LEMMA TimeStep ==
    ASSUME Inv, \/ \E e \in Events : BecomeAvailable(e)
                \/ \E k \in Tokens : Expire(k)
    PROVE  Inv'
<1>1. CASE \E e \in Events : BecomeAvailable(e)
    BY <1>1 DEF Inv, TypeOK, ClaimsOK, BatchesOK, BecomeAvailable
<1>2. CASE \E k \in Tokens : Expire(k)
    BY <1>2 DEF Inv, TypeOK, ClaimsOK, BatchesOK, Expire, ClaimedUnder
<1> QED
    BY <1>1, <1>2

(* A claim takes rows no live lease holds, under a token of its own.       *)
LEMMA ClaimStep ==
    ASSUME Inv, NEW p \in Publishers, NEW k \in Tokens, Claim(p, k)
    PROVE  Inv'
<1>1. PICK s \in Limited(Candidates) :
         /\ lapsed' = lapsed \ s
         /\ claimedBy' = [e \in Events |-> IF e \in s THEN k ELSE claimedBy[e]]
         /\ batch' = [batch EXCEPT ![p] = Sorted(s)]
    BY Zenon DEF Claim
<1>2. /\ s \subseteq Candidates
      /\ s \subseteq committed
      /\ Sorted(s) \in Seq(s)
      /\ Sorted(s) # <<>>
    BY ClaimedBatch DEF Claim
<1>3. Sorted(s) \in Seq(committed) /\ Sorted(s) \in Seq(Events)
    BY <1>2 DEF Inv, TypeOK
<1>4. k # NoToken
    BY TokensAssumption
<1>5. TypeOK'
    BY <1>1, <1>3 DEF Inv, TypeOK, Claim
<1>6. ClaimsOK'
    BY <1>1, <1>2, <1>4 DEF Inv, TypeOK, ClaimsOK, Claim, Candidates
<1>7. sent[p] = "not_yet"
    BY DEF Inv, TypeOK, BatchesOK, Claim
<1>8. \A q \in Publishers : token[q] # k
    BY DEF Claim, Fresh
<1>9. BatchesOK'
    BY <1>1, <1>2, <1>3, <1>4, <1>7, <1>8 DEF Inv, TypeOK, BatchesOK, Claim
<1> QED
    BY <1>5, <1>6, <1>9 DEF Inv, Claim

(* A broker call sends a committed event, and remembers an acknowledgement *)
(* only of a record the topic holds.                                       *)
LEMMA ProduceStep ==
    ASSUME Inv, NEW p \in Publishers, NEW outcome \in {"acknowledged", "failed"},
           NEW kept \in BOOLEAN, Produce(p, outcome, kept)
    PROVE  /\ Inv'
           /\ Head(batch[p]) \in committed
           /\ delivered' \in {delivered, delivered \cup {Head(batch[p])}}
<1>1. Head(batch[p]) \in committed /\ committed \subseteq Events
    BY DEF Inv, TypeOK, BatchesOK, Produce
<1>2. /\ delivered' \in {delivered, delivered \cup {Head(batch[p])}}
      /\ outcome = "acknowledged" => Head(batch[p]) \in delivered'
    BY DEF Produce
<1>3. TypeOK'
    BY <1>1, <1>2 DEF Inv, TypeOK, Produce, row
<1>4. ClaimsOK'
    BY DEF Inv, ClaimsOK, Produce, row
<1>5. BatchesOK'
    BY <1>2 DEF Inv, TypeOK, BatchesOK, Produce, row
<1> QED
    BY <1>1, <1>2, <1>3, <1>4, <1>5 DEF Inv, Produce, row

(* The publisher leaves the head of its batch, or all of it.               *)
LEMMA LeaveBatch ==
    ASSUME Inv, NEW p \in Publishers, batch[p] # <<>>,
           NextInBatch(p) \/ Restart(p), UNCHANGED <<committed, delivered>>
    PROVE  /\ batch' \in [Publishers -> Seq(Events)]
           /\ token' \in [Publishers -> Tokens \cup {NoToken}]
           /\ sent' \in [Publishers -> {"not_yet", "acknowledged", "failed"}]
           /\ BatchesOK'
<1> DEFINE b == IF NextInBatch(p) THEN Tail(batch[p]) ELSE <<>>
           k == IF b = <<>> THEN NoToken ELSE token[p]
<1>1. /\ batch \in [Publishers -> Seq(Events)]
      /\ token \in [Publishers -> Tokens \cup {NoToken}]
      /\ sent \in [Publishers -> {"not_yet", "acknowledged", "failed"}]
      /\ committed \subseteq Events
    BY DEF Inv, TypeOK
<1>2. batch[p] \in Seq(committed)
    BY DEF Inv, BatchesOK
<1>3. b \in Seq(committed) /\ b \in Seq(Events)
    BY <1>1, <1>2
<1>4. NextInBatch(p) => (b = <<>> <=> Len(batch[p]) = 1)
  <2> DEFINE t == Tail(batch[p])
  <2>1. t \in Seq(committed) /\ Len(batch[p]) \in Nat /\ Len(t) = Len(batch[p]) - 1
    BY <1>2
  <2> HIDE DEF t
  <2>2. t = <<>> <=> Len(t) = 0
    <3>1. \A u \in Seq(committed) : u = <<>> <=> Len(u) = 0
      OBVIOUS
    <3> QED
      BY <2>1, <3>1, Zenon
  <2>3. t = <<>> <=> Len(batch[p]) = 1
    BY <2>1, <2>2
  <2> QED
    BY <2>3, Zenon DEF t
<1>5. /\ batch' = [batch EXCEPT ![p] = b]
      /\ token' = [token EXCEPT ![p] = k]
      /\ sent' = [sent EXCEPT ![p] = "not_yet"]
  <2>1. CASE NextInBatch(p)
    <3>1. b = Tail(batch[p]) /\ k = IF Len(batch[p]) = 1 THEN NoToken ELSE token[p]
      BY <1>4, <2>1
    <3> HIDE DEF b, k
    <3> QED
      BY <1>1, <2>1, <3>1 DEF NextInBatch
  <2>2. CASE ~NextInBatch(p) /\ Restart(p)
    BY <1>1, <2>2 DEF Restart
  <2> QED
    BY <2>1, <2>2
<1>6. k \in {NoToken, token[p]} /\ (b # <<>> => k = token[p])
    OBVIOUS
<1> HIDE DEF b, k
<1>7. token[p] # NoToken
    BY DEF Inv, BatchesOK
<1>8. BatchesOK'
    BY <1>1, <1>3, <1>5, <1>6, <1>7 DEF Inv, BatchesOK
<1> QED
    BY <1>1, <1>3, <1>5, <1>6, <1>8

(* Recording an outcome frees the row and moves on.                        *)
LEMMA MarkStep ==
    ASSUME Inv, NEW p \in Publishers, MarkPublished(p) \/ MarkFailed(p)
    PROVE  /\ Inv'
           /\ Head(batch[p]) \in committed
           /\ MarkPublished(p) => Head(batch[p]) \in delivered
<1>1. batch[p] # <<>> /\ batch[p] \in Seq(committed) /\ committed \subseteq Events
    BY DEF Inv, TypeOK, BatchesOK, MarkPublished, MarkFailed
<1>2. Head(batch[p]) \in committed /\ Head(batch[p]) \in Events
    BY <1>1
<1>3. MarkPublished(p) => Head(batch[p]) \in delivered
    BY DEF Inv, BatchesOK, MarkPublished
<1>4. /\ batch' \in [Publishers -> Seq(Events)]
      /\ token' \in [Publishers -> Tokens \cup {NoToken}]
      /\ sent' \in [Publishers -> {"not_yet", "acknowledged", "failed"}]
      /\ BatchesOK'
    BY <1>1, LeaveBatch DEF MarkPublished, MarkFailed
<1>5. TypeOK'
    BY <1>2, <1>4, Zenon DEF Inv, TypeOK, MarkPublished, MarkFailed
<1>6. ClaimsOK'
    BY <1>2 DEF Inv, TypeOK, ClaimsOK, MarkPublished, MarkFailed
<1> QED
    BY <1>2, <1>3, <1>4, <1>5, <1>6 DEF Inv, MarkPublished, MarkFailed

(* A publisher that ends forgets its batch and leaves the rows alone.      *)
LEMMA AbandonStep ==
    ASSUME Inv, NEW p \in Publishers, LoseClaim(p) \/ Crash(p)
    PROVE  Inv'
<1>1. batch[p] # <<>>
    BY DEF Inv, BatchesOK, LoseClaim, Crash
<1>2. /\ batch' \in [Publishers -> Seq(Events)]
      /\ token' \in [Publishers -> Tokens \cup {NoToken}]
      /\ sent' \in [Publishers -> {"not_yet", "acknowledged", "failed"}]
      /\ BatchesOK'
    BY <1>1, LeaveBatch DEF LoseClaim, Crash, row
<1>3. TypeOK' /\ ClaimsOK'
    BY <1>2 DEF Inv, TypeOK, ClaimsOK, LoseClaim, Crash, row
<1> QED
    BY <1>2, <1>3 DEF Inv, LoseClaim, Crash, row

(* The invariant does not depend on anything else.                         *)
LEMMA StutterStep == Inv /\ UNCHANGED vars => Inv'
    BY DEF Inv, vars, TypeOK, ClaimsOK, BatchesOK

(* Every step keeps the invariant.                                         *)
LEMMA NextStep == Inv /\ [Next]_vars => Inv'
<1>1. ASSUME Inv, Next PROVE Inv'
  <2>1. ASSUME NEW p \in Publishers, Acknowledge(p) \/ FailToProduce(p) PROVE Inv'
    BY <1>1, <2>1, ProduceStep, Zenon DEF Acknowledge, FailToProduce
  <2> QED
    BY <1>1, <2>1, AddTxStep, TimeStep, ClaimStep, MarkStep, AbandonStep DEF Next
<1> QED
    BY <1>1, StutterStep

(* Claims are on unpublished rows, and tokens tell publishers apart,       *)
(* however leases expire and processes die.                                *)
THEOREM OutboxInvariant == Spec => []Inv
    BY InitInv, NextStep, PTL DEF Spec

(* Every state is of the declared types, whatever publishers claim, lose   *)
(* and retry: what is left of a batch is always a sequence of events.      *)
THEOREM TypesAreKept == Spec => []TypeOK
<1>1. Inv => TypeOK
    BY DEF Inv
<1> QED
    BY <1>1, OutboxInvariant, PTL

(* What is left of a batch whose claim still stands is unpublished, and no *)
(* other publisher has its token.                                          *)
THEOREM BatchIsAlwaysOwed == Spec => []BatchIsOwedWhileOwned
<1>1. ASSUME Inv PROVE BatchIsOwedWhileOwned
  <2> SUFFICES ASSUME NEW p \in Publishers, NEW i \in DOMAIN batch[p],
                      claimedBy[batch[p][i]] = token[p]
               PROVE  /\ batch[p][i] \in committed \ (published \cup waiting)
                      /\ \A q \in Publishers \ {p} : token[q] # token[p]
    BY DEF BatchIsOwedWhileOwned
  <2>1. batch[p] \in Seq(committed) /\ batch[p] # <<>> /\ committed \subseteq Events
    BY <1>1 DEF Inv, TypeOK, BatchesOK
  <2>2. batch[p][i] \in Events
    BY <2>1
  <2>3. token[p] # NoToken
    BY <1>1, <2>1 DEF Inv, BatchesOK
  <2> QED
    BY <1>1, <2>2, <2>3 DEF Inv, ClaimsOK, BatchesOK
<1> QED
    BY <1>1, OutboxInvariant, PTL

------------------------------------------------------------------------------
(* Fencing.                                                                *)
RowUnchanged(e) ==
    /\ claimedBy'[e] = claimedBy[e]
    /\ e \in published' <=> e \in published
    /\ e \in waiting' <=> e \in waiting

MarkedByHolder(e) ==
    \E p \in Publishers :
        /\ batch[p] # <<>> /\ Head(batch[p]) = e
        /\ token[p] = claimedBy[e]
        /\ batch'[p] = Tail(batch[p])

(* A row under a live lease is changed by nobody but its holder.           *)
LEMMA Fencing ==
    ASSUME Inv, Next, NEW e \in Events, claimedBy[e] # NoToken, e \notin lapsed
    PROVE  RowUnchanged(e) \/ MarkedByHolder(e)
<1>1. ASSUME NEW f \in Events, AddTx(f) PROVE RowUnchanged(e)
    BY <1>1 DEF AddTx, RowUnchanged
<1>2. ASSUME NEW f \in Events, BecomeAvailable(f) PROVE RowUnchanged(e)
    BY <1>2 DEF BecomeAvailable, RowUnchanged, Inv, ClaimsOK
<1>3. ASSUME NEW k \in Tokens, Expire(k) PROVE RowUnchanged(e)
    BY <1>3 DEF Expire, RowUnchanged
<1>4. ASSUME NEW p \in Publishers, NEW k \in Tokens, Claim(p, k) PROVE RowUnchanged(e)
  <2>1. PICK s \in Limited(Candidates) :
           claimedBy' = [f \in Events |-> IF f \in s THEN k ELSE claimedBy[f]]
    BY <1>4 DEF Claim
  <2>2. e \notin s
    BY DEF Limited, Candidates
  <2> QED
    BY <1>4, <2>1, <2>2 DEF Claim, RowUnchanged
<1>5. ASSUME NEW p \in Publishers,
             Acknowledge(p) \/ FailToProduce(p) \/ LoseClaim(p) \/ Crash(p)
      PROVE  RowUnchanged(e)
    BY <1>5 DEF Acknowledge, FailToProduce, Produce, LoseClaim, Crash, row, RowUnchanged
<1>6. ASSUME NEW p \in Publishers, MarkPublished(p) \/ MarkFailed(p)
      PROVE  RowUnchanged(e) \/ MarkedByHolder(e)
  <2>1. CASE Head(batch[p]) = e
    <3>1. batch[p] # <<>> /\ batch \in [Publishers -> Seq(Events)]
      BY <1>6 DEF Inv, TypeOK, BatchesOK, MarkPublished, MarkFailed
    <3>2. batch'[p] = Tail(batch[p]) /\ token[p] = claimedBy[e]
      BY <1>6, <2>1, <3>1 DEF MarkPublished, MarkFailed, OwnsHead, NextInBatch
    <3> QED
      BY <2>1, <3>1, <3>2, Zenon DEF MarkedByHolder
  <2>2. CASE Head(batch[p]) # e
    <3>1. claimedBy \in [Events -> Tokens \cup {NoToken}]
      BY DEF Inv, TypeOK
    <3> QED
      BY <1>6, <2>2, <3>1 DEF MarkPublished, MarkFailed, RowUnchanged
  <2> QED
    BY <2>1, <2>2
<1> QED
    BY <1>1, <1>2, <1>3, <1>4, <1>5, <1>6 DEF Next

(* While a lease is live, only the publisher that holds it changes the     *)
(* row: a lost claim can neither mark it nor free it.                      *)
THEOREM LiveClaimIsAlwaysRespected == Spec => LiveClaimIsRespected
<1> DEFINE Respected == \A e \in Events :
             claimedBy[e] # NoToken /\ e \notin lapsed /\ ~RowUnchanged(e)
                => MarkedByHolder(e)
<1>1. Inv /\ [Next]_vars => [Respected]_vars
    BY Fencing
<1>2. Spec => [][Respected]_vars
    BY <1>1, OutboxInvariant, PTL DEF Spec
<1> QED
    BY <1>2 DEF LiveClaimIsRespected, RowUnchanged, MarkedByHolder

------------------------------------------------------------------------------
(* The publishers deliver every event they retire.  An event marked by     *)
(* MarkPublished was acknowledged by the broker under this claim or an     *)
(* earlier one, and an event in the topic was committed to the outbox.     *)
THEOREM OutboxImplementsEventDelivery == Spec => ImplementsEventDelivery
<1>1. Init => Delivery!Init
    BY DEF Init, Delivery!Init
<1>2. Inv /\ [Next]_vars => [Delivery!Next]_(Delivery!vars)
  <2> SUFFICES ASSUME Inv, Next PROVE Delivery!Next \/ UNCHANGED Delivery!vars
    BY DEF vars, Delivery!vars
  <2>0. committed \subseteq Events
    BY DEF Inv, TypeOK
  <2>1. ASSUME NEW e \in Events, AddTx(e) PROVE Delivery!Commit(e)
    BY <2>1 DEF AddTx, Delivery!Commit
  <2>2. ASSUME NEW p \in Publishers, Acknowledge(p) \/ FailToProduce(p)
        PROVE  Delivery!Next \/ UNCHANGED Delivery!vars
    <3>1. /\ Head(batch[p]) \in committed
          /\ delivered' \in {delivered, delivered \cup {Head(batch[p])}}
      BY <2>2, ProduceStep, Zenon DEF Acknowledge, FailToProduce
    <3>2. UNCHANGED <<committed, published>>
      BY <2>2 DEF Acknowledge, FailToProduce, Produce, row
    <3> QED
      BY <2>0, <3>1, <3>2 DEF Delivery!Next, Delivery!Deliver, Delivery!vars
  <2>3. ASSUME NEW p \in Publishers, MarkPublished(p)
        PROVE  Delivery!Next
    <3>1. Head(batch[p]) \in committed /\ Head(batch[p]) \in delivered
      BY <2>3, MarkStep
    <3> QED
      BY <2>0, <2>3, <3>1 DEF MarkPublished, Delivery!Next, Delivery!Retire
  <2>4. ASSUME NEW p \in Publishers, MarkFailed(p) \/ LoseClaim(p) \/ Crash(p)
        PROVE  UNCHANGED Delivery!vars
    BY <2>4 DEF MarkFailed, LoseClaim, Crash, row, Delivery!vars
  <2>5. CASE \/ \E e \in Events : BecomeAvailable(e)
             \/ \E p \in Publishers, k \in Tokens : Claim(p, k)
             \/ \E k \in Tokens : Expire(k)
    BY <2>5 DEF BecomeAvailable, Claim, Expire, Delivery!vars
  <2> QED
    BY <2>1, <2>2, <2>3, <2>4, <2>5 DEF Next, Delivery!Next
<1> QED
    BY <1>1, <1>2, OutboxInvariant, PTL DEF Spec, ImplementsEventDelivery, Delivery!Spec

------------------------------------------------------------------------------
(* The consumer group.                                                     *)

(* What took effect is a prefix of the log.                                *)
Prefix ==
    /\ stored = 1 .. Len(effects)
    /\ Len(effects) <= Len(Log)

(* Nobody is ahead of that prefix by more than the record it works on: not *)
(* the committed offset, not a batch, and not the owner's fetch position,  *)
(* unless the batch it still has to process covers the difference.         *)
NobodyIsAhead ==
    /\ offset <= Len(effects)
    /\ \A m \in Members :
          /\ Busy(m) => fetched[m].next <= Len(effects) + 1
          /\ handled[m] => Busy(m) /\ fetched[m].next <= Len(effects)
          /\ owner = m => \/ position[m] <= Len(effects)
                          \/ Busy(m) /\ position[m] <= fetched[m].last

GroupInv == GroupTypeOK /\ Prefix /\ NobodyIsAhead

(* The invariant holds before the first member has joined.                 *)
LEMMA GroupInitInv == GroupInit => GroupInv
<1> SUFFICES ASSUME GroupInit PROVE GroupInv
    OBVIOUS
<1>1. Len(Log) \in Nat
    BY LogAssumption
<1>2. Len(effects) = 0
    BY DEF GroupInit
<1>3. effects \in Seq({Log[r] : r \in DOMAIN Log})
    BY DEF GroupInit
<1>4. GroupTypeOK
    BY <1>1, <1>3, RebalancesAssumption DEF GroupInit, GroupTypeOK, NoBatch
<1>5. Prefix /\ NobodyIsAhead
    BY <1>1, <1>2, MembersAssumption DEF GroupInit, Prefix, NobodyIsAhead, NoBatch, Busy
<1> QED
    BY <1>4, <1>5 DEF GroupInv

(* The record a busy member is to handle is in the log, and if it is new   *)
(* it is the first one that has not taken effect.                          *)
LEMMA NewRecordIsNext ==
    ASSUME GroupInv, NEW m \in Members, Busy(m)
    PROVE  /\ fetched[m].next \in 1 .. Len(Log)
           /\ fetched[m].next \in DOMAIN Log
           /\ fetched[m].next \notin stored => fetched[m].next = Len(effects) + 1
<1>1. Len(Log) \in Nat /\ DOMAIN Log = 1 .. Len(Log)
    BY LogAssumption
<1>2. Len(effects) \in Nat
    BY DEF GroupInv, GroupTypeOK
<1>3. fetched[m].next \in Nat \ {0} /\ fetched[m].last \in Nat /\ fetched[m].last <= Len(Log)
    BY <1>1 DEF GroupInv, GroupTypeOK
<1>4. fetched[m].next <= Len(effects) + 1 /\ fetched[m].next <= fetched[m].last
    BY DEF GroupInv, NobodyIsAhead, Busy
<1> QED
    BY <1>1, <1>2, <1>3, <1>4 DEF GroupInv, Prefix

(* A new owner resumes at the committed offset, which is not ahead.        *)
LEMMA RebalanceInv ==
    ASSUME GroupInv, NEW m \in Members, Rebalance(m)
    PROVE  GroupInv'
<1>1. Len(Log) \in Nat /\ Len(effects) \in Nat
    BY LogAssumption DEF GroupInv, GroupTypeOK
<1>2. GroupTypeOK'
    BY <1>1, RebalancesAssumption DEF GroupInv, GroupTypeOK, Rebalance
<1>3. Prefix'
    BY DEF GroupInv, Prefix, Rebalance
<1>4. NobodyIsAhead'
    BY <1>1 DEF GroupInv, GroupTypeOK, NobodyIsAhead, Rebalance, Busy
<1> QED
    BY <1>2, <1>3, <1>4 DEF GroupInv

(* A poll fetches the records that follow the position.                    *)
LEMMA PollInv ==
    ASSUME GroupInv, NEW m \in Members, Poll(m)
    PROVE  GroupInv'
<1>1. Len(Log) \in Nat /\ Len(effects) \in Nat /\ MaxBatch \in Nat
    BY LogAssumption, BatchAssumption DEF GroupInv, GroupTypeOK
<1>2. PICK n \in 1 .. MaxBatch :
          /\ position[m] + n <= Len(Log)
          /\ fetched' = [fetched EXCEPT ![m] = [next |-> position[m] + 1,
                                            last |-> position[m] + n]]
          /\ position' = [position EXCEPT ![m] = @ + n]
    BY Zenon DEF Poll
<1>3. position[m] \in Nat /\ n \in Nat /\ n >= 1
    BY <1>1 DEF GroupInv, GroupTypeOK
<1>4. GroupTypeOK'
    BY <1>1, <1>2, <1>3, SMTT(30) DEF GroupInv, GroupTypeOK, Poll
<1>5. Prefix'
    BY DEF GroupInv, Prefix, Poll
<1>6. position[m] <= Len(effects) /\ ~handled[m]
    BY DEF GroupInv, NobodyIsAhead, Poll
<1>7. NobodyIsAhead'
    BY <1>1, <1>2, <1>3, <1>6, SMTT(30)
       DEF GroupInv, GroupTypeOK, NobodyIsAhead, Poll, Busy
<1> QED
    BY <1>4, <1>5, <1>7 DEF GroupInv

(* A handled record extends the prefix, or is in it already.               *)
LEMMA HandleRecordInv ==
    ASSUME GroupInv, NEW m \in Members, HandleRecord(m)
    PROVE  GroupInv'
<1> DEFINE r == fetched[m].next
<1>1. Len(Log) \in Nat /\ Len(effects) \in Nat /\ DOMAIN Log = 1 .. Len(Log)
    BY LogAssumption DEF GroupInv, GroupTypeOK
<1>2. /\ r \in 1 .. Len(Log)
      /\ r \notin stored => r = Len(effects) + 1
    BY NewRecordIsNext DEF HandleRecord
<1>3. CASE r \in stored
  <2>1. effects' = effects /\ stored' = stored
    BY <1>3 DEF HandleRecord
  <2>2. r <= Len(effects)
    BY <1>1, <1>2, <1>3 DEF GroupInv, Prefix
  <2>3. GroupTypeOK' /\ Prefix'
    BY <2>1 DEF GroupInv, GroupTypeOK, Prefix, HandleRecord
  <2>4. NobodyIsAhead'
    BY <1>1, <2>1, <2>2 DEF GroupInv, GroupTypeOK, NobodyIsAhead, HandleRecord, Busy
  <2> QED
    BY <2>3, <2>4 DEF GroupInv
<1>4. CASE r \notin stored
  <2>1. effects' = Append(effects, Log[r]) /\ stored' = stored \cup {r}
    BY <1>4 DEF HandleRecord
  <2>2. /\ effects \in Seq({Log[k] : k \in DOMAIN Log})
        /\ Log[r] \in {Log[k] : k \in DOMAIN Log}
    BY <1>1, <1>2 DEF GroupInv, GroupTypeOK
  <2>3. /\ Len(effects') = Len(effects) + 1
        /\ effects' \in Seq({Log[k] : k \in DOMAIN Log})
    BY <2>1, <2>2
  <2>4. GroupTypeOK'
    BY <1>1, <1>2, <2>1, <2>3 DEF GroupInv, GroupTypeOK, HandleRecord
  <2>5. Prefix'
    BY <1>1, <1>2, <1>4, <2>1, <2>3 DEF GroupInv, Prefix
  <2>6. NobodyIsAhead'
    BY <1>1, <1>2, <1>4, <2>3, SMTT(30)
       DEF GroupInv, GroupTypeOK, NobodyIsAhead, HandleRecord, Busy
  <2> QED
    BY <2>4, <2>5, <2>6 DEF GroupInv
<1> QED
    BY <1>3, <1>4

(* A commit, even a late one, covers only records that took effect.        *)
LEMMA CommitRecordInv ==
    ASSUME GroupInv, NEW m \in Members, CommitRecord(m)
    PROVE  GroupInv'
<1>1. Len(Log) \in Nat /\ Len(effects) \in Nat
    BY LogAssumption DEF GroupInv, GroupTypeOK
<1>2. /\ fetched[m].next \in 1 .. Len(Log) + 1 /\ fetched[m].last \in 0 .. Len(Log)
      /\ fetched[m].next <= fetched[m].last
      /\ fetched[m].next <= Len(effects)
    BY DEF GroupInv, GroupTypeOK, NobodyIsAhead, CommitRecord, Busy
<1>3. /\ fetched' = [fetched EXCEPT ![m] = [next |-> fetched[m].next + 1,
                                        last |-> fetched[m].last]]
      /\ handled' = [handled EXCEPT ![m] = FALSE]
      /\ offset' = fetched[m].next
      /\ UNCHANGED <<owner, rebalances, position, effects, stored>>
    BY DEF CommitRecord, NextRecord
<1>4. GroupTypeOK'
  <2>1. fetched \in [Members -> [next : 1 .. Len(Log) + 1, last : 0 .. Len(Log)]]
    BY DEF GroupInv, GroupTypeOK
  <2>2. [next |-> fetched[m].next + 1, last |-> fetched[m].last]
           \in [next : 1 .. Len(Log) + 1, last : 0 .. Len(Log)]
    BY <1>1, <1>2
  <2>3. fetched' \in [Members -> [next : 1 .. Len(Log) + 1, last : 0 .. Len(Log)]]
    BY <1>3, <2>1, <2>2
  <2>4. offset' \in 0 .. Len(Log)
    BY <1>1, <1>2, <1>3
  <2> QED
    BY <1>3, <2>3, <2>4 DEF GroupInv, GroupTypeOK
<1>5. Prefix'
    BY <1>3 DEF GroupInv, Prefix
<1>6. ASSUME NEW k \in Members
      PROVE  /\ Busy(k)' => fetched'[k].next <= Len(effects) + 1
             /\ handled'[k] => Busy(k)' /\ fetched'[k].next <= Len(effects)
             /\ owner = k => \/ position[k] <= Len(effects)
                             \/ Busy(k)' /\ position[k] <= fetched'[k].last
  <2>1. CASE k = m
    <3>1. /\ fetched'[m].next = fetched[m].next + 1
          /\ fetched'[m].last = fetched[m].last
          /\ ~handled'[m]
        BY <1>3 DEF GroupInv, GroupTypeOK
    <3>2. owner = m => \/ position[m] <= Len(effects)
                       \/ position[m] <= fetched[m].last
        BY DEF GroupInv, NobodyIsAhead
    <3>3. position[m] \in Nat
        BY <1>1 DEF GroupInv, GroupTypeOK
    <3> QED
        BY <1>1, <1>2, <2>1, <3>1, <3>2, <3>3 DEF Busy
  <2>2. CASE k # m
    <3>1. fetched'[k] = fetched[k] /\ handled'[k] = handled[k]
        BY <1>3, <2>2 DEF GroupInv, GroupTypeOK
    <3> QED
        BY <3>1 DEF GroupInv, NobodyIsAhead, Busy
  <2> QED
    BY <2>1, <2>2
<1>7. NobodyIsAhead'
    BY <1>1, <1>2, <1>3, <1>6 DEF NobodyIsAhead
<1> QED
    BY <1>4, <1>5, <1>7 DEF GroupInv

(* A member that leaves forgets its batch.                                 *)
LEMMA LeaveInv ==
    ASSUME GroupInv, NEW m \in Members, Leave(m)
    PROVE  GroupInv'
<1>1. Len(Log) \in Nat /\ Len(effects) \in Nat
    BY LogAssumption DEF GroupInv, GroupTypeOK
<1>2. GroupTypeOK'
    BY <1>1 DEF GroupInv, GroupTypeOK, Leave, NoBatch
<1>3. Prefix'
    BY DEF GroupInv, Prefix, Leave
<1>4. NobodyIsAhead'
    BY <1>1, MembersAssumption DEF GroupInv, GroupTypeOK, NobodyIsAhead, Leave, NoBatch, Busy
<1> QED
    BY <1>2, <1>3, <1>4 DEF GroupInv

(* Every step keeps the invariant.                                         *)
LEMMA GroupNextInv == GroupInv /\ [GroupNext]_groupVars => GroupInv'
<1> SUFFICES ASSUME GroupInv, [GroupNext]_groupVars PROVE GroupInv'
    OBVIOUS
<1>1. CASE UNCHANGED groupVars
    BY <1>1 DEF groupVars, GroupInv, GroupTypeOK, Prefix, NobodyIsAhead, Busy
<1>2. CASE GroupNext
    BY <1>2, RebalanceInv, PollInv, HandleRecordInv, CommitRecordInv, LeaveInv
       DEF GroupNext, Consume
<1> QED
    BY <1>1, <1>2

(* The inductive invariant holds.                                          *)
THEOREM GroupInvariant == GroupSpec => []GroupInv
    BY GroupInitInv, GroupNextInv, PTL DEF GroupSpec

(* Every state is of the declared types: positions and offsets stay within *)
(* the log whoever rebalances, polls or leaves.                            *)
THEOREM GroupTypesAreKept == GroupSpec => []GroupTypeOK
<1>1. GroupInv => GroupTypeOK
    BY DEF GroupInv
<1> QED
    BY <1>1, GroupInvariant, PTL

(* However members overlap and whatever they commit late, the committed    *)
(* offset never passes a record without effect.                            *)
THEOREM CommittedIsAlwaysStored == GroupSpec => []CommittedIsStored
<1>1. GroupInv => CommittedIsStored
  <2> SUFFICES ASSUME GroupInv PROVE CommittedIsStored
    OBVIOUS
  <2>1. Len(effects) \in Nat /\ offset \in Nat
    BY LogAssumption DEF GroupInv, GroupTypeOK
  <2> QED
    BY <2>1 DEF GroupInv, Prefix, NobodyIsAhead, CommittedIsStored
<1> QED
    BY <1>1, GroupInvariant, PTL

(* A group with rebalances, restarts and offsets that move back implements *)
(* one consumer that takes the records in order, each one once.            *)
THEOREM GroupImplementsInOrderConsumer == GroupSpec => ImplementsInOrderConsumer
<1>1. GroupInit => Partition!Init
    BY DEF GroupInit, Partition!Init
<1>2. GroupInv /\ [GroupNext]_groupVars => [Partition!TakeEffect]_effects
  <2> SUFFICES ASSUME GroupInv, [GroupNext]_groupVars, effects' # effects
               PROVE  Partition!TakeEffect
    OBVIOUS
  <2>1. PICK m \in Members : HandleRecord(m)
    BY DEF GroupNext, Consume, groupVars, Rebalance, Poll, CommitRecord, Leave
  <2>2. /\ fetched[m].next \in 1 .. Len(Log)
        /\ fetched[m].next \notin stored => fetched[m].next = Len(effects) + 1
    BY <2>1, NewRecordIsNext DEF HandleRecord
  <2>3. Len(Log) \in Nat /\ Len(effects) \in Nat
    BY LogAssumption DEF GroupInv, GroupTypeOK
  <2> QED
    BY <2>1, <2>2, <2>3 DEF HandleRecord, Partition!TakeEffect
<1> QED
    BY <1>1, <1>2, GroupInvariant, PTL
       DEF GroupSpec, ImplementsInOrderConsumer, Partition!Spec
==============================================================================
