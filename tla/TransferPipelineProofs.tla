----------------------- MODULE TransferPipelineProofs ------------------------
(***************************************************************************)
(* Proofs about TransferPipeline, for any set of transfers, accounts,      *)
(* partitions and policies.                                                *)
(***************************************************************************)
EXTENDS TransferPipeline, TLAPS

(* Abbreviations that every proof sees through.                            *)
USE DEF ValidIntent, Requested, RiskAssessed, ReviewDecided, Completed, Failed,
        StoreLifecycleTransitionTx, DecideReviewCaseTx, AppendReviewDecisionTx

(* The two rows a transfer locks: if lockAndCalculateBalances reports no   *)
(* error then both exist and neither of them fails its own check.          *)
LEMMA PostingSucceeds ==
    ASSUME NEW t \in Transfers, NEW b \in [Accounts -> Minor],
           PostingError(b, JournalEntry(t)) = "none"
    PROVE  /\ DOMAIN JournalEntry(t) \subseteq Accounts
           /\ \A a \in DOMAIN JournalEntry(t) :
                 RowError(b, JournalEntry(t), a) = "none"
<1> DEFINE c == JournalEntry(t)
<1>1. DOMAIN c = {Intent[t].source, Intent[t].destination}
  BY DEF JournalEntry
<1>2. FailingRows(b, c) \subseteq {Intent[t].source, Intent[t].destination}
  BY <1>1 DEF FailingRows
<1>3. FailingRows(b, c) = {}
  <2> SUFFICES ASSUME FailingRows(b, c) # {} PROVE FALSE
    OBVIOUS
  <2> DEFINE first == CHOOSE a \in FailingRows(b, c) :
                          \A d \in FailingRows(b, c) : a <= d
  <2>1. Intent[t].source \in Nat /\ Intent[t].destination \in Nat
    BY IntentAssumption
  <2>2. \E a \in FailingRows(b, c) : \A d \in FailingRows(b, c) : a <= d
    <3> HIDE DEF c
    <3> QED BY <1>2, <2>1
  <2>3. first \in FailingRows(b, c)
    BY <2>2
  <2>4. RowError(b, c, first) # "none"
    BY <2>3 DEF FailingRows
  <2>5. PostingError(b, c) = RowError(b, c, first)
    BY DEF PostingError
  <2> QED BY <2>4, <2>5
<1>4. DOMAIN c \subseteq Accounts
  BY <1>3 DEF PostingError
<1> QED BY <1>3, <1>4 DEF FailingRows

(* What updateBalances writes after such a check: every balance is again   *)
(* in range, and no customer balance that was not negative becomes so.     *)
LEMMA ApplyChangeIsSafe ==
    ASSUME NEW t \in Transfers, NEW b \in [Accounts -> Minor],
           PostingError(b, JournalEntry(t)) = "none"
    PROVE  /\ ApplyChange(b, JournalEntry(t)) \in [Accounts -> Minor]
           /\ \A a \in Accounts \ System :
                 b[a] >= 0 => ApplyChange(b, JournalEntry(t))[a] >= 0
<1> DEFINE c == JournalEntry(t)
<1>1. \A a \in DOMAIN c \cap Accounts :
         /\ b[a] + c[a] \in Minor
         /\ a \notin System => b[a] + c[a] >= 0
  <2> TAKE a \in DOMAIN c \cap Accounts
  <2>1. RowError(b, c, a) = "none"
    BY PostingSucceeds
  <2>2. b[a] \in Int /\ c[a] \in Int
    BY IntentAssumption, MaxMinorAssumption DEF JournalEntry, Minor
  <2> HIDE DEF c
  <2>3. b[a] + c[a] \in Minor
    BY <2>1 DEF RowError
  <2> QED BY <2>1, <2>2, <2>3 DEF RowError
<1> HIDE DEF c
<1>2. ApplyChange(b, c) \in [Accounts -> Minor]
  BY <1>1 DEF ApplyChange
<1>3. \A a \in Accounts \ System : b[a] >= 0 => ApplyChange(b, c)[a] >= 0
  BY <1>1 DEF ApplyChange
<1> QED BY <1>2, <1>3 DEF c

(* Evaluate decides every captured input.                                  *)
LEMMA EvaluateDecides ==
    ASSUME NEW policy, NEW input
    PROVE  Evaluate(policy, input).decision \in Decisions
BY DEF Evaluate, Evaluation, Decisions

(* A riskier input never gets a milder decision: a larger amount, a larger *)
(* count or an unavailable velocity observation, which ranks above every   *)
(* count, never lowers the score of Evaluate, and the score tells approval *)
(* and decline apart from review.                                          *)
THEOREM RiskierIsNeverMilder ==
    ASSUME NEW policy, ValidPolicy(policy),
           NEW i \in [currency : STRING, amount : Nat, count : Nat, degraded : BOOLEAN],
           NEW j \in [currency : STRING, amount : Nat, count : Nat, degraded : BOOLEAN],
           j.currency = i.currency, i.amount <= j.amount,
           j.degraded \/ (~i.degraded /\ i.count <= j.count)
    PROVE  /\ Evaluate(policy, i).score <= Evaluate(policy, j).score
           /\ Evaluate(policy, i).decision = "approve" <=> Evaluate(policy, i).score = 0
           /\ Evaluate(policy, i).decision = "decline" <=> Evaluate(policy, i).score = 1000
<1> DEFINE limit == policy[i.currency]
<1>1. \A n, d : Evaluation(n, d).score = n /\ Evaluation(n, d).decision = d
  BY DEF Evaluation
<1>2. CASE i.currency \notin DOMAIN policy
  BY <1>1, <1>2 DEF Evaluate
<1>3. CASE i.currency \in DOMAIN policy
  <2>1. limit.review \in Nat /\ limit.decline \in Nat /\ limit.velocity \in Nat
    BY <1>3 DEF ValidPolicy, Thresholds
  <2>2. i.amount \in Nat /\ j.amount \in Nat /\ i.count \in Nat /\ j.count \in Nat
    OBVIOUS
  <2> HIDE DEF limit
  <2> QED BY <1>1, <1>3, <2>1, <2>2 DEF Evaluate, limit
<1> QED BY <1>2, <1>3

(* A worker that can take a record takes a record of its partition.        *)
LEMMA RecordOfTopic ==
    ASSUME TypeOK, NEW w \in Workers, NEW p \in Partitions, Ready(w, p)
    PROVE  /\ offset[w][p] + 1 \in 1 .. Len(topic[p])
           /\ Record(w, p) \in Events \cup PoisonRecords
<1>1. topic[p] \in Seq(Events \cup PoisonRecords) /\ offset[w][p] \in Nat
  BY DEF TypeOK
<1>2. offset[w][p] < Len(topic[p]) /\ Len(topic[p]) \in Nat
  BY <1>1 DEF Ready
<1> QED BY <1>1, <1>2 DEF Record

(* A record that a handler accepts is an event, not a poison record.       *)
LEMMA AcceptedRecordIsEvent ==
    ASSUME TypeOK, NEW w \in Workers, NEW p \in Partitions,
           Ready(w, p), Accepts(w, Record(w, p))
    PROVE  Record(w, p) \in Events /\ Record(w, p) \notin PoisonRecords
<1>1. Record(w, p) \in Events \cup PoisonRecords
  BY RecordOfTopic
<1>2. Unknown.type = "unknown"
  BY DEF Unknown
<1>3. Malformed.type = "risk_assessed" /\ Malformed.version = 0
  BY DEF Malformed
<1>4. \A r \in PoisonRecords : ~Accepts(w, r)
  BY <1>2, <1>3 DEF PoisonRecords, Accepts, OwnedTypes, WellFormed
<1> QED BY <1>1, <1>4

(* Appending to a partition keeps its records and the other partitions.    *)
LEMMA AppendKeepsRecords ==
    ASSUME TypeOK, NEW p \in Partitions, NEW r \in Events \cup PoisonRecords,
           AppendRecord(p, r)
    PROVE  /\ topic' \in [Partitions -> Seq(Events \cup PoisonRecords)]
           /\ \A q \in Partitions :
                 /\ Len(topic[q]) \in Nat
                 /\ Len(topic'[q]) \in Nat
                 /\ Len(topic[q]) <= Len(topic'[q])
                 /\ \A i \in 1 .. Len(topic[q]) : topic'[q][i] = topic[q][i]
                 /\ \A i \in 1 .. Len(topic'[q]) :
                       i \in 1 .. Len(topic[q]) \/ topic'[q][i] = r
<1> DEFINE S == Events \cup PoisonRecords
<1>1. topic \in [Partitions -> Seq(S)] /\ topic[p] \in Seq(S)
  BY DEF TypeOK
<1>2. topic' = [topic EXCEPT ![p] = Append(topic[p], r)]
  BY DEF AppendRecord
<1> HIDE DEF S
<1>3. /\ Append(topic[p], r) \in Seq(S)
      /\ Len(Append(topic[p], r)) = Len(topic[p]) + 1
      /\ Len(topic[p]) \in Nat
      /\ \A i \in 1 .. Len(topic[p]) : Append(topic[p], r)[i] = topic[p][i]
      /\ Append(topic[p], r)[Len(topic[p]) + 1] = r
  BY <1>1 DEF S
<1>4. topic' \in [Partitions -> Seq(S)]
  BY <1>1, <1>2, <1>3
<1>5. ASSUME NEW q \in Partitions
      PROVE  /\ Len(topic[q]) \in Nat
             /\ Len(topic'[q]) \in Nat
             /\ Len(topic[q]) <= Len(topic'[q])
             /\ \A i \in 1 .. Len(topic[q]) : topic'[q][i] = topic[q][i]
             /\ \A i \in 1 .. Len(topic'[q]) :
                   i \in 1 .. Len(topic[q]) \/ topic'[q][i] = r
  <2>1. CASE q = p
    <3>1. topic'[q] = Append(topic[p], r)
      BY <1>1, <1>2, <2>1
    <3> QED BY <1>3, <2>1, <3>1
  <2>2. CASE q # p
    <3>1. topic'[q] = topic[q] /\ topic[q] \in Seq(S)
      BY <1>1, <1>2, <2>2
    <3> QED BY <3>1
  <2> QED BY <2>1, <2>2
<1> QED BY <1>4, <1>5 DEF S

(* Committing an offset moves that one position by one record.             *)
LEMMA OffsetAdvances ==
    ASSUME TypeOK, NEW w \in Workers, NEW p \in Partitions, AdvanceOffset(w, p)
    PROVE  /\ offset' \in [Workers -> [Partitions -> Nat]]
           /\ \A v \in Workers, q \in Partitions :
                 offset'[v][q] = IF v = w /\ q = p THEN offset[v][q] + 1
                                                  ELSE offset[v][q]
<1>1. offset \in [Workers -> [Partitions -> Nat]]
  BY DEF TypeOK
<1>2. offset' = [offset EXCEPT ![w] = [offset[w] EXCEPT ![p] = offset[w][p] + 1]]
  BY DEF AdvanceOffset
<1>3. [offset[w] EXCEPT ![p] = offset[w][p] + 1] \in [Partitions -> Nat]
  BY <1>1
<1> QED BY <1>1, <1>2, <1>3

------------------------------------------------------------------------------
(* Every step of the system either leaves the transfer rows, the ledger    *)
(* and the outbox alone or advances one transfer by one version.           *)

(* The statuses a step may lead from and to.                               *)
Edge(t, from, to) ==
    \/ from = "absent" /\ to = IF t \in Direct THEN "completed" ELSE "pending_risk"
    \/ from = "pending_risk" /\ to \in {"approved", "review_required", "declined"}
    \/ from = "review_required" /\ to \in {"approved", "declined"}
    \/ from = "approved" /\ to \in {"completed", "failed"}

(* Transfer t takes lifecycle l and the outbox its event e.                *)
Advance(t, l, e) ==
    /\ row' = [row EXCEPT ![t] = l]
    /\ l \in StoredLifecycles
    /\ Validate(l)
    /\ l.version = row[t].version + 1
    /\ Edge(t, row[t].status, l.status)
    /\ outbox' = outbox \cup {e}
    /\ e \in Events \ outbox
    /\ WellFormed(e)
    /\ e.transfer = t
    /\ e.version = l.version
    /\ IF l.status = "completed" THEN PostTx(t)
                                 ELSE UNCHANGED <<balance, journal>>

(* The columns of a row that is not there.                                 *)
LEMMA AbsentFields == Absent.status = "absent" /\ Absent.version = 0
BY DEF Absent

(* An accepted asynchronous command advances its transfer to version 1.    *)
LEMMA CreatePendingAdvances ==
    ASSUME TypeOK, NEW t \in Transfers, CreatePending(t)
    PROVE  \E l, e : Advance(t, l, e)
<1> DEFINE l == NewPendingLifecycle(Intent[t].policy)
           e == Event("requested", t, l, "none")
<1>1. row' = [row EXCEPT ![t] = l] /\ row'[t] = l
  BY DEF CreatePending, TypeOK
<1>2. l \in StoredLifecycles /\ Validate(l)
  BY IntentAssumption
  DEF NewPendingLifecycle, StoredLifecycles, Lifecycles, Statuses, Validate, InsufficientFunds,
      NoEntry, OwnEntry, NoFailure
<1>3. /\ l.version = row[t].version + 1
      /\ Edge(t, row[t].status, l.status)
      /\ l.status # "completed"
  <2>1. row[t].status = "absent" /\ row[t].version = 0
    BY AbsentFields DEF CreatePending
  <2>2. l.status = "pending_risk" /\ l.version = 1
    BY DEF NewPendingLifecycle
  <2>3. t \notin Direct
    BY DEF CreatePending
  <2> QED BY <2>1, <2>2, <2>3 DEF Edge
<1>4. e \in Events /\ WellFormed(e) /\ e.transfer = t /\ e.version = l.version
  BY DEF Event, Events, EventTypes, WellFormed, NewPendingLifecycle
<1>5. outbox' = outbox \cup {e} /\ e \notin outbox /\ UNCHANGED <<balance, journal>>
  BY <1>1 DEF CreatePending, AddTx
<1>6. Advance(t, l, e)
  <2> HIDE DEF l, e
  <2> QED BY <1>1, <1>2, <1>3, <1>4, <1>5 DEF Advance
<1> QED BY <1>6

(* A direct command advances its transfer to completed with its entry.     *)
LEMMA CreateAdvances ==
    ASSUME TypeOK, NEW t \in Transfers, Create(t)
    PROVE  \E l, e : Advance(t, l, e)
<1> DEFINE l == NewCompletedLifecycle
           e == Event("completed", t, l, "none")
<1>1. row' = [row EXCEPT ![t] = l] /\ row'[t] = l
  BY DEF Create, TypeOK
<1>2. l \in StoredLifecycles /\ Validate(l)
  BY DEF NewCompletedLifecycle, StoredLifecycles, Lifecycles, Statuses, Validate, InsufficientFunds,
         NoPolicy, NoEntry, OwnEntry, NoFailure
<1>3. /\ l.version = row[t].version + 1
      /\ Edge(t, row[t].status, l.status)
      /\ l.status = "completed"
  <2>1. row[t].status = "absent" /\ row[t].version = 0
    BY AbsentFields DEF Create
  <2>2. l.status = "completed" /\ l.version = 1
    BY DEF NewCompletedLifecycle
  <2>3. t \in Direct
    BY DEF Create
  <2> QED BY <2>1, <2>2, <2>3 DEF Edge
<1>4. e \in Events /\ WellFormed(e) /\ e.transfer = t /\ e.version = l.version
  BY DEF Event, Events, EventTypes, WellFormed, NewCompletedLifecycle
<1>5. outbox' = outbox \cup {e} /\ e \notin outbox /\ PostTx(t)
  BY <1>1 DEF Create, AddTx
<1>6. Advance(t, l, e)
  <2> HIDE DEF l, e
  <2> QED BY <1>1, <1>2, <1>3, <1>4, <1>5 DEF Advance
<1> QED BY <1>6

(* A row whose transfer is under way holds a valid lifecycle.              *)
LEMMA RowUnderWay ==
    ASSUME TypeOK, StoredLifecyclesAreValid, NEW t \in Transfers,
           row[t].status \in {"pending_risk", "review_required", "approved"}
    PROVE  row[t] \in StoredLifecycles /\ Validate(row[t])
BY AbsentFields DEF TypeOK, StoredLifecyclesAreValid

(* transition keeps the domain's invariants on every edge that the methods *)
(* of the lifecycle allow.                                                 *)
LEMMA TransitionIsValid ==
    ASSUME NEW l \in StoredLifecycles, Validate(l),
           l.status \in {"pending_risk", "review_required", "approved"},
           NEW s, NEW j, NEW f,
           \/ s \in {"approved", "review_required", "declined"}
                /\ j = NoEntry /\ f = NoFailure
           \/ s = "completed" /\ j = OwnEntry /\ f = NoFailure
           \/ s = "failed" /\ j = NoEntry /\ f = InsufficientFunds
    PROVE  LET n == Transition(l, s, j, f) IN
           /\ n \in StoredLifecycles
           /\ Validate(n)
           /\ n.status = s
           /\ n.version = l.version + 1
<1> DEFINE n == Transition(l, s, j, f)
<1>1. /\ n.status = s /\ n.version = l.version + 1 /\ n.policy = l.policy
      /\ n.journal = j /\ n.failure = f
  BY DEF Transition
<1>2. s \in Statuses /\ j \in {NoEntry, OwnEntry} /\ f \in {NoFailure, InsufficientFunds}
  BY DEF Statuses
<1>3. n \in StoredLifecycles
  BY <1>2 DEF Transition, StoredLifecycles, Lifecycles
<1>4. l.version \in Nat /\ l.policy # NoPolicy /\ l.version > 0
  BY DEF Validate, StoredLifecycles, Lifecycles
<1>5. Validate(n)
  <2> HIDE DEF n
  <2> QED BY <1>1, <1>4 DEF Validate, NoEntry, OwnEntry, NoFailure, InsufficientFunds
<1> QED BY <1>1, <1>3, <1>5

(* An analyst's decision advances a transfer under review.                 *)
LEMMA DecideAdvances ==
    ASSUME TypeOK, StoredLifecyclesAreValid, NEW t \in Transfers,
           NEW d \in ReviewDecisions, NEW s \in Subjects, Decide(t, d, s)
    PROVE  \E l, e : Advance(t, l, e)
<1> DEFINE l == Decided(row[t], d)
           e == Event("review_decided", t, l, d)
<1>1. row' = [row EXCEPT ![t] = l] /\ row'[t] = l
  BY DEF Decide, TypeOK
<1>2. row[t].status = "review_required"
  BY DEF Decide
<1>3. row[t] \in StoredLifecycles /\ Validate(row[t])
  BY <1>2, RowUnderWay
<1>4. l = Transition(row[t], d, NoEntry, NoFailure)
  BY DEF Decided, Approve, Decline, ReviewDecisions
<1>5. l \in StoredLifecycles /\ Validate(l) /\ l.status = d
      /\ l.version = row[t].version + 1
  BY <1>2, <1>3, <1>4, TransitionIsValid DEF ReviewDecisions
<1>6. Edge(t, row[t].status, l.status) /\ l.status # "completed"
  BY <1>2, <1>5 DEF Edge, ReviewDecisions
<1>7. row[t].version \in Nat /\ row[t].version >= 2
  BY <1>2, <1>3 DEF Validate, StoredLifecycles, Lifecycles
<1>8. e \in Events /\ WellFormed(e) /\ e.transfer = t /\ e.version = l.version
  <2> HIDE DEF l
  <2> QED BY <1>5, <1>7 DEF Event, Events, EventTypes, WellFormed
<1>9. outbox' = outbox \cup {e} /\ e \notin outbox /\ UNCHANGED <<balance, journal>>
  <2>1. AddTx(Event("review_decided", t, l, l.status))
    BY <1>1 DEF Decide
  <2>2. AddTx(e)
    BY <1>5, <2>1
  <2> QED BY <2>2 DEF Decide, AddTx
<1>10. Advance(t, l, e)
  <2> HIDE DEF l, e
  <2> QED BY <1>1, <1>5, <1>6, <1>8, <1>9, Zenon DEF Advance
<1> QED BY <1>10

(* The observation and the decision behind a step of the risk worker.      *)
LEMMA RiskHandleDecides ==
    ASSUME TypeOK, StoredLifecyclesAreValid, NEW p \in Partitions, RiskHandle(p)
    PROVE  LET t == Record("risk", p).transfer IN
           \E d \in Decisions :
              /\ t \in Transfers
              /\ row[t].status = "pending_risk"
              /\ StoreRiskAssessmentTx(t, d)
              /\ AddTx(Event("risk_assessed", t, row'[t], d))
<1> DEFINE t == Record("risk", p).transfer
<1>1. Record("risk", p) \in Events
  BY AcceptedRecordIsEvent, Zenon DEF RiskHandle, Reserve, Workers
<1>2. t \in Transfers
  BY <1>1 DEF Events
<1>3. PICK seen \in Observations :
         LET decision == Evaluate(Policies[Intent[t].policy],
                                  CaptureInput(t, seen)).decision IN
         /\ StoreRiskAssessmentTx(t, decision)
         /\ AddTx(Event("risk_assessed", t, row'[t], decision))
  BY Zenon DEF RiskHandle
<1>4. Evaluate(Policies[Intent[t].policy], CaptureInput(t, seen)).decision
         \in Decisions
  BY EvaluateDecides
<1>5. row[t].status = "pending_risk"
  BY Zenon DEF RiskHandle
<1> QED BY <1>2, <1>3, <1>4, <1>5, Zenon

(* An assessment advances a pending transfer.                              *)
LEMMA RiskHandleAdvances ==
    ASSUME TypeOK, StoredLifecyclesAreValid, NEW p \in Partitions, RiskHandle(p)
    PROVE  LET t == Record("risk", p).transfer IN
           /\ t \in Transfers
           /\ row[t].status = "pending_risk"
           /\ \E l, e : Advance(t, l, e)
<1> DEFINE t == Record("risk", p).transfer
<1>1. PICK d \in Decisions :
         /\ t \in Transfers
         /\ row[t].status = "pending_risk"
         /\ StoreRiskAssessmentTx(t, d)
         /\ AddTx(Event("risk_assessed", t, row'[t], d))
  BY RiskHandleDecides
<1> DEFINE l == Assessed(row[t], d)
           e == Event("risk_assessed", t, l, d)
<1> HIDE DEF t
<1>2. row' = [row EXCEPT ![t] = l] /\ row'[t] = l
  BY <1>1 DEF StoreRiskAssessmentTx, TypeOK
<1>3. row[t] \in StoredLifecycles /\ Validate(row[t])
  BY <1>1, RowUnderWay
<1>4. PICK s \in {"approved", "review_required", "declined"} :
         l = Transition(row[t], s, NoEntry, NoFailure)
  BY DEF Assessed, Approve, RequireReview, Decline, Decisions
<1>5. l \in StoredLifecycles /\ Validate(l) /\ l.status = s
      /\ l.version = row[t].version + 1
  BY <1>1, <1>3, <1>4, TransitionIsValid
<1>6. Edge(t, row[t].status, l.status) /\ l.status # "completed"
  BY <1>1, <1>5 DEF Edge
<1>7. row[t].version = 1
  BY <1>1, <1>3 DEF Validate
<1>8. e \in Events /\ WellFormed(e) /\ e.transfer = t /\ e.version = l.version
  <2> HIDE DEF l
  <2> QED BY <1>1, <1>5, <1>7 DEF Event, Events, EventTypes, WellFormed
<1>9. outbox' = outbox \cup {e} /\ e \notin outbox /\ UNCHANGED <<balance, journal>>
  BY <1>1, <1>2, Zenon DEF RiskHandle, AddTx
<1>10. Advance(t, l, e)
  <2> HIDE DEF l, e
  <2> QED BY <1>2, <1>5, <1>6, <1>8, <1>9 DEF Advance
<1> QED BY <1>1, <1>10 DEF t

(* A posting advances an approved transfer to completed or failed.         *)
LEMMA PostAdvances ==
    ASSUME TypeOK, StoredLifecyclesAreValid, NEW t \in Transfers, Post(t)
    PROVE  \E l, e : Advance(t, l, e)
<1>1. row[t].status = "approved"
  BY DEF Post
<1>2. row[t] \in StoredLifecycles /\ Validate(row[t])
  BY <1>1, RowUnderWay
<1>3. CASE PostAndComplete(t)
  <2> DEFINE l == Complete(row[t])
             e == Event("completed", t, l, "none")
  <2>1. row' = [row EXCEPT ![t] = l] /\ row'[t] = l
    BY <1>3 DEF PostAndComplete, TypeOK
  <2>2. l \in StoredLifecycles /\ Validate(l) /\ l.status = "completed"
        /\ l.version = row[t].version + 1
    BY <1>1, <1>2, TransitionIsValid DEF Complete
  <2>3. Edge(t, row[t].status, l.status)
    BY <1>1, <2>2 DEF Edge
  <2>4. e \in Events /\ WellFormed(e) /\ e.transfer = t /\ e.version = l.version
    <3>1. l.version \in Nat
      BY <2>2 DEF StoredLifecycles, Lifecycles
    <3> HIDE DEF l
    <3> QED BY <3>1 DEF Event, Events, EventTypes, WellFormed
  <2>5. outbox' = outbox \cup {e} /\ e \notin outbox /\ PostTx(t)
    BY <1>3, <2>1 DEF PostAndComplete, AddTx
  <2>6. Advance(t, l, e)
    <3> HIDE DEF l, e
    <3> QED BY <2>1, <2>2, <2>3, <2>4, <2>5 DEF Advance
  <2> QED BY <2>6
<1>4. CASE FailTransfer(t)
  <2> DEFINE l == Fail(row[t], InsufficientFunds)
             e == Event("failed", t, l, "none")
  <2>1. row' = [row EXCEPT ![t] = l] /\ row'[t] = l
    BY <1>4 DEF FailTransfer, TypeOK
  <2>2. l \in StoredLifecycles /\ Validate(l) /\ l.status = "failed"
        /\ l.version = row[t].version + 1
    BY <1>1, <1>2, TransitionIsValid DEF Fail
  <2>3. Edge(t, row[t].status, l.status)
    BY <1>1, <2>2 DEF Edge
  <2>4. e \in Events /\ WellFormed(e) /\ e.transfer = t /\ e.version = l.version
    <3>1. l.version \in Nat
      BY <2>2 DEF StoredLifecycles, Lifecycles
    <3> HIDE DEF l
    <3> QED BY <3>1 DEF Event, Events, EventTypes, WellFormed
  <2>5. /\ outbox' = outbox \cup {e} /\ e \notin outbox
        /\ UNCHANGED <<balance, journal>>
    BY <1>4, <2>1 DEF FailTransfer, AddTx
  <2>6. Advance(t, l, e)
    <3> HIDE DEF l, e
    <3> QED BY <2>1, <2>2, <2>3, <2>4, <2>5 DEF Advance
  <2> QED BY <2>6
<1> QED BY <1>3, <1>4 DEF Post

(* The two handlers of the transaction worker reserve an event of the      *)
(* topic, and either change no table or post.                              *)
LEMMA TransactionStep ==
    ASSUME TypeOK, NEW p \in Partitions,
           HandleRiskAssessed(p) \/ HandleReviewDecision(p)
    PROVE  LET e == Record("transaction", p) IN
           /\ Reserve("transaction", p)
           /\ e \in Events
           /\ e.transfer \in Transfers
           /\ \/ UNCHANGED database
              \/ Post(e.transfer)
<1> DEFINE e == Record("transaction", p)
<1>1. Reserve("transaction", p)
  BY DEF HandleRiskAssessed, HandleReviewDecision
<1>2. e \in Events
  BY <1>1, AcceptedRecordIsEvent DEF Reserve, Workers
<1>3. e.transfer \in Transfers
  BY <1>2 DEF Events
<1>4. UNCHANGED database \/ Post(e.transfer)
  BY DEF HandleRiskAssessed, HandleReviewDecision
<1> QED BY <1>1, <1>2, <1>3, <1>4

(* Steps outside the database transactions change none of its tables.      *)
LEMMA StepEffects ==
    ASSUME TypeOK, StoredLifecyclesAreValid, [Next]_vars
    PROVE  \/ UNCHANGED <<row, outbox, balance, journal>>
           \/ \E t \in Transfers : \E l, e : Advance(t, l, e)
<1>1. CASE UNCHANGED vars
  BY <1>1 DEF vars, database
<1>2. ASSUME NEW t \in Transfers, CreatePending(t) \/ Create(t)
      PROVE  \E l, e : Advance(t, l, e)
  BY <1>2, CreatePendingAdvances, CreateAdvances
<1>3. ASSUME NEW t \in Transfers, NEW d \in ReviewDecisions, NEW s \in Subjects,
             Decide(t, d, s)
      PROVE  \E l, e : Advance(t, l, e)
  BY <1>3, DecideAdvances
<1>4. ASSUME NEW e, Publish(e) \/ Republish(e)
      PROVE  UNCHANGED database
  BY <1>4 DEF Publish, Republish
<1>5. ASSUME NEW p, NEW r, InjectPoison(p, r)
      PROVE  UNCHANGED database
  BY <1>5 DEF InjectPoison
<1>6. ASSUME NEW w \in Workers, NEW p \in Partitions, Consume(w, p)
      PROVE  \/ UNCHANGED database
             \/ \E t \in Transfers : \E l, e : Advance(t, l, e)
  <2>1. CASE IgnoreRecord(w, p) \/ SkipReserved(w, p) \/ QuarantineRecord(w, p)
    BY <2>1 DEF IgnoreRecord, SkipReserved, QuarantineRecord
  <2>2. CASE RiskHandle(p)
    BY <2>2, RiskHandleAdvances
  <2>3. CASE HandleRiskAssessed(p) \/ HandleReviewDecision(p)
    BY <2>3, TransactionStep, PostAdvances
  <2> QED BY <1>6, <2>1, <2>2, <2>3 DEF Consume
<1>7. ASSUME NEW w, CommitRecords(w) \/ Crash(w)
      PROVE  UNCHANGED database
  BY <1>7 DEF CommitRecords, Crash
<1>8. ASSUME NEW a, Freeze(a)
      PROVE  UNCHANGED database
  BY <1>8 DEF Freeze
<1>9. UNCHANGED database => UNCHANGED <<row, outbox, balance, journal>>
  BY DEF database
<1> QED BY <1>1, <1>2, <1>3, <1>4, <1>5, <1>6, <1>7, <1>8, <1>9 DEF Next

------------------------------------------------------------------------------
(* Type correctness.                                                       *)

ReviewTypes ==
    /\ assessment \in [Transfers -> Decisions \cup {"none"}]
    /\ reviewCase \in [Transfers -> Cases]
    /\ audit \subseteq AuditRecords
    /\ frozen \subseteq Accounts

ConsumerTypes ==
    /\ topic \in [Partitions -> Seq(Events \cup PoisonRecords)]
    /\ inbox \in [Workers -> SUBSET Events]
    /\ quarantine \subseteq Workers \X Partitions \X Nat
    /\ offset \in [Workers -> [Partitions -> Nat]]
    /\ acked \in [Workers -> Partitions \cup {NoPartition}]

(* Rows, ledger and outbox keep their types: from what an advance is.      *)
LEMMA TableTypesStep ==
    ASSUME TypeOK, StoredLifecyclesAreValid, [Next]_vars
    PROVE  /\ row' \in [Transfers -> StoredLifecycles \cup {Absent}]
           /\ balance' \in [Accounts -> Minor]
           /\ journal' \subseteq Transfers
           /\ outbox' \subseteq Events
<1>1. CASE UNCHANGED <<row, outbox, balance, journal>>
  BY <1>1 DEF TypeOK
<1>2. ASSUME NEW t \in Transfers, NEW l, NEW e, Advance(t, l, e)
      PROVE  /\ row' \in [Transfers -> StoredLifecycles \cup {Absent}]
             /\ balance' \in [Accounts -> Minor]
             /\ journal' \subseteq Transfers
             /\ outbox' \subseteq Events
  <2>1. row' \in [Transfers -> StoredLifecycles \cup {Absent}] /\ outbox' \subseteq Events
    BY <1>2 DEF Advance, TypeOK
  <2>2. CASE PostTx(t)
    BY <2>1, <2>2, ApplyChangeIsSafe, Zenon DEF PostTx, TypeOK
  <2>3. CASE UNCHANGED <<balance, journal>>
    BY <2>1, <2>3 DEF TypeOK
  <2> QED BY <1>2, <2>2, <2>3 DEF Advance
<1> QED BY <1>1, <1>2, StepEffects

(* What reserving an event does to the types of the consumers' state.      *)
LEMMA ReserveTypes ==
    ASSUME TypeOK, NEW w \in Workers, NEW p \in Partitions, Reserve(w, p)
    PROVE  ConsumerTypes' /\ frozen' = frozen
<1>1. Record(w, p) \in Events
  BY AcceptedRecordIsEvent DEF Reserve
<1> QED BY <1>1, Zenon DEF Reserve, TypeOK, ConsumerTypes

(* Every step keeps the types of cases, audit, inbox and positions.        *)
LEMMA ReviewAndConsumerTypesStep ==
    ASSUME TypeOK, StoredLifecyclesAreValid, [Next]_vars
    PROVE  ReviewTypes' /\ ConsumerTypes'
<1> USE DEF TypeOK, ReviewTypes, ConsumerTypes
<1>1. CASE UNCHANGED vars
  BY <1>1 DEF vars, database
<1>2. ASSUME NEW t \in Transfers, CreatePending(t) \/ Create(t)
      PROVE  ReviewTypes' /\ ConsumerTypes'
  BY <1>2 DEF CreatePending, Create
<1>3. ASSUME NEW t \in Transfers, NEW d \in ReviewDecisions, NEW s \in Subjects,
             Decide(t, d, s)
      PROVE  ReviewTypes' /\ ConsumerTypes'
  <2>1. [status |-> d, by |-> s] \in Cases
    BY DEF Cases
  <2>2. row'[t].version \in Nat
    <3>1. row[t] \in StoredLifecycles /\ row'[t] = Decided(row[t], d)
      BY <1>3, RowUnderWay DEF Decide
    <3> QED BY <3>1 DEF Decided, Approve, Decline, Transition, StoredLifecycles,
                        Lifecycles
  <2>3. [transfer |-> t, version |-> row'[t].version, decision |-> d, by |-> s]
           \in AuditRecords
    BY <2>2, Zenon DEF AuditRecords
  <2> QED BY <1>3, <2>1, <2>3 DEF Decide
<1>4. ASSUME NEW e \in outbox, Publish(e) \/ Republish(e)
      PROVE  ReviewTypes' /\ ConsumerTypes'
  <2>1. e \in Events /\ e.transfer \in Transfers
    BY DEF Events
  <2>2. PartitionOf[e.transfer] \in Partitions
    BY <2>1, PartitionAssumption
  <2>3. topic' \in [Partitions -> Seq(Events \cup PoisonRecords)]
    BY <1>4, <2>1, <2>2, AppendKeepsRecords, Zenon DEF Publish, Republish
  <2> QED BY <1>4, <2>3, Zenon DEF Publish, Republish, database
<1>5. ASSUME NEW p \in Partitions, NEW r \in PoisonRecords, InjectPoison(p, r)
      PROVE  ReviewTypes' /\ ConsumerTypes'
  BY <1>5, AppendKeepsRecords, Zenon DEF InjectPoison, database
<1>6. ASSUME NEW w \in Workers, NEW p \in Partitions, Consume(w, p)
      PROVE  ReviewTypes' /\ ConsumerTypes'
  <2>1. CASE IgnoreRecord(w, p) \/ SkipReserved(w, p)
    BY <2>1, OffsetAdvances, Zenon DEF IgnoreRecord, SkipReserved, database
  <2>2. CASE QuarantineRecord(w, p)
    BY <2>2 DEF QuarantineRecord, database
  <2>3. CASE RiskHandle(p)
    <3>1. ConsumerTypes' /\ frozen' = frozen
      BY <2>3, ReserveTypes, Zenon DEF RiskHandle, Workers
    <3>2. PICK t \in Transfers, d \in Decisions : StoreRiskAssessmentTx(t, d)
      BY <2>3, RiskHandleDecides, Zenon
    <3>3. [status |-> "open", by |-> "none"] \in Cases
      BY DEF Cases
    <3>4. audit' = audit
      BY <2>3, Zenon DEF RiskHandle
    <3>5. assessment' \in [Transfers -> Decisions \cup {"none"}]
      BY <3>2 DEF StoreRiskAssessmentTx
    <3>6. reviewCase' \in [Transfers -> Cases]
      BY <3>2, <3>3 DEF StoreRiskAssessmentTx
    <3> HIDE DEF TypeOK, ConsumerTypes
    <3>7. audit' \subseteq AuditRecords /\ frozen' \subseteq Accounts
      BY <3>1, <3>4 DEF TypeOK
    <3> QED BY <3>1, <3>5, <3>6, <3>7
  <2>4. CASE HandleRiskAssessed(p) \/ HandleReviewDecision(p)
    <3>1. ConsumerTypes' /\ frozen' = frozen
      BY <2>4, TransactionStep, ReserveTypes, Zenon DEF Workers
    <3>2. UNCHANGED <<assessment, reviewCase, audit>>
      BY <2>4, TransactionStep DEF Post, database
    <3> HIDE DEF TypeOK, ConsumerTypes, ReviewTypes
    <3>3. ReviewTypes
      BY DEF TypeOK, ReviewTypes
    <3>4. ReviewTypes'
      BY <3>1, <3>2, <3>3 DEF ReviewTypes
    <3> QED BY <3>1, <3>4
  <2> QED BY <1>6, <2>1, <2>2, <2>3, <2>4, Zenon DEF Consume
<1>7. ASSUME NEW w \in Workers, CommitRecords(w) \/ Crash(w)
      PROVE  ReviewTypes' /\ ConsumerTypes'
  <2>1. CASE CommitRecords(w)
    <3>1. acked[w] \in Partitions
      BY <2>1 DEF CommitRecords
    <3> QED BY <2>1, <3>1, OffsetAdvances, Zenon DEF CommitRecords, database
  <2>2. CASE Crash(w)
    BY <2>2 DEF Crash, database
  <2> QED BY <1>7, <2>1, <2>2, Zenon
<1>8. ASSUME NEW a \in Accounts, Freeze(a)
      PROVE  ReviewTypes' /\ ConsumerTypes'
  BY <1>8 DEF Freeze, database
<1> QED BY <1>1, <1>2, <1>3, <1>4, <1>5, <1>6, <1>7, <1>8, Zenon DEF Next

(* The part of the invariant that every other part rests on.               *)
RowsOK == TypeOK /\ StoredLifecyclesAreValid

(* The rows start valid.                                                   *)
LEMMA RowsOKInit == Init => RowsOK
<1> SUFFICES ASSUME Init PROVE RowsOK
  OBVIOUS
<1>1. NoCase \in Cases
  BY DEF NoCase, Cases
<1>2. TypeOK
  BY <1>1, BalanceAssumption DEF Init, TypeOK
<1>3. StoredLifecyclesAreValid
  BY DEF Init, StoredLifecyclesAreValid
<1> QED BY <1>2, <1>3 DEF RowsOK

(* Every step keeps types and the validity of the rows.                    *)
LEMMA RowsOKStep == RowsOK /\ [Next]_vars => RowsOK'
<1> SUFFICES ASSUME TypeOK, StoredLifecyclesAreValid, [Next]_vars PROVE RowsOK'
  BY DEF RowsOK
<1>1. TypeOK'
  BY TableTypesStep, ReviewAndConsumerTypesStep
  DEF TypeOK, ReviewTypes, ConsumerTypes
<1>2. StoredLifecyclesAreValid'
  <2>1. CASE UNCHANGED row
    BY <2>1 DEF StoredLifecyclesAreValid
  <2>2. ASSUME NEW t \in Transfers, NEW l, NEW e, Advance(t, l, e)
        PROVE  StoredLifecyclesAreValid'
    BY <2>2 DEF Advance, StoredLifecyclesAreValid, TypeOK
  <2> QED BY <2>1, <2>2, StepEffects
<1> QED BY <1>1, <1>2 DEF RowsOK

(* The state of the code is well typed in every reachable state.           *)
THEOREM TypeCorrectness == Spec => []TypeOK
<1>1. Init => RowsOK
  BY RowsOKInit
<1>2. RowsOK /\ [Next]_vars => RowsOK'
  BY RowsOKStep
<1>3. RowsOK => TypeOK
  BY DEF RowsOK
<1> QED BY <1>1, <1>2, <1>3, PTL DEF Spec

(* Every row the repository or a worker stores can be loaded again: the    *)
(* domain's validation never refuses it.                                   *)
THEOREM StoredLifecyclesAlwaysValid == Spec => []StoredLifecyclesAreValid
<1>1. Init => RowsOK
  BY RowsOKInit
<1>2. RowsOK /\ [Next]_vars => RowsOK'
  BY RowsOKStep
<1>3. RowsOK => StoredLifecyclesAreValid
  BY DEF RowsOK
<1> QED BY <1>1, <1>2, <1>3, PTL DEF Spec

(* From here on the steps are known by their effects.                      *)
HIDE DEF ValidIntent, Requested, RiskAssessed, ReviewDecided, Completed, Failed,
         StoreLifecycleTransitionTx, DecideReviewCaseTx, AppendReviewDecisionTx

------------------------------------------------------------------------------
(* Money.                                                                  *)

(* The invariant: the rows, the ledger entries and the balances agree.     *)
MoneyOK == RowsOK /\ PostedIffCompleted /\ NoOverdraft

(* No transfer is completed and nothing is posted at the start.            *)
LEMMA MoneyOKInit == Init => MoneyOK
<1> SUFFICES ASSUME Init PROVE MoneyOK
  OBVIOUS
<1>1. PostedIffCompleted
  BY AbsentFields DEF Init, PostedIffCompleted
<1>2. NoOverdraft
  BY BalanceAssumption DEF Init, NoOverdraft
<1> QED BY <1>1, <1>2, RowsOKInit DEF MoneyOK

(* Every step keeps journal and balances in line with the rows.            *)
LEMMA MoneyOKStep == MoneyOK /\ [Next]_vars => MoneyOK'
<1> SUFFICES ASSUME RowsOK, PostedIffCompleted, NoOverdraft, [Next]_vars
             PROVE  MoneyOK'
  BY DEF MoneyOK
<1> USE DEF RowsOK
<1>1. RowsOK'
  BY RowsOKStep
<1>2. CASE UNCHANGED <<row, outbox, balance, journal>>
  BY <1>1, <1>2 DEF MoneyOK, PostedIffCompleted, NoOverdraft
<1>3. ASSUME NEW t \in Transfers, NEW l, NEW e, Advance(t, l, e)
      PROVE  MoneyOK'
  <2>1. row' = [row EXCEPT ![t] = l] /\ row \in [Transfers -> StoredLifecycles \cup {Absent}]
    BY <1>3 DEF Advance, TypeOK
  <2>2. row[t].status # "completed"
    BY <1>3 DEF Advance, Edge
  <2>3. CASE l.status = "completed"
    <3>1. PostTx(t)
      BY <1>3, <2>3 DEF Advance
    <3>2. PostedIffCompleted'
      BY <2>1, <2>3, <3>1 DEF PostTx, PostedIffCompleted
    <3>3. NoOverdraft'
      BY <3>1, ApplyChangeIsSafe DEF PostTx, NoOverdraft, TypeOK
    <3> QED BY <1>1, <3>2, <3>3 DEF MoneyOK
  <2>4. CASE l.status # "completed"
    <3>1. UNCHANGED <<balance, journal>>
      BY <1>3, <2>4 DEF Advance
    <3>2. PostedIffCompleted'
      BY <2>1, <2>2, <2>4, <3>1 DEF PostedIffCompleted
    <3>3. NoOverdraft'
      BY <3>1 DEF NoOverdraft
    <3> QED BY <1>1, <3>2, <3>3 DEF MoneyOK
  <2> QED BY <2>3, <2>4
<1> QED BY <1>2, <1>3, StepEffects

(* A transfer has its ledger entry if and only if it is completed, under   *)
(* any number of duplicates, crashes and concurrent decisions.             *)
THEOREM MoneyMovesExactlyOnce == Spec => []PostedIffCompleted
<1>1. MoneyOK => PostedIffCompleted
  BY DEF MoneyOK
<1> QED BY <1>1, MoneyOKInit, MoneyOKStep, PTL DEF Spec

(* No customer account is ever overdrawn.                                  *)
THEOREM CustomersAreNeverOverdrawn == Spec => []NoOverdraft
<1>1. MoneyOK => NoOverdraft
  BY DEF MoneyOK
<1> QED BY <1>1, MoneyOKInit, MoneyOKStep, PTL DEF Spec

------------------------------------------------------------------------------
(* Events.                                                                 *)

OutboxOK == RowsOK /\ OutboxTellsEveryVersion

(* No transfer has a version and the outbox is empty at the start.         *)
LEMMA OutboxOKInit == Init => OutboxOK
<1> SUFFICES ASSUME Init PROVE OutboxOK
  OBVIOUS
<1>1. \A t \in Transfers : EventsOf(t) = {} /\ row[t].version = 0
  BY AbsentFields DEF Init, EventsOf
<1>2. OutboxTellsEveryVersion
  BY <1>1 DEF OutboxTellsEveryVersion
<1> QED BY <1>2, RowsOKInit DEF OutboxOK

(* Every step keeps one event for each version of each transfer.           *)
LEMMA OutboxOKStep == OutboxOK /\ [Next]_vars => OutboxOK'
<1> SUFFICES ASSUME RowsOK, OutboxTellsEveryVersion, [Next]_vars
             PROVE  OutboxOK'
  BY DEF OutboxOK
<1>1. RowsOK'
  BY RowsOKStep
<1>2. CASE UNCHANGED <<row, outbox, balance, journal>>
  <2>1. OutboxTellsEveryVersion'
    BY <1>2 DEF OutboxTellsEveryVersion, EventsOf
  <2> QED BY <1>1, <2>1 DEF OutboxOK
<1>3. ASSUME NEW t \in Transfers, NEW l, NEW e, Advance(t, l, e)
      PROVE  OutboxOK'
  <2>1. /\ row \in [Transfers -> StoredLifecycles \cup {Absent}]
        /\ row' = [row EXCEPT ![t] = l]
        /\ outbox' = outbox \cup {e}
        /\ e.transfer = t
        /\ e.version = row[t].version + 1
        /\ l.version = row[t].version + 1
    BY <1>3 DEF Advance, RowsOK, TypeOK
  <2>2. row[t].version \in Nat
    BY <2>1, AbsentFields DEF StoredLifecycles, Lifecycles
  <2>3. ASSUME NEW u \in Transfers
        PROVE  /\ {f.version : f \in EventsOf(u)'} = 1 .. row'[u].version
               /\ \A f, g \in EventsOf(u)' : f.version = g.version => f = g
    <3>0. /\ {f.version : f \in EventsOf(u)} = 1 .. row[u].version
          /\ \A f, g \in EventsOf(u) : f.version = g.version => f = g
      BY DEF OutboxTellsEveryVersion
    <3>1. CASE u = t
      <4>1. EventsOf(u)' = EventsOf(u) \cup {e}
        BY <2>1, <3>1 DEF EventsOf
      <4>2. row'[u].version = row[u].version + 1 /\ row[u].version \in Nat
        BY <2>1, <2>2, <3>1
      <4>3. {f.version : f \in EventsOf(u)'} = (1 .. row[u].version) \cup {row[u].version + 1}
        BY <2>1, <3>0, <3>1, <4>1
      <4>4. (1 .. row[u].version) \cup {row[u].version + 1} = 1 .. row'[u].version
        BY <4>2
      <4>5. \A f \in EventsOf(u) : f.version # e.version
        BY <2>1, <3>0, <3>1, <4>2
      <4> QED BY <3>0, <4>1, <4>3, <4>4, <4>5
    <3>2. CASE u # t
      <4>1. EventsOf(u)' = EventsOf(u) /\ row'[u] = row[u]
        BY <2>1, <3>2 DEF EventsOf
      <4> QED BY <3>0, <4>1
    <3> QED BY <3>1, <3>2
  <2>4. OutboxTellsEveryVersion'
    BY <2>3 DEF OutboxTellsEveryVersion
  <2> QED BY <1>1, <2>4 DEF OutboxOK
<1> QED BY <1>2, <1>3, StepEffects DEF RowsOK

(* The outbox holds exactly one event for every version of every transfer. *)
THEOREM OutboxTellsTheWholeLife == Spec => []OutboxTellsEveryVersion
<1>1. OutboxOK => OutboxTellsEveryVersion
  BY DEF OutboxOK
<1> QED BY <1>1, OutboxOKInit, OutboxOKStep, PTL DEF Spec

------------------------------------------------------------------------------
(* Refinement.                                                             *)

(* The initial states map to the initial state of the lifecycle.           *)
LEMMA AbstractInit == Init => Abstract!Init
<1> SUFFICES ASSUME Init PROVE Abstract!Init
  OBVIOUS
<1>1. \A t \in Transfers : row[t].status = "absent" /\ row[t].version = 0
  BY AbsentFields DEF Init
<1>2. {<<e.transfer, e.version>> : e \in outbox} = {}
  BY DEF Init
<1>3. journal = {}
  BY DEF Init
<1> QED BY <1>1, <1>2, <1>3 DEF Abstract!Init

(* An advance of the pipeline is one step of the documented life.          *)
LEMMA AdvanceIsAbstractStep ==
    ASSUME RowsOK, NEW t \in Transfers, NEW l, NEW e, Advance(t, l, e)
    PROVE  Abstract!Next
<1> DEFINE st == [u \in Transfers |-> row[u].status]
           ve == [u \in Transfers |-> row[u].version]
<1>1. /\ row \in [Transfers -> StoredLifecycles \cup {Absent}]
      /\ row' = [row EXCEPT ![t] = l]
      /\ outbox' = outbox \cup {e}
      /\ e.transfer = t
      /\ e.version = row[t].version + 1
      /\ l.version = row[t].version + 1
      /\ Edge(t, row[t].status, l.status)
  BY DEF Advance, RowsOK, TypeOK
<1>2. /\ st' = [st EXCEPT ![t] = l.status]
      /\ ve' = [ve EXCEPT ![t] = ve[t] + 1]
  BY <1>1, Zenon
<1>3. {<<f.transfer, f.version>> : f \in outbox'} =
         {<<f.transfer, f.version>> : f \in outbox} \cup {<<t, ve[t] + 1>>}
  BY <1>1, Zenon
<1>4. Abstract!Move(t, row[t].status, l.status)
  BY <1>2, <1>3 DEF Abstract!Move
<1>5. IF l.status = "completed" THEN journal' = journal \cup {t}
                                ELSE journal' = journal
  BY DEF Advance, PostTx
<1>6. CASE row[t].status = "absent"
  BY <1>1, <1>4, <1>5, <1>6
  DEF Edge, Abstract!Next, Abstract!Accept, Abstract!AcceptDirect
<1>7. CASE row[t].status = "pending_risk"
  BY <1>1, <1>4, <1>5, <1>7 DEF Edge, Abstract!Next, Abstract!Assess
<1>8. CASE row[t].status = "review_required"
  BY <1>1, <1>4, <1>5, <1>8 DEF Edge, Abstract!Next, Abstract!Review
<1>9. CASE row[t].status = "approved"
  BY <1>1, <1>4, <1>5, <1>9
  DEF Edge, Abstract!Next, Abstract!Settle, Abstract!Refuse
<1> QED BY <1>1, <1>6, <1>7, <1>8, <1>9 DEF Edge

(* Every step maps to a step of the lifecycle or to a stutter.             *)
LEMMA AbstractStep == RowsOK /\ [Next]_vars => [Abstract!Next]_Abstract!vars
<1> SUFFICES ASSUME RowsOK, [Next]_vars PROVE [Abstract!Next]_Abstract!vars
  OBVIOUS
<1>1. CASE UNCHANGED <<row, outbox, balance, journal>>
  BY <1>1 DEF Abstract!vars
<1>2. ASSUME NEW t \in Transfers, NEW l, NEW e, Advance(t, l, e)
      PROVE  Abstract!Next
  BY <1>2, AdvanceIsAbstractStep
<1> QED BY <1>1, <1>2, StepEffects DEF RowsOK

(* The pipeline, with its outbox, broker, inbox, duplicates and crashes,   *)
(* implements the documented life of a transfer.                           *)
THEOREM PipelineImplementsLifecycle == Spec => ImplementsTransferLifecycle
<1> QED BY RowsOKInit, RowsOKStep, AbstractInit, AbstractStep, PTL
        DEF Spec, ImplementsTransferLifecycle, Abstract!Spec

------------------------------------------------------------------------------
(* Consumption.                                                            *)

(* No step takes back an event, a record, a reservation or a quarantine.   *)
Grows ==
    /\ outbox \subseteq outbox'
    /\ \A w \in Workers : inbox[w] \subseteq inbox'[w]
    /\ quarantine \subseteq quarantine'
    /\ \A p \in Partitions :
          /\ Len(topic[p]) \in Nat
          /\ Len(topic'[p]) \in Nat
          /\ Len(topic[p]) <= Len(topic'[p])
          /\ \A i \in 1 .. Len(topic[p]) : topic'[p][i] = topic[p][i]

(* No step removes an event from the outbox.                               *)
LEMMA OutboxGrows ==
    ASSUME RowsOK, [Next]_vars
    PROVE  outbox \subseteq outbox'
BY StepEffects DEF RowsOK, Advance

(* A step that appends record r to a partition and changes nothing else.   *)
LEMMA TopicSteps ==
    ASSUME RowsOK, [Next]_vars
    PROVE  \/ topic' = topic
           \/ /\ UNCHANGED <<inbox, quarantine, offset, acked>>
              /\ \E p \in Partitions, r \in outbox \cup PoisonRecords :
                    AppendRecord(p, r)
<1>1. CASE UNCHANGED vars
  BY <1>1 DEF vars
<1>2. ASSUME NEW t \in Transfers, CreatePending(t) \/ Create(t)
      PROVE  topic' = topic
  BY <1>2 DEF CreatePending, Create
<1>3. ASSUME NEW t, NEW d, NEW s, Decide(t, d, s)
      PROVE  topic' = topic
  BY <1>3, Zenon DEF Decide
<1>4. ASSUME NEW e \in outbox, Publish(e) \/ Republish(e)
      PROVE  /\ UNCHANGED <<inbox, quarantine, offset, acked>>
             /\ \E p \in Partitions, r \in outbox \cup PoisonRecords :
                   AppendRecord(p, r)
  <2>1. PartitionOf[e.transfer] \in Partitions
    BY PartitionAssumption DEF RowsOK, TypeOK, Events
  <2> QED BY <1>4, <2>1, Zenon DEF Publish, Republish
<1>5. ASSUME NEW p \in Partitions, NEW r \in PoisonRecords, InjectPoison(p, r)
      PROVE  /\ UNCHANGED <<inbox, quarantine, offset, acked>>
             /\ \E q \in Partitions, x \in outbox \cup PoisonRecords :
                   AppendRecord(q, x)
  BY <1>5 DEF InjectPoison
<1>6. ASSUME NEW w \in Workers, NEW p \in Partitions, Consume(w, p)
      PROVE  topic' = topic
  BY <1>6, Zenon DEF Consume, IgnoreRecord, SkipReserved, QuarantineRecord, RiskHandle,
              HandleRiskAssessed, HandleReviewDecision, Reserve
<1>7. ASSUME NEW w, CommitRecords(w) \/ Crash(w)
      PROVE  topic' = topic
  BY <1>7 DEF CommitRecords, Crash
<1>8. ASSUME NEW a, Freeze(a)
      PROVE  topic' = topic
  BY <1>8 DEF Freeze
<1> QED BY <1>1, <1>2, <1>3, <1>4, <1>5, <1>6, <1>7, <1>8 DEF Next

(* How a step may change the consumers' state: not at all, by reserving,   *)
(* skipping or quarantining a record, or by committing or losing an offset.*)
LEMMA ConsumerSteps ==
    ASSUME RowsOK, [Next]_vars
    PROVE  \/ UNCHANGED <<inbox, quarantine, offset, acked>>
           \/ \E w \in Workers, p \in Partitions :
                 \/ IgnoreRecord(w, p) \/ SkipReserved(w, p)
                 \/ QuarantineRecord(w, p) \/ Reserve(w, p)
           \/ \E w \in Workers : CommitRecords(w) \/ Crash(w)
<1>1. CASE UNCHANGED vars
  BY <1>1 DEF vars
<1>2. ASSUME NEW t \in Transfers, CreatePending(t) \/ Create(t)
      PROVE  UNCHANGED <<inbox, quarantine, offset, acked>>
  BY <1>2 DEF CreatePending, Create
<1>3. ASSUME NEW t, NEW d, NEW s, Decide(t, d, s)
      PROVE  UNCHANGED <<inbox, quarantine, offset, acked>>
  BY <1>3, Zenon DEF Decide
<1>4. ASSUME NEW e, Publish(e) \/ Republish(e)
      PROVE  UNCHANGED <<inbox, quarantine, offset, acked>>
  BY <1>4, Zenon DEF Publish, Republish
<1>5. ASSUME NEW p, NEW r, InjectPoison(p, r)
      PROVE  UNCHANGED <<inbox, quarantine, offset, acked>>
  BY <1>5 DEF InjectPoison
<1>6. ASSUME NEW w \in Workers, NEW p \in Partitions, Consume(w, p)
      PROVE  \E v \in Workers, q \in Partitions :
                \/ IgnoreRecord(v, q) \/ SkipReserved(v, q)
                \/ QuarantineRecord(v, q) \/ Reserve(v, q)
  BY <1>6, Zenon DEF Consume, RiskHandle, HandleRiskAssessed, HandleReviewDecision
<1>7. ASSUME NEW a, Freeze(a)
      PROVE  UNCHANGED <<inbox, quarantine, offset, acked>>
  BY <1>7 DEF Freeze
<1> QED BY <1>1, <1>2, <1>3, <1>4, <1>5, <1>6, <1>7 DEF Next

(* Every step only adds to outbox, topic, inboxes and quarantine.          *)
LEMMA StepGrows ==
    ASSUME RowsOK, [Next]_vars
    PROVE  Grows
<1>1. \A w \in Workers : inbox[w] \subseteq inbox'[w]
  <2>1. inbox \in [Workers -> SUBSET Events]
    BY DEF RowsOK, TypeOK
  <2>2. ASSUME NEW w \in Workers, NEW p \in Partitions, Reserve(w, p)
        PROVE  \A v \in Workers : inbox[v] \subseteq inbox'[v]
    BY <2>1, <2>2 DEF Reserve
  <2>3. inbox' = inbox \/ \E w \in Workers, p \in Partitions : Reserve(w, p)
    BY ConsumerSteps, Zenon
    DEF IgnoreRecord, SkipReserved, QuarantineRecord, CommitRecords, Crash
  <2> QED BY <2>2, <2>3
<1>2. quarantine \subseteq quarantine'
  BY ConsumerSteps
  DEF IgnoreRecord, SkipReserved, QuarantineRecord, Reserve, CommitRecords, Crash
<1>3. ASSUME NEW p \in Partitions
      PROVE  /\ Len(topic[p]) \in Nat
             /\ Len(topic'[p]) \in Nat
             /\ Len(topic[p]) <= Len(topic'[p])
             /\ \A i \in 1 .. Len(topic[p]) : topic'[p][i] = topic[p][i]
  <2>1. CASE topic' = topic
    <3>1. topic[p] \in Seq(Events \cup PoisonRecords)
      BY DEF RowsOK, TypeOK
    <3> QED BY <2>1, <3>1
  <2>2. ASSUME NEW q \in Partitions, NEW r \in outbox \cup PoisonRecords,
               AppendRecord(q, r)
        PROVE  /\ Len(topic[p]) \in Nat
               /\ Len(topic'[p]) \in Nat
               /\ Len(topic[p]) <= Len(topic'[p])
               /\ \A i \in 1 .. Len(topic[p]) : topic'[p][i] = topic[p][i]
    <3>1. r \in Events \cup PoisonRecords
      BY DEF RowsOK, TypeOK
    <3> QED BY <2>2, <3>1, AppendKeepsRecords, Zenon DEF RowsOK
  <2> QED BY <2>1, <2>2, TopicSteps, Zenon
<1> QED BY <1>1, <1>2, <1>3, OutboxGrows DEF Grows

(* A record that is processed stays processed.                             *)
LEMMA ProcessedStays ==
    ASSUME Grows, NEW w \in Workers, NEW p \in Partitions,
           NEW i \in 1 .. Len(topic[p]), Processed(w, p, i)
    PROVE  Processed(w, p, i)'
BY Zenon DEF Grows, Processed

LogOK == RowsOK /\ NoRecordLost

(* Nothing is consumed at the start.                                       *)
LEMMA LogOKInit == Init => LogOK
<1> SUFFICES ASSUME Init PROVE LogOK
  OBVIOUS
<1>1. ASSUME NEW w \in Workers, NEW p \in Partitions
      PROVE  /\ offset[w][p] = 0 /\ Len(topic[p]) = 0
             /\ acked[w] = NoPartition /\ NoPartition # p
  BY PartitionAssumption DEF Init, NoPartition
<1>2. NoRecordLost
  BY <1>1 DEF NoRecordLost
<1> QED BY <1>2, RowsOKInit DEF LogOK

(* The record a worker has just taken counts as processed.                 *)
LEMMA TakenIsProcessed ==
    ASSUME RowsOK, NEW w \in Workers, NEW p \in Partitions, Grows,
           \/ IgnoreRecord(w, p) \/ SkipReserved(w, p)
           \/ QuarantineRecord(w, p) \/ Reserve(w, p),
           NEW k, k = offset[w][p]
    PROVE  k + 1 \in 1 .. Len(topic[p]) /\ Processed(w, p, k + 1)'
<1>1. Ready(w, p)
  BY DEF IgnoreRecord, SkipReserved, QuarantineRecord, Reserve
<1>2. k \in Nat /\ k + 1 \in 1 .. Len(topic[p]) /\ (k + 1) - 1 = k
  BY <1>1, RecordOfTopic, SMTT(30) DEF RowsOK, TypeOK
<1>3. topic'[p][k + 1] = Record(w, p)
  BY <1>2, Zenon DEF Grows, Record
<1>4. CASE IgnoreRecord(w, p) \/ SkipReserved(w, p)
  <2>1. Processed(w, p, k + 1)
    BY <1>4, Zenon DEF IgnoreRecord, SkipReserved, Processed, Record
  <2> QED BY <1>2, <2>1, ProcessedStays, Zenon
<1>5. CASE QuarantineRecord(w, p)
  <2>1. <<w, p, (k + 1) - 1>> \in quarantine'
    BY <1>2, <1>5, Zenon DEF QuarantineRecord
  <2> QED BY <1>2, <2>1, Zenon DEF Processed
<1>6. CASE Reserve(w, p)
  <2>1. Record(w, p) \in inbox'[w]
    BY <1>6 DEF Reserve, RowsOK, TypeOK
  <2> QED BY <1>2, <1>3, <2>1, Zenon DEF Processed
<1> QED BY <1>2, <1>4, <1>5, <1>6

(* Every step keeps what lies below the offsets processed.                 *)
LEMMA LogOKStep == LogOK /\ [Next]_vars => LogOK'
<1> SUFFICES ASSUME RowsOK, NoRecordLost, [Next]_vars PROVE LogOK'
  BY DEF LogOK
<1>1. Grows
  BY StepGrows
<1>2. /\ offset \in [Workers -> [Partitions -> Nat]]
      /\ acked \in [Workers -> Partitions \cup {NoPartition}]
      /\ NoPartition \notin Partitions
  BY PartitionAssumption DEF RowsOK, TypeOK, NoPartition
<1>3. ASSUME NEW v \in Workers, NEW q \in Partitions
      PROVE  /\ offset'[v][q] <= Len(topic'[q])
             /\ \A i \in 1 .. offset'[v][q] : Processed(v, q, i)'
             /\ acked'[v] = q => /\ offset'[v][q] < Len(topic'[q])
                                 /\ \A k : k = offset'[v][q] =>
                                        Processed(v, q, k + 1)'
  <2> DEFINE o == offset[v][q]
  <2>1. /\ o \in Nat /\ Len(topic[q]) \in Nat /\ Len(topic'[q]) \in Nat
        /\ o <= Len(topic[q]) /\ Len(topic[q]) <= Len(topic'[q])
    BY <1>1, <1>2 DEF Grows, NoRecordLost
  <2>2. \A i \in 1 .. Len(topic[q]) : Processed(v, q, i) => Processed(v, q, i)'
    BY <1>1, ProcessedStays
  <2>3. \A i \in 1 .. o : Processed(v, q, i)'
    BY <2>1, <2>2 DEF NoRecordLost
  <2>4. acked[v] = q => /\ o < Len(topic[q])
                        /\ \A k : k = o => Processed(v, q, k + 1)'
    BY <2>1, <2>2 DEF NoRecordLost
  <2>5. CASE offset'[v][q] = o /\ (acked'[v] = q => acked[v] = q)
    BY <2>1, <2>3, <2>4, <2>5
  <2>6. ASSUME NEW w \in Workers, NEW p \in Partitions,
               IgnoreRecord(w, p) \/ SkipReserved(w, p)
        PROVE  /\ offset'[v][q] <= Len(topic'[q])
               /\ \A i \in 1 .. offset'[v][q] : Processed(v, q, i)'
               /\ acked'[v] # q \/ (offset'[v][q] = o /\ acked'[v] = acked[v])
    <3>1. /\ acked' = acked /\ acked[w] = NoPartition
          /\ offset'[v][q] = IF v = w /\ q = p THEN o + 1 ELSE o
      <4>1. AdvanceOffset(w, p) /\ acked' = acked /\ acked[w] = NoPartition
        BY <2>6, Zenon DEF IgnoreRecord, SkipReserved, Ready
      <4>2. TypeOK
        BY DEF RowsOK
      <4>3. \A u \in Workers, r \in Partitions :
               offset'[u][r] = IF u = w /\ r = p THEN offset[u][r] + 1
                                                ELSE offset[u][r]
        BY <4>1, <4>2, OffsetAdvances
      <4> QED BY <4>1, <4>3
    <3>2. CASE v = w /\ q = p
      <4>1. o + 1 \in 1 .. Len(topic[q]) /\ \A k : k = o => Processed(v, q, k + 1)'
        BY <1>1, <2>6, <3>2, TakenIsProcessed
      <4>2. \A i \in 1 .. o + 1 : Processed(v, q, i)'
        BY <2>1, <2>3, <4>1
      <4> QED BY <1>2, <2>1, <3>1, <3>2, <4>1, <4>2, SMTT(30)
    <3>3. CASE ~(v = w /\ q = p)
      BY <2>1, <2>3, <3>1, <3>3
    <3> QED BY <3>2, <3>3
  <2>7. ASSUME NEW w \in Workers, NEW p \in Partitions,
               QuarantineRecord(w, p) \/ Reserve(w, p)
        PROVE  /\ offset'[v][q] = o
               /\ acked'[v] = q => /\ o < Len(topic'[q])
                                   /\ \A k : k = o => Processed(v, q, k + 1)'
    <3>1. offset' = offset /\ acked' = [acked EXCEPT ![w] = p]
      BY <2>7 DEF QuarantineRecord, Reserve
    <3>2. CASE v = w /\ q = p
      <4>1. o + 1 \in 1 .. Len(topic[q]) /\ \A k : k = o => Processed(v, q, k + 1)'
        BY <1>1, <2>7, <3>2, TakenIsProcessed
      <4> QED BY <2>1, <3>1, <4>1
    <3>3. CASE ~(v = w /\ q = p)
      BY <1>2, <2>1, <2>4, <3>1, <3>3
    <3> QED BY <3>2, <3>3
  <2>8. ASSUME NEW w \in Workers, CommitRecords(w)
        PROVE  /\ offset'[v][q] <= Len(topic'[q])
               /\ \A i \in 1 .. offset'[v][q] : Processed(v, q, i)'
               /\ acked'[v] # q \/ (offset'[v][q] = o /\ acked'[v] = acked[v])
    <3>1. acked[w] \in Partitions /\ acked' = [acked EXCEPT ![w] = NoPartition]
      BY <1>2, <2>8 DEF CommitRecords
    <3>2. offset'[v][q] = IF v = w /\ q = acked[w] THEN o + 1 ELSE o
      BY <2>8, <3>1, OffsetAdvances DEF CommitRecords, RowsOK
    <3>3. CASE v = w /\ q = acked[w]
      <4>1. \A i \in 1 .. o + 1 : Processed(v, q, i)'
        BY <2>1, <2>3, <2>4, <3>3
      <4>2. acked'[v] # q
        BY <1>2, <3>1, <3>3
      <4>3. o + 1 <= Len(topic'[q]) /\ offset'[v][q] = o + 1
        BY <2>1, <2>4, <3>2, <3>3
      <4>4. \A i \in 1 .. offset'[v][q] : Processed(v, q, i)'
        BY <4>1, <4>3
      <4>5. offset'[v][q] <= Len(topic'[q])
        BY <4>3
      <4> QED BY <4>2, <4>4, <4>5
    <3>4. CASE ~(v = w /\ q = acked[w])
      <4>1. offset'[v][q] = o
        BY <3>2, <3>4
      <4>2. acked'[v] # q \/ acked'[v] = acked[v]
        BY <1>2, <3>1
      <4>3. o <= Len(topic'[q])
        BY <2>1
      <4>4. \A i \in 1 .. offset'[v][q] : Processed(v, q, i)'
        BY <2>3, <4>1
      <4> QED BY <4>1, <4>2, <4>3, <4>4
    <3> QED BY <3>3, <3>4
  <2>9. ASSUME NEW w \in Workers, Crash(w)
        PROVE  offset'[v][q] = o /\ (acked'[v] = q => acked[v] = q)
    BY <1>2, <2>9 DEF Crash
  <2>10. CASE UNCHANGED <<inbox, quarantine, offset, acked>>
    BY <2>5, <2>10
  <2> DEFINE Kept == /\ offset'[v][q] <= Len(topic'[q])
                     /\ \A i \in 1 .. offset'[v][q] : Processed(v, q, i)'
                     /\ acked'[v] = q => /\ offset'[v][q] < Len(topic'[q])
                                         /\ \A k : k = offset'[v][q] =>
                                                Processed(v, q, k + 1)'
  <2>11. ASSUME NEW w \in Workers, NEW p \in Partitions,
                IgnoreRecord(w, p) \/ SkipReserved(w, p)
         PROVE  Kept
    <3>1. CASE acked'[v] # q
      BY <2>6, <2>11, <3>1
    <3>2. CASE offset'[v][q] = o /\ acked'[v] = acked[v]
      BY <2>5, <3>2
    <3> QED BY <2>6, <2>11, <3>1, <3>2, Zenon
  <2>12. ASSUME NEW w \in Workers, NEW p \in Partitions,
                QuarantineRecord(w, p) \/ Reserve(w, p)
         PROVE  Kept
    <3>1. /\ offset'[v][q] = o
          /\ acked'[v] = q => /\ o < Len(topic'[q])
                              /\ \A k : k = o => Processed(v, q, k + 1)'
      BY <2>7, <2>12, Zenon
    <3> HIDE DEF o
    <3> QED BY <2>1, <2>3, <3>1
  <2>13. ASSUME NEW w \in Workers, CommitRecords(w)
         PROVE  Kept
    <3>1. CASE acked'[v] # q
      BY <2>8, <2>13, <3>1, Zenon
    <3>2. CASE offset'[v][q] = o /\ acked'[v] = acked[v]
      BY <2>5, <3>2, Zenon
    <3> QED BY <2>8, <2>13, <3>1, <3>2
  <2>14. ASSUME NEW w \in Workers, Crash(w)
         PROVE  Kept
    BY <2>5, <2>9, <2>14
  <2> HIDE DEF Kept
  <2>15. Kept
    BY <2>10, <2>11, <2>12, <2>13, <2>14, ConsumerSteps, Zenon DEF Kept
  <2> QED BY <2>15 DEF Kept
<1>4. NoRecordLost'
  BY <1>3 DEF NoRecordLost
<1> QED BY <1>4, RowsOKStep DEF LogOK

(* Every record below a committed offset was processed: no crash between   *)
(* the database commit and the offset commit loses one.                    *)
THEOREM ConsumersLoseNoRecord == Spec => []NoRecordLost
<1>1. LogOK => NoRecordLost
  BY DEF LogOK
<1> QED BY <1>1, LogOKInit, LogOKStep, PTL DEF Spec

------------------------------------------------------------------------------
(* Exactly-once processing.                                                *)

InboxOK == RowsOK /\ InboxAgreesWithEffects

(* The inboxes start empty.                                                *)
LEMMA InboxOKInit == Init => InboxOK
<1> SUFFICES ASSUME Init PROVE InboxOK
  OBVIOUS
<1>1. \A t \in Transfers : row[t].status = "absent"
  BY AbsentFields DEF Init
<1>2. inbox["risk"] = {} /\ inbox["transaction"] = {}
  BY DEF Init, Workers
<1>3. InboxAgreesWithEffects
  BY <1>1, <1>2, Zenon DEF InboxAgreesWithEffects
<1> QED BY <1>3, RowsOKInit DEF InboxOK

(* An advance that no worker makes leaves the agreement as it was.         *)
LEMMA AdvanceOutsideWorkers ==
    ASSUME RowsOK, InboxAgreesWithEffects, inbox' = inbox,
           NEW t \in Transfers, NEW l, NEW e, Advance(t, l, e),
           row[t].status \in {"absent", "review_required"}
    PROVE  InboxAgreesWithEffects'
<1>1. /\ row \in [Transfers -> StoredLifecycles \cup {Absent}]
      /\ row' = [row EXCEPT ![t] = l]
      /\ Edge(t, row[t].status, l.status)
  BY DEF Advance, RowsOK, TypeOK
<1>2. ASSUME NEW u \in Transfers \ Direct
      PROVE  /\ (\E f \in inbox'["risk"] : f.transfer = u)
                   <=> row'[u].status \notin {"absent", "pending_risk"}
             /\ (\E f \in inbox'["transaction"] : f.transfer = u /\ Approval(f))
                   <=> row'[u].status \in {"completed", "failed"}
  <2>1. CASE u # t
    <3>1. row'[u] = row[u]
      BY <1>1, <2>1
    <3> QED BY <3>1, Zenon DEF InboxAgreesWithEffects
  <2>2. CASE u = t
    <3>1. row'[u] = l
      BY <1>1, <2>2
    <3>2. row'[u].status \notin {"absent", "pending_risk"}
            <=> row[u].status \notin {"absent", "pending_risk"}
      BY <1>1, <2>2, <3>1 DEF Edge
    <3>3. row'[u].status \in {"completed", "failed"}
            <=> row[u].status \in {"completed", "failed"}
      BY <1>1, <2>2, <3>1 DEF Edge
    <3> QED BY <3>2, <3>3 DEF InboxAgreesWithEffects
  <2> QED BY <2>1, <2>2, Zenon
<1> QED BY <1>2 DEF InboxAgreesWithEffects

(* The risk worker's reservation comes with the assessment.                *)
LEMMA RiskHandleAgrees ==
    ASSUME RowsOK, InboxAgreesWithEffects, NEW p \in Partitions, RiskHandle(p)
    PROVE  InboxAgreesWithEffects'
<1> DEFINE r == Record("risk", p)
           t == r.transfer
<1>1. PICK l, e : t \in Transfers /\ row[t].status = "pending_risk" /\ Advance(t, l, e)
  BY RiskHandleAdvances DEF RowsOK
<1>2. /\ inbox'["risk"] = inbox["risk"] \cup {r}
      /\ inbox'["transaction"] = inbox["transaction"]
  BY Zenon DEF RiskHandle, Reserve, RowsOK, TypeOK, Workers
<1>3. /\ row \in [Transfers -> StoredLifecycles \cup {Absent}]
      /\ row' = [row EXCEPT ![t] = l]
      /\ l.status \in {"approved", "review_required", "declined"}
  BY <1>1, Zenon DEF Advance, Edge, RowsOK, TypeOK
<1>4. ASSUME NEW u \in Transfers \ Direct
      PROVE  /\ (\E f \in inbox'["risk"] : f.transfer = u)
                   <=> row'[u].status \notin {"absent", "pending_risk"}
             /\ (\E f \in inbox'["transaction"] : f.transfer = u /\ Approval(f))
                   <=> row'[u].status \in {"completed", "failed"}
  <2>1. CASE u # t
    <3>1. row'[u] = row[u]
      BY <1>3, <2>1
    <3> QED BY <1>2, <2>1, <3>1, Zenon DEF InboxAgreesWithEffects
  <2>2. CASE u = t
    <3>1. row'[u].status \notin {"absent", "pending_risk", "completed", "failed"}
      BY <1>1, <1>3, <2>2
    <3>2. row[u].status \notin {"completed", "failed"}
      BY <1>1, <2>2
    <3> QED BY <1>2, <2>2, <3>1, <3>2, Zenon DEF InboxAgreesWithEffects
  <2> QED BY <2>1, <2>2, Zenon
<1> QED BY <1>4 DEF InboxAgreesWithEffects

(* The reservation of an approval comes with its settlement.               *)
LEMMA TransactionHandleAgrees ==
    ASSUME RowsOK, InboxAgreesWithEffects, NEW p \in Partitions,
           HandleRiskAssessed(p) \/ HandleReviewDecision(p)
    PROVE  InboxAgreesWithEffects'
<1> DEFINE r == Record("transaction", p)
           t == r.transfer
<1>1. /\ Reserve("transaction", p) /\ t \in Transfers
      /\ \/ ~Approval(r) /\ row' = row
         \/ Approval(r) /\ Post(t)
  <2>1. Reserve("transaction", p) /\ t \in Transfers
    BY TransactionStep DEF RowsOK
  <2>2. CASE HandleRiskAssessed(p)
    BY <2>1, <2>2, Zenon DEF HandleRiskAssessed, Approval, database
  <2>3. CASE HandleReviewDecision(p)
    BY <2>1, <2>3, Zenon DEF HandleReviewDecision, Approval, database
  <2> QED BY <2>2, <2>3
<1>2. /\ inbox'["risk"] = inbox["risk"]
      /\ inbox'["transaction"] = inbox["transaction"] \cup {r}
  BY <1>1, Zenon DEF Reserve, RowsOK, TypeOK, Workers
<1>3. CASE ~Approval(r) /\ row' = row
  BY <1>2, <1>3, Zenon DEF InboxAgreesWithEffects
<1>4. CASE Approval(r) /\ Post(t)
  <2>1. PICK l, e : row[t].status = "approved" /\ Advance(t, l, e)
    BY <1>1, <1>4, PostAdvances, Zenon DEF Post, RowsOK
  <2>2. /\ row \in [Transfers -> StoredLifecycles \cup {Absent}]
        /\ row' = [row EXCEPT ![t] = l]
        /\ l.status \in {"completed", "failed"}
    BY <2>1, Zenon DEF Advance, Edge, RowsOK, TypeOK
  <2>3. ASSUME NEW u \in Transfers \ Direct
        PROVE  /\ (\E f \in inbox'["risk"] : f.transfer = u)
                     <=> row'[u].status \notin {"absent", "pending_risk"}
               /\ (\E f \in inbox'["transaction"] : f.transfer = u /\ Approval(f))
                     <=> row'[u].status \in {"completed", "failed"}
    <3>1. CASE u # t
      <4>1. row'[u] = row[u]
        BY <2>2, <3>1, Zenon
      <4> QED BY <1>2, <3>1, <4>1, Zenon DEF InboxAgreesWithEffects
    <3>2. CASE u = t
      <4>1. row'[u].status \in {"completed", "failed"}
        BY <1>1, <2>2, <3>2
      <4>2. \E f \in inbox["risk"] : f.transfer = u
        BY <2>1, <3>2, Zenon DEF InboxAgreesWithEffects
      <4> QED BY <1>2, <1>4, <3>2, <4>1, <4>2
    <3> QED BY <3>1, <3>2, Zenon
  <2> QED BY <2>3 DEF InboxAgreesWithEffects
<1> QED BY <1>1, <1>3, <1>4

(* Every step keeps the inboxes in line with the rows.                     *)
LEMMA InboxOKStep == InboxOK /\ [Next]_vars => InboxOK'
<1> SUFFICES ASSUME RowsOK, InboxAgreesWithEffects, [Next]_vars
             PROVE  InboxAgreesWithEffects'
  BY RowsOKStep DEF InboxOK
<1>0. UNCHANGED <<row, inbox>> => InboxAgreesWithEffects'
  BY DEF InboxAgreesWithEffects
<1>1. CASE UNCHANGED vars
  BY <1>0, <1>1 DEF vars, database
<1>2. ASSUME NEW t \in Transfers, CreatePending(t) \/ Create(t)
      PROVE  InboxAgreesWithEffects'
  <2>1. inbox' = inbox /\ row[t].status = "absent"
    BY <1>2, AbsentFields DEF CreatePending, Create
  <2>2. PICK l, e : Advance(t, l, e)
    BY <1>2, CreatePendingAdvances, CreateAdvances DEF RowsOK
  <2> QED BY <2>1, <2>2, AdvanceOutsideWorkers
<1>3. ASSUME NEW t \in Transfers, NEW d \in ReviewDecisions, NEW s \in Subjects,
             Decide(t, d, s)
      PROVE  InboxAgreesWithEffects'
  <2>1. inbox' = inbox /\ row[t].status = "review_required"
    BY <1>3, Zenon DEF Decide
  <2>2. PICK l, e : Advance(t, l, e)
    BY <1>3, DecideAdvances DEF RowsOK
  <2> QED BY <2>1, <2>2, AdvanceOutsideWorkers
<1>4. ASSUME NEW e, Publish(e) \/ Republish(e)
      PROVE  UNCHANGED <<row, inbox>>
  BY <1>4 DEF Publish, Republish, database
<1>5. ASSUME NEW p, NEW r, InjectPoison(p, r)
      PROVE  UNCHANGED <<row, inbox>>
  BY <1>5 DEF InjectPoison, database
<1>6. ASSUME NEW w \in Workers, NEW p \in Partitions, Consume(w, p)
      PROVE  InboxAgreesWithEffects'
  <2>1. CASE IgnoreRecord(w, p) \/ SkipReserved(w, p) \/ QuarantineRecord(w, p)
    BY <1>0, <2>1, Zenon DEF IgnoreRecord, SkipReserved, QuarantineRecord, database
  <2> QED BY <1>6, <2>1, RiskHandleAgrees, TransactionHandleAgrees DEF Consume
<1>7. ASSUME NEW w, CommitRecords(w) \/ Crash(w)
      PROVE  UNCHANGED <<row, inbox>>
  BY <1>7 DEF CommitRecords, Crash, database
<1>8. ASSUME NEW a, Freeze(a)
      PROVE  UNCHANGED <<row, inbox>>
  BY <1>8 DEF Freeze, database
<1> QED BY <1>0, <1>1, <1>2, <1>3, <1>4, <1>5, <1>6, <1>7, <1>8 DEF Next

(* Each worker's inbox and the effects of its events agree in every state. *)
THEOREM EventsTakeEffectExactlyOnce == Spec => []InboxAgreesWithEffects
<1>1. InboxOK => InboxAgreesWithEffects
  BY DEF InboxOK
<1> QED BY <1>1, InboxOKInit, InboxOKStep, PTL DEF Spec

------------------------------------------------------------------------------
(* Quarantine.                                                             *)

(* Where records come from: every event the outbox holds satisfies its     *)
(* consumer's parser, every usable record of a topic and every reserved    *)
(* event is in the outbox, and what is quarantined is another producer's.  *)
RecordsComeFromTheOutbox ==
    /\ \A e \in outbox : WellFormed(e)
    /\ \A p \in Partitions : \A i \in 1 .. Len(topic[p]) :
          topic[p][i] \in outbox \cup PoisonRecords
    /\ \A w \in Workers : inbox[w] \subseteq outbox
    /\ \A q \in quarantine : /\ q[3] < Len(topic[q[2]])
                             /\ topic[q[2]][q[3] + 1] \in PoisonRecords

RecordsOK == RowsOK /\ RecordsComeFromTheOutbox

(* The topic and the quarantine start empty.                               *)
LEMMA RecordsOKInit == Init => RecordsOK
<1> SUFFICES ASSUME Init PROVE RecordsOK
  OBVIOUS
<1>1. RecordsComeFromTheOutbox
  BY DEF Init, RecordsComeFromTheOutbox
<1> QED BY <1>1, RowsOKInit DEF RecordsOK

(* The events of the outbox are not poison.                                *)
LEMMA OutboxIsNotPoison ==
    ASSUME RowsOK, NEW e \in outbox, WellFormed(e)
    PROVE  e \notin PoisonRecords /\ \A w \in Workers : ~Quarantinable(w, e)
<1>1. Unknown.type = "unknown"
  BY DEF Unknown
<1>2. Malformed.type = "risk_assessed" /\ Malformed.version = 0
  BY DEF Malformed
<1>3. e.type \in EventTypes
  BY DEF RowsOK, TypeOK, Events
<1>4. e # Unknown
  BY <1>1, <1>3 DEF EventTypes
<1>5. e # Malformed
  BY <1>2 DEF WellFormed
<1> QED BY <1>3, <1>4, <1>5 DEF PoisonRecords, Quarantinable

(* Every step keeps the system's own events out of quarantine.             *)
LEMMA RecordsOKStep == RecordsOK /\ [Next]_vars => RecordsOK'
<1> SUFFICES ASSUME RowsOK, RecordsComeFromTheOutbox, [Next]_vars
             PROVE  RecordsComeFromTheOutbox'
  BY RowsOKStep DEF RecordsOK
<1>1. Grows
  BY StepGrows, Zenon
<1>2. \A e \in outbox' : WellFormed(e)
  BY StepEffects DEF RowsOK, Advance, RecordsComeFromTheOutbox
<1>3. ASSUME NEW p \in Partitions, NEW i \in 1 .. Len(topic'[p])
      PROVE  topic'[p][i] \in outbox' \cup PoisonRecords
  <2>1. \A j \in 1 .. Len(topic[p]) : topic[p][j] \in outbox' \cup PoisonRecords
    BY <1>1 DEF Grows, RecordsComeFromTheOutbox
  <2>2. CASE topic' = topic
    BY <2>1, <2>2
  <2>3. ASSUME NEW q \in Partitions, NEW r \in outbox \cup PoisonRecords,
               AppendRecord(q, r)
        PROVE  topic'[p][i] \in outbox' \cup PoisonRecords
    <3>1. r \in Events \cup PoisonRecords
      BY DEF RowsOK, TypeOK
    <3>2. \/ i \in 1 .. Len(topic[p]) /\ topic'[p][i] = topic[p][i]
          \/ topic'[p][i] = r
      BY <2>3, <3>1, AppendKeepsRecords DEF RowsOK
    <3>3. r \in outbox' \cup PoisonRecords
      BY <1>1 DEF Grows
    <3> QED BY <2>1, <3>2, <3>3
  <2> QED BY <2>2, <2>3, TopicSteps
<1>4. ASSUME NEW w \in Workers, NEW p \in Partitions, Ready(w, p)
      PROVE  /\ Record(w, p) \in outbox \cup PoisonRecords
             /\ Quarantinable(w, Record(w, p)) => Record(w, p) \in PoisonRecords
  <2>1. Record(w, p) \in outbox \cup PoisonRecords
    BY <1>4, RecordOfTopic DEF RowsOK, RecordsComeFromTheOutbox, Record
  <2>2. Record(w, p) \in outbox => WellFormed(Record(w, p))
    BY DEF RecordsComeFromTheOutbox
  <2> QED BY <2>1, <2>2, OutboxIsNotPoison
<1>5. \A w \in Workers : inbox'[w] \subseteq outbox'
  <2>1. inbox \in [Workers -> SUBSET Events] /\ \A w \in Workers : inbox[w] \subseteq outbox'
    BY <1>1 DEF RowsOK, TypeOK, RecordsComeFromTheOutbox, Grows
  <2>2. ASSUME NEW w \in Workers, NEW p \in Partitions, Reserve(w, p)
        PROVE  \A v \in Workers : inbox'[v] \subseteq outbox'
    <3>1. Record(w, p) \in outbox
      BY <1>4, <2>2, AcceptedRecordIsEvent DEF Reserve, RowsOK
    <3> QED BY <1>1, <2>1, <2>2, <3>1 DEF Reserve, Grows
  <2>3. inbox' = inbox \/ \E w \in Workers, p \in Partitions : Reserve(w, p)
    BY ConsumerSteps, Zenon
    DEF IgnoreRecord, SkipReserved, QuarantineRecord, CommitRecords, Crash
  <2> QED BY <2>1, <2>2, <2>3, Zenon
<1>6. ASSUME NEW q \in quarantine'
      PROVE  q[3] < Len(topic'[q[2]]) /\ topic'[q[2]][q[3] + 1] \in PoisonRecords
  <2>1. CASE q \in quarantine
    <3>1. q[2] \in Partitions /\ q[3] \in Nat
      BY <2>1 DEF RowsOK, TypeOK
    <3>2. q[3] < Len(topic[q[2]]) /\ topic[q[2]][q[3] + 1] \in PoisonRecords
      BY <2>1 DEF RecordsComeFromTheOutbox
    <3>3. /\ Len(topic[q[2]]) \in Nat /\ Len(topic'[q[2]]) \in Nat
          /\ Len(topic[q[2]]) =< Len(topic'[q[2]])
      BY <1>1, <3>1, Zenon DEF Grows
    <3>4. q[3] + 1 \in 1 .. Len(topic[q[2]]) /\ q[3] < Len(topic'[q[2]])
      BY <3>1, <3>2, <3>3
    <3>5. topic'[q[2]][q[3] + 1] = topic[q[2]][q[3] + 1]
      BY <1>1, <3>1, <3>4, Zenon DEF Grows
    <3> QED BY <3>2, <3>4, <3>5, Zenon
  <2>2. ASSUME NEW w \in Workers, NEW p \in Partitions, QuarantineRecord(w, p),
               q \notin quarantine
        PROVE  q[3] < Len(topic'[q[2]]) /\ topic'[q[2]][q[3] + 1] \in PoisonRecords
    <3>1. q[2] = p /\ q[3] = offset[w][p] /\ topic' = topic
      BY <2>2 DEF QuarantineRecord
    <3>2. Record(w, p) \in PoisonRecords /\ offset[w][p] < Len(topic[p])
      BY <1>4, <2>2, Zenon DEF QuarantineRecord, Ready
    <3> QED BY <3>1, <3>2 DEF Record
  <2>3. \/ quarantine' = quarantine
        \/ \E w \in Workers, p \in Partitions : QuarantineRecord(w, p)
    BY ConsumerSteps
    DEF IgnoreRecord, SkipReserved, Reserve, CommitRecords, Crash
  <2> QED BY <2>1, <2>2, <2>3, Zenon
<1> QED BY <1>2, <1>3, <1>5, <1>6, Zenon DEF RecordsComeFromTheOutbox

(* Quarantine never diverts an event the system itself committed.          *)
THEOREM QuarantineDivertsNoEvent == Spec => []NoCommittedEventQuarantined
<1>1. RecordsOK => NoCommittedEventQuarantined
  BY OutboxIsNotPoison, Zenon
  DEF RecordsOK, RecordsComeFromTheOutbox, NoCommittedEventQuarantined
<1> QED BY <1>1, RecordsOKInit, RecordsOKStep, PTL DEF Spec
==============================================================================
