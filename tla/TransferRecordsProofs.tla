------------------------ MODULE TransferRecordsProofs ------------------------
(***************************************************************************)
(* Proofs about what TransferPipeline leaves on record, on top of the      *)
(* invariants of TransferPipelineProofs: every balance is the sum of the   *)
(* journal, and every review has its case, audit record and event.         *)
(***************************************************************************)
EXTENDS TransferPipelineProofs, SumTheorems

------------------------------------------------------------------------------
(* Balances.                                                               *)

(* The inductive form of BalancesAreJournalSums: the journal is finite, so *)
(* that its sums are those of one entry more after every posting.          *)
SumsOK == RowsOK /\ BalancesAreJournalSums /\ IsFiniteSet(journal)

(* A posting changes the balance of every account by what the entry of the *)
(* transfer has for that account, and of the others not at all.            *)
LEMMA PostTxAddsEntry ==
    ASSUME TypeOK, NEW t \in Transfers, PostTx(t), NEW a \in Accounts
    PROVE  balance'[a] = balance[a] + EntryEffectOn(a)[t]
<1>1. balance[a] \in Int
  BY MaxMinorAssumption DEF TypeOK, Minor
<1>2. balance'[a] = IF a \in DOMAIN JournalEntry(t) THEN balance[a] + JournalEntry(t)[a]
                                                    ELSE balance[a]
  BY DEF PostTx, ApplyChange
<1>3. EntryEffectOn(a)[t] = IF a \in DOMAIN JournalEntry(t) THEN JournalEntry(t)[a] ELSE 0
  BY Zenon DEF EntryEffectOn
<1> QED BY <1>1, <1>2, <1>3

(* An entry changes an account by an integer.                              *)
LEMMA EntryEffectIsInt ==
    ASSUME NEW t \in Transfers, NEW a
    PROVE  EntryEffectOn(a)[t] \in Int
<1>1. Intent[t].amount \in Int
  BY IntentAssumption, MaxMinorAssumption DEF ValidIntent
<1>2. \A b \in DOMAIN JournalEntry(t) : JournalEntry(t)[b] \in Int
  BY <1>1 DEF JournalEntry
<1>3. EntryEffectOn(a)[t] = IF a \in DOMAIN JournalEntry(t) THEN JournalEntry(t)[a] ELSE 0
  BY Zenon DEF EntryEffectOn
<1> QED BY <1>2, <1>3

(* A posting adds one entry to the journal and to the sums.                *)
LEMMA SumsOKStep == SumsOK /\ [Next]_vars => SumsOK'
<1> SUFFICES ASSUME RowsOK, BalancesAreJournalSums, IsFiniteSet(journal), [Next]_vars
             PROVE  SumsOK'
  BY DEF SumsOK
<1> USE DEF RowsOK
<1>1. RowsOK'
  BY RowsOKStep
<1>2. CASE UNCHANGED <<balance, journal>>
  BY <1>1, <1>2 DEF SumsOK, BalancesAreJournalSums, EntryEffectOn, JournalEntry
<1>3. ASSUME NEW t \in Transfers, PostTx(t) PROVE SumsOK'
  <2>1. t \notin journal /\ journal' = journal \cup {t} /\ journal \subseteq Transfers
    BY <1>3 DEF PostTx, TypeOK
  <2>2. IsFiniteSet(journal')
    BY <2>1, FS_AddElement
  <2>3. ASSUME NEW a \in Accounts
        PROVE  balance'[a] = InitialBalance[a] + SumFunctionOnSet(EntryEffectOn(a), journal')
    <3> DEFINE f == EntryEffectOn(a)
    <3>1. \A u \in journal \cup {t} : f[u] \in Int
      BY <2>1, EntryEffectIsInt
    <3>2. balance'[a] = balance[a] + f[t]
      BY <1>3, PostTxAddsEntry
    <3>3. balance[a] = InitialBalance[a] + SumFunctionOnSet(f, journal)
      BY Zenon DEF BalancesAreJournalSums
    <3>4. InitialBalance[a] \in Int
      BY BalanceAssumption, MaxMinorAssumption DEF Minor
    <3> HIDE DEF f
    <3>5. SumFunctionOnSet(f, journal') = f[t] + SumFunctionOnSet(f, journal)
      BY <2>1, <3>1, SumAdd
    <3>6. f[t] \in Int /\ SumFunctionOnSet(f, journal) \in Int
      BY <3>1, SumInt
    <3>7. balance'[a] = InitialBalance[a] + SumFunctionOnSet(f, journal')
      BY <3>2, <3>3, <3>4, <3>5, <3>6
    <3> QED BY <3>7 DEF f
  <2>4. BalancesAreJournalSums'
    BY <2>3, Zenon DEF BalancesAreJournalSums, EntryEffectOn, JournalEntry
  <2> QED BY <1>1, <2>2, <2>4 DEF SumsOK
<1>4. ASSUME NEW t \in Transfers, NEW l, NEW e, Advance(t, l, e)
      PROVE  UNCHANGED <<balance, journal>> \/ PostTx(t)
  BY <1>4 DEF Advance
<1> QED BY <1>2, <1>3, <1>4, StepEffects

(* Every balance is its initial snapshot plus the sum of the posted        *)
(* entries, however many transfers post concurrently, fail or are retried: *)
(* no update is lost and none is applied twice.                            *)
THEOREM BalancesAreAlwaysJournalSums == Spec => []BalancesAreJournalSums
<1>1. ASSUME Init PROVE SumsOK
  <2>1. ASSUME NEW a \in Accounts
        PROVE  balance[a] = InitialBalance[a] + SumFunctionOnSet(EntryEffectOn(a), journal)
    <3>1. balance[a] = InitialBalance[a] /\ journal = {} /\ InitialBalance[a] \in Int
      BY <1>1, BalanceAssumption, MaxMinorAssumption DEF Init, Minor
    <3>2. SumFunctionOnSet(EntryEffectOn(a), journal) = 0
      BY <3>1, SumEmpty, Zenon
    <3> QED BY <3>1, <3>2
  <2> QED BY <1>1, <2>1, RowsOKInit, FS_EmptySet DEF Init, SumsOK, BalancesAreJournalSums
<1>2. SumsOK => BalancesAreJournalSums
  BY DEF SumsOK
<1> QED BY <1>1, <1>2, SumsOKStep, PTL DEF Spec

------------------------------------------------------------------------------
(* Reviews: cases, audit records and events agree in every state.          *)

AuditOf(t) == {r \in audit : r.transfer = t}

DecisionsTold(t) ==
    {e.decision : e \in {f \in EventsOf(t) : f.type = "review_decided"}}

(* The trail of one transfer.  The last conjunct is the strengthening: the *)
(* audit record of a decision names version 3 because a case is opened at  *)
(* version 2 and nothing else advances a transfer under review.            *)
Trail(t) ==
    /\ reviewCase[t] # NoCase <=> assessment[t] = "review"
    /\ reviewCase[t].status = "open" <=> row[t].status = "review_required"
    /\ AuditOf(t) = IF reviewCase[t].status \in ReviewDecisions
                    THEN {[transfer |-> t, version |-> 3, by |-> reviewCase[t].by,
                           decision |-> reviewCase[t].status]}
                    ELSE {}
    /\ DecisionsTold(t) = {reviewCase[t].status} \cap ReviewDecisions
    /\ row[t].status = "review_required" => row[t].version = 2

TrailOK == RowsOK /\ \A t \in Transfers : Trail(t)

(* A step that leaves the evidence of a transfer alone and neither opens   *)
(* nor ends a review of it keeps its trail.                                *)
LEMMA QuietStepKeepsTrail ==
    ASSUME NEW t \in Transfers, Trail(t),
           reviewCase'[t] = reviewCase[t], assessment'[t] = assessment[t],
           AuditOf(t)' = AuditOf(t), DecisionsTold(t)' = DecisionsTold(t),
           \/ row'[t] = row[t]
           \/ "review_required" \notin {row[t].status, row'[t].status}
    PROVE  Trail(t)'
BY Zenon DEF Trail

(* What an advance does to the events that carry a decision.               *)
LEMMA AdvanceTells ==
    ASSUME NEW t, NEW e, outbox' = outbox \cup {e}, e.transfer = t
    PROVE  /\ \A u : u # t => DecisionsTold(u)' = DecisionsTold(u)
           /\ e.type # "review_decided" => DecisionsTold(t)' = DecisionsTold(t)
           /\ e.type = "review_decided" =>
                 DecisionsTold(t)' = DecisionsTold(t) \cup {e.decision}
<1>1. \A u : EventsOf(u)' = IF u = t THEN EventsOf(u) \cup {e} ELSE EventsOf(u)
  BY DEF EventsOf
<1> QED BY <1>1 DEF DecisionsTold

(* No transfer, case, audit record or event exists at the start.           *)
LEMMA TrailOKInit == Init => TrailOK
<1> SUFFICES ASSUME Init PROVE \A t \in Transfers : Trail(t)
  BY RowsOKInit DEF TrailOK
<1> TAKE t \in Transfers
<1>1. row[t].status = "absent"
  BY AbsentFields DEF Init
<1>2. NoCase.status = "none" /\ reviewCase[t] = NoCase /\ assessment[t] = "none"
  BY DEF Init, NoCase
<1>3. AuditOf(t) = {} /\ EventsOf(t) = {}
  BY Zenon DEF Init, AuditOf, EventsOf
<1>4. DecisionsTold(t) = {}
  BY <1>3, Zenon DEF DecisionsTold
<1> QED BY <1>1, <1>2, <1>3, <1>4, Zenon DEF Trail, ReviewDecisions

(* Creations and postings announce no decision and touch no case.          *)
LEMMA OtherAdvancesKeepTrail ==
    ASSUME TrailOK, NEW t \in Transfers, CreatePending(t) \/ Create(t) \/ Post(t),
           NEW u \in Transfers
    PROVE  Trail(u)'
<1>1. UNCHANGED <<assessment, reviewCase, audit>>
  BY DEF CreatePending, Create, Post
<1>2. PICK e : outbox' = outbox \cup {e} /\ e.transfer = t /\ e.type # "review_decided"
  <2>1. \A k, l, d : Event(k, t, l, d).transfer = t /\ Event(k, t, l, d).type = k
    BY DEF Event
  <2>2. \E k, l, d : outbox' = outbox \cup {Event(k, t, l, d)} /\ k # "review_decided"
    <3>1. CASE CreatePending(t)
      <4>1. outbox' = outbox \cup {Event("requested", t, row'[t], "none")}
        BY <3>1, Zenon DEF CreatePending, AddTx, Requested
      <4>2. "requested" # "review_decided"
        OBVIOUS
      <4> QED BY <4>1, <4>2, Zenon
    <3>2. CASE Create(t)
      <4>1. outbox' = outbox \cup {Event("completed", t, row'[t], "none")}
        BY <3>2, Zenon DEF Create, AddTx, Completed
      <4>2. "completed" # "review_decided"
        OBVIOUS
      <4> QED BY <4>1, <4>2, Zenon
    <3>3. CASE PostAndComplete(t)
      <4>1. outbox' = outbox \cup {Event("completed", t, row'[t], "none")}
        BY <3>3, Zenon DEF PostAndComplete, AddTx, Completed
      <4>2. "completed" # "review_decided"
        OBVIOUS
      <4> QED BY <4>1, <4>2, Zenon
    <3>4. CASE FailTransfer(t)
      <4>1. outbox' = outbox \cup {Event("failed", t, row'[t], "none")}
        BY <3>4, Zenon DEF FailTransfer, AddTx, Failed
      <4>2. "failed" # "review_decided"
        OBVIOUS
      <4> QED BY <4>1, <4>2, Zenon
    <3> QED BY <3>1, <3>2, <3>3, <3>4, Zenon DEF Post
  <2>3. PICK k, l, d : outbox' = outbox \cup {Event(k, t, l, d)} /\ k # "review_decided"
    BY <2>2
  <2> DEFINE e == Event(k, t, l, d)
  <2>4. outbox' = outbox \cup {e} /\ e.transfer = t /\ e.type # "review_decided"
    BY <2>1, <2>3
  <2> HIDE DEF e
  <2> QED BY <2>4
<1>3. DecisionsTold(u)' = DecisionsTold(u)
  BY <1>2, AdvanceTells
<1>4. row'[u] = row[u] \/ "review_required" \notin {row[u].status, row'[u].status}
  <2>1. PICK l, f : Advance(t, l, f)
    BY CreatePendingAdvances, CreateAdvances, PostAdvances DEF TrailOK, RowsOK
  <2>2. row[t].status \in {"absent", "approved"}
    BY AbsentFields DEF CreatePending, Create, Post
  <2>3. row' = [row EXCEPT ![t] = l] /\ row \in [Transfers -> StoredLifecycles \cup {Absent}]
    BY <2>1 DEF Advance, TrailOK, RowsOK, TypeOK
  <2>4. l.status # "review_required"
    BY <2>1, <2>2 DEF Advance, Edge
  <2> QED BY <2>2, <2>3, <2>4
<1>5. AuditOf(u)' = AuditOf(u)
  BY <1>1 DEF AuditOf
<1> QED BY <1>1, <1>3, <1>4, <1>5, QuietStepKeepsTrail, Zenon DEF TrailOK

(* An assessment opens a case exactly if it asks for a review.             *)
LEMMA RiskHandleKeepsTrail ==
    ASSUME TrailOK, NEW p \in Partitions, RiskHandle(p), NEW u \in Transfers
    PROVE  Trail(u)'
<1> DEFINE t == Record("risk", p).transfer
<1>1. PICK d \in Decisions :
         /\ t \in Transfers
         /\ row[t].status = "pending_risk"
         /\ StoreRiskAssessmentTx(t, d)
         /\ AddTx(Event("risk_assessed", t, row'[t], d))
  BY RiskHandleDecides, Zenon DEF TrailOK, RowsOK
<1> HIDE DEF t
<1>2. /\ row \in [Transfers -> StoredLifecycles \cup {Absent}]
      /\ reviewCase \in [Transfers -> Cases]
      /\ assessment \in [Transfers -> Decisions \cup {"none"}]
  BY DEF TrailOK, RowsOK, TypeOK
<1>3. AuditOf(u)' = AuditOf(u)
  BY Zenon DEF RiskHandle, AuditOf
<1>4. DecisionsTold(u)' = DecisionsTold(u)
  <2> DEFINE e == Event("risk_assessed", t, row'[t], d)
  <2>1. e.transfer = t /\ e.type # "review_decided"
    BY DEF Event
  <2>2. outbox' = outbox \cup {e}
    BY <1>1 DEF AddTx
  <2> HIDE DEF e
  <2> QED BY <2>1, <2>2, AdvanceTells
<1>5. CASE u # t
  <2>1. /\ row'[u] = row[u]
        /\ reviewCase'[u] = reviewCase[u]
        /\ assessment'[u] = assessment[u]
    BY <1>1, <1>2, <1>5 DEF StoreRiskAssessmentTx
  <2> QED BY <1>3, <1>4, <2>1, QuietStepKeepsTrail DEF TrailOK
<1>6. CASE u = t
  <2>0. /\ row[u].status = "pending_risk"
        /\ assessment[u] = "none"
        /\ assessment'[u] = d
        /\ row'[u] = Assessed(row[u], d)
        /\ reviewCase'[u] = IF d = "review" THEN [status |-> "open", by |-> "none"]
                                           ELSE reviewCase[u]
    BY <1>1, <1>2, <1>6 DEF StoreRiskAssessmentTx
  <2>1. Trail(u)
    BY DEF TrailOK
  <2>2. reviewCase[u] = NoCase
    BY <2>0, <2>1, Zenon DEF Trail
  <2>3. NoCase.status = "none"
    BY DEF NoCase
  <2>4. AuditOf(u)' = {} /\ DecisionsTold(u)' = {}
    <3>1. AuditOf(u) = {} /\ DecisionsTold(u) = {}
      BY <2>1, <2>2, <2>3, Zenon DEF Trail, ReviewDecisions
    <3> QED BY <1>3, <1>4, <3>1
  <2>5. row[u].version = 1
    BY <2>0, RowUnderWay, Zenon DEF TrailOK, RowsOK, Validate
  <2>6. CASE d = "review"
    <3>1. row'[u].status = "review_required" /\ row'[u].version = 2
      BY <2>0, <2>5, <2>6 DEF Assessed, RequireReview, Transition
    <3>2. reviewCase'[u].status = "open" /\ reviewCase'[u] # NoCase
      <4>1. reviewCase'[u] = [status |-> "open", by |-> "none"]
        BY <2>0, <2>6, Zenon
      <4>2. reviewCase'[u].status = "open"
        BY <4>1
      <4> QED BY <2>3, <4>2
    <3> QED BY <2>0, <2>4, <2>6, <3>1, <3>2, Zenon DEF Trail, ReviewDecisions
  <2>7. CASE d # "review"
    <3>1. row'[u].status \in {"approved", "declined"}
      BY <2>0, <2>7 DEF Assessed, Approve, Decline, Transition, Decisions
    <3>2. reviewCase'[u] = NoCase
      BY <2>0, <2>2, <2>7, Zenon
    <3> QED BY <2>0, <2>3, <2>4, <2>7, <3>1, <3>2, Zenon DEF Trail, ReviewDecisions
  <2> QED BY <2>6, <2>7
<1> QED BY <1>5, <1>6

(* A decision closes the case, records it once and announces it once.      *)
LEMMA DecideKeepsTrail ==
    ASSUME TrailOK, NEW t \in Transfers, NEW d \in ReviewDecisions,
           NEW s \in Subjects, Decide(t, d, s), NEW u \in Transfers
    PROVE  Trail(u)'
<1> DEFINE r == [transfer |-> t, version |-> row'[t].version, decision |-> d, by |-> s]
           e == ReviewDecided(t, row'[t])
<1>1. /\ row \in [Transfers -> StoredLifecycles \cup {Absent}]
      /\ reviewCase \in [Transfers -> Cases]
  BY DEF TrailOK, RowsOK, TypeOK
<1>2. /\ row' = [row EXCEPT ![t] = Decided(row[t], d)]
      /\ reviewCase' = [reviewCase EXCEPT ![t] = [status |-> d, by |-> s]]
      /\ reviewCase[t].status = "open"
      /\ row[t].status = "review_required"
      /\ audit' = audit \cup {r}
      /\ outbox' = outbox \cup {e}
      /\ assessment' = assessment
  BY DEF Decide, StoreLifecycleTransitionTx, DecideReviewCaseTx,
         AppendReviewDecisionTx, AddTx
<1>3. Trail(t) /\ Trail(u)
  BY DEF TrailOK
<1>4. row'[t].version = 3 /\ row'[t].status = d
  BY <1>1, <1>2, <1>3 DEF Trail, Decided, Approve, Decline, Transition, ReviewDecisions
<1>5. e.transfer = t /\ e.type = "review_decided" /\ e.decision = d
  BY <1>4, Zenon DEF ReviewDecided, Event
<1>6. r.transfer = t
  OBVIOUS
<1> HIDE DEF r, e
<1>7. CASE u # t
  <2>1. row'[u] = row[u] /\ reviewCase'[u] = reviewCase[u]
    BY <1>1, <1>2, <1>7
  <2>2. AuditOf(u)' = AuditOf(u)
    BY <1>2, <1>6, <1>7 DEF AuditOf
  <2>3. DecisionsTold(u)' = DecisionsTold(u)
    BY <1>2, <1>5, <1>7, AdvanceTells
  <2> QED BY <1>2, <1>3, <2>1, <2>2, <2>3, QuietStepKeepsTrail
<1>8. CASE u = t
  <2>1. AuditOf(t) = {} /\ DecisionsTold(t) = {}
    BY <1>2, <1>3 DEF Trail, ReviewDecisions
  <2>2. AuditOf(t)' = {r}
    BY <1>2, <1>6, <2>1 DEF AuditOf
  <2>3. DecisionsTold(t)' = {d}
    BY <1>2, <1>5, <2>1, AdvanceTells
  <2>4. reviewCase'[t] = [status |-> d, by |-> s]
    BY <1>1, <1>2
  <2>5. reviewCase'[t].status = d /\ reviewCase'[t].by = s /\ reviewCase'[t] # NoCase
    BY <2>4 DEF NoCase, ReviewDecisions
  <2>6. r = [transfer |-> t, version |-> 3, by |-> s, decision |-> d]
    BY <1>4, Zenon DEF r
  <2>7. assessment'[t] = "review"
    <3>1. reviewCase[t] # NoCase
      BY <1>2 DEF NoCase
    <3> QED BY <1>2, <1>3, <3>1 DEF Trail
  <2>8. d # "open" /\ d # "review_required"
    BY DEF ReviewDecisions
  <2> QED BY <1>4, <1>8, <2>2, <2>3, <2>5, <2>6, <2>7, <2>8, Zenon DEF Trail
<1> QED BY <1>7, <1>8

(* Every step keeps the trail of every transfer.                           *)
LEMMA TrailOKStep == TrailOK /\ [Next]_vars => TrailOK'
<1> SUFFICES ASSUME TrailOK, [Next]_vars, NEW u \in Transfers
             PROVE  Trail(u)'
  BY RowsOKStep DEF TrailOK
<1>1. ASSUME UNCHANGED database
      PROVE  Trail(u)'
  <2>1. AuditOf(u)' = AuditOf(u) /\ EventsOf(u)' = EventsOf(u)
    BY <1>1 DEF database, AuditOf, EventsOf
  <2>2. DecisionsTold(u)' = DecisionsTold(u)
    BY <2>1 DEF DecisionsTold
  <2> QED BY <1>1, <2>1, <2>2, QuietStepKeepsTrail DEF database, TrailOK
<1>2. CASE UNCHANGED vars
  BY <1>1, <1>2 DEF vars
<1>3. ASSUME NEW t \in Transfers, CreatePending(t) \/ Create(t)
      PROVE  Trail(u)'
  BY <1>3, OtherAdvancesKeepTrail
<1>4. ASSUME NEW t \in Transfers, NEW d \in ReviewDecisions, NEW s \in Subjects,
             Decide(t, d, s)
      PROVE  Trail(u)'
  BY <1>4, DecideKeepsTrail
<1>5. ASSUME NEW e, Publish(e) \/ Republish(e)
      PROVE  UNCHANGED database
  BY <1>5 DEF Publish, Republish
<1>6. ASSUME NEW p, NEW r, InjectPoison(p, r)
      PROVE  UNCHANGED database
  BY <1>6 DEF InjectPoison
<1>7. ASSUME NEW w \in Workers, NEW p \in Partitions, Consume(w, p)
      PROVE  Trail(u)'
  <2>1. CASE IgnoreRecord(w, p) \/ SkipReserved(w, p) \/ QuarantineRecord(w, p)
    BY <1>1, <2>1, Zenon DEF IgnoreRecord, SkipReserved, QuarantineRecord
  <2>2. CASE RiskHandle(p)
    BY <2>2, RiskHandleKeepsTrail
  <2>3. CASE HandleRiskAssessed(p) \/ HandleReviewDecision(p)
    BY <1>1, <2>3, TransactionStep, OtherAdvancesKeepTrail DEF TrailOK, RowsOK
  <2> QED BY <1>7, <2>1, <2>2, <2>3 DEF Consume
<1>8. ASSUME NEW w, CommitRecords(w) \/ Crash(w)
      PROVE  UNCHANGED database
  BY <1>8 DEF CommitRecords, Crash
<1>9. ASSUME NEW a, Freeze(a)
      PROVE  UNCHANGED database
  BY <1>9 DEF Freeze
<1> QED BY <1>1, <1>2, <1>3, <1>4, <1>5, <1>6, <1>7, <1>8, <1>9 DEF Next

(* In every state, a transfer has a review case exactly if its assessment  *)
(* asked for one, and the case, its one audit record and its one event     *)
(* name the same decision: Decide writes all of them or none.              *)
THEOREM ReviewTrailIsAlwaysComplete == Spec => []ReviewTrailIsComplete
<1>1. TrailOK => ReviewTrailIsComplete
  BY DEF TrailOK, Trail, AuditOf, DecisionsTold, ReviewTrailIsComplete
<1> QED BY <1>1, TrailOKInit, TrailOKStep, PTL DEF Spec
==============================================================================
