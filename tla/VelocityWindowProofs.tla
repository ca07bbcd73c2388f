------------------------- MODULE VelocityWindowProofs ------------------------
(***************************************************************************)
(* The count of VelocityWindow is of the window: for any finite set of     *)
(* transfers, any window, any bound on the skew of the clocks and any      *)
(* retries, failures and expiries of the key.                              *)
(***************************************************************************)
EXTENDS VelocityWindow, FiniteSetTheorems, TLAPS

Readings == -Skew .. MaxTime + Skew

(* A reading is at most Skew ahead of Redis, and stays so.                 *)
ReadingsOK ==
    \A t \in Transfers :
        /\ observedAt[t] # Gone => observedAt[t] <= clock + Skew
        /\ first[t] # Gone => first[t] <= clock + Skew

(* A member's score is one of the readings of its transfer, so it lies     *)
(* between the earliest and the latest.                                    *)
ScoresOK ==
    \A t \in Transfers :
        score[t] # Gone => first[t] # Gone /\ first[t] <= score[t] /\ score[t] <= latest[t]

(* The key outlives every reading by a window, but for the skew.           *)
KeyOutlives == \A t \in Transfers : first[t] # Gone => expiry >= first[t] - Skew + Window

(* What is surely in the window is a member.                               *)
NothingMissing == \A t \in SurelyInWindow : score[t] # Gone

Inv == TypeOK /\ ReadingsOK /\ ScoresOK /\ KeyOutlives /\ NothingMissing

(* Gone lies below every reading and every window.                         *)
LEMMA GoneIsOld ==
    /\ Gone \in Int
    /\ Window \in Nat /\ Window > 0 /\ Skew \in Nat /\ MaxTime \in Nat
    /\ \A r \in Readings : r \in Int /\ r # Gone /\ Gone < r - Window
BY WindowAssumption, ClockAssumption DEF Gone, Readings

(* What TypeOK says, in numbers.                                           *)
LEMMA Numbers ==
    ASSUME TypeOK
    PROVE  /\ clock \in Nat /\ clock <= MaxTime
           /\ expiry \in Int
           /\ \A t \in Transfers :
                 /\ score[t] \in Readings \cup {Gone}
                 /\ observedAt[t] \in Readings \cup {Gone}
                 /\ first[t] \in Readings \cup {Gone}
                 /\ latest[t] \in Readings \cup {Gone}
                 /\ score[t] \in Int /\ observedAt[t] \in Int
                 /\ first[t] \in Int /\ latest[t] \in Int
<1>1. clock \in Nat /\ clock <= MaxTime /\ expiry \in Int
    BY GoneIsOld DEF TypeOK
<1>2. \A t \in Transfers : /\ score[t] \in Readings \cup {Gone}
                           /\ observedAt[t] \in Readings \cup {Gone}
                           /\ first[t] \in Readings \cup {Gone}
                           /\ latest[t] \in Readings \cup {Gone}
    BY DEF TypeOK, Readings
<1>3. \A r \in Readings \cup {Gone} : r \in Int
    BY GoneIsOld
<1> QED
    BY <1>1, <1>2, <1>3

(* The window starts empty and no handler is at work.                      *)
LEMMA InitInv == Init => Inv
<1> SUFFICES ASSUME Init PROVE Inv
    OBVIOUS
<1>1. Cardinality(Transfers) \in Nat
    BY TransfersAssumption, FS_CardinalityType, Zenon
<1>2. TypeOK
    BY <1>1, GoneIsOld DEF Init, TypeOK, NotCaptured
<1>3. \A t \in Transfers : score[t] = Gone /\ observedAt[t] = Gone /\ first[t] = Gone
    BY DEF Init
<1>4. NothingMissing
  <2>1. Gone < 0 - Window + Skew
    BY WindowAssumption, ClockAssumption DEF Gone
  <2>2. SurelyInWindow = {}
    BY <1>3, <2>1, GoneIsOld DEF Init, SurelyInWindow
  <2> QED
    BY <2>2 DEF NothingMissing
<1> QED
    BY <1>2, <1>3, <1>4 DEF Inv, ReadingsOK, ScoresOK, KeyOutlives

------------------------------------------------------------------------------
(* The script.                                                             *)

(* The reading of a handler at work.                                       *)
LEMMA NowIsReading ==
    ASSUME Inv, NEW t \in Transfers, AtWork(t)
    PROVE  /\ observedAt[t] \in Readings
           /\ observedAt[t] <= clock + Skew
BY Numbers DEF Inv, ReadingsOK, AtWork

(* What the script makes of the score of every transfer: the observed one  *)
(* is a member, the others are unless they have left the window.           *)
LEMMA ScriptScores ==
    ASSUME Inv, NEW t \in Transfers, AtWork(t), RunScript(t)
    PROVE  /\ score' \in [Transfers -> Readings \cup {Gone}]
           /\ score'[t] # Gone
           /\ \A u \in Transfers :
                 \/ u = t /\ score'[u] = observedAt[t]
                 \/ score[u] > observedAt[t] - Window /\ score'[u] = score[u]
                 \/ u # t /\ score[u] <= observedAt[t] - Window /\ score'[u] = Gone
<1> DEFINE now == observedAt[t]
           s == Trim(score, now)
<1>1. now \in Readings /\ now # Gone /\ now \in Int
    BY NowIsReading, GoneIsOld
<1>2. \A u \in Transfers : score[u] \in Readings \cup {Gone} /\ score[u] \in Int
    BY Numbers DEF Inv
<1> HIDE DEF now
<1>3. s = [u \in Transfers |-> IF score[u] <= now - Window THEN Gone ELSE score[u]]
    BY DEF Trim
<1>4. s \in [Transfers -> Readings \cup {Gone}]
    BY <1>2, <1>3
<1>5. \A u \in Transfers : s[u] = Gone => score[u] <= now - Window
    BY <1>1, <1>2, <1>3, GoneIsOld
<1>6. \A u \in Transfers : s[u] # Gone => score[u] > now - Window /\ s[u] = score[u]
    BY <1>1, <1>2, <1>3, GoneIsOld
<1>7. score' = IF s[t] = Gone THEN [s EXCEPT ![t] = now] ELSE s
    BY Zenon DEF RunScript, Add, now
<1> HIDE DEF s
<1>8. score' \in [Transfers -> Readings \cup {Gone}]
    BY <1>1, <1>4, <1>7
<1>9. score'[t] # Gone
    BY <1>1, <1>4, <1>7
<1>10. ASSUME NEW u \in Transfers
       PROVE  \/ u = t /\ score'[u] = now
              \/ score[u] > now - Window /\ score'[u] = score[u]
              \/ u # t /\ score[u] <= now - Window /\ score'[u] = Gone
    BY <1>4, <1>5, <1>6, <1>7
<1> QED
    BY <1>8, <1>9, <1>10, Zenon DEF now

(* What it makes of the history.                                           *)
LEMMA ScriptHistory ==
    ASSUME Inv, NEW t \in Transfers, AtWork(t), RunScript(t)
    PROVE  /\ first' \in [Transfers -> Readings \cup {Gone}]
           /\ latest' \in [Transfers -> Readings \cup {Gone}]
           /\ first'[t] # Gone /\ first'[t] <= observedAt[t] /\ observedAt[t] <= latest'[t]
           /\ first[t] # Gone => first'[t] <= first[t]
           /\ latest[t] <= latest'[t]
           /\ \A u \in Transfers \ {t} : first'[u] = first[u] /\ latest'[u] = latest[u]
<1> DEFINE now == observedAt[t]
<1>1. now \in Readings /\ now # Gone /\ now \in Int
    BY NowIsReading, GoneIsOld
<1>2. /\ first \in [Transfers -> Readings \cup {Gone}]
      /\ latest \in [Transfers -> Readings \cup {Gone}]
    BY DEF Inv, TypeOK, Readings
<1>3. first[t] \in Int /\ latest[t] \in Int
    BY Numbers DEF Inv
<1>4. first' = [first EXCEPT ![t] = IF @ = Gone \/ now < @ THEN now ELSE @]
    BY DEF RunScript
<1>5. latest' = [latest EXCEPT ![t] = IF now > @ THEN now ELSE @]
    BY DEF RunScript
<1> HIDE DEF now
<1>6. first'[t] = (IF first[t] = Gone \/ now < first[t] THEN now ELSE first[t])
    BY <1>2, <1>4
<1>7. latest'[t] = (IF now > latest[t] THEN now ELSE latest[t])
    BY <1>2, <1>5
<1>8. /\ first' \in [Transfers -> Readings \cup {Gone}]
      /\ latest' \in [Transfers -> Readings \cup {Gone}]
    BY <1>1, <1>2, <1>4, <1>5
<1>9. \A u \in Transfers \ {t} : first'[u] = first[u] /\ latest'[u] = latest[u]
    BY <1>2, <1>4, <1>5
<1>10. /\ first'[t] # Gone /\ first'[t] <= now /\ now <= latest'[t]
       /\ first[t] # Gone => first'[t] <= first[t]
       /\ latest[t] <= latest'[t]
    BY <1>1, <1>3, <1>6, <1>7
<1> QED
    BY <1>8, <1>9, <1>10 DEF now

(* The counted members are observations in the window, and everything that *)
(* is surely in the window is counted.                                     *)
LEMMA ScriptKeepsInv ==
    ASSUME Inv, NEW t \in Transfers, AtWork(t), RunScript(t), clock' = clock
    PROVE  /\ \A u \in Transfers : first'[u] # Gone => first'[u] <= clock + Skew
           /\ ScoresOK'
           /\ KeyOutlives'
           /\ NothingMissing'
<1>1. /\ observedAt[t] \in Int /\ observedAt[t] <= clock + Skew
      /\ clock \in Int /\ Skew \in Int /\ Window \in Int
    BY NowIsReading, GoneIsOld, Numbers DEF Inv
<1>2. \A u \in Transfers : /\ score[u] \in Int /\ first[u] \in Int /\ latest[u] \in Int
                           /\ score'[u] \in Int /\ first'[u] \in Int /\ latest'[u] \in Int
  <2>1. \A r \in Readings \cup {Gone} : r \in Int
    BY GoneIsOld
  <2> QED
    BY <2>1, ScriptScores, ScriptHistory, Numbers DEF Inv
<1>3. ASSUME NEW u \in Transfers, first'[u] # Gone PROVE first'[u] <= clock + Skew
  <2>1. CASE u = t
    BY <1>1, <1>2, <2>1, ScriptHistory
  <2>2. CASE u # t
    BY <1>3, <2>2, ScriptHistory DEF Inv, ReadingsOK
  <2> QED
    BY <2>1, <2>2
<1>4. ASSUME NEW u \in Transfers, score'[u] # Gone
      PROVE  first'[u] # Gone /\ first'[u] <= score'[u] /\ score'[u] <= latest'[u]
  <2>1. CASE u = t /\ score'[u] = observedAt[t]
    BY <2>1, ScriptHistory
  <2>2. CASE score'[u] = score[u]
    <3>1. first[u] # Gone /\ first[u] <= score[u] /\ score[u] <= latest[u]
      BY <1>4, <2>2 DEF Inv, ScoresOK
    <3>2. first'[u] # Gone /\ first'[u] <= first[u] /\ latest[u] <= latest'[u]
      BY <1>2, <3>1, ScriptHistory
    <3> QED
      BY <1>2, <2>2, <3>1, <3>2
  <2> QED
    BY <1>4, <2>1, <2>2, ScriptScores
<1>5. ASSUME NEW u \in Transfers, first'[u] # Gone
      PROVE  expiry' >= first'[u] - Skew + Window
  <2>1. expiry' = clock + Window
    BY Zenon DEF RunScript
  <2> QED
    BY <1>1, <1>2, <1>3, <1>5, <2>1
<1>6. ASSUME NEW u \in Transfers, first'[u] > clock - Window + Skew
      PROVE  score'[u] # Gone
  <2>1. CASE u = t
    BY <2>1, ScriptScores
  <2>2. CASE u # t
    <3>1. first[u] > clock - Window + Skew
      BY <1>6, <2>2, ScriptHistory
    <3>2. score[u] # Gone /\ first[u] <= score[u]
      BY <3>1 DEF Inv, NothingMissing, SurelyInWindow, ScoresOK
    <3>3. score[u] > observedAt[t] - Window
      BY <1>1, <1>2, <3>1, <3>2
    <3>4. score'[u] = score[u]
      BY <1>1, <1>2, <2>2, <3>3, ScriptScores
    <3> QED
      BY <3>2, <3>4
  <2> QED
    BY <2>1, <2>2
<1> QED
    BY <1>3, <1>4, <1>5, <1>6 DEF ScoresOK, KeyOutlives, NothingMissing, SurelyInWindow

(* ZCARD is a number of transfers.                                         *)
LEMMA MembersCounted ==
    ASSUME NEW s
    PROVE  Cardinality(Members(s)) \in 0 .. Cardinality(Transfers)
<1>1. Members(s) \subseteq Transfers
    BY DEF Members
<1>2. /\ Cardinality(Members(s)) \in Nat /\ Cardinality(Transfers) \in Nat
      /\ Cardinality(Members(s)) <= Cardinality(Transfers)
    BY <1>1, TransfersAssumption, FS_Subset, FS_CardinalityType
<1> QED
    BY <1>2

------------------------------------------------------------------------------
(* The steps.                                                              *)

(* Time passes; a key that expires takes nothing that is in the window.    *)
LEMMA TickStep == ASSUME Inv, Tick PROVE Inv'
<1>1. /\ clock \in Int /\ clock' = clock + 1 /\ expiry \in Int
      /\ Skew \in Int /\ Window \in Int
    BY Numbers, GoneIsOld DEF Inv, Tick
<1>2. \A u \in Transfers : first[u] \in Int /\ observedAt[u] \in Int
    BY Numbers DEF Inv
<1>3. UNCHANGED <<expiry, observedAt, captured, assessed, first, latest>>
    BY DEF Tick
<1>4. \A u \in Transfers : score'[u] = IF clock + 1 >= expiry THEN Gone ELSE score[u]
    BY DEF Tick
<1>5. TypeOK'
  <2>1. clock' \in 0 .. MaxTime
    BY GoneIsOld DEF Tick, Inv, TypeOK
  <2>2. score' \in [Transfers -> -Skew .. MaxTime + Skew \cup {Gone}]
    BY DEF Tick, Inv, TypeOK
  <2> QED
    BY <1>3, <2>1, <2>2 DEF Inv, TypeOK
<1>6. ReadingsOK'
    BY <1>1, <1>2, <1>3 DEF Inv, ReadingsOK
<1>7. ScoresOK'
    BY <1>3, <1>4 DEF Inv, ScoresOK
<1>8. KeyOutlives'
    BY <1>3 DEF Inv, KeyOutlives
<1>9. ASSUME NEW u \in Transfers, first'[u] > clock' - Window + Skew
      PROVE  score'[u] # Gone
  <2>1. first[u] > clock - Window + Skew /\ first[u] - Skew + Window > clock + 1
    BY <1>1, <1>2, <1>3, <1>9
  <2>2. score[u] # Gone /\ first[u] # Gone
    BY <2>1 DEF Inv, NothingMissing, SurelyInWindow, ScoresOK
  <2>3. expiry >= first[u] - Skew + Window
    BY <2>2 DEF Inv, KeyOutlives
  <2>4. ~(clock + 1 >= expiry)
    BY <1>1, <1>2, <2>1, <2>3
  <2> QED
    BY <1>4, <2>2, <2>4
<1> QED
    BY <1>5, <1>6, <1>7, <1>8, <1>9 DEF Inv, NothingMissing, SurelyInWindow

(* What a handler captures is a count or a failure.                        *)
LEMMA CapturedType ==
    ASSUME Inv, NEW t \in Transfers, NEW n \in 0 .. Cardinality(Transfers),
           captured' = [captured EXCEPT ![t] = n]
    PROVE  captured' \in [Transfers -> NotCaptured .. Cardinality(Transfers)]
<1>1. Cardinality(Transfers) \in Nat
    BY TransfersAssumption, FS_CardinalityType, Zenon
<1>2. n \in NotCaptured .. Cardinality(Transfers)
    BY <1>1 DEF NotCaptured
<1> QED
    BY <1>2 DEF Inv, TypeOK

(* The script runs, whatever the handler captures.                         *)
LEMMA ScriptStep ==
    ASSUME Inv, NEW t \in Transfers, AtWork(t), RunScript(t),
           captured' \in [Transfers -> NotCaptured .. Cardinality(Transfers)],
           UNCHANGED <<clock, observedAt, assessed>>
    PROVE  Inv'
<1>1. TypeOK'
  <2>1. /\ score' \in [Transfers -> -Skew .. MaxTime + Skew \cup {Gone}]
        /\ first' \in [Transfers -> -Skew .. MaxTime + Skew \cup {Gone}]
        /\ latest' \in [Transfers -> -Skew .. MaxTime + Skew \cup {Gone}]
    BY ScriptScores, ScriptHistory DEF Readings
  <2>2. expiry' \in 0 .. MaxTime + Window
    BY Numbers, GoneIsOld DEF RunScript, Inv
  <2> QED
    BY <2>1, <2>2 DEF Inv, TypeOK
<1>2. ReadingsOK'
    BY ScriptKeepsInv DEF Inv, ReadingsOK
<1> QED
    BY <1>1, <1>2, ScriptKeepsInv DEF Inv

(* A step of a handler that leaves Redis alone.                            *)
LEMMA HandlerStep ==
    ASSUME Inv, UNCHANGED <<clock, score, expiry, first, latest>>, TypeOK', ReadingsOK'
    PROVE  Inv'
BY DEF Inv, ScoresOK, KeyOutlives, NothingMissing, SurelyInWindow

(* A handler reads its clock, at most Skew ahead of Redis.                 *)
LEMMA StartStep == ASSUME Inv, NEW t \in Transfers, StartAssessment(t) PROVE Inv'
<1>1. PICK d \in -Skew .. Skew : observedAt' = [observedAt EXCEPT ![t] = clock + d]
    BY Zenon DEF StartAssessment
<1>2. clock + d \in Readings /\ clock + d <= clock + Skew
    BY Numbers, GoneIsOld DEF Inv, Readings
<1>3. observedAt \in [Transfers -> Readings \cup {Gone}]
    BY DEF Inv, TypeOK, Readings
<1>4. UNCHANGED <<clock, score, expiry, captured, assessed, first, latest>>
    BY DEF StartAssessment
<1>5. TypeOK'
  <2>1. observedAt' \in [Transfers -> -Skew .. MaxTime + Skew \cup {Gone}]
    BY <1>1, <1>2, <1>3 DEF Readings
  <2> QED
    BY <1>4, <2>1 DEF Inv, TypeOK
<1>6. ReadingsOK'
    BY <1>1, <1>2, <1>3, <1>4 DEF Inv, ReadingsOK
<1> QED
    BY <1>4, <1>5, <1>6, HandlerStep

(* A handler commits or rolls back.                                        *)
LEMMA EndStep ==
    ASSUME Inv, NEW t \in Transfers, EndHandler(t), assessed' \subseteq Transfers
    PROVE  Inv'
<1>1. TypeOK'
  <2>1. Cardinality(Transfers) \in Nat
    BY TransfersAssumption, FS_CardinalityType, Zenon
  <2>2. captured' \in [Transfers -> NotCaptured .. Cardinality(Transfers)]
    BY <2>1 DEF EndHandler, Inv, TypeOK, NotCaptured
  <2>3. observedAt' \in [Transfers -> -Skew .. MaxTime + Skew \cup {Gone}]
    BY DEF EndHandler, Inv, TypeOK
  <2> QED
    BY <2>2, <2>3 DEF EndHandler, Inv, TypeOK
<1>2. ReadingsOK'
    BY DEF EndHandler, Inv, TypeOK, ReadingsOK
<1> QED
    BY <1>1, <1>2, HandlerStep DEF EndHandler

(* The answer is lost, whether or not the script was executed.             *)
LEMMA FailStep == ASSUME Inv, NEW t \in Transfers, ObserveFails(t) PROVE Inv'
<1>1. Degraded \in 0 .. Cardinality(Transfers)
  <2>1. Cardinality(Transfers) \in Nat
    BY TransfersAssumption, FS_CardinalityType, Zenon
  <2> QED
    BY <2>1 DEF Degraded
<1>2. captured' \in [Transfers -> NotCaptured .. Cardinality(Transfers)]
    BY <1>1, CapturedType DEF ObserveFails
<1>3. CASE RunScript(t)
    BY <1>2, <1>3, ScriptStep, Zenon DEF ObserveFails
<1>4. CASE UNCHANGED <<score, expiry, first, latest>>
  <2>1. TypeOK' /\ ReadingsOK'
    BY <1>2, <1>4 DEF ObserveFails, Inv, TypeOK, ReadingsOK
  <2> QED
    BY <1>4, <2>1, HandlerStep DEF ObserveFails
<1> QED
    BY <1>3, <1>4 DEF ObserveFails

(* Every step keeps the invariant.                                         *)
LEMMA NextInv == Inv /\ [Next]_vars => Inv'
<1> SUFFICES ASSUME Inv, [Next]_vars PROVE Inv'
    OBVIOUS
<1>1. ASSUME NEW t \in Transfers, Observe(t) PROVE Inv'
  <2>1. captured' \in [Transfers -> NotCaptured .. Cardinality(Transfers)]
    BY <1>1, CapturedType, MembersCounted, Zenon DEF Observe
  <2> QED
    BY <1>1, <2>1, ScriptStep, Zenon DEF Observe
<1>2. ASSUME NEW t \in Transfers, Resend(t) PROVE Inv'
  <2>1. captured' \in [Transfers -> NotCaptured .. Cardinality(Transfers)]
    BY <1>2 DEF Resend, Inv, TypeOK
  <2> QED
    BY <1>2, <2>1, ScriptStep, Zenon DEF Resend
<1>3. ASSUME NEW t \in Transfers, CommitAssessment(t) \/ Rollback(t) PROVE Inv'
    BY <1>3, EndStep DEF CommitAssessment, Rollback, Inv, TypeOK
<1>4. CASE UNCHANGED vars
    BY <1>4 DEF vars, Inv, TypeOK, ReadingsOK, ScoresOK, KeyOutlives, NothingMissing,
                SurelyInWindow
<1> QED
    BY <1>1, <1>2, <1>3, <1>4, TickStep, StartStep, FailStep, Zenon DEF Next

(* The invariant holds in every state of the window and its handlers.      *)
THEOREM WindowInvariant == Spec => []Inv
BY InitInv, NextInv, PTL DEF Spec

(* Every state is of the declared types: what the script leaves in the     *)
(* sorted set are clock readings of handlers, and no count exceeds the     *)
(* number of transfers.                                                    *)
THEOREM TypesAreKept == Spec => []TypeOK
<1>1. Inv => TypeOK
    BY DEF Inv
<1> QED
    BY <1>1, WindowInvariant, PTL

------------------------------------------------------------------------------
(* The count.                                                              *)

(* The members lie between the two bounds, so their number does.           *)
LEMMA ObserveCounts ==
    ASSUME Inv, Inv', NEW t \in Transfers, Observe(t)
    PROVE  /\ Cardinality(SurelyInWindow') <= captured'[t]
           /\ captured'[t] <= Cardinality(PossiblyInWindow(observedAt[t])')
<1> DEFINE M == Members(score')
           S == SurelyInWindow'
           P == PossiblyInWindow(observedAt[t])'
<1>1. captured'[t] = Cardinality(M)
    BY DEF Observe, Inv, TypeOK
<1>2. S \subseteq M
    BY DEF Inv, NothingMissing, SurelyInWindow, Members
<1>3. M \subseteq P
  <2> SUFFICES ASSUME NEW u \in Transfers, score'[u] # Gone
               PROVE  latest'[u] > observedAt[t] - Window
    <3>1. observedAt' = observedAt
      BY DEF Observe
    <3> QED
      BY <3>1 DEF Members, PossiblyInWindow
  <2>1. AtWork(t) /\ RunScript(t)
    BY DEF Observe
  <2>2. /\ observedAt[t] \in Int /\ Window \in Int /\ Window > 0
        /\ score'[u] \in Int /\ latest'[u] \in Int /\ latest'[t] \in Int
        /\ score[u] \in Int
    <3>1. \A r \in Readings \cup {Gone} : r \in Int
      BY GoneIsOld
    <3> QED
      BY <2>1, <3>1, ScriptScores, ScriptHistory, NowIsReading, Numbers, GoneIsOld DEF Inv
  <2>3. score'[u] <= latest'[u]
    BY DEF Inv, ScoresOK
  <2>4. score'[u] > observedAt[t] - Window
    BY <2>1, <2>2, ScriptScores
  <2> QED
    BY <2>2, <2>3, <2>4
<1>4. IsFiniteSet(M) /\ IsFiniteSet(P)
    BY TransfersAssumption, FS_Subset DEF Members, PossiblyInWindow
<1> HIDE DEF M, S, P
<1>5. Cardinality(S) <= Cardinality(M) /\ Cardinality(M) <= Cardinality(P)
    BY <1>2, <1>3, <1>4, FS_Subset
<1> QED
    BY <1>1, <1>5 DEF S, P

(* A captured count is neither inflated nor short, for any number of       *)
(* transfers, any window, any skew and any interleaving of retries,        *)
(* failures, lost answers and expiries of the key.                         *)
THEOREM CountIsAlwaysOfTheWindow == Spec => CountIsOfTheWindow
<1>1. ASSUME Inv, Inv', [Next]_vars, NEW t \in Transfers,
             captured[t] = NotCaptured, captured'[t] > Degraded
      PROVE  /\ Cardinality(SurelyInWindow') <= captured'[t]
             /\ captured'[t] <= Cardinality(PossiblyInWindow(observedAt[t])')
  <2>1. captured \in [Transfers -> NotCaptured .. Cardinality(Transfers)]
    BY <1>1 DEF Inv, TypeOK
  <2>2. captured'[t] # captured[t] /\ captured'[t] # NotCaptured /\ captured'[t] # Degraded
    BY <1>1 DEF NotCaptured, Degraded
  <2>3. ASSUME NEW u \in Transfers, StartAssessment(u) \/ Resend(u) PROVE FALSE
    BY <2>2, <2>3 DEF StartAssessment, Resend
  <2>4. ASSUME NEW u \in Transfers, ObserveFails(u) PROVE FALSE
    BY <2>1, <2>2, <2>4 DEF ObserveFails
  <2>5. ASSUME NEW u \in Transfers, CommitAssessment(u) \/ Rollback(u) PROVE FALSE
    BY <2>1, <2>2, <2>5 DEF CommitAssessment, Rollback, EndHandler
  <2>6. ASSUME NEW u \in Transfers, Observe(u) PROVE Observe(t)
    BY <2>1, <2>2, <2>6, Zenon DEF Observe
  <2>7. CASE Tick \/ UNCHANGED vars
    BY <2>2, <2>7 DEF Tick, vars
  <2>8. Observe(t)
    BY <1>1, <2>3, <2>4, <2>5, <2>6, <2>7, <2>2, Zenon DEF Next, Tick, vars
  <2> QED
    BY <1>1, <2>8, ObserveCounts
<1>2. Inv /\ Inv' /\ [Next]_vars =>
         [\A t \in Transfers :
             captured[t] = NotCaptured /\ captured'[t] > Degraded =>
                 /\ Cardinality(SurelyInWindow') <= captured'[t]
                 /\ captured'[t] <= Cardinality(PossiblyInWindow(observedAt[t])')]_vars
    BY <1>1
<1> QED
    BY <1>2, WindowInvariant, PTL DEF Spec, CountIsOfTheWindow
==============================================================================
