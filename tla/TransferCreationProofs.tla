------------------------ MODULE TransferCreationProofs -----------------------
(***************************************************************************)
(* Proofs about TransferCreation, for any calls, keys, intents and number  *)
(* of attempts: creation implements the registry, and replays are stable.  *)
(***************************************************************************)
EXTENDS TransferCreation, TLAPS

StoredLifecycles == Lifecycles({"v1"})
Rows == StoredLifecycles \cup {Absent}

(* The phase of a call tells whether its own row exists and whether it has *)
(* been answered.                                                          *)
PhasesOK ==
    \A c \in Calls :
        /\ phase[c] \in {"idle", "ready", "open", "reserved"} => row[c] = Absent
        /\ phase[c] = "committed" => row[c] # Absent
        /\ phase[c] # "done" => answer[c] = NoAnswer

(* A key belongs to one stored row or one transaction that has inserted it.*)
KeysOK ==
    \A c, d \in Calls :
        (c # d /\ SameKey(c, d)) =>
            /\ ~(row[c] # Absent /\ row[d] # Absent)
            /\ ~(phase[c] = "reserved" /\ row[d] # Absent)
            /\ ~(phase[c] = "reserved" /\ phase[d] = "reserved")

(* Snapshots show only rows that are stored; rows are never deleted.       *)
SnapshotsOK ==
    \A c, d \in Calls : snapshot[c][d] # Absent => row[d] # Absent

(* A call of a key that was stored finds it stored, at least as new, and   *)
(* its open transaction sees it.                                           *)
FloorsOK ==
    \A c \in Calls : floor[c] > 0 =>
        /\ phase[c] \in {"ready", "open", "done"}
        /\ phase[c] \in {"ready", "open"} =>
              \E d \in Calls : /\ row[d] # Absent
                               /\ SameKey(c, d)
                               /\ row[d].version >= floor[c]
        /\ phase[c] = "open" =>
              \E d \in Calls : /\ snapshot[c][d] # Absent
                               /\ SameKey(c, d)
                               /\ snapshot[c][d].version >= floor[c]

Inv == TypeOK /\ PhasesOK /\ KeysOK /\ SnapshotsOK /\ FloorsOK /\ ReplayIsStable

------------------------------------------------------------------------------
(* What an answer rests on.                                                *)
Justified(c, a) ==
    /\ a \in Answers
    /\ a.kind # "none"
    /\ a.kind # "success" => a.transfer = "none"
    /\ a.kind = "success" =>
          \/ /\ phase[c] = "open"
             /\ a.transfer \in Calls
             /\ snapshot[c][a.transfer] # Absent
             /\ SameKey(c, a.transfer)
             /\ SameIntent(c, a.transfer)
             /\ c \notin Direct => a.version = snapshot[c][a.transfer].version
          \/ phase[c] = "committed" /\ a.transfer = c
    /\ a.kind = "conflict" =>
          /\ phase[c] = "open"
          /\ \E d \in Calls : /\ snapshot[c][d] # Absent
                              /\ SameKey(c, d)
                              /\ ~SameIntent(c, d)
    /\ a.kind = "invalid" => phase[c] = "idle"
    /\ a.kind = "refused" => phase[c] = "reserved"
    /\ a.kind = "exhausted" => phase[c] \in {"open", "reserved"}

Ends(c) ==
    /\ attempt' \in [Calls -> 0 .. MaxAttempts - 1]
    /\ snapshot' = snapshot \/ EndTransaction(c)
    /\ UNCHANGED <<row, floor>>

(* The call returns an answer.                                             *)
Finish(c, a) ==
    /\ phase[c] \in {"idle", "ready", "open", "reserved", "committed"}
    /\ Justified(c, a)
    /\ Goto(c, "done")
    /\ answer' = [answer EXCEPT ![c] = a]
    /\ Ends(c)

(* The call begins another attempt.                                        *)
GoBack(c) ==
    /\ phase[c] \in {"open", "reserved"}
    /\ Goto(c, "ready")
    /\ UNCHANGED answer
    /\ Ends(c)

(* A stored transfer gets its next version.                                *)
NewVersion(c, l) ==
    /\ row[c] # Absent
    /\ l \in StoredLifecycles
    /\ l.version = row[c].version + 1
    /\ row' = [row EXCEPT ![c] = l]
    /\ UNCHANGED <<phase, attempt, snapshot, answer, floor>>

(* A missing row is not mistaken for a stored lifecycle.                   *)
LEMMA AbsentIsNoLifecycle ==
    /\ Absent.status = "absent"
    /\ Absent.version = 0
    /\ \A l \in StoredLifecycles : l # Absent /\ l.version \in Nat
<1>1. Absent.status = "absent" /\ Absent.version = 0
    BY DEF Absent
<1>2. ASSUME NEW l \in StoredLifecycles PROVE l.status # "absent" /\ l.version \in Nat
    BY DEF StoredLifecycles, Lifecycles, Statuses
<1> QED
    BY <1>1, <1>2

(* A missing row counts as version 0.                                      *)
LEMMA RowsHaveVersions == \A l \in Rows : l.version \in Nat
    BY AbsentIsNoLifecycle DEF Rows

(* The row Create inserts is a lifecycle the table can hold.               *)
LEMMA NewRowIsStored == \A c \in Calls : NewRow(c) \in StoredLifecycles
    BY DEF NewRow, NewPendingLifecycle, NewCompletedLifecycle, StoredLifecycles,
           Lifecycles, Statuses, NoPolicy, NoEntry, OwnEntry, NoFailure

(* The rows and their types, taken out of TypeOK.                          *)
LEMMA Types ==
    ASSUME TypeOK
    PROVE  /\ row \in [Calls -> Rows]
           /\ snapshot \in [Calls -> [Calls -> Rows]]
           /\ attempt \in [Calls -> 0 .. MaxAttempts - 1]
           /\ answer \in [Calls -> Answers]
           /\ floor \in [Calls -> Nat]
           /\ phase \in [Calls -> {"idle", "ready", "open", "reserved",
                                   "committed", "done"}]
    BY DEF TypeOK, Rows, StoredLifecycles

(* A later step of a transfer stores a new version of its row.             *)
LEMMA AdvanceIsNewVersion ==
    ASSUME TypeOK, NEW c \in Calls, Advance(c)
    PROVE  \E l \in StoredLifecycles : NewVersion(c, l)
<1>1. row[c] \in Rows /\ row \in [Calls -> Rows]
    BY Types
<1>2. ASSUME NEW s \in Statuses, NEW j \in {NoEntry, OwnEntry},
             NEW f \in {NoFailure, InsufficientFunds}, row[c].status # "absent",
             row' = [row EXCEPT ![c] = Transition(row[c], s, j, f)]
      PROVE  \E l \in StoredLifecycles : NewVersion(c, l)
  <2>1. row[c] # Absent /\ row[c] \in StoredLifecycles
    BY <1>1, <1>2, AbsentIsNoLifecycle DEF Rows
  <2>2. row[c].version \in Nat /\ row[c].policy \in {"v1"} \cup {NoPolicy}
    BY <2>1 DEF StoredLifecycles, Lifecycles
  <2>3. /\ Transition(row[c], s, j, f) \in StoredLifecycles
        /\ Transition(row[c], s, j, f).version = row[c].version + 1
    BY <2>2 DEF Transition, StoredLifecycles, Lifecycles
  <2> QED
    BY <1>2, <2>1, <2>3, Zenon DEF NewVersion, Advance
<1>3. \E s \in Statuses, j \in {NoEntry, OwnEntry}, f \in {NoFailure, InsufficientFunds} :
         row[c].status # "absent" /\ row' = [row EXCEPT ![c] = Transition(row[c], s, j, f)]
    BY DEF Advance, CanApprove, CanRequireReview, CanDecline, CanComplete, CanFail,
           Approve, RequireReview, Decline, Complete, Fail, Statuses
<1> QED
    BY <1>2, <1>3, Zenon

------------------------------------------------------------------------------
(* A call that returns leaves its loop over the attempts.                  *)
LEMMA ReturnLeavesLoop ==
    ASSUME TypeOK, NEW c \in Calls, attempt' = [attempt EXCEPT ![c] = 0]
    PROVE  attempt' \in [Calls -> 0 .. MaxAttempts - 1]
<1>1. 0 \in 0 .. MaxAttempts - 1
    BY AttemptsAssumption
<1> QED
    BY <1>1, Types

(* A serialization failure starts the next attempt or ends the call.       *)
LEMMA RetryCases ==
    ASSUME TypeOK, NEW c \in Calls, phase[c] \in {"open", "reserved"}, Retry(c)
    PROVE  GoBack(c) \/ \E a \in Answers : Finish(c, a)
<1>0. attempt \in [Calls -> 0 .. MaxAttempts - 1] /\ MaxAttempts \in Nat
    BY Types, AttemptsAssumption
<1>1. CASE attempt[c] + 1 < MaxAttempts /\ NextAttempt(c)
  <2>1. attempt' \in [Calls -> 0 .. MaxAttempts - 1]
    BY <1>0, <1>1 DEF NextAttempt
  <2> QED
    BY <1>1, <2>1 DEF Retry, NextAttempt, GoBack, Ends
<1>2. CASE attempt[c] + 1 = MaxAttempts /\ Return(c, "exhausted", "none", 0)
  <2> DEFINE a == [kind |-> "exhausted", transfer |-> "none", version |-> 0]
  <2>1. attempt' \in [Calls -> 0 .. MaxAttempts - 1]
    BY <1>2, ReturnLeavesLoop DEF Return
  <2>2. Justified(c, a) /\ a \in Answers
    BY DEF Justified, Answers
  <2>3. Finish(c, a)
    BY <1>2, <2>1, <2>2 DEF Retry, Finish, Ends, Return
  <2> QED
    BY <2>2, <2>3
<1> QED
    BY <1>1, <1>2 DEF Retry

(* A replayed key ends the call with one of the answers.                   *)
LEMMA ReplayCases ==
    ASSUME TypeOK, NEW c \in Calls, Replay(c)
    PROVE  \E a \in Answers : Finish(c, a)
<1>1. PICK d \in Holders(snapshot[c], c) :
         \/ SameIntent(c, d) /\ Return(c, "success", d, VisibleVersion(c, d))
         \/ ~SameIntent(c, d) /\ Return(c, "conflict", "none", 0)
    BY DEF Replay
<1>2. /\ d \in Calls
      /\ snapshot[c][d] # Absent
      /\ SameKey(c, d)
      /\ snapshot[c][d] \in Rows
    BY Types DEF Holders
<1>3. VisibleVersion(c, d) \in Nat
    BY <1>2, RowsHaveVersions DEF VisibleVersion
<1>4. attempt' \in [Calls -> 0 .. MaxAttempts - 1]
    BY <1>1, ReturnLeavesLoop DEF Return
<1>5. CASE SameIntent(c, d) /\ Return(c, "success", d, VisibleVersion(c, d))
  <2> DEFINE a == [kind |-> "success", transfer |-> d, version |-> VisibleVersion(c, d)]
  <2>1. a \in Answers
    BY <1>2, <1>3 DEF Answers
  <2>2. c \notin Direct => a.version = snapshot[c][a.transfer].version
    BY DEF VisibleVersion
  <2>3. Justified(c, a)
    BY <1>2, <1>5, <2>1, <2>2 DEF Justified, Replay
  <2>4. Finish(c, a)
    BY <1>4, <1>5, <2>3 DEF Finish, Ends, Return, Replay
  <2> QED
    BY <2>1, <2>4
<1>6. CASE ~SameIntent(c, d) /\ Return(c, "conflict", "none", 0)
  <2> DEFINE a == [kind |-> "conflict", transfer |-> "none", version |-> 0]
  <2>1. a \in Answers
    BY DEF Answers
  <2>2. Justified(c, a)
    BY <1>2, <1>6, <2>1 DEF Justified, Replay
  <2>3. Finish(c, a)
    BY <1>4, <1>6, <2>2 DEF Finish, Ends, Return, Replay
  <2> QED
    BY <2>1, <2>3
<1> QED
    BY <1>1, <1>5, <1>6

(* Every other way to return is an end of the call.                        *)
LEMMA OtherAnswers ==
    ASSUME TypeOK, NEW c \in Calls,
           Reject(c) \/ Cancel(c) \/ Refuse(c) \/ ReturnCreated(c) \/ ConnectionLost(c)
    PROVE  \E a \in Answers : Finish(c, a)
<1>0. attempt' \in [Calls -> 0 .. MaxAttempts - 1]
    BY ReturnLeavesLoop DEF Reject, Cancel, Refuse, ReturnCreated, ConnectionLost, Return
<1>1. CASE Cancel(c) \/ ConnectionLost(c)
  <2> DEFINE a == [kind |-> "error", transfer |-> "none", version |-> 0]
  <2>1. a \in Answers /\ Justified(c, a)
    BY DEF Answers, Justified
  <2>2. Finish(c, a)
    BY <1>0, <1>1, <2>1 DEF Finish, Ends, Return, Cancel, ConnectionLost
  <2> QED
    BY <2>1, <2>2
<1>2. CASE Refuse(c)
  <2> DEFINE a == [kind |-> "refused", transfer |-> "none", version |-> 0]
  <2>1. a \in Answers /\ Justified(c, a)
    BY <1>2 DEF Answers, Justified, Refuse
  <2>2. Finish(c, a)
    BY <1>0, <1>2, <2>1 DEF Finish, Ends, Return, Refuse
  <2> QED
    BY <2>1, <2>2
<1>3. CASE ReturnCreated(c)
  <2> DEFINE v == IF c \in Direct THEN 0 ELSE NewRow(c).version
             a == [kind |-> "success", transfer |-> c, version |-> v]
  <2>1. v \in Nat
    BY NewRowIsStored, AbsentIsNoLifecycle
  <2> HIDE DEF v
  <2>2. a \in Answers /\ Justified(c, a)
    BY <1>3, <2>1 DEF Answers, Justified, ReturnCreated
  <2>3. answer' = [answer EXCEPT ![c] = a] /\ Goto(c, "done")
    BY <1>3 DEF ReturnCreated, Return, v
  <2>4. Finish(c, a)
    BY <1>0, <1>3, <2>2, <2>3 DEF Finish, Ends, ReturnCreated
  <2> QED
    BY <2>2, <2>4
<1>4. CASE Reject(c)
  <2> DEFINE a == [kind |-> "invalid", transfer |-> "none", version |-> 0]
  <2>1. a \in Answers /\ Justified(c, a)
    BY <1>4 DEF Answers, Justified, Reject
  <2>2. Finish(c, a)
    BY <1>0, <1>4, <2>1 DEF Finish, Ends, Return, Reject
  <2> QED
    BY <2>1, <2>2
<1> QED
    BY <1>1, <1>2, <1>3, <1>4

(* Every step is one of the kinds the invariant is shown for.              *)
LEMMA StepCases ==
    ASSUME TypeOK, Next
    PROVE  \E c \in Calls :
              \/ Call(c) \/ Begin(c) \/ Reserve(c) \/ Commit(c) \/ GoBack(c)
              \/ \E a \in Answers : Finish(c, a)
              \/ \E l \in StoredLifecycles : NewVersion(c, l)
    BY RetryCases, ReplayCases, OtherAnswers, AdvanceIsNewVersion
       DEF Next, Attempt, RetryHidden, SerializationFailure

------------------------------------------------------------------------------
(* The invariant.                                                          *)
LEMMA InitInv == Init => Inv
<1> SUFFICES ASSUME Init PROVE Inv
    OBVIOUS
<1>1. TypeOK
  <2>1. NoAnswer \in Answers
    BY DEF NoAnswer, Answers
  <2>2. 0 \in 0 .. MaxAttempts - 1
    BY AttemptsAssumption
  <2> QED
    BY <2>1, <2>2 DEF Init, TypeOK, Nothing
<1>2. PhasesOK /\ KeysOK /\ SnapshotsOK /\ FloorsOK /\ ReplayIsStable
    BY DEF Init, Nothing, PhasesOK, KeysOK, SnapshotsOK, FloorsOK, ReplayIsStable
<1> QED
    BY <1>1, <1>2 DEF Inv

(* A call that arrives has done nothing yet.                               *)
LEMMA CallStep ==
    ASSUME Inv, NEW c \in Calls, Call(c)
    PROVE  Inv'
<1> USE DEF Inv
<1>1. /\ row \in [Calls -> Rows] /\ floor \in [Calls -> Nat]
      /\ phase \in [Calls -> {"idle", "ready", "open", "reserved",
                              "committed", "done"}]
    BY Types
<1>2. /\ floor' \in [Calls -> Nat]
      /\ \A d \in Calls : d # c => floor'[d] = floor[d]
      /\ floor'[c] > 0 => \E d \in Calls : /\ row[d] # Absent
                                           /\ SameKey(c, d)
                                           /\ row[d].version >= floor'[c]
  <2>1. CASE Holders(row, c) = {} /\ floor' = floor
    BY <1>1, <2>1 DEF Call, FloorsOK
  <2>2. CASE \E d \in Holders(row, c) : floor' = [floor EXCEPT ![c] = row[d].version]
    <3>1. PICK d \in Holders(row, c) : floor' = [floor EXCEPT ![c] = row[d].version]
      BY <2>2, Zenon
    <3>2. row[d].version \in Nat /\ d \in Calls /\ row[d] # Absent /\ SameKey(c, d)
      BY <1>1, RowsHaveVersions DEF Holders
    <3> QED
      BY <1>1, <3>1, <3>2
  <2> QED
    BY <2>1, <2>2 DEF Call
<1>3. TypeOK'
    BY <1>1, <1>2 DEF Call, Goto, TypeOK
<1>4. PhasesOK'
    BY <1>1 DEF Call, Goto, PhasesOK
<1>5. KeysOK'
    BY <1>1 DEF Call, Goto, KeysOK
<1>6. SnapshotsOK'
    BY DEF Call, SnapshotsOK
<1>7. FloorsOK'
    BY <1>1, <1>2 DEF Call, Goto, FloorsOK
<1>8. ReplayIsStable'
    BY <1>1, <1>2 DEF Call, Goto, ReplayIsStable
<1> QED
    BY <1>3, <1>4, <1>5, <1>6, <1>7, <1>8

(* A new transaction has reserved nothing.                                 *)
LEMMA BeginStep ==
    ASSUME Inv, NEW c \in Calls, Begin(c)
    PROVE  Inv'
<1> USE DEF Inv
<1>1. /\ row \in [Calls -> Rows]
      /\ snapshot \in [Calls -> [Calls -> Rows]]
      /\ phase \in [Calls -> {"idle", "ready", "open", "reserved",
                              "committed", "done"}]
    BY Types
<1>3. TypeOK'
    BY <1>1 DEF Begin, Goto, TypeOK
<1>4. PhasesOK'
    BY <1>1 DEF Begin, Goto, PhasesOK
<1>5. KeysOK'
    BY <1>1 DEF Begin, Goto, KeysOK
<1>6. SnapshotsOK'
    BY <1>1 DEF Begin, SnapshotsOK
<1>7. FloorsOK'
    BY <1>1 DEF Begin, Goto, FloorsOK
<1>8. ReplayIsStable'
    BY <1>1 DEF Begin, Goto, ReplayIsStable
<1> QED
    BY <1>3, <1>4, <1>5, <1>6, <1>7, <1>8

(* A key is reserved by one transaction at a time.                         *)
LEMMA ReserveStep ==
    ASSUME Inv, NEW c \in Calls, Reserve(c)
    PROVE  Inv'
<1> USE DEF Inv
<1>1. phase \in [Calls -> {"idle", "ready", "open", "reserved",
                           "committed", "done"}]
    BY Types
<1>2. \A d \in Calls : SameKey(c, d) =>
         row[d] = Absent /\ (d # c => phase[d] # "reserved")
    BY DEF Reserve, Holders, InFlight
<1>3. TypeOK'
    BY <1>1 DEF Reserve, Goto, TypeOK
<1>4. PhasesOK'
    BY <1>1 DEF Reserve, Goto, PhasesOK
<1>5. KeysOK'
    BY <1>1, <1>2 DEF Reserve, Goto, KeysOK, SameKey
<1>6. SnapshotsOK'
    BY DEF Reserve, SnapshotsOK
<1>7. floor[c] > 0 => FALSE
    BY <1>2 DEF Reserve, FloorsOK
<1>8. FloorsOK'
    BY <1>1, <1>7 DEF Reserve, Goto, FloorsOK
<1>9. ReplayIsStable'
    BY <1>1 DEF Reserve, Goto, ReplayIsStable
<1> QED
    BY <1>3, <1>4, <1>5, <1>6, <1>8, <1>9

(* Ending a transaction, or keeping its snapshot, hides nothing stored.    *)
LEMMA EndedSnapshots ==
    ASSUME TypeOK, SnapshotsOK, NEW c \in Calls, UNCHANGED row,
           snapshot' = snapshot \/ EndTransaction(c)
    PROVE  /\ SnapshotsOK'
           /\ snapshot' \in [Calls -> [Calls -> Rows]]
           /\ \A d \in Calls : d # c => snapshot'[d] = snapshot[d]
<1>1. snapshot \in [Calls -> [Calls -> Rows]]
    BY Types
<1>2. Nothing \in [Calls -> Rows] /\ \A d \in Calls : Nothing[d] = Absent
    BY DEF Nothing, Rows
<1> QED
    BY <1>1, <1>2 DEF EndTransaction, SnapshotsOK

(* A rolled back transaction leaves no trace.                              *)
LEMMA GoBackStep ==
    ASSUME Inv, NEW c \in Calls, GoBack(c)
    PROVE  Inv'
<1> USE DEF Inv
<1>1. /\ row \in [Calls -> Rows]
      /\ phase \in [Calls -> {"idle", "ready", "open", "reserved",
                              "committed", "done"}]
    BY Types
<1>2. /\ SnapshotsOK'
      /\ snapshot' \in [Calls -> [Calls -> Rows]]
      /\ \A d \in Calls : d # c => snapshot'[d] = snapshot[d]
    BY EndedSnapshots DEF GoBack, Ends
<1>3. TypeOK'
    BY <1>1, <1>2 DEF GoBack, Ends, Goto, TypeOK, Rows, StoredLifecycles
<1>4. PhasesOK'
    BY <1>1 DEF GoBack, Ends, Goto, PhasesOK
<1>5. KeysOK'
    BY <1>1 DEF GoBack, Ends, Goto, KeysOK
<1>6. FloorsOK'
    BY <1>1, <1>2 DEF GoBack, Ends, Goto, FloorsOK
<1>7. ReplayIsStable'
    BY <1>1 DEF GoBack, Ends, Goto, ReplayIsStable
<1> QED
    BY <1>2, <1>3, <1>4, <1>5, <1>6, <1>7

(* A commit stores the key, the transfer and its first row together.       *)
LEMMA CommitStep ==
    ASSUME Inv, NEW c \in Calls, Commit(c)
    PROVE  Inv'
<1> USE DEF Inv
<1>1. /\ row \in [Calls -> Rows]
      /\ snapshot \in [Calls -> [Calls -> Rows]]
      /\ phase \in [Calls -> {"idle", "ready", "open", "reserved",
                              "committed", "done"}]
    BY Types
<1>2. NewRow(c) \in StoredLifecycles /\ NewRow(c) # Absent
    BY NewRowIsStored, AbsentIsNoLifecycle
<1>3. /\ row' \in [Calls -> Rows]
      /\ row'[c] # Absent
      /\ \A d \in Calls : d # c => row'[d] = row[d]
      /\ row[c] = Absent
    BY <1>1, <1>2 DEF Commit, PhasesOK, Rows
<1>4. /\ snapshot' \in [Calls -> [Calls -> Rows]]
      /\ \A d \in Calls : d # c => snapshot'[d] = snapshot[d]
      /\ \A d \in Calls : snapshot'[c][d] = Absent
    BY <1>1 DEF Commit, EndTransaction, Nothing, Rows
<1>5. TypeOK'
    BY <1>1, <1>3, <1>4 DEF Commit, Goto, TypeOK, Rows, StoredLifecycles
<1>6. PhasesOK'
    BY <1>1, <1>3 DEF Commit, Goto, PhasesOK
<1>7. KeysOK'
    BY <1>1, <1>3 DEF Commit, Goto, KeysOK, SameKey
<1>8. SnapshotsOK'
    BY <1>3, <1>4 DEF SnapshotsOK
<1>9. FloorsOK'
  <2> SUFFICES ASSUME NEW d \in Calls, floor[d] > 0
               PROVE  /\ d # c
                      /\ phase[d] \in {"ready", "open"} =>
                            \E e \in Calls : /\ row'[e] # Absent
                                             /\ SameKey(d, e)
                                             /\ row'[e].version >= floor[d]
    BY <1>1, <1>4 DEF Commit, Goto, FloorsOK
  <2>1. d # c
    BY DEF Commit, FloorsOK
  <2>2. ASSUME phase[d] \in {"ready", "open"}
        PROVE  \E e \in Calls : /\ row'[e] # Absent
                                /\ SameKey(d, e)
                                /\ row'[e].version >= floor[d]
    <3>1. PICK e \in Calls : /\ row[e] # Absent
                             /\ SameKey(d, e)
                             /\ row[e].version >= floor[d]
      BY <2>2 DEF FloorsOK
    <3>2. row'[e] = row[e]
      BY <1>3, <3>1
    <3> QED
      BY <3>1, <3>2
  <2> QED
    BY <2>1, <2>2
<1>10. ReplayIsStable'
    BY <1>1 DEF Commit, Goto, ReplayIsStable
<1> QED
    BY <1>5, <1>6, <1>7, <1>8, <1>9, <1>10

(* Later versions belong to transfers that exist.                          *)
LEMMA NewVersionStep ==
    ASSUME Inv, NEW c \in Calls, NEW l \in StoredLifecycles, NewVersion(c, l)
    PROVE  Inv'
<1> USE DEF Inv
<1>1. row \in [Calls -> Rows] /\ floor \in [Calls -> Nat]
    BY Types
<1>2. /\ row' \in [Calls -> Rows]
      /\ \A d \in Calls : row'[d] # Absent <=> row[d] # Absent
      /\ \A d \in Calls : row'[d].version >= row[d].version
  <2>1. l # Absent
    BY AbsentIsNoLifecycle
  <2>2. \A d \in Calls : row[d].version \in Nat
    BY <1>1, RowsHaveVersions
  <2> QED
    BY <1>1, <2>1, <2>2 DEF NewVersion, Rows
<1>3. TypeOK'
    BY <1>2 DEF NewVersion, TypeOK, Rows, StoredLifecycles
<1>4. PhasesOK' /\ KeysOK' /\ SnapshotsOK' /\ ReplayIsStable'
    BY <1>2 DEF NewVersion, PhasesOK, KeysOK, SnapshotsOK, ReplayIsStable
<1>5. FloorsOK'
  <2>1. \A d \in Calls : row[d].version \in Nat /\ row'[d].version \in Nat
    BY <1>1, <1>2, RowsHaveVersions
  <2> QED
    BY <1>1, <1>2, <2>1 DEF NewVersion, FloorsOK
<1> QED
    BY <1>3, <1>4, <1>5

(* A return changes nothing but the answer.                                *)
LEMMA FinishStep ==
    ASSUME Inv, NEW c \in Calls, NEW a \in Answers, Finish(c, a)
    PROVE  Inv'
<1> USE DEF Inv
<1>1. /\ row \in [Calls -> Rows]
      /\ answer \in [Calls -> Answers]
      /\ phase \in [Calls -> {"idle", "ready", "open", "reserved",
                              "committed", "done"}]
    BY Types
<1>2. /\ SnapshotsOK'
      /\ snapshot' \in [Calls -> [Calls -> Rows]]
      /\ \A d \in Calls : d # c => snapshot'[d] = snapshot[d]
    BY EndedSnapshots DEF Finish, Ends
<1>3. TypeOK'
    BY <1>1, <1>2 DEF Finish, Ends, Goto, TypeOK, Rows, StoredLifecycles
<1>4. PhasesOK'
    BY <1>1 DEF Finish, Ends, Goto, PhasesOK
<1>5. KeysOK'
    BY <1>1 DEF Finish, Ends, Goto, KeysOK
<1>6. FloorsOK'
    BY <1>1, <1>2 DEF Finish, Ends, Goto, FloorsOK
<1>7. ASSUME floor[c] > 0
      PROVE  /\ a.kind # "refused"
             /\ a.kind = "success" => a.transfer # c
             /\ a.kind = "success" /\ c \notin Direct => a.version >= floor[c]
  <2>1. phase[c] \in {"ready", "open"}
    BY <1>7 DEF Finish, FloorsOK
  <2>2. a.kind # "refused"
    BY <2>1 DEF Finish, Justified
  <2>3. ASSUME a.kind = "success"
        PROVE  a.transfer # c
    <3>1. a.transfer \in Calls /\ snapshot[c][a.transfer] # Absent
      BY <2>1, <2>3 DEF Finish, Justified
    <3>2. row[a.transfer] # Absent /\ row[c] = Absent
      BY <2>1, <3>1 DEF SnapshotsOK, PhasesOK
    <3> QED
      BY <3>2
  <2>4. ASSUME a.kind = "success", c \notin Direct
        PROVE  a.version >= floor[c]
    <3>1. /\ phase[c] = "open"
          /\ a.transfer \in Calls
          /\ snapshot[c][a.transfer] # Absent
          /\ SameKey(c, a.transfer)
          /\ a.version = snapshot[c][a.transfer].version
      BY <2>1, <2>4 DEF Finish, Justified
    <3>2. PICK d \in Calls : /\ snapshot[c][d] # Absent
                             /\ SameKey(c, d)
                             /\ snapshot[c][d].version >= floor[c]
      BY <1>7, <3>1 DEF FloorsOK
    <3>3. row[d] # Absent /\ row[a.transfer] # Absent
      BY <3>1, <3>2 DEF SnapshotsOK
    <3>4. d = a.transfer
      BY <3>1, <3>2, <3>3, Zenon DEF KeysOK, SameKey
    <3> QED
      BY <3>1, <3>2, <3>4
  <2> QED
    BY <2>2, <2>3, <2>4
<1>8. ReplayIsStable'
    BY <1>1, <1>7 DEF Finish, Ends, Goto, ReplayIsStable
<1> QED
    BY <1>2, <1>3, <1>4, <1>5, <1>6, <1>8

(* The invariant does not depend on anything else.                         *)
LEMMA StutterStep == Inv /\ UNCHANGED vars => Inv'
    BY DEF Inv, vars, TypeOK, PhasesOK, KeysOK, SnapshotsOK, FloorsOK, ReplayIsStable

(* Whatever the attempts, their retries and the workers do, keys stay      *)
(* unique and the snapshots and floors of the calls stay consistent.       *)
THEOREM CreationInvariant == Spec => []Inv
<1>1. Inv /\ [Next]_vars => Inv'
  <2>1. ASSUME Inv, Next PROVE Inv'
    <3>1. TypeOK
      BY <2>1 DEF Inv
    <3> QED
      BY <2>1, <3>1, StepCases, CallStep, BeginStep, ReserveStep, CommitStep,
         GoBackStep, FinishStep, NewVersionStep
  <2> QED
    BY <2>1, StutterStep
<1> QED
    BY <1>1, InitInv, PTL DEF Spec

(* Every state is of the declared types: rows, snapshots and answers of    *)
(* any number of concurrent attempts.                                      *)
THEOREM TypesAreKept == Spec => []TypeOK
<1>1. Inv => TypeOK
    BY DEF Inv
<1> QED
    BY <1>1, CreationInvariant, PTL

(* A call of a key that was stored before it is never refused, never       *)
(* succeeds with a transfer of its own, and CreatePending never answers it *)
(* with a lifecycle older than the one stored at the call.                 *)
THEOREM ReplayIsAlwaysStable == Spec => []ReplayIsStable
<1>1. Inv => ReplayIsStable
    BY DEF Inv
<1> QED
    BY <1>1, CreationInvariant, PTL

------------------------------------------------------------------------------
(* The refinement.                                                         *)
stored == {c \in Calls : row[c] # Absent}
told == [c \in Calls |-> [kind |-> answer[c].kind, transfer |-> answer[c].transfer]]

RegistryStutter == stored' = stored /\ told' = told

(* All steps before a commit or a return are invisible to the registry.    *)
LEMMA QuietSteps ==
    ASSUME Inv, NEW c \in Calls,
           \/ Call(c) \/ Begin(c) \/ Reserve(c) \/ GoBack(c)
           \/ \E l \in StoredLifecycles : NewVersion(c, l)
    PROVE  RegistryStutter
<1>1. answer' = answer
    BY DEF Call, Begin, Reserve, GoBack, NewVersion
<1>2. \A d \in Calls : row'[d] # Absent <=> row[d] # Absent
  <2>1. CASE Call(c) \/ Begin(c) \/ Reserve(c) \/ GoBack(c)
    BY <2>1 DEF Call, Begin, Reserve, GoBack, Ends
  <2>2. ASSUME NEW l \in StoredLifecycles, NewVersion(c, l)
        PROVE  \A d \in Calls : row'[d] # Absent <=> row[d] # Absent
    <3>1. row \in [Calls -> Rows] /\ l # Absent
      BY Types, AbsentIsNoLifecycle DEF Inv
    <3> QED
      BY <2>2, <3>1 DEF NewVersion
  <2> QED
    BY <2>1, <2>2
<1> QED
    BY <1>1, <1>2 DEF RegistryStutter, stored, told

(* A commit is the one atomic step that registers the transfer.            *)
LEMMA CommitIsStore ==
    ASSUME Inv, NEW c \in Calls, Commit(c)
    PROVE  Registry!Store(c)
<1>1. row \in [Calls -> Rows] /\ NewRow(c) # Absent
    BY Types, NewRowIsStored, AbsentIsNoLifecycle DEF Inv
<1>2. stored' = stored \cup {c} /\ told' = told
    BY <1>1 DEF Commit, stored, told
<1>3. \A d \in stored : ~Registry!SameKey(c, d)
    BY DEF Commit, Inv, KeysOK, PhasesOK, stored, SameKey, Registry!SameKey
<1>4. told[c] = Registry!NoAnswer
    BY DEF Commit, Inv, PhasesOK, told, NoAnswer, Registry!NoAnswer
<1> QED
    BY <1>2, <1>3, <1>4 DEF Registry!Store, stored, told

(* Every return is a reply of the registry.                                *)
LEMMA FinishIsReply ==
    ASSUME Inv, NEW c \in Calls, NEW a \in Answers, Finish(c, a)
    PROVE  Registry!Reply(c)
<1> DEFINE b == [kind |-> a.kind, transfer |-> a.transfer]
<1>1. b \in Registry!Answers
    BY DEF Finish, Justified, Answers, Registry!Answers
<1>2. told[c] = Registry!NoAnswer
    BY DEF Finish, Inv, PhasesOK, told, NoAnswer, Registry!NoAnswer
<1>3. stored' = stored
    BY DEF Finish, Ends, stored
<1>4. told' = [told EXCEPT ![c] = b]
  <2>1. answer \in [Calls -> Answers] /\ answer' = [answer EXCEPT ![c] = a]
    BY Types DEF Inv, Finish
  <2> QED
    BY <2>1, Zenon DEF told
<1>5. a.kind \in {"success", "conflict", "invalid", "refused", "exhausted", "error"}
    BY DEF Finish, Justified, Answers
<1>6. Registry!Truthful(c, b)
  <2>1. CASE a.kind = "success"
    <3>1. a.transfer \in stored
      BY <2>1 DEF Finish, Justified, Inv, SnapshotsOK, PhasesOK, stored
    <3>2. Registry!SameKey(c, a.transfer) /\ Registry!SameIntent(c, a.transfer)
      BY <2>1 DEF Finish, Justified, SameKey, SameIntent, Registry!SameKey, Registry!SameIntent
    <3> QED
      BY <2>1, <3>1, <3>2 DEF Registry!Truthful, stored
  <2>2. CASE a.kind = "conflict"
    <3>1. \E d \in stored : Registry!SameKey(c, d) /\ ~Registry!SameIntent(c, d)
      BY <2>2 DEF Finish, Justified, Inv, SnapshotsOK, stored, SameKey, SameIntent,
                  Registry!SameKey, Registry!SameIntent
    <3> QED
      BY <2>2, <3>1 DEF Registry!Truthful, stored
  <2>3. CASE a.kind \in {"invalid", "refused", "exhausted"}
    <3>1. c \notin stored
      BY <2>3 DEF Finish, Justified, Inv, PhasesOK, stored
    <3> QED
      BY <2>3, <3>1 DEF Registry!Truthful, stored
  <2>4. CASE a.kind = "error"
    BY <2>4 DEF Registry!Truthful
  <2> QED
    BY <1>5, <2>1, <2>2, <2>3, <2>4
<1> QED
    BY <1>1, <1>2, <1>3, <1>4, <1>6, Zenon DEF Registry!Reply, stored, told

(* The attempts of createOnce and createPendingOnce implement the atomic   *)
(* registry: each key is stored at most once and every answer is true.     *)
THEOREM CreationImplementsRegistry == Spec => ImplementsRegistry
<1>1. Init => Registry!Init
    BY DEF Init, Registry!Init, NoAnswer, Registry!NoAnswer
<1>2. Inv /\ [Next]_vars => [Registry!Next]_(Registry!vars)
  <2>1. ASSUME Inv, Next PROVE Registry!Next \/ RegistryStutter
    <3>1. TypeOK
      BY <2>1 DEF Inv
    <3> QED
      BY <2>1, <3>1, StepCases, QuietSteps, CommitIsStore, FinishIsReply
         DEF Registry!Next
  <2>2. ASSUME UNCHANGED vars PROVE RegistryStutter
    BY <2>2 DEF vars, RegistryStutter, stored, told
  <2> QED
    BY <2>1, <2>2 DEF Registry!vars, RegistryStutter, stored, told
<1> QED
    BY <1>1, <1>2, CreationInvariant, PTL DEF Spec, ImplementsRegistry, Registry!Spec
==============================================================================
