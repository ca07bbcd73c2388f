---------------------------- MODULE VelocityWindow ---------------------------
(***************************************************************************)
(* The sliding window of internal/risk/redis/velocity.go for one source    *)
(* account, and the risk handler's use of it: the handler reads its clock, *)
(* asks Redis to observe the transfer, and commits or rolls back.  A       *)
(* rolled-back transfer is assessed again later.  The script is atomic;    *)
(* anything may happen between the clock reading and its execution, and    *)
(* the workers' clocks differ from the one of Redis by up to Skew.         *)
(***************************************************************************)
EXTENDS Integers, FiniteSets

CONSTANTS
    Transfers,    \* transfers of one source account
    Window,       \* the configured window, in milliseconds
    Skew,         \* how far a worker's clock may be off
    MaxTime       \* bound on the modelled time

ASSUME WindowAssumption    == Window \in Nat \ {0}
ASSUME ClockAssumption     == Skew \in Nat /\ MaxTime \in Nat
ASSUME TransfersAssumption == IsFiniteSet(Transfers)

VARIABLES
    clock,        \* the clock of Redis
    score,        \* the sorted set: score of each member, or Gone
    expiry,       \* when the key expires
    observedAt,   \* clock reading of the handler at work on a transfer
    captured,     \* what that handler captured
    assessed,     \* transfers whose assessment is committed
    first,        \* history: the earliest observation of a transfer
    latest        \* history: the latest observation of a transfer

vars == <<clock, score, expiry, observedAt, captured, assessed, first, latest>>

(* Older than any reading and any window.                                  *)
Gone == -Skew - Window - 1
NotCaptured == -1
Degraded == 0

Init ==
    /\ clock = 0
    /\ score = [t \in Transfers |-> Gone]
    /\ expiry = 0
    /\ observedAt = [t \in Transfers |-> Gone]
    /\ captured = [t \in Transfers |-> NotCaptured]
    /\ assessed = {}
    /\ first = [t \in Transfers |-> Gone]
    /\ latest = [t \in Transfers |-> Gone]

Tick ==
    /\ clock < MaxTime
    /\ clock' = clock + 1
    /\ score' = IF clock + 1 >= expiry THEN [t \in Transfers |-> Gone] ELSE score
    /\ UNCHANGED <<expiry, observedAt, captured, assessed, first, latest>>

(* The transfer is locked and pending; assessedAt := h.now().              *)
StartAssessment(t) ==
    /\ t \notin assessed
    /\ observedAt[t] = Gone
    /\ \E d \in -Skew .. Skew : observedAt' = [observedAt EXCEPT ![t] = clock + d]
    /\ UNCHANGED <<clock, score, expiry, captured, assessed, first, latest>>

(* Mutant: a member exactly one window old is kept.                        *)
TrimExclusive(s, now) == [t \in Transfers |-> IF s[t] < now - Window THEN Gone ELSE s[t]]

(* ZREMRANGEBYSCORE -inf (now - window).                                   *)
Trim(s, now) == [t \in Transfers |-> IF s[t] <= now - Window THEN Gone ELSE s[t]]

(* Mutant: the score is when the member leaves the window.                 *)
AddUntil(s, t, now) == IF s[t] = Gone THEN [s EXCEPT ![t] = now + Window] ELSE s

(* ZADD NX: a member keeps its score.                                      *)
Add(s, t, now) == IF s[t] = Gone THEN [s EXCEPT ![t] = now] ELSE s

Members(s) == {t \in Transfers : s[t] # Gone}

(* velocityScript, with the time-to-live it sets.                          *)
RunScript(t) ==
    LET now == observedAt[t] IN
    /\ score' = Add(Trim(score, now), t, now)
    /\ expiry' = clock + Window
    /\ first' = [first EXCEPT ![t] = IF @ = Gone \/ now < @ THEN now ELSE @]
    /\ latest' = [latest EXCEPT ![t] = IF now > @ THEN now ELSE @]

AtWork(t) == observedAt[t] # Gone /\ captured[t] = NotCaptured

(* The client gets no answer and sends the command again, within the same  *)
(* call of Eval.  How often it does so, with MaxRetries 0, is the          *)
(* library's choice; here it is any number of times.                       *)
Resend(t) ==
    /\ AtWork(t)
    /\ RunScript(t)
    /\ UNCHANGED <<clock, observedAt, captured, assessed>>

Observe(t) ==
    /\ AtWork(t)
    /\ RunScript(t)
    /\ captured' = [captured EXCEPT ![t] = Cardinality(Members(score'))]
    /\ UNCHANGED <<clock, observedAt, assessed>>

(* Redis does not answer, before or after it has executed the script: the  *)
(* handler captures VelocityDegraded.                                      *)
ObserveFails(t) ==
    /\ AtWork(t)
    /\ RunScript(t) \/ UNCHANGED <<score, expiry, first, latest>>
    /\ captured' = [captured EXCEPT ![t] = Degraded]
    /\ UNCHANGED <<clock, observedAt, assessed>>

EndHandler(t) ==
    /\ observedAt' = [observedAt EXCEPT ![t] = Gone]
    /\ captured' = [captured EXCEPT ![t] = NotCaptured]
    /\ UNCHANGED <<clock, score, expiry, first, latest>>

CommitAssessment(t) ==
    /\ captured[t] # NotCaptured
    /\ assessed' = assessed \cup {t}
    /\ EndHandler(t)

(* The transaction fails or the worker dies; the record comes again.       *)
Rollback(t) ==
    /\ observedAt[t] # Gone
    /\ UNCHANGED assessed
    /\ EndHandler(t)

Next ==
    \/ Tick
    \/ \E t \in Transfers :
          \/ StartAssessment(t) \/ Resend(t) \/ Observe(t) \/ ObserveFails(t)
          \/ CommitAssessment(t) \/ Rollback(t)

Spec == Init /\ [][Next]_vars

------------------------------------------------------------------------------
(* Type correctness; scores are clock readings.                            *)
TypeOK ==
    LET Readings == -Skew .. MaxTime + Skew IN
    /\ clock \in 0 .. MaxTime
    /\ score \in [Transfers -> Readings \cup {Gone}]
    /\ expiry \in 0 .. MaxTime + Window
    /\ observedAt \in [Transfers -> Readings \cup {Gone}]
    /\ captured \in [Transfers -> NotCaptured .. Cardinality(Transfers)]
    /\ assessed \subseteq Transfers
    /\ first \in [Transfers -> Readings \cup {Gone}]
    /\ latest \in [Transfers -> Readings \cup {Gone}]

SurelyInWindow == {t \in Transfers : first[t] > clock - Window + Skew}

PossiblyInWindow(now) == {t \in Transfers : latest[t] > now - Window}

(* The count that Observe captures is never inflated and never short: it   *)
(* counts a transfer at most once however often it was retried or its      *)
(* command sent again, and only if some observation of it lies in the      *)
(* window; and it counts every transfer whose observations all lie in the  *)
(* window by the clock of Redis, whatever was trimmed or expired           *)
(* meanwhile.                                                              *)
CountIsOfTheWindow ==
    [][\A t \in Transfers :
          captured[t] = NotCaptured /\ captured'[t] > Degraded =>
              /\ Cardinality(SurelyInWindow') <= captured'[t]
              /\ captured'[t] <= Cardinality(PossiblyInWindow(observedAt[t])')]_vars
==============================================================================
