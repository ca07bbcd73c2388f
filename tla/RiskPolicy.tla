----------------------------- MODULE RiskPolicy ------------------------------
(***************************************************************************)
(* The deterministic risk policy of internal/risk/domain/policy.go.  A     *)
(* policy maps the currencies it knows to their thresholds; Evaluate turns *)
(* a captured input into a score and a decision.  Signals are left out:    *)
(* each rule emits one signal, which the score and the decision determine. *)
(***************************************************************************)
EXTENDS Integers

Decisions == {"approve", "review", "decline"}

Thresholds == [review : Nat, decline : Nat, velocity : Nat]

ValidPolicy(policy) ==
    /\ DOMAIN policy # {}
    /\ \A c \in DOMAIN policy :
          /\ policy[c] \in Thresholds
          /\ policy[c].review > 0
          /\ policy[c].decline >= policy[c].review

RequiresVelocity(policy) == \E c \in DOMAIN policy : policy[c].velocity > 0

Evaluation(score, decision) == [score |-> score, decision |-> decision]

Evaluate(policy, input) ==
    IF input.currency \notin DOMAIN policy
    THEN Evaluation(IF input.degraded THEN 700 ELSE 500, "review")
    ELSE LET limit == policy[input.currency] IN
         IF input.amount >= limit.decline THEN Evaluation(1000, "decline")
         ELSE IF input.degraded THEN Evaluation(700, "review")
         ELSE IF limit.velocity > 0 /\ input.count >= limit.velocity
              THEN Evaluation(700, "review")
         ELSE IF input.amount >= limit.review THEN Evaluation(600, "review")
         ELSE Evaluation(0, "approve")
==============================================================================
