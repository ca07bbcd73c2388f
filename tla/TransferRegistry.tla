--------------------------- MODULE TransferRegistry --------------------------
(***************************************************************************)
(* What the transfer repository promises its callers, with no transaction, *)
(* snapshot or retry: a registry of transfers in which every requester and *)
(* idempotency key is used once.  A call may store its transfer while its  *)
(* key is unused, and is answered once, with the truth.                    *)
(***************************************************************************)
CONSTANTS
    Calls,       \* calls of Create and CreatePending; a call stands for the
                 \* transfer whose ID the server assigned to it
    KeyOf,       \* requester and idempotency key of a call
    IntentOf     \* source, destination and amount of a call

VARIABLES
    stored,      \* the calls whose transfer is in the registry
    answer       \* what every call has been told

vars == <<stored, answer>>

(* Only a success names a transfer.                                        *)
Answers ==
    [kind : {"success"}, transfer : Calls] \cup
    [kind : {"conflict", "invalid", "refused", "exhausted", "error"},
     transfer : {"none"}]

NoAnswer == [kind |-> "none", transfer |-> "none"]

Init ==
    /\ stored = {}
    /\ answer = [c \in Calls |-> NoAnswer]

SameKey(c, d) == KeyOf[c] = KeyOf[d]
SameIntent(c, d) == IntentOf[c] = IntentOf[d]

Store(c) ==
    /\ answer[c] = NoAnswer
    /\ \A d \in stored : ~SameKey(c, d)
    /\ stored' = stored \cup {c}
    /\ UNCHANGED answer

(* Success names a transfer of the registry with the caller's key and      *)
(* intent; a conflict means that the key's transfer has another intent; an *)
(* invalid argument, a refusal, or retries that are exhausted, mean that   *)
(* the call stored nothing.  An error says nothing: the caller must ask    *)
(* again.                                                                  *)
Truthful(c, a) ==
    \/ /\ a.kind = "success"
       /\ a.transfer \in stored
       /\ SameKey(c, a.transfer)
       /\ SameIntent(c, a.transfer)
    \/ a.kind = "conflict" /\ \E d \in stored : SameKey(c, d) /\ ~SameIntent(c, d)
    \/ a.kind \in {"invalid", "refused", "exhausted"} /\ c \notin stored
    \/ a.kind = "error"

Reply(c) ==
    /\ answer[c] = NoAnswer
    /\ UNCHANGED stored
    /\ \E a \in Answers :
          /\ answer' = [answer EXCEPT ![c] = a]
          /\ Truthful(c, a)

Next == \E c \in Calls : Store(c) \/ Reply(c)

Spec == Init /\ [][Next]_vars
==============================================================================
