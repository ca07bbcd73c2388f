---------------------------- MODULE ReviewAdapter ----------------------------
(***************************************************************************)
(* The HTTP adapter for review decisions and its rate limiter, of          *)
(* internal/adapter/http/reviewdecision.  Goroutines serve requests        *)
(* concurrently.  Each one authenticates its request, reads the clock, and *)
(* only then takes the limiter's lock, so that the limiter can meet clock  *)
(* readings out of order.  What is admitted goes on to the review case     *)
(* (TransferPipeline's Decide).                                            *)
(*                                                                         *)
(* Bucket levels are measured in time: a token is worth Interval units,    *)
(* and a bucket that holds Burst tokens is full at Capacity.               *)
(***************************************************************************)
EXTENDS Integers, FiniteSets

CONSTANTS
    Goroutines,     \* the goroutines of the HTTP server
    Subjects,       \* the subjects that hold a token the identity provider verifies
    Analysts,       \* those whose verified roles include analyst
    Interval,       \* the time in which a token is earned
    Burst,          \* l.burst
    IdleTTL,        \* principalIdleTTL
    MaxPrincipals,  \* maxTrackedPrincipals
    MaxDelay,       \* bound on the time between reading the clock and locking
    MaxTime,        \* bound on the modelled time
    MaxEvictions    \* bound on the modelled evictions of a subject

Capacity == Burst * Interval

(* A bucket fills within a minute at every permitted rate, the TTL is 15.  *)
ASSUME TTLAssumption == IdleTTL >= Capacity + 2 * MaxDelay
ASSUME PrincipalsAssumption == MaxPrincipals \in Nat \ {0}
ASSUME RatesAssumption ==
    Interval \in Nat /\ Burst \in Nat \ {0} /\ IdleTTL \in Nat /\ MaxDelay \in Nat

VARIABLES
    clock,      \* time.Now
    request,    \* the request a goroutine holds between now() and Unlock
    entries,    \* l.entries: the bucket and lastSeen of each tracked subject
    nextGC,     \* l.nextGC
    spent,      \* history: Interval for every request admitted of a subject
    late,       \* history: those with a reading older than the bucket's last one
    evicted     \* history: how often a subject's bucket was evicted

vars == <<clock, request, entries, nextGC, spent, late, evicted>>

NoRequest == [subject |-> "none", now |-> 0]
Waiting == {g \in Goroutines : request[g] # NoRequest}

Untracked == [tracked |-> FALSE, level |-> 0, last |-> 0, lastSeen |-> 0]

(* rate.NewLimiter: a full bucket. *)
NewLimiter == [Untracked EXCEPT !.tracked = TRUE, !.level = Capacity]

Tracked(es) == {s \in Subjects : es[s].tracked}

Init ==
    /\ clock = 0
    /\ request = [g \in Goroutines |-> NoRequest]
    /\ entries = [s \in Subjects |-> Untracked]
    /\ nextGC = 0
    /\ spent = [s \in Subjects |-> 0]
    /\ late = [s \in Subjects |-> 0]
    /\ evicted = [s \in Subjects |-> 0]

Tick ==
    /\ clock < MaxTime
    /\ \A g \in Waiting : clock - request[g].now < MaxDelay
    /\ clock' = clock + 1
    /\ UNCHANGED <<request, entries, nextGC, spent, late, evicted>>

(* ServeHTTP up to Allow's clock reading.  A missing, invalid or           *)
(* unverifiable token, or one without the role, is answered at once.       *)
Authenticate(g, s) ==
    /\ request[g] = NoRequest
    /\ s \in Analysts
    /\ request' = [request EXCEPT ![g] = [subject |-> s, now |-> clock]]
    /\ UNCHANGED <<clock, entries, nextGC, spent, late, evicted>>

(* Mutant: idle for less than the TTL. *)
RemoveIdleEarly(t) ==
    [s \in Subjects |->
        IF entries[s].tracked /\ t - entries[s].lastSeen >= IdleTTL - Capacity
        THEN Untracked ELSE entries[s]]

(* removeIdle, when it is due at t. *)
RemoveIdle(t) ==
    [s \in Subjects |->
        IF entries[s].tracked /\ t - entries[s].lastSeen >= IdleTTL
        THEN Untracked ELSE entries[s]]

Collected(t) == IF t < nextGC THEN entries ELSE RemoveIdle(t)

(* Mutant: the map is full one entry too late. *)
VictimsLate(es, s) ==
    IF es[s].tracked \/ Cardinality(Tracked(es)) # MaxPrincipals + 1 THEN {}
    ELSE {v \in Tracked(es) : \A u \in Tracked(es) : es[v].lastSeen <= es[u].lastSeen}

(* removeOldest, before s is entered into a full map: among the least      *)
(* recently seen the iteration order of the map decides.                   *)
Victims(es, s) ==
    IF es[s].tracked \/ Cardinality(Tracked(es)) # MaxPrincipals THEN {}
    ELSE {v \in Tracked(es) : \A u \in Tracked(es) : es[v].lastSeen <= es[u].lastSeen}

(* Mutant: a new limiter on every call. *)
EntryAlwaysNew(es, s) == NewLimiter

Entry(es, s) == IF es[s].tracked THEN es[s] ELSE NewLimiter

(* What the bucket holds at t: a time before its last one earns nothing.   *)
Level(e, t) ==
    LET earned == e.level + (IF t < e.last THEN 0 ELSE t - e.last)
    IN  IF earned < Capacity THEN earned ELSE Capacity

Admits(e, t) == Level(e, t) >= Interval

(* AllowN(t, 1): a denied request leaves the bucket alone. *)
AllowN(e, t) ==
    IF Admits(e, t)
    THEN [e EXCEPT !.level = Level(e, t) - Interval, !.last = t]
    ELSE e

(* What AllowN admits, and whether it sets the bucket back in time, which  *)
(* earns the time from t to e.last once more.                              *)
Cost(e, t) == IF Admits(e, t) THEN Interval ELSE 0
IsLate(e, t) == Admits(e, t) /\ t < e.last

(* Allow, from Lock to Unlock: collect idle entries if that is due, make   *)
(* room for a new subject, and take a token from the subject's bucket.     *)
Allow(g) ==
    /\ g \in Waiting
    /\ LET s == request[g].subject
           t == request[g].now
           es == Collected(t)
           e == Entry(es, s)
       IN  \E victims \in IF Victims(es, s) = {} THEN {{}} ELSE {{v} : v \in Victims(es, s)} :
              /\ \A v \in victims : evicted[v] < MaxEvictions
              /\ entries' = [u \in Subjects |->
                               IF u = s THEN [AllowN(e, t) EXCEPT !.lastSeen = t]
                               ELSE IF u \in victims THEN Untracked ELSE es[u]]
              /\ nextGC' = IF t < nextGC THEN nextGC ELSE t + IdleTTL
              /\ spent' = [spent EXCEPT ![s] = @ + Cost(e, t)]
              /\ late' = [late EXCEPT ![s] = IF IsLate(e, t) THEN @ + 1 ELSE @]
              /\ evicted' = [u \in Subjects |->
                               IF u \in victims THEN evicted[u] + 1 ELSE evicted[u]]
    /\ request' = [request EXCEPT ![g] = NoRequest]
    /\ UNCHANGED clock

Next ==
    \/ Tick
    \/ \E g \in Goroutines : Allow(g) \/ \E s \in Subjects : Authenticate(g, s)

Spec == Init /\ [][Next]_vars

(* The limiter keeps buckets only for subjects whose token was verified    *)
(* and holds the analyst role, and never more than maxTrackedPrincipals of *)
(* them (Allow's eviction, ServeHTTP's order of checks).                   *)
BucketsAreBounded ==
    Tracked(entries) \subseteq Analysts /\ Cardinality(Tracked(entries)) <= MaxPrincipals

Excess(s) == late[s] * MaxDelay + evicted[s] * (Capacity + MaxDelay)

(* What Allow ever admits of a subject, every request at its full price,   *)
(* is the burst and what the time has earned, and exceeds that only in two *)
(* ways.  A request admitted with an older reading than the one before it  *)
(* (Allow reads the clock before it locks) adds at most the delay of a     *)
(* request, and an eviction at maxTrackedPrincipals at most a full bucket  *)
(* and that delay.  Removing a bucket as idle adds nothing.                *)
AdmittedWithinBudget ==
    \A s \in Subjects : spent[s] <= Capacity + clock + Excess(s)

(* An entry that removeIdle would drop for a request that is waiting for   *)
(* the lock holds a full bucket, so that dropping it changes no answer,    *)
(* although a late request may have set lastSeen back.                     *)
IdleBucketsAreFull ==
    \A g \in Waiting :
        LET t == request[g].now IN
        \A s \in Tracked(entries) :
            t >= nextGC /\ ~RemoveIdle(t)[s].tracked => Level(entries[s], t) = Capacity
==============================================================================
