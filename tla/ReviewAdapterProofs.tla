------------------------- MODULE ReviewAdapterProofs -------------------------
(***************************************************************************)
(* The rate limiter of ReviewAdapter keeps its bounds for every rate,      *)
(* burst, number of subjects and of goroutines, and every delay between    *)
(* reading the clock and locking that the time-to-live leaves room for.    *)
(***************************************************************************)
EXTENDS ReviewAdapter, FiniteSetTheorems, TLAPS

(* A full bucket holds at least one token.                                 *)
LEMMA CapacityHoldsAToken == Capacity \in Nat /\ Interval <= Capacity
<1>1. PICK b \in Nat : Burst = b + 1
  <2>1. Burst - 1 \in Nat /\ Burst = (Burst - 1) + 1
    BY RatesAssumption
  <2> QED BY <2>1
<1>2. Capacity = b * Interval + Interval /\ b * Interval \in Nat /\ Interval \in Nat
  BY <1>1, RatesAssumption DEF Capacity
<1> QED BY <1>2

EntryType == [tracked : BOOLEAN, level : Int, last : Int, lastSeen : Int]

(* The types of the limiter, and the readings goroutines may hold.         *)
TypesOK ==
    /\ clock \in Nat
    /\ nextGC \in Int
    /\ request \in [Goroutines -> [subject : Subjects \cup {"none"}, now : Nat]]
    /\ entries \in [Subjects -> EntryType]
    /\ spent \in [Subjects -> Int]
    /\ late \in [Subjects -> Nat]
    /\ evicted \in [Subjects -> Nat]

ReadingsOK ==
    \A g \in Waiting :
        /\ request[g].subject \in Subjects \cap Analysts
        /\ request[g].now <= clock
        /\ clock - request[g].now <= MaxDelay

(* A bucket e of a subject that has spent p with an excess of x: what it   *)
(* spent and still holds was in the full bucket, is in the excess or was   *)
(* earned by its last admission, and that is at most MaxDelay after the    *)
(* reading it was last seen with.                                          *)
Sound(e, p, x) ==
    /\ 0 <= e.level /\ e.level <= Capacity
    /\ 0 <= e.last /\ e.last <= clock
    /\ 0 <= e.lastSeen /\ e.lastSeen <= clock
    /\ e.last - e.lastSeen <= MaxDelay
    /\ p + e.level - e.last <= Capacity + x

(* A subject without a bucket is owed a full one at every reading that may *)
(* still come.                                                             *)
Repaid(p, x) ==
    /\ p <= clock + x
    /\ \A g \in Waiting : p <= request[g].now + x

BucketsOK ==
    \A s \in Subjects :
        IF s \in Tracked(entries) THEN Sound(entries[s], spent[s], Excess(s))
                                  ELSE Repaid(spent[s], Excess(s))

RoomOK == IsFiniteSet(Tracked(entries)) /\ BucketsAreBounded

Inv == TypesOK /\ ReadingsOK /\ BucketsOK /\ RoomOK

(* The excess is a number that only late readings and evictions change.    *)
LEMMA ExcessIsNat ==
    ASSUME TypesOK, NEW s \in Subjects
    PROVE  Excess(s) \in Nat
<1>1. /\ late[s] \in Nat /\ evicted[s] \in Nat /\ MaxDelay \in Nat
      /\ Capacity + MaxDelay \in Nat
  BY CapacityHoldsAToken, RatesAssumption DEF TypesOK
<1>2. \A m, n \in Nat : m * n \in Nat
  OBVIOUS
<1> QED BY <1>1, <1>2 DEF Excess

(* Steps that admit and evict nothing leave the excess alone.              *)
LEMMA ExcessStays ==
    ASSUME UNCHANGED <<late, evicted>>, NEW s \in Subjects
    PROVE  Excess(s)' = Excess(s)
  BY DEF Excess

(* What one more late reading adds, and one more eviction.                 *)
LEMMA ExcessGrows ==
    ASSUME TypesOK, NEW s \in Subjects
    PROVE  /\ late'[s] = late[s] + 1 /\ evicted'[s] = evicted[s]
                 => Excess(s)' = Excess(s) + MaxDelay
           /\ late'[s] = late[s] /\ evicted'[s] = evicted[s] + 1
                 => Excess(s)' = Excess(s) + Capacity + MaxDelay
<1> DEFINE c == Capacity + MaxDelay
<1>1. /\ late[s] \in Nat /\ evicted[s] \in Nat /\ MaxDelay \in Nat
      /\ Capacity \in Nat /\ c \in Nat /\ c = Capacity + MaxDelay
  BY CapacityHoldsAToken, RatesAssumption DEF TypesOK
<1>2. Excess(s) = late[s] * MaxDelay + evicted[s] * c
  BY DEF Excess
<1>3. Excess(s)' = late'[s] * MaxDelay + evicted'[s] * c
  BY DEF Excess
<1> HIDE DEF c
<1>4. \A m, n \in Nat : m * n \in Nat /\ (m + 1) * n = m * n + n
  OBVIOUS
<1>5. /\ late[s] * MaxDelay \in Nat /\ evicted[s] * c \in Nat
      /\ (late[s] + 1) * MaxDelay = late[s] * MaxDelay + MaxDelay
      /\ (evicted[s] + 1) * c = evicted[s] * c + c
  BY <1>1, <1>4
<1> QED BY <1>1, <1>2, <1>3, <1>5

(* No bucket and no request at the start.                                  *)
LEMMA InitInv == Init => Inv
<1> SUFFICES ASSUME Init PROVE Inv
  OBVIOUS
<1>1. TypesOK
  <2>1. NoRequest \in [subject : Subjects \cup {"none"}, now : Nat]
    BY DEF NoRequest
  <2>2. Untracked \in EntryType
    BY DEF Untracked, EntryType
  <2> QED BY <2>1, <2>2 DEF Init, TypesOK
<1>2. Waiting = {}
  BY DEF Init, Waiting
<1>3. Tracked(entries) = {}
  BY DEF Init, Tracked, Untracked
<1>4. ReadingsOK
  BY <1>2 DEF ReadingsOK
<1>5. BucketsOK
  <2>1. \A s \in Subjects : spent[s] = 0 /\ Excess(s) \in Nat
    BY <1>1, ExcessIsNat DEF Init
  <2> QED BY <1>2, <1>3, <2>1 DEF Init, BucketsOK, Repaid
<1>6. RoomOK
  BY <1>3, FS_EmptySet, PrincipalsAssumption DEF RoomOK, BucketsAreBounded
<1> QED BY <1>1, <1>4, <1>5, <1>6 DEF Inv

(* Time passes, but not past the delay of a request that waits.            *)
LEMMA TickInv == Inv /\ Tick => Inv'
<1> SUFFICES ASSUME Inv, Tick PROVE Inv'
  OBVIOUS
<1>1. /\ clock \in Nat /\ clock' = clock + 1 /\ MaxDelay \in Nat
      /\ request' = request /\ entries' = entries /\ nextGC' = nextGC
      /\ spent' = spent /\ late' = late /\ evicted' = evicted
  BY RatesAssumption DEF Tick, Inv, TypesOK
<1>2. Waiting' = Waiting /\ Tracked(entries)' = Tracked(entries)
  BY <1>1 DEF Waiting, Tracked
<1>3. TypesOK'
  BY <1>1 DEF Inv, TypesOK
<1>4. \A g \in Waiting : request[g].now \in Nat /\ clock - request[g].now < MaxDelay
  BY DEF Tick, Inv, TypesOK, Waiting
<1>5. ReadingsOK'
  BY <1>1, <1>2, <1>4 DEF Inv, ReadingsOK
<1>6. ASSUME NEW s \in Subjects
      PROVE  IF s \in Tracked(entries) THEN Sound(entries[s], spent[s], Excess(s))'
                                       ELSE Repaid(spent[s], Excess(s))'
  <2>1. /\ entries[s].last \in Int /\ entries[s].lastSeen \in Int
        /\ spent[s] \in Int /\ Excess(s) \in Nat /\ Excess(s)' = Excess(s)
    BY <1>1, ExcessIsNat, ExcessStays DEF Inv, TypesOK, EntryType
  <2>2. CASE s \in Tracked(entries)
    BY <1>1, <2>1, <2>2 DEF Inv, BucketsOK, Sound
  <2>3. CASE s \notin Tracked(entries)
    BY <1>1, <1>2, <2>1, <2>3 DEF Inv, BucketsOK, Repaid
  <2> QED BY <2>2, <2>3
<1>7. BucketsOK'
  BY <1>1, <1>2, <1>6 DEF BucketsOK
<1>8. RoomOK'
  BY <1>2 DEF Inv, RoomOK, BucketsAreBounded
<1> QED BY <1>3, <1>5, <1>7, <1>8 DEF Inv

(* A request takes the reading of this moment.                             *)
LEMMA AuthenticateInv ==
    ASSUME Inv, NEW g \in Goroutines, NEW s \in Subjects, Authenticate(g, s)
    PROVE  Inv'
<1>1. /\ request' = [request EXCEPT ![g] = [subject |-> s, now |-> clock]]
      /\ UNCHANGED <<clock, entries, nextGC, spent, late, evicted>>
      /\ s \in Analysts /\ clock \in Nat /\ MaxDelay \in Nat
  BY RatesAssumption DEF Authenticate, Inv, TypesOK
<1>2. TypesOK'
  BY <1>1 DEF Inv, TypesOK
<1>3. ASSUME NEW h \in Waiting'
      PROVE  \/ h = g /\ request'[h].subject = s /\ request'[h].now = clock
             \/ h \in Waiting /\ request'[h] = request[h]
  BY <1>1 DEF Waiting, Inv, TypesOK
<1>4. ReadingsOK'
  BY <1>1, <1>3 DEF Inv, ReadingsOK
<1>5. Tracked(entries)' = Tracked(entries)
  BY <1>1 DEF Tracked
<1>6. \A u \in Subjects : Excess(u)' = Excess(u)
  BY <1>1, ExcessStays
<1>7. \A u \in Subjects : Repaid(spent[u], Excess(u)) => Repaid(spent[u], Excess(u))'
  BY <1>1, <1>3, <1>6 DEF Repaid
<1>8. \A u \in Subjects : Sound(entries[u], spent[u], Excess(u))
                             => Sound(entries[u], spent[u], Excess(u))'
  BY <1>1, <1>6 DEF Sound
<1>9. BucketsOK'
  BY <1>1, <1>5, <1>7, <1>8 DEF Inv, BucketsOK
<1>10. RoomOK'
  BY <1>5 DEF Inv, RoomOK, BucketsAreBounded
<1> QED BY <1>2, <1>4, <1>9, <1>10 DEF Inv

(* The bucket that a call of Allow at t leaves of the bucket e.            *)
Taken(e, t) == [AllowN(e, t) EXCEPT !.lastSeen = t]

(* The fields of a bucket after a call of Allow at t.                      *)
LEMMA TakenFields ==
    ASSUME NEW e \in EntryType, NEW t \in Int
    PROVE  /\ Taken(e, t) \in EntryType
           /\ Taken(e, t).tracked = e.tracked
           /\ Taken(e, t).lastSeen = t
           /\ Admits(e, t) => /\ Taken(e, t).level = Level(e, t) - Interval
                              /\ Taken(e, t).last = t
           /\ ~Admits(e, t) => /\ Taken(e, t).level = e.level
                               /\ Taken(e, t).last = e.last
<1> DEFINE a == AllowN(e, t)
           x == Level(e, t) - Interval
<1>1. x \in Int
  BY CapacityHoldsAToken, RatesAssumption DEF Level, EntryType
<1>2. /\ a \in EntryType /\ a.tracked = e.tracked
      /\ Admits(e, t) => a.level = x /\ a.last = t
      /\ ~Admits(e, t) => a.level = e.level /\ a.last = e.last
  <2>1. CASE Admits(e, t)
    <3>1. a = [e EXCEPT !.level = x, !.last = t]
      BY <2>1 DEF AllowN
    <3> HIDE DEF a, x
    <3>2. a \in EntryType
      BY Zenon, <1>1, <3>1 DEF EntryType
    <3>3. a.tracked = e.tracked
      BY <3>1 DEF EntryType
    <3>4. a.level = x /\ a.last = t
      BY <3>1 DEF EntryType
    <3> QED BY <2>1, <3>2, <3>3, <3>4
  <2>2. CASE ~Admits(e, t)
    <3>1. a = e
      BY <2>2 DEF AllowN
    <3> HIDE DEF a, x
    <3> QED BY <2>2, <3>1
  <2> QED BY <2>1, <2>2
<1>3. Taken(e, t) = [a EXCEPT !.lastSeen = t]
  BY DEF Taken
<1> HIDE DEF a, x
<1>4. Taken(e, t) \in EntryType
  BY <1>2, <1>3 DEF EntryType
<1>5. Taken(e, t).tracked = a.tracked
  BY <1>2, <1>3 DEF EntryType
<1>6. /\ Taken(e, t).level = a.level /\ Taken(e, t).last = a.last
      /\ Taken(e, t).lastSeen = t
  BY <1>2, <1>3 DEF EntryType
<1> QED BY <1>2, <1>4, <1>5, <1>6 DEF x

(* What a call of Allow at t adds to the excess.                           *)
Regained(e, t) == IF IsLate(e, t) THEN MaxDelay ELSE 0

(* A token taken from a bucket, at a reading that may be a late one.       *)
LEMMA TokenFromBucket ==
    ASSUME clock \in Nat, NEW e \in EntryType, NEW t \in Nat, NEW p \in Int, NEW x \in Int,
           t <= clock, clock - t <= MaxDelay, Sound(e, p, x)
    PROVE  /\ p + Cost(e, t) \in Int
           /\ Sound(Taken(e, t), p + Cost(e, t), x + Regained(e, t))
<1> DEFINE n == Taken(e, t)
<1>1. /\ e.level \in Int /\ e.last \in Int /\ Interval \in Nat /\ MaxDelay \in Nat
      /\ Capacity \in Nat
  BY CapacityHoldsAToken, RatesAssumption DEF EntryType
<1>2. /\ n.lastSeen = t
      /\ Admits(e, t) => n.level = Level(e, t) - Interval /\ n.last = t
      /\ ~Admits(e, t) => n.level = e.level /\ n.last = e.last
  BY TakenFields
<1> HIDE DEF n
<1>3. CASE ~Admits(e, t)
  <2>1. Cost(e, t) = 0 /\ Regained(e, t) = 0
    BY <1>3 DEF Cost, IsLate, Regained
  <2> QED BY <1>1, <1>2, <1>3, <2>1 DEF Sound, n
<1>4. CASE Admits(e, t) /\ t < e.last
  <2>1. Level(e, t) = e.level
    BY <1>1, <1>4 DEF Level, Sound
  <2>2. Interval <= e.level
    BY <1>1, <1>4, <2>1 DEF Admits
  <2>3. Cost(e, t) = Interval /\ Regained(e, t) = MaxDelay
    BY <1>4 DEF Cost, IsLate, Regained
  <2> QED BY <1>1, <1>2, <1>4, <2>1, <2>2, <2>3 DEF Sound, n
<1>5. CASE Admits(e, t) /\ ~(t < e.last)
  <2>1. /\ Level(e, t) \in Int /\ Level(e, t) <= e.level + t - e.last
        /\ Level(e, t) <= Capacity
    BY <1>1, <1>5 DEF Level
  <2>2. Interval <= Level(e, t)
    BY <1>1, <1>5, <2>1 DEF Admits
  <2>3. Cost(e, t) = Interval /\ Regained(e, t) = 0
    BY <1>5 DEF Cost, IsLate, Regained
  <2> QED BY <1>1, <1>2, <1>5, <2>1, <2>2, <2>3 DEF Sound, n
<1> QED BY <1>3, <1>4, <1>5

(* The first token of a new bucket, which is full.                         *)
LEMMA TokenFromNewBucket ==
    ASSUME clock \in Nat, NEW t \in Nat, NEW p \in Int, NEW x \in Int,
           t <= clock, clock - t <= MaxDelay, p <= t + x
    PROVE  /\ NewLimiter \in EntryType
           /\ NewLimiter.tracked
           /\ p + Cost(NewLimiter, t) \in Int
           /\ Sound(Taken(NewLimiter, t), p + Cost(NewLimiter, t), x + Regained(NewLimiter, t))
<1> DEFINE e == NewLimiter
           n == Taken(e, t)
<1>1. Capacity \in Nat /\ Interval \in Nat /\ MaxDelay \in Nat /\ Interval <= Capacity
  BY CapacityHoldsAToken, RatesAssumption
<1>2. e \in EntryType
  <2>1. Untracked \in EntryType
    BY DEF Untracked, EntryType
  <2>2. \A u \in EntryType : \A b \in BOOLEAN : \A l \in Int :
           [u EXCEPT !.tracked = b, !.level = l] \in EntryType
    BY Zenon DEF EntryType
  <2>3. TRUE \in BOOLEAN /\ Capacity \in Int
    BY <1>1
  <2> QED BY <2>1, <2>2, <2>3, Zenon DEF NewLimiter
<1>3. e.tracked
  BY DEF NewLimiter, Untracked
<1>4. e.level = Capacity /\ e.last = 0
  BY DEF NewLimiter, Untracked
<1> HIDE DEF e
<1>5. Level(e, t) = Capacity
  BY <1>1, <1>4 DEF Level
<1>6. Admits(e, t)
  BY <1>1, <1>5 DEF Admits
<1>7. Cost(e, t) = Interval /\ Regained(e, t) = 0
  BY <1>1, <1>4, <1>6 DEF Cost, IsLate, Regained
<1>8. n.lastSeen = t /\ n.level = Capacity - Interval /\ n.last = t
  BY <1>2, <1>5, <1>6, TakenFields
<1> HIDE DEF n
<1>9. Sound(n, p + Interval, x)
  BY <1>1, <1>8 DEF Sound
<1>10. x + 0 = x
  OBVIOUS
<1> QED BY <1>1, <1>2, <1>3, <1>7, <1>9, <1>10 DEF e, n

(* removeIdle drops only buckets that are full at t whatever they spent:   *)
(* what is left is untouched, and what is gone is owed a full bucket.      *)
LEMMA CollectedFacts ==
    ASSUME Inv, NEW g \in Waiting, NEW t, t = request[g].now
    PROVE  /\ Collected(t) \in [Subjects -> EntryType]
           /\ Tracked(Collected(t)) \subseteq Tracked(entries)
           /\ \A u \in Tracked(Collected(t)) :
                 /\ Collected(t)[u] = entries[u]
                 /\ Sound(entries[u], spent[u], Excess(u))
           /\ \A u \in Subjects \ Tracked(Collected(t)) : Repaid(spent[u], Excess(u))
<1> DEFINE es == Collected(t)
<1>1. Untracked \in EntryType /\ ~Untracked.tracked
  BY DEF Untracked, EntryType
<1>2. /\ entries \in [Subjects -> EntryType]
      /\ t \in Nat /\ clock \in Nat /\ t <= clock
  BY DEF Inv, TypesOK, ReadingsOK, Waiting
<1>3. ASSUME NEW u \in Subjects
      PROVE  \/ es[u] = entries[u]
             \/ /\ es[u] = Untracked
                /\ u \in Tracked(entries)
                /\ t - entries[u].lastSeen >= IdleTTL
  BY DEF Collected, RemoveIdle, Tracked
<1>4. es \in [Subjects -> EntryType]
  <2>1. es = entries \/ es = [s \in Subjects |->
             IF entries[s].tracked /\ t - entries[s].lastSeen >= IdleTTL
             THEN Untracked ELSE entries[s]]
    BY DEF Collected, RemoveIdle
  <2> HIDE DEF es
  <2> QED BY <1>1, <1>2, <2>1
<1> HIDE DEF es
<1>5. ASSUME NEW u \in Tracked(es)
      PROVE  u \in Tracked(entries) /\ es[u] = entries[u]
  <2>1. u \in Subjects /\ es[u].tracked
    BY DEF Tracked
  <2>2. es[u] = entries[u]
    BY <1>1, <1>3, <2>1
  <2> QED BY <2>1, <2>2 DEF Tracked
<1>6. ASSUME NEW u \in Subjects \ Tracked(es)
      PROVE  Repaid(spent[u], Excess(u))
  <2>1. CASE u \notin Tracked(entries)
    BY <2>1 DEF Inv, BucketsOK
  <2>2. CASE u \in Tracked(entries)
    <3>1. t - entries[u].lastSeen >= IdleTTL
      BY <1>3, <2>2 DEF Tracked
    <3>2. Sound(entries[u], spent[u], Excess(u))
      BY <2>2 DEF Inv, BucketsOK
    <3>3. /\ entries[u].level \in Int /\ entries[u].last \in Int
          /\ entries[u].lastSeen \in Int /\ spent[u] \in Int /\ Excess(u) \in Nat
          /\ Capacity \in Nat /\ MaxDelay \in Nat /\ IdleTTL \in Nat
          /\ IdleTTL >= Capacity + 2 * MaxDelay
      BY <1>2, CapacityHoldsAToken, RatesAssumption, TTLAssumption, ExcessIsNat
      DEF Inv, TypesOK, EntryType
    <3>4. spent[u] <= t - MaxDelay + Excess(u)
      BY <1>2, <3>1, <3>2, <3>3 DEF Sound
    <3>5. ASSUME NEW h \in Waiting
          PROVE  request[h].now \in Nat /\ clock - request[h].now <= MaxDelay
      BY DEF Inv, TypesOK, ReadingsOK, Waiting
    <3> QED BY <1>2, <3>3, <3>4, <3>5 DEF Repaid
  <2> QED BY <2>1, <2>2
<1>7. \A u \in Tracked(es) : Sound(entries[u], spent[u], Excess(u))
  BY <1>5 DEF Inv, BucketsOK, Tracked
<1> QED BY <1>4, <1>5, <1>6, <1>7 DEF es

(* A nonempty set of entries has one that was seen least recently.         *)
LEMMA OldestExists ==
    ASSUME NEW T, T # {}, NEW f, \A v \in T : f[v] \in Nat
    PROVE  \E v \in T : \A u \in T : f[v] <= f[u]
<1> DEFINE S == {f[v] : v \in T}
           R == OpToRel(<, Nat)
<1>1. S \subseteq Nat /\ S # {}
  OBVIOUS
<1>2. IsWellFoundedOn(R, Nat)
  BY NatLessThanWellFounded, Zenon
<1> HIDE DEF R, S
<1>3. PICK m \in S : \A n \in S : <<n, m>> \notin R
  BY <1>1, <1>2, WFMin, Zenon
<1>4. \A n \in S : m <= n
  <2> SUFFICES ASSUME NEW n \in S, n < m PROVE FALSE
    BY <1>1
  <2>1. <<n, m>> \in R
    BY <1>1 DEF R, OpToRel
  <2> QED BY <1>3, <2>1
<1> QED BY <1>3, <1>4 DEF S

(* removeOldest takes a tracked entry, and never the one it makes room for.*)
LEMMA VictimsAreTracked ==
    ASSUME NEW es, NEW s
    PROVE  Victims(es, s) \subseteq Tracked(es) /\ s \notin Victims(es, s)
<1>1. CASE es[s].tracked
  BY <1>1 DEF Victims
<1>2. CASE ~es[s].tracked
  <2>1. s \notin Tracked(es)
    BY <1>2 DEF Tracked
  <2>2. Victims(es, s) \subseteq Tracked(es)
    BY Zenon DEF Victims
  <2> QED BY <2>1, <2>2
<1> QED BY <1>1, <1>2

(* What a call of Allow for s at t does, with the bucket e of es and the   *)
(* oldest entry, if it evicts one, in V.                                   *)
Effect(s, t, es, e, V) ==
    /\ V = {} <=> Victims(es, s) = {}
    /\ \A v, w \in V : v = w
    /\ s \notin V
    /\ entries'[s] = Taken(e, t)
    /\ spent'[s] = spent[s] + Cost(e, t)
    /\ late'[s] = IF IsLate(e, t) THEN late[s] + 1 ELSE late[s]
    /\ evicted'[s] = evicted[s]
    /\ \A u \in Subjects \ {s} :
          /\ entries'[u] = IF u \in V THEN Untracked ELSE es[u]
          /\ spent'[u] = spent[u]
          /\ late'[u] = late[u]
          /\ evicted'[u] = IF u \in V THEN evicted[u] + 1 ELSE evicted[u]

(* That is all a call of Allow does.                                       *)
LEMMA AllowFacts ==
    ASSUME Inv, NEW g \in Goroutines, Allow(g),
           NEW s, s = request[g].subject, NEW t, t = request[g].now,
           NEW es, es = Collected(t), NEW e, e = Entry(es, s)
    PROVE  \E V \in SUBSET Tracked(es) : Effect(s, t, es, e, V)
<1> DEFINE E(V) == [u \in Subjects |->
                      IF u = s THEN [AllowN(e, t) EXCEPT !.lastSeen = t]
                      ELSE IF u \in V THEN Untracked ELSE es[u]]
           X(V) == [u \in Subjects |-> IF u \in V THEN evicted[u] + 1 ELSE evicted[u]]
<1>1. s \in Subjects
  BY DEF Allow, Inv, ReadingsOK
<1>2. PICK V \in IF Victims(es, s) = {} THEN {{}} ELSE {{v} : v \in Victims(es, s)} :
         /\ entries' = E(V)
         /\ spent' = [spent EXCEPT ![s] = @ + Cost(e, t)]
         /\ late' = [late EXCEPT ![s] = IF IsLate(e, t) THEN @ + 1 ELSE @]
         /\ evicted' = X(V)
  BY SMTT(30) DEF Allow
<1>3. Victims(es, s) \subseteq Tracked(es) /\ s \notin Victims(es, s)
  BY VictimsAreTracked, Zenon
<1>4. /\ V \subseteq Victims(es, s)
      /\ V = {} <=> Victims(es, s) = {}
      /\ \A v, w \in V : v = w
  BY <1>2
<1>5. s \notin V /\ V \in SUBSET Tracked(es)
  BY <1>3, <1>4
<1>6. TypesOK /\ spent \in [Subjects -> Int] /\ late \in [Subjects -> Nat]
  BY DEF Inv, TypesOK
<1>7. entries'[s] = Taken(e, t) /\ spent'[s] = spent[s] + Cost(e, t)
  BY <1>1, <1>2, <1>6 DEF Taken
<1>8. late'[s] = IF IsLate(e, t) THEN late[s] + 1 ELSE late[s]
  BY <1>1, <1>2, <1>6
<1>9. evicted'[s] = evicted[s]
  BY <1>1, <1>2, <1>5
<1>10. \A u \in Subjects \ {s} :
         /\ entries'[u] = IF u \in V THEN Untracked ELSE es[u]
         /\ spent'[u] = spent[u]
         /\ late'[u] = late[u]
         /\ evicted'[u] = IF u \in V THEN evicted[u] + 1 ELSE evicted[u]
  BY <1>2, <1>6
<1> QED BY <1>4, <1>5, <1>7, <1>8, <1>9, <1>10, Zenon DEF Effect

(* A call of Allow keeps every bucket sound and makes room before it adds  *)
(* one.                                                                    *)
LEMMA AllowInv ==
    ASSUME Inv, NEW g \in Goroutines, Allow(g)
    PROVE  Inv'
<1>1. PICK s, t, es, e : /\ s = request[g].subject /\ t = request[g].now
                         /\ es = Collected(t) /\ e = Entry(es, s)
  BY Zenon
<1> DEFINE T == Tracked(es)
<1>2. PICK V \in SUBSET T : Effect(s, t, es, e, V)
  BY <1>1, AllowFacts, Zenon
<1>3. /\ V = {} <=> Victims(es, s) = {}
      /\ \A v, w \in V : v = w
      /\ s \notin V
      /\ entries'[s] = Taken(e, t)
      /\ spent'[s] = spent[s] + Cost(e, t)
      /\ late'[s] = IF IsLate(e, t) THEN late[s] + 1 ELSE late[s]
      /\ evicted'[s] = evicted[s]
      /\ \A u \in Subjects \ {s} :
            /\ entries'[u] = IF u \in V THEN Untracked ELSE es[u]
            /\ spent'[u] = spent[u]
            /\ late'[u] = late[u]
            /\ evicted'[u] = IF u \in V THEN evicted[u] + 1 ELSE evicted[u]
  BY <1>2 DEF Effect
<1>4. g \in Waiting
  BY DEF Allow
<1>5. /\ s \in Subjects /\ s \in Analysts
      /\ t \in Nat /\ clock \in Nat /\ t <= clock /\ clock - t <= MaxDelay
      /\ MaxDelay \in Nat
  BY <1>1, <1>4, RatesAssumption DEF Inv, TypesOK, ReadingsOK, Waiting
<1>6. /\ es \in [Subjects -> EntryType]
      /\ T \subseteq Tracked(entries)
      /\ \A u \in T : es[u] = entries[u] /\ Sound(es[u], spent[u], Excess(u))
      /\ \A u \in Subjects \ T : Repaid(spent[u], Excess(u))
  BY <1>1, <1>4, CollectedFacts
<1>7. /\ clock' = clock
      /\ request' = [request EXCEPT ![g] = NoRequest]
      /\ nextGC' \in Int
      /\ entries' = [u \in Subjects |-> entries'[u]]
      /\ spent' = [u \in Subjects |-> spent'[u]]
      /\ late' \in [Subjects -> Nat] /\ evicted' \in [Subjects -> Nat]
  <2>1. /\ clock' = clock
        /\ request' = [request EXCEPT ![g] = NoRequest]
    BY DEF Allow
  <2>2. nextGC' = IF t < nextGC THEN nextGC ELSE t + IdleTTL
    BY <1>1 DEF Allow
  <2>3. nextGC' \in Int
    BY <1>5, <2>2, RatesAssumption DEF Inv, TypesOK
  <2>4. /\ spent \in [Subjects -> Int] /\ late \in [Subjects -> Nat]
        /\ evicted \in [Subjects -> Nat]
    BY DEF Inv, TypesOK
  <2>5. /\ entries' = [u \in Subjects |-> entries'[u]]
        /\ \E y : spent' = [spent EXCEPT ![s] = y]
        /\ late' = [late EXCEPT ![s] = @ + 1] \/ late' = late
        /\ \E W : evicted' = [u \in Subjects |->
                                IF u \in W THEN evicted[u] + 1 ELSE evicted[u]]
    BY <1>1, <2>4, Zenon DEF Allow
  <2>6. spent' = [u \in Subjects |-> spent'[u]]
    BY <2>4, <2>5
  <2>7. late' \in [Subjects -> Nat]
    BY <1>5, <2>4, <2>5
  <2>8. evicted' \in [Subjects -> Nat]
    BY <2>4, <2>5
  <2> QED BY <2>1, <2>3, <2>5, <2>6, <2>7, <2>8
<1>8. Excess(s)' = Excess(s) + Regained(e, t)
  <2>1. TypesOK
    BY DEF Inv
  <2>2. CASE IsLate(e, t)
    BY <1>3, <1>5, <2>1, <2>2, ExcessGrows DEF Regained
  <2>3. CASE ~IsLate(e, t)
    <3>1. Excess(s)' = Excess(s)
      BY <1>3, <2>3 DEF Excess
    <3> QED BY <1>5, <2>1, <2>3, <3>1, ExcessIsNat DEF Regained
  <2> QED BY <2>2, <2>3
<1>9. ASSUME NEW u \in Subjects \ {s}
      PROVE  Excess(u)' = IF u \in V THEN Excess(u) + Capacity + MaxDelay ELSE Excess(u)
  <2>1. TypesOK
    BY DEF Inv
  <2>2. CASE u \in V
    BY <1>3, <2>1, <2>2, ExcessGrows
  <2>3. CASE u \notin V
    BY <1>3, <2>3 DEF Excess
  <2> QED BY <2>2, <2>3
<1>10. /\ e \in EntryType
      /\ e.tracked
      /\ spent'[s] \in Int
      /\ Sound(Taken(e, t), spent'[s], Excess(s)')
  <2>1. spent[s] \in Int /\ Excess(s) \in Int
    BY <1>5, ExcessIsNat DEF Inv, TypesOK
  <2>2. CASE s \in T
    <3>1. e = es[s] /\ es[s].tracked
      BY <1>1, <2>2 DEF Entry, Tracked
    <3>2. es[s] \in EntryType /\ Sound(es[s], spent[s], Excess(s))
      BY <1>5, <1>6, <2>2
    <3> QED BY <1>3, <1>5, <1>8, <2>1, <3>1, <3>2, TokenFromBucket
  <2>3. CASE s \notin T
    <3>1. e = NewLimiter
      BY <1>1, <1>5, <2>3 DEF Entry, Tracked
    <3>2. spent[s] <= t + Excess(s)
      BY <1>1, <1>4, <1>5, <1>6, <2>3 DEF Repaid
    <3>3. /\ NewLimiter \in EntryType /\ NewLimiter.tracked
          /\ spent[s] + Cost(NewLimiter, t) \in Int
          /\ Sound(Taken(NewLimiter, t), spent[s] + Cost(NewLimiter, t),
                   Excess(s) + Regained(NewLimiter, t))
      BY <1>5, <2>1, <3>2, TokenFromNewBucket
    <3> QED BY <1>3, <1>8, <3>1, <3>3, Zenon
  <2> QED BY <2>2, <2>3
<1>11. Taken(e, t) \in EntryType /\ Taken(e, t).tracked
  <2>1. e \in EntryType /\ e.tracked /\ t \in Int
    BY <1>5, <1>10
  <2> QED BY <2>1, TakenFields, Zenon
<1>12. Untracked \in EntryType /\ ~Untracked.tracked
  BY DEF Untracked, EntryType
<1>13. TypesOK'
  <2>1. \A u \in Subjects : entries'[u] \in EntryType
    BY <1>3, <1>6, <1>11, <1>12
  <2>2. \A u \in Subjects : spent'[u] \in Int
    BY <1>3, <1>5, <1>10 DEF Inv, TypesOK
  <2>3. request' \in [Goroutines -> [subject : Subjects \cup {"none"}, now : Nat]]
    BY <1>7 DEF Inv, TypesOK, NoRequest
  <2>4. /\ entries' \in [Subjects -> EntryType]
        /\ spent' \in [Subjects -> Int]
    BY <1>7, <2>1, <2>2
  <2> QED BY <1>5, <1>7, <2>3, <2>4 DEF TypesOK
<1>14. \A h \in Waiting' : h \in Waiting /\ request'[h] = request[h]
  BY <1>7 DEF Waiting, Inv, TypesOK
<1>15. ReadingsOK'
  BY <1>7, <1>14 DEF Inv, ReadingsOK
<1>16. Tracked(entries)' = (T \ V) \cup {s}
  <2>1. \A u \in Subjects : entries'[u].tracked <=> u = s \/ (u \in T /\ u \notin V)
    <3> SUFFICES ASSUME NEW u \in Subjects
                 PROVE  entries'[u].tracked <=> u = s \/ (u \in T /\ u \notin V)
      OBVIOUS
    <3>1. CASE u = s
      BY <1>3, <1>11, <3>1
    <3>2. CASE u # s /\ u \in V
      BY <1>3, <1>12, <3>2
    <3>3. CASE u # s /\ u \notin V
      BY <1>3, <3>3 DEF Tracked
    <3> QED BY <3>1, <3>2, <3>3
  <2> QED BY <1>5, <2>1 DEF Tracked
<1> HIDE DEF T
<1>17. BucketsOK'
  <2> SUFFICES ASSUME NEW u \in Subjects
               PROVE  IF u \in Tracked(entries)'
                      THEN Sound(entries[u], spent[u], Excess(u))'
                      ELSE Repaid(spent[u], Excess(u))'
    BY DEF BucketsOK
  <2>1. CASE u = s
    BY <1>3, <1>7, <1>10, <1>16, <2>1 DEF Sound
  <2>2. CASE u # s /\ u \in V
    <3>1. /\ u \notin Tracked(entries)' /\ spent'[u] = spent[u]
          /\ Excess(u)' = Excess(u) + Capacity + MaxDelay
      BY <1>3, <1>16, <1>9, <2>2
    <3>2. \A h \in Waiting : request[h].now \in Nat /\ clock - request[h].now <= MaxDelay
      BY DEF Inv, TypesOK, ReadingsOK, Waiting
    <3>3. /\ es[u] \in EntryType /\ spent[u] \in Int /\ Excess(u) \in Nat
          /\ Sound(es[u], spent[u], Excess(u)) /\ Capacity \in Nat
      BY <1>6, <2>2, ExcessIsNat, CapacityHoldsAToken DEF Inv, TypesOK
    <3>4. spent[u] <= clock + Capacity + Excess(u)
      BY <1>5, <3>3 DEF Sound, EntryType
    <3> QED BY <1>5, <1>7, <1>14, <3>1, <3>2, <3>3, <3>4 DEF Repaid
  <2>3. CASE u # s /\ u \in T \ V
    <3>1. /\ u \in Tracked(entries)' /\ entries'[u] = es[u]
          /\ spent'[u] = spent[u] /\ Excess(u)' = Excess(u)
      BY <1>3, <1>16, <1>9, <2>3
    <3> QED BY <1>6, <1>7, <2>3, <3>1 DEF Sound
  <2>4. CASE u # s /\ u \notin T
    <3>1. u \notin Tracked(entries)' /\ spent'[u] = spent[u] /\ Excess(u)' = Excess(u)
      BY <1>3, <1>16, <1>9, <2>4
    <3> QED BY <1>6, <1>7, <1>14, <2>4, <3>1 DEF Repaid
  <2> QED BY <2>1, <2>2, <2>3, <2>4
<1>18. RoomOK'
  <2>1. IsFiniteSet(T) /\ T \subseteq Analysts /\ Cardinality(T) <= MaxPrincipals
        /\ Cardinality(T) \in Nat /\ MaxPrincipals \in Nat \ {0}
    <3>1. /\ IsFiniteSet(Tracked(entries)) /\ Tracked(entries) \subseteq Analysts
          /\ Cardinality(Tracked(entries)) <= MaxPrincipals
      BY DEF Inv, RoomOK, BucketsAreBounded
    <3>2. /\ IsFiniteSet(T) /\ Cardinality(T) <= Cardinality(Tracked(entries))
          /\ Cardinality(T) \in Nat /\ Cardinality(Tracked(entries)) \in Nat
      BY <1>6, <3>1, FS_Subset, FS_CardinalityType
    <3> QED BY <1>6, <3>1, <3>2, PrincipalsAssumption
  <2>2. CASE s \in T
    <3>1. V = {}
      BY <1>3, <2>2 DEF Victims, T, Tracked
    <3>2. Tracked(entries)' = T
      BY <1>16, <2>2, <3>1
    <3> QED BY <2>1, <3>2 DEF RoomOK, BucketsAreBounded
  <2>3. CASE s \notin T /\ Cardinality(T) # MaxPrincipals
    <3>1. V = {}
      BY <1>3, <2>3 DEF Victims, T
    <3>2. Tracked(entries)' = T \cup {s}
      BY <1>16, <3>1
    <3>3. IsFiniteSet(T \cup {s}) /\ Cardinality(T \cup {s}) = Cardinality(T) + 1
      BY <2>1, <2>3, FS_AddElement
    <3> QED BY <1>5, <2>1, <2>3, <3>2, <3>3 DEF RoomOK, BucketsAreBounded
  <2>4. CASE s \notin T /\ Cardinality(T) = MaxPrincipals
    <3>1. \A v \in T : es[v].lastSeen \in Nat
      BY <1>6 DEF T, Tracked, Sound, EntryType
    <3>2. T # {}
      BY <2>1, <2>4, FS_EmptySet
    <3>3. \E v \in T : \A u \in T : es[v].lastSeen <= es[u].lastSeen
      <4> DEFINE f == [v \in T |-> es[v].lastSeen]
      <4>1. \A v \in T : f[v] \in Nat /\ f[v] = es[v].lastSeen
        BY <3>1
      <4> HIDE DEF f
      <4>2. \E v \in T : \A u \in T : f[v] <= f[u]
        BY <3>2, <4>1, OldestExists, Zenon
      <4> QED BY <4>1, <4>2, Zenon
    <3>4. Victims(es, s) # {}
      BY <1>5, <2>4, <3>3 DEF Victims, T, Tracked
    <3>5. PICK v \in T : V = {v}
      BY <1>3, <3>4
    <3>6. Tracked(entries)' = (T \ {v}) \cup {s}
      BY <1>16, <3>5
    <3>7. IsFiniteSet(T \ {v}) /\ Cardinality(T \ {v}) = Cardinality(T) - 1
      BY <2>1, FS_RemoveElement
    <3>8. /\ IsFiniteSet((T \ {v}) \cup {s})
          /\ Cardinality((T \ {v}) \cup {s}) = Cardinality(T \ {v}) + 1
      BY Zenon, <2>4, <3>7, FS_AddElement
    <3> QED BY <1>5, <2>1, <3>6, <3>7, <3>8 DEF RoomOK, BucketsAreBounded
  <2> QED BY <2>2, <2>3, <2>4
<1> QED BY <1>13, <1>15, <1>17, <1>18 DEF Inv

(* The invariant is inductive.                                             *)
LEMMA StepInv == Inv /\ [Next]_vars => Inv'
<1> SUFFICES ASSUME Inv, [Next]_vars PROVE Inv'
  OBVIOUS
<1>1. CASE Tick
  BY <1>1, TickInv
<1>2. ASSUME NEW g \in Goroutines, Allow(g) PROVE Inv'
  BY <1>2, AllowInv
<1>3. ASSUME NEW g \in Goroutines, NEW s \in Subjects, Authenticate(g, s) PROVE Inv'
  BY <1>3, AuthenticateInv
<1>4. CASE UNCHANGED vars
  <2>1. \A s \in Subjects : Excess(s)' = Excess(s)
    BY <1>4, ExcessStays DEF vars
  <2> QED BY <1>4, <2>1 DEF vars, Inv, TypesOK, ReadingsOK, BucketsOK, RoomOK,
                            BucketsAreBounded,
                            Waiting, Tracked, Sound, Repaid
<1> QED BY <1>1, <1>2, <1>3, <1>4 DEF Next

(* Every state of the limiter keeps the invariant: each bucket is sound,   *)
(* each removed one was owed in full, and there is room.                   *)
THEOREM LimiterInvariant == Spec => []Inv
<1> QED BY InitInv, StepInv, PTL DEF Spec

(* ServeHTTP and Allow keep buckets for analysts only, and never more than *)
(* maxTrackedPrincipals, however many subjects and requests there are.     *)
THEOREM BucketsAreAlwaysBounded == Spec => []BucketsAreBounded
<1>1. Inv => BucketsAreBounded
  BY DEF Inv, RoomOK
<1> QED BY <1>1, LimiterInvariant, PTL

(* Allow never admits more than the burst and what the time has earned,    *)
(* except for at most MaxDelay per admitted request whose reading is older *)
(* than the one before it, and a full bucket and MaxDelay per eviction,    *)
(* for every rate and every overlap of requests; removing idle buckets and *)
(* making them anew adds nothing.                                          *)
THEOREM AdmittedIsAlwaysWithinBudget == Spec => []AdmittedWithinBudget
<1>1. Inv => AdmittedWithinBudget
  <2> SUFFICES ASSUME Inv, NEW s \in Subjects
               PROVE  spent[s] <= Capacity + clock + Excess(s)
    BY DEF AdmittedWithinBudget
  <2>1. clock \in Nat /\ spent[s] \in Int /\ Excess(s) \in Nat /\ entries[s] \in EntryType
    BY ExcessIsNat DEF Inv, TypesOK
  <2>2. entries[s].level \in Int /\ entries[s].last \in Int
    BY <2>1 DEF EntryType
  <2>3. CASE s \in Tracked(entries)
    BY <2>1, <2>2, <2>3, CapacityHoldsAToken DEF Inv, BucketsOK, Sound
  <2>4. CASE s \notin Tracked(entries)
    BY <2>1, <2>4, CapacityHoldsAToken DEF Inv, BucketsOK, Repaid
  <2> QED BY <2>3, <2>4
<1> QED BY <1>1, LimiterInvariant, PTL

(* removeIdle never drops a bucket that still owes its subject a denial:   *)
(* the time-to-live covers a refill and the delay of a late request.       *)
THEOREM IdleBucketsAreAlwaysFull == Spec => []IdleBucketsAreFull
<1>1. Inv => IdleBucketsAreFull
  <2> SUFFICES ASSUME Inv, NEW g \in Waiting, NEW s \in Tracked(entries),
                      request[g].now >= nextGC, ~RemoveIdle(request[g].now)[s].tracked
               PROVE  Level(entries[s], request[g].now) = Capacity
    BY DEF IdleBucketsAreFull
  <2> DEFINE t == request[g].now
             e == entries[s]
  <2>1. s \in Subjects /\ e.tracked
    BY DEF Tracked
  <2>2. t \in Nat /\ t <= clock /\ clock \in Nat
    BY DEF Inv, TypesOK, ReadingsOK, Waiting
  <2>3. e.level \in Int /\ e.last \in Int /\ e.lastSeen \in Int
    BY <2>1 DEF Inv, TypesOK, EntryType
  <2>4. t - e.lastSeen >= IdleTTL
    BY <2>1 DEF RemoveIdle
  <2>5. e.level >= 0 /\ e.level <= Capacity /\ e.last - e.lastSeen <= MaxDelay
    BY <2>1 DEF Inv, BucketsOK, Sound
  <2> HIDE DEF t, e
  <2>6. t - e.last >= Capacity
    BY <2>2, <2>3, <2>4, <2>5, RatesAssumption, CapacityHoldsAToken, TTLAssumption
  <2> QED BY <2>2, <2>3, <2>5, <2>6, CapacityHoldsAToken DEF Level, t, e
<1> QED BY <1>1, LimiterInvariant, PTL
==============================================================================
