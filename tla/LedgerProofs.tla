----------------------------- MODULE LedgerProofs ----------------------------
(***************************************************************************)
(* Proofs about Ledger, for any accounts, entries, calls and connections:  *)
(* row locks never form a circle, and the attempts of Post implement the   *)
(* atomic ledger.                                                          *)
(***************************************************************************)
EXTENDS Ledger, SumTheorems

Snapshots == [opened : SUBSET Accounts, balance : [Accounts -> Minor],
              version : [Accounts -> 0 .. MaxVersion]]
Phases == {"idle", "ready", "locking", "committed", "done"}

(* The phase of a call tells whether its entry is stored, whether it has   *)
(* been answered, and whether it may hold rows.                            *)
PhasesOK ==
    \A c \in Calls :
        /\ phase[c] \in {"idle", "ready", "locking"} => c \notin posted
        /\ phase[c] = "committed" => c \in posted
        /\ phase[c] # "done" => answer[c] = "none"
        /\ phase[c] \in {"ready", "locking"} => refusal[c] = "none"
        /\ phase[c] # "locking" => held[c] = {}

(* Rows are locked in account order, and by one transaction at a time.     *)
LocksOK ==
    \A c \in Calls :
        /\ held[c] \subseteq Rows(c)
        /\ \A a \in held[c], b \in Unlocked(c) : a < b
        /\ \A d \in Calls \ {c} : held[c] \cap held[d] = {}

(* The source of a reversal, found when the transaction began.             *)
SourceIsPosted(e) ==
    e.reverses # NoSource =>
        \E s \in posted : /\ EntryOf[s].id = e.reverses
                          /\ e.postings = Reverse(EntryOf[s], e.id).postings

(* A row with the version of the snapshot has its balance too, and a row   *)
(* that is held still has both.                                            *)
SnapshotsOK ==
    \A c \in Calls : phase[c] = "locking" =>
        /\ snapshot[c].opened \subseteq opened
        /\ \A a \in Accounts :
              /\ snapshot[c].version[a] <= version[a]
              /\ snapshot[c].version[a] = version[a]
                    => snapshot[c].balance[a] = balance[a]
        /\ \A a \in held[c] : snapshot[c].version[a] = version[a]
        /\ SourceIsPosted(EntryOf[c])

Inv == LedgerTypeOK /\ PhasesOK /\ LocksOK /\ SnapshotsOK

------------------------------------------------------------------------------
(* Naturals and entries.                                                   *)
LEMMA MinIsLeast ==
    ASSUME NEW S \in SUBSET Nat, S # {}
    PROVE  Min(S) \in S /\ \A y \in S : Min(S) <= y
<1> DEFINE R == OpToRel(<, Nat)
<1>1. IsWellFoundedOn(R, Nat) /\ S \subseteq Nat
    BY NatLessThanWellFounded, Zenon
<1> HIDE DEF R
<1>2. PICK x \in S : \A y \in S : <<y, x>> \notin R
    BY <1>1, WFMin, Zenon
<1>3. \A y \in S : x <= y
  <2> SUFFICES ASSUME NEW y \in S, y < x PROVE FALSE
    OBVIOUS
  <2>1. <<y, x>> \in R
    BY DEF R, OpToRel
  <2> QED
    BY <1>2, <2>1
<1> QED
    BY <1>3, Zenon DEF Min

(* A finite, nonempty set of naturals has a greatest element.              *)
LEMMA GreatestExists ==
    ASSUME NEW T \in SUBSET Nat, IsFiniteSet(T), T # {}
    PROVE  \E x \in T : \A y \in T : y <= x
<1> DEFINE above(x) == {y \in T : y > x}
           K == {Cardinality(above(x)) : x \in T}
<1>1. \A x \in T : IsFiniteSet(above(x)) /\ Cardinality(above(x)) \in Nat
    BY FS_Subset, FS_CardinalityType
<1>2. K \in SUBSET Nat /\ K # {}
    BY <1>1, Zenon
<1> HIDE DEF K, above
<1>3. Min(K) \in K /\ \A k \in K : Min(K) <= k
    BY <1>2, MinIsLeast
<1>4. PICK x \in T : Cardinality(above(x)) = Min(K)
    BY <1>3, Zenon DEF K
<1>5. ASSUME NEW y \in T PROVE y <= x
  <2> SUFFICES ASSUME y > x PROVE FALSE
    OBVIOUS
  <2>0. x \in Nat /\ y \in Nat /\ \A z \in T : z \in Nat
    OBVIOUS
  <2>1. above(y) \in SUBSET above(x) /\ y \in above(x) /\ y \notin above(y)
    <3>1. \A z \in T : z > y => z > x
      BY <2>0
    <3>2. y > x /\ ~(y > y)
      BY <2>0
    <3> QED
      BY <3>1, <3>2, Zenon DEF above
  <2>2. Cardinality(above(y)) <= Cardinality(above(x)) /\ above(x) # above(y)
    BY <1>1, <2>1, FS_Subset
  <2>3. Cardinality(above(x)) # Cardinality(above(y))
    BY <1>1, <2>1, <2>2, FS_Subset
  <2>4. Cardinality(above(y)) \in K
    BY DEF K
  <2> QED
    BY <1>1, <1>3, <1>4, <2>2, <2>3, <2>4
<1> QED
    BY <1>5

(* The amounts of an entry are integers, and so is the sum over any of its *)
(* postings.                                                               *)
LEMMA PostingsTyped ==
    ASSUME NEW ps \in Seq(Postings)
    PROVE  /\ IsFiniteSet(DOMAIN ps)
           /\ \A i \in DOMAIN ps : Amounts(ps)[i] = ps[i].amount /\ Amounts(ps)[i] \in Int
           /\ \A I \in SUBSET DOMAIN ps :
                 IsFiniteSet(I) /\ SumFunctionOnSet(Amounts(ps), I) \in Int
<1>1. DOMAIN ps = 1 .. Len(ps) /\ Len(ps) \in Nat
    OBVIOUS
<1>2. IsFiniteSet(DOMAIN ps)
    BY <1>1, FS_Interval
<1>3. \A i \in DOMAIN ps : Amounts(ps)[i] = ps[i].amount /\ Amounts(ps)[i] \in Int
  <2>1. \A i \in DOMAIN ps : ps[i] \in Postings
    OBVIOUS
  <2> QED
    BY <2>1, MaxMinorAssumption DEF Amounts, Postings, Minor
<1>4. ASSUME NEW I \in SUBSET DOMAIN ps
      PROVE  IsFiniteSet(I) /\ SumFunctionOnSet(Amounts(ps), I) \in Int
  <2>1. IsFiniteSet(I)
    BY <1>2, FS_Subset
  <2> QED
    BY <1>3, <2>1, SumInt
<1> QED
    BY <1>2, <1>3, <1>4

(* prepareEntry gives a call the changes of its own entry: an integer for  *)
(* every account the entry names.                                          *)
LEMMA ChangesOfCalls ==
    ASSUME NEW c \in Calls
    PROVE  /\ changes[c] = Changes(EntryOf[c])
           /\ DOMAIN changes[c] = AccountsOf(EntryOf[c])
           /\ \A a \in DOMAIN changes[c] : changes[c][a] \in Int
<1>1. changes[c] = Changes(EntryOf[c])
    BY DEF changes
<1>2. DOMAIN Changes(EntryOf[c]) = AccountsOf(EntryOf[c])
    BY DEF Changes
<1>3. ASSUME NEW a \in AccountsOf(EntryOf[c])
      PROVE  Changes(EntryOf[c])[a] \in Int
  <2> DEFINE ps == EntryOf[c].postings
             I == {i \in DOMAIN ps : ps[i].account = a}
  <2>1. Changes(EntryOf[c])[a] = SumFunctionOnSet(Amounts(ps), I)
    BY DEF Changes, SumWhere
  <2>2. ps \in Seq(Postings) /\ I \in SUBSET DOMAIN ps
    BY EntriesAssumption
  <2> HIDE DEF ps, I
  <2> QED
    BY <2>1, <2>2, PostingsTyped
<1> QED
    BY <1>1, <1>2, <1>3, Zenon

(* The checks of an entry and of a row give an error value or none.        *)
LEMMA RefusalValues ==
    /\ \A c \in Calls : refusal[c] \in Refusals \cup {"none"}
    /\ \A c \in Calls : ReversalError(EntryOf[c], posted) \in Refusals \cup {"none"}
    /\ \A c, a : RowFault(c, a) \in Refusals \cup {"none"}
    BY DEF refusal, PrepareError, ReversalError, RowFault, RowError, Refusals

(* The first faulty row is reported with an error value.                   *)
LEMMA FaultyMin ==
    ASSUME LedgerTypeOK, NEW c \in Calls, NEW S \in SUBSET Faulty(c), S # {}
    PROVE  RowFault(c, Min(S)) \in Refusals
<1>1. snapshot[c].opened \in SUBSET Accounts
    BY DEF LedgerTypeOK
<1>2. S \in SUBSET Nat
    BY <1>1, AccountsAssumption, Zenon DEF Faulty, Rows
<1>3. Min(S) \in Faulty(c)
    BY <1>2, MinIsLeast, Zenon
<1> QED
    BY <1>3, RefusalValues DEF Faulty

(* postPrepared returns one of its errors; without one, every row exists   *)
(* and passes, the id is new and the source is not yet reversed.           *)
LEMMA PostErrorValues ==
    ASSUME LedgerTypeOK, NEW c \in Calls
    PROVE  /\ PostError(c) \in Refusals \cup {"none"}
           /\ PostError(c) = "none" =>
                 /\ Faulty(c) = {}
                 /\ Rows(c) = DOMAIN changes[c]
                 /\ \A d \in posted : EntryOf[d].id # EntryOf[c].id
                 /\ EntryOf[c].reverses # NoSource =>
                       Reversals(EntryOf[c].reverses, posted) = {}
<1>1. Faulty(c) # {} => PostError(c) \in Refusals
    BY FaultyMin DEF PostError
<1>2. "none" \notin Refusals
    BY DEF Refusals
<1> QED
    BY <1>1, <1>2 DEF PostError, Refusals

------------------------------------------------------------------------------
(* Every step is one of seven.                                             *)
Ends(c) ==
    /\ attempt' \in [Calls -> 0 .. MaxAttempts]
    /\ \/ phase[c] # "locking" /\ UNCHANGED <<snapshot, held>>
       \/ EndTransaction(c)
    /\ UNCHANGED tables

(* The call returns an answer.                                             *)
Finish(c, a) ==
    /\ phase[c] # "done"
    /\ a \in Refusals \cup {"success", "unknown"}
    /\ a = "success" => phase[c] = "committed"
    /\ a \in Refusals => phase[c] \in {"idle", "ready", "locking"}
    /\ Return(c, a)
    /\ Ends(c)

(* The call begins its first or another attempt.                           *)
MakeReady(c) ==
    /\ phase[c] \in {"idle", "locking"}
    /\ refusal[c] = "none"
    /\ Goto(c, "ready")
    /\ UNCHANGED answer
    /\ Ends(c)

(* An attempt begins.                                                      *)
Open(c) ==
    /\ phase[c] = "ready"
    /\ SourceIsPosted(EntryOf[c])
    /\ Goto(c, "locking")
    /\ snapshot' = [snapshot EXCEPT ![c] =
                      [opened |-> opened, balance |-> balance, version |-> version]]
    /\ UNCHANGED <<tables, attempt, held, answer>>

(* A row is locked.                                                        *)
Hold(c, a) ==
    /\ phase[c] = "locking"
    /\ a \in NextRows(c)
    /\ \A d \in Calls : a \notin held[d]
    /\ Current(c, a)
    /\ held' = [held EXCEPT ![c] = @ \cup {a}]
    /\ UNCHANGED <<tables, phase, attempt, snapshot, answer>>

(* A serialization failure or deadlock makes the call ready again, or ends *)
(* it after the last attempt.                                              *)
LEMMA RetryCases ==
    ASSUME Inv, NEW c \in Calls, phase[c] = "locking", Retry(c)
    PROVE  MakeReady(c) \/ \E a : Finish(c, a)
<1>1. attempt \in [Calls -> 0 .. MaxAttempts] /\ MaxAttempts \in Nat
    BY AttemptsAssumption DEF Inv, LedgerTypeOK
<1>2. CASE attempt[c] + 1 < MaxAttempts /\ Goto(c, "ready") /\ UNCHANGED answer
  <2>1. attempt' \in [Calls -> 0 .. MaxAttempts]
    BY <1>1, <1>2 DEF Retry
  <2>2. refusal[c] = "none"
    BY DEF Inv, PhasesOK
  <2> QED
    BY <1>2, <2>1, <2>2 DEF Retry, MakeReady, Ends
<1>3. CASE attempt[c] + 1 = MaxAttempts /\ Return(c, "exhausted")
  <2>1. attempt' \in [Calls -> 0 .. MaxAttempts]
    BY <1>1, <1>3 DEF Retry
  <2>2. Finish(c, "exhausted")
    BY <1>3, <2>1 DEF Retry, Finish, Ends, Refusals
  <2> QED
    BY <2>2
<1> QED
    BY <1>2, <1>3 DEF Retry

(* A call that prepares or begins becomes ready, opens its transaction or  *)
(* ends.                                                                   *)
LEMMA BeginCases ==
    ASSUME Inv, NEW c \in Calls, PrepareEntry(c) \/ Begin(c)
    PROVE  MakeReady(c) \/ Open(c) \/ \E a : Finish(c, a)
<1>1. attempt' \in [Calls -> 0 .. MaxAttempts] /\ UNCHANGED <<tables, held>>
    BY DEF Inv, LedgerTypeOK, PrepareEntry, Begin
<1>2. CASE PrepareEntry(c) /\ refusal[c] = "none"
    BY <1>1, <1>2 DEF PrepareEntry, MakeReady, Ends
<1>3. CASE PrepareEntry(c) /\ refusal[c] # "none"
  <2>1. refusal[c] \in Refusals /\ "success" \notin Refusals
    BY <1>3, RefusalValues DEF Refusals
  <2>2. Finish(c, refusal[c])
    BY <1>1, <1>3, <2>1 DEF PrepareEntry, Finish, Ends
  <2> QED
    BY <2>2
<1>4. CASE Begin(c) /\ ReversalError(EntryOf[c], posted) = "none"
  <2>1. SourceIsPosted(EntryOf[c])
    BY <1>4 DEF ReversalError, SourceIsPosted
  <2> QED
    BY <1>4, <2>1 DEF Begin, Open
<1>5. CASE Begin(c) /\ ReversalError(EntryOf[c], posted) # "none"
  <2> DEFINE a == ReversalError(EntryOf[c], posted)
  <2>1. a \in Refusals /\ "success" \notin Refusals
    BY <1>5, RefusalValues DEF Refusals
  <2>2. /\ phase[c] = "ready"
        /\ Return(c, a)
        /\ UNCHANGED snapshot
    BY <1>5 DEF Begin
  <2> HIDE DEF a
  <2>3. Finish(c, a)
    BY <1>1, <2>1, <2>2 DEF Finish, Ends
  <2> QED
    BY <2>3
<1> QED
    BY <1>2, <1>3, <1>4, <1>5

(* A call that locks holds the next row, starts again or ends.             *)
LEMMA LockRowCases ==
    ASSUME Inv, NEW c \in Calls, LockRow(c)
    PROVE  MakeReady(c) \/ (\E a : Hold(c, a)) \/ \E a : Finish(c, a)
<1>1. PICK r \in NextRows(c) :
          /\ \A d \in Calls : r \notin held[d]
          /\ \/ /\ Current(c, r)
                /\ held' = [held EXCEPT ![c] = @ \cup {r}]
                /\ UNCHANGED <<tables, phase, attempt, snapshot, answer>>
             \/ Retry(c)
             \/ /\ Faulty(c) \cap held[c] # {}
                /\ Return(c, RowFault(c, Min(Faulty(c) \cap held[c])))
                /\ EndTransaction(c)
                /\ UNCHANGED <<tables, attempt>>
    BY DEF LockRow
<1>2. phase[c] = "locking"
    BY DEF LockRow
<1>3. CASE /\ Current(c, r)
           /\ held' = [held EXCEPT ![c] = @ \cup {r}]
           /\ UNCHANGED <<tables, phase, attempt, snapshot, answer>>
    BY <1>1, <1>2, <1>3, Zenon DEF Hold
<1>4. CASE Retry(c)
    BY <1>2, <1>4, RetryCases
<1>5. CASE /\ Faulty(c) \cap held[c] # {}
           /\ Return(c, RowFault(c, Min(Faulty(c) \cap held[c])))
           /\ EndTransaction(c)
           /\ UNCHANGED <<tables, attempt>>
  <2> DEFINE a == RowFault(c, Min(Faulty(c) \cap held[c]))
  <2>1. a \in Refusals
    BY <1>5, FaultyMin DEF Inv
  <2>2. Return(c, a) /\ "success" \notin Refusals
    BY <1>5 DEF Refusals
  <2> HIDE DEF a
  <2>3. attempt' \in [Calls -> 0 .. MaxAttempts]
    BY <1>5 DEF Inv, LedgerTypeOK
  <2>4. Finish(c, a)
    BY <1>2, <1>5, <2>1, <2>2, <2>3 DEF Finish, Ends
  <2> QED
    BY <2>4
<1> QED
    BY <1>1, <1>3, <1>4, <1>5

(* Every other way to return is an end of the call.                        *)
LEMMA OtherAnswers ==
    ASSUME Inv, NEW c \in Calls,
           Cancel(c) \/ Refuse(c) \/ ReturnPosted(c) \/ ConnectionLost(c)
    PROVE  \E a : Finish(c, a)
<1>1. attempt' \in [Calls -> 0 .. MaxAttempts]
    BY DEF Inv, LedgerTypeOK, Cancel, Refuse, ReturnPosted, ConnectionLost
<1>2. "success" \notin Refusals /\ "unknown" \notin Refusals
    BY DEF Refusals
<1>3. CASE Cancel(c)
    BY <1>1, <1>2, <1>3 DEF Cancel, Finish, Ends
<1>4. CASE ConnectionLost(c)
    BY <1>1, <1>2, <1>4 DEF ConnectionLost, Finish, Ends
<1>5. CASE ReturnPosted(c)
    BY <1>1, <1>2, <1>5 DEF ReturnPosted, Finish, Ends
<1>6. CASE Refuse(c)
  <2>1. PostError(c) \in Refusals
    BY <1>6, PostErrorValues DEF Inv, Refuse
  <2>2. Finish(c, PostError(c))
    BY <1>1, <1>2, <1>6, <2>1 DEF Refuse, Finish, Ends
  <2> QED
    BY <2>2
<1> QED
    BY <1>3, <1>4, <1>5, <1>6

(* Every step is one of the kinds the invariant is shown for.              *)
LEMMA StepCases ==
    ASSUME Inv, Next
    PROVE  \/ \E r \in WalletRequests : CreateWallet(r)
           \/ \E c \in Calls :
                 \/ MakeReady(c) \/ Open(c) \/ StoreEntry(c)
                 \/ \E a : Hold(c, a) \/ Finish(c, a)
    BY RetryCases, BeginCases, LockRowCases, OtherAnswers
       DEF Next, Attempt, SerializationFailure

------------------------------------------------------------------------------
(* The invariant, step by step.                                            *)
LEMMA RowsOfCalls ==
    ASSUME LedgerTypeOK
    PROVE  \A c \in Calls : /\ Rows(c) = DOMAIN changes[c] \cap snapshot[c].opened
                            /\ Rows(c) \subseteq Accounts
                            /\ Rows(c) \subseteq Nat
    BY AccountsAssumption, Zenon DEF LedgerTypeOK, Rows

(* The invariant holds when no call has begun.                             *)
LEMMA InitInv == Init => Inv
<1> SUFFICES ASSUME Init PROVE Inv
    OBVIOUS
<1>1. 0 \in Minor /\ 0 \in 0 .. MaxVersion /\ 0 \in 0 .. MaxAttempts
    BY MaxMinorAssumption, VersionAssumption, AttemptsAssumption DEF Minor
<1>2. Zero \in [Accounts -> Minor] /\ Zero \in [Accounts -> 0 .. MaxVersion]
    BY <1>1 DEF Zero
<1>3. NoSnapshot \in Snapshots
    BY <1>2 DEF NoSnapshot, Snapshots
<1>4. LedgerTypeOK
    BY <1>1, <1>2, <1>3, SystemAssumption DEF Init, LedgerTypeOK, Snapshots
<1>5. PhasesOK /\ SnapshotsOK
    BY DEF Init, PhasesOK, SnapshotsOK
<1>6. LocksOK
    BY DEF Init, LocksOK
<1> QED
    BY <1>4, <1>5, <1>6 DEF Inv

(* CreateWallet adds rows that no call has read.                           *)
LEMMA CreateWalletStep ==
    ASSUME Inv, NEW r \in WalletRequests, CreateWallet(r)
    PROVE  Inv'
<1>1. opened \subseteq opened' /\ opened' \subseteq Accounts
    BY DEF Inv, LedgerTypeOK, CreateWallet, AccountsOfWallet
<1>2. UNCHANGED <<posted, balance, version, phase, attempt, snapshot, held, answer>>
    BY DEF CreateWallet
<1>3. LedgerTypeOK'
    BY <1>1, <1>2 DEF Inv, LedgerTypeOK
<1>4. PhasesOK'
    BY <1>2 DEF Inv, PhasesOK
<1>5. LocksOK'
    BY <1>2 DEF Inv, LocksOK, Rows, Unlocked
<1>6. SnapshotsOK'
    BY <1>1, <1>2 DEF Inv, SnapshotsOK, SourceIsPosted
<1> QED
    BY <1>3, <1>4, <1>5, <1>6 DEF Inv

(* A transaction ends without an entry: nothing that others rely on        *)
(* changes.                                                                *)
LEMMA EndsStep ==
    ASSUME Inv, NEW c \in Calls, Ends(c), NEW p \in Phases \ {"locking"}, Goto(c, p)
    PROVE  /\ LocksOK'
           /\ SnapshotsOK'
           /\ snapshot' \in [Calls -> Snapshots]
           /\ held' \in [Calls -> SUBSET Accounts]
           /\ held'[c] = {}
           /\ \A d \in Calls : d # c => held'[d] = held[d]
<1>1. /\ snapshot \in [Calls -> Snapshots] /\ held \in [Calls -> SUBSET Accounts]
      /\ phase \in [Calls -> Phases]
    BY DEF Inv, LedgerTypeOK, Snapshots, Phases
<1>2. NoSnapshot \in Snapshots
  <2>1. 0 \in Minor /\ 0 \in 0 .. MaxVersion
    BY MaxMinorAssumption, VersionAssumption DEF Minor
  <2> QED
    BY <2>1 DEF NoSnapshot, Snapshots, Zero
<1>3. /\ snapshot' \in [Calls -> Snapshots]
      /\ held' \in [Calls -> SUBSET Accounts]
      /\ held'[c] = {}
      /\ \A d \in Calls : d # c => held'[d] = held[d] /\ snapshot'[d] = snapshot[d]
    BY <1>1, <1>2 DEF Ends, EndTransaction, Inv, PhasesOK
<1>4. LocksOK'
    BY <1>3 DEF Inv, LocksOK, Rows, Unlocked
<1>5. phase'[c] # "locking" /\ \A d \in Calls : d # c => phase'[d] = phase[d]
    BY <1>1 DEF Goto
<1>6. UNCHANGED tables
    BY DEF Ends
<1>7. SnapshotsOK'
    BY <1>3, <1>5, <1>6 DEF Inv, SnapshotsOK, SourceIsPosted, tables
<1> QED
    BY <1>3, <1>4, <1>7

(* A call that gives up its transaction leaves the tables alone.           *)
LEMMA ReturnStep ==
    ASSUME Inv, NEW c \in Calls, MakeReady(c) \/ \E a : Finish(c, a)
    PROVE  Inv'
<1>1. PICK p \in {"ready", "done"} :
         Ends(c) /\ Goto(c, p) /\ (p = "ready" => MakeReady(c))
    BY DEF MakeReady, Finish, Return
<1>2. /\ LocksOK'
      /\ SnapshotsOK'
      /\ snapshot' \in [Calls -> Snapshots]
      /\ held' \in [Calls -> SUBSET Accounts]
      /\ held'[c] = {}
      /\ \A d \in Calls : d # c => held'[d] = held[d]
    BY <1>1, EndsStep DEF Phases
<1>3. /\ phase' \in [Calls -> Phases]
      /\ phase'[c] = p
      /\ \A d \in Calls : d # c => phase'[d] = phase[d]
    BY <1>1 DEF Inv, LedgerTypeOK, Goto, Phases
<1>4. /\ answer' \in [Calls -> {"none", "success", "unknown"} \cup Refusals]
      /\ \A d \in Calls : d # c => answer'[d] = answer[d]
      /\ p = "ready" => answer'[c] = answer[c]
    BY <1>1, ZenonT(30) DEF Inv, LedgerTypeOK, MakeReady, Finish, Return
<1>5. LedgerTypeOK'
    BY <1>1, <1>2, <1>3, <1>4 DEF Inv, LedgerTypeOK, Ends, tables, Snapshots, Phases
<1>6. posted' = posted
    BY <1>1 DEF Ends, tables
<1>7. p = "ready" => c \notin posted /\ answer[c] = "none" /\ refusal[c] = "none"
    BY <1>1 DEF MakeReady, Inv, PhasesOK
<1>8. PhasesOK'
    BY <1>2, <1>3, <1>4, <1>6, <1>7 DEF Inv, PhasesOK, refusal
<1> QED
    BY <1>2, <1>5, <1>8 DEF Inv

(* A new transaction holds no row.                                         *)
LEMMA OpenStep ==
    ASSUME Inv, NEW c \in Calls, Open(c)
    PROVE  Inv'
<1>0. /\ phase \in [Calls -> Phases]
      /\ snapshot \in [Calls -> Snapshots]
      /\ version \in [Accounts -> 0 .. MaxVersion]
      /\ [opened |-> opened, balance |-> balance, version |-> version] \in Snapshots
    BY DEF Inv, LedgerTypeOK, Snapshots, Phases
<1>1. /\ snapshot' \in [Calls -> Snapshots]
      /\ snapshot'[c] = [opened |-> opened, balance |-> balance, version |-> version]
      /\ \A d \in Calls : d # c => snapshot'[d] = snapshot[d]
      /\ phase' \in [Calls -> Phases]
      /\ phase'[c] = "locking"
      /\ \A d \in Calls : d # c => phase'[d] = phase[d]
    BY <1>0 DEF Open, Goto, Phases
<1>2. held[c] = {} /\ UNCHANGED <<opened, posted, balance, version, held, answer>>
    BY DEF Inv, PhasesOK, Open, tables
<1>3. LedgerTypeOK'
    BY <1>1 DEF Inv, LedgerTypeOK, Open, tables, Snapshots, Phases
<1>4. PhasesOK'
    BY <1>1, <1>2 DEF Inv, PhasesOK, Open, refusal
<1>5. LocksOK'
    BY <1>1, <1>2 DEF Inv, LocksOK, Rows, Unlocked
<1>6. SnapshotsOK'
  <2> SUFFICES ASSUME NEW d \in Calls, phase'[d] = "locking"
               PROVE  /\ snapshot'[d].opened \subseteq opened
                      /\ \A a \in Accounts :
                            /\ snapshot'[d].version[a] <= version[a]
                            /\ snapshot'[d].version[a] = version[a]
                                  => snapshot'[d].balance[a] = balance[a]
                      /\ \A a \in held[d] : snapshot'[d].version[a] = version[a]
                      /\ SourceIsPosted(EntryOf[d])
    BY <1>2 DEF SnapshotsOK, SourceIsPosted
  <2>1. CASE d = c
    BY <1>0, <1>1, <1>2, <2>1 DEF Open
  <2>2. CASE d # c
    BY <1>1, <2>2, SMTT(30) DEF Inv, SnapshotsOK
  <2> QED
    BY <2>1, <2>2
<1> QED
    BY <1>3, <1>4, <1>5, <1>6 DEF Inv

(* A row is locked once, and read at its latest value.                     *)
LEMMA HoldStep ==
    ASSUME Inv, NEW c \in Calls, NEW a, Hold(c, a)
    PROVE  Inv'
<1>1. held \in [Calls -> SUBSET Accounts] /\ Rows(c) \subseteq Accounts /\ Rows(c) \subseteq Nat
    BY RowsOfCalls DEF Inv, LedgerTypeOK
<1>2. /\ a \in Rows(c) /\ a \notin held[c] /\ a \in Nat
      /\ \A b \in Unlocked(c) : a <= b
    BY <1>1 DEF Hold, NextRows, Unlocked
<1>3. /\ held' \in [Calls -> SUBSET Accounts]
      /\ held'[c] = held[c] \cup {a}
      /\ \A d \in Calls : d # c => held'[d] = held[d]
      /\ UNCHANGED <<opened, posted, balance, version, phase, attempt, snapshot, answer>>
    BY <1>1, <1>2 DEF Hold, tables
<1>4. LedgerTypeOK'
    BY <1>3 DEF Inv, LedgerTypeOK
<1>5. PhasesOK'
    BY <1>3 DEF Inv, PhasesOK, Hold, refusal
<1>6. LocksOK'
  <2>1. \A d \in Calls : Rows(d)' = Rows(d)
    BY <1>3 DEF Rows
  <2>2. \A d \in Calls : d # c => Unlocked(d)' = Unlocked(d)
    BY <1>3, <2>1 DEF Unlocked
  <2>3. Unlocked(c)' = Unlocked(c) \ {a}
    BY <1>3, <2>1 DEF Unlocked
  <2>4. \A b \in held'[c], e \in Unlocked(c)' : b < e
    <3>1. \A e \in Unlocked(c) \ {a} : a < e
      BY <1>1, <1>2 DEF Unlocked
    <3> QED
      BY <1>3, <2>3, <3>1 DEF Inv, LocksOK
  <2>5. \A d \in Calls \ {c} : held'[c] \cap held'[d] = {}
    BY <1>3 DEF Inv, LocksOK, Hold
  <2>6. \A d, e \in Calls : d # e => held'[d] \cap held'[e] = {}
    BY <1>3, <2>5 DEF Inv, LocksOK
  <2>7. \A d \in Calls : held'[d] \subseteq Rows(d)'
    BY <1>2, <1>3, <2>1 DEF Inv, LocksOK
  <2>8. \A d \in Calls : \A b \in held'[d], e \in Unlocked(d)' : b < e
    BY <1>3, <2>2, <2>4 DEF Inv, LocksOK
  <2> QED
    BY <2>6, <2>7, <2>8 DEF LocksOK
<1>7. SnapshotsOK'
  <2>1. snapshot[c].version[a] = version[a]
    BY DEF Hold, Current
  <2> QED
    BY <1>3, <2>1, SMTT(30) DEF Inv, SnapshotsOK, SourceIsPosted
<1> QED
    BY <1>4, <1>5, <1>6, <1>7 DEF Inv

(* An entry is stored against rows that are all held, hence current.       *)
LEMMA StoreFacts ==
    ASSUME Inv, NEW c \in Calls, StoreEntry(c)
    PROVE  /\ Rows(c) = AccountsOf(EntryOf[c])
           /\ Rows(c) \subseteq held[c]
           /\ Rows(c) \subseteq Accounts
           /\ Rows(c) \subseteq opened
           /\ \A a \in Rows(c) :
                 /\ CurrencyOf[a] = CurrencyIn(EntryOf[c], a)
                 /\ RowError(balance, changes[c], a) = "none"
                 /\ balance[a] + changes[c][a] \in Minor
                 /\ version[a] + 1 \in 0 .. MaxVersion
                 /\ balance'[a] = balance[a] + changes[c][a]
                 /\ version'[a] = version[a] + 1
           /\ \A a \in Accounts \ Rows(c) :
                 balance'[a] = balance[a] /\ version'[a] = version[a]
<1>1. /\ phase[c] = "locking"
      /\ Unlocked(c) = {}
      /\ PostError(c) = "none"
    BY SMTT(30) DEF StoreEntry
<1>2. /\ Faulty(c) = {}
      /\ Rows(c) = DOMAIN changes[c]
    BY <1>1, PostErrorValues DEF Inv
<1>3. Rows(c) = AccountsOf(EntryOf[c]) /\ \A a \in Rows(c) : changes[c][a] \in Int
    BY <1>2, ChangesOfCalls
<1>4. Rows(c) \subseteq held[c] /\ Rows(c) \subseteq Accounts
    BY <1>1, RowsOfCalls DEF Unlocked, Inv
<1>5. Rows(c) \subseteq opened
    BY <1>1 DEF Rows, Inv, SnapshotsOK
<1>6. ASSUME NEW a \in Rows(c)
      PROVE  snapshot[c].version[a] = version[a] /\ snapshot[c].balance[a] = balance[a]
    BY <1>1, <1>4 DEF Inv, SnapshotsOK
<1>7. ASSUME NEW a \in Rows(c)
      PROVE  /\ CurrencyOf[a] = currencies[c][a]
             /\ RowError(snapshot[c].balance, changes[c], a) = "none"
             /\ snapshot[c].version[a] # MaxVersion
  <2>1. RowFault(c, a) = "none"
    BY <1>2 DEF Faulty
  <2> QED
    BY <2>1 DEF RowFault
<1>8. ASSUME NEW a \in Rows(c)
      PROVE  CurrencyOf[a] = CurrencyIn(EntryOf[c], a)
    BY <1>3, <1>7 DEF currencies
<1>9. ASSUME NEW a \in Rows(c)
      PROVE  RowError(balance, changes[c], a) = "none" /\ balance[a] + changes[c][a] \in Minor
    BY <1>6, <1>7 DEF RowError
<1>10. ASSUME NEW a \in Rows(c)
       PROVE  version[a] + 1 \in 0 .. MaxVersion
  <2>1. version[a] \in 0 .. MaxVersion /\ version[a] # MaxVersion
    BY <1>4, <1>6, <1>7 DEF Inv, LedgerTypeOK
  <2> QED
    BY <2>1, VersionAssumption
<1>11. ASSUME NEW a \in Accounts
       PROVE  /\ balance'[a] = IF a \in Rows(c) THEN snapshot[c].balance[a] + changes[c][a]
                                                ELSE balance[a]
              /\ version'[a] = IF a \in Rows(c) THEN snapshot[c].version[a] + 1
                                                ELSE version[a]
    BY DEF StoreEntry
<1>12. ASSUME NEW a \in Rows(c)
       PROVE  balance'[a] = balance[a] + changes[c][a] /\ version'[a] = version[a] + 1
    BY <1>4, <1>6, <1>11
<1> QED
    BY <1>3, <1>4, <1>5, <1>8, <1>9, <1>10, <1>11, <1>12

(* The commit writes the rows the transaction holds, and one entry.        *)
LEMMA StoreStep ==
    ASSUME Inv, NEW c \in Calls, StoreEntry(c)
    PROVE  Inv'
<1>0. /\ phase \in [Calls -> Phases] /\ phase[c] = "locking"
      /\ snapshot \in [Calls -> Snapshots] /\ held \in [Calls -> SUBSET Accounts]
      /\ balance \in [Accounts -> Minor] /\ version \in [Accounts -> 0 .. MaxVersion]
    BY DEF Inv, LedgerTypeOK, Snapshots, Phases, StoreEntry
<1>1. /\ phase' = [phase EXCEPT ![c] = "committed"]
      /\ posted' = posted \cup {c}
      /\ snapshot' = [snapshot EXCEPT ![c] = NoSnapshot]
      /\ held' = [held EXCEPT ![c] = {}]
      /\ UNCHANGED <<opened, attempt, answer>>
    BY DEF StoreEntry, Goto, EndTransaction
<1>2. /\ held' \in [Calls -> SUBSET Accounts]
      /\ held'[c] = {}
      /\ \A d \in Calls : d # c => held'[d] = held[d] /\ snapshot'[d] = snapshot[d]
      /\ phase' \in [Calls -> Phases]
      /\ phase'[c] = "committed"
      /\ \A d \in Calls : d # c => phase'[d] = phase[d]
    BY <1>0, <1>1 DEF Phases
<1>3. snapshot' \in [Calls -> Snapshots]
  <2>1. 0 \in Minor /\ 0 \in 0 .. MaxVersion
    BY MaxMinorAssumption, VersionAssumption DEF Minor
  <2>2. NoSnapshot \in Snapshots
    BY <2>1 DEF NoSnapshot, Snapshots, Zero
  <2> QED
    BY <1>0, <1>1, <2>2
<1>4. /\ balance' = [a \in Accounts |-> balance'[a]]
      /\ version' = [a \in Accounts |-> version'[a]]
    BY DEF StoreEntry
<1>5. \A a \in Accounts : balance'[a] \in Minor /\ version'[a] \in 0 .. MaxVersion
    BY <1>0, StoreFacts
<1>6. LedgerTypeOK'
  <2>1. balance' \in [Accounts -> Minor] /\ version' \in [Accounts -> 0 .. MaxVersion]
    BY <1>4, <1>5
  <2> QED
    BY <1>1, <1>2, <1>3, <2>1 DEF Inv, LedgerTypeOK, Snapshots, Phases
<1>7. PhasesOK'
    BY <1>0, <1>1, <1>2 DEF Inv, PhasesOK, refusal
<1>8. LocksOK'
    BY <1>2 DEF Inv, LocksOK, Rows, Unlocked
<1>9. SnapshotsOK'
  <2> SUFFICES ASSUME NEW d \in Calls, d # c, phase[d] = "locking"
               PROVE  /\ \A a \in Accounts :
                            /\ snapshot[d].version[a] <= version'[a]
                            /\ snapshot[d].version[a] = version'[a]
                                  => snapshot[d].balance[a] = balance'[a]
                      /\ \A a \in held[d] : snapshot[d].version[a] = version'[a]
                      /\ SourceIsPosted(EntryOf[d])'
    BY <1>1, <1>2 DEF Inv, SnapshotsOK
  <2>1. ASSUME NEW a \in Rows(c)
        PROVE  snapshot[d].version[a] < version'[a] /\ a \notin held[d]
    <3>1. version'[a] = version[a] + 1 /\ a \in Accounts /\ a \in held[c]
      BY StoreFacts, Zenon
    <3>2. snapshot[d].version[a] <= version[a] /\ snapshot[d].version[a] \in Int
      BY <1>0, <3>1 DEF Inv, SnapshotsOK, Snapshots
    <3>3. a \notin held[d]
      BY <3>1 DEF Inv, LocksOK
    <3>4. version[a] \in Int
      BY <1>0, <3>1
    <3> QED
      BY <3>1, <3>2, <3>3, <3>4
  <2>2. \A a \in Accounts \ Rows(c) : version'[a] = version[a] /\ balance'[a] = balance[a]
    BY StoreFacts
  <2>3. ASSUME NEW a \in Accounts
        PROVE  /\ snapshot[d].version[a] <= version'[a]
               /\ snapshot[d].version[a] = version'[a]
                     => snapshot[d].balance[a] = balance'[a]
               /\ a \in held[d] => snapshot[d].version[a] = version'[a]
    <3>0. snapshot[d].version[a] \in Int /\ version'[a] \in Int
      BY <1>0, <1>5 DEF Snapshots
    <3>1. CASE a \in Rows(c)
      BY <2>1, <3>0, <3>1
    <3>2. CASE a \notin Rows(c)
      BY <2>2, <3>2 DEF Inv, SnapshotsOK
    <3> QED
      BY <3>1, <3>2
  <2>4. SourceIsPosted(EntryOf[d])'
    BY <1>1 DEF Inv, SnapshotsOK, SourceIsPosted
  <2>5. held[d] \subseteq Accounts
    BY <1>0, Zenon
  <2> QED
    BY <2>3, <2>4, <2>5
<1> QED
    BY <1>6, <1>7, <1>8, <1>9 DEF Inv

(* The invariant does not depend on anything else.                         *)
LEMMA StutterStep == Inv /\ UNCHANGED vars => Inv'
<1> SUFFICES ASSUME Inv, UNCHANGED vars PROVE Inv'
    OBVIOUS
<1>1. LedgerTypeOK'
    BY DEF Inv, vars, LedgerTypeOK
<1>2. PhasesOK'
    BY DEF Inv, vars, PhasesOK
<1>3. LocksOK'
    BY DEF Inv, vars, LocksOK, Rows, Unlocked
<1>4. SnapshotsOK'
    BY DEF Inv, vars, SnapshotsOK, SourceIsPosted
<1> QED
    BY <1>1, <1>2, <1>3, <1>4 DEF Inv

(* Held rows are current and locked in order, whatever the transactions    *)
(* of Post do to each other.                                               *)
THEOREM LedgerInvariant == Spec => []Inv
<1>1. Inv /\ [Next]_vars => Inv'
  <2>1. ASSUME Inv, Next PROVE Inv'
    BY <2>1, StepCases, CreateWalletStep, ReturnStep, OpenStep, HoldStep, StoreStep
  <2> QED
    BY <2>1, StutterStep
<1> QED
    BY <1>1, InitInv, PTL DEF Spec

(* The tables keep their types: no balance leaves the range of an amount   *)
(* and no row version passes the largest one.                              *)
THEOREM TypesAreKept == Spec => []LedgerTypeOK
<1>1. Inv => LedgerTypeOK
    BY DEF Inv
<1> QED
    BY <1>1, LedgerInvariant, PTL

------------------------------------------------------------------------------
(* No deadlock.  A waiting transaction has locked only rows before the one *)
(* it waits for, so the one that waits for the greatest row waits for      *)
(* nobody in the set.                                                      *)
LEMMA LockOrder ==
    ASSUME Inv, NEW S \in (SUBSET InTransaction) \ {{}}
    PROVE  \E c \in S : WaitsFor(c) \cap S = {}
<1> SUFFICES ASSUME \A c \in S : WaitsFor(c) \cap S # {} PROVE FALSE
    OBVIOUS
<1> DEFINE W == {a \in Accounts : \E c \in S : a \in NextRows(c)}
<1>1. S \subseteq Calls /\ S # {}
    BY DEF InTransaction
<1>2. ASSUME NEW c \in S
      PROVE  /\ NextRows(c) \subseteq Unlocked(c)
             /\ NextRows(c) \subseteq Accounts
             /\ NextRows(c) \subseteq Nat
             /\ \A a, b \in NextRows(c) : a = b
             /\ NextRows(c) # {}
  <2>1. NextRows(c) \subseteq Accounts /\ NextRows(c) \subseteq Nat
    BY <1>1, RowsOfCalls DEF Inv, NextRows, Unlocked
  <2>2. NextRows(c) # {}
    BY DEF WaitsFor
  <2> QED
    BY <2>1, <2>2 DEF NextRows
<1>3. W \in SUBSET Nat /\ IsFiniteSet(W) /\ W # {}
  <2>1. W \in SUBSET Accounts
    OBVIOUS
  <2>2. W # {}
    BY <1>1, <1>2
  <2> QED
    BY <2>1, <2>2, FS_Subset, RowsAssumption, AccountsAssumption, Zenon
<1>4. PICK x \in W : \A y \in W : y <= x
    BY <1>3, GreatestExists, Zenon
<1>5. PICK c \in S : x \in NextRows(c)
    OBVIOUS
<1>6. PICK d \in S : NextRows(c) \cap held[d] # {}
    BY DEF WaitsFor
<1>7. x \in held[d]
    BY <1>2, <1>5, <1>6
<1>8. PICK y \in NextRows(d) : TRUE
    BY <1>2
<1>9. y \in W /\ y \in Unlocked(d) /\ y \in Nat
    BY <1>2, <1>8
<1>10. x < y
    BY <1>1, <1>7, <1>9 DEF Inv, LocksOK
<1> QED
    BY <1>3, <1>4, <1>9, <1>10

(* ORDER BY account_id keeps the locks of lockAndCalculateBalances free of *)
(* deadlocks, for any number of transactions and any entries.              *)
THEOREM NobodyEverWaitsInACircle == Spec => []NobodyWaitsInACircle
<1>1. Inv => NobodyWaitsInACircle
    BY LockOrder DEF NobodyWaitsInACircle
<1> QED
    BY <1>1, LedgerInvariant, PTL

------------------------------------------------------------------------------
(* Versions.                                                               *)
Counted == IsFiniteSet(posted) /\ VersionCountsEntries

(* No step adds an entry to a row without counting it in the version.      *)
LEMMA CountedStep ==
    ASSUME Inv, Counted, Next
    PROVE  Counted'
<1>1. CASE \E c \in Calls : StoreEntry(c)
  <2>1. PICK c \in Calls : StoreEntry(c)
    BY <1>1
  <2>2. posted' = posted \cup {c} /\ c \notin posted
    BY <2>1 DEF StoreEntry, Inv, PhasesOK
  <2>3. IsFiniteSet(posted')
    BY <2>2, FS_AddElement DEF Counted
  <2>4. ASSUME NEW a \in Accounts
        PROVE  version'[a] = Cardinality({d \in posted' : a \in AccountsOf(EntryOf[d])})
    <3> DEFINE D == {d \in posted : a \in AccountsOf(EntryOf[d])}
               E == {d \in posted' : a \in AccountsOf(EntryOf[d])}
    <3>1. IsFiniteSet(D) /\ version[a] = Cardinality(D)
      BY FS_Subset DEF Counted, VersionCountsEntries
    <3>2. CASE a \in Rows(c)
      <4>1. E = D \cup {c} /\ c \notin D
        BY <2>1, <2>2, <3>2, StoreFacts, Zenon
      <4>2. Cardinality(E) = Cardinality(D) + 1
        BY <3>1, <4>1, FS_AddElement, Zenon
      <4> QED
        BY <2>1, <3>1, <3>2, <4>2, StoreFacts
    <3>3. CASE a \notin Rows(c)
      <4>1. E = D
        BY <2>1, <2>2, <3>3, StoreFacts, Zenon
      <4> QED
        BY <2>1, <3>1, <3>3, <4>1, StoreFacts, Zenon
    <3> QED
      BY <3>2, <3>3
  <2> QED
    BY <2>3, <2>4 DEF Counted, VersionCountsEntries
<1>2. CASE posted' = posted /\ version' = version
    BY <1>2 DEF Counted, VersionCountsEntries
<1>3. \/ \E c \in Calls : StoreEntry(c)
      \/ posted' = posted /\ version' = version
    BY StepCases, Zenon DEF CreateWallet, MakeReady, Open, Hold, Finish, Ends, tables
<1> QED
    BY <1>1, <1>2, <1>3

(* updateBalances counts every entry of an account once, so equal versions *)
(* mean that no entry came in between.                                     *)
THEOREM VersionsAlwaysCountEntries == Spec => []VersionCountsEntries
<1>1. ASSUME Init PROVE Counted
  <2>1. \A a \in Accounts : {c \in posted : a \in AccountsOf(EntryOf[c])} = {}
    BY <1>1 DEF Init
  <2> QED
    BY <1>1, <2>1, FS_EmptySet DEF Init, Counted, VersionCountsEntries, Zero
<1>2. Inv /\ Counted /\ [Next]_vars => Counted'
  <2>1. ASSUME Counted, UNCHANGED vars PROVE Counted'
    BY <2>1 DEF Counted, VersionCountsEntries, vars
  <2> QED
    BY <2>1, CountedStep
<1>3. Counted => VersionCountsEntries
    BY DEF Counted
<1> QED
    BY <1>1, <1>2, <1>3, LedgerInvariant, PTL DEF Spec

------------------------------------------------------------------------------
(* Money.  The postings of an entry that names an account are all in the   *)
(* currency of the account once the entry is stored.                       *)
LEMMA CurrencyOfPostings ==
    ASSUME NEW e, e.postings \in Seq(Postings), PrepareError(e) = "none",
           NEW i \in DOMAIN e.postings
    PROVE  e.postings[i].currency = CurrencyIn(e, e.postings[i].account)
<1> DEFINE a == e.postings[i].account
           K == CurrenciesIn(e, a)
           f == [j \in {j \in DOMAIN e.postings : e.postings[j].account = a}
                    |-> e.postings[j].currency]
<1>1. a \in AccountsOf(e) /\ e.postings[i].currency \in K
    BY DEF AccountsOf, CurrenciesIn
<1>2. ~(Cardinality(K) > 1)
    BY <1>1 DEF PrepareError
<1>3. IsFiniteSet(K)
  <2>1. IsFiniteSet(DOMAIN f)
    BY PostingsTyped, FS_Subset, Zenon
  <2>2. f \in Surjection(DOMAIN f, K)
    BY DEF CurrenciesIn, Surjection
  <2> HIDE DEF f, K
  <2> QED
    BY <2>1, <2>2, FS_Surjection, Zenon
<1> HIDE DEF K
<1>4. Cardinality(K) = 1
  <2>1. Cardinality(K) \in Nat /\ Cardinality(K) # 0
    BY <1>1, <1>3, FS_CardinalityType, FS_EmptySet
  <2> QED
    BY <1>2, <2>1
<1>5. PICK x : K = {x}
    BY <1>3, <1>4, FS_Singleton, Zenon
<1> QED
    BY <1>1, <1>5 DEF K, CurrencyIn

(* The sum of the postings of an entry by account, zero for the accounts   *)
(* it does not name.                                                       *)
Effect(e) == [a \in Accounts |->
    SumFunctionOnSet(Amounts(e.postings),
                     {i \in DOMAIN e.postings : e.postings[i].account = a})]

(* What an entry does to an account is its aggregated change, and nothing  *)
(* for the accounts it does not name.                                      *)
LEMMA EffectIsChange ==
    ASSUME NEW c \in Calls, NEW a \in Accounts
    PROVE  /\ Effect(EntryOf[c])[a] \in Int
           /\ a \in AccountsOf(EntryOf[c]) =>
                 Effect(EntryOf[c])[a] = Changes(EntryOf[c])[a]
           /\ a \notin AccountsOf(EntryOf[c]) => Effect(EntryOf[c])[a] = 0
<1> DEFINE ps == EntryOf[c].postings
           I == {i \in DOMAIN ps : ps[i].account = a}
<1>1. Effect(EntryOf[c])[a] = SumFunctionOnSet(Amounts(ps), I)
    BY DEF Effect
<1>2. a \in AccountsOf(EntryOf[c]) =>
          Changes(EntryOf[c])[a] = SumFunctionOnSet(Amounts(ps), I)
    BY DEF Changes, SumWhere
<1>3. a \notin AccountsOf(EntryOf[c]) => I = {}
    BY DEF AccountsOf
<1>4. ps \in Seq(Postings) /\ I \in SUBSET DOMAIN ps
    BY EntriesAssumption
<1> HIDE DEF ps, I
<1>5. SumFunctionOnSet(Amounts(ps), I) \in Int
    BY <1>4, PostingsTyped
<1> QED
    BY <1>1, <1>2, <1>3, <1>5, SumEmpty, Zenon

(* Storing an entry adds its effect to the balances.                       *)
LEMMA StoreAddsEffect ==
    ASSUME Inv, NEW c \in Calls, StoreEntry(c), NEW a \in Accounts
    PROVE  balance'[a] = balance[a] + Effect(EntryOf[c])[a]
<1>1. Rows(c) = AccountsOf(EntryOf[c]) /\ changes[c] = Changes(EntryOf[c])
    BY StoreFacts, ChangesOfCalls, Zenon
<1>2. CASE a \in Rows(c)
  <2>1. balance'[a] = balance[a] + changes[c][a]
    BY <1>2, StoreFacts, Zenon
  <2>2. Effect(EntryOf[c])[a] = changes[c][a]
    BY <1>1, <1>2, EffectIsChange, Zenon
  <2> QED
    BY <2>1, <2>2, Zenon
<1>3. CASE a \notin Rows(c)
  <2>1. balance'[a] = balance[a]
    BY <1>3, StoreFacts, Zenon
  <2>2. Effect(EntryOf[c])[a] = 0
    BY <1>1, <1>3, EffectIsChange, Zenon
  <2>3. balance[a] \in Int
    BY MaxMinorAssumption DEF Inv, LedgerTypeOK, Minor
  <2> QED
    BY <2>1, <2>2, <2>3
<1> QED
    BY <1>2, <1>3

(* What is known of an entry at the moment it is stored.                   *)
LEMMA StoredEntry ==
    ASSUME Inv, NEW c \in Calls, StoreEntry(c)
    PROVE  /\ PrepareError(EntryOf[c]) = "none"
           /\ c \notin posted
           /\ posted' = posted \cup {c}
           /\ \A i \in DOMAIN EntryOf[c].postings :
                 /\ EntryOf[c].postings[i].account \in Accounts
                 /\ EntryOf[c].postings[i].currency =
                       CurrencyOf[EntryOf[c].postings[i].account]
<1>1. phase[c] = "locking" /\ posted' = posted \cup {c}
    BY Zenon DEF StoreEntry
<1>2. PrepareError(EntryOf[c]) = "none" /\ c \notin posted
    BY <1>1 DEF Inv, PhasesOK, refusal
<1>3. /\ Rows(c) = AccountsOf(EntryOf[c]) /\ Rows(c) \subseteq Accounts
      /\ \A a \in Rows(c) : CurrencyOf[a] = CurrencyIn(EntryOf[c], a)
    BY StoreFacts, Zenon
<1>4. ASSUME NEW i \in DOMAIN EntryOf[c].postings
      PROVE  /\ EntryOf[c].postings[i].account \in Accounts
             /\ EntryOf[c].postings[i].currency = CurrencyOf[EntryOf[c].postings[i].account]
  <2>1. EntryOf[c].postings[i].account \in Rows(c)
    BY <1>3, SMTT(30) DEF AccountsOf
  <2>2. EntryOf[c].postings[i].currency =
           CurrencyIn(EntryOf[c], EntryOf[c].postings[i].account)
    BY <1>2, EntriesAssumption, CurrencyOfPostings, Zenon
  <2> QED
    BY <1>3, <2>1, <2>2, Zenon
<1> QED
    BY <1>1, <1>2, <1>4, Zenon

(* Only postPrepared changes journal and balances.                         *)
LEMMA StoreOrKeep ==
    ASSUME Inv, Next
    PROVE  \/ \E c \in Calls : StoreEntry(c)
           \/ posted' = posted /\ balance' = balance
    BY StepCases, Zenon DEF CreateWallet, MakeReady, Open, Hold, Finish, Ends, tables

(* The inductive form of Reconciles: also an account that has no wallet    *)
(* yet holds the sum of its postings.                                      *)
SumsOK ==
    /\ IsFiniteSet(posted)
    /\ \A a \in Accounts : balance[a] = SumFunctionOnSet(EffectOn(a), posted)

(* What Reconcile sums up for an account of a stored entry is the          *)
(* entry's whole effect on it: all its postings there are in the           *)
(* currency of the account.                                                *)
LEMMA EffectOnAccount ==
    ASSUME Inv, NEW c \in Calls, StoreEntry(c), NEW a \in Accounts
    PROVE  EffectOn(a)[c] = Effect(EntryOf[c])[a]
<1> DEFINE ps == EntryOf[c].postings
<1>1. \A i \in DOMAIN ps : ps[i].currency = CurrencyOf[ps[i].account]
    BY StoredEntry, Zenon
<1>2. {i \in DOMAIN ps : ps[i].account = a /\ ps[i].currency = CurrencyOf[a]} =
      {i \in DOMAIN ps : ps[i].account = a}
  <2> HIDE DEF ps
  <2> QED
    BY <1>1
<1> QED
    BY <1>2, SMTT(30) DEF EffectOn, Effect, SumWhere

(* That effect is an integer for every entry, stored or not.               *)
LEMMA EffectOnIsInt ==
    ASSUME NEW c \in Calls, NEW a
    PROVE  EffectOn(a)[c] \in Int
<1> DEFINE ps == EntryOf[c].postings
           I == {i \in DOMAIN ps : ps[i].account = a /\ ps[i].currency = CurrencyOf[a]}
<1>1. EffectOn(a)[c] = SumFunctionOnSet(Amounts(ps), I)
    BY DEF EffectOn, SumWhere
<1>2. ps \in Seq(Postings) /\ I \in SUBSET DOMAIN ps
    BY EntriesAssumption
<1> HIDE DEF ps, I
<1> QED
    BY <1>1, <1>2, PostingsTyped

(* An entry more in the journal, and its effect on every balance.          *)
LEMMA SumsStep ==
    ASSUME Inv, SumsOK, Next
    PROVE  SumsOK'
<1>1. ASSUME NEW c \in Calls, StoreEntry(c) PROVE SumsOK'
  <2>1. c \notin posted /\ posted' = posted \cup {c} /\ posted \subseteq Calls
    BY <1>1, StoredEntry, Zenon DEF Inv, LedgerTypeOK
  <2>2. IsFiniteSet(posted')
    BY <2>1, FS_AddElement DEF SumsOK
  <2>3. ASSUME NEW a \in Accounts
        PROVE  balance'[a] = SumFunctionOnSet(EffectOn(a), posted')
    <3> DEFINE f == EffectOn(a)
    <3>1. \A d \in posted \cup {c} : f[d] \in Int
      BY <2>1, EffectOnIsInt
    <3> HIDE DEF f
    <3>2. SumFunctionOnSet(f, posted \cup {c}) = f[c] + SumFunctionOnSet(f, posted)
      BY <2>1, <3>1, SumAdd DEF SumsOK
    <3>3. balance'[a] = balance[a] + f[c]
      BY <1>1, StoreAddsEffect, EffectOnAccount, Zenon DEF f
    <3>4. balance[a] = SumFunctionOnSet(f, posted)
      BY Zenon DEF SumsOK, f
    <3>5. f[c] \in Int /\ SumFunctionOnSet(f, posted) \in Int
      BY <3>1, SumInt DEF SumsOK
    <3>6. balance'[a] = SumFunctionOnSet(f, posted \cup {c})
      BY <3>2, <3>3, <3>4, <3>5
    <3> QED
      BY <2>1, <3>6, Zenon DEF f
  <2>4. \A a \in Accounts : EffectOn(a)' = EffectOn(a)
    BY DEF EffectOn, SumWhere, Amounts
  <2> QED
    BY <2>2, <2>3, <2>4, Zenon DEF SumsOK
<1>2. ASSUME posted' = posted, balance' = balance PROVE SumsOK'
  <2>1. \A a \in Accounts : EffectOn(a)' = EffectOn(a)
    BY DEF EffectOn, SumWhere, Amounts
  <2> QED
    BY <1>2, <2>1, Zenon DEF SumsOK
<1> QED
    BY <1>1, <1>2, StoreOrKeep

(* Every balance is the sum of the postings of its account, for any number *)
(* of calls, entries and retries: Reconcile never reports a discrepancy.   *)
THEOREM BalancesAlwaysReconcile == Spec => []Reconciles
<1>1. ASSUME Init PROVE SumsOK
    BY <1>1, SumEmpty, FS_EmptySet DEF Init, Zero, SumsOK
<1>2. Inv /\ SumsOK /\ [Next]_vars => SumsOK'
  <2>1. ASSUME SumsOK, UNCHANGED vars PROVE SumsOK'
    BY <2>1, Zenon DEF SumsOK, EffectOn, SumWhere, Amounts, vars
  <2> QED
    BY <2>1, SumsStep
<1>3. Inv /\ SumsOK => Reconciles
  <2> SUFFICES ASSUME Inv, SumsOK PROVE Reconciles
    OBVIOUS
  <2>1. opened \subseteq Accounts
    BY DEF Inv, LedgerTypeOK
  <2> QED
    BY <2>1 DEF SumsOK, Reconciles, Discrepancies
<1> QED
    BY <1>1, <1>2, <1>3, LedgerInvariant, PTL DEF Spec

(* The effects of a stored entry on the accounts of one currency cancel    *)
(* out: they are the postings in that currency, which are balanced.        *)
LEMMA EffectsCancelOut ==
    ASSUME Inv, NEW c \in Calls, StoreEntry(c), NEW k
    PROVE  SumFunctionOnSet(Effect(EntryOf[c]), {a \in Accounts : CurrencyOf[a] = k}) = 0
<1> DEFINE ps == EntryOf[c].postings
           B == {a \in Accounts : CurrencyOf[a] = k}
           account == [i \in DOMAIN ps |-> ps[i].account]
<1>1. ps \in Seq(Postings)
    BY EntriesAssumption
<1>2. /\ \A i \in DOMAIN ps : ps[i].account \in Accounts
      /\ \A i \in DOMAIN ps : ps[i].currency = CurrencyOf[ps[i].account]
    BY StoredEntry, Zenon
<1>3. IsFiniteSet(B)
    BY RowsAssumption, FS_Subset
<1>4. \A a \in B : Effect(EntryOf[c])[a] =
          SumFunctionOnSet(Amounts(ps), {i \in DOMAIN ps : account[i] = a})
  <2>1. \A a : {i \in DOMAIN ps : account[i] = a} = {i \in DOMAIN ps : ps[i].account = a}
    OBVIOUS
  <2> QED
    BY <2>1, Zenon DEF Effect
<1>5. {i \in DOMAIN ps : account[i] \in B} = {i \in DOMAIN ps : ps[i].currency = k}
  <2>1. \A i \in DOMAIN ps : account[i] = ps[i].account
    OBVIOUS
  <2> HIDE DEF ps, account
  <2> QED
    BY <1>2, <2>1
<1>6. SumFunctionOnSet(Amounts(ps), {i \in DOMAIN ps : ps[i].currency = k}) = 0
  <2>1. BalancedPostings(ps)
    BY StoredEntry, Zenon DEF PrepareError, ValidEntry
  <2>2. CASE k \in {ps[i].currency : i \in DOMAIN ps}
    BY <2>1, <2>2, Zenon DEF BalancedPostings, SumWhere
  <2>3. CASE k \notin {ps[i].currency : i \in DOMAIN ps}
    <3>1. {i \in DOMAIN ps : ps[i].currency = k} = {}
      BY <2>3
    <3> QED
      BY <3>1, SumEmpty, Zenon
  <2> QED
    BY <2>2, <2>3
<1>7. IsFiniteSet(DOMAIN ps) /\ \A i \in DOMAIN ps : Amounts(ps)[i] \in Int
    BY <1>1, PostingsTyped, Zenon
<1> HIDE DEF ps, B, account
<1>8. SumFunctionOnSet(Effect(EntryOf[c]), B) =
          SumFunctionOnSet(Amounts(ps), {i \in DOMAIN ps : account[i] \in B})
    BY <1>3, <1>4, <1>7, SumByKey, SMTT(30)
<1> QED
    BY <1>5, <1>6, <1>8, Zenon DEF B

(* Every step keeps the balances of a currency adding up to zero.          *)
LEMMA BooksStep ==
    ASSUME Inv, BooksBalance, Next
    PROVE  BooksBalance'
<1>1. ASSUME NEW c \in Calls, StoreEntry(c), NEW a \in Accounts
      PROVE  SumFunctionOnSet(balance', {b \in Accounts : CurrencyOf[b] = CurrencyOf[a]}) = 0
  <2> DEFINE B == {b \in Accounts : CurrencyOf[b] = CurrencyOf[a]}
             f == Effect(EntryOf[c])
  <2>1. IsFiniteSet(B) /\ B \subseteq Accounts
    BY RowsAssumption, FS_Subset
  <2>2. SumFunctionOnSet(balance, B) = 0 /\ SumFunctionOnSet(f, B) = 0
    BY <1>1, EffectsCancelOut, Zenon DEF BooksBalance
  <2>3. \A b \in B : balance'[b] = balance[b] + f[b]
    BY <1>1, <2>1, StoreAddsEffect, ZenonT(30)
  <2>4. \A b \in B : balance[b] \in Int /\ f[b] \in Int
    BY <2>1, EffectIsChange, MaxMinorAssumption, SMTT(30) DEF Inv, LedgerTypeOK, Minor
  <2> HIDE DEF B, f
  <2>5. SumFunctionOnSet(balance', B) = SumFunctionOnSet(balance, B) + SumFunctionOnSet(f, B)
    BY <2>1, <2>3, <2>4, SumPlus
  <2>6. SumFunctionOnSet(balance', B) = 0
    BY <2>2, <2>5
  <2> QED
    BY <2>6, Zenon DEF B
<1> QED
    BY <1>1, StoreOrKeep DEF BooksBalance

(* In every currency the balances of all accounts add up to zero: money is *)
(* neither made nor lost, whatever entries are posted and interrupted.     *)
THEOREM BooksAlwaysBalance == Spec => []BooksBalance
<1>1. ASSUME Init PROVE BooksBalance
  <2> SUFFICES ASSUME NEW a \in Accounts
               PROVE  SumFunctionOnSet(balance, {b \in Accounts : CurrencyOf[b] = CurrencyOf[a]}) = 0
    BY Zenon DEF BooksBalance
  <2> DEFINE B == {b \in Accounts : CurrencyOf[b] = CurrencyOf[a]}
  <2>1. IsFiniteSet(B) /\ \A b \in B : balance[b] = 0
    BY <1>1, RowsAssumption, FS_Subset DEF Init, Zero
  <2> HIDE DEF B
  <2>2. SumFunctionOnSet(balance, B) = 0
    BY <2>1, SumZero
  <2> QED
    BY <2>2, Zenon DEF B
<1>2. Inv /\ BooksBalance /\ [Next]_vars => BooksBalance'
  <2>1. ASSUME BooksBalance, UNCHANGED vars PROVE BooksBalance'
    BY <2>1 DEF BooksBalance, vars
  <2> QED
    BY <2>1, BooksStep
<1> QED
    BY <1>1, <1>2, LedgerInvariant, PTL DEF Spec

------------------------------------------------------------------------------
(* Reversals.                                                              *)

(* What Reverse does to the postings: the same accounts and currencies,    *)
(* every amount negated.                                                   *)
LEMMA ReversedPostings ==
    ASSUME NEW e, NEW id, e.postings \in Seq(Postings)
    PROVE  /\ DOMAIN Reverse(e, id).postings = DOMAIN e.postings
           /\ Len(Reverse(e, id).postings) = Len(e.postings)
           /\ \A i \in DOMAIN e.postings :
                 /\ Reverse(e, id).postings[i].account = e.postings[i].account
                 /\ Reverse(e, id).postings[i].currency = e.postings[i].currency
                 /\ Reverse(e, id).postings[i].amount = -e.postings[i].amount
<1> DEFINE ps == e.postings
           qs == Reverse(e, id).postings
<1>1. qs = [i \in DOMAIN ps |-> [ps[i] EXCEPT !.amount = -@]]
    BY DEF Reverse
<1>2. DOMAIN qs = DOMAIN ps
    BY <1>1
<1>3. DOMAIN ps = 1 .. Len(ps) /\ Len(ps) \in Nat
    OBVIOUS
<1>4. Len(qs) = Len(ps)
  <2> HIDE DEF ps, qs
  <2> QED
    BY <1>2, <1>3
<1>5. ASSUME NEW i \in DOMAIN ps
      PROVE  /\ qs[i].account = ps[i].account
             /\ qs[i].currency = ps[i].currency
             /\ qs[i].amount = -ps[i].amount
  <2>1. ps[i] \in Postings
    BY <1>3
  <2>2. qs[i] = [ps[i] EXCEPT !.amount = -@]
    BY <1>1
  <2> HIDE DEF ps, qs
  <2> QED
    BY <2>1, <2>2 DEF Postings
<1> QED
    BY <1>2, <1>4, <1>5, Zenon

(* So every sum over a set of postings is negated.                         *)
LEMMA ReversedSums ==
    ASSUME NEW e, NEW id, e.postings \in Seq(Postings), NEW I \in SUBSET DOMAIN e.postings
    PROVE  /\ SumFunctionOnSet(Amounts(e.postings), I) \in Int
           /\ SumFunctionOnSet(Amounts(Reverse(e, id).postings), I) =
                 -SumFunctionOnSet(Amounts(e.postings), I)
<1> DEFINE f == Amounts(e.postings)
           g == Amounts(Reverse(e, id).postings)
<1>1. IsFiniteSet(I) /\ \A i \in I : f[i] \in Int
    BY PostingsTyped, FS_Subset
<1>2. \A i \in I : g[i] = -f[i]
    BY ReversedPostings DEF Amounts
<1> HIDE DEF f, g
<1>3. SumFunctionOnSet(f, I) \in Int
    BY <1>1, SumInt
<1>4. SumFunctionOnSet(g, I) = -SumFunctionOnSet(f, I)
    BY <1>1, <1>2, SumNegate
<1> QED
    BY <1>3, <1>4, Zenon DEF f, g

(* And the aggregates of preparePostings are on the same accounts, in      *)
(* the same currencies and negated.                                        *)
LEMMA ReversedAccounts ==
    ASSUME NEW e, NEW id, e.postings \in Seq(Postings)
    PROVE  /\ AccountsOf(Reverse(e, id)) = AccountsOf(e)
           /\ \A a : CurrenciesIn(Reverse(e, id), a) = CurrenciesIn(e, a)
           /\ \A a \in AccountsOf(e) :
                 Changes(e)[a] \in Int /\ Changes(Reverse(e, id))[a] = -Changes(e)[a]
<1> DEFINE ps == e.postings
           r == Reverse(e, id)
           qs == r.postings
           At(a) == {i \in DOMAIN ps : ps[i].account = a}
<1>1. /\ DOMAIN qs = DOMAIN ps
      /\ \A i \in DOMAIN ps : qs[i].account = ps[i].account /\ qs[i].currency = ps[i].currency
    BY ReversedPostings, Zenon
<1>2. AccountsOf(r) = AccountsOf(e)
  <2> HIDE DEF r
  <2> QED
    BY <1>1 DEF AccountsOf
<1>3. ASSUME NEW a PROVE {i \in DOMAIN qs : qs[i].account = a} = At(a)
  <2> HIDE DEF r
  <2> QED
    BY <1>1
<1>4. ASSUME NEW a PROVE CurrenciesIn(r, a) = CurrenciesIn(e, a)
  <2> HIDE DEF r
  <2>1. At(a) \subseteq DOMAIN ps
    OBVIOUS
  <2>2. CurrenciesIn(r, a) = {qs[i].currency : i \in At(a)}
    BY <1>3, Zenon DEF CurrenciesIn
  <2>3. CurrenciesIn(e, a) = {ps[i].currency : i \in At(a)}
    BY Zenon DEF CurrenciesIn
  <2> HIDE DEF At
  <2> QED
    BY <1>1, <2>1, <2>2, <2>3
<1>5. ASSUME NEW a \in AccountsOf(e)
      PROVE  Changes(e)[a] \in Int /\ Changes(r)[a] = -Changes(e)[a]
  <2>1. Changes(e)[a] = SumFunctionOnSet(Amounts(ps), At(a))
    BY DEF Changes, SumWhere
  <2>2. Changes(r)[a] = SumFunctionOnSet(Amounts(qs), {i \in DOMAIN qs : qs[i].account = a})
    BY <1>2 DEF Changes, SumWhere
  <2>3. At(a) \in SUBSET DOMAIN ps
    OBVIOUS
  <2> HIDE DEF At
  <2>4. /\ SumFunctionOnSet(Amounts(ps), At(a)) \in Int
        /\ SumFunctionOnSet(Amounts(qs), At(a)) = -SumFunctionOnSet(Amounts(ps), At(a))
    BY <2>3, ReversedSums, Zenon
  <2> QED
    BY <1>3, <2>1, <2>2, <2>4, Zenon
<1> QED
    BY <1>2, <1>4, <1>5, Zenon

(* Whatever JournalEntry.Reverse agrees to reverse, it turns into a valid  *)
(* entry on the same accounts whose aggregate effect on each of them is    *)
(* the exact opposite, and that prepareEntry accepts when it accepted the  *)
(* original and no aggregate effect is the one amount without an opposite. *)
THEOREM ReversalIsTheOpposite ==
    ASSUME NEW e, NEW id, e.postings \in Seq(Postings), CanReverse(e, id)
    PROVE  /\ ValidEntry(Reverse(e, id))
           /\ AccountsOf(Reverse(e, id)) = AccountsOf(e)
           /\ \A a \in AccountsOf(e) : Changes(Reverse(e, id))[a] = -Changes(e)[a]
           /\ /\ PrepareError(e) = "none"
              /\ \A a \in AccountsOf(e) : CanNegate(Changes(e)[a])
              => PrepareError(Reverse(e, id)) = "none"
<1> DEFINE ps == e.postings
           r == Reverse(e, id)
           qs == r.postings
<1>1. /\ DOMAIN qs = DOMAIN ps /\ Len(qs) = Len(ps)
      /\ \A i \in DOMAIN ps : qs[i].currency = ps[i].currency /\ qs[i].amount = -ps[i].amount
    BY ReversedPostings, Zenon
<1>2. BalancedPostings(qs)
  <2> SUFFICES ASSUME NEW c \in {qs[i].currency : i \in DOMAIN qs}
               PROVE  SumWhere(qs, LAMBDA p : p.currency = c) = 0
    BY Zenon DEF BalancedPostings
  <2> DEFINE I == {i \in DOMAIN ps : ps[i].currency = c}
  <2>1. I \in SUBSET DOMAIN ps
    OBVIOUS
  <2>2. SumFunctionOnSet(Amounts(ps), I) = 0
    <3>1. BalancedPostings(ps)
      BY Zenon DEF CanReverse, ValidEntry
    <3>2. c \in {ps[i].currency : i \in DOMAIN ps}
      <4> HIDE DEF r
      <4> QED
        BY <1>1
    <3> QED
      BY <3>1, <3>2, Zenon DEF BalancedPostings, SumWhere
  <2>3. {i \in DOMAIN qs : qs[i].currency = c} = I
    <3> HIDE DEF r
    <3> QED
      BY <1>1
  <2> HIDE DEF I
  <2>4. SumFunctionOnSet(Amounts(qs), I) = 0
    BY <2>1, <2>2, ReversedSums
  <2> QED
    BY <2>3, <2>4, Zenon DEF SumWhere
<1>3. ValidEntry(r)
  <2>1. r.reverses # r.id
    BY DEF Reverse, CanReverse
  <2>2. Len(qs) \in MinPostings .. MaxPostings
    BY <1>1, Zenon DEF CanReverse, ValidEntry
  <2>3. ASSUME NEW i \in DOMAIN qs PROVE ValidPosting(qs[i])
    <3>1. ValidPosting(ps[i]) /\ qs[i].amount = -ps[i].amount
      BY <1>1, <2>3, Zenon DEF CanReverse, ValidEntry
    <3> HIDE DEF r
    <3> QED
      BY <3>1, MaxMinorAssumption, SMTT(30) DEF ValidPosting, Minor
  <2> QED
    BY <1>2, <2>1, <2>2, <2>3, Zenon DEF ValidEntry
<1>4. ASSUME PrepareError(e) = "none", \A a \in AccountsOf(e) : CanNegate(Changes(e)[a])
      PROVE  PrepareError(r) = "none"
  <2>1. \A a \in AccountsOf(e) : ~(Cardinality(CurrenciesIn(e, a)) > 1)
    BY <1>4 DEF PrepareError
  <2>2. \A a \in AccountsOf(e) : Changes(e)[a] \in Minor
    BY <1>4 DEF PrepareError
  <2>3. \A a \in AccountsOf(r) : ~(Cardinality(CurrenciesIn(r, a)) > 1)
    BY <2>1, ReversedAccounts, Zenon
  <2>4. ASSUME NEW a \in AccountsOf(r) PROVE Changes(r)[a] \in Minor
    <3>1. /\ Changes(e)[a] \in Minor /\ CanNegate(Changes(e)[a])
          /\ Changes(r)[a] = -Changes(e)[a]
      BY <1>4, <2>2, <2>4, ReversedAccounts, Zenon
    <3> HIDE DEF r
    <3> QED
      BY <3>1, MaxMinorAssumption DEF CanNegate, Minor
  <2> HIDE DEF r
  <2> QED
    BY <1>3, <2>3, <2>4, Zenon DEF PrepareError
<1> QED
    BY <1>3, <1>4, ReversedAccounts, Zenon

------------------------------------------------------------------------------
(* Stored entries.                                                         *)
PostedOK ==
    \A c \in posted : PrepareError(EntryOf[c]) = "none" /\ SourceIsPosted(EntryOf[c])

(* Only entries that prepareEntry accepts are stored, and reversals only   *)
(* after their source.                                                     *)
LEMMA PostedStep ==
    ASSUME Inv, PostedOK, Next
    PROVE  PostedOK'
<1>1. ASSUME NEW c \in Calls, StoreEntry(c) PROVE PostedOK'
  <2>1. posted' = posted \cup {c} /\ phase[c] = "locking"
    BY <1>1, Zenon DEF StoreEntry
  <2>2. PrepareError(EntryOf[c]) = "none" /\ SourceIsPosted(EntryOf[c])
    BY <2>1, SMTT(30) DEF Inv, PhasesOK, SnapshotsOK, refusal
  <2> QED
    BY <2>1, <2>2 DEF PostedOK, SourceIsPosted
<1>2. (\E c \in Calls : StoreEntry(c)) \/ posted' = posted
    BY StepCases, Zenon DEF CreateWallet, MakeReady, Open, Hold, Finish, Ends, tables
<1> QED
    BY <1>1, <1>2, SMTT(30) DEF PostedOK, SourceIsPosted

(* An entry that prepareEntry accepts is valid, with its source and        *)
(* without.                                                                *)
LEMMA WithoutSource ==
    ASSUME NEW c \in Calls, PrepareError(EntryOf[c]) = "none"
    PROVE  /\ ValidEntry(EntryOf[c])
           /\ ValidEntry([EntryOf[c] EXCEPT !.reverses = NoSource])
<1> DEFINE e == EntryOf[c]
           f == [e EXCEPT !.reverses = NoSource]
<1>1. ValidEntry(e)
    BY DEF PrepareError
<1>2. f.id = e.id /\ f.postings = e.postings /\ f.reverses = NoSource /\ e.id # NoSource
  <2>1. e.id # NoSource /\ DOMAIN e = {"id", "reverses", "postings"}
    BY EntriesAssumption, Zenon
  <2> HIDE DEF e
  <2> QED
    BY <2>1
<1> HIDE DEF e, f
<1>3. ValidEntry(f)
    BY <1>1, <1>2 DEF ValidEntry
<1> QED
    BY <1>1, <1>3 DEF e, f

(* restoreEntry can rebuild every stored entry.                            *)
LEMMA PostedIsRestorable ==
    ASSUME LedgerTypeOK, PostedOK, NEW c \in posted
    PROVE  Restorable(EntryOf[c], {EntryOf[d] : d \in posted})
<1> DEFINE e == EntryOf[c]
<1>0. posted \subseteq Calls
    BY DEF LedgerTypeOK
<1>1. ValidEntry(e) /\ ValidEntry([e EXCEPT !.reverses = NoSource])
    BY <1>0, WithoutSource DEF PostedOK
<1>2. ASSUME e.reverses # NoSource
      PROVE  \E s \in {EntryOf[d] : d \in posted} :
                /\ s.id = e.reverses
                /\ CanReverse([s EXCEPT !.reverses = NoSource], e.id)
                /\ e.postings = Reverse(s, e.id).postings
  <2>1. PICK d \in posted : /\ EntryOf[d].id = e.reverses
                            /\ e.postings = Reverse(EntryOf[d], e.id).postings
    BY <1>2 DEF PostedOK, SourceIsPosted
  <2> DEFINE f == [EntryOf[d] EXCEPT !.reverses = NoSource]
  <2>2. ValidEntry(f)
    BY <1>0, WithoutSource DEF PostedOK
  <2>3. f.id = EntryOf[d].id
    BY <1>0, EntriesAssumption
  <2>4. e.id # f.id
    BY <1>1, <2>1, <2>3, Zenon DEF ValidEntry
  <2> HIDE DEF f
  <2>5. \A i \in DOMAIN f.postings : CanNegate(f.postings[i].amount)
    BY <2>2, SMTT(30) DEF ValidEntry, ValidPosting, CanNegate
  <2>6. CanReverse(f, e.id)
    BY <2>2, <2>4, <2>5, SMTT(30) DEF CanReverse
  <2> QED
    BY <2>1, <2>6, Zenon DEF f
<1> QED
    BY <1>1, <1>2 DEF Restorable

(* Get and restoreEntry can rebuild every entry that Post stores, for any  *)
(* entries and reversals of them.                                          *)
THEOREM EntriesStayRestorable == Spec => []EveryEntryIsRestorable
<1>1. Init => PostedOK
    BY DEF Init, PostedOK
<1>2. Inv /\ PostedOK /\ [Next]_vars => PostedOK'
  <2>1. ASSUME PostedOK, UNCHANGED vars PROVE PostedOK'
    BY <2>1 DEF PostedOK, SourceIsPosted, vars
  <2> QED
    BY <2>1, PostedStep
<1>3. Inv /\ PostedOK => EveryEntryIsRestorable
    BY PostedIsRestorable, Zenon DEF Inv, EveryEntryIsRestorable
<1> QED
    BY <1>1, <1>2, <1>3, LedgerInvariant, PTL DEF Spec

------------------------------------------------------------------------------
(* The refinement.  The abstract ledger judges entries by its own copies   *)
(* of the operators of JournalEntry.                                       *)
told == [c \in Calls |-> IF answer[c] \in Refusals THEN "refused" ELSE answer[c]]

(* AtomicLedger reads an entry as Ledger does.                             *)
LEMMA SameEntryOperators ==
    \A e : /\ Atomic!AccountsOf(e) = AccountsOf(e)
           /\ Atomic!Changes(e) = Changes(e)
           /\ \A a : Atomic!CurrencyIn(e, a) = CurrencyIn(e, a)
           /\ \A id : Atomic!Reverse(e, id) = Reverse(e, id)
           /\ Atomic!PrepareError(e) = PrepareError(e)
<1>1. \A e : Atomic!AccountsOf(e) = AccountsOf(e)
    BY DEF Atomic!AccountsOf, AccountsOf
<1>2. \A e : Atomic!Changes(e) = Changes(e)
    BY DEF Atomic!Changes, Changes, Atomic!AccountsOf, AccountsOf,
           Atomic!SumWhere, SumWhere, Atomic!Amounts, Amounts,
           Atomic!SumFunctionOnSet, SumFunctionOnSet,
           Atomic!FoldFunctionOnSet, FoldFunctionOnSet,
           Atomic!MapThenFoldSet, MapThenFoldSet
<1>3. \A e : \A a : Atomic!CurrencyIn(e, a) = CurrencyIn(e, a)
    BY DEF Atomic!CurrencyIn, CurrencyIn, Atomic!CurrenciesIn, CurrenciesIn
<1>4. \A e : \A id : Atomic!Reverse(e, id) = Reverse(e, id)
    BY Zenon DEF Atomic!Reverse, Reverse
<1>5. \A e : Atomic!PrepareError(e) = PrepareError(e)
    BY DEF Atomic!PrepareError, PrepareError, Atomic!ValidEntry, ValidEntry,
           Atomic!ValidPosting, ValidPosting, Atomic!MinPostings, MinPostings,
           Atomic!MaxPostings, MaxPostings, Atomic!Minor, Minor,
           Atomic!BalancedPostings, BalancedPostings,
           Atomic!CurrenciesIn, CurrenciesIn, Atomic!Changes, Changes,
           Atomic!AccountsOf, AccountsOf, Atomic!SumWhere, SumWhere,
           Atomic!Amounts, Amounts, Atomic!SumFunctionOnSet, SumFunctionOnSet,
           Atomic!FoldFunctionOnSet, FoldFunctionOnSet,
           Atomic!MapThenFoldSet, MapThenFoldSet,
           Atomic!Cardinality, Cardinality
<1> QED
    BY <1>1, <1>2, <1>3, <1>4, <1>5

(* A commit is the one atomic step that posts the entry.                   *)
LEMMA StoreIsPost ==
    ASSUME Inv, NEW c \in Calls, StoreEntry(c)
    PROVE  Atomic!Post(c)
<1> DEFINE e == EntryOf[c]
<1>1. /\ told[c] = "none"
      /\ c \notin posted
      /\ PrepareError(e) = "none"
      /\ SourceIsPosted(e)
  <2>1. phase[c] = "locking"
    BY SMTT(30) DEF StoreEntry
  <2>2. answer[c] = "none" /\ c \notin posted /\ refusal[c] = "none"
    BY <2>1, SMTT(30) DEF Inv, PhasesOK
  <2>3. "none" \notin Refusals
    BY Zenon DEF Refusals
  <2> QED
    BY <2>1, <2>2, <2>3, SMTT(30) DEF told, refusal, Inv, SnapshotsOK
<1>2. /\ \A d \in posted : EntryOf[d].id # e.id
      /\ e.reverses # NoSource => \A d \in posted : EntryOf[d].reverses # e.reverses
    BY PostErrorValues DEF StoreEntry, Inv, Reversals
<1>3. Atomic!MayEnter(e)
    BY <1>1, <1>2, SameEntryOperators, Zenon
       DEF Atomic!MayEnter, SourceIsPosted, Atomic!NoSource, NoSource
<1>4. /\ Rows(c) = AccountsOf(e) /\ Rows(c) \subseteq opened /\ Rows(c) \subseteq Accounts
      /\ \A a \in Rows(c) : /\ CurrencyOf[a] = CurrencyIn(e, a)
                            /\ RowError(balance, changes[c], a) = "none"
    BY StoreFacts, Zenon
<1>5. changes[c] = Changes(e) /\ DOMAIN changes[c] = AccountsOf(e)
    BY ChangesOfCalls, Zenon
<1>6. \A a \in Rows(c) : Atomic!RowError(balance, Changes(e), a) = "none"
    BY <1>4, <1>5, SMTT(30) DEF RowError, Atomic!RowError, Minor, Atomic!Minor
<1>7. Atomic!Affordable(e)
    BY <1>4, <1>6, SameEntryOperators, Zenon DEF Atomic!Affordable
<1>8. balance' = Atomic!ApplyChange(balance, Changes(e))
  <2>1. \A a \in Accounts : balance'[a] = IF a \in DOMAIN Changes(e)
                                          THEN balance[a] + Changes(e)[a] ELSE balance[a]
    <3> HIDE DEF e
    <3>1. /\ \A a \in Rows(c) : balance'[a] = balance[a] + changes[c][a]
          /\ \A a \in Accounts \ Rows(c) : balance'[a] = balance[a]
      BY StoreFacts, Zenon
    <3> QED
      BY <1>4, <1>5, <3>1, SMTT(30)
  <2>2. balance' = [a \in Accounts |-> balance'[a]]
    BY Zenon DEF StoreEntry
  <2> QED
    BY <2>1, <2>2, Zenon DEF Atomic!ApplyChange
<1>9. /\ posted' = posted \cup {c}
      /\ opened' = opened
      /\ told' = told
    BY Zenon DEF StoreEntry, told
<1> QED
    BY <1>1, <1>3, <1>7, <1>8, <1>9, SameEntryOperators, ZenonT(30) DEF Atomic!Post, told

(* Every return is a reply of the atomic ledger.                           *)
LEMMA FinishIsReply ==
    ASSUME Inv, NEW c \in Calls, NEW a, Finish(c, a)
    PROVE  \E b \in {"success", "refused", "unknown"} : Atomic!Reply(c, b)
<1> DEFINE b == IF a \in Refusals THEN "refused" ELSE a
<1>1. answer[c] = "none" /\ "none" \notin Refusals
      /\ "success" \notin Refusals /\ "unknown" \notin Refusals /\ "refused" \notin Refusals
    BY SMTT(30) DEF Finish, Inv, PhasesOK, Refusals
<1>2. b \in {"success", "refused", "unknown"} /\ (b = "success" => a = "success")
      /\ (b = "refused" => a \in Refusals)
    BY <1>1 DEF Finish
<1>3. UNCHANGED <<opened, posted, balance>>
    BY DEF Finish, Ends, tables
<1>4. answer' = [answer EXCEPT ![c] = a] /\ DOMAIN answer = Calls
    BY DEF Finish, Return, Inv, LedgerTypeOK
<1>5. told' = [told EXCEPT ![c] = b]
    BY <1>4, Zenon DEF told
<1>6. told[c] = "none"
    BY <1>1 DEF told
<1>7. (b = "success" => c \in posted) /\ (b = "refused" => c \notin posted)
    BY <1>2 DEF Finish, Inv, PhasesOK
<1> HIDE DEF b
<1>8. Atomic!Reply(c, b)
    BY <1>3, <1>5, <1>6, <1>7 DEF Atomic!Reply, told
<1> QED
    BY <1>2, <1>8, Zenon

(* The attempts of Post implement the atomic ledger: the entries in the    *)
(* journal were each valid, affordable and new at the moment they were     *)
(* stored, and no caller is told otherwise.                                *)
THEOREM LedgerImplementsAtomicLedger == Spec => ImplementsAtomicLedger
<1>1. ASSUME Init PROVE Atomic!Init
  <2>1. "none" \notin Refusals
    BY DEF Refusals
  <2> QED
    BY <1>1, <2>1 DEF Init, Zero, Atomic!Init
<1>2. Inv /\ [Next]_vars => [Atomic!Next]_(Atomic!vars)
  <2>1. ASSUME Inv, NEW r \in WalletRequests, CreateWallet(r) PROVE Atomic!Next
    <3> DEFINE A == {a \in AccountsOfWallet(r.wallet) :
                        \E i \in DOMAIN r.currencies : CurrencyOf[a] = r.currencies[i]}
    <3>1. A \in SUBSET Accounts
      BY DEF AccountsOfWallet
    <3>2. Atomic!Open(A)
      BY <2>1, Zenon DEF CreateWallet, Atomic!Open
    <3> QED
      BY <3>1, <3>2 DEF Atomic!Next
  <2>2. ASSUME NEW c \in Calls, MakeReady(c) \/ Open(c) \/ \E a : Hold(c, a)
        PROVE  UNCHANGED <<opened, posted, balance, answer>>
    BY <2>2, SMTT(30) DEF MakeReady, Open, Hold, Ends, tables
  <2>3. ASSUME UNCHANGED <<opened, posted, balance, answer>> PROVE UNCHANGED Atomic!vars
    BY <2>3 DEF Atomic!vars
  <2>4. ASSUME Inv, Next PROVE Atomic!Next \/ UNCHANGED Atomic!vars
    BY <2>1, <2>2, <2>3, <2>4, StepCases, StoreIsPost, FinishIsReply, ZenonT(30) DEF Atomic!Next
  <2>5. ASSUME UNCHANGED vars PROVE UNCHANGED Atomic!vars
    BY <2>3, <2>5 DEF vars
  <2> QED
    BY <2>4, <2>5
<1> QED
    BY <1>1, <1>2, LedgerInvariant, PTL DEF Spec, ImplementsAtomicLedger, Atomic!Spec
==============================================================================
