--------------------------- MODULE JobLocksProofs ---------------------------
(***************************************************************************)
(* Proofs about JobLocks: one task holds the lock of a key whatever the    *)
(* number of tasks, and those that wait for it take it first come first    *)
(* served (KeepsTurns, the refinement of Turns).                           *)
(* Then of Unattended, which runs under one such lock: what a pass moves   *)
(* is what its last questions allow, within the cap.                       *)
(* And of Deliveries, which takes turns at an instance's lock: once nobody *)
(* is left to read the Arr, the titles kept are the Arr's.                 *)
(***************************************************************************)
EXTENDS JobLocks, FiniteSets, FiniteSetTheorems, TLAPS

(* The one permit is free, on its way to a task, or held. *)
OnePermit ==
  /\ permits \in {0, 1}
  /\ permits = 1 <=> given = {} /\ running = {}
  /\ given = {} \/ running = {}
  /\ \A t, u \in given : t = u
  /\ \A t, u \in running : t = u

(* Nobody waits for a free permit, nor once it has one. *)
WaitersWait ==
  /\ permits = 1 => queue = {}
  /\ queue \cap (given \cup running) = {}

(* The queue is a line: of two in it, one is ahead of the other. *)
OneLine ==
  /\ \A t \in Tasks : ahead[t] \subseteq queue \ {t}
  /\ \A t \in Tasks \ queue : ahead[t] = {}
  /\ \A t, u \in queue : t # u => t \in ahead[u] \/ u \in ahead[t]

IInv == TypeOK /\ OnePermit /\ WaitersWait /\ OneLine

-----------------------------------------------------------------------------
LEMMA InitIInv == Init => IInv
  BY DEF Init, IInv, TypeOK, OnePermit, WaitersWait, OneLine

(* A permit that comes back goes to the first of the queue, or is free.    *)
LEMMA BackIInv ==
  ASSUME IInv, given # {} \/ running # {}, running' = {}, Back({})
  PROVE  IInv'
<1>1. permits = 0
  BY DEF IInv, OnePermit
<1>2. CASE queue = {}
  <2>1. permits' = 1 /\ given' = {} /\ queue' = queue /\ ahead' = ahead
    BY <1>1, <1>2 DEF Back
  <2> QED BY <1>2, <2>1 DEF IInv, TypeOK, OnePermit, WaitersWait, OneLine
<1>3. CASE queue # {}
  <2>1. PICK t \in queue :
          /\ queue' = queue \ {t}
          /\ ahead' = [u \in Tasks |-> IF u = t THEN {} ELSE ahead[u] \ {t}]
          /\ given' = {t} /\ permits' = permits
    BY <1>3 DEF Back
  <2>2. TypeOK'
    BY <2>1 DEF IInv, TypeOK
  <2>3. OnePermit' /\ WaitersWait'
    BY <1>1, <2>1 DEF IInv, TypeOK, OnePermit, WaitersWait
  <2>4. OneLine'
    BY <2>1 DEF IInv, TypeOK, OneLine
  <2> QED BY <2>2, <2>3, <2>4 DEF IInv
<1> QED BY <1>2, <1>3

(* Every step keeps the permit one and the line a line. *)
LEMMA NextIInv == IInv /\ [Next]_vars => IInv'
<1> SUFFICES ASSUME IInv, [Next]_vars PROVE IInv'
  OBVIOUS
<1> USE DEF IInv, TypeOK, OnePermit, WaitersWait, OneLine
<1>1. ASSUME NEW t \in Tasks, TryLock(t) PROVE IInv'
  BY <1>1 DEF TryLock, Out
<1>2. ASSUME NEW t \in Tasks, LockWithin(t) PROVE IInv'
  <2>1. CASE permits > 0
    BY <1>2, <2>1 DEF LockWithin, Out
  <2>2. CASE ~ permits > 0
    <3>1. /\ t \notin queue \cup given \cup running
          /\ queue' = queue \cup {t} /\ ahead' = [ahead EXCEPT ![t] = queue]
          /\ permits' = permits /\ running' = running /\ given' = given
      BY <1>2, <2>2 DEF LockWithin, Out
    <3>2. permits = 0
      BY <2>2
    <3>3. TypeOK' /\ OnePermit' /\ WaitersWait'
      BY <3>1, <3>2
    <3>4. OneLine'
      BY <3>1
    <3> QED BY <3>3, <3>4
  <2> QED BY <2>1, <2>2
<1>3. ASSUME NEW t \in Tasks, Wakes(t) PROVE IInv'
  BY <1>3 DEF Wakes
<1>4. ASSUME NEW t \in Tasks, GivesUp(t) PROVE IInv'
  BY <1>4 DEF GivesUp
<1>5. ASSUME NEW t \in Tasks, HangsUp(t) PROVE IInv'
  <2>1. given \ {t} = {} /\ given # {} /\ running' = {}
    BY <1>5 DEF HangsUp
  <2>2. Back({})
    BY <1>5, <2>1 DEF HangsUp, Back
  <2> QED BY <2>1, <2>2, BackIInv
<1>6. ASSUME NEW t \in Tasks, Release(t) PROVE IInv'
  <2>1. given = {} /\ running # {} /\ running' = {}
    BY <1>6 DEF Release
  <2>2. Back({})
    BY <1>6, <2>1 DEF Release, Back
  <2> QED BY <2>1, <2>2, BackIInv
<1>7. CASE UNCHANGED vars
  BY <1>7 DEF vars
<1> QED BY <1>1, <1>2, <1>3, <1>4, <1>5, <1>6, <1>7 DEF Next

(* The registry gives the lock of a key to one task at a time, and nobody  *)
(* waits for it while it is free (jobs/registry.rs: try_lock, lock_within, *)
(* the drop of a JobLock).                                                 *)
THEOREM OneHolder == Spec => []IInv
  BY InitIInv, NextIInv, PTL DEF Spec

-----------------------------------------------------------------------------
(* The holder seen by Turns is the task that runs. *)
LEMMA HolderIs ==
  ASSUME NEW t \in Tasks, running = {t}
  PROVE  holder = t
<1>1. (CHOOSE u \in Tasks : u \in {t}) = t
  OBVIOUS
<1> QED BY <1>1 DEF holder

LEMMA HolderIsNow ==
  ASSUME NEW t \in Tasks, running' = {t}
  PROVE  holder' = t
<1>1. (CHOOSE u \in Tasks : u \in {t}) = t
  OBVIOUS
<1> QED BY <1>1 DEF holder

(* A permit that comes back leaves those of the queue in line, each behind *)
(* those that were ahead of it: one given the permit is ahead of the rest. *)
LEMMA BackLine ==
  ASSUME IInv, given # {} \/ running # {}, running' = {}, Back({})
  PROVE  /\ line' = queue
         /\ before' = [u \in Tasks |-> IF u \in queue THEN ahead[u] ELSE {}]
         /\ holder' = None
<1>1. holder' = None
  BY DEF holder
<1>2. CASE queue = {}
  BY <1>1, <1>2 DEF Back, line, before
<1>3. CASE queue # {}
  <2>1. PICK t \in queue :
          /\ ahead[t] = {}
          /\ queue' = queue \ {t}
          /\ ahead' = [u \in Tasks |-> IF u = t THEN {} ELSE ahead[u] \ {t}]
          /\ given' = {t}
    BY <1>3 DEF Back
  <2>2. line' = queue
    BY <2>1 DEF line
  <2>3. ASSUME NEW u \in Tasks
        PROVE  (IF u \in queue' THEN ahead'[u] \cup given' ELSE {})
                 = (IF u \in queue THEN ahead[u] ELSE {})
    <3>1. CASE u \in queue /\ u # t
      <4>1. t \in ahead[u]
        BY <2>1, <3>1 DEF IInv, OneLine
      <4> QED BY <2>1, <3>1, <4>1
    <3>2. CASE ~ (u \in queue /\ u # t)
      BY <2>1, <3>2
    <3> QED BY <3>1, <3>2
  <2>4. before' = [u \in Tasks |-> IF u \in queue' THEN ahead'[u] \cup given' ELSE {}]
    BY DEF before
  <2> QED BY <1>1, <2>2, <2>3, <2>4
<1> QED BY <1>2, <1>3

(* Every step of the semaphore is a step of Turns, or none. A permit       *)
(* handed on is none: the task is still in the line, nobody before it.     *)
LEMMA StepOfTurns == IInv /\ [Next]_vars => [Line!Next]_<<holder, line, before>>
<1> SUFFICES ASSUME IInv, [Next]_vars PROVE [Line!Next]_<<holder, line, before>>
  OBVIOUS
<1> USE DEF IInv, TypeOK, OnePermit, WaitersWait
<1>1. ASSUME NEW t \in Tasks, Out(t), permits > 0,
             permits' = permits - 1, running' = running \cup {t},
             UNCHANGED <<queue, ahead, given>>
      PROVE  Line!Enter(t)
  <2>1. running = {} /\ given = {} /\ queue = {} /\ running' = {t}
    BY <1>1
  <2>2. holder = None /\ holder' = t
    BY <2>1, HolderIsNow DEF holder
  <2>3. line = {} /\ line' = {}
    BY <1>1, <2>1 DEF line
  <2>4. before' = [u \in Tasks |-> {}] /\ before = [u \in Tasks |-> {}]
    BY <1>1, <2>1 DEF before
  <2> QED BY <2>2, <2>3, <2>4 DEF Line!Enter, Line!Without
<1>2. ASSUME NEW t \in Tasks, TryLock(t) PROVE Line!Enter(t)
  BY <1>1, <1>2 DEF TryLock
<1>3. ASSUME NEW t \in Tasks, LockWithin(t) PROVE Line!Enter(t) \/ Line!Join(t)
  <2>1. CASE permits > 0
    BY <1>1, <1>3, <2>1 DEF LockWithin
  <2>2. CASE ~ permits > 0
    <3>1. /\ t \notin queue \cup given \cup running
          /\ queue' = queue \cup {t} /\ ahead' = [ahead EXCEPT ![t] = queue]
          /\ running' = running /\ given' = given
      BY <1>3, <2>2 DEF LockWithin, Out
    <3>2. t # holder /\ holder' = holder
      <4>1. holder \in running \cup {None}
        BY DEF holder
      <4> QED BY <3>1, <4>1, NoneIsNoTask DEF holder
    <3>3. t \notin line /\ line' = line \cup {t}
      BY <3>1 DEF line
    <3>4. before' = [before EXCEPT ![t] = line]
      BY <3>1 DEF before, line
    <3> QED BY <3>2, <3>3, <3>4 DEF Line!Join
  <2> QED BY <2>1, <2>2
<1>4. ASSUME NEW t \in Tasks, Wakes(t) PROVE Line!Enter(t)
  <2>1. /\ t \in given /\ given' = {} /\ running = {} /\ running' = {t} /\ t \notin queue
        /\ given = {t} /\ queue' = queue /\ ahead' = ahead
    BY <1>4 DEF Wakes
  <2>2. holder = None /\ holder' = t
    BY <2>1, HolderIsNow DEF holder
  <2>3. t \in line /\ before[t] = {} /\ line' = line \ {t}
    BY <2>1 DEF line, before
  <2>4. before' = [u \in Tasks |-> IF u = t THEN {} ELSE before[u] \ {t}]
    <3>1. \A u \in queue : t \notin ahead[u]
      BY <2>1 DEF OneLine
    <3> QED BY <2>1, <3>1 DEF before
  <2> QED BY <2>2, <2>3, <2>4 DEF Line!Enter, Line!Without
<1>5. ASSUME NEW t \in Tasks, GivesUp(t) PROVE Line!Quit(t)
  <2>1. /\ t \in queue /\ queue' = queue \ {t} /\ t \notin given
        /\ ahead' = [u \in Tasks |-> IF u = t THEN {} ELSE ahead[u] \ {t}]
        /\ running' = running /\ given' = given
    BY <1>5 DEF GivesUp
  <2>2. t \in line /\ line' = line \ {t} /\ holder' = holder
    BY <2>1 DEF line, holder
  <2>3. before' = [u \in Tasks |-> IF u = t THEN {} ELSE before[u] \ {t}]
    BY <2>1 DEF before
  <2> QED BY <2>2, <2>3 DEF Line!Quit, Line!Without
<1>6. ASSUME NEW t \in Tasks, HangsUp(t) PROVE Line!Quit(t)
  <2>1. given = {t} /\ given \ {t} = {} /\ running = {} /\ running' = {} /\ t \notin queue
    BY <1>6 DEF HangsUp
  <2>2. Back({})
    BY <1>6, <2>1 DEF HangsUp, Back
  <2>3. /\ line' = queue /\ holder' = None
        /\ before' = [u \in Tasks |-> IF u \in queue THEN ahead[u] ELSE {}]
    BY <2>1, <2>2, BackLine
  <2>4. t \in line /\ line' = line \ {t} /\ holder' = holder
    BY <2>1, <2>3 DEF line, holder
  <2>5. before' = [u \in Tasks |-> IF u = t THEN {} ELSE before[u] \ {t}]
    <3>1. \A u \in queue : (ahead[u] \cup given) \ {t} = ahead[u]
      BY <2>1 DEF OneLine
    <3>2. \A u \in Tasks :
            (IF u = t THEN {} ELSE before[u] \ {t}) = (IF u \in queue THEN ahead[u] ELSE {})
      BY <2>1, <3>1 DEF before
    <3> QED BY <2>3, <3>2
  <2> QED BY <2>4, <2>5 DEF Line!Quit, Line!Without
<1>7. ASSUME NEW t \in Tasks, Release(t) PROVE Line!Leave(t)
  <2>1. given = {} /\ running = {t} /\ running' = {}
    BY <1>7 DEF Release
  <2>2. Back({})
    BY <1>7, <2>1 DEF Release, Back
  <2>3. /\ line' = queue /\ holder' = None
        /\ before' = [u \in Tasks |-> IF u \in queue THEN ahead[u] ELSE {}]
    BY <2>1, <2>2, BackLine
  <2>4. line' = line /\ before' = before
    <3>1. \A u \in Tasks : ahead[u] \cup given = ahead[u]
      BY <2>1
    <3> QED BY <2>1, <2>3, <3>1 DEF line, before
  <2>5. holder = t
    BY <2>1, HolderIs
  <2> QED BY <2>3, <2>4, <2>5 DEF Line!Leave
<1>8. CASE UNCHANGED vars
  BY <1>8 DEF vars, holder, line, before
<1> QED BY <1>2, <1>3, <1>4, <1>5, <1>6, <1>7, <1>8 DEF Next, Line!Next

LEMMA InitOfTurns == Init => Line!Init
  BY DEF Init, Line!Init, holder, line, before

(* The lock of the job registry is the line it promises, for every set of  *)
(* tasks: one at a time, first come first served, whoever gives up or      *)
(* hangs up with a permit on its way (jobs/registry.rs).                   *)
THEOREM RegistryKeepsTurns == Spec => KeepsTurns
<1>1. IInv /\ [Next]_vars => [Line!Next]_<<holder, line, before>>
  BY StepOfTurns
<1> QED BY <1>1, OneHolder, InitOfTurns, PTL DEF Spec, KeepsTurns, Line!Spec

-----------------------------------------------------------------------------
(* The moves applied with nobody watching: the module Unattended, with     *)
(* variables of its own. A pass that got its turn while it was not allowed *)
(* goes no further than asking again (OffStops), what it keeps had no file *)
(* when it looked (KeptHadNone), and what it may still move stays within   *)
(* the cap it chose under (ChosenWithinCap).                               *)

CONSTANTS Titles, Instances, InstanceOf, Passes, Cap, MaxChanges, MaxPasses

VARIABLES
  on, testsPass, filed, known, answering, proposed, turn, pass, heldBack, changes, begun, moved

U == INSTANCE Unattended

Phases == {"idle", "simulated", "waiting", "turn", "asked", "reading"}

PassRecord ==
  [phase : Phases, scope : SUBSET Instances, of : SUBSET Titles, chosen : SUBSET Titles,
   kept : SUBSET Titles, over : SUBSET Instances, filedBefore : SUBSET Titles,
   offBefore : BOOLEAN]

(* What a pass had read of the files is among those there are.             *)
FiledThen == \A p \in Passes : pass[p].filedBefore \subseteq filed

KeptHadNone ==
  \A p \in Passes :
    /\ pass[p].kept \cap pass[p].filedBefore = {}
    /\ pass[p].phase # "reading" => pass[p].kept = {}

OffStops ==
  \A p \in Passes :
    pass[p].offBefore => pass[p].phase = "turn" /\ (~ on \/ ~ testsPass)

ChosenWithinCap ==
  \A p \in Passes, i \in Instances :
    Cardinality(U!OfInstance(pass[p].chosen \cup pass[p].kept, i)) <= Cap

UnattendedInv ==
  /\ pass \in [Passes -> PassRecord]
  /\ on \in BOOLEAN /\ testsPass \in BOOLEAN
  /\ filed \in SUBSET Titles
  /\ moved.titles \in SUBSET Titles
  /\ FiledThen /\ KeptHadNone /\ OffStops /\ ChosenWithinCap /\ U!MovedWithinCap

UnattendedAssumed == U!SomeMove /\ U!EachOfOneInstance /\ U!FiniteLibrary

(* What the instance counts is what is counted here. *)
LEMMA SameCount == \A S : U!Cardinality(S) = Cardinality(S)
  BY Zenon DEF U!Cardinality, Cardinality

LEMMA SomeTitles == UnattendedAssumed => IsFiniteSet(Titles) /\ Cap \in Nat
<1>1. U!IsFiniteSet(Titles) <=> IsFiniteSet(Titles)
  BY Zenon DEF U!IsFiniteSet, IsFiniteSet
<1> QED BY <1>1 DEF UnattendedAssumed, U!SomeMove, U!FiniteLibrary

(* Fewer titles are within the cap too. *)
LEMMA FewerWithinCap ==
  ASSUME UnattendedAssumed, NEW S \in SUBSET Titles, NEW T \in SUBSET S, NEW i,
         Cardinality(U!OfInstance(S, i)) <= Cap
  PROVE  Cardinality(U!OfInstance(T, i)) <= Cap
<1> DEFINE A == U!OfInstance(S, i)
           B == U!OfInstance(T, i)
<1>1. A \in SUBSET Titles /\ B \in SUBSET A
  BY DEF U!OfInstance
<1>2. IsFiniteSet(Titles) /\ Cap \in Nat
  BY SomeTitles
<1> HIDE DEF A, B
<1>3. IsFiniteSet(A)
  BY <1>1, <1>2, FS_Subset
<1>4. IsFiniteSet(B) /\ Cardinality(B) <= Cardinality(A)
  BY <1>1, <1>3, FS_Subset
<1>5. Cardinality(A) \in Nat /\ Cardinality(B) \in Nat
  BY <1>3, <1>4, FS_CardinalityType
<1>6. Cardinality(A) <= Cap
  BY DEF A
<1>7. Cardinality(B) <= Cap
  BY <1>2, <1>4, <1>5, <1>6
<1> QED BY <1>7 DEF B

(* None of an instance is within the cap. *)
LEMMA NoneWithinCap ==
  ASSUME UnattendedAssumed, NEW i
  PROVE  Cardinality(U!OfInstance({}, i)) <= Cap
<1>1. U!OfInstance({}, i) = {} BY DEF U!OfInstance
<1>2. Cardinality({}) = 0 BY FS_EmptySet
<1>3. Cap \in Nat BY DEF UnattendedAssumed, U!SomeMove
<1> QED BY <1>1, <1>2, <1>3

(* What the cap lets through is within it (within_cap). *)
LEMMA LetThrough ==
  ASSUME UnattendedAssumed, NEW E \in SUBSET Titles, NEW i \in Instances
  PROVE  Cardinality(U!OfInstance(U!WithinCap(E), i)) <= Cap
<1>1. CASE i \in U!OverCap(E)
  <2>1. U!OfInstance(U!WithinCap(E), i) = U!OfInstance({}, i)
    BY <1>1 DEF U!OfInstance, U!WithinCap
  <2> QED BY <2>1, NoneWithinCap
<1>2. CASE i \notin U!OverCap(E)
  <2> DEFINE A == U!OfInstance(E, i)
  <2>1. U!OfInstance(U!WithinCap(E), i) = A
    BY <1>2 DEF U!OfInstance, U!WithinCap
  <2>2. ~ (Cardinality(A) > Cap)
    BY <1>2, SameCount DEF U!OverCap
  <2>3. A \in SUBSET Titles /\ IsFiniteSet(Titles) /\ Cap \in Nat
    BY SomeTitles DEF U!OfInstance
  <2> HIDE DEF A
  <2>4. IsFiniteSet(A)
    BY <2>3, FS_Subset
  <2>5. Cardinality(A) \in Nat
    BY <2>4, FS_CardinalityType
  <2>6. Cardinality(A) <= Cap
    BY <2>2, <2>3, <2>5
  <2> QED BY <2>1, <2>6
<1> QED BY <1>1, <1>2

LEMMA InitUnattendedInv == UnattendedAssumed /\ U!Init => UnattendedInv
<1> SUFFICES ASSUME UnattendedAssumed, U!Init PROVE UnattendedInv
  OBVIOUS
<1>1. pass \in [Passes -> PassRecord]
  BY DEF U!Init, U!NoPass, PassRecord, Phases
<1>2. FiledThen /\ KeptHadNone /\ OffStops
  BY DEF U!Init, U!NoPass, FiledThen, KeptHadNone, OffStops
<1>3. ChosenWithinCap
  <2> SUFFICES ASSUME NEW p \in Passes, NEW i \in Instances
               PROVE  Cardinality(U!OfInstance(pass[p].chosen \cup pass[p].kept, i)) <= Cap
    BY DEF ChosenWithinCap
  <2>1. pass[p].chosen \cup pass[p].kept = {}
    BY DEF U!Init, U!NoPass
  <2> QED BY <2>1, NoneWithinCap
<1>4. U!MovedWithinCap
  <2>1. moved.titles = {}
    BY DEF U!Init, U!Nothing
  <2> QED BY <2>1, NoneWithinCap, SameCount DEF U!MovedWithinCap
<1> QED BY <1>1, <1>2, <1>3, <1>4 DEF UnattendedInv, U!Init, U!Nothing

(* A step that puts another record in the place of one pass's, keeping the *)
(* switches, keeps the invariant when that record does.                    *)
GoodRecord(r) ==
  /\ r \in PassRecord
  /\ r.filedBefore \subseteq filed
  /\ r.kept \cap r.filedBefore = {}
  /\ r.phase # "reading" => r.kept = {}
  /\ r.offBefore => r.phase = "turn" /\ (~ on \/ ~ testsPass)
  /\ \A i \in Instances : Cardinality(U!OfInstance(r.chosen \cup r.kept, i)) <= Cap

LEMMA RecordsAreGood ==
  ASSUME UnattendedInv, NEW p \in Passes
  PROVE  GoodRecord(pass[p])
BY DEF UnattendedInv, GoodRecord, FiledThen, KeptHadNone, OffStops, ChosenWithinCap

LEMMA NoPassIsGood ==
  ASSUME UnattendedAssumed
  PROVE  GoodRecord(U!NoPass)
<1>1. U!NoPass.chosen \cup U!NoPass.kept = {}
  BY DEF U!NoPass
<1>2. \A i \in Instances :
        Cardinality(U!OfInstance(U!NoPass.chosen \cup U!NoPass.kept, i)) <= Cap
  BY <1>1, NoneWithinCap
<1>3. U!NoPass \in PassRecord
  BY DEF U!NoPass, PassRecord, Phases
<1> QED BY <1>2, <1>3 DEF GoodRecord, U!NoPass

LEMMA OneRecord ==
  ASSUME UnattendedInv, NEW p \in Passes, NEW r, GoodRecord(r),
         pass' = [pass EXCEPT ![p] = r], UNCHANGED <<on, testsPass, filed>>,
         moved'.titles \in SUBSET Titles, U!MovedWithinCap'
  PROVE  UnattendedInv'
<1>1. r \in PassRecord
  BY DEF GoodRecord
<1>2. pass' \in [Passes -> PassRecord]
  BY <1>1 DEF UnattendedInv
<1>3. ASSUME NEW q \in Passes
      PROVE  GoodRecord(pass'[q])
  <2>1. CASE q = p
    <3>1. pass'[q] = r BY <2>1 DEF UnattendedInv
    <3> QED BY <3>1
  <2>2. CASE q # p
    <3>1. pass'[q] = pass[q] BY <2>2 DEF UnattendedInv
    <3> QED BY <3>1, RecordsAreGood
  <2> QED BY <2>1, <2>2
<1>4. FiledThen' /\ KeptHadNone' /\ OffStops' /\ ChosenWithinCap'
  BY <1>3 DEF GoodRecord, FiledThen, KeptHadNone, OffStops, ChosenWithinCap
<1> QED BY <1>2, <1>4 DEF UnattendedInv

LEMMA SameMoved ==
  ASSUME UnattendedInv, moved' = moved
  PROVE  moved'.titles \in SUBSET Titles /\ U!MovedWithinCap'
BY DEF UnattendedInv, U!MovedWithinCap

(* A step of a pass that puts a good record in place of its own, or none.  *)
LEMMA PassSteps ==
  ASSUME UnattendedAssumed, UnattendedInv, NEW p \in Passes,
         \/ U!Chooses(p) \/ U!TurnComes(p) \/ U!TurnNotReached(p) \/ U!AsksAgain(p)
         \/ U!ChoosesAgain(p) \/ U!ReadsOne(p) \/ U!ReadFails(p) \/ U!NoneLeft(p)
  PROVE  UnattendedInv'
<1> DEFINE r == pass[p]
<1>1. r \in PassRecord /\ GoodRecord(r)
  BY RecordsAreGood DEF UnattendedInv
<1>2. UNCHANGED <<on, testsPass, filed, moved>>
  BY DEF U!Chooses, U!TurnComes, U!TurnNotReached, U!AsksAgain, U!ChoosesAgain, U!ReadsOne,
         U!ReadFails, U!NoneLeft, U!world
<1>3. SUFFICES \E new : GoodRecord(new) /\ pass' = [pass EXCEPT ![p] = new]
  <2>1. moved'.titles \in SUBSET Titles /\ U!MovedWithinCap'
    BY <1>2, SameMoved
  <2> QED BY <1>2, <2>1, OneRecord
<1>4. ASSUME pass' = [pass EXCEPT ![p] = U!NoPass]
      PROVE  \E new : GoodRecord(new) /\ pass' = [pass EXCEPT ![p] = new]
  BY <1>4, NoPassIsGood
<1>5. CASE U!Chooses(p)
  <2>1. CASE pass' = [pass EXCEPT ![p] = U!NoPass]
    BY <2>1, <1>4
  <2>2. CASE pass' # [pass EXCEPT ![p] = U!NoPass]
    <3> DEFINE E == U!Eligible(p, answering)
               new == [r EXCEPT !.phase = "waiting", !.chosen = U!WithinCap(E),
                                !.over = U!OverCap(E)]
    <3>1. pass' = [pass EXCEPT ![p].phase = "waiting",
                               ![p].chosen = U!WithinCap(U!Eligible(p, answering)),
                               ![p].over = U!OverCap(U!Eligible(p, answering))]
      BY <1>5, <2>2 DEF U!Chooses, U!Held, U!Done
    <3>2. r.phase = "simulated"
      BY <1>5 DEF U!Chooses
    <3>3. pass' = [pass EXCEPT ![p] = new]
      BY <3>1 DEF UnattendedInv
    <3>4. E \in SUBSET Titles
      BY <1>1 DEF U!Eligible, PassRecord
    <3>5. U!WithinCap(E) \in SUBSET Titles /\ U!OverCap(E) \in SUBSET Instances
      BY <3>4 DEF U!WithinCap, U!OverCap
    <3>6. r.kept = {} /\ ~ r.offBefore
      BY <1>1, <3>2 DEF GoodRecord, PassRecord
    <3>7. \A i \in Instances : Cardinality(U!OfInstance(U!WithinCap(E), i)) <= Cap
      BY <3>4, LetThrough
    <3> HIDE DEF E
    <3>8. /\ new \in PassRecord /\ new.phase = "waiting" /\ new.kept = r.kept
          /\ new.offBefore = r.offBefore /\ new.filedBefore = r.filedBefore
          /\ new.chosen = U!WithinCap(E)
      BY <1>1, <3>5 DEF PassRecord, Phases
    <3>9. new.chosen \cup new.kept = U!WithinCap(E)
      BY <3>6, <3>8
    <3>10. GoodRecord(new)
      <4> HIDE DEF new, r
      <4>1. \A i \in Instances :
              Cardinality(U!OfInstance(new.chosen \cup new.kept, i)) <= Cap
        BY <3>7, <3>9
      <4> QED BY <1>1, <3>6, <3>8, <4>1 DEF GoodRecord
    <3> QED BY <3>3, <3>10
  <2> QED BY <2>1, <2>2
<1>6. CASE U!TurnComes(p)
  <2> DEFINE new == [r EXCEPT !.phase = "turn", !.filedBefore = filed,
                              !.offBefore = ~ on \/ ~ testsPass]
  <2>1. pass' = [pass EXCEPT ![p] = new]
    BY <1>6 DEF U!TurnComes, UnattendedInv
  <2>2. r.phase = "waiting"
    BY <1>6 DEF U!TurnComes
  <2>3. r.kept = {}
    BY <1>1, <2>2 DEF GoodRecord
  <2>4. filed \in SUBSET Titles /\ (~ on \/ ~ testsPass) \in BOOLEAN
    BY DEF UnattendedInv
  <2>5. /\ new \in PassRecord /\ new.phase = "turn" /\ new.kept = r.kept
        /\ new.offBefore = (~ on \/ ~ testsPass) /\ new.filedBefore = filed
        /\ new.chosen = r.chosen
    BY <1>1, <2>4 DEF PassRecord, Phases
  <2>6. GoodRecord(new)
    <3> HIDE DEF new, r
    <3> QED BY <1>1, <2>3, <2>5 DEF GoodRecord
  <2> QED BY <2>1, <2>6
<1>7. CASE U!TurnNotReached(p)
  BY <1>4, <1>7 DEF U!TurnNotReached, U!Held
<1>8. CASE U!AsksAgain(p)
  <2>1. CASE pass' = [pass EXCEPT ![p] = U!NoPass]
    BY <2>1, <1>4
  <2>2. CASE pass' # [pass EXCEPT ![p] = U!NoPass]
    <3> DEFINE new == [r EXCEPT !.phase = "asked"]
    <3>1. on /\ testsPass /\ pass' = [pass EXCEPT ![p].phase = "asked"] /\ r.phase = "turn"
      BY <1>8, <2>2 DEF U!AsksAgain, U!Held, U!To
    <3>2. pass' = [pass EXCEPT ![p] = new]
      BY <3>1 DEF UnattendedInv
    <3>3. ~ r.offBefore /\ r.kept = {}
      BY <1>1, <3>1 DEF GoodRecord, PassRecord
    <3>4. /\ new \in PassRecord /\ new.phase = "asked" /\ new.kept = r.kept
          /\ new.offBefore = r.offBefore /\ new.filedBefore = r.filedBefore
          /\ new.chosen = r.chosen
      BY <1>1 DEF PassRecord, Phases
    <3>5. GoodRecord(new)
      <4> HIDE DEF new, r
      <4> QED BY <1>1, <3>3, <3>4 DEF GoodRecord
    <3> QED BY <3>2, <3>5
  <2> QED BY <2>1, <2>2
<1>9. CASE U!ChoosesAgain(p)
  <2> DEFINE still == U!StillChosen(p, answering')
             new == [r EXCEPT !.phase = "reading", !.chosen = still]
  <2>1. /\ r.phase = "asked"
        /\ pass' = [pass EXCEPT ![p].phase = "reading", ![p].chosen = still]
    BY <1>9 DEF U!ChoosesAgain
  <2>2. pass' = [pass EXCEPT ![p] = new]
    BY <2>1 DEF UnattendedInv
  <2>3. ~ r.offBefore
    BY <1>1, <2>1 DEF GoodRecord, PassRecord
  <2>4. still \in SUBSET r.chosen
    BY DEF U!StillChosen
  <2> HIDE DEF still
  <2>5. /\ new \in PassRecord /\ new.phase = "reading" /\ new.kept = r.kept
        /\ new.offBefore = r.offBefore /\ new.filedBefore = r.filedBefore
        /\ new.chosen = still
    BY <1>1, <2>4 DEF PassRecord, Phases
  <2>6. new.chosen \cup new.kept \in SUBSET (r.chosen \cup r.kept)
    BY <2>4, <2>5
  <2>7. r.chosen \cup r.kept \in SUBSET Titles
    BY <1>1 DEF PassRecord
  <2>8. GoodRecord(new)
    <3> HIDE DEF new, r
    <3>1. \A i \in Instances : Cardinality(U!OfInstance(r.chosen \cup r.kept, i)) <= Cap
      BY <1>1 DEF GoodRecord
    <3>2. \A i \in Instances : Cardinality(U!OfInstance(new.chosen \cup new.kept, i)) <= Cap
      BY <2>6, <2>7, <3>1, FewerWithinCap
    <3> QED BY <1>1, <2>3, <2>5, <3>2 DEF GoodRecord
  <2> QED BY <2>2, <2>8
<1>10. CASE U!ReadsOne(p) \/ U!ReadFails(p)
  <2>1. r.phase = "reading"
    BY <1>10 DEF U!ReadsOne, U!ReadFails
  <2>2. PICK t \in r.chosen, kept \in SUBSET Titles :
          /\ kept \in {r.kept, r.kept \cup {t}}
          /\ kept = r.kept \/ t \notin filed
          /\ pass' = [pass EXCEPT ![p] = [r EXCEPT !.chosen = r.chosen \ {t}, !.kept = kept]]
    <3>1. CASE U!ReadsOne(p)
      <4>1. PICK t \in r.chosen :
              pass' = [pass EXCEPT ![p].chosen = @ \ {t},
                                   ![p].kept = IF t \in filed THEN @ ELSE @ \cup {t}]
        BY <3>1 DEF U!ReadsOne
      <4> DEFINE kept == IF t \in filed THEN r.kept ELSE r.kept \cup {t}
      <4>2. pass' = [pass EXCEPT ![p] = [r EXCEPT !.chosen = r.chosen \ {t}, !.kept = kept]]
        BY <4>1 DEF UnattendedInv
      <4>3. /\ kept \in SUBSET Titles
            /\ kept \in {r.kept, r.kept \cup {t}}
            /\ kept = r.kept \/ t \notin filed
        BY <1>1 DEF PassRecord
      <4> HIDE DEF kept
      <4> QED BY <4>2, <4>3
    <3>2. CASE U!ReadFails(p)
      <4>1. PICK t \in r.chosen : pass' = [pass EXCEPT ![p].chosen = @ \ {t}]
        BY <3>2 DEF U!ReadFails
      <4>2. r = [r EXCEPT !.kept = r.kept]
        BY <1>1 DEF PassRecord
      <4>3. pass' = [pass EXCEPT ![p] = [r EXCEPT !.chosen = r.chosen \ {t}, !.kept = r.kept]]
        BY <1>1, <4>1 DEF UnattendedInv, PassRecord
      <4> QED BY <1>1, <4>3 DEF PassRecord
    <3> QED BY <1>10, <3>1, <3>2
  <2> DEFINE new == [r EXCEPT !.chosen = r.chosen \ {t}, !.kept = kept]
  <2>3. ~ r.offBefore
    BY <1>1, <2>1 DEF GoodRecord, PassRecord
  <2>4. r.chosen \in SUBSET Titles /\ r.kept \in SUBSET Titles
    BY <1>1 DEF PassRecord
  <2>5. kept \in SUBSET Titles
    BY <2>2
  <2>6. /\ new \in PassRecord /\ new.phase = "reading" /\ new.kept = kept
        /\ new.offBefore = r.offBefore /\ new.filedBefore = r.filedBefore
        /\ new.chosen = r.chosen \ {t}
    BY <1>1, <2>1, <2>4, <2>5 DEF PassRecord, Phases
  <2>7. new.chosen \cup new.kept \in SUBSET (r.chosen \cup r.kept)
    BY <2>2, <2>6
  <2>8. r.chosen \cup r.kept \in SUBSET Titles
    BY <2>4
  <2>9. kept \cap r.filedBefore = {}
    <3>1. r.filedBefore \subseteq filed /\ r.kept \cap r.filedBefore = {}
      BY <1>1 DEF GoodRecord
    <3> QED BY <2>2, <3>1
  <2>10. GoodRecord(new)
    <3> HIDE DEF new, r
    <3>1. \A i \in Instances : Cardinality(U!OfInstance(r.chosen \cup r.kept, i)) <= Cap
      BY <1>1 DEF GoodRecord
    <3>2. \A i \in Instances : Cardinality(U!OfInstance(new.chosen \cup new.kept, i)) <= Cap
      BY <2>7, <2>8, <3>1, FewerWithinCap
    <3> QED BY <1>1, <2>3, <2>6, <2>9, <3>2 DEF GoodRecord
  <2> QED BY <2>2, <2>10
<1>11. CASE U!NoneLeft(p)
  BY <1>4, <1>11 DEF U!NoneLeft, U!Done
<1> QED BY <1>5, <1>6, <1>7, <1>8, <1>9, <1>10, <1>11

(* An apply moves some of what the pass kept, or nothing (apply_unattended). *)
LEMMA ApplySteps ==
  ASSUME UnattendedAssumed, UnattendedInv, NEW p \in Passes, U!Applies(p)
  PROVE  UnattendedInv'
<1> DEFINE going == {t \in pass[p].kept : proposed[t] = p}
<1>1. UNCHANGED <<on, testsPass, filed>> /\ pass' = [pass EXCEPT ![p] = U!NoPass]
  BY DEF U!Applies, U!world, U!Done, U!Held
<1>2. moved' = [by |-> p, titles |-> going] \/ moved' = moved
  BY DEF U!Applies
<1>3. CASE moved' = moved
  BY <1>1, <1>3, SameMoved, NoPassIsGood, OneRecord
<1>4. CASE moved' = [by |-> p, titles |-> going]
  <2>1. moved'.titles = going
    BY <1>4
  <2>2. /\ pass[p].chosen \cup pass[p].kept \in SUBSET Titles
        /\ going \in SUBSET (pass[p].chosen \cup pass[p].kept)
    BY DEF UnattendedInv, PassRecord
  <2>3. \A i \in Instances :
          Cardinality(U!OfInstance(pass[p].chosen \cup pass[p].kept, i)) <= Cap
    BY DEF UnattendedInv, ChosenWithinCap
  <2> HIDE DEF going
  <2>4. \A i \in Instances : Cardinality(U!OfInstance(going, i)) <= Cap
    BY <2>2, <2>3, FewerWithinCap
  <2>5. U!MovedWithinCap' /\ moved'.titles \in SUBSET Titles
    BY <2>1, <2>2, <2>4, SameCount DEF U!MovedWithinCap
  <2> QED BY <1>1, <2>5, NoPassIsGood, OneRecord
<1> QED BY <1>2, <1>3, <1>4

LEMMA SimulateSteps ==
  ASSUME UnattendedAssumed, UnattendedInv, NEW p \in Passes, NEW scope \in SUBSET Instances,
         NEW titles \in SUBSET Titles, U!Simulates(p, scope, titles)
  PROVE  UnattendedInv'
<1> DEFINE new == [U!NoPass EXCEPT !.phase = "simulated", !.scope = scope, !.of = titles]
<1>1. UNCHANGED <<on, testsPass, filed, moved>> /\ pass' = [pass EXCEPT ![p] = new]
  BY DEF U!Simulates, U!world
<1>2. GoodRecord(U!NoPass) /\ U!NoPass \in PassRecord
  BY NoPassIsGood DEF GoodRecord
<1>3. U!NoPass.kept = {} /\ U!NoPass.offBefore = FALSE
  BY DEF U!NoPass
<1>4. /\ new \in PassRecord /\ new.phase = "simulated" /\ new.kept = U!NoPass.kept
      /\ new.offBefore = U!NoPass.offBefore /\ new.filedBefore = U!NoPass.filedBefore
      /\ new.chosen = U!NoPass.chosen
  BY <1>2 DEF PassRecord, Phases
<1>5. GoodRecord(new)
  <2> HIDE DEF new
  <2> QED BY <1>2, <1>3, <1>4 DEF GoodRecord
<1> HIDE DEF new
<1> QED BY <1>1, <1>5, SameMoved, OneRecord

(* A switch or a rule that changes forgets that a pass was not allowed     *)
(* only when it allows it again.                                           *)
LEMMA AllowanceSteps ==
  ASSUME UnattendedAssumed, UnattendedInv, UNCHANGED <<filed, moved>>,
         on' \in BOOLEAN, testsPass' \in BOOLEAN, pass' = U!AllowedAgain(on' /\ testsPass')
  PROVE  UnattendedInv'
<1>1. U!MovedWithinCap' /\ moved'.titles \in SUBSET Titles
  BY SameMoved
<1>2. ASSUME NEW p \in Passes
      PROVE  /\ pass'[p] \in PassRecord
             /\ pass'[p].phase = pass[p].phase /\ pass'[p].kept = pass[p].kept
             /\ pass'[p].chosen = pass[p].chosen
             /\ pass'[p].filedBefore = pass[p].filedBefore
             /\ pass'[p].offBefore => pass[p].offBefore /\ ~ (on' /\ testsPass')
  <2>1. pass[p] \in PassRecord
    BY DEF UnattendedInv
  <2>2. CASE on' /\ testsPass'
    <3>1. pass'[p] = [pass[p] EXCEPT !.offBefore = FALSE]
      BY <2>2 DEF U!AllowedAgain
    <3> QED BY <2>1, <3>1 DEF PassRecord
  <2>3. CASE ~ (on' /\ testsPass')
    <3>1. pass'[p] = pass[p]
      BY <2>3 DEF U!AllowedAgain
    <3> QED BY <2>1, <2>3, <3>1
  <2> QED BY <2>2, <2>3
<1>3. pass' \in [Passes -> PassRecord]
  <2>1. DOMAIN pass' = Passes /\ pass' = [p \in Passes |-> pass'[p]]
    BY DEF U!AllowedAgain
  <2> QED BY <1>2, <2>1
<1>4. FiledThen' /\ KeptHadNone' /\ ChosenWithinCap'
  BY <1>2 DEF UnattendedInv, FiledThen, KeptHadNone, ChosenWithinCap
<1>5. OffStops'
  BY <1>2 DEF UnattendedInv, OffStops
<1> QED BY <1>1, <1>3, <1>4, <1>5 DEF UnattendedInv

LEMMA NextUnattendedInv == UnattendedAssumed /\ UnattendedInv /\ [U!Next]_U!vars => UnattendedInv'
<1> SUFFICES ASSUME UnattendedAssumed, UnattendedInv, [U!Next]_U!vars
             PROVE  UnattendedInv'
  OBVIOUS
<1>1. ASSUME NEW p \in Passes,
             \/ U!Simulates(p, Instances, Titles)
             \/ \E t \in Titles : U!Simulates(p, {InstanceOf[t]}, {t})
      PROVE  UnattendedInv'
  <2>1. CASE U!Simulates(p, Instances, Titles)
    BY <2>1, SimulateSteps
  <2>2. ASSUME NEW t \in Titles, U!Simulates(p, {InstanceOf[t]}, {t})
        PROVE  UnattendedInv'
    <3>1. {InstanceOf[t]} \in SUBSET Instances
      BY DEF UnattendedAssumed, U!EachOfOneInstance
    <3> QED BY <2>2, <3>1, SimulateSteps
  <2> QED BY <1>1, <2>1, <2>2
<1>2. ASSUME NEW p \in Passes,
             \/ U!Chooses(p) \/ U!TurnComes(p) \/ U!TurnNotReached(p) \/ U!AsksAgain(p)
             \/ U!ChoosesAgain(p) \/ U!ReadsOne(p) \/ U!ReadFails(p) \/ U!NoneLeft(p)
      PROVE  UnattendedInv'
  BY <1>2, PassSteps
<1>3. ASSUME NEW p \in Passes, U!Applies(p) PROVE UnattendedInv'
  BY <1>3, ApplySteps
<1>4. CASE U!Switch
  <2>1. /\ on' = ~ on /\ UNCHANGED <<testsPass, filed, moved>>
        /\ pass' = U!AllowedAgain(on' /\ testsPass)
    BY <1>4 DEF U!Switch
  <2>2. on' \in BOOLEAN /\ testsPass' \in BOOLEAN
    BY <2>1 DEF UnattendedInv
  <2>3. pass' = U!AllowedAgain(on' /\ testsPass')
    BY <2>1
  <2> QED BY <2>1, <2>2, <2>3, AllowanceSteps
<1>5. CASE U!RuleChanges
  <2>1. /\ testsPass' = ~ testsPass /\ UNCHANGED <<on, filed, moved>>
        /\ pass' = U!AllowedAgain(on /\ testsPass')
    BY <1>5 DEF U!RuleChanges
  <2>2. on' \in BOOLEAN /\ testsPass' \in BOOLEAN
    BY <2>1 DEF UnattendedInv
  <2>3. pass' = U!AllowedAgain(on' /\ testsPass')
    BY <2>1
  <2> QED BY <2>1, <2>2, <2>3, AllowanceSteps
<1>6. ASSUME NEW t \in Titles, U!FileArrives(t) PROVE UnattendedInv'
  <2>1. /\ filed' = filed \cup {t}
        /\ on' = on /\ testsPass' = testsPass /\ pass' = pass /\ moved' = moved
    BY <1>6 DEF U!FileArrives
  <2>2. FiledThen' /\ filed' \in SUBSET Titles
    BY <2>1 DEF UnattendedInv, FiledThen
  <2> QED BY <2>1, <2>2, SameMoved
          DEF UnattendedInv, KeptHadNone, OffStops, ChosenWithinCap
<1>7. ASSUME UNCHANGED <<on, testsPass, filed, pass, moved>> PROVE UnattendedInv'
  BY <1>7, SameMoved DEF UnattendedInv, FiledThen, KeptHadNone, OffStops, ChosenWithinCap
<1>8. ASSUME NEW t \in Titles, U!Synced(t) \/ U!PersonDecides(t) PROVE UnattendedInv'
  BY <1>7, <1>8 DEF U!Synced, U!PersonDecides, U!world
<1>9. CASE U!PersonDone
  BY <1>7, <1>9 DEF U!PersonDone, U!world
<1>10. CASE UNCHANGED U!vars
  BY <1>7, <1>10 DEF U!vars, U!world
<1> QED BY <1>1, <1>2, <1>3, <1>4, <1>5, <1>6, <1>8, <1>9, <1>10 DEF U!Next

LEMMA UnattendedInvariant == UnattendedAssumed => (U!Spec => []UnattendedInv)
<1> SUFFICES ASSUME UnattendedAssumed PROVE U!Spec => []UnattendedInv
  OBVIOUS
<1>1. U!Init => UnattendedInv
  BY InitUnattendedInv
<1>2. UnattendedInv /\ [U!Next]_U!vars => UnattendedInv'
  BY NextUnattendedInv
<1> QED BY <1>1, <1>2, PTL DEF U!Spec

(* A pass moves no more titles of an instance than the cap, for any library *)
(* and any cap (auto_apply.rs within_cap).                                  *)
THEOREM CapKept == UnattendedAssumed => (U!Spec => []U!MovedWithinCap)
<1> SUFFICES ASSUME UnattendedAssumed PROVE U!Spec => []U!MovedWithinCap
  OBVIOUS
<1>1. UnattendedInv => U!MovedWithinCap
  BY DEF UnattendedInv
<1> QED BY <1>1, UnattendedInvariant, PTL

(* Only a pass that applies moves anything, and it moves what it kept.     *)
LEMMA StepMovesAsAsked ==
  UnattendedAssumed /\ UnattendedInv /\ [U!Next]_U!vars => [U!MovesAsAsked]_U!vars
<1> SUFFICES ASSUME UnattendedAssumed, UnattendedInv, U!Next, NEW p \in Passes,
                    moved' # moved, moved'.by = p
             PROVE  /\ moved'.titles \cap pass[p].filedBefore = {}
                    /\ pass[p].offBefore => moved'.titles = {}
  BY DEF U!MovesAsAsked
<1>1. PICK q \in Passes : U!Applies(q)
  BY DEF U!Next, U!Simulates, U!Chooses, U!TurnComes, U!TurnNotReached, U!AsksAgain,
         U!ChoosesAgain, U!ReadsOne, U!ReadFails, U!NoneLeft, U!Switch, U!RuleChanges,
         U!PersonDone, U!FileArrives, U!Synced, U!PersonDecides
<1> DEFINE going == {t \in pass[q].kept : proposed[t] = q}
<1>2. moved' = [by |-> q, titles |-> going] /\ pass[q].phase = "reading"
  BY <1>1 DEF U!Applies
<1>3. q = p /\ moved'.titles \in SUBSET pass[p].kept
  BY <1>2
<1>4. pass[p].kept \cap pass[p].filedBefore = {}
  BY DEF UnattendedInv, KeptHadNone
<1>5. ~ pass[p].offBefore
  BY <1>2, <1>3 DEF UnattendedInv, OffStops
<1> QED BY <1>3, <1>4, <1>5

(* Whatever a person, a synchronisation, a download or another simulation  *)
(* does while a pass waits for the apply lock, it moves no title that had  *)
(* a file when its turn came, and nothing when moves were not allowed then *)
(* (auto_apply.rs decide, settings.rs).                                    *)
THEOREM AskedAtTheTurn == UnattendedAssumed => (U!Spec => U!MovedAsAskedAtTheTurn)
<1> SUFFICES ASSUME UnattendedAssumed PROVE U!Spec => U!MovedAsAskedAtTheTurn
  OBVIOUS
<1>1. UnattendedInv /\ [U!Next]_U!vars => [U!MovesAsAsked]_U!vars
  BY StepMovesAsAsked
<1> QED BY <1>1, UnattendedInvariant, PTL DEF U!Spec, U!MovedAsAskedAtTheTurn

-----------------------------------------------------------------------------
(* The deliveries of a webhook, which run under such locks beside the full *)
(* synchronisation: the module Deliveries, with variables of its own. A    *)
(* row that is not as the Arr has its title has a delivery under way that  *)
(* will see to it (RowsSeenTo), and so has what a delivery or the          *)
(* synchronisation read before the title changed (ReadsSeenTo,             *)
(* ListSeenTo).                                                            *)

CONSTANTS Deliveries, MaxWaiting, MaxEvents, MaxSwitches

VARIABLES
  held, rows, instance, delivery, inLine, hooked, syncing, sync, events, switches, missed,
  shadowed

D == INSTANCE Deliveries WITH line <- inLine

DeliveryRecord ==
  [phase : {"over", "waiting", "held", "checked", "read"}, title : Titles \cup {None},
   kind : {"change", "delete", None}, saw : BOOLEAN]

SyncRecord ==
  [phase : {"idle", "began", "read"}, list : SUBSET Titles, fresh : SUBSET Titles]

(* A delivery that will write its title's row, or has only to; and one     *)
(* that will take it away.                                                 *)
Early == {"waiting", "held", "checked"}
WillWrite(r) == r.phase \in Early \/ (r.phase = "read" /\ r.saw)
WillRetire(r) == r.kind = "delete" /\ (r.phase \in Early \/ (r.phase = "read" /\ ~ r.saw))
ToWrite(t) == \E d \in Deliveries : delivery[d].title = t /\ WillWrite(delivery[d])
ToRetire(t) == \E d \in Deliveries : delivery[d].title = t /\ WillRetire(delivery[d])

Wanted == held \ missed                  \* the titles whose row must be there
Unwanted(t) == t \notin held \cup missed \cup shadowed

RowsSeenTo ==
  /\ \A t \in Wanted : t \in rows \/ ToWrite(t)
  /\ \A t \in rows : Unwanted(t) => ToRetire(t)

ReadsSeenTo ==
  \A d \in Deliveries, t \in Titles :
    delivery[d].phase = "read" /\ delivery[d].title = t
    => /\ ~ delivery[d].saw /\ t \in Wanted => ToWrite(t)
       /\ delivery[d].saw /\ Unwanted(t) => ToRetire(t)

ListSeenTo ==
  sync.phase = "read" =>
    /\ \A t \in Wanted \ sync.list : t \in rows \cap sync.fresh \/ ToWrite(t)
    /\ \A t \in sync.list : Unwanted(t) => ToRetire(t)

DeliveriesTypes ==
  /\ delivery \in [Deliveries -> DeliveryRecord]
  /\ \A d \in Deliveries : delivery[d].phase # "over" => delivery[d].title \in Titles
  /\ sync \in SyncRecord
  /\ held \in SUBSET Titles
  /\ rows \in SUBSET Titles

SyncHoldsItsLock == instance # "removed" /\ sync.phase # "idle" => syncing = "sync"

DeliveriesInv ==
  /\ DeliveriesTypes /\ SyncHoldsItsLock
  /\ instance # "removed" => RowsSeenTo /\ ReadsSeenTo /\ ListSeenTo

(* One delivery at a time is past the wait for its lock.                   *)
OneHooked ==
  \A d \in Deliveries : delivery[d].phase \in {"held", "checked", "read"} => hooked = d

DeliveriesAssumed == D!NoneHoldsNothing

LEMMA OverIsARecord ==
  /\ D!Over = [phase |-> "over", title |-> None, kind |-> None, saw |-> FALSE]
  /\ D!Over \in DeliveryRecord /\ ~ WillWrite(D!Over) /\ ~ WillRetire(D!Over)
BY DEF D!Over, DeliveryRecord, WillWrite, WillRetire, Early

LEMMA NoSyncIsARecord ==
  D!NoSync \in SyncRecord /\ D!NoSync.phase = "idle"
BY DEF D!NoSync, SyncRecord

LEMMA InitDeliveriesInv == D!Init => DeliveriesInv
<1> SUFFICES ASSUME D!Init PROVE DeliveriesInv
  OBVIOUS
<1>1. DeliveriesTypes /\ SyncHoldsItsLock
  BY OverIsARecord, NoSyncIsARecord DEF D!Init, DeliveriesTypes, SyncHoldsItsLock
<1>2. RowsSeenTo
  BY DEF D!Init, RowsSeenTo, Wanted, Unwanted
<1>3. ReadsSeenTo
  <2>1. \A d \in Deliveries : delivery[d].phase = "over"
    BY OverIsARecord DEF D!Init
  <2> QED BY <2>1 DEF ReadsSeenTo
<1>4. ListSeenTo
  BY NoSyncIsARecord DEF D!Init, ListSeenTo
<1> QED BY <1>1, <1>2, <1>3, <1>4 DEF DeliveriesInv

(* One delivery's step: it stays a cover of its title, or the title needs  *)
(* none of it.                                                             *)
LEMMA CoversStay ==
  ASSUME DeliveriesTypes, NEW d \in Deliveries, NEW r \in DeliveryRecord,
         delivery' = [delivery EXCEPT ![d] = r], NEW t
  PROVE  /\ ToWrite(t) /\ (delivery[d].title # t \/ ~ WillWrite(delivery[d])
                           \/ (r.title = t /\ WillWrite(r)))
            => ToWrite(t)'
         /\ ToRetire(t) /\ (delivery[d].title # t \/ ~ WillRetire(delivery[d])
                            \/ (r.title = t /\ WillRetire(r)))
            => ToRetire(t)'
<1>1. delivery'[d] = r /\ \A e \in Deliveries : e # d => delivery'[e] = delivery[e]
  BY DEF DeliveriesTypes
<1>2. ASSUME ToWrite(t), delivery[d].title # t \/ ~ WillWrite(delivery[d])
                         \/ (r.title = t /\ WillWrite(r))
      PROVE  ToWrite(t)'
  <2>1. PICK e \in Deliveries : delivery[e].title = t /\ WillWrite(delivery[e])
    BY <1>2 DEF ToWrite
  <2>2. delivery'[e].title = t /\ WillWrite(delivery'[e])
    BY <1>1, <1>2, <2>1
  <2> QED BY <2>2 DEF ToWrite, WillWrite
<1>3. ASSUME ToRetire(t), delivery[d].title # t \/ ~ WillRetire(delivery[d])
                          \/ (r.title = t /\ WillRetire(r))
      PROVE  ToRetire(t)'
  <2>1. PICK e \in Deliveries : delivery[e].title = t /\ WillRetire(delivery[e])
    BY <1>3 DEF ToRetire
  <2>2. delivery'[e].title = t /\ WillRetire(delivery'[e])
    BY <1>1, <1>3, <2>1
  <2> QED BY <2>2 DEF ToRetire, WillRetire
<1> QED BY <1>2, <1>3

(* The types of a step that changes one delivery. *)
LEMMA OneDelivery ==
  ASSUME DeliveriesTypes, NEW d \in Deliveries, NEW r \in DeliveryRecord,
         delivery' = [delivery EXCEPT ![d] = r]
  PROVE  /\ delivery' \in [Deliveries -> DeliveryRecord] /\ delivery'[d] = r
         /\ \A e \in Deliveries : e # d => delivery'[e] = delivery[e]
BY DEF DeliveriesTypes

(* A delivery that ends and leaves its title to the next synchronisation.  *)
LEMMA Dropped ==
  ASSUME DeliveriesInv, NEW d \in Deliveries,
         delivery' = [delivery EXCEPT ![d] = D!Over],
         missed' = missed \cup {delivery[d].title},
         UNCHANGED <<held, rows, instance, syncing, sync, shadowed>>
  PROVE  DeliveriesInv'
<1>1. /\ delivery' \in [Deliveries -> DeliveryRecord] /\ delivery'[d] = D!Over
      /\ \A e \in Deliveries : e # d => delivery'[e] = delivery[e]
  BY OneDelivery, OverIsARecord DEF DeliveriesInv
<1>2. DeliveriesTypes' /\ SyncHoldsItsLock'
  BY <1>1, OverIsARecord DEF DeliveriesInv, DeliveriesTypes, SyncHoldsItsLock
<1>3. \A t : t # delivery[d].title
             => (ToWrite(t) => ToWrite(t)') /\ (ToRetire(t) => ToRetire(t)')
  BY CoversStay, OverIsARecord DEF DeliveriesInv
<1>4. /\ \A t \in Wanted' : t \in Wanted /\ t # delivery[d].title
      /\ \A t : Unwanted(t)' => Unwanted(t) /\ t # delivery[d].title
  BY DEF Wanted, Unwanted
<1>5. ASSUME instance # "removed" PROVE RowsSeenTo' /\ ReadsSeenTo' /\ ListSeenTo'
  <2>1. RowsSeenTo /\ ReadsSeenTo /\ ListSeenTo
    BY <1>5 DEF DeliveriesInv
  <2>2. RowsSeenTo'
    BY <1>3, <1>4, <2>1 DEF RowsSeenTo
  <2>3. ReadsSeenTo'
    <3> SUFFICES ASSUME NEW e \in Deliveries, NEW t \in Titles,
                        delivery'[e].phase = "read", delivery'[e].title = t
                 PROVE  /\ ~ delivery'[e].saw /\ t \in Wanted' => ToWrite(t)'
                        /\ delivery'[e].saw /\ Unwanted(t)' => ToRetire(t)'
      BY DEF ReadsSeenTo
    <3>1. e # d /\ delivery'[e] = delivery[e]
      BY <1>1, OverIsARecord
    <3> QED BY <1>3, <1>4, <2>1, <3>1 DEF ReadsSeenTo
  <2>4. ListSeenTo'
    BY <1>3, <1>4, <2>1 DEF ListSeenTo
  <2> QED BY <2>2, <2>3, <2>4
<1> QED BY <1>2, <1>5 DEF DeliveriesInv

(* A delivery that goes on, or ends with nothing left to do for its title. *)
LEMMA GoesOn ==
  ASSUME DeliveriesInv, NEW d \in Deliveries, NEW r \in DeliveryRecord,
         delivery' = [delivery EXCEPT ![d] = r],
         UNCHANGED <<held, rows, instance, syncing, sync, missed, shadowed>>,
         r.phase # "over" => r.title \in Titles,
         delivery[d].title \in Wanted /\ WillWrite(delivery[d])
           => r.title = delivery[d].title /\ WillWrite(r),
         Unwanted(delivery[d].title) /\ WillRetire(delivery[d])
           => r.title = delivery[d].title /\ WillRetire(r),
         r.phase = "read" => /\ ~ r.saw => r.title \notin Wanted
                             /\ r.saw => ~ Unwanted(r.title)
  PROVE  DeliveriesInv'
<1>1. /\ delivery' \in [Deliveries -> DeliveryRecord] /\ delivery'[d] = r
      /\ \A e \in Deliveries : e # d => delivery'[e] = delivery[e]
  BY OneDelivery DEF DeliveriesInv
<1>2. DeliveriesTypes' /\ SyncHoldsItsLock'
  BY <1>1 DEF DeliveriesInv, DeliveriesTypes, SyncHoldsItsLock
<1>3. Wanted' = Wanted /\ \A t : Unwanted(t)' <=> Unwanted(t)
  BY DEF Wanted, Unwanted
<1>4. DeliveriesTypes
  BY DEF DeliveriesInv
<1>5. ASSUME NEW t
      PROVE  /\ t \in Wanted /\ ToWrite(t) => ToWrite(t)'
             /\ Unwanted(t) /\ ToRetire(t) => ToRetire(t)'
  <2>1. CASE delivery[d].title = t
    BY <1>4, <2>1, CoversStay
  <2>2. CASE delivery[d].title # t
    BY <1>4, <2>2, CoversStay
  <2> QED BY <2>1, <2>2
<1>6. ASSUME instance # "removed" PROVE RowsSeenTo' /\ ReadsSeenTo' /\ ListSeenTo'
  <2>1. RowsSeenTo /\ ReadsSeenTo /\ ListSeenTo
    BY <1>6 DEF DeliveriesInv
  <2>2. RowsSeenTo'
    BY <1>3, <1>5, <2>1 DEF RowsSeenTo
  <2>3. ReadsSeenTo'
    <3> SUFFICES ASSUME NEW e \in Deliveries, NEW t \in Titles,
                        delivery'[e].phase = "read", delivery'[e].title = t
                 PROVE  /\ ~ delivery'[e].saw /\ t \in Wanted' => ToWrite(t)'
                        /\ delivery'[e].saw /\ Unwanted(t)' => ToRetire(t)'
      BY DEF ReadsSeenTo
    <3>1. CASE e = d
      BY <1>1, <1>3, <3>1
    <3>2. CASE e # d
      BY <1>1, <1>3, <1>5, <2>1, <3>2 DEF ReadsSeenTo
    <3> QED BY <3>1, <3>2
  <2>4. ListSeenTo'
    BY <1>3, <1>5, <2>1 DEF ListSeenTo
  <2> QED BY <2>2, <2>3, <2>4
<1> QED BY <1>2, <1>6 DEF DeliveriesInv

(* Its turn, the instance read again, the title read at the Arr.           *)
LEMMA EarlySteps ==
  ASSUME DeliveriesInv, NEW d \in Deliveries,
         D!Taken(d) \/ D!Checks(d) \/ D!ReadsArr(d) \/ D!LeavesIt(d) \/ D!Drops(d) \/ D!GivesUp(d)
  PROVE  DeliveriesInv'
<1> DEFINE x == delivery[d]
<1>1. x \in DeliveryRecord /\ (x.phase # "over" => x.title \in Titles)
      /\ DOMAIN delivery = Deliveries
  BY DEF DeliveriesInv, DeliveriesTypes
<1>2. ASSUME NEW phase \in {"held", "checked"}, x.phase \in {"waiting", "held"},
             delivery' = [delivery EXCEPT ![d].phase = phase],
             UNCHANGED <<held, rows, instance, syncing, sync, missed, shadowed>>
      PROVE  DeliveriesInv'
  <2> DEFINE r == [x EXCEPT !.phase = phase]
  <2>1. delivery' = [delivery EXCEPT ![d] = r]
    BY <1>1, <1>2
  <2>2. r \in DeliveryRecord /\ r.phase = phase /\ r.title = x.title /\ r.kind = x.kind
    BY <1>1 DEF DeliveryRecord
  <2>3. WillWrite(r) /\ (WillRetire(x) => WillRetire(r)) /\ r.title \in Titles
    BY <1>1, <1>2, <2>2 DEF WillWrite, WillRetire, Early
  <2>4. r.phase # "read"
    BY <2>2
  <2> HIDE DEF r
  <2> QED BY <1>2, <2>1, <2>2, <2>3, <2>4, GoesOn
<1>3. CASE D!Taken(d)
  BY <1>2, <1>3 DEF D!Taken, D!arrVars, D!ghosts
<1>4. CASE D!Checks(d)
  <2>1. CASE instance = "enabled"
    BY <1>2, <1>4, <2>1 DEF D!Checks, D!arrVars
  <2>2. CASE instance # "enabled"
    BY <1>4, <2>2, Dropped DEF D!Checks, D!Ends, D!arrVars
  <2> QED BY <2>1, <2>2
<1>5. CASE D!ReadsArr(d)
  <2> DEFINE there == x.title \in held
             r == [x EXCEPT !.phase = "read", !.saw = there]
  <2>1. /\ x.phase = "checked"
        /\ UNCHANGED <<held, rows, instance, syncing, sync, missed, shadowed>>
    BY <1>5 DEF D!ReadsArr, D!arrVars, D!locks, D!ghosts
  <2>2. delivery' = [delivery EXCEPT ![d] = r]
    BY <1>1, <1>5 DEF D!ReadsArr
  <2>3. /\ r \in DeliveryRecord /\ r.phase = "read" /\ r.title = x.title /\ r.kind = x.kind
        /\ r.saw <=> x.title \in held
    <3>1. there \in BOOLEAN
      OBVIOUS
    <3>2. there <=> x.title \in held
      OBVIOUS
    <3> HIDE DEF there, x
    <3>3. /\ r \in DeliveryRecord /\ r.phase = "read" /\ r.title = x.title /\ r.kind = x.kind
          /\ r.saw = there
      BY <1>1, <3>1 DEF DeliveryRecord
    <3> QED BY <3>2, <3>3
  <2>4. r.title \in Titles
    BY <1>1, <2>1, <2>3
  <2>5. x.title \in Wanted => WillWrite(r)
    BY <2>3 DEF Wanted, WillWrite
  <2>6. Unwanted(x.title) /\ WillRetire(x) => WillRetire(r)
    BY <2>1, <2>3 DEF Unwanted, WillRetire, Early
  <2>7. /\ ~ r.saw => r.title \notin Wanted
        /\ r.saw => ~ Unwanted(r.title)
    BY <2>3 DEF Wanted, Unwanted
  <2> HIDE DEF r
  <2> QED BY <2>1, <2>2, <2>3, <2>4, <2>5, <2>6, <2>7, GoesOn
<1>6. CASE D!LeavesIt(d)
  <2>1. /\ x.phase = "read" /\ ~ x.saw /\ x.kind # "delete"
        /\ delivery' = [delivery EXCEPT ![d] = D!Over]
        /\ UNCHANGED <<held, rows, instance, syncing, sync, missed, shadowed>>
    BY <1>6 DEF D!LeavesIt, D!Ends, D!arrVars, D!ghosts
  <2>2. ~ WillWrite(x) /\ ~ WillRetire(x)
    BY <2>1 DEF WillWrite, WillRetire, Early
  <2>3. D!Over \in DeliveryRecord /\ D!Over.phase = "over"
    BY OverIsARecord
  <2> QED BY <2>1, <2>2, <2>3, GoesOn
<1>7. CASE D!Drops(d)
  BY <1>7, Dropped DEF D!Drops, D!Ends, D!arrVars
<1>8. CASE D!GivesUp(d)
  BY <1>8, Dropped DEF D!GivesUp, D!arrVars
<1> QED BY <1>3, <1>4, <1>5, <1>6, <1>7, <1>8

(* The row is written: it is there, and if its title went after it was     *)
(* read, the delivery of that deletion waits.                              *)
LEMMA WritesSteps ==
  ASSUME DeliveriesInv, OneHooked, NEW d \in Deliveries, D!Writes(d)
  PROVE  DeliveriesInv'
<1> DEFINE x == delivery[d]
           w == delivery[d].title
<1>1. x \in DeliveryRecord /\ x.phase = "read" /\ x.saw /\ w \in Titles
  BY DEF DeliveriesInv, DeliveriesTypes, D!Writes, DeliveryRecord
<1>2. /\ rows' = rows \cup {w} /\ delivery' = [delivery EXCEPT ![d] = D!Over]
      /\ UNCHANGED <<held, instance, syncing, missed, shadowed>>
  BY DEF D!Writes, D!Ends, D!arrVars, D!ghosts
<1>3. /\ sync' \in SyncRecord /\ sync'.phase = sync.phase /\ sync'.list = sync.list
      /\ sync.phase = "read" => sync'.fresh = sync.fresh \cup {w}
  <2>1. sync \in SyncRecord
    BY DEF DeliveriesInv, DeliveriesTypes
  <2>2. sync' = IF sync.phase = "idle" THEN sync ELSE [sync EXCEPT !.fresh = @ \cup {w}]
    BY DEF D!Writes
  <2> QED BY <1>1, <2>1, <2>2 DEF SyncRecord
<1>4. /\ delivery' \in [Deliveries -> DeliveryRecord] /\ delivery'[d] = D!Over
      /\ \A e \in Deliveries : e # d => delivery'[e] = delivery[e]
  BY <1>2, OneDelivery, OverIsARecord DEF DeliveriesInv
<1>5. DeliveriesTypes' /\ SyncHoldsItsLock'
  BY <1>1, <1>2, <1>3, <1>4, OverIsARecord DEF DeliveriesInv, DeliveriesTypes, SyncHoldsItsLock
<1>6. Wanted' = Wanted /\ \A t : Unwanted(t)' <=> Unwanted(t)
  BY <1>2 DEF Wanted, Unwanted
<1>7. ~ WillRetire(x)
  BY <1>1 DEF WillRetire, Early
<1>8. /\ \A t : t # w /\ ToWrite(t) => ToWrite(t)'
      /\ \A t : ToRetire(t) => ToRetire(t)'
  BY <1>2, <1>7, CoversStay, OverIsARecord DEF DeliveriesInv
<1>9. ASSUME instance # "removed" PROVE RowsSeenTo' /\ ReadsSeenTo' /\ ListSeenTo'
  <2>1. RowsSeenTo /\ ReadsSeenTo /\ ListSeenTo
    BY <1>9 DEF DeliveriesInv
  <2>2. Unwanted(w) => ToRetire(w)
    BY <1>1, <2>1 DEF ReadsSeenTo
  <2>3. RowsSeenTo'
    BY <1>2, <1>6, <1>8, <2>1, <2>2 DEF RowsSeenTo
  <2>4. ReadsSeenTo'
    <3> SUFFICES ASSUME NEW e \in Deliveries, NEW t \in Titles,
                        delivery'[e].phase = "read", delivery'[e].title = t
                 PROVE  /\ ~ delivery'[e].saw /\ t \in Wanted' => ToWrite(t)'
                        /\ delivery'[e].saw /\ Unwanted(t)' => ToRetire(t)'
      BY DEF ReadsSeenTo
    <3>1. e # d /\ delivery'[e] = delivery[e]
      BY <1>4, OverIsARecord
    <3>2. delivery'[e].saw /\ Unwanted(t)' => ToRetire(t)'
      BY <1>6, <1>8, <2>1, <3>1 DEF ReadsSeenTo
    <3>3. ~ delivery'[e].saw /\ t \in Wanted' => ToWrite(t)'
      <4> SUFFICES ASSUME ~ delivery[e].saw, t \in Wanted PROVE ToWrite(t)'
        BY <1>6, <3>1
      <4>1. delivery[e].phase = "read" /\ delivery[d].phase = "read" /\ e # d
        BY <1>1, <3>1
      <4> QED BY <4>1 DEF OneHooked
    <3> QED BY <3>2, <3>3
  <2>5. ListSeenTo'
    <3> SUFFICES ASSUME sync.phase = "read"
                 PROVE  /\ \A t \in Wanted' \ sync'.list :
                             t \in rows' \cap sync'.fresh \/ ToWrite(t)'
                        /\ \A t \in sync'.list : Unwanted(t)' => ToRetire(t)'
      BY <1>3 DEF ListSeenTo
    <3>1. ASSUME NEW t \in Wanted' \ sync'.list
          PROVE  t \in rows' \cap sync'.fresh \/ ToWrite(t)'
      <4>1. CASE t = w
        BY <1>2, <1>3, <4>1
      <4>2. CASE t # w
        <5>1. t \in rows \cap sync.fresh \/ ToWrite(t)
          BY <1>3, <1>6, <2>1, <3>1 DEF ListSeenTo
        <5> QED BY <1>2, <1>3, <1>8, <4>2, <5>1
      <4> QED BY <4>1, <4>2
    <3>2. ASSUME NEW t \in sync'.list, Unwanted(t)' PROVE ToRetire(t)'
      BY <1>3, <1>6, <1>8, <2>1, <3>2 DEF ListSeenTo
    <3> QED BY <3>1, <3>2
  <2> QED BY <2>3, <2>4, <2>5
<1> QED BY <1>2, <1>5, <1>9 DEF DeliveriesInv

(* A row goes beside no synchronisation: if its title was added after it   *)
(* was read, the delivery of that waits.                                   *)
LEMMA RetiresSteps ==
  ASSUME DeliveriesAssumed, DeliveriesInv, OneHooked, NEW d \in Deliveries, D!Retires(d)
  PROVE  DeliveriesInv'
<1> DEFINE x == delivery[d]
           w == delivery[d].title
<1>1. x \in DeliveryRecord /\ x.phase = "read" /\ ~ x.saw /\ w \in Titles
  BY DEF DeliveriesInv, DeliveriesTypes, D!Retires, DeliveryRecord
<1>2. /\ rows' = rows \ {w} /\ delivery' = [delivery EXCEPT ![d] = D!Over] /\ syncing = None
      /\ UNCHANGED <<held, instance, syncing, sync, missed, shadowed>>
  BY DEF D!Retires, D!Ends, D!arrVars, D!ghosts
<1>3. instance # "removed" => sync.phase = "idle"
  BY <1>2 DEF DeliveriesAssumed, D!NoneHoldsNothing, DeliveriesInv, SyncHoldsItsLock
<1>4. /\ delivery' \in [Deliveries -> DeliveryRecord] /\ delivery'[d] = D!Over
      /\ \A e \in Deliveries : e # d => delivery'[e] = delivery[e]
  BY <1>2, OneDelivery, OverIsARecord DEF DeliveriesInv
<1>5. DeliveriesTypes' /\ SyncHoldsItsLock'
  BY <1>2, <1>4, OverIsARecord DEF DeliveriesInv, DeliveriesTypes, SyncHoldsItsLock
<1>6. Wanted' = Wanted /\ \A t : Unwanted(t)' <=> Unwanted(t)
  BY <1>2 DEF Wanted, Unwanted
<1>7. ~ WillWrite(x)
  BY <1>1 DEF WillWrite, Early
<1>8. /\ \A t : t # w /\ ToRetire(t) => ToRetire(t)'
      /\ \A t : ToWrite(t) => ToWrite(t)'
  BY <1>2, <1>7, CoversStay, OverIsARecord DEF DeliveriesInv
<1>9. ASSUME instance # "removed" PROVE RowsSeenTo' /\ ReadsSeenTo' /\ ListSeenTo'
  <2>1. RowsSeenTo /\ ReadsSeenTo /\ ListSeenTo
    BY <1>9 DEF DeliveriesInv
  <2>2. w \in Wanted => ToWrite(w)
    BY <1>1, <2>1 DEF ReadsSeenTo
  <2>3. RowsSeenTo'
    BY <1>2, <1>6, <1>8, <2>1, <2>2 DEF RowsSeenTo
  <2>4. ReadsSeenTo'
    <3> SUFFICES ASSUME NEW e \in Deliveries, delivery'[e].phase = "read" PROVE FALSE
      BY DEF ReadsSeenTo
    <3>1. e # d /\ delivery'[e] = delivery[e]
      BY <1>4, OverIsARecord
    <3> QED BY <1>1, <3>1 DEF OneHooked
  <2>5. ListSeenTo'
    BY <1>2, <1>3, <1>9 DEF ListSeenTo
  <2> QED BY <2>3, <2>4, <2>5
<1> QED BY <1>2, <1>5, <1>9 DEF DeliveriesInv

(* An event: a delivery waits for it, or its title is left to the next     *)
(* synchronisation.                                                        *)
LEMMA EventSteps ==
  ASSUME DeliveriesInv, NEW t \in Titles, NEW kind \in {"change", "delete"}, D!Event(t, kind)
  PROVE  DeliveriesInv'
<1> DEFINE same == {d \in D!Waiting : delivery[d].title = t}
<1>1. /\ held' = IF kind = "delete" THEN held \ {t} ELSE held \cup {t}
      /\ D!Answered(t, kind) /\ UNCHANGED <<rows, instance, syncing, sync>>
  BY DEF D!Event
<1>2. /\ \A u : u # t => (u \in held' <=> u \in held)
      /\ t \in held' <=> kind # "delete"
  BY <1>1
<1>3. DeliveriesTypes
  BY DEF DeliveriesInv
<1>4. held' \in SUBSET Titles
  BY <1>1, <1>3 DEF DeliveriesTypes
<1>5. SUFFICES /\ delivery' \in [Deliveries -> DeliveryRecord]
               /\ \A d \in Deliveries : delivery'[d].phase # "over" => delivery'[d].title \in Titles
               /\ \A d \in Deliveries : delivery'[d].phase = "read" => delivery'[d] = delivery[d]
               /\ missed \subseteq missed' /\ shadowed \subseteq shadowed'
               /\ \A u : ToWrite(u) => ToWrite(u)'
               /\ \A u : ToRetire(u) => ToRetire(u)'
               /\ t \in Wanted' => ToWrite(t)'
               /\ Unwanted(t)' => ToRetire(t)'
  <2>1. DeliveriesTypes' /\ SyncHoldsItsLock'
    BY <1>1, <1>4, <1>5 DEF DeliveriesInv, DeliveriesTypes, SyncHoldsItsLock
  <2>2. /\ \A u \in Wanted' : u \in Wanted \/ u = t
        /\ \A u : Unwanted(u)' => Unwanted(u) \/ u = t
    BY <1>2, <1>5 DEF Wanted, Unwanted
  <2>3. ASSUME instance # "removed" PROVE RowsSeenTo' /\ ReadsSeenTo' /\ ListSeenTo'
    <3>1. RowsSeenTo /\ ReadsSeenTo /\ ListSeenTo
      BY <2>3 DEF DeliveriesInv
    <3>2. RowsSeenTo'
      BY <1>1, <1>5, <2>2, <3>1 DEF RowsSeenTo
    <3>3. ReadsSeenTo'
      <4> SUFFICES ASSUME NEW e \in Deliveries, NEW u \in Titles,
                          delivery'[e].phase = "read", delivery'[e].title = u
                   PROVE  /\ ~ delivery'[e].saw /\ u \in Wanted' => ToWrite(u)'
                          /\ delivery'[e].saw /\ Unwanted(u)' => ToRetire(u)'
        BY DEF ReadsSeenTo
      <4>1. delivery'[e] = delivery[e]
        BY <1>5
      <4> QED BY <1>5, <2>2, <3>1, <4>1 DEF ReadsSeenTo
    <3>4. ListSeenTo'
      BY <1>1, <1>5, <2>2, <3>1 DEF ListSeenTo
    <3> QED BY <3>2, <3>3, <3>4
  <2> QED BY <1>1, <2>1, <2>3 DEF DeliveriesInv
<1>6. ASSUME delivery' = delivery
      PROVE  /\ delivery' \in [Deliveries -> DeliveryRecord]
             /\ \A d \in Deliveries : delivery'[d].phase # "over" => delivery'[d].title \in Titles
             /\ \A d \in Deliveries : delivery'[d].phase = "read" => delivery'[d] = delivery[d]
             /\ \A u : ToWrite(u)' <=> ToWrite(u)
             /\ \A u : ToRetire(u)' <=> ToRetire(u)
  BY <1>3, <1>6 DEF DeliveriesTypes, ToWrite, ToRetire
<1>7. CASE missed' = missed \cup {t} /\ UNCHANGED <<delivery, shadowed>>
  <2>1. t \notin Wanted' /\ ~ Unwanted(t)'
    BY <1>7 DEF Wanted, Unwanted
  <2> QED BY <1>6, <1>7, <2>1
<1>8. CASE /\ same # {} /\ UNCHANGED <<delivery, missed>>
           /\ shadowed' = IF kind = "delete" /\ \A d \in same : delivery[d].kind # "delete"
                          THEN shadowed \cup {t} ELSE shadowed
  <2>1. \A d \in same : d \in Deliveries /\ delivery[d].phase = "waiting" /\ delivery[d].title = t
    BY DEF D!Waiting
  <2>2. ToWrite(t)
    BY <1>8, <2>1 DEF ToWrite, WillWrite, Early
  <2>3. Unwanted(t)' => ToRetire(t)
    <3> SUFFICES ASSUME Unwanted(t)' PROVE ToRetire(t)
      OBVIOUS
    <3>1. t \notin held' /\ t \notin shadowed'
      BY DEF Unwanted
    <3>2. PICK d \in same : delivery[d].kind = "delete"
      BY <1>2, <1>8, <3>1
    <3> QED BY <2>1, <3>2 DEF ToRetire, WillRetire, Early
  <2>4. shadowed \subseteq shadowed' /\ delivery' = delivery
    BY <1>8
  <2> HIDE DEF same
  <2> QED BY <1>6, <1>8, <2>2, <2>3, <2>4
<1>9. ASSUME NEW d \in Deliveries, delivery[d] = D!Over, D!Queued(d, t, kind)
      PROVE  /\ delivery' \in [Deliveries -> DeliveryRecord]
             /\ \A e \in Deliveries : delivery'[e].phase # "over" => delivery'[e].title \in Titles
             /\ \A e \in Deliveries : delivery'[e].phase = "read" => delivery'[e] = delivery[e]
             /\ missed' = missed /\ shadowed' = shadowed
             /\ \A u : ToWrite(u) => ToWrite(u)'
             /\ \A u : ToRetire(u) => ToRetire(u)'
             /\ t \in Wanted' => ToWrite(t)'
             /\ Unwanted(t)' => ToRetire(t)'
  <2> DEFINE r == [D!Over EXCEPT !.phase = "waiting", !.title = t, !.kind = kind]
  <2>1. delivery' = [delivery EXCEPT ![d] = r] /\ missed' = missed /\ shadowed' = shadowed
    BY <1>9 DEF D!Queued, D!ghosts
  <2>2. r \in DeliveryRecord /\ r.phase = "waiting" /\ r.title = t /\ r.kind = kind
    BY OverIsARecord DEF DeliveryRecord
  <2> HIDE DEF r
  <2>3. /\ delivery' \in [Deliveries -> DeliveryRecord] /\ delivery'[d] = r
        /\ \A e \in Deliveries : e # d => delivery'[e] = delivery[e]
    BY <1>3, <2>1, <2>2, OneDelivery
  <2>4. /\ \A u : ToWrite(u) => ToWrite(u)'
        /\ \A u : ToRetire(u) => ToRetire(u)'
    BY <1>3, <1>9, <2>1, <2>2, CoversStay, OverIsARecord
  <2>5. ToWrite(t)'
    BY <2>2, <2>3 DEF ToWrite, WillWrite, Early
  <2>6. Unwanted(t)' => ToRetire(t)'
    <3>1. ASSUME Unwanted(t)' PROVE kind = "delete"
      BY <1>2, <3>1 DEF Unwanted
    <3>2. kind = "delete" => ToRetire(t)'
      BY <2>2, <2>3 DEF ToRetire, WillRetire, Early
    <3> QED BY <3>1, <3>2
  <2>7. \A e \in Deliveries : delivery'[e].phase # "over" => delivery'[e].title \in Titles
    BY <1>3, <2>2, <2>3 DEF DeliveriesTypes
  <2>8. \A e \in Deliveries : delivery'[e].phase = "read" => delivery'[e] = delivery[e]
    BY <2>2, <2>3
  <2> QED BY <2>1, <2>3, <2>4, <2>5, <2>6, <2>7, <2>8
<1>10. CASE \E d \in Deliveries : delivery[d] = D!Over /\ D!Queued(d, t, kind)
  BY <1>9, <1>10
<1>11. \/ missed' = missed \cup {t} /\ UNCHANGED <<delivery, shadowed>>
       \/ /\ same # {} /\ UNCHANGED <<delivery, missed>>
          /\ shadowed' = IF kind = "delete" /\ \A d \in same : delivery[d].kind # "delete"
                         THEN shadowed \cup {t} ELSE shadowed
       \/ \E d \in Deliveries : delivery[d] = D!Over /\ D!Queued(d, t, kind)
  <2>1. D!Answered(t, kind)
    BY <1>1
  <2>2. CASE instance # "enabled"
    BY <2>1, <2>2 DEF D!Answered
  <2>3. CASE instance = "enabled" /\ same # {}
    BY <2>1, <2>3 DEF D!Answered
  <2>4. CASE instance = "enabled" /\ same = {}
    BY <2>1, <2>4 DEF D!Answered
  <2> QED BY <2>2, <2>3, <2>4
<1> QED BY <1>7, <1>8, <1>10, <1>11

(* The synchronisation writes the list it read: what changed since has its *)
(* delivery, or was written after it began.                                *)
LEMMA SyncSteps ==
  ASSUME DeliveriesInv, D!SyncStarts \/ D!SyncReads \/ D!SyncWrites \/ D!SyncFails
  PROVE  DeliveriesInv'
<1>1. UNCHANGED <<held, instance, delivery, missed, shadowed>>
  BY DEF D!SyncStarts, D!SyncReads, D!SyncWrites, D!SyncFails, D!arrVars, D!locks, D!ghosts
<1>2. /\ Wanted' = Wanted /\ \A t : Unwanted(t)' <=> Unwanted(t)
      /\ \A t : ToWrite(t)' <=> ToWrite(t)
      /\ \A t : ToRetire(t)' <=> ToRetire(t)
  BY <1>1 DEF Wanted, Unwanted, ToWrite, ToRetire
<1>3. DeliveriesTypes /\ SyncHoldsItsLock /\ sync \in SyncRecord
  BY DEF DeliveriesInv, DeliveriesTypes
<1>4. ReadsSeenTo => ReadsSeenTo'
  BY <1>1, <1>2 DEF ReadsSeenTo
<1>5. ASSUME rows' = rows, sync' \in SyncRecord, sync'.phase # "read",
             sync'.phase # "idle" => syncing' = "sync"
      PROVE  DeliveriesInv'
  <2>1. DeliveriesTypes' /\ SyncHoldsItsLock'
    BY <1>1, <1>3, <1>5 DEF DeliveriesTypes, SyncHoldsItsLock
  <2>2. RowsSeenTo => RowsSeenTo'
    BY <1>2, <1>5 DEF RowsSeenTo
  <2>3. ListSeenTo'
    BY <1>5 DEF ListSeenTo
  <2> QED BY <1>1, <1>4, <2>1, <2>2, <2>3 DEF DeliveriesInv
<1>6. CASE D!SyncStarts
  <2>1. /\ rows' = rows /\ syncing' = "sync"
        /\ sync' = [D!NoSync EXCEPT !.phase = "began"]
    BY <1>6 DEF D!SyncStarts, D!FullSync
  <2>2. sync' \in SyncRecord /\ sync'.phase = "began"
    BY <2>1, NoSyncIsARecord DEF SyncRecord
  <2> QED BY <1>5, <2>1, <2>2
<1>7. CASE D!SyncFails
  BY <1>5, <1>7, NoSyncIsARecord DEF D!SyncFails
<1>8. CASE D!SyncReads
  <2>1. /\ rows' = rows /\ syncing' = syncing /\ sync.phase = "began"
        /\ sync' = [sync EXCEPT !.phase = "read", !.list = held]
    BY <1>8 DEF D!SyncReads, D!locks
  <2>2. sync' \in SyncRecord /\ sync'.phase = "read" /\ sync'.list = held
    BY <1>3, <2>1 DEF SyncRecord, DeliveriesTypes
  <2>3. DeliveriesTypes' /\ SyncHoldsItsLock'
    BY <1>1, <1>3, <2>1, <2>2 DEF DeliveriesTypes, SyncHoldsItsLock
  <2>4. RowsSeenTo => RowsSeenTo'
    BY <1>2, <2>1 DEF RowsSeenTo
  <2>5. ListSeenTo'
    BY <1>1, <2>2 DEF ListSeenTo, Wanted, Unwanted
  <2> QED BY <1>1, <1>4, <2>3, <2>4, <2>5 DEF DeliveriesInv
<1>9. CASE D!SyncWrites
  <2>1. /\ sync.phase = "read" /\ sync' = D!NoSync
        /\ rows' = IF sync.list = {} THEN rows ELSE sync.list \cup (rows \cap sync.fresh)
    BY <1>9 DEF D!SyncWrites
  <2>2. rows' \in SUBSET Titles
    BY <1>3, <2>1 DEF DeliveriesTypes, SyncRecord
  <2>3. DeliveriesTypes' /\ SyncHoldsItsLock'
    BY <1>1, <1>3, <2>1, <2>2, NoSyncIsARecord DEF DeliveriesTypes, SyncHoldsItsLock
  <2>4. ASSUME RowsSeenTo, ListSeenTo PROVE RowsSeenTo'
    <3>1. ASSUME NEW t \in Wanted' PROVE t \in rows' \/ ToWrite(t)'
      <4>1. CASE sync.list = {}
        BY <1>2, <2>1, <2>4, <3>1, <4>1 DEF RowsSeenTo
      <4>2. CASE t \in sync.list
        BY <2>1, <4>2
      <4>3. CASE t \notin sync.list /\ sync.list # {}
        BY <1>2, <2>1, <2>4, <3>1, <4>3 DEF ListSeenTo
      <4> QED BY <4>1, <4>2, <4>3
    <3>2. ASSUME NEW t \in rows', Unwanted(t)' PROVE ToRetire(t)'
      <4>1. t \in rows \/ t \in sync.list
        BY <2>1, <3>2
      <4> QED BY <1>2, <2>1, <2>4, <3>2, <4>1 DEF RowsSeenTo, ListSeenTo
    <3> QED BY <3>1, <3>2 DEF RowsSeenTo
  <2>5. ListSeenTo'
    BY <2>1, NoSyncIsARecord DEF ListSeenTo
  <2> QED BY <1>1, <1>4, <2>3, <2>4, <2>5 DEF DeliveriesInv
<1> QED BY <1>6, <1>7, <1>8, <1>9

(* A person. *)
LEMMA PersonSteps ==
  ASSUME DeliveriesAssumed, DeliveriesInv,
         D!Switch \/ D!RemovalAsked \/ D!Removed \/ D!RemovalGivesUp
  PROVE  DeliveriesInv'
<1>1. UNCHANGED <<held, delivery, sync, missed, shadowed>>
  BY DEF D!Switch, D!RemovalAsked, D!Removed, D!RemovalGivesUp, D!arrVars, D!ghosts
<1>2. /\ Wanted' = Wanted /\ \A t : Unwanted(t)' <=> Unwanted(t)
      /\ \A t : ToWrite(t)' <=> ToWrite(t)
      /\ \A t : ToRetire(t)' <=> ToRetire(t)
  BY <1>1 DEF Wanted, Unwanted, ToWrite, ToRetire
<1>3. CASE D!Removed
  <2>1. instance' = "removed" /\ rows' = {} /\ syncing' = None
    BY <1>3 DEF D!Removed
  <2> QED BY <1>1, <2>1 DEF DeliveriesInv, DeliveriesTypes, SyncHoldsItsLock
<1>4. CASE D!Switch \/ D!RemovalAsked \/ D!RemovalGivesUp
  <2>1. rows' = rows /\ (instance' # "removed" => instance # "removed")
    BY <1>4 DEF D!Switch, D!RemovalAsked, D!RemovalGivesUp
  <2>2. SyncHoldsItsLock'
    <3>1. (syncing' = syncing \/ syncing \in {None, "removal"})
          /\ (instance' # "removed" => instance # "removed")
      BY <1>4 DEF D!Switch, D!RemovalAsked, D!RemovalGivesUp, D!locks, D!Removal
    <3> QED BY <1>1, <3>1
            DEF DeliveriesAssumed, D!NoneHoldsNothing, DeliveriesInv, SyncHoldsItsLock
  <2>3. DeliveriesTypes'
    BY <1>1, <2>1 DEF DeliveriesInv, DeliveriesTypes
  <2>4. /\ RowsSeenTo => RowsSeenTo'
        /\ ReadsSeenTo => ReadsSeenTo'
        /\ ListSeenTo => ListSeenTo'
    BY <1>1, <1>2, <2>1 DEF RowsSeenTo, ReadsSeenTo, ListSeenTo
  <2> QED BY <2>1, <2>2, <2>3, <2>4 DEF DeliveriesInv
<1> QED BY <1>3, <1>4

(* An event changes no delivery, or queues one. *)
LEMMA EventAnswers ==
  ASSUME NEW t, NEW kind, D!Answered(t, kind)
  PROVE  delivery' = delivery \/ \E d \in Deliveries : D!Queued(d, t, kind)
BY DEF D!Answered

(* A delivery takes the lock none holds, and gives it back as it ends. *)
LEMMA HookedSteps ==
  ASSUME DeliveriesAssumed, DeliveriesTypes, OneHooked, [D!Next]_D!vars
  PROVE  OneHooked'
<1> DEFINE Held(r) == r.phase \in {"held", "checked", "read"}
<1>1. ASSUME NEW d \in Deliveries, NEW r \in DeliveryRecord,
             delivery' = [delivery EXCEPT ![d] = r],
             Held(r) => hooked' = d,
             \A e \in Deliveries : e # d /\ hooked = e => hooked' = e
      PROVE  OneHooked'
  <2>1. /\ delivery'[d] = r
        /\ \A e \in Deliveries : e # d => delivery'[e] = delivery[e]
    BY <1>1, OneDelivery
  <2> QED BY <1>1, <2>1 DEF OneHooked
<1>2. ASSUME delivery' = delivery, hooked' = hooked PROVE OneHooked'
  BY <1>2 DEF OneHooked
<1>3. ASSUME NEW d \in Deliveries, D!Ends(d), Held(delivery[d]) PROVE OneHooked'
  <2>1. \A e \in Deliveries : e # d => hooked # e
    BY <1>3 DEF OneHooked
  <2>2. delivery' = [delivery EXCEPT ![d] = D!Over] /\ ~ Held(D!Over)
    BY <1>3, OverIsARecord DEF D!Ends
  <2> HIDE DEF Held
  <2> QED BY <1>1, <2>1, <2>2, OverIsARecord
<1>4. ASSUME NEW d \in Deliveries, NEW phase \in {"held", "checked"},
             delivery' = [delivery EXCEPT ![d].phase = phase], hooked' = d,
             \A e \in Deliveries : e # d => hooked # e
      PROVE  OneHooked'
  <2> DEFINE r == [delivery[d] EXCEPT !.phase = phase]
  <2>1. delivery' = [delivery EXCEPT ![d] = r] /\ r \in DeliveryRecord
    BY <1>4 DEF DeliveriesTypes, DeliveryRecord
  <2> HIDE DEF r, Held
  <2> QED BY <1>1, <1>4, <2>1
<1>5. ASSUME NEW d \in Deliveries, D!DeliveryStep(d) \/ D!GivesUp(d) PROVE OneHooked'
  <2>1. CASE D!Taken(d)
    <3>1. \A e \in Deliveries : hooked # e
      BY <2>1 DEF D!Taken, DeliveriesAssumed, D!NoneHoldsNothing
    <3> HIDE DEF Held
    <3> QED BY <1>4, <2>1, <3>1 DEF D!Taken
  <2>2. CASE D!Checks(d)
    <3>1. delivery[d].phase = "held" /\ Held(delivery[d])
      BY <2>2 DEF D!Checks
    <3>2. hooked = d
      BY <3>1 DEF OneHooked
    <3>3. CASE instance = "enabled"
      <4> HIDE DEF Held
      <4> QED BY <1>4, <2>2, <3>2, <3>3 DEF D!Checks
    <3>4. CASE instance # "enabled"
      <4> HIDE DEF Held
      <4> QED BY <1>3, <2>2, <3>1, <3>4 DEF D!Checks
    <3> QED BY <3>3, <3>4
  <2>3. CASE D!ReadsArr(d)
    <3> DEFINE there == delivery[d].title \in held
               r == [delivery[d] EXCEPT !.phase = "read", !.saw = there]
    <3>1. hooked = d /\ hooked' = d
      BY <2>3 DEF OneHooked, D!ReadsArr, D!locks
    <3>2. delivery' = [delivery EXCEPT ![d] = r]
      BY <2>3 DEF D!ReadsArr, DeliveriesTypes
    <3>3. there \in BOOLEAN
      OBVIOUS
    <3> HIDE DEF there
    <3>4. r \in DeliveryRecord
      BY <3>3 DEF DeliveriesTypes, DeliveryRecord
    <3> HIDE DEF r, Held
    <3> QED BY <1>1, <3>1, <3>2, <3>4
  <2>4. CASE D!Writes(d) \/ D!LeavesIt(d) \/ D!Retires(d) \/ D!Drops(d)
    <3>1. D!Ends(d) /\ Held(delivery[d])
      BY <2>4 DEF D!Writes, D!LeavesIt, D!Retires, D!Drops
    <3> HIDE DEF Held
    <3> QED BY <1>3, <3>1
  <2>5. CASE D!GivesUp(d)
    <3>1. delivery' = [delivery EXCEPT ![d] = D!Over] /\ hooked' = hooked /\ ~ Held(D!Over)
      BY <2>5, OverIsARecord DEF D!GivesUp
    <3> HIDE DEF Held
    <3> QED BY <1>1, <3>1, OverIsARecord
  <2> QED BY <1>5, <2>1, <2>2, <2>3, <2>4, <2>5 DEF D!DeliveryStep
<1>6. ASSUME NEW t \in Titles, NEW kind \in {"change", "delete"}, D!Event(t, kind)
      PROVE  OneHooked'
  <2>1. D!Answered(t, kind) /\ hooked' = hooked
    BY <1>6 DEF D!Event
  <2>2. ASSUME NEW d \in Deliveries, D!Queued(d, t, kind) PROVE OneHooked'
    <3> DEFINE r == [D!Over EXCEPT !.phase = "waiting", !.title = t, !.kind = kind]
    <3>1. delivery' = [delivery EXCEPT ![d] = r]
      BY <2>2 DEF D!Queued
    <3>2. r \in DeliveryRecord /\ ~ Held(r)
      BY OverIsARecord DEF DeliveryRecord
    <3> HIDE DEF r, Held
    <3> QED BY <1>1, <2>1, <3>1, <3>2
  <2>3. delivery' = delivery \/ \E d \in Deliveries : D!Queued(d, t, kind)
    BY <2>1, EventAnswers
  <2> QED BY <1>2, <2>1, <2>2, <2>3
<1>7. CASE D!SyncStarts \/ D!SyncEnds
  BY <1>2, <1>7 DEF D!SyncStarts, D!SyncEnds, D!SyncReads, D!SyncWrites, D!SyncFails, D!locks
<1>8. CASE D!Switch \/ D!RemovalAsked \/ D!RemovalEnds
  BY <1>2, <1>8 DEF D!Switch, D!RemovalAsked, D!RemovalEnds, D!Removed, D!RemovalGivesUp, D!locks
<1>9. CASE UNCHANGED D!vars
  BY <1>2, <1>9 DEF D!vars, D!locks
<1> QED BY <1>5, <1>6, <1>7, <1>8, <1>9 DEF D!Next

LEMMA InitOneHooked == D!Init => OneHooked
BY OverIsARecord DEF D!Init, OneHooked

LEMMA NextDeliveriesInv ==
  DeliveriesAssumed /\ DeliveriesInv /\ OneHooked /\ [D!Next]_D!vars => DeliveriesInv' /\ OneHooked'
<1> SUFFICES ASSUME DeliveriesAssumed, DeliveriesInv, OneHooked, [D!Next]_D!vars
             PROVE  DeliveriesInv' /\ OneHooked'
  OBVIOUS
<1>1. OneHooked'
  BY HookedSteps DEF DeliveriesInv
<1>2. ASSUME NEW t \in Titles, NEW kind \in {"change", "delete"}, D!Event(t, kind)
      PROVE  DeliveriesInv'
  BY <1>2, EventSteps
<1>3. ASSUME NEW d \in Deliveries, D!DeliveryStep(d) \/ D!GivesUp(d) PROVE DeliveriesInv'
  <2>1. CASE D!Writes(d)
    BY <2>1, WritesSteps
  <2>2. CASE D!Retires(d)
    BY <2>2, RetiresSteps
  <2>3. CASE \/ D!Taken(d) \/ D!Checks(d) \/ D!ReadsArr(d) \/ D!LeavesIt(d) \/ D!Drops(d)
             \/ D!GivesUp(d)
    BY <2>3, EarlySteps
  <2> QED BY <1>3, <2>1, <2>2, <2>3 DEF D!DeliveryStep
<1>4. CASE D!SyncStarts \/ D!SyncEnds
  <2>1. D!SyncStarts \/ D!SyncReads \/ D!SyncWrites \/ D!SyncFails
    BY <1>4 DEF D!SyncEnds
  <2> QED BY <1>1, <2>1, SyncSteps
<1>5. CASE D!Switch \/ D!RemovalAsked \/ D!RemovalEnds
  <2>1. D!Switch \/ D!RemovalAsked \/ D!Removed \/ D!RemovalGivesUp
    BY <1>5 DEF D!RemovalEnds
  <2> QED BY <1>1, <2>1, PersonSteps
<1>6. CASE UNCHANGED D!vars
  <2>1. UNCHANGED <<held, rows, instance, delivery, syncing, sync, missed, shadowed>>
    BY <1>6 DEF D!vars, D!arrVars, D!locks, D!ghosts
  <2>2. /\ Wanted' = Wanted /\ \A t : Unwanted(t)' <=> Unwanted(t)
        /\ \A t : ToWrite(t)' <=> ToWrite(t)
        /\ \A t : ToRetire(t)' <=> ToRetire(t)
    BY <2>1 DEF Wanted, Unwanted, ToWrite, ToRetire
  <2>3. DeliveriesTypes' /\ SyncHoldsItsLock'
    BY <2>1 DEF DeliveriesInv, DeliveriesTypes, SyncHoldsItsLock
  <2>4. /\ RowsSeenTo => RowsSeenTo'
        /\ ReadsSeenTo => ReadsSeenTo'
        /\ ListSeenTo => ListSeenTo'
    BY <2>1, <2>2 DEF RowsSeenTo, ReadsSeenTo, ListSeenTo
  <2> QED BY <1>1, <2>1, <2>3, <2>4 DEF DeliveriesInv
<1> QED BY <1>1, <1>2, <1>3, <1>4, <1>5, <1>6 DEF D!Next

LEMMA DeliveriesInvariant == DeliveriesAssumed => (D!Spec => [](DeliveriesInv /\ OneHooked))
<1> SUFFICES ASSUME DeliveriesAssumed PROVE D!Spec => [](DeliveriesInv /\ OneHooked)
  OBVIOUS
<1>1. D!Init => DeliveriesInv /\ OneHooked
  BY InitDeliveriesInv, InitOneHooked
<1>2. DeliveriesInv /\ OneHooked /\ [D!Next]_D!vars => DeliveriesInv' /\ OneHooked'
  BY NextDeliveriesInv
<1> QED BY <1>1, <1>2, PTL DEF D!Spec

(* Whatever the deliveries, the synchronisations and the removal did, once *)
(* they are over the rows are the titles the Arr has (webhook.rs, sync.rs).*)
THEOREM RowsAreTheArrs == DeliveriesAssumed => (D!Spec => []D!QuietRowsAreTheArrs)
<1>1. DeliveriesInv => D!QuietRowsAreTheArrs
  <2> SUFFICES ASSUME DeliveriesInv, D!Quiet
               PROVE  /\ held \ missed \subseteq rows
                      /\ rows \ (missed \cup shadowed) \subseteq held
    BY DEF D!QuietRowsAreTheArrs
  <2>1. \A t : ~ ToWrite(t) /\ ~ ToRetire(t)
    BY OverIsARecord DEF D!Quiet, ToWrite, ToRetire
  <2>2. RowsSeenTo
    BY DEF D!Quiet, DeliveriesInv
  <2> QED BY <2>1, <2>2 DEF RowsSeenTo, Wanted, Unwanted
<1>2. DeliveriesAssumed => (D!Spec => [](DeliveriesInv /\ OneHooked))
  BY DeliveriesInvariant
<1> QED BY <1>1, <1>2, PTL
=============================================================================
