----------------------------- MODULE SignInProofs -----------------------------
(***************************************************************************)
(* What holds requests back, those that come in and those that go out.     *)
(* PlacesAreHeld and WaitsGrow hold of SignIn for any requests, addresses, *)
(* limits, windows and waits; and of Pacing, under variables of its own,   *)
(* the pace and the holds, for any callers, burst, rates, waits and        *)
(* deadlines.                                                              *)
(***************************************************************************)
EXTENDS SignIn, FiniteSetTheorems, TLAPS

Inside(phases) == {r \in Requests : request[r] # None /\ request[r].phase \in phases}
Counted == {"over", "queued", "checking", "abandoned"}
Hashing == {"checking", "abandoned"}
HeldBy(c) == {r \in Inside(Counted \cup {"admitted"}) : request[r].client = c}

(* The requests and what is remembered of the addresses, by their types.   *)
Requested == request \in [Requests -> Request \cup {None}]
Places ==
  /\ inFlight = Cardinality(Inside(Counted))
  /\ permits = Checks - Cardinality(Inside(Hashing)) /\ permits >= 0
  /\ Cardinality(Inside({"queued"} \cup Hashing)) <= MaxInFlight
  /\ \A c \in Clients : shares[c] = Cardinality(HeldBy(c))

(* A wait is of an address that failed as often as is allowed and runs     *)
(* from its last failure; the last one set is the one it has, unless it    *)
(* has been quiet for the window after it.                                 *)
Sound(f) ==
  /\ f \in Failure /\ f.last <= time
  /\ IF f.count < Allowed THEN f.wait = 0 /\ f.until = None
     ELSE f.wait > 0 /\ f.until = f.last + f.wait
Remembers(c) ==
  \/ lastWait[c].wait = 0
  \/ time - lastWait[c].ends >= Window
  \/ /\ failures[c] # None /\ failures[c].count >= Allowed
     /\ lastWait[c] = [wait |-> failures[c].wait, ends |-> failures[c].until]
Waits ==
  /\ time \in 0..MaxTime
  /\ failures \in [Clients -> Failure \cup {None}]
  /\ lastWait \in [Clients -> [wait: 0..LongestWait, ends: 0..(MaxTime + LongestWait)]]
  /\ \A c \in Clients : (failures[c] # None => Sound(failures[c])) /\ Remembers(c)

IInv == Requested /\ Places /\ Waits

-----------------------------------------------------------------------------
(* A set of requests that differs from another by one request at most.     *)
LEMMA OneApart ==
  ASSUME SomeOfEach, NEW S \in SUBSET Requests, NEW T \in SUBSET Requests, NEW r \in Requests,
         \A t \in Requests : t # r => (t \in S <=> t \in T)
  PROVE  /\ Cardinality(S) \in Nat /\ Cardinality(T) \in Nat
         /\ (r \in S <=> r \in T) => Cardinality(T) = Cardinality(S)
         /\ r \notin S /\ r \in T => Cardinality(T) = Cardinality(S) + 1
         /\ r \in S /\ r \notin T => Cardinality(T) = Cardinality(S) - 1
<1>1. IsFiniteSet(S) /\ IsFiniteSet(T)
  BY FS_Subset DEF SomeOfEach
<1>2. Cardinality(S) \in Nat /\ Cardinality(T) \in Nat
  BY <1>1, FS_CardinalityType
<1>3. CASE r \in S <=> r \in T
  <2>1. S = T
    BY <1>3
  <2> QED BY <1>2, <1>3, <2>1
<1>4. CASE r \notin S /\ r \in T
  <2>1. T = S \cup {r}
    BY <1>4
  <2> QED BY <1>1, <1>2, <1>4, <2>1, FS_AddElement
<1>5. CASE r \in S /\ r \notin T
  <2>1. T = S \ {r}
    BY <1>5
  <2> QED BY <1>1, <1>2, <1>5, <2>1, FS_RemoveElement
<1> QED BY <1>2, <1>3, <1>4, <1>5

LEMMA PlacesSame == PlacesAreHeld <=> Places
BY DEF PlacesAreHeld, Places, In, Inside, Counted, Hashing, HeldBy

(* What one request changes is what it leaves and what it enters.          *)
Bit(b) == IF b THEN 1 ELSE 0
IsIn(r, phases) == request[r] # None /\ request[r].phase \in phases
Holds(r, c) == IsIn(r, Counted \cup {"admitted"}) /\ request[r].client = c
Others(r) == \A t \in Requests : t # r => request'[t] = request[t]

LEMMA InsideMoves ==
  ASSUME SomeOfEach, NEW r \in Requests, Others(r), NEW phases
  PROVE  /\ Cardinality(Inside(phases)) \in Nat
         /\ Cardinality(Inside(phases)') =
              Cardinality(Inside(phases)) + Bit(IsIn(r, phases)') - Bit(IsIn(r, phases))
<1>1. Inside(phases) \in SUBSET Requests /\ Inside(phases)' \in SUBSET Requests
  BY DEF Inside
<1>2. \A t \in Requests : t # r => (t \in Inside(phases) <=> t \in Inside(phases)')
  BY DEF Inside, Others
<1>3. (r \in Inside(phases) <=> IsIn(r, phases)) /\ (r \in Inside(phases)' <=> IsIn(r, phases)')
  BY DEF Inside, IsIn
<1> HIDE DEF Inside, IsIn
<1> QED BY <1>1, <1>2, <1>3, OneApart DEF Bit

LEMMA HeldMoves ==
  ASSUME SomeOfEach, NEW r \in Requests, Others(r), NEW c
  PROVE  /\ Cardinality(HeldBy(c)) \in Nat
         /\ Cardinality(HeldBy(c)') = Cardinality(HeldBy(c)) + Bit(Holds(r, c)') - Bit(Holds(r, c))
<1>1. HeldBy(c) \in SUBSET Requests /\ HeldBy(c)' \in SUBSET Requests
  BY DEF HeldBy, Inside
<1>2. \A t \in Requests : t # r => (t \in HeldBy(c) <=> t \in HeldBy(c)')
  BY DEF HeldBy, Inside, Others
<1>3. (r \in HeldBy(c) <=> Holds(r, c)) /\ (r \in HeldBy(c)' <=> Holds(r, c)')
  BY DEF HeldBy, Inside, Holds, IsIn
<1> HIDE DEF HeldBy, Holds
<1> QED BY <1>1, <1>2, <1>3, OneApart DEF Bit

(* Every place of a request, before and after its step.                    *)
LEMMA PlacesMove ==
  ASSUME SomeOfEach, Places, NEW r \in Requests, Others(r),
         inFlight' = inFlight + Bit(IsIn(r, Counted)') - Bit(IsIn(r, Counted)),
         permits' = permits - Bit(IsIn(r, Hashing)') + Bit(IsIn(r, Hashing)),
         permits' >= 0,
         \/ Bit(IsIn(r, {"queued"} \cup Hashing)') <= Bit(IsIn(r, {"queued"} \cup Hashing))
         \/ inFlight < MaxInFlight,
         \A c \in Clients : shares'[c] = shares[c] + Bit(Holds(r, c)') - Bit(Holds(r, c))
  PROVE  Places'
<1>1. inFlight' = Cardinality(Inside(Counted)')
  BY InsideMoves DEF Places
<1>2. permits' = Checks - Cardinality(Inside(Hashing)')
  <2>1. Checks \in Nat
    BY DEF SomeOfEach
  <2> QED BY <2>1, InsideMoves DEF Places, Bit
<1>3. Cardinality(Inside({"queued"} \cup Hashing)') <= MaxInFlight
  <2>1. MaxInFlight \in Nat
    BY DEF SomeOfEach
  <2>2. Cardinality(Inside({"queued"} \cup Hashing)) <= inFlight
    <3>1. Inside({"queued"} \cup Hashing) \subseteq Inside(Counted) /\ IsFiniteSet(Inside(Counted))
      BY FS_Subset DEF Inside, Hashing, Counted, SomeOfEach
    <3> QED BY <3>1, FS_Subset DEF Places
  <2> QED BY <2>1, <2>2, InsideMoves DEF Places, Bit
<1>4. \A c \in Clients : shares'[c] = Cardinality(HeldBy(c)')
  BY HeldMoves DEF Places
<1> QED BY <1>1, <1>2, <1>3, <1>4 DEF Places

(* A request goes on as one of another phase, of the same client.          *)
LEMMA GoesOn ==
  ASSUME NoneIsNothing, Requested, NEW r \in Requests, NEW phase \in Phases, NEW to \in Phases,
         In(r, phase), Goes(r, to)
  PROVE  /\ Requested' /\ Others(r)
         /\ \A some \in SUBSET Phases : (IsIn(r, some) <=> phase \in some) /\ (IsIn(r, some)' <=> to \in some)
         /\ \A c : (Holds(r, c) <=> phase \in Counted \cup {"admitted"} /\ request[r].client = c)
                   /\ (Holds(r, c)' <=> to \in Counted \cup {"admitted"} /\ request[r].client = c)
<1>1. request[r] \in Request /\ request[r].phase = phase
  BY DEF Requested, In
<1>2. request'[r] \in Request /\ request'[r].phase = to /\ request'[r].client = request[r].client
  BY <1>1 DEF Goes, Requested, Request
<1>3. Requested' /\ Others(r)
  BY <1>2 DEF Goes, Requested, Others
<1> QED BY <1>1, <1>2, <1>3 DEF IsIn, Holds, NoneIsNothing

LEMMA EndsOn ==
  ASSUME NoneIsNothing, Requested, NEW r \in Requests, NEW phase \in Phases, In(r, phase), Ends(r)
  PROVE  /\ Requested' /\ Others(r)
         /\ \A some \in SUBSET Phases : (IsIn(r, some) <=> phase \in some) /\ ~ IsIn(r, some)'
         /\ \A c : (Holds(r, c) <=> phase \in Counted \cup {"admitted"} /\ request[r].client = c)
                   /\ ~ Holds(r, c)'
<1>1. request[r] \in Request /\ request[r].phase = phase
  BY DEF Requested, In
<1>2. request'[r] = None /\ Requested' /\ Others(r)
  BY DEF Ends, Requested, Others
<1> QED BY <1>1, <1>2 DEF IsIn, Holds, NoneIsNothing

LEMMA PhaseSets ==
  /\ Counted \in SUBSET Phases /\ Hashing \in SUBSET Phases /\ {"queued"} \cup Hashing \in SUBSET Phases
  /\ \A p \in {"admitted", "over", "queued", "checking", "abandoned", "wrong", "right"} : p \in Phases
BY DEF Counted, Hashing, Phases

(* Every handler of a place gives back what it took, once.                 *)
LEMMA PlacesKept ==
  ASSUME SomeOfEach, NoneIsNothing, Requested, Places, [Next]_vars
  PROVE  Requested' /\ Places'
<1> USE PhaseSets DEF places
<1>0. Checks \in Nat /\ MaxInFlight \in Nat /\ inFlight \in Nat /\ permits \in Int
      /\ \A c \in Clients : shares[c] \in Nat
  <2>1. \A S \in SUBSET Requests : Cardinality(S) \in Nat
    BY FS_Subset, FS_CardinalityType DEF SomeOfEach
  <2>2. /\ Inside(Counted) \in SUBSET Requests /\ Inside(Hashing) \in SUBSET Requests
        /\ \A c \in Clients : HeldBy(c) \in SUBSET Requests
    BY DEF Inside, HeldBy
  <2>3. Checks \in Nat /\ MaxInFlight \in Nat
    BY DEF SomeOfEach
  <2> QED BY <2>1, <2>2, <2>3 DEF Places
<1>1. ASSUME NEW r \in Requests, NEW c \in Clients \cup {None}, Ask(r, c) PROVE Requested' /\ Places'
  <2>1. /\ request'[r] = [phase |-> "admitted", client |-> c] /\ request'[r] \in Request /\ request[r] = None
        /\ Requested' /\ Others(r)
    BY <1>1 DEF Ask, Requested, Request, Others
  <2>2. \A some \in SUBSET Phases : ~ IsIn(r, some) /\ (IsIn(r, some)' <=> "admitted" \in some)
    BY <2>1 DEF IsIn, NoneIsNothing
  <2>3. \A d : ~ Holds(r, d) /\ (Holds(r, d)' <=> d = c)
    BY <2>1 DEF Holds, IsIn, NoneIsNothing
  <2> QED BY <1>0, <1>1, <2>1, <2>2, <2>3, PlacesMove DEF Ask, Bit, Counted, Hashing, Places
<1>2. ASSUME NEW r \in Requests, Count(r) PROVE Requested' /\ Places'
  <2>1. CASE inFlight >= MaxInFlight
    <3>1. In(r, "admitted") /\ Goes(r, "over") /\ inFlight' = inFlight + 1 /\ UNCHANGED <<shares, permits>>
      BY <1>2, <2>1 DEF Count
    <3> QED BY <1>0, <3>1, GoesOn, PlacesMove DEF Bit, Counted, Hashing, Places
  <2>2. CASE inFlight < MaxInFlight
    <3>1. In(r, "admitted") /\ Goes(r, "queued") /\ inFlight' = inFlight + 1 /\ UNCHANGED <<shares, permits>>
      BY <1>0, <1>2, <2>2 DEF Count
    <3> QED BY <1>0, <2>2, <3>1, GoesOn, PlacesMove DEF Bit, Counted, Hashing, Places
  <2> QED BY <1>0, <2>1, <2>2
<1>3. ASSUME NEW r \in Requests, RefuseBusy(r) PROVE Requested' /\ Places'
  BY <1>0, <1>3, EndsOn, PlacesMove DEF RefuseBusy, GiveBack, Bit, Counted, Hashing, Places
<1>4. ASSUME NEW r \in Requests, Check(r) PROVE Requested' /\ Places'
  BY <1>0, <1>4, GoesOn, PlacesMove DEF Check, Bit, Counted, Hashing, Places
<1>5. ASSUME NEW r \in Requests, HangUp(r) PROVE Requested' /\ Places'
  <2>1. CASE In(r, "queued") /\ Ends(r)
    BY <1>0, <1>5, <2>1, EndsOn, PlacesMove DEF HangUp, GiveBack, Bit, Counted, Hashing, Places
  <2>2. CASE In(r, "checking") /\ Goes(r, "abandoned") /\ UNCHANGED places
    BY <1>0, <2>2, GoesOn, PlacesMove DEF Bit, Counted, Hashing, Places
  <2> QED BY <1>5, <2>1, <2>2 DEF HangUp
<1>6. ASSUME NEW r \in Requests, Checked(r) PROVE Requested' /\ Places'
  <2>1. CASE In(r, "abandoned")
    BY <1>0, <1>6, <2>1, EndsOn, PlacesMove DEF Checked, GiveBack, Bit, Counted, Hashing, Places
  <2>2. CASE ~ In(r, "abandoned")
    <3>1. ASSUME NEW to \in {"wrong", "right"}, Goes(r, to) PROVE Requested' /\ Places'
      BY <1>0, <1>6, <2>2, <3>1, GoesOn, PlacesMove DEF Checked, GiveBack, Bit, Counted, Hashing, Places
    <3> QED BY <1>6, <2>2, <3>1 DEF Checked
  <2> QED BY <2>1, <2>2
<1>7. ASSUME NEW r \in Requests, Tell(r) PROVE Requested' /\ Places'
  <2>1. In(r, "wrong") \/ In(r, "right")
    BY <1>7 DEF Tell, Told
  <2> QED BY <1>0, <1>7, <2>1, EndsOn, PlacesMove DEF Tell, Bit, Counted, Hashing, Places
<1>8. CASE Tick \/ UNCHANGED vars
  BY <1>8 DEF Tick, vars, Requested, Places, HeldBy, Inside
<1> QED BY <1>1, <1>2, <1>3, <1>4, <1>5, <1>6, <1>7, <1>8 DEF Next

-----------------------------------------------------------------------------
(* What the failures in the table say, and one more of an address.         *)
LEMMA ConstantsAre ==
  ASSUME SomeOfEach
  PROVE  /\ Allowed \in Nat /\ Window \in Nat /\ FirstWait \in Nat /\ LongestWait \in Nat /\ MaxTime \in Nat
         /\ Allowed > 1 /\ FirstWait > 0 /\ FirstWait <= LongestWait
BY DEF SomeOfEach

LEMMA QuietSinceTheWait ==
  ASSUME SomeOfEach, NoneIsNothing, NEW f, Sound(f), time \in 0..MaxTime, f.count >= Allowed
  PROVE  QuietSince(f) = f.until
<1>1. f.last \in Nat /\ f.wait \in Nat /\ f.wait > 0 /\ f.until = f.last + f.wait
  BY ConstantsAre DEF Sound, Failure
<1>2. f.until > f.last /\ f.until # None
  BY <1>1 DEF NoneIsNothing
<1> QED BY <1>2 DEF QuietSince

LEMMA OneMore ==
  ASSUME SomeOfEach, NoneIsNothing, time \in 0..MaxTime, NEW f, Sound(f)
  PROVE  /\ Sound(Failed(f)) /\ Failed(f) \in Failure /\ Failed(f).count = f.count + 1
         /\ f.count >= Allowed => Failed(f).wait >= f.wait
<1> DEFINE g == Failed(f)
<1>1. f.count \in Nat /\ f.wait \in 0..LongestWait /\ time \in Nat
  BY ConstantsAre DEF Sound, Failure
<1>2. g.count = f.count + 1 /\ g.last = time
  BY DEF Failed
<1>3. CASE g.count < Allowed
  <2>1. g.wait = f.wait /\ g.until = f.until /\ f.count < Allowed
    BY <1>1, <1>2, <1>3, ConstantsAre DEF Failed
  <2>2. g.wait = 0 /\ g.until = None
    BY <2>1 DEF Sound
  <2>3. g = [count |-> g.count, last |-> g.last, wait |-> g.wait, until |-> g.until]
    BY DEF Failed
  <2>4. g \in Failure
    BY <1>1, <1>2, <2>2, <2>3, ConstantsAre DEF Failure
  <2> QED BY <1>1, <1>2, <1>3, <2>1, <2>2, <2>4, ConstantsAre DEF Sound
<1>4. CASE ~ (g.count < Allowed)
  <2>1. g.until = time + g.wait
    BY <1>2, <1>4 DEF Failed
  <2>2. g.wait = IF f.wait = 0 THEN FirstWait ELSE IF 2 * f.wait < LongestWait THEN 2 * f.wait ELSE LongestWait
    BY <1>2, <1>4 DEF Failed
  <2>3. g.wait \in 0..LongestWait /\ g.wait > 0 /\ g.wait >= f.wait
    BY <1>1, <2>2, ConstantsAre
  <2>4. g = [count |-> g.count, last |-> g.last, wait |-> g.wait, until |-> g.until]
    BY DEF Failed
  <2>5. g \in Failure
    BY <1>1, <1>2, <2>1, <2>3, <2>4, ConstantsAre DEF Failure
  <2> QED BY <1>1, <1>2, <1>4, <2>1, <2>3, <2>5, ConstantsAre DEF Sound
<1> QED BY <1>3, <1>4

LEMMA NoneYet ==
  ASSUME SomeOfEach, NoneIsNothing, time \in 0..MaxTime
  PROVE  Sound(NoFailure) /\ NoFailure.count = 0
<1>1. NoFailure \in Failure
  BY ConstantsAre DEF NoFailure, Failure
<1> QED BY <1>1, ConstantsAre DEF NoFailure, Sound

Recent(d) == failures[d] # None /\ time - QuietSince(failures[d]) < Window

LEMMA KeptAreRecent ==
  ASSUME NEW kept \in Kept, NEW d \in kept
  PROVE  d \in Clients /\ Recent(d)
BY DEF Kept, Recent

(* A wait is set over the last one of its address only where it grows or   *)
(* where the address has been quiet; the others keep theirs.               *)
LEMMA WrongWaits ==
  ASSUME SomeOfEach, NoneIsNothing, Waits, NEW c \in Clients, NEW kept \in Kept, time' = time,
         NEW f, f = Failed(IF c \in kept THEN failures[c] ELSE NoFailure),
         NEW crowded, crowded = {d \in Clients : Recent(d) /\ d \notin kept},
         failures' = [d \in Clients |-> IF d = c THEN f ELSE IF d \in kept THEN failures[d] ELSE None],
         lastWait' = [d \in Clients |->
           IF d = c /\ f.count >= Allowed THEN [wait |-> f.wait, ends |-> f.until]
           ELSE IF d \in crowded THEN NoWait ELSE lastWait[d]]
  PROVE  Waits' /\ NoWaitShrinks
<1>1. time \in 0..MaxTime /\ time \in Nat /\ Window \in Nat
  BY ConstantsAre DEF Waits
<1>2. \A d \in Clients : failures[d] # None => Sound(failures[d])
  BY DEF Waits
<1>3. /\ Sound(f) /\ f \in Failure
      /\ c \in kept => f.count = failures[c].count + 1 /\ (failures[c].count >= Allowed => f.wait >= failures[c].wait)
      /\ c \notin kept => f.count = 1
  <2>1. CASE c \in kept
    BY <1>1, <1>2, <2>1, OneMore, KeptAreRecent DEF Recent
  <2>2. CASE c \notin kept
    BY <1>1, <2>2, OneMore, NoneYet
  <2> QED BY <2>1, <2>2
<1>4. ASSUME NEW d \in Clients, lastWait[d].wait # 0, ~ (time - lastWait[d].ends >= Window)
      PROVE  /\ failures[d] # None /\ failures[d].count >= Allowed /\ Recent(d)
             /\ lastWait[d] = [wait |-> failures[d].wait, ends |-> failures[d].until]
  <2>1. /\ failures[d] # None /\ failures[d].count >= Allowed
        /\ lastWait[d] = [wait |-> failures[d].wait, ends |-> failures[d].until]
    BY <1>4 DEF Waits, Remembers
  <2>2. QuietSince(failures[d]) = lastWait[d].ends
    BY <1>1, <1>2, <2>1, QuietSinceTheWait
  <2>3. lastWait[d].ends \in Nat
    BY ConstantsAre DEF Waits
  <2> QED BY <1>1, <1>4, <2>1, <2>2, <2>3 DEF Recent
<1>5. failures' \in [Clients -> Failure \cup {None}]
  BY <1>3 DEF Waits
<1>6. lastWait' \in [Clients -> [wait: 0..LongestWait, ends: 0..(MaxTime + LongestWait)]]
  <2>1. NoWait \in [wait: 0..LongestWait, ends: 0..(MaxTime + LongestWait)]
    BY ConstantsAre DEF NoWait
  <2>2. f.count >= Allowed => [wait |-> f.wait, ends |-> f.until] \in [wait: 0..LongestWait, ends: 0..(MaxTime + LongestWait)]
    <3> SUFFICES ASSUME f.count >= Allowed
                 PROVE  f.wait \in 0..LongestWait /\ f.until \in 0..(MaxTime + LongestWait)
      OBVIOUS
    <3>1. f.wait \in 0..LongestWait /\ f.until = f.last + f.wait /\ f.last \in 0..MaxTime
      BY <1>3, ConstantsAre DEF Sound, Failure
    <3> QED BY <3>1, ConstantsAre
  <2> QED BY <2>1, <2>2 DEF Waits
<1>7. \A d \in Clients : (failures[d] # None => Sound(failures[d]))'
  <2> SUFFICES ASSUME NEW d \in Clients, failures'[d] # None PROVE Sound(failures[d])'
    OBVIOUS
  <2>1. failures'[d] = f \/ (failures'[d] = failures[d] /\ failures[d] # None)
    OBVIOUS
  <2> QED BY <1>2, <1>3, <2>1 DEF Sound
<1>8. ASSUME NEW d \in Clients PROVE Remembers(d)'
  <2>1. CASE lastWait'[d] # lastWait[d]
    BY <1>3, <2>1 DEF Remembers, NoWait, NoneIsNothing
  <2>2. CASE lastWait'[d] = lastWait[d] /\ ~ (d = c /\ f.count >= Allowed)
    <3>1. CASE d \in crowded
      BY <2>2, <3>1 DEF Remembers, NoWait
    <3>2. CASE d \notin crowded
      <4>1. CASE d # c
        BY <1>4, <2>2, <3>2, <4>1 DEF Remembers
      <4>2. CASE d = c
        <5> SUFFICES ASSUME lastWait[d].wait # 0, ~ (time - lastWait[d].ends >= Window) PROVE FALSE
          BY <2>2 DEF Remembers
        <5>1. failures[c].count >= Allowed /\ Recent(c) /\ failures[c].count \in Nat /\ f.count < Allowed
          <6>1. f.count \in Nat
            BY <1>3 DEF Failure
          <6>2. failures[c].count >= Allowed /\ Recent(c) /\ failures[c].count \in Nat
            BY <1>2, <1>4, <4>2 DEF Sound, Failure
          <6> QED BY <2>2, <4>2, <6>1, <6>2, ConstantsAre
        <5>2. c \notin kept
          BY <1>3, <5>1, ConstantsAre
        <5> QED BY <3>2, <4>2, <5>1, <5>2
      <4> QED BY <4>1, <4>2
    <3> QED BY <3>1, <3>2
  <2>3. CASE d = c /\ f.count >= Allowed
    BY <1>3, <2>3 DEF Remembers, NoneIsNothing
  <2> QED BY <2>1, <2>2, <2>3
<1>9. NoWaitShrinks
  <2> SUFFICES ASSUME NEW d \in Clients, lastWait'[d] # lastWait[d], lastWait'[d].wait # 0,
                      time - lastWait[d].ends < Window
               PROVE  lastWait'[d].wait >= lastWait[d].wait
    BY DEF NoWaitShrinks
  <2>1. d = c /\ f.count >= Allowed /\ lastWait'[d] = [wait |-> f.wait, ends |-> f.until]
    BY DEF NoWait
  <2>2. c \in kept
    BY <1>3, <2>1, ConstantsAre
  <2>3. f.wait \in Nat /\ lastWait[d].wait \in Nat /\ lastWait[d].ends \in Nat
    BY <1>3, ConstantsAre DEF Failure, Waits
  <2>4. CASE lastWait[d].wait = 0
    BY <2>1, <2>3, <2>4
  <2>5. CASE lastWait[d].wait # 0
    <3>1. failures[d].count >= Allowed /\ lastWait[d].wait = failures[d].wait
      <4>1. ~ (time - lastWait[d].ends >= Window)
        BY <1>1, <2>3
      <4>2. failures[d].count >= Allowed /\ lastWait[d] = [wait |-> failures[d].wait, ends |-> failures[d].until]
        BY <1>4, <2>5, <4>1
      <4> QED BY <4>2
    <3>2. f.wait >= failures[c].wait
      BY <1>3, <2>1, <2>2, <3>1
    <3> QED BY <2>1, <3>1, <3>2
  <2> QED BY <2>4, <2>5
<1> QED BY <1>1, <1>5, <1>6, <1>7, <1>8, <1>9 DEF Waits

(* What is remembered of the addresses follows what the throttle is told.  *)
LEMMA WaitsKept ==
  ASSUME SomeOfEach, NoneIsNothing, Requested, Waits, [Next]_vars
  PROVE  Waits' /\ [NoWaitShrinks]_vars
<1>1. ASSUME NEW r \in Requests, Tell(r) PROVE Waits' /\ NoWaitShrinks
  <2>1. time' = time /\ Told(r)
    BY <1>1 DEF Tell
  <2>2. PICK c : c = request[r].client
    OBVIOUS
  <2>3. In(r, "wrong") \/ In(r, "right")
    BY <2>1 DEF Told
  <2>4. c \in Clients \cup {None}
    BY <2>2, <2>3 DEF In, Requested, Request
  <2>5. CASE c # None /\ \E kept \in Kept :
               LET f == Failed(IF c \in kept THEN failures[c] ELSE NoFailure)
                   crowded == {d \in Clients : Recent(d) /\ d \notin kept}
               IN /\ failures' = [d \in Clients |->
                        IF d = c THEN f ELSE IF d \in kept THEN failures[d] ELSE None]
                  /\ lastWait' = [d \in Clients |->
                        IF d = c /\ f.count >= Allowed THEN [wait |-> f.wait, ends |-> f.until]
                        ELSE IF d \in crowded THEN NoWait ELSE lastWait[d]]
    <3>1. c \in Clients
      BY <2>4, <2>5
    <3>2. PICK kept \in Kept :
             LET f == Failed(IF c \in kept THEN failures[c] ELSE NoFailure)
                 crowded == {d \in Clients : Recent(d) /\ d \notin kept}
             IN /\ failures' = [d \in Clients |->
                      IF d = c THEN f ELSE IF d \in kept THEN failures[d] ELSE None]
                /\ lastWait' = [d \in Clients |->
                      IF d = c /\ f.count >= Allowed THEN [wait |-> f.wait, ends |-> f.until]
                      ELSE IF d \in crowded THEN NoWait ELSE lastWait[d]]
      BY <2>5
    <3>3. PICK f : f = Failed(IF c \in kept THEN failures[c] ELSE NoFailure)
      OBVIOUS
    <3>4. PICK crowded : crowded = {d \in Clients : Recent(d) /\ d \notin kept}
      OBVIOUS
    <3>5. /\ failures' = [d \in Clients |-> IF d = c THEN f ELSE IF d \in kept THEN failures[d] ELSE None]
          /\ lastWait' = [d \in Clients |->
               IF d = c /\ f.count >= Allowed THEN [wait |-> f.wait, ends |-> f.until]
               ELSE IF d \in crowded THEN NoWait ELSE lastWait[d]]
      BY <3>2, <3>3, <3>4
    <3> QED BY <2>1, <3>1, <3>3, <3>4, <3>5, WrongWaits
  <2>6. CASE /\ c \in Clients
             /\ failures' = [failures EXCEPT ![c] = None] /\ lastWait' = [lastWait EXCEPT ![c] = NoWait]
    <3>1. NoWait \in [wait: 0..LongestWait, ends: 0..(MaxTime + LongestWait)] /\ NoWait.wait = 0
      BY ConstantsAre DEF NoWait
    <3>2. \A d \in Clients : (failures[d] # None => Sound(failures[d]))'
      BY <2>1, <2>6 DEF Waits, Sound
    <3>3. \A d \in Clients : Remembers(d)'
      BY <2>1, <2>6, <3>1 DEF Waits, Remembers
    <3>4. NoWaitShrinks
      BY <2>6, <3>1 DEF Waits, NoWaitShrinks
    <3> QED BY <2>1, <2>6, <3>1, <3>2, <3>3, <3>4 DEF Waits
  <2>7. CASE UNCHANGED <<failures, lastWait>>
    BY <2>1, <2>7 DEF Waits, Sound, Remembers, NoWaitShrinks
  <2>8. \/ c # None /\ \E kept \in Kept :
               LET f == Failed(IF c \in kept THEN failures[c] ELSE NoFailure)
                   crowded == {d \in Clients : Recent(d) /\ d \notin kept}
               IN /\ failures' = [d \in Clients |->
                        IF d = c THEN f ELSE IF d \in kept THEN failures[d] ELSE None]
                  /\ lastWait' = [d \in Clients |->
                        IF d = c /\ f.count >= Allowed THEN [wait |-> f.wait, ends |-> f.until]
                        ELSE IF d \in crowded THEN NoWait ELSE lastWait[d]]
        \/ c # None /\ failures' = [failures EXCEPT ![c] = None]
           /\ lastWait' = [lastWait EXCEPT ![c] = NoWait]
        \/ UNCHANGED <<failures, lastWait>>
    <3>1. Told(r)
      BY <2>1
    <3> QED BY <2>2, <3>1 DEF Told, Recent
  <2> QED BY <2>4, <2>5, <2>6, <2>7, <2>8
<1>2. CASE Tick
  <2>1. time \in Nat /\ time' = time + 1 /\ time' \in 0..MaxTime /\ UNCHANGED <<failures, lastWait>>
    BY <1>2, ConstantsAre DEF Tick, Waits
  <2>2. \A d \in Clients : (failures[d] # None => Sound(failures[d]))'
    BY <2>1, ConstantsAre DEF Waits, Sound, Failure
  <2>3. \A d \in Clients : Remembers(d)'
    <3>1. \A d \in Clients : lastWait[d].ends \in Nat
      BY ConstantsAre DEF Waits
    <3> QED BY <2>1, <3>1, ConstantsAre DEF Waits, Remembers
  <2> QED BY <2>1, <2>2, <2>3 DEF Waits, NoWaitShrinks
<1>3. CASE UNCHANGED <<time, failures, lastWait>>
  BY <1>3 DEF Waits, Sound, Remembers, NoWaitShrinks
<1>4. ASSUME NEW r \in Requests,
             (\E c \in Clients \cup {None} : Ask(r, c)) \/ Count(r) \/ RefuseBusy(r) \/ Check(r) \/ HangUp(r) \/ Checked(r)
      PROVE  UNCHANGED <<time, failures, lastWait>>
  BY <1>4 DEF Ask, Count, RefuseBusy, Check, HangUp, Checked, places
<1>5. CASE UNCHANGED vars
  BY <1>3, <1>5 DEF vars
<1> QED BY <1>1, <1>2, <1>3, <1>4, <1>5 DEF Next

LEMMA Begins ==
  ASSUME SomeOfEach, NoneIsNothing, Init
  PROVE  IInv
<1>1. Requested
  BY DEF Init, Requested
<1>2. Places
  <2>1. \A phases : Inside(phases) = {}
    BY DEF Init, Inside
  <2>2. \A c : HeldBy(c) = {}
    BY <2>1 DEF HeldBy
  <2>3. Checks \in Nat /\ MaxInFlight \in Nat
    BY DEF SomeOfEach
  <2>4. /\ Cardinality(Inside(Counted)) = 0 /\ Cardinality(Inside(Hashing)) = 0
        /\ Cardinality(Inside({"queued"} \cup Hashing)) = 0
        /\ \A c : Cardinality(HeldBy(c)) = 0
    BY <2>1, <2>2, FS_EmptySet
  <2> QED BY <2>3, <2>4 DEF Init, Places
<1>3. Waits
  BY ConstantsAre DEF Init, Waits, Remembers
<1> QED BY <1>1, <1>2, <1>3 DEF IInv

(* IInv holds of every state.                                              *)
LEMMA Invariance ==
  ASSUME SomeOfEach, NoneIsNothing
  PROVE  Spec => []IInv
<1>1. IInv /\ [Next]_vars => IInv'
  BY PlacesKept, WaitsKept DEF IInv
<1> QED BY <1>1, Begins, PTL DEF Spec

(* However its holder ends, a place comes back once: what is counted is    *)
(* who is inside (accounts.rs verify).                                     *)
THEOREM PlacesComeBack ==
  ASSUME SomeOfEach, NoneIsNothing
  PROVE  Spec => []PlacesAreHeld
<1>1. IInv => PlacesAreHeld
  BY PlacesSame DEF IInv
<1> QED BY <1>1, Invariance, PTL

(* No wait is shorter than the one before it, unless its address has been  *)
(* quiet for the window (accounts.rs failed).                              *)
THEOREM WaitsOnlyGrow ==
  ASSUME SomeOfEach, NoneIsNothing
  PROVE  Spec => WaitsGrow
<1>1. IInv /\ [Next]_vars => [NoWaitShrinks]_vars
  BY WaitsKept DEF IInv
<1> QED BY <1>1, Invariance, PTL DEF Spec, WaitsGrow
-----------------------------------------------------------------------------
(* The pace of the requests to a source: the module Pacing, with variables *)
(* of its own.                                                             *)

CONSTANTS
  Callers, Capacity, Token, Rates, FirstRate, Fastest, FirstBackOff, MaxHold, Delays, Deadlines,
  LastInstant, MaxQueued

VARIABLES
  clock, tokens, refilled, rate, backOff, caller, heldUntil, told, latest, crossed, quickened

L == INSTANCE Pacing WITH MaxTime <- LastInstant, time <- clock

PacingAssumed == L!SomeBurst /\ L!HoldsAreBounded /\ L!RatesAreNumbers /\ L!TimesAreNumbers

CallerRecord ==
  [phase : {"idle", "asleep", "late", "again", "out"}, until : Nat, by : Int]

PacingTypes ==
  /\ clock \in 0..LastInstant /\ tokens \in Int /\ refilled \in Nat /\ backOff \in Nat
  /\ rate \in 1..Fastest
  /\ heldUntil \in Nat /\ crossed \in BOOLEAN /\ quickened \in BOOLEAN
  /\ caller \in [Callers -> CallerRecord]
  /\ told \in [0..LastInstant -> Nat] /\ latest \in Nat

(* A hold that was placed and is not over is the last refill.              *)
HoldSeen == heldUntil <= refilled \/ heldUntil <= clock

IsLate(c) == caller[c].phase = "late"
IsAsleep(c) == caller[c].phase = "asleep"

(* What is left, the token about to be given back with it.                 *)
Balance == tokens + IF \E c \in Callers : IsLate(c) THEN Token ELSE 0

LateOwes ==
  /\ \A c, d \in Callers : IsLate(c) /\ IsLate(d) => c = d
  /\ (\E c \in Callers : IsLate(c)) => tokens <= 0

(* With b left at the instant `at` and r coming back per unit: the turns   *)
(* given from an instant on are paid for by the burst, by what came back   *)
(* since and, past `at`, by what is owed;                                  *)
Paid(b, at, r) ==
  \A f \in 0..LastInstant :
    /\ f <= at => Token * told[f] + b <= Token * Capacity + Fastest * (at - f + 1)
    /\ f > at => told[f] = 0 \/ Token * told[f] < Token - b - r * (f - 1 - at)
(* and the last instant given, unless it is over, is that of what is owed. *)
Owes(b, at, r) ==
  latest > clock /\ latest >= at => b <= 0 /\ (latest > at => r * (latest - at - 1) < - b)
Account(b, at, r) == b <= Token * Capacity /\ Paid(b, at, r) /\ Owes(b, at, r)

Orderly ==
  /\ LateOwes
  /\ refilled > clock => Balance <= Token
  /\ Account(Balance, refilled, rate)
  /\ \A c \in Callers : IsAsleep(c) => caller[c].until <= latest

Undisturbed == ~ crossed /\ ~ quickened
PacingInv ==
  PacingTypes /\ HoldSeen /\ (Undisturbed => Orderly) /\ L!DifferentInstants /\ L!PaceKept

-----------------------------------------------------------------------------
LEMMA MinOfTwo ==
  ASSUME NEW m \in Int, NEW n \in Int PROVE L!Min({m, n}) = IF m <= n THEN m ELSE n
<1>1. L!Min({m, n}) = CHOOSE x \in {m, n} : \A y \in {m, n} : x <= y
  BY Zenon DEF L!Min
<1> DEFINE least == IF m <= n THEN m ELSE n
<1>2. least \in {m, n} /\ \A y \in {m, n} : least <= y
  OBVIOUS
<1>3. \A x \in {m, n} : (\A y \in {m, n} : x <= y) => x = least
  OBVIOUS
<1> HIDE DEF least
<1>4. L!Min({m, n}) = least
  BY <1>1, <1>2, <1>3
<1> QED BY <1>4 DEF least

LEMMA MaxOfTwo ==
  ASSUME NEW m \in Int, NEW n \in Int PROVE L!Max({m, n}) = IF m >= n THEN m ELSE n
<1>1. L!Max({m, n}) = CHOOSE x \in {m, n} : \A y \in {m, n} : x >= y
  BY Zenon DEF L!Max
<1> DEFINE most == IF m >= n THEN m ELSE n
<1>2. most \in {m, n} /\ \A y \in {m, n} : most >= y
  OBVIOUS
<1>3. \A x \in {m, n} : (\A y \in {m, n} : x >= y) => x = most
  OBVIOUS
<1> HIDE DEF most
<1>4. L!Max({m, n}) = most
  BY <1>1, <1>2, <1>3
<1> QED BY <1>4 DEF most

LEMMA PacingNumbers ==
  ASSUME PacingAssumed
  PROVE  /\ Capacity \in Nat \ {0} /\ FirstBackOff \in Nat \ {0} /\ MaxHold \in Nat \ {0}
         /\ LastInstant \in Nat /\ Delays \subseteq Nat \ {0} /\ Deadlines \subseteq Nat
         /\ Token \in Nat \ {0} /\ Fastest \in 1..Token /\ FirstRate \in 1..Fastest
         /\ Rates \subseteq 1..Fastest
BY DEF PacingAssumed, L!SomeBurst, L!HoldsAreBounded, L!RatesAreNumbers, L!TimesAreNumbers

LEMMA Times ==
  ASSUME NEW m \in Int, NEW n \in Int, NEW k \in Nat, m <= n PROVE m * k <= n * k
BY SMT

(* A whole burst is a token at least. *)
LEMMA BurstIsAToken == ASSUME PacingAssumed PROVE Token * Capacity \in Nat /\ Token <= Token * Capacity
<1>1. Token \in Nat /\ Capacity \in Nat /\ 1 <= Capacity
  BY PacingNumbers
<1>2. 1 * Token <= Capacity * Token
  BY <1>1, Times
<1> QED BY <1>1, <1>2

(* The wait for what is owed is the least that brings it back. *)
LEMMA WaitIs ==
  ASSUME PacingAssumed, rate \in 1..Fastest, NEW left \in Int
  PROVE  /\ L!Wait(left) \in Nat
         /\ left >= 0 => L!Wait(left) = 0
         /\ left < 0 =>
              /\ L!Wait(left) >= 1
              /\ - left <= rate * L!Wait(left)
              /\ rate * (L!Wait(left) - 1) < - left
<1>1. CASE left >= 0
  BY <1>1 DEF L!Wait
<1>2. CASE left < 0
  <2> DEFINE r == rate
             n == r - 1 - left
             q == n \div r
  <2>1. r \in Nat \ {0} /\ n \in Nat
    BY <1>2, PacingNumbers
  <2>2. L!Wait(left) = q
    BY <1>2 DEF L!Wait
  <2>3. n = r - 1 - left
    OBVIOUS
  <2> HIDE DEF n, r
  <2>4. q \in Int /\ n = r * q + (n % r) /\ n % r \in 0..(r - 1)
    BY <2>1, SMT
  <2>5. q \in Nat
    BY <2>1, SMT
  <2> HIDE DEF q
  <2>6. - left <= r * q /\ r * (q - 1) < - left
    BY <1>2, <2>1, <2>3, <2>4, <2>5, SMT
  <2>7. q # 0
    BY <1>2, <2>1, <2>6
  <2>8. q >= 1
    BY <2>5, <2>7
  <2> QED BY <1>2, <2>2, <2>5, <2>6, <2>8 DEF r
<1> QED BY <1>1, <1>2

(* The account moves on: with the time that passed what came back, or with *)
(* a hold nothing.                                                         *)
LEMMA MovesOn ==
  ASSUME PacingAssumed, PacingTypes,
         NEW b \in Int, NEW at \in Nat, NEW b1 \in Int, NEW at1 \in Nat, NEW r \in 1..Fastest,
         Account(b, at, r), at <= at1, b1 <= Token * Capacity,
         b1 <= b + r * (at1 - at), at1 <= clock \/ b1 <= b
  PROVE  Account(b1, at1, r)
<1>1. /\ Token \in Nat /\ Fastest \in Nat /\ r \in Nat /\ clock \in Int /\ latest \in Int
      /\ Token * Capacity \in Nat /\ Token <= Token * Capacity
  BY PacingNumbers, BurstIsAToken DEF PacingTypes
<1>2. ASSUME NEW f \in 0..LastInstant
      PROVE  /\ f <= at1 => Token * told[f] + b1 <= Token * Capacity + Fastest * (at1 - f + 1)
             /\ f > at1 => told[f] = 0 \/ Token * told[f] < Token - b1 - r * (f - 1 - at1)
  <2> DEFINE t == told[f]
             all == Token * Capacity
             given == Token * t
  <2>1. /\ t \in Nat /\ f \in Nat /\ given \in Int /\ all \in Nat
        /\ Token <= all /\ b1 <= all
        /\ t = 0 => given = 0
    <3>1. t \in Nat /\ f \in Nat
      BY <1>2 DEF PacingTypes
    <3> HIDE DEF t
    <3>2. given \in Int /\ (t = 0 => given = 0)
      BY <1>1, <3>1
    <3> QED BY <1>1, <3>1, <3>2
  <2>2. /\ f <= at => given + b <= all + Fastest * (at - f + 1)
        /\ f > at => t = 0 \/ given < Token - b - r * (f - 1 - at)
    BY DEF Account, Paid
  <2> HIDE DEF t, given, all
  <2>3. r * (at1 - at) <= Fastest * (at1 - at) /\ at1 - at \in Nat
    <3>1. at1 - at \in Nat /\ r \in Int /\ Fastest \in Int /\ r <= Fastest
      BY <1>1
    <3> QED BY <3>1, Times
  <2>4. CASE f <= at
    <3>1. given + b <= all + Fastest * (at - f + 1)
      BY <2>2, <2>4
    <3>2. Fastest * (at1 - f + 1) = Fastest * (at - f + 1) + Fastest * (at1 - at)
      BY <1>1, <2>1, SMT
    <3> QED BY <1>1, <2>1, <2>3, <2>4, <3>1, <3>2 DEF t, given, all
  <2>5. CASE f > at /\ f <= at1
    <3>1. at1 - f + 1 \in Nat /\ r \in Int /\ Fastest \in Int /\ r <= Fastest /\ 0 <= Fastest
      BY <1>1, <2>1, <2>5
    <3>2. r * (at1 - f + 1) <= Fastest * (at1 - f + 1) /\ 0 <= Fastest * (at1 - f + 1)
      <4>1. 0 * (at1 - f + 1) <= Fastest * (at1 - f + 1)
        BY <3>1, Times
      <4>2. r * (at1 - f + 1) <= Fastest * (at1 - f + 1)
        BY <3>1, Times
      <4> QED BY <3>1, <4>1, <4>2
    <3>3. CASE t = 0
      BY <1>1, <2>1, <2>5, <3>2, <3>3 DEF t, given, all
    <3>4. CASE given < Token - b - r * (f - 1 - at)
      <4>1. given + b1 < Token - r * (f - 1 - at) + r * (at1 - at)
        BY <1>1, <2>1, <3>4
      <4>2. r * (at1 - at) - r * (f - 1 - at) = r * (at1 - f + 1)
        BY <1>1, <2>1, SMT
      <4> QED BY <1>1, <2>1, <2>5, <3>2, <4>1, <4>2 DEF t, given, all
    <3> QED BY <2>2, <2>5, <3>3, <3>4
  <2>6. CASE f > at1
    <3>1. CASE t = 0
      BY <2>6, <3>1 DEF t, given, all
    <3>2. CASE given < Token - b - r * (f - 1 - at)
      <4>1. r * (f - 1 - at) = r * (at1 - at) + r * (f - 1 - at1)
        BY <1>1, <2>1, SMT
      <4> QED BY <1>1, <2>1, <2>6, <3>2, <4>1 DEF t, given, all
    <3> QED BY <2>2, <2>6, <3>1, <3>2
  <2> QED BY <1>1, <2>1, <2>4, <2>5, <2>6
<1>3. Owes(b1, at1, r)
  <2> SUFFICES ASSUME latest > clock, latest >= at1
               PROVE  b1 <= 0 /\ (latest > at1 => r * (latest - at1 - 1) < - b1)
    BY DEF Owes
  <2>1. b <= 0 /\ (latest > at => r * (latest - at - 1) < - b)
    BY <1>1 DEF Account, Owes
  <2>2. CASE latest = at1
    BY <1>1, <2>1, <2>2
  <2>3. CASE latest > at1
    <3>1. latest - at1 - 1 \in Nat /\ 0 <= r /\ r \in Int
      BY <1>1, <2>3
    <3>2. 0 * (latest - at1 - 1) <= r * (latest - at1 - 1)
      BY <3>1, Times
    <3>3. r * (latest - at - 1) = r * (latest - at1 - 1) + r * (at1 - at)
      BY <1>1, SMT
    <3> QED BY <1>1, <2>1, <2>3, <3>1, <3>2, <3>3
  <2> QED BY <1>1, <2>2, <2>3
<1> QED BY <1>2, <1>3 DEF Account, Paid

(* Another rate is stated: slower, or with nothing owed.                   *)
LEMMA Retuned ==
  ASSUME PacingAssumed, PacingTypes, NEW b \in Int, NEW at \in Nat,
         NEW r \in 1..Fastest, NEW r1 \in 1..Fastest, Account(b, at, r), r1 <= r \/ b >= 0
  PROVE  Account(b, at, r1)
<1>1. /\ Token \in Nat /\ Fastest \in Nat /\ r \in Nat /\ r1 \in Nat /\ clock \in Int /\ latest \in Int
  BY PacingNumbers DEF PacingTypes
<1>2. ASSUME NEW n \in Nat PROVE r1 <= r => r1 * n <= r * n
  BY <1>1, Times
<1>3. ASSUME NEW n \in Nat PROVE 0 <= r * n
  <2>1. 0 * n <= r * n
    BY <1>1, Times
  <2> QED BY <1>1, <2>1
<1>4. ASSUME NEW f \in 0..LastInstant, f > at
      PROVE  told[f] = 0 \/ Token * told[f] < Token - b - r1 * (f - 1 - at)
  <2> DEFINE t == told[f]
             given == Token * t
             n == f - 1 - at
             now == r * n
             then == r1 * n
  <2>1. t \in Nat /\ n \in Nat /\ given \in Int /\ now \in Int /\ then \in Int /\ 0 <= now
    BY <1>1, <1>3, <1>4, PacingNumbers DEF PacingTypes
  <2>2. t = 0 \/ given < Token - b - now
    BY <1>4 DEF Account, Paid
  <2>3. r1 <= r => then <= now
    BY <1>2, <2>1
  <2>4. b >= 0 /\ given < Token - b - now => t = 0
    <3> SUFFICES ASSUME b >= 0, given < Token - b - now, t >= 1 PROVE FALSE
      BY <2>1
    <3>1. 1 * Token <= t * Token
      <4> HIDE DEF t, given, now, then, n
      <4> QED BY <1>1, <2>1, Times
    <3>2. given >= Token
      <4>1. given = t * Token /\ 1 * Token = Token
        BY <1>1, <2>1
      <4> QED BY <3>1, <4>1
    <3> HIDE DEF given, now, then
    <3> QED BY <1>1, <2>1, <3>2
  <2> HIDE DEF t, given, n, now, then
  <2>5. t = 0 \/ given < Token - b - then
    BY <1>1, <2>1, <2>2, <2>3, <2>4
  <2> QED BY <2>5 DEF t, given, n, then
<1>5. Owes(b, at, r1)
  <2> SUFFICES ASSUME latest > clock, latest >= at
               PROVE  b <= 0 /\ (latest > at => r1 * (latest - at - 1) < - b)
    BY DEF Owes
  <2>1. b <= 0 /\ (latest > at => r * (latest - at - 1) < - b)
    BY <1>1 DEF Account, Owes
  <2>2. ASSUME latest > at PROVE r1 * (latest - at - 1) < - b
    <3> DEFINE n == latest - at - 1
               now == r * n
               then == r1 * n
    <3>1. n \in Nat /\ now \in Int /\ then \in Int
      BY <1>1, <2>2
    <3>2. now < - b /\ 0 <= now /\ (r1 <= r => then <= now)
      <4>1. 0 <= now
        BY <1>3, <3>1
      <4>2. r1 <= r => then <= now
        BY <1>2, <3>1
      <4> QED BY <2>1, <2>2, <4>1, <4>2
    <3> HIDE DEF n, now, then
    <3>3. then < - b
      BY <3>1, <3>2
    <3> QED BY <3>3 DEF then, n
  <2> QED BY <2>1, <2>2
<1> QED BY <1>4, <1>5 DEF Account, Paid

(* A turn is given: b is left and the bucket filled at `at`.               *)
LEMMA TurnTold ==
  ASSUME PacingAssumed, PacingTypes, NEW b \in Int, NEW at \in Nat, NEW r \in 1..Fastest, r = rate,
         Account(b, at, r), at >= clock, at > clock => b <= Token,
         NEW left \in Int, left = b - Token, NEW turn, turn = at + L!Wait(left),
         L!Tells(turn), clock' = clock
  PROVE  /\ turn \in Nat /\ turn >= latest /\ (turn > clock => turn > latest)
         /\ told' \in [0..LastInstant -> Nat] /\ latest' = turn
         /\ Account(left, at, r)'
         /\ L!PaceKept'
<1> DEFINE w == L!Wait(left)
           all == Token * Capacity
<1>1. /\ Token \in Nat /\ 1 <= Token /\ Fastest \in Nat /\ r \in Nat /\ r <= Fastest /\ r <= Token
      /\ 1 <= r /\ clock \in Int /\ latest \in Nat /\ all \in Nat /\ Token <= all
  BY PacingNumbers, BurstIsAToken DEF PacingTypes
<1>2. /\ w \in Nat
      /\ left >= 0 => w = 0
      /\ left < 0 => w >= 1 /\ - left <= r * w /\ r * (w - 1) < - left
  BY WaitIs DEF PacingTypes
<1>3. turn = at + w
  OBVIOUS
<1>4. /\ latest' = turn
      /\ \A f \in 0..LastInstant : told'[f] = IF f <= turn THEN told[f] + 1 ELSE told[f]
  BY DEF L!Tells
<1> HIDE DEF w, all
<1>5. turn \in Nat
  BY <1>2, <1>3
<1>6. told' \in [0..LastInstant -> Nat]
  <2>1. \A f \in 0..LastInstant : told[f] \in Nat
    BY DEF PacingTypes
  <2> QED BY <2>1 DEF L!Tells
<1>7. ASSUME NEW n \in Nat PROVE r * n <= Fastest * n /\ 0 <= r * n /\ 0 <= Fastest * n
  <2>1. 0 * n <= r * n /\ r * n <= Fastest * n
    BY <1>1, Times
  <2>2. 0 * n = 0 /\ r * n \in Int /\ Fastest * n \in Int
    BY <1>1
  <2> QED BY <2>1, <2>2
<1>8. turn >= latest /\ (turn > clock => turn > latest)
  <2>1. CASE latest <= clock \/ latest < at
    BY <1>1, <1>2, <1>3, <2>1
  <2>2. CASE latest > clock /\ latest >= at
    <3>1. b <= 0 /\ (latest > at => r * (latest - at - 1) < - b)
      BY <2>2 DEF Account, Owes
    <3>2. left < 0
      BY <1>1, <3>1
    <3>3. CASE latest = at
      BY <1>1, <1>2, <1>3, <3>2, <3>3
    <3>4. CASE latest > at
      <4> DEFINE n == latest - at
      <4>1. n \in Nat
        BY <1>1, <3>4
      <4>2. r * (n - 1) = r * n - r /\ r * n \in Int /\ r * w \in Int
        <5> HIDE DEF n
        <5> QED BY <1>1, <1>2, <4>1, SMT
      <4>3. r * (n - 1) < - b
        BY <3>1, <3>4
      <4> HIDE DEF n
      <4>4. r * n < r * w
        BY <1>1, <1>2, <3>2, <4>2, <4>3
      <4>5. w <= n => w * r <= n * r
        BY <1>1, <1>2, <4>1, Times
      <4>6. w > n
        BY <1>1, <1>2, <4>1, <4>4, <4>5
      <4> QED BY <1>1, <1>3, <1>2, <4>6 DEF n
    <3> QED BY <1>1, <2>2, <3>3, <3>4
  <2> QED BY <1>1, <2>1, <2>2
(* Per instant: f up to the last refill, up to the turn, or past it. *)
<1>9. ASSUME NEW f \in 0..LastInstant
      PROVE  /\ f <= at => Token * told'[f] + left <= Token * Capacity + Fastest * (at - f + 1)
             /\ f > at => told'[f] = 0 \/ Token * told'[f] < Token - left - r * (f - 1 - at)
             /\ f <= turn => Token * told'[f] <= Token * Capacity + Fastest * (turn - f + 1)
  <2> DEFINE t == told[f]
             t1 == told'[f]
             given == Token * t
             given1 == Token * t1
  <2>1. t \in Nat /\ t1 \in Nat /\ f \in Nat /\ t1 = IF f <= turn THEN t + 1 ELSE t
    <3>1. t \in Nat /\ f \in Nat
      BY <1>9 DEF PacingTypes
    <3> QED BY <1>4, <1>6, <3>1
  <2>2. given \in Int /\ given1 = IF f <= turn THEN given + Token ELSE given
    <3> HIDE DEF t, t1
    <3> QED BY <1>1, <2>1, SMT
  <2>3. /\ f <= at => given + b <= all + Fastest * (at - f + 1)
        /\ f > at => t = 0 \/ given < Token - b - r * (f - 1 - at)
    BY DEF Account, Paid, all
  <2>4. t = 0 => given = 0
    <3> HIDE DEF t
    <3> QED BY <1>1
  <2> HIDE DEF t, t1, given, given1
  <2>5. CASE f <= at
    <3> DEFINE back == Fastest * (at - f + 1)
    <3>1. /\ back \in Int /\ Fastest * w \in Int /\ 0 <= Fastest * w
          /\ Fastest * (turn - f + 1) = back + Fastest * w
      <4> DEFINE k == at - f + 1
      <4>1. k \in Int /\ turn - f + 1 = k + w
        BY <1>2, <1>3, <2>1
      <4> HIDE DEF k
      <4>2. Fastest * (k + w) = Fastest * k + Fastest * w /\ Fastest * k \in Int
        BY <1>1, <1>2, <4>1, SMT
      <4>3. Fastest * w \in Int /\ 0 <= Fastest * w
        BY <1>1, <1>2, <1>7
      <4> QED BY <4>1, <4>2, <4>3 DEF k
    <3>2. given + b <= all + back /\ f <= turn
      BY <1>2, <1>3, <2>1, <2>3, <2>5
    <3> HIDE DEF back
    <3>3. given1 \in Int
      BY <1>1, <2>2
    <3>4. given1 + left <= all + back
      BY <1>1, <2>2, <3>1, <3>2
    <3>5. given1 <= all + back + Fastest * w
      <4>1. CASE left >= 0
        BY <1>1, <3>1, <3>4, <3>3, <4>1
      <4>2. CASE left < 0
        <5>1. - left <= r * w /\ r * w <= Fastest * w /\ r * w \in Int /\ Fastest * w \in Int
          BY <1>1, <1>2, <1>7, <4>2
        <5> QED BY <1>1, <3>1, <3>4, <3>3, <5>1
      <4> QED BY <4>1, <4>2
    <3>6. given1 <= all + Fastest * (turn - f + 1)
      BY <1>1, <3>1, <3>5, <3>3
    <3> QED BY <2>1, <2>5, <3>2, <3>4, <3>6 DEF t1, given1, all, back
  <2>6. CASE f > at /\ f <= turn
    <3> DEFINE n == f - 1 - at
               rest == r * n
               m == turn - f + 1
    <3>1. n \in Nat /\ m \in Nat /\ w >= 1 /\ n <= w - 1 /\ left < 0
      BY <1>2, <1>3, <2>1, <2>6
    <3>2. rest \in Int /\ r * w = rest + r * m /\ r * m \in Int
      <4>1. r * w = rest + r * m
        BY <1>1, <1>2, <1>3, <2>1, SMT
      <4>2. rest \in Int /\ r * m \in Int
        BY <1>1, <3>1
      <4> QED BY <4>1, <4>2
    <3>3. rest < - left
      <4>1. n * r <= (w - 1) * r
        <5> HIDE DEF n
        <5> QED BY <1>1, <1>2, <3>1, Times
      <4>2. r * (w - 1) < - left
        BY <1>2, <3>1
      <4> HIDE DEF n
      <4> QED BY <1>1, <1>2, <3>1, <4>1, <4>2
    <3>4. t = 0 \/ given < Token - b - rest
      BY <2>3, <2>6
    <3>5. - left <= r * w /\ r * m <= Fastest * m /\ Fastest * m \in Int
      BY <1>1, <1>2, <1>7, <3>1
    <3> HIDE DEF n, rest, m
    <3>6. given1 < Token - left - rest
      BY <1>1, <2>2, <2>4, <2>6, <3>2, <3>3, <3>4
    <3>7. given1 <= all + Fastest * m
      BY <1>1, <2>2, <2>6, <3>2, <3>5, <3>6
    <3> QED BY <1>1, <1>5, <2>1, <2>6, <3>6, <3>7 DEF t1, given1, all, n, rest, m
  <2>7. CASE f > turn
    <3> DEFINE rest == r * (f - 1 - at)
    <3>1. rest \in Int /\ f > at
      BY <1>1, <1>2, <1>3, <2>1, <2>7
    <3>2. t = 0 \/ given < Token - b - rest
      BY <2>3, <3>1
    <3> HIDE DEF rest
    <3>3. t1 = 0 \/ given1 < Token - left - rest
      BY <1>1, <1>5, <2>1, <2>2, <2>7, <3>1, <3>2
    <3> QED BY <1>5, <2>1, <2>7, <3>1, <3>3 DEF t1, given1, rest
  <2> QED BY <1>2, <1>3, <2>1, <2>5, <2>6, <2>7
<1>10. Account(left, at, r)'
  <2>1. left <= Token * Capacity
    BY <1>1 DEF Account, all
  <2>2. Paid(left, at, r)'
    BY <1>9 DEF Paid
  <2>3. Owes(left, at, r)'
    <3> SUFFICES ASSUME turn > clock, turn >= at
                 PROVE  left <= 0 /\ (turn > at => r * (turn - at - 1) < - left)
      BY <1>4 DEF Owes
    <3>1. left <= 0
      BY <1>1, <1>2, <1>3
    <3>2. turn > at => r * (turn - at - 1) < - left
      <4>1. turn - at - 1 = w - 1
        BY <1>2, <1>3
      <4> QED BY <1>2, <1>3, <4>1
    <3> QED BY <3>1, <3>2
  <2> QED BY <2>1, <2>2, <2>3 DEF Account
<1>11. L!PaceKept'
  BY <1>4, <1>9 DEF L!PaceKept
<1> QED BY <1>4, <1>5, <1>6, <1>8, <1>10, <1>11

-----------------------------------------------------------------------------
LEMMA CallerMoves ==
  ASSUME PacingTypes, NEW c \in Callers, NEW r \in CallerRecord, caller' = [caller EXCEPT ![c] = r]
  PROVE  /\ caller' \in [Callers -> CallerRecord] /\ caller'[c] = r
         /\ \A d \in Callers \ {c} : caller'[d] = caller[d]
BY DEF PacingTypes

LEMMA IdleIsARecord ==
  /\ L!Idle \in CallerRecord /\ L!Idle.phase = "idle"
  /\ [L!Idle EXCEPT !.phase = "out"] \in CallerRecord
  /\ [L!Idle EXCEPT !.phase = "out"].phase = "out"
BY DEF L!Idle, CallerRecord, L!NoDeadline

LEMMA BalanceIs ==
  ASSUME PacingAssumed, PacingTypes
  PROVE  /\ Balance \in Int /\ tokens <= Balance
         /\ (\A c \in Callers : ~ IsLate(c)) => Balance = tokens
         /\ (\E c \in Callers : IsLate(c)) => Balance = tokens + Token
<1>1. Token \in Nat /\ tokens \in Int
  BY PacingNumbers DEF PacingTypes
<1> QED BY <1>1 DEF Balance

(* A step that gives no turn and leaves no more than there was. *)
LEMMA NoTurn ==
  ASSUME PacingAssumed, PacingInv, PacingTypes', UNCHANGED <<clock, told, latest>>,
         Undisturbed' => Undisturbed,
         Undisturbed' => /\ LateOwes' /\ Balance' <= Balance
                         /\ rate' <= rate \/ Balance >= 0
                         /\ refilled' = refilled \/ Balance' <= Token,
         refilled <= refilled',
         \A c \in Callers : IsAsleep(c)' => IsAsleep(c) /\ caller'[c].until = caller[c].until
  PROVE  (Undisturbed' => Orderly') /\ L!DifferentInstants' /\ L!PaceKept'
<1>1. L!DifferentInstants'
  BY DEF PacingInv, L!DifferentInstants, Undisturbed, IsAsleep
<1>2. L!PaceKept'
  BY DEF PacingInv, L!PaceKept, Undisturbed
<1>3. ASSUME Undisturbed' PROVE Orderly'
  <2>1. /\ PacingTypes /\ Orderly /\ Account(Balance, refilled, rate)
        /\ LateOwes' /\ Balance' <= Balance /\ (rate' <= rate \/ Balance >= 0)
        /\ (refilled' = refilled \/ Balance' <= Token)
    BY <1>3 DEF PacingInv, Orderly
  <2>2. /\ Balance \in Int /\ Balance' \in Int /\ Token * Capacity \in Nat /\ Token \in Nat
        /\ clock \in Int
    <3>1. Balance' \in Int
      BY PacingNumbers DEF Balance, PacingTypes
    <3>2. Balance \in Int
      BY <2>1, BalanceIs
    <3>3. Token * Capacity \in Nat /\ Token \in Nat
      BY BurstIsAToken, PacingNumbers
    <3>4. clock \in Int
      BY <2>1 DEF PacingTypes
    <3> QED BY <3>1, <3>2, <3>3, <3>4
  <2>3. PICK b, b1 \in Int, at, at1 \in Nat, r, r1 \in 1..Fastest :
          /\ b = Balance /\ b1 = Balance' /\ at = refilled /\ at1 = refilled'
          /\ r = rate /\ r1 = rate'
    BY <2>1, <2>2 DEF PacingTypes
  <2>4. Account(b, at, r) /\ b1 <= b /\ at <= at1 /\ (r1 <= r \/ b >= 0)
    BY <2>1, <2>3
  <2>5. Account(b, at, r1)
    BY <2>1, <2>4, Retuned
  <2>6. b1 <= Token * Capacity
    BY <2>2, <2>3, <2>4 DEF Account
  <2>7. b1 <= b + r1 * (at1 - at)
    <3>1. 0 * (at1 - at) <= r1 * (at1 - at) /\ at1 - at \in Nat
      <4>1. at1 - at \in Nat /\ r1 \in Int /\ 0 <= r1
        BY <2>4, PacingNumbers
      <4> QED BY <4>1, Times
    <3>2. r1 * (at1 - at) \in Int /\ 0 * (at1 - at) = 0
      BY <3>1, PacingNumbers
    <3> QED BY <2>4, <3>1, <3>2
  <2>8. Account(b1, at1, r1)
    BY <2>1, <2>4, <2>5, <2>6, <2>7, MovesOn
  <2>9. Account(Balance, refilled, rate)'
    BY <2>3, <2>8 DEF Account, Paid, Owes
  <2>10. refilled' > clock' => Balance' <= Token
    BY <2>1, <2>2 DEF Orderly
  <2>11. \A c \in Callers : IsAsleep(c)' => caller'[c].until <= latest'
    BY <2>1 DEF Orderly
  <2> QED BY <2>1, <2>9, <2>10, <2>11 DEF Orderly
<1> QED BY <1>1, <1>2, <1>3

(* What reserve finds in the bucket. *)
LEMMA RefillIs ==
  ASSUME PacingAssumed, PacingTypes
  PROVE  /\ L!Refill.tokens \in Int /\ L!Refill.at \in Nat
         /\ L!Refill.at >= clock /\ L!Refill.at >= refilled
         /\ clock <= refilled => L!Refill.at = refilled /\ L!Refill.tokens = tokens
         /\ clock > refilled =>
              /\ L!Refill.at = clock
              /\ L!Refill.tokens <= tokens + rate * (clock - refilled)
              /\ L!Refill.tokens <= Token * Capacity
<1> DEFINE more == tokens + rate * (clock - refilled)
           all == Capacity * Token
<1>1. more \in Int /\ all \in Int /\ all = Token * Capacity /\ clock \in Nat /\ refilled \in Nat
      /\ tokens \in Int
  BY PacingNumbers DEF PacingTypes
<1>2. L!Refill = IF clock > refilled THEN [tokens |-> L!Min({more, all}), at |-> clock]
                 ELSE [tokens |-> tokens, at |-> refilled]
  BY DEF L!Refill
<1> HIDE DEF more, all
<1>3. L!Min({more, all}) = IF more <= all THEN more ELSE all
  BY <1>1, MinOfTwo
<1>4. CASE clock > refilled
  <2>1. L!Refill.tokens = L!Min({more, all}) /\ L!Refill.at = clock
    BY <1>2, <1>4
  <2>2. L!Min({more, all}) \in Int /\ L!Min({more, all}) <= more /\ L!Min({more, all}) <= all
    BY <1>1, <1>3
  <2> QED BY <1>1, <1>4, <2>1, <2>2 DEF more
<1>5. CASE ~ clock > refilled
  BY <1>1, <1>2, <1>5
<1> QED BY <1>4, <1>5

LEMMA Refilled ==
  ASSUME PacingAssumed, PacingTypes, Orderly, \A c \in Callers : ~ IsLate(c)
  PROVE  /\ Account(L!Refill.tokens, L!Refill.at, rate)
         /\ L!Refill.at > clock => L!Refill.tokens <= Token
<1>1. /\ Account(tokens, refilled, rate) /\ (refilled > clock => tokens <= Token)
      /\ clock \in Nat /\ refilled \in Nat
  <2>1. Balance = tokens
    BY BalanceIs
  <2> QED BY <2>1 DEF Orderly, PacingTypes
<1>2. CASE clock <= refilled
  BY <1>1, <1>2, RefillIs
<1>3. CASE clock > refilled
  <2>1. PICK b, b1 \in Int, at, at1 \in Nat, r \in 1..Fastest :
          /\ b = tokens /\ b1 = L!Refill.tokens /\ at = refilled /\ at1 = L!Refill.at /\ r = rate
    BY RefillIs DEF PacingTypes
  <2>2. at <= at1 /\ at1 = clock /\ b1 <= b + r * (at1 - at) /\ b1 <= Token * Capacity
    BY <1>1, <1>3, <2>1, RefillIs
  <2>3. Account(b, at, r)
    BY <1>1, <2>1
  <2>4. at1 <= clock
    BY <1>1, <2>2
  <2>5. Account(b1, at1, r)
    BY <2>2, <2>3, <2>4, MovesOn
  <2> QED BY <1>1, <2>1, <2>2, <2>5
<1> QED BY <1>1, <1>2, <1>3

LEMMA AcquiresKeeps ==
  ASSUME PacingAssumed, PacingInv, NEW c \in Callers, NEW by \in Int, L!Acquires(c, by),
         ~ IsLate(c), ~ IsAsleep(c)
  PROVE  PacingInv' /\ L!Waited
<1>1. PICK b \in Int, at \in Nat, r \in 1..Fastest, left \in Int :
        b = L!Refill.tokens /\ at = L!Refill.at /\ r = rate /\ left = b - Token
  <2>1. L!Refill.tokens - Token \in Int /\ L!Refill.tokens \in Int /\ L!Refill.at \in Nat
    BY RefillIs, PacingNumbers DEF PacingInv
  <2> QED BY <2>1 DEF PacingInv, PacingTypes
<1>2. PICK turn : turn = at + L!Wait(left)
  OBVIOUS
<1> DEFINE Sleeps(phase) == [phase |-> phase, until |-> turn, by |-> by]
<1>3. /\ PacingTypes /\ HoldSeen /\ refilled' = at /\ tokens' = left
      /\ UNCHANGED <<clock, rate, backOff, heldUntil, quickened>>
      /\ crossed' \in BOOLEAN /\ (~ crossed' => ~ crossed /\ \A d \in Callers : ~ IsLate(d))
  BY <1>1 DEF PacingInv, PacingTypes, L!Acquires, IsLate
<1>4. \/ turn <= clock /\ L!Goes(c) /\ L!Tells(turn)
      \/ turn > clock /\ caller' = [caller EXCEPT ![c] = Sleeps("asleep")] /\ L!Tells(turn)
      \/ turn > clock /\ caller' = [caller EXCEPT ![c] = Sleeps("late")] /\ UNCHANGED <<told, latest>>
  BY <1>1, <1>2 DEF L!Acquires
<1>5. turn \in Nat /\ at >= clock /\ at >= refilled /\ turn >= at /\ clock \in Nat /\ refilled \in Nat
      /\ heldUntil \in Nat /\ latest \in Nat
  <2>1. L!Wait(left) \in Nat
    BY <1>3, WaitIs DEF PacingTypes
  <2> QED BY <1>1, <1>2, <1>3, <2>1, RefillIs DEF PacingTypes
<1>6. Sleeps("asleep") \in CallerRecord /\ Sleeps("late") \in CallerRecord
  BY <1>5 DEF CallerRecord
<1>7. PICK phase \in {"out", "asleep", "late"} :
        /\ caller' \in [Callers -> CallerRecord] /\ caller'[c].phase = phase
        /\ phase = "asleep" => caller'[c].until = turn
        /\ \A d \in Callers \ {c} : caller'[d] = caller[d]
        /\ phase = "out" <=> turn <= clock
        /\ phase # "late" => L!Tells(turn)
        /\ phase = "late" => UNCHANGED <<told, latest>>
  <2>1. CASE turn <= clock /\ L!Goes(c) /\ L!Tells(turn)
    <3>1. /\ caller' \in [Callers -> CallerRecord] /\ caller'[c].phase = "out"
          /\ \A d \in Callers \ {c} : caller'[d] = caller[d]
      BY <1>3, <2>1, CallerMoves, IdleIsARecord DEF L!Goes
    <3> WITNESS "out" \in {"out", "asleep", "late"}
    <3> QED BY <2>1, <3>1
  <2>2. CASE turn > clock /\ caller' = [caller EXCEPT ![c] = Sleeps("asleep")] /\ L!Tells(turn)
    <3>1. /\ caller' \in [Callers -> CallerRecord] /\ caller'[c] = Sleeps("asleep")
          /\ \A d \in Callers \ {c} : caller'[d] = caller[d]
      BY <1>3, <1>6, <2>2, CallerMoves
    <3> WITNESS "asleep" \in {"out", "asleep", "late"}
    <3> QED BY <1>5, <2>2, <3>1
  <2>3. CASE turn > clock /\ caller' = [caller EXCEPT ![c] = Sleeps("late")] /\ UNCHANGED <<told, latest>>
    <3>1. /\ caller' \in [Callers -> CallerRecord] /\ caller'[c] = Sleeps("late")
          /\ \A d \in Callers \ {c} : caller'[d] = caller[d]
      BY <1>3, <1>6, <2>3, CallerMoves
    <3> WITNESS "late" \in {"out", "asleep", "late"}
    <3> QED BY <1>5, <2>3, <3>1
  <2> QED BY <1>4, <2>1, <2>2, <2>3
<1> HIDE DEF Sleeps
<1>8. PacingTypes'
  <2>1. told' \in [0..LastInstant -> Nat] /\ latest' \in Nat
    <3>1. CASE L!Tells(turn)
      <4>1. \A f \in 0..LastInstant : told[f] \in Nat
        BY <1>3 DEF PacingTypes
      <4> QED BY <1>5, <3>1, <4>1 DEF L!Tells
    <3>2. CASE UNCHANGED <<told, latest>>
      BY <1>3, <3>2 DEF PacingTypes
    <3> QED BY <1>7, <3>1, <3>2
  <2> QED BY <1>1, <1>3, <1>7, <2>1 DEF PacingTypes
<1>9. HoldSeen' /\ L!Waited
  <2>1. HoldSeen'
    BY <1>3, <1>5 DEF HoldSeen
  <2>2. ASSUME NEW d \in Callers, caller[d].phase # "out", caller'[d].phase = "out"
        PROVE  clock >= heldUntil
    <3>1. phase = "out"
      BY <1>7, <2>2
    <3> QED BY <1>3, <1>5, <1>7, <3>1 DEF HoldSeen
  <2> QED BY <2>1, <2>2 DEF L!Waited
<1>10. ASSUME Undisturbed'
       PROVE  Orderly' /\ L!DifferentInstants' /\ L!PaceKept'
  <2>1. /\ Undisturbed /\ Orderly /\ L!DifferentInstants /\ L!PaceKept
        /\ \A d \in Callers : ~ IsLate(d)
    BY <1>3, <1>10 DEF Undisturbed, PacingInv
  <2>2. Account(b, at, r) /\ (at > clock => b <= Token)
    BY <1>1, <1>3, <2>1, Refilled
  <2>3. \A d \in Callers \ {c} : (IsLate(d)' <=> IsLate(d)) /\ (IsAsleep(d)' <=> IsAsleep(d))
    BY <1>7 DEF IsLate, IsAsleep
  <2>4. CASE phase # "late"
    <3>1. /\ turn >= latest /\ (turn > clock => turn > latest) /\ latest' = turn
          /\ Account(left, at, r)' /\ L!PaceKept'
      BY <1>1, <1>2, <1>3, <1>5, <1>7, <2>2, <2>4, TurnTold
    <3>2. \A d \in Callers : ~ IsLate(d)'
      BY <1>7, <2>1, <2>3, <2>4 DEF IsLate
    <3>3. LateOwes' /\ Balance' = left
      BY <1>3, <1>8, <3>2 DEF LateOwes, Balance, PacingTypes
    <3>4. Account(Balance, refilled, rate)'
      BY <1>1, <1>3, <3>1, <3>3 DEF Account, Paid, Owes
    <3>5. refilled' > clock' => Balance' <= Token
      BY <1>1, <1>3, <1>5, <2>2, <3>3, PacingNumbers
    <3>6. \A d \in Callers \ {c} : IsAsleep(d)' => caller'[d].until \in Nat /\ caller'[d].until <= latest
      BY <1>7, <1>8, <2>1, <2>3 DEF Orderly, PacingTypes, CallerRecord
    <3>7. \A d \in Callers : IsAsleep(d)' => caller'[d].until <= latest'
      BY <1>5, <1>7, <3>1, <3>6 DEF IsAsleep
    <3>8. ASSUME NEW d \in Callers, NEW e \in Callers, d # e, IsAsleep(d)', IsAsleep(e)'
          PROVE  caller'[d].until # caller'[e].until
      <4>1. CASE d # c /\ e # c
        <5>1. IsAsleep(d) /\ IsAsleep(e) /\ caller'[d] = caller[d] /\ caller'[e] = caller[e]
          BY <1>7, <2>3, <3>8, <4>1
        <5> QED BY <2>1, <3>8, <5>1 DEF L!DifferentInstants, IsAsleep, Undisturbed
      <4>2. CASE d = c \/ e = c
        <5>1. phase = "asleep" /\ turn > latest /\ caller'[c].until = turn
          BY <1>5, <1>7, <3>1, <3>8, <4>2 DEF IsAsleep
        <5> QED BY <1>5, <3>6, <3>8, <4>2, <5>1
      <4> QED BY <4>1, <4>2
    <3>9. L!DifferentInstants'
      BY <3>8 DEF L!DifferentInstants, IsAsleep
    <3> QED BY <3>1, <3>3, <3>4, <3>5, <3>7, <3>9 DEF Orderly
  <2>5. CASE phase = "late"
    <3>1. \A d \in Callers : IsLate(d)' <=> d = c
      BY <1>7, <2>1, <2>3, <2>5 DEF IsLate
    <3>2. Token \in Nat /\ 1 <= Token
      BY PacingNumbers
    <3>3. Balance' = b
      BY <1>1, <1>3, <3>1, <3>2 DEF Balance
    <3>4. left <= 0
      <4>1. turn > clock
        BY <1>5, <1>7, <2>5
      <4>2. left >= 0 => turn = at
        <5>1. left >= 0 => L!Wait(left) = 0
          BY <1>3, WaitIs DEF PacingTypes
        <5> QED BY <1>2, <5>1
      <4> QED BY <1>1, <1>5, <2>2, <3>2, <4>1, <4>2
    <3>5. LateOwes'
      BY <1>3, <3>1, <3>4 DEF LateOwes
    <3>6. Account(Balance, refilled, rate)'
      BY <1>1, <1>3, <1>7, <2>2, <2>5, <3>3 DEF Account, Paid, Owes
    <3>7. refilled' > clock' => Balance' <= Token
      BY <1>3, <2>2, <3>3
    <3>8. \A d \in Callers : IsAsleep(d)' => IsAsleep(d) /\ caller'[d].until = caller[d].until
      BY <1>7, <2>3, <2>5 DEF IsAsleep
    <3>9. \A d \in Callers : IsAsleep(d)' => caller'[d].until <= latest'
      BY <1>7, <2>1, <2>5, <3>8 DEF Orderly
    <3>10. L!DifferentInstants'
      BY <2>1, <3>8 DEF L!DifferentInstants, IsAsleep, Undisturbed
    <3>11. L!PaceKept'
      BY <1>7, <2>1, <2>5 DEF L!PaceKept, Undisturbed
    <3> QED BY <3>5, <3>6, <3>7, <3>9, <3>10, <3>11 DEF Orderly
  <2> QED BY <2>4, <2>5
<1>11. ~ Undisturbed' => L!DifferentInstants' /\ L!PaceKept'
  BY DEF Undisturbed, L!DifferentInstants, L!PaceKept
<1> QED BY <1>8, <1>9, <1>10, <1>11 DEF PacingInv

LEMMA AsksKeeps ==
  ASSUME PacingAssumed, PacingInv, NEW c \in Callers, L!Asks(c) \/ L!AsksAgain(c)
  PROVE  PacingInv' /\ L!Waited
<1>1. PICK by \in Int : L!Acquires(c, by)
  <2>1. CASE L!Asks(c)
    <3>1. \A d \in Deadlines : clock + d \in Int
      BY PacingNumbers DEF PacingInv, PacingTypes
    <3> QED BY <2>1, <3>1 DEF L!Asks, L!NoDeadline
  <2>2. CASE L!AsksAgain(c)
    BY <2>2 DEF L!AsksAgain, PacingInv, PacingTypes, CallerRecord
  <2> QED BY <2>1, <2>2
<1>2. ~ IsLate(c) /\ ~ IsAsleep(c)
  BY DEF L!Asks, L!AsksAgain, L!Idle, IsLate, IsAsleep
<1> QED BY <1>1, <1>2, AcquiresKeeps

LEMMA NoLess ==
  ASSUME NEW m \in Int, NEW n \in Int, NEW k \in Int, m <= n PROVE m + k <= n + k
OBVIOUS

(* The balance after a step that leaves late who was.                      *)
LEMMA BalanceMoves ==
  ASSUME PacingTypes, PacingTypes', PacingAssumed
  PROVE  /\ (\A c \in Callers : IsLate(c)' <=> IsLate(c)) /\ tokens' <= tokens => Balance' <= Balance
         /\ (\E c \in Callers : IsLate(c)') => Balance' = tokens' + Token
         /\ (\A c \in Callers : ~ IsLate(c)') => Balance' = tokens'
<1>1. tokens \in Int /\ tokens' \in Int /\ Token \in Int /\ 0 \in Int
  BY PacingNumbers DEF PacingTypes
<1>2. PICK left \in Int : left = tokens'
  BY <1>1
<1>3. (\E c \in Callers : IsLate(c)') => Balance' = left + Token
  BY <1>2 DEF Balance
<1>4. (\A c \in Callers : ~ IsLate(c)') => Balance' = left
  <2>1. (\A c \in Callers : ~ IsLate(c)') => Balance' = left + 0
    BY <1>2 DEF Balance
  <2>2. left + 0 = left
    OBVIOUS
  <2> QED BY <2>1, <2>2
<1>5. ASSUME \A c \in Callers : IsLate(c)' <=> IsLate(c), left <= tokens PROVE Balance' <= Balance
  <2>1. left + Token <= tokens + Token
    BY <1>1, <1>5, NoLess
  <2>2. CASE \E c \in Callers : IsLate(c)
    <3>1. Balance' = left + Token
      BY <1>3, <1>5, <2>2
    <3>2. Balance = tokens + Token
      BY <2>2 DEF Balance
    <3> QED BY <2>1, <3>1, <3>2
  <2>3. CASE \A c \in Callers : ~ IsLate(c)
    <3>1. Balance' = left
      BY <1>4, <1>5, <2>3
    <3>2. Balance = tokens
      BY <1>1, <2>3 DEF Balance
    <3> QED BY <1>5, <3>1, <3>2
  <2> QED BY <2>2, <2>3
<1>6. tokens' <= tokens => left <= tokens
  BY <1>2, Zenon
<1>7. (\A c \in Callers : IsLate(c)' <=> IsLate(c)) /\ tokens' <= tokens => Balance' <= Balance
  BY <1>5, <1>6, Zenon
<1>8. (\E c \in Callers : IsLate(c)') => Balance' = tokens' + Token
  BY <1>2, <1>3, Zenon
<1>9. (\A c \in Callers : ~ IsLate(c)') => Balance' = tokens'
  BY <1>2, <1>4, Zenon
<1> QED BY <1>7, <1>8, <1>9, Zenon

(* One caller moves and is not late after; if it was, its token may be     *)
(* given back.                                                             *)
LEMMA OneMoves ==
  ASSUME PacingAssumed, PacingInv, PacingTypes', NEW c \in Callers,
         \A d \in Callers \ {c} : caller'[d] = caller[d],
         ~ IsLate(c)', Undisturbed,
         IF IsLate(c) THEN tokens' <= tokens + Token ELSE tokens' <= tokens
  PROVE  LateOwes' /\ Balance' <= Balance
<1>1. PacingTypes /\ LateOwes
  BY DEF PacingInv, Orderly
<1>2. \A d \in Callers \ {c} : IsLate(d)' <=> IsLate(d)
  BY DEF IsLate
<1>3. CASE IsLate(c)
  <2>1. \A d \in Callers : ~ IsLate(d)'
    BY <1>1, <1>2, <1>3 DEF LateOwes
  <2>2. Balance = tokens + Token
    BY <1>3 DEF Balance
  <2>3. Balance' = tokens'
    BY <1>1, <2>1, BalanceMoves
  <2>4. tokens' <= tokens + Token
    BY <1>3
  <2>5. LateOwes'
    BY <2>1 DEF LateOwes
  <2> QED BY <2>2, <2>3, <2>4, <2>5
<1>4. CASE ~ IsLate(c)
  <2>1. \A d \in Callers : IsLate(d)' <=> IsLate(d)
    BY <1>2, <1>4
  <2>2. PICK left \in Int : left = tokens' /\ left <= tokens /\ tokens \in Int
    BY <1>1, <1>4 DEF PacingTypes
  <2>3. Balance' <= Balance
    BY <1>1, <2>1, <2>2, BalanceMoves
  <2>4. LateOwes'
    BY <1>1, <2>1, <2>2 DEF LateOwes
  <2> QED BY <2>3, <2>4
<1> QED BY <1>3, <1>4

LEMMA GivesBackKeeps ==
  ASSUME PacingAssumed, PacingInv, NEW c \in Callers, L!GivesBack(c) \/ L!Dropped(c)
  PROVE  PacingInv' /\ L!Waited
<1>1. /\ PacingTypes /\ HoldSeen /\ caller' = [caller EXCEPT ![c] = L!Idle]
      /\ UNCHANGED <<clock, refilled, rate, backOff, heldUntil, told, latest, crossed, quickened>>
      /\ tokens' \in Int
      /\ IF IsLate(c) THEN tokens' <= tokens + Token ELSE tokens' <= tokens
  <2>1. tokens \in Int /\ Token \in Nat
    BY PacingNumbers DEF PacingInv, PacingTypes
  <2> QED BY <2>1 DEF L!GivesBack, L!Dropped, L!bucket, L!turns, PacingInv, IsLate
<1>2. /\ caller' \in [Callers -> CallerRecord] /\ caller'[c].phase = "idle"
      /\ \A d \in Callers \ {c} : caller'[d] = caller[d]
  BY <1>1, CallerMoves, IdleIsARecord
<1>3. PacingTypes'
  BY <1>1, <1>2 DEF PacingTypes
<1>4. HoldSeen'
  BY <1>1 DEF HoldSeen
<1>5. L!Waited
  BY <1>2 DEF L!Waited
<1>6. ~ IsLate(c)' /\ ~ IsAsleep(c)'
  BY <1>2 DEF IsLate, IsAsleep
<1>7. Undisturbed => LateOwes' /\ Balance' <= Balance
  BY <1>1, <1>2, <1>3, <1>6, OneMoves
<1>8. \A d \in Callers : IsAsleep(d)' => IsAsleep(d) /\ caller'[d].until = caller[d].until
  BY <1>2, <1>6 DEF IsAsleep
<1>9. Undisturbed' => Undisturbed
  BY <1>1 DEF Undisturbed
<1>10. rate' <= rate /\ refilled <= refilled'
  BY <1>1, PacingNumbers DEF PacingTypes
<1>11. (Undisturbed' => Orderly') /\ L!DifferentInstants' /\ L!PaceKept'
  BY <1>1, <1>3, <1>7, <1>8, <1>9, <1>10, NoTurn
<1> QED BY <1>3, <1>4, <1>5, <1>11 DEF PacingInv

LEMMA WakesKeeps ==
  ASSUME PacingAssumed, PacingInv, NEW c \in Callers, L!Wakes(c)
  PROVE  PacingInv' /\ L!Waited
<1>1. /\ PacingTypes /\ HoldSeen /\ IsAsleep(c)
      /\ UNCHANGED <<clock, tokens, refilled, rate, backOff, heldUntil, told, latest, crossed, quickened>>
  BY DEF L!Wakes, L!bucket, L!turns, PacingInv, IsAsleep
<1>2. /\ caller' \in [Callers -> CallerRecord] /\ caller'[c].phase \in {"out", "again"}
      /\ \A d \in Callers \ {c} : caller'[d] = caller[d]
      /\ caller'[c].phase = "out" => refilled <= clock
  <2>1. CASE refilled <= clock
    <3>1. L!Goes(c)
      BY <2>1 DEF L!Wakes
    <3> QED BY <1>1, <2>1, <3>1, CallerMoves, IdleIsARecord DEF L!Goes
  <2>2. CASE ~ refilled <= clock
    <3>1. caller' = [caller EXCEPT ![c].phase = "again"]
      BY <2>2 DEF L!Wakes
    <3> QED BY <1>1, <3>1 DEF PacingTypes, CallerRecord
  <2> QED BY <2>1, <2>2
<1>3. PacingTypes'
  BY <1>1, <1>2 DEF PacingTypes
<1>4. HoldSeen'
  BY <1>1 DEF HoldSeen
<1>5. L!Waited
  BY <1>1, <1>2 DEF L!Waited, HoldSeen, PacingTypes
<1>6. ~ IsLate(c)' /\ ~ IsAsleep(c)' /\ ~ IsLate(c)
  BY <1>1, <1>2 DEF IsLate, IsAsleep
<1>7. tokens' \in Int /\ tokens' <= tokens /\ rate' <= rate /\ refilled <= refilled'
  BY <1>1, PacingNumbers DEF PacingTypes
<1>8. Undisturbed => LateOwes' /\ Balance' <= Balance
  BY <1>2, <1>3, <1>6, <1>7, OneMoves
<1>9. \A d \in Callers : IsAsleep(d)' => IsAsleep(d) /\ caller'[d].until = caller[d].until
  BY <1>2, <1>6 DEF IsAsleep
<1>10. Undisturbed' => Undisturbed
  BY <1>1 DEF Undisturbed
<1>11. (Undisturbed' => Orderly') /\ L!DifferentInstants' /\ L!PaceKept'
  BY <1>1, <1>3, <1>7, <1>8, <1>9, <1>10, NoTurn
<1> QED BY <1>3, <1>4, <1>5, <1>11 DEF PacingInv

(* An answer: the place of the caller that has it is free, the bucket may  *)
(* be kept back and the rate be another.                                   *)
LEMMA AnswerKeeps ==
  ASSUME PacingAssumed, PacingInv,
         caller' = caller \/ \E c \in Callers : L!Answered(c),
         tokens' \in Int, refilled' \in Nat, backOff' \in Nat, heldUntil' \in Nat,
         rate' \in 1..Fastest, quickened' \in BOOLEAN,
         ~ quickened' => ~ quickened /\ (rate' <= rate \/ tokens >= 0),
         tokens' <= tokens, refilled' >= refilled,
         refilled' = refilled \/ tokens' <= Token,
         heldUntil' = heldUntil \/ heldUntil' <= refilled',
         UNCHANGED <<clock, told, latest, crossed>>
  PROVE  PacingInv' /\ L!Waited
<1>1. PacingTypes /\ HoldSeen
  BY DEF PacingInv
<1>2. /\ caller' \in [Callers -> CallerRecord]
      /\ \A d \in Callers : IsAsleep(d)' => IsAsleep(d) /\ caller'[d].until = caller[d].until
      /\ \A d \in Callers : IsLate(d)' <=> IsLate(d)
      /\ \A d \in Callers : caller'[d].phase = "out" => caller[d].phase = "out"
  <2>1. CASE caller' = caller
    BY <1>1, <2>1 DEF PacingTypes, IsAsleep, IsLate
  <2>2. ASSUME NEW c \in Callers, L!Answered(c)
        PROVE  /\ caller' \in [Callers -> CallerRecord]
               /\ \A d \in Callers : IsAsleep(d)' => IsAsleep(d) /\ caller'[d].until = caller[d].until
               /\ \A d \in Callers : IsLate(d)' <=> IsLate(d)
               /\ \A d \in Callers : caller'[d].phase = "out" => caller[d].phase = "out"
    <3>1. caller[c].phase = "out" /\ caller' = [caller EXCEPT ![c] = L!Idle]
      BY <2>2 DEF L!Answered
    <3>2. /\ caller' \in [Callers -> CallerRecord] /\ caller'[c].phase = "idle"
          /\ \A d \in Callers \ {c} : caller'[d] = caller[d]
      BY <1>1, <3>1, CallerMoves, IdleIsARecord
    <3> QED BY <3>1, <3>2 DEF IsAsleep, IsLate
  <2> QED BY <2>1, <2>2
<1>3. PacingTypes'
  BY <1>1, <1>2 DEF PacingTypes
<1>4. HoldSeen'
  BY <1>1, <1>3 DEF HoldSeen, PacingTypes
<1>5. L!Waited
  BY <1>2 DEF L!Waited
<1>6. Undisturbed' => Undisturbed
  BY DEF Undisturbed
<1>7. ASSUME Undisturbed'
      PROVE  /\ LateOwes' /\ Balance' <= Balance
             /\ rate' <= rate \/ Balance >= 0
             /\ refilled' = refilled \/ Balance' <= Token
  <2>1. LateOwes /\ (rate' <= rate \/ tokens >= 0)
    BY <1>6, <1>7 DEF PacingInv, Orderly, Undisturbed
  <2>2. Token \in Nat /\ tokens \in Int
    BY <1>1, PacingNumbers DEF PacingTypes
  <2>3. PICK left \in Int : left = tokens' /\ left <= tokens /\ (refilled' = refilled \/ left <= Token)
    BY <1>3 DEF PacingTypes
  <2>4. LateOwes'
    BY <1>2, <2>1, <2>2, <2>3 DEF LateOwes
  <2>5. Balance' <= Balance /\ tokens <= Balance /\ Balance \in Int
    BY <1>1, <1>2, <1>3, BalanceIs, BalanceMoves
  <2>6. rate' <= rate \/ Balance >= 0
    BY <2>1, <2>2, <2>5
  <2>7. refilled' = refilled \/ Balance' <= Token
    <3>1. CASE \E c \in Callers : IsLate(c)
      <4>1. \E c \in Callers : IsLate(c)'
        BY <1>2, <3>1
      <4>2. Balance' = left + Token
        BY <1>1, <1>3, <2>3, <4>1, BalanceMoves
      <4>3. tokens <= 0
        BY <2>1, <3>1 DEF LateOwes
      <4>4. left <= 0
        <5>1. left <= tokens
          BY <2>3
        <5> QED BY <2>2, <4>3, <5>1
      <4>5. left + Token <= 0 + Token /\ 0 + Token = Token
        BY <2>2, <4>4, NoLess
      <4> QED BY <4>2, <4>5
    <3>2. CASE \A c \in Callers : ~ IsLate(c)
      <4>1. \A c \in Callers : ~ IsLate(c)'
        BY <1>2, <3>2
      <4>2. Balance' = left
        BY <1>1, <1>3, <2>3, <4>1, BalanceMoves
      <4> QED BY <2>3, <4>2
    <3> QED BY <3>1, <3>2
  <2> QED BY <2>4, <2>5, <2>6, <2>7
<1>8. (Undisturbed' => Orderly') /\ L!DifferentInstants' /\ L!PaceKept'
  BY <1>2, <1>3, <1>6, <1>7, NoTurn DEF PacingTypes
<1> QED BY <1>3, <1>4, <1>5, <1>8 DEF PacingInv

(* A hold placed. *)
LEMMA HoldIs ==
  ASSUME PacingAssumed, PacingTypes, NEW until \in Nat, L!Hold(until)
  PROVE  /\ tokens' \in Int /\ refilled' \in Nat /\ heldUntil' \in Nat
         /\ tokens' <= tokens /\ refilled' >= refilled
         /\ refilled' = refilled \/ tokens' <= Token
         /\ heldUntil' = heldUntil \/ heldUntil' <= refilled'
<1>1. tokens \in Int /\ refilled \in Nat /\ heldUntil \in Nat /\ Token \in Nat
  BY PacingNumbers DEF PacingTypes
<1>2. L!Min({tokens, Token}) = IF tokens <= Token THEN tokens ELSE Token
  BY <1>1, MinOfTwo
<1>3. L!Max({heldUntil, until}) = IF heldUntil >= until THEN heldUntil ELSE until
  BY <1>1, MaxOfTwo
<1> QED BY <1>1, <1>2, <1>3 DEF L!Hold

LEMMA AnswersKeep ==
  ASSUME PacingAssumed, PacingInv, NEW c \in Callers,
         L!Said(c) \/ L!ToldToWait(c) \/ L!RefusedAsTooMany(c) \/ L!Failed(c)
  PROVE  PacingInv' /\ L!Waited
<1>1. /\ PacingTypes /\ L!Answered(c)
      /\ UNCHANGED <<clock, told, latest, crossed, quickened>>
  BY DEF PacingInv, L!Said, L!ToldToWait, L!RefusedAsTooMany, L!Failed, L!turns
<1>2. /\ tokens \in Int /\ refilled \in Nat /\ backOff \in Nat /\ heldUntil \in Nat /\ clock \in Nat
      /\ rate \in 1..Fastest /\ rate <= rate /\ quickened \in BOOLEAN
      /\ tokens <= tokens /\ refilled >= refilled
  BY <1>1, PacingNumbers DEF PacingTypes
<1>3. CASE L!Said(c)
  <2>1. backOff' \in Nat /\ UNCHANGED <<tokens, refilled, rate, heldUntil>>
    BY <1>3, PacingNumbers DEF L!Said
  <2> QED BY <1>1, <1>2, <2>1, AnswerKeeps
<1>4. CASE L!ToldToWait(c)
  <2>1. PICK d \in Delays : L!Hold(clock + d)
    BY <1>4 DEF L!ToldToWait
  <2> DEFINE until == clock + d
  <2>2. until \in Nat
    BY <1>2, PacingNumbers
  <2> HIDE DEF until
  <2>3. /\ tokens' \in Int /\ refilled' \in Nat /\ heldUntil' \in Nat
        /\ tokens' <= tokens /\ refilled' >= refilled
        /\ refilled' = refilled \/ tokens' <= Token
        /\ heldUntil' = heldUntil \/ heldUntil' <= refilled'
    BY <1>1, <2>1, <2>2, HoldIs DEF until
  <2>4. backOff' = backOff /\ rate' = rate
    BY <1>4 DEF L!ToldToWait
  <2> QED BY <1>1, <1>2, <2>3, <2>4, AnswerKeeps
<1>5. CASE L!RefusedAsTooMany(c)
  <2>1. CASE UNCHANGED <<tokens, refilled, rate, backOff, heldUntil>>
    BY <1>1, <1>2, <2>1, AnswerKeeps
  <2>2. CASE L!Hold(clock + backOff) /\ backOff' = L!Min({2 * backOff, MaxHold}) /\ UNCHANGED rate
    <3> DEFINE until == clock + backOff
               twice == 2 * backOff
    <3>1. until \in Nat /\ twice \in Nat /\ MaxHold \in Nat
      BY <1>2, PacingNumbers
    <3>2. backOff' = L!Min({twice, MaxHold}) /\ rate' = rate
      BY <2>2
    <3> HIDE DEF until, twice
    <3>3. /\ tokens' \in Int /\ refilled' \in Nat /\ heldUntil' \in Nat
          /\ tokens' <= tokens /\ refilled' >= refilled
          /\ refilled' = refilled \/ tokens' <= Token
          /\ heldUntil' = heldUntil \/ heldUntil' <= refilled'
      BY <1>1, <2>2, <3>1, HoldIs DEF until
    <3>4. backOff' \in Nat
      BY <3>1, <3>2, MinOfTwo
    <3> QED BY <1>1, <1>2, <3>2, <3>3, <3>4, AnswerKeeps
  <2> QED BY <1>5, <2>1, <2>2 DEF L!RefusedAsTooMany, L!bucket
<1>6. CASE L!Failed(c)
  <2>1. UNCHANGED <<tokens, refilled, rate, backOff, heldUntil>>
    BY <1>6 DEF L!Failed, L!bucket
  <2> QED BY <1>1, <1>2, <2>1, AnswerKeeps
<1> QED BY <1>3, <1>4, <1>5, <1>6

LEMMA StatedKeeps ==
  ASSUME PacingAssumed, PacingInv, NEW stated \in Rates \cup {rate}, NEW remaining \in 0..Capacity,
         NEW wait \in Delays, L!Stated(stated, remaining, wait)
  PROVE  PacingInv' /\ L!Waited
<1> DEFINE most == remaining * Token
           left == L!Min({tokens, most})
           until == clock + wait
<1>1. /\ PacingTypes /\ UNCHANGED <<clock, backOff, caller, told, latest, crossed>>
      /\ rate' = stated
      /\ quickened' = (quickened \/ (stated > rate /\ tokens < 0))
      /\ IF remaining = 0 /\ until > refilled
         THEN /\ refilled' = until
              /\ tokens' = L!Min({left, Token})
              /\ heldUntil' = L!Max({heldUntil, until})
         ELSE tokens' = left /\ UNCHANGED <<refilled, heldUntil>>
  BY DEF PacingInv, L!Stated
<1>2. /\ tokens \in Int /\ refilled \in Nat /\ backOff \in Nat /\ heldUntil \in Nat
      /\ most \in Int /\ Token \in Nat
      /\ rate \in 1..Fastest /\ stated \in 1..Fastest /\ Fastest \in Nat /\ quickened \in BOOLEAN
  <2>1. Token \in Nat /\ remaining \in Nat /\ Rates \subseteq 1..Fastest /\ Fastest \in Nat
    BY PacingNumbers
  <2> QED BY <1>1, <2>1 DEF PacingTypes
<1>3. until \in Nat
  BY <1>1, PacingNumbers DEF PacingTypes
<1> HIDE DEF most, until
<1>4. left = IF tokens <= most THEN tokens ELSE most
  BY <1>2, MinOfTwo
<1> HIDE DEF left
<1>5. left \in Int /\ left <= tokens
  BY <1>2, <1>4
<1>6. L!Min({left, Token}) = IF left <= Token THEN left ELSE Token
  BY <1>2, <1>5, MinOfTwo
<1>7. L!Max({heldUntil, until}) = IF heldUntil >= until THEN heldUntil ELSE until
  BY <1>2, <1>3, MaxOfTwo
<1>8. /\ tokens' \in Int /\ refilled' \in Nat /\ heldUntil' \in Nat
      /\ tokens' <= tokens /\ refilled' >= refilled
      /\ refilled' = refilled \/ tokens' <= Token
      /\ heldUntil' = heldUntil \/ heldUntil' <= refilled'
  BY <1>1, <1>2, <1>3, <1>5, <1>6, <1>7
<1>9. quickened' \in BOOLEAN /\ (~ quickened' => ~ quickened /\ ~ (stated > rate /\ tokens < 0))
  BY <1>1, <1>2, Zenon
<1>10. ~ quickened' => ~ quickened /\ (rate' <= rate \/ tokens >= 0)
  BY <1>1, <1>2, <1>9
<1> QED BY <1>1, <1>2, <1>8, <1>9, <1>10, AnswerKeeps

LEMMA PacingTickKeeps ==
  ASSUME PacingAssumed, PacingInv, L!Tick
  PROVE  PacingInv' /\ L!Waited
<1>1. /\ PacingTypes /\ HoldSeen /\ clock < LastInstant /\ clock' = clock + 1
      /\ UNCHANGED <<tokens, refilled, rate, backOff, caller, heldUntil, told, latest, crossed, quickened>>
  BY DEF PacingInv, L!Tick, L!bucket, L!turns
<1>2. clock \in Nat /\ clock' \in 0..LastInstant /\ heldUntil \in Nat /\ refilled \in Nat
      /\ latest \in Nat
  BY <1>1, PacingNumbers DEF PacingTypes
<1>3. PacingTypes'
  BY <1>1, <1>2 DEF PacingTypes
<1>4. HoldSeen'
  BY <1>1, <1>2 DEF HoldSeen
<1>5. L!Waited
  BY <1>1 DEF L!Waited
<1>6. ASSUME Undisturbed' PROVE Orderly'
  <2>1. Orderly
    BY <1>1, <1>6 DEF PacingInv, Undisturbed
  <2>2. Balance' = Balance /\ LateOwes'
    BY <1>1, <2>1 DEF Orderly, LateOwes, Balance, IsLate
  <2>3. refilled' > clock' => Balance' <= Token
    BY <1>1, <1>2, <2>1, <2>2 DEF Orderly
  <2>4. Account(Balance, refilled, rate)'
    <3>1. Paid(Balance, refilled, rate)' /\ (Balance <= Token * Capacity)'
      BY <1>1, <2>1, <2>2 DEF Orderly, Account, Paid
    <3>2. Owes(Balance, refilled, rate)'
      BY <1>1, <1>2, <2>1, <2>2 DEF Orderly, Account, Owes
    <3> QED BY <3>1, <3>2 DEF Account
  <2>5. \A c \in Callers : IsAsleep(c)' => caller'[c].until <= latest'
    BY <1>1, <2>1 DEF Orderly, IsAsleep
  <2> QED BY <2>2, <2>3, <2>4, <2>5 DEF Orderly
<1>7. L!DifferentInstants' /\ L!PaceKept'
  BY <1>1 DEF PacingInv, L!DifferentInstants, L!PaceKept
<1> QED BY <1>3, <1>4, <1>5, <1>6, <1>7 DEF PacingInv

LEMMA InitPacing ==
  ASSUME PacingAssumed, L!Init
  PROVE  PacingInv
<1>1. /\ Capacity \in Nat \ {0} /\ FirstBackOff \in Nat /\ LastInstant \in Nat /\ Token \in Nat \ {0}
      /\ Fastest \in 1..Token /\ FirstRate \in 1..Fastest
      /\ clock = 0 /\ tokens = Capacity * Token /\ refilled = 0 /\ backOff = FirstBackOff
      /\ rate = FirstRate /\ caller = [c \in Callers |-> L!Idle] /\ heldUntil = 0
      /\ told = [t \in 0..LastInstant |-> 0] /\ latest = 0
  BY PacingNumbers DEF L!Init
<1>2. crossed \in BOOLEAN /\ quickened \in BOOLEAN
  BY Zenon DEF L!Init
<1>3. caller \in [Callers -> CallerRecord]
  BY <1>1, IdleIsARecord
<1>4. told \in [0..LastInstant -> Nat] /\ \A f \in 0..LastInstant : told[f] = 0
  BY <1>1
<1>5. tokens \in Int /\ tokens = Token * Capacity /\ clock \in 0..LastInstant
  BY <1>1
<1>6. PacingTypes /\ HoldSeen
  BY <1>1, <1>2, <1>3, <1>4, <1>5 DEF PacingTypes, HoldSeen
<1>7. \A c \in Callers : ~ IsLate(c) /\ ~ IsAsleep(c)
  BY <1>1, IdleIsARecord DEF IsLate, IsAsleep
<1>8. Balance = tokens /\ LateOwes
  BY <1>5, <1>7 DEF Balance, LateOwes
<1>9. ASSUME NEW f \in 0..LastInstant, f <= latest
      PROVE  Token * told[f] = 0 /\ 0 <= Fastest * (0 - f + 1) /\ f = 0
  BY <1>1, <1>4, <1>9
<1>10. Account(Balance, refilled, rate)
  BY <1>1, <1>4, <1>5, <1>8, <1>9 DEF Account, Paid, Owes
<1>11. L!DifferentInstants
  BY <1>7 DEF L!DifferentInstants, IsAsleep
<1>12. L!PaceKept
  BY <1>1, <1>5, <1>9 DEF L!PaceKept
<1> QED BY <1>1, <1>6, <1>7, <1>8, <1>10, <1>11, <1>12 DEF PacingInv, Orderly

LEMMA NextPacing ==
  ASSUME PacingAssumed, PacingInv, [L!Next]_(L!vars)
  PROVE  PacingInv' /\ (L!Waited \/ UNCHANGED L!vars)
<1>1. ASSUME NEW c \in Callers,
             L!Asks(c) \/ L!GivesBack(c) \/ L!Wakes(c) \/ L!AsksAgain(c) \/ L!Dropped(c)
             \/ L!Said(c) \/ L!ToldToWait(c) \/ L!RefusedAsTooMany(c) \/ L!Failed(c)
      PROVE  PacingInv' /\ L!Waited
  BY <1>1, AsksKeeps, GivesBackKeeps, WakesKeeps, AnswersKeep
<1>2. ASSUME NEW stated \in Rates \cup {rate}, NEW remaining \in 0..Capacity, NEW wait \in Delays,
             L!Stated(stated, remaining, wait)
      PROVE  PacingInv' /\ L!Waited
  BY <1>2, StatedKeeps
<1>3. CASE L!Tick
  BY <1>3, PacingTickKeeps
<1>4. CASE UNCHANGED L!vars
  <2>1. UNCHANGED <<clock, tokens, refilled, rate, backOff, caller, heldUntil, told, latest, crossed, quickened>>
    BY <1>4 DEF L!vars, L!bucket, L!turns
  <2>2. PacingTypes' /\ HoldSeen' /\ L!DifferentInstants' /\ L!PaceKept'
    BY <2>1 DEF PacingInv, PacingTypes, HoldSeen, L!DifferentInstants, L!PaceKept
  <2>3. Undisturbed' => Orderly'
    BY <2>1 DEF PacingInv, Undisturbed, Orderly, LateOwes, Balance, IsLate, IsAsleep, Account,
                Paid, Owes
  <2> QED BY <1>4, <2>2, <2>3 DEF PacingInv
<1> QED BY <1>1, <1>2, <1>3, <1>4 DEF L!Next

(* However callers come, hang up, wake late, are held back or are sent     *)
(* back in line, and whatever rates a source states, no more of them are   *)
(* given an instant of any stretch of time than its burst and what comes   *)
(* back in it at the fastest rate, as long as no token is taken between    *)
(* another's being taken and given back and the rate is not raised while   *)
(* requests are queued ahead.                                              *)
THEOREM KeepsThePace == PacingAssumed => (L!Spec => []L!PaceKept)
<1> SUFFICES ASSUME PacingAssumed PROVE L!Spec => []L!PaceKept
  OBVIOUS
<1>1. L!Init => PacingInv
  BY InitPacing
<1>2. PacingInv /\ [L!Next]_(L!vars) => PacingInv'
  BY NextPacing
<1>3. PacingInv => L!PaceKept
  BY DEF PacingInv
<1> QED BY <1>1, <1>2, <1>3, PTL DEF L!Spec

(* While a source has everything held back nothing goes out to it, not     *)
(* even a caller given its instant before the hold.                        *)
THEOREM NoneDuringAHold == PacingAssumed => (L!Spec => L!NoneOutDuringAHold)
<1> SUFFICES ASSUME PacingAssumed PROVE L!Spec => [][L!Waited]_(L!vars)
  BY DEF L!NoneOutDuringAHold
<1>1. L!Init => PacingInv
  BY InitPacing
<1>2. PacingInv /\ [L!Next]_(L!vars) => PacingInv' /\ [L!Waited]_(L!vars)
  BY NextPacing
<1> QED BY <1>1, <1>2, PTL DEF L!Spec

(* Those that sleep until their turn have instants of their own, as long   *)
(* as no token is taken while another is about to be given back and the    *)
(* rate is not raised while requests are queued ahead.                     *)
THEOREM TurnsAreTheirOwn == PacingAssumed => (L!Spec => []L!DifferentInstants)
<1> SUFFICES ASSUME PacingAssumed PROVE L!Spec => []L!DifferentInstants
  OBVIOUS
<1>1. L!Init => PacingInv
  BY InitPacing
<1>2. PacingInv /\ [L!Next]_(L!vars) => PacingInv'
  BY NextPacing
<1>3. PacingInv => L!DifferentInstants
  BY DEF PacingInv
<1> QED BY <1>1, <1>2, <1>3, PTL DEF L!Spec
=============================================================================
