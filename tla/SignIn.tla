------------------------------- MODULE SignIn -------------------------------
(***************************************************************************)
(* The throttle of the sign-ins (accounts.rs SignInThrottle): a share per  *)
(* address, a bounded queue, a few checks at once, each given back however *)
(* its holder ends, and a wait per address that doubles at each failure.   *)
(*                                                                         *)
(* An address is the bucket of one client; a request may have none. Time   *)
(* is counted in the first wait.                                           *)
(***************************************************************************)
EXTENDS Integers, FiniteSets

CONSTANTS
  Requests,          \* sign-ins at one time
  Clients,
  PerClient,         \* PER_CLIENT
  MaxInFlight,       \* MAX_IN_FLIGHT
  Checks,            \* CONCURRENT_CHECKS
  Allowed,           \* FAILURES_ALLOWED
  Window,            \* FAILURE_WINDOW
  FirstWait,         \* FIRST_WAIT
  LongestWait,       \* LONGEST_WAIT
  Remembered,        \* ADDRESSES_REMEMBERED
  MaxTime,
  None

SomeOfEach ==
  /\ {PerClient, MaxInFlight, Checks, Allowed, Window, FirstWait, LongestWait, Remembered}
       \subseteq Nat \ {0}
  /\ MaxTime \in Nat /\ FirstWait <= LongestWait /\ Allowed > 1
  /\ IsFiniteSet(Requests) /\ IsFiniteSet(Clients)

VARIABLES
  time,
  request,           \* where each request is, and whose it is
  inFlight,          \* the counter `in_flight`
  shares,            \* `by_client`: the places each address holds
  permits,           \* permits free in `permits`
  failures,          \* `failures` of each address, None when none is remembered
  lastWait           \* history: the last wait set for each address, and its end

vars == <<time, request, inFlight, shares, permits, failures, lastWait>>
places == <<inFlight, shares, permits>>

Phases ==
  {"admitted",       \* share taken, not yet counted
   "over",           \* counted past the limit, about to leave
   "queued",         \* waits for a permit
   "checking",       \* its password is hashed on a thread of its own
   "abandoned",      \* hashed still, its client gone
   "wrong", "right"} \* answered, not yet told to the throttle
Failure ==
  [count: Nat, last: 0..MaxTime, wait: 0..LongestWait, until: (0..(MaxTime + LongestWait)) \cup {None}]
Request == [phase: Phases, client: Clients \cup {None}]

NoneIsNothing == None \notin Clients /\ None \notin Request /\ None \notin Failure /\ None \notin Nat

TypeOK ==
  /\ time \in 0..MaxTime
  /\ request \in [Requests -> Request \cup {None}]
  /\ inFlight \in 0..(MaxInFlight + Cardinality(Requests))
  /\ shares \in [Clients -> 0..PerClient]
  /\ permits \in 0..Checks
  /\ failures \in [Clients -> Failure \cup {None}]
  /\ lastWait \in [Clients -> [wait: 0..LongestWait, ends: 0..(MaxTime + LongestWait)]]

Init ==
  /\ time = 0
  /\ request = [r \in Requests |-> None]
  /\ inFlight = 0 /\ shares = [c \in Clients |-> 0] /\ permits = Checks
  /\ failures = [c \in Clients |-> None]
  /\ lastWait = [c \in Clients |-> [wait |-> 0, ends |-> 0]]

In(r, phase) == request[r] # None /\ request[r].phase = phase
Goes(r, phase) == request' = [request EXCEPT ![r].phase = phase]
Ends(r) == request' = [request EXCEPT ![r] = None]

-----------------------------------------------------------------------------
(* Asked before anything is hashed.                                        *)
HeldBack(c) ==
  /\ c # None
  /\ failures[c] # None
  /\ failures[c].until # None
  /\ failures[c].until > time

(* ClientShare::take, unless the address waits or holds all it may.        *)
Ask(r, c) ==
  /\ request[r] = None /\ ~HeldBack(c)
  /\ c # None => shares[c] < PerClient
  /\ request' = [request EXCEPT ![r] = [phase |-> "admitted", client |-> c]]
  /\ shares' = [d \in Clients |-> shares[d] + (IF d = c THEN 1 ELSE 0)]
  /\ UNCHANGED <<time, inFlight, permits, failures, lastWait>>

GiveBack(r) == shares' = [d \in Clients |-> shares[d] - (IF d = request[r].client THEN 1 ELSE 0)]

(* fetch_add, which answers what was counted before it.                    *)
Count(r) ==
  /\ In(r, "admitted")
  /\ inFlight' = inFlight + 1
  /\ Goes(r, IF inFlight >= MaxInFlight THEN "over" ELSE "queued")
  /\ UNCHANGED <<time, shares, permits, failures, lastWait>>

RefuseBusy(r) ==
  /\ In(r, "over")
  /\ inFlight' = inFlight - 1
  /\ GiveBack(r)
  /\ Ends(r)
  /\ UNCHANGED <<time, permits, failures, lastWait>>

Check(r) ==
  /\ In(r, "queued") /\ permits > 0
  /\ permits' = permits - 1
  /\ Goes(r, "checking")
  /\ UNCHANGED <<time, inFlight, shares, failures, lastWait>>

(* Mutant: the guards go with the caller of a check already begun. *)
HangUpFreesAll(r) ==
  /\ In(r, "queued") \/ In(r, "checking")
  /\ inFlight' = inFlight - 1
  /\ permits' = permits + (IF In(r, "checking") THEN 1 ELSE 0)
  /\ GiveBack(r)
  /\ IF In(r, "checking") THEN Goes(r, "abandoned") ELSE Ends(r)
  /\ UNCHANGED <<time, failures, lastWait>>

(* The client hangs up: its future is dropped, with the guards it holds. A *)
(* check already begun goes on with them.                                  *)
HangUp(r) ==
  \/ /\ In(r, "queued")
     /\ inFlight' = inFlight - 1
     /\ GiveBack(r)
     /\ Ends(r)
     /\ UNCHANGED <<time, permits, failures, lastWait>>
  \/ /\ In(r, "checking")
     /\ Goes(r, "abandoned")
     /\ UNCHANGED <<time, places, failures, lastWait>>

(* The thread ends, by a panic too, and its guards with it.                *)
Checked(r) ==
  /\ In(r, "checking") \/ In(r, "abandoned")
  /\ inFlight' = inFlight - 1 /\ permits' = permits + 1
  /\ GiveBack(r)
  /\ IF In(r, "abandoned") THEN Ends(r) ELSE Goes(r, "wrong") \/ Goes(r, "right")
  /\ UNCHANGED <<time, failures, lastWait>>

-----------------------------------------------------------------------------
(* Mutant: the window runs from the failure, not from the end of its wait. *)
QuietSinceLast(f) == f.last

QuietSince(f) == IF f.until # None /\ f.until > f.last THEN f.until ELSE f.last

(* Those quiet for the window are forgotten, and the oldest when the table *)
(* is full, whoever failed now.                                            *)
Kept ==
  LET recent == {c \in Clients : failures[c] # None /\ time - QuietSince(failures[c]) < Window}
      Oldest(c) == \A d \in recent : QuietSince(failures[c]) <= QuietSince(failures[d])
  IN IF Cardinality(recent) < Remembered THEN {recent}
     ELSE {recent \ {c} : c \in {c \in recent : Oldest(c)}}

Failed(f) ==
  LET count == f.count + 1
      twice == IF 2 * f.wait < LongestWait THEN 2 * f.wait ELSE LongestWait
      wait == IF count < Allowed THEN f.wait ELSE IF f.wait = 0 THEN FirstWait ELSE twice
  IN [count |-> count, last |-> time, wait |-> wait,
      until |-> IF count < Allowed THEN f.until ELSE time + wait]
NoFailure == [count |-> 0, last |-> time, wait |-> 0, until |-> None]

(* A history of the waits: it begins again with a sign-in that went        *)
(* through or an address forgotten for want of room.                       *)
NoWait == [wait |-> 0, ends |-> 0]
Told(r) ==
  LET c == request[r].client IN
  \/ /\ In(r, "wrong") /\ c # None
     /\ \E kept \in Kept :
          LET f == Failed(IF c \in kept THEN failures[c] ELSE NoFailure)
              crowded == {d \in Clients : failures[d] # None /\ d \notin kept
                                          /\ time - QuietSince(failures[d]) < Window}
          IN /\ failures' = [d \in Clients |->
                   IF d = c THEN f ELSE IF d \in kept THEN failures[d] ELSE None]
             /\ lastWait' = [d \in Clients |->
                   IF d = c /\ f.count >= Allowed THEN [wait |-> f.wait, ends |-> f.until]
                   ELSE IF d \in crowded THEN NoWait ELSE lastWait[d]]
  \/ /\ In(r, "right") /\ c # None
     /\ failures' = [failures EXCEPT ![c] = None]
     /\ lastWait' = [lastWait EXCEPT ![c] = NoWait]
  \/ /\ In(r, "wrong") \/ In(r, "right")
     /\ c = None
     /\ UNCHANGED <<failures, lastWait>>

Tell(r) ==
  /\ Told(r)
  /\ Ends(r)
  /\ UNCHANGED <<time, places>>

Tick ==
  /\ time < MaxTime
  /\ time' = time + 1
  /\ UNCHANGED <<request, places, failures, lastWait>>

Next ==
  \/ \E r \in Requests :
       \/ \E c \in Clients \cup {None} : Ask(r, c)
       \/ Count(r) \/ RefuseBusy(r) \/ Check(r) \/ HangUp(r) \/ Checked(r) \/ Tell(r)
  \/ Tick

Spec == Init /\ [][Next]_vars

-----------------------------------------------------------------------------
(* What is counted is who is inside, whoever hung up: no more passwords    *)
(* are hashed at once than permits, and every place comes back (accounts.rs *)
(* verify).                                                                *)
PlacesAreHeld ==
  LET Inside(phases) == {r \in Requests : \E p \in phases : In(r, p)}
      holding == {"over", "queued", "checking", "abandoned"}
  IN /\ inFlight = Cardinality(Inside(holding))
     /\ permits = Checks - Cardinality(Inside({"checking", "abandoned"})) /\ permits >= 0
     /\ Cardinality(Inside({"queued", "checking", "abandoned"})) <= MaxInFlight
     /\ \A c \in Clients :
          shares[c] = Cardinality({r \in Inside(holding \cup {"admitted"}) : request[r].client = c})

(* A wait set is no shorter than the last one of the address, until it has *)
(* been quiet for the window after it (accounts.rs failed).                *)
NoWaitShrinks ==
  \A c \in Clients :
    LET last == lastWait[c] next == lastWait'[c] IN
    (next # last /\ next.wait # 0 /\ time - last.ends < Window) => next.wait >= last.wait
WaitsGrow == [][NoWaitShrinks]_vars
=============================================================================
