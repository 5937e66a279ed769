-------------------------------- MODULE Pacing --------------------------------
(***************************************************************************)
(* The pace of the requests to one metadata source                         *)
(* (services/rate_limit.rs): a bucket of tokens that goes negative, so     *)
(* that each caller is told its own instant, and sleeps until then outside *)
(* the lock. A refusal of the source moves the last refill into the        *)
(* future, and the limit it states retunes the rate, while callers sleep   *)
(* towards instants they were given before.                                *)
(*                                                                         *)
(* A token is counted in parts, of which `rate` come back per unit of      *)
(* time; no rate gives back more than a token per unit.                    *)
(***************************************************************************)
EXTENDS Integers, FiniteSets, FiniteSetsExt

CONSTANTS
  Callers,
  Capacity,      \* the burst an idle bucket holds, in tokens
  Token,         \* the parts of a token
  Rates, FirstRate, Fastest,  \* the parts that come back per unit: those stated, at first, at most
  FirstBackOff, MaxHold,
  Delays,        \* the waits a source may name
  Deadlines,     \* how far off the deadline of a caller with one may be
  MaxTime,       \* bound on the clock
  MaxQueued      \* bound on the tokens owed when a caller comes

SomeBurst == Capacity \in Nat \ {0}
HoldsAreBounded ==
  FirstBackOff \in Nat \ {0} /\ MaxHold \in Nat \ {0} /\ \A d \in Delays : d \in 1..MaxHold
RatesAreNumbers ==
  /\ Token \in Nat \ {0} /\ Fastest \in 1..Token
  /\ FirstRate \in 1..Fastest /\ Rates \subseteq 1..Fastest
TimesAreNumbers == MaxTime \in Nat /\ MaxQueued \in Nat /\ Deadlines \subseteq Nat

VARIABLES
  time,
  tokens,        \* in parts; negative: requests are queued ahead
  refilled,      \* last_refill
  rate,
  backOff,       \* back_off
  caller,        \* the callers: asleep until an instant, about to give a turn back, sent
                 \* back in line, or with their request out
  heldUntil,     \* ghost: the end of the longest hold placed
  told,          \* ghost: how many were given an instant that is no earlier than each
  latest,        \* ghost: the last instant given
  crossed,       \* ghost: a token was taken while another was about to be given back
  quickened      \* ghost: the rate was raised while requests were queued ahead

bucket == <<tokens, refilled, rate, backOff>>
turns == <<told, latest, crossed, quickened>>
vars == <<time, bucket, caller, heldUntil, turns>>

NoDeadline == -1
Idle == [phase |-> "idle", until |-> 0, by |-> NoDeadline]

(* A caller's request goes out now. *)
Goes(c) == caller' = [caller EXCEPT ![c] = [Idle EXCEPT !.phase = "out"]]

(* Mutant: an idle bucket fills past its burst. *)
RefillUncapped ==
  IF time > refilled THEN [tokens |-> tokens + rate * (time - refilled), at |-> time]
  ELSE [tokens |-> tokens, at |-> refilled]

(* reserve: what came back since the last refill, at the rate of now; then *)
(* a token taken, and the instant at which what is owed will be back.      *)
Refill ==
  IF time > refilled
  THEN [tokens |-> Min({tokens + rate * (time - refilled), Capacity * Token}), at |-> time]
  ELSE [tokens |-> tokens, at |-> refilled]
Wait(left) == IF left >= 0 THEN 0 ELSE (rate - 1 - left) \div rate

(* An instant given for good. *)
Tells(turn) ==
  /\ told' = [t \in 0..MaxTime |-> IF t <= turn THEN told[t] + 1 ELSE told[t]]
  /\ latest' = turn

(* A turn past the deadline of its caller (acquire_by).                    *)
TooLate(turn, by) == by # NoDeadline /\ turn > by

(* acquire, and acquire_by. *)
Acquires(c, by) ==
  LET left == Refill.tokens - Token
      turn == Refill.at + Wait(left)
      Sleeps(phase) ==
        caller' = [caller EXCEPT ![c] = [phase |-> phase, until |-> turn, by |-> by]]
  IN /\ refilled' = Refill.at
     /\ tokens' = left
     /\ crossed' = (crossed \/ \E d \in Callers \ {c} : caller[d].phase = "late")
     /\ \/ turn <= time /\ Goes(c) /\ Tells(turn)
        \/ turn > time /\ ~ TooLate(turn, by) /\ Sleeps("asleep") /\ Tells(turn)
        \/ turn > time /\ TooLate(turn, by) /\ Sleeps("late") /\ UNCHANGED <<told, latest>>
     /\ UNCHANGED <<time, rate, backOff, heldUntil, quickened>>

Asks(c) ==
  /\ caller[c] = Idle
  /\ Refill.tokens > - MaxQueued * Token
  /\ \E by \in {NoDeadline} \cup {time + d : d \in Deadlines} : Acquires(c, by)

(* The turn goes back under the lock taken once more. *)
GivesBack(c) ==
  /\ caller[c].phase = "late"
  /\ tokens' = tokens + Token
  /\ caller' = [caller EXCEPT ![c] = Idle]
  /\ UNCHANGED <<time, refilled, rate, backOff, heldUntil, turns>>

(* Mutant: a caller goes out at the instant it was given. *)
WakesAnyway(c) ==
  /\ caller[c].phase = "asleep"
  /\ caller[c].until <= time
  /\ Goes(c)
  /\ UNCHANGED <<time, bucket, heldUntil, turns>>

(* A hold placed while it slept sends it back in line. *)
Wakes(c) ==
  /\ caller[c].phase = "asleep"
  /\ caller[c].until <= time
  /\ IF refilled <= time THEN Goes(c)
     ELSE caller' = [caller EXCEPT ![c].phase = "again"]
  /\ UNCHANGED <<time, bucket, heldUntil, turns>>

AsksAgain(c) == caller[c].phase = "again" /\ Acquires(c, caller[c].by)

(* The future is dropped while it slept or waited for the lock: its token  *)
(* stays taken.                                                            *)
Dropped(c) ==
  /\ caller[c].phase \in {"asleep", "late", "again"}
  /\ caller' = [caller EXCEPT ![c] = Idle]
  /\ UNCHANGED <<time, bucket, heldUntil, turns>>

-----------------------------------------------------------------------------
(* The answers. *)

(* hold: only ever extended. *)
Hold(until) ==
  /\ IF until > refilled
     THEN refilled' = until /\ tokens' = Min({tokens, Token})
     ELSE UNCHANGED <<refilled, tokens>>
  /\ heldUntil' = Max({heldUntil, until})

Answered(c) ==
  /\ caller[c].phase = "out"
  /\ caller' = [caller EXCEPT ![c] = Idle]

Said(c) ==
  /\ Answered(c)
  /\ backOff' = FirstBackOff
  /\ UNCHANGED <<time, tokens, refilled, rate, heldUntil, turns>>

(* penalise: the source named its wait. *)
ToldToWait(c) ==
  /\ Answered(c)
  /\ \E d \in Delays : Hold(time + d)
  /\ UNCHANGED <<time, rate, backOff, turns>>

(* back_off: it named none. *)
RefusedAsTooMany(c) ==
  /\ Answered(c)
  /\ IF refilled > time
     THEN UNCHANGED <<bucket, heldUntil>>
     ELSE /\ Hold(time + backOff)
          /\ backOff' = Min({2 * backOff, MaxHold})
          /\ UNCHANGED rate
  /\ UNCHANGED <<time, turns>>

Failed(c) ==
  /\ Answered(c)
  /\ UNCHANGED <<time, bucket, heldUntil, turns>>

(* follow: the rate, what remains (the whole burst where it says nothing   *)
(* of it), and the reset once nothing does.                                *)
Stated(stated, remaining, wait) ==
  /\ \E c \in Callers : caller[c].phase = "out"
  /\ rate' = stated
  /\ quickened' = (quickened \/ (stated > rate /\ tokens < 0))
  /\ LET left == Min({tokens, remaining * Token}) IN
     IF remaining = 0 /\ time + wait > refilled
     THEN /\ refilled' = time + wait
          /\ tokens' = Min({left, Token})
          /\ heldUntil' = Max({heldUntil, time + wait})
     ELSE tokens' = left /\ UNCHANGED <<refilled, heldUntil>>
  /\ UNCHANGED <<time, backOff, caller, told, latest, crossed>>

(* Nobody that sleeps is woken in time for certain. *)
Tick ==
  /\ time < MaxTime
  /\ time' = time + 1
  /\ UNCHANGED <<bucket, caller, heldUntil, turns>>

Init ==
  /\ time = 0
  /\ tokens = Capacity * Token
  /\ refilled = 0
  /\ rate = FirstRate
  /\ backOff = FirstBackOff
  /\ caller = [c \in Callers |-> Idle]
  /\ heldUntil = 0
  /\ told = [t \in 0..MaxTime |-> 0]
  /\ latest = 0
  /\ crossed = FALSE
  /\ quickened = FALSE

Next ==
  \/ \E c \in Callers :
       Asks(c) \/ GivesBack(c) \/ Wakes(c) \/ AsksAgain(c) \/ Dropped(c)
       \/ Said(c) \/ ToldToWait(c) \/ RefusedAsTooMany(c) \/ Failed(c)
  \/ \E stated \in Rates \cup {rate}, remaining \in 0..Capacity, wait \in Delays :
       Stated(stated, remaining, wait)
  \/ Tick

Spec == Init /\ [][Next]_vars

-----------------------------------------------------------------------------
TypeOK ==
  /\ time \in 0..MaxTime
  /\ tokens \in Int
  /\ refilled \in 0..(MaxTime + MaxHold)
  /\ rate \in 1..Fastest
  /\ backOff \in 1..MaxHold
  /\ \A c \in Callers : caller[c].phase \in {"idle", "asleep", "late", "again", "out"}
  /\ told \in [0..MaxTime -> Nat] /\ latest \in Nat
  /\ crossed \in BOOLEAN /\ quickened \in BOOLEAN

(* Nothing goes out while the source has everything held back, a caller    *)
(* that was given its instant before the hold included (acquire).          *)
Waited ==
  (\E c \in Callers : caller[c].phase # "out" /\ caller'[c].phase = "out") => time >= heldUntil
NoneOutDuringAHold == [][Waited]_vars

(* Each waiter is told a different instant (reserve), unless a token was   *)
(* taken while another was about to be given back, or the rate was raised  *)
(* while requests were queued ahead (follow).                              *)
DifferentInstants ==
  ~ crossed /\ ~ quickened =>
    \A c, d \in Callers :
      c # d /\ caller[c].phase = "asleep" /\ caller[d].phase = "asleep"
        => caller[c].until # caller[d].until

(* However callers come, hang up, wake late or are held, and whatever rate *)
(* is stated, no more of them are given an instant of any stretch of time  *)
(* than the burst and what comes back in it at the fastest rate, under the *)
(* same.                                                                   *)
PaceKept ==
  ~ crossed /\ ~ quickened =>
    \A from \in 0..MaxTime :
      from <= latest => Token * told[from] <= Token * Capacity + Fastest * (latest - from + 1)
=============================================================================
