---------------------------- MODULE Notifications ----------------------------
(***************************************************************************)
(* The notifications of one installation (services/notify.rs), each on a   *)
(* task of its own, sent to the webhook one at a time and tried again when *)
(* it does not answer. The address and the secrets may change between two  *)
(* attempts, and a restart loses what had not been sent.                   *)
(***************************************************************************)
EXTENDS Integers, Sequences, FiniteSets, SequencesExt

CONSTANTS
  Events,      \* what there is to say
  MaxPending,  \* the permits of Queue.pending
  Retries,     \* how many RETRIES there are
  Addresses,   \* the addresses a webhook is given in turn
  None,
  MaxEdits     \* bound on the changes of the settings

SomePending == MaxPending \in Nat \ {0}
SomeRetries == Retries \in Nat

VARIABLES
  said,      \* the task of each event: what it is at
  attempts,  \* how many attempts each has made
  turns,     \* the queue of the lock `turn`, the first holding it
  address,   \* notification_webhook_url
  secrets,   \* webhook_secrets, newest first, and whether each can be opened
  sending,   \* the attempt under way: what it read
  received,  \* ghost: what reached a receiver
  edited

settings == <<address, secrets>>
vars == <<said, attempts, turns, settings, sending, received, edited>>

NoAttempt == [event |-> None, to |-> None, keys |-> {}]

Pending == {e \in Events : said[e] \in {"pending", "waiting"}}

(* send_later: a task of its own. *)
Happens(e) ==
  /\ said[e] = "unsaid"
  /\ said' = [said EXCEPT ![e] = "begun"]
  /\ UNCHANGED <<attempts, turns, settings, sending, received, edited>>

(* send: a permit or nothing, then a place in line for the turn. *)
Queues(e) ==
  /\ said[e] = "begun"
  /\ IF address = None \/ Cardinality(Pending) >= MaxPending
     THEN said' = [said EXCEPT ![e] = "over"] /\ UNCHANGED turns
     ELSE said' = [said EXCEPT ![e] = "pending"] /\ turns' = Append(turns, e)
  /\ UNCHANGED <<attempts, settings, sending, received, edited>>

Over(e) ==
  /\ said' = [said EXCEPT ![e] = "over"]
  /\ turns' = Tail(turns)

(* signing_keys: the newest and the one it replaced, or none; None when    *)
(* the newest cannot be opened.                                            *)
Newest(n) == SubSeq(secrets, 1, Min({n, Len(secrets)}))
Unreadable == secrets # <<>> /\ ~ Head(secrets).readable
Keys == {s.key : s \in {r \in ToSet(Newest(2)) : r.readable}}

(* Mutant: an event waits, its turn kept, until there is an address. *)
AttemptsOnceSet(e) ==
  /\ said[e] \in {"pending", "waiting"}
  /\ Head(turns) = e
  /\ sending = NoAttempt
  /\ address # None
  /\ sending' = [event |-> e, to |-> address, keys |-> Keys]
  /\ attempts' = [attempts EXCEPT ![e] = @ + 1]
  /\ UNCHANGED <<said, turns, settings, received, edited>>

(* An attempt reads the address and the secrets anew. *)
Attempts(e) ==
  /\ said[e] \in {"pending", "waiting"}
  /\ Head(turns) = e
  /\ sending = NoAttempt
  /\ IF address = None \/ Unreadable
     THEN Over(e) /\ UNCHANGED <<sending, attempts>>
     ELSE /\ sending' = [event |-> e, to |-> address, keys |-> Keys]
          /\ attempts' = [attempts EXCEPT ![e] = @ + 1]
          /\ UNCHANGED <<said, turns>>
  /\ UNCHANGED <<settings, received, edited>>

Arrived == Append(received, sending.event)

Delivered ==
  /\ sending # NoAttempt
  /\ received' = Arrived
  /\ Over(sending.event)
  /\ sending' = NoAttempt
  /\ UNCHANGED <<attempts, settings, edited>>

(* A refusal no retry clears. *)
Refused ==
  /\ sending # NoAttempt
  /\ Over(sending.event)
  /\ sending' = NoAttempt
  /\ UNCHANGED <<attempts, settings, received, edited>>

(* Mutant: an event to try again goes to the end of the queue. *)
FailedToTheEnd ==
  /\ sending # NoAttempt
  /\ received' \in {received, Arrived}
  /\ IF attempts[sending.event] > Retries
     THEN Over(sending.event)
     ELSE /\ said' = [said EXCEPT ![sending.event] = "waiting"]
          /\ turns' = Append(Tail(turns), sending.event)
  /\ sending' = NoAttempt
  /\ UNCHANGED <<attempts, settings, edited>>

(* No answer, which may have been lost on its way back. *)
Failed ==
  /\ sending # NoAttempt
  /\ received' \in {received, Arrived}
  /\ IF attempts[sending.event] > Retries
     THEN Over(sending.event)
     ELSE said' = [said EXCEPT ![sending.event] = "waiting"] /\ UNCHANGED turns
  /\ sending' = NoAttempt
  /\ UNCHANGED <<attempts, settings, edited>>

-----------------------------------------------------------------------------
Edit == edited < MaxEdits /\ edited' = edited + 1

AddressSet ==
  /\ Edit
  /\ \E a \in Addresses \cup {None} : a # address /\ address' = a
  /\ UNCHANGED <<said, attempts, turns, secrets, sending, received>>

(* rotate_signing_secret: the one before the last had its day. *)
SecretRotated ==
  /\ Edit
  /\ secrets' = <<[key |-> edited, readable |-> TRUE]>> \o Newest(1)
  /\ UNCHANGED <<said, attempts, turns, address, sending, received>>

(* A day passes, or a restore left a master key that opens none of them.   *)
SecretAges ==
  /\ Edit
  /\ Len(secrets) = 2
  /\ secrets' = Newest(1)
  /\ UNCHANGED <<said, attempts, turns, address, sending, received>>

SecretsLost ==
  /\ Edit
  /\ secrets # <<>>
  /\ secrets' = [i \in DOMAIN secrets |-> [secrets[i] EXCEPT !.readable = FALSE]]
  /\ UNCHANGED <<said, attempts, turns, address, sending, received>>

SecretsRemoved ==
  /\ Edit
  /\ secrets # <<>>
  /\ secrets' = <<>>
  /\ UNCHANGED <<said, attempts, turns, address, sending, received>>

Restart ==
  /\ Edit
  /\ said' = [e \in Events |-> IF said[e] = "unsaid" THEN "unsaid" ELSE "over"]
  /\ turns' = <<>>
  /\ sending' = NoAttempt
  /\ UNCHANGED <<attempts, settings, received>>

Init ==
  /\ said = [e \in Events |-> "unsaid"]
  /\ attempts = [e \in Events |-> 0]
  /\ turns = <<>>
  /\ address \in Addresses
  /\ secrets = <<>>
  /\ sending = NoAttempt
  /\ received = <<>>
  /\ edited = 0

EventStep(e) == Queues(e) \/ Attempts(e)
AttemptEnds == Delivered \/ Refused \/ Failed

Next ==
  \/ \E e \in Events : Happens(e) \/ EventStep(e)
  \/ AttemptEnds
  \/ AddressSet \/ SecretRotated \/ SecretAges \/ SecretsLost \/ SecretsRemoved
  \/ Restart

Spec == Init /\ [][Next]_vars

(* A task goes on, a request ends within its timeout, and a wait within    *)
(* its delay.                                                              *)
FairSpec ==
  /\ Spec
  /\ \A e \in Events : WF_vars(EventStep(e))
  /\ WF_vars(AttemptEnds)

-----------------------------------------------------------------------------
TypeOK ==
  /\ said \in [Events -> {"unsaid", "begun", "pending", "waiting", "over"}]
  /\ attempts \in [Events -> 0..(Retries + 1)]
  /\ ToSet(turns) \subseteq Events
  /\ address \in Addresses \cup {None}
  /\ sending.event \in Events \cup {None}

(* An event still being tried again is not overtaken: between the first    *)
(* time it arrived and the last, nothing else did (Queue.turn).            *)
NoneOvertakesARetry ==
  \A i, j, k \in DOMAIN received :
    i < j /\ j < k /\ received[i] = received[k] => received[j] = received[i]

(* Every event is delivered or given up: the queue drains, however long a  *)
(* receiver does not answer.                                               *)
EveryEventEnds == \A e \in Events : said[e] = "begun" ~> said[e] = "over"
=============================================================================
