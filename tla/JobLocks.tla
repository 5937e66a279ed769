------------------------------ MODULE JobLocks ------------------------------
(***************************************************************************)
(* The lock the job registry keeps for one key (jobs/registry.rs): a       *)
(* semaphore of one permit, taken at once or waited for within a budget.   *)
(*                                                                         *)
(* The permit of a finished task goes to the first of the queue before     *)
(* that one runs again. In between it is neither free nor held, and the    *)
(* task it was given to may be gone when it would have woken: its caller   *)
(* hung up, and its future was dropped with the permit in it.              *)
(***************************************************************************)
EXTENDS Naturals

CONSTANTS Tasks, None

ASSUME NoneIsNoTask == None \notin Tasks

VARIABLES
  permits,  \* the free permits of the semaphore
  queue,    \* the futures waiting in it
  ahead,    \* for each of them, those queued before it
  given,    \* the futures woken with a permit, not yet polled
  running   \* the tasks holding a JobLock

vars == <<permits, queue, ahead, given, running>>

Out(t) == t \notin queue \cup given \cup running

Init ==
  /\ permits = 1
  /\ queue = {}
  /\ ahead = [t \in Tasks |-> {}]
  /\ given = {}
  /\ running = {}

(* try_lock: the permit if it is free, and nothing else. *)
TryLock(t) ==
  /\ Out(t)
  /\ permits > 0
  /\ permits' = permits - 1
  /\ running' = running \cup {t}
  /\ UNCHANGED <<queue, ahead, given>>

(* lock_within: the permit if it is free, or a place at the queue's end. *)
LockWithin(t) ==
  /\ Out(t)
  /\ IF permits > 0
     THEN /\ permits' = permits - 1
          /\ running' = running \cup {t}
          /\ UNCHANGED <<queue, ahead>>
     ELSE /\ queue' = queue \cup {t}
          /\ ahead' = [ahead EXCEPT ![t] = queue]
          /\ UNCHANGED <<permits, running>>
  /\ UNCHANGED given

(* A woken future is polled, and has the lock. The budget is looked at     *)
(* after the permit, so a budget that ended in between takes nothing back. *)
Wakes(t) ==
  /\ t \in given
  /\ given' = given \ {t}
  /\ running' = running \cup {t}
  /\ UNCHANGED <<permits, queue, ahead>>

(* Mutant: the permit goes to any of the queue. *)
BackToAny(woken) ==
  IF queue = {}
  THEN permits' = permits + 1 /\ given' = woken /\ UNCHANGED <<queue, ahead>>
  ELSE /\ \E t \in queue :
            /\ queue' = queue \ {t}
            /\ ahead' = [u \in Tasks |-> IF u = t THEN {} ELSE ahead[u] \ {t}]
            /\ given' = woken \cup {t}
       /\ UNCHANGED permits

(* A permit comes back, to the first in the queue when there is one. *)
Back(woken) ==
  IF queue = {}
  THEN /\ permits' = permits + 1
       /\ given' = woken
       /\ UNCHANGED <<queue, ahead>>
  ELSE /\ \E t \in queue :
            /\ ahead[t] = {}
            /\ queue' = queue \ {t}
            /\ ahead' = [u \in Tasks |-> IF u = t THEN {} ELSE ahead[u] \ {t}]
            /\ given' = woken \cup {t}
       /\ UNCHANGED permits

(* The budget ends, or the caller hangs up, with no permit given yet. *)
GivesUp(t) ==
  /\ t \in queue
  /\ queue' = queue \ {t}
  /\ ahead' = [u \in Tasks |-> IF u = t THEN {} ELSE ahead[u] \ {t}]
  /\ UNCHANGED <<permits, given, running>>

(* The caller hangs up once the permit is on its way to it. *)
HangsUp(t) ==
  /\ t \in given
  /\ Back(given \ {t})
  /\ UNCHANGED running

(* The JobLock is dropped: the task ended, or panicked. *)
Release(t) ==
  /\ t \in running
  /\ running' = running \ {t}
  /\ Back(given)

Next ==
  \E t \in Tasks :
     TryLock(t) \/ LockWithin(t) \/ Wakes(t) \/ GivesUp(t) \/ HangsUp(t) \/ Release(t)

Spec == Init /\ [][Next]_vars

-----------------------------------------------------------------------------
TypeOK ==
  /\ permits \in Nat
  /\ queue \subseteq Tasks
  /\ ahead \in [Tasks -> SUBSET Tasks]
  /\ given \subseteq Tasks
  /\ running \subseteq Tasks

(* The line seen from outside: a future given the permit is first in it    *)
(* until it is polled.                                                     *)
holder == IF running = {} THEN None ELSE CHOOSE t \in Tasks : t \in running
line == queue \cup given
before == [t \in Tasks |-> IF t \in queue THEN ahead[t] \cup given ELSE {}]

Line == INSTANCE Turns

(* The registry's lock is the line it promises: one task at a time, first  *)
(* come first served, whoever gives up or hangs up.                        *)
KeepsTurns == Line!Spec
=============================================================================
