-------------------------------- MODULE Turns --------------------------------
(***************************************************************************)
(* What the job registry promises of the lock on one key: one task holds   *)
(* it, and those that wait for it take it first come first served, unless  *)
(* they quit the line (the module comment of jobs/registry.rs).            *)
(***************************************************************************)
CONSTANTS Tasks, None

VARIABLES
  holder,   \* the task running under the key
  line,     \* those waiting for it
  before    \* for each of them, the others that came before it

Init ==
  /\ holder = None
  /\ line = {}
  /\ before = [t \in Tasks |-> {}]

(* t is out of the line, and of the way of those behind it. *)
Without(t) ==
  /\ line' = line \ {t}
  /\ before' = [u \in Tasks |-> IF u = t THEN {} ELSE before[u] \ {t}]

Join(t) ==
  /\ t \notin line
  /\ t # holder
  /\ line' = line \cup {t}
  /\ before' = [before EXCEPT ![t] = line]
  /\ UNCHANGED holder

(* Nobody came before t: it is first in the line, or the line is empty. *)
Enter(t) ==
  /\ holder = None
  /\ IF t \in line THEN before[t] = {} ELSE line = {}
  /\ holder' = t
  /\ Without(t)

Quit(t) ==
  /\ t \in line
  /\ Without(t)
  /\ UNCHANGED holder

Leave(t) ==
  /\ holder = t
  /\ holder' = None
  /\ UNCHANGED <<line, before>>

Next == \E t \in Tasks : Join(t) \/ Enter(t) \/ Quit(t) \/ Leave(t)

Spec == Init /\ [][Next]_<<holder, line, before>>
=============================================================================
