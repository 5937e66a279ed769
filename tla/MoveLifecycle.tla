---------------------------- MODULE MoveLifecycle ----------------------------
(***************************************************************************)
(* What Routarr promises of the life of one decision, whatever runs,       *)
(* syncs, crashes and lost answers interleave: a move is sent once, from   *)
(* the proposal it is; it is called back only when it was made; one given  *)
(* up or undone is never sent again; and nothing is on its way to the Arr  *)
(* that the decision did not turn sent, or recalled, in the same step.     *)
(*                                                                         *)
(* Executor implements this specification.                                 *)
(***************************************************************************)
CONSTANTS
  Decisions,    \* the decisions
  Messages,     \* the requests the Arr may be sent
  MoveOf        \* the decision each request is about

VARIABLES
  life,         \* how far each decision is
  wire          \* the requests on their way

States == {"none", "proposed", "sent", "made", "failed", "recalled", "undone"}

\* How a decision may end. One recalled that a settle still takes for sent, its
\* row read before, may be failed; and one that has ended already is written
\* again by such a settle.
Outcomes(state) ==
  CASE state = "sent" -> {"made", "failed"}
    [] state = "recalled" -> {"undone", "made", "failed"}
    [] state \in {"made", "undone"} -> {"made", "failed"}
    [] OTHER -> {}

Init ==
  /\ life = [d \in Decisions |-> "none"]
  /\ wire = {}

Propose(d) ==
  /\ life[d] = "none"
  /\ life' = [life EXCEPT ![d] = "proposed"]
  /\ UNCHANGED wire

\* Recorded and sent at once.
Send(d, m) ==
  /\ life[d] = "proposed"
  /\ MoveOf[m] = d
  /\ life' = [life EXCEPT ![d] = "sent"]
  /\ wire' = wire \cup {m}

Recall(d, m) ==
  /\ life[d] = "made"
  /\ MoveOf[m] = d
  /\ life' = [life EXCEPT ![d] = "recalled"]
  /\ wire' = wire \cup {m}

\* Proposals failed before they were sent: their instance is not there, or the
\* record failed.
GiveUp(ds) ==
  /\ \A d \in ds : life[d] = "proposed"
  /\ life' = [d \in Decisions |-> IF d \in ds THEN "failed" ELSE life[d]]
  /\ UNCHANGED wire

Settle(d, state) ==
  /\ state \in Outcomes(life[d])
  /\ life' = [life EXCEPT ![d] = state]
  /\ UNCHANGED wire

\* The Arr takes a request, or it is lost.
Arrive(m) ==
  /\ m \in wire
  /\ wire' = wire \ {m}
  /\ UNCHANGED life

Next ==
  \/ \E d \in Decisions :
       \/ Propose(d)
       \/ \E m \in Messages : Send(d, m) \/ Recall(d, m)
       \/ \E state \in States : Settle(d, state)
  \/ \E ds \in SUBSET Decisions : GiveUp(ds)
  \/ \E m \in Messages : Arrive(m)

Spec == Init /\ [][Next]_<<life, wire>>
=============================================================================
