------------------------------ MODULE Unattended ------------------------------
(***************************************************************************)
(* The moves applied with nobody watching (services/auto_apply.rs), by the *)
(* work after a synchronisation (jobs/scheduler.rs) and by the delivery of *)
(* a webhook.                                                              *)
(*                                                                         *)
(* Only a title with no file may be moved that way. A pass chooses its     *)
(* candidates, waits for the apply lock, for minutes perhaps, and asks     *)
(* everything again before it applies: meanwhile a person may have         *)
(* switched it off, a rule test may fail, a download may have arrived, and *)
(* another simulation may have decided otherwise.                          *)
(***************************************************************************)
EXTENDS Integers, FiniteSets

CONSTANTS
  Titles,
  Instances,
  InstanceOf,  \* the instance of each title
  Passes,      \* the unattended passes that may be under way at once
  Cap,         \* batch_limit
  None,
  MaxChanges,  \* bound on what happens by other hands
  MaxPasses    \* bound on the passes

SomeMove == Cap \in Nat \ {0}
EachOfOneInstance == InstanceOf \in [Titles -> Instances]
FiniteLibrary == IsFiniteSet(Titles)

VARIABLES
  on,          \* auto_apply_enabled, and not global_dry_run
  testsPass,   \* what the rule tests would find
  filed,       \* the titles the Arr has a file of
  known,       \* those whose row says so
  answering,   \* the titles whose destination answered at the last look
  proposed,    \* the simulation of each title's pending proposal
  turn,        \* who holds the apply lock
  pass,        \* the passes
  heldBack,    \* auto_apply_held: the instances whose moves were too many
  changes, begun,
  moved        \* ghost: what the last pass to apply did

world == <<on, testsPass, filed, known, answering>>
vars == <<world, proposed, turn, pass, heldBack, changes, begun, moved>>

(* `filedBefore` and `offBefore` are ghosts: the files that had arrived    *)
(* when the turn came, and whether it was not allowed then and since.      *)
NoPass == [phase |-> "idle", scope |-> {}, of |-> {}, chosen |-> {}, kept |-> {}, over |-> {},
           filedBefore |-> {}, offBefore |-> FALSE]
Nothing == [by |-> None, titles |-> {}]
Person == "person"

(* eligible_decisions: of this simulation, pending, without a file by the  *)
(* row, to a destination that answered.                                    *)
Eligible(p, reachable) ==
  {t \in pass[p].of : proposed[t] = p /\ t \notin known /\ t \in reachable}

OfInstance(titles, i) == {t \in titles : InstanceOf[t] = i}

(* within_cap: an instance with too many of them gets none. *)
OverCap(titles) == {i \in Instances : Cardinality(OfInstance(titles, i)) > Cap}
WithinCap(titles) == {t \in titles : InstanceOf[t] \notin OverCap(titles)}

(* held_back: the verdict replaces those on the instances it covered.      *)
Verdict(p, over) == heldBack' = (heldBack \ pass[p].scope) \cup over

To(p, phase) == pass' = [pass EXCEPT ![p].phase = phase]

(* A guardrail's end, which leaves every verdict. *)
Held(p) == pass' = [pass EXCEPT ![p] = NoPass] /\ UNCHANGED heldBack

Done(p, over) == pass' = [pass EXCEPT ![p] = NoPass] /\ Verdict(p, over)

-----------------------------------------------------------------------------
(* A pass. *)

(* The simulation it follows stores its proposals in place of the pending. *)
Simulates(p, scope, titles) ==
  /\ pass[p] = NoPass
  /\ begun < MaxPasses
  /\ begun' = begun + 1
  /\ pass' = [pass EXCEPT ![p] = [NoPass EXCEPT !.phase = "simulated", !.scope = scope,
                                                !.of = titles]]
  /\ proposed' = [t \in Titles |-> IF t \in titles THEN p ELSE proposed[t]]
  /\ UNCHANGED <<world, turn, heldBack, changes, moved>>

(* The switches, the candidates, the rule tests, the cap: in that order. *)
Chooses(p) ==
  LET eligible == Eligible(p, answering) IN
  /\ pass[p].phase = "simulated"
  /\ \/ ~ on /\ Held(p)
     \/ on /\ eligible = {} /\ Done(p, {})
     \/ on /\ eligible # {} /\ ~ testsPass /\ Held(p)
     \/ /\ on /\ eligible # {} /\ testsPass
        /\ WithinCap(eligible) = {}
        /\ Done(p, OverCap(eligible))
     \/ /\ on /\ testsPass
        /\ WithinCap(eligible) # {}
        /\ pass' = [pass EXCEPT ![p].phase = "waiting",
                                ![p].chosen = WithinCap(eligible),
                                ![p].over = OverCap(eligible)]
        /\ UNCHANGED heldBack
  /\ UNCHANGED <<world, proposed, turn, changes, begun, moved>>

(* unattended_turn: the apply lock, or nothing past the wait. *)
TurnComes(p) ==
  /\ pass[p].phase = "waiting"
  /\ turn = None
  /\ turn' = p
  /\ pass' = [pass EXCEPT ![p].phase = "turn", ![p].filedBefore = filed,
                          ![p].offBefore = ~ on \/ ~ testsPass]
  /\ UNCHANGED <<world, proposed, heldBack, changes, begun, moved>>

TurnNotReached(p) ==
  /\ pass[p].phase = "waiting"
  /\ turn # None
  /\ Held(p)
  /\ UNCHANGED <<world, proposed, turn, changes, begun, moved>>

(* Mutant: nothing is asked again after the wait. *)
AsksNothing(p) ==
  /\ pass[p].phase = "turn"
  /\ To(p, "asked")
  /\ UNCHANGED <<world, proposed, turn, heldBack, changes, begun, moved>>

AsksAgain(p) ==
  /\ pass[p].phase = "turn"
  /\ IF on /\ testsPass
     THEN To(p, "asked") /\ UNCHANGED <<heldBack, turn>>
     ELSE Held(p) /\ turn' = None
  /\ UNCHANGED <<world, proposed, changes, begun, moved>>

(* Mutant: whatever is eligible by now. *)
ChosenAnew(p, reachable) == Eligible(p, reachable)

(* Those chosen that still are. *)
StillChosen(p, reachable) == pass[p].chosen \cap Eligible(p, reachable)

(* The root folders are read again, then the candidates that still are. *)
ChoosesAgain(p) ==
  /\ pass[p].phase = "asked"
  /\ \E now \in SUBSET Titles :
       /\ answering' = (answering \ pass[p].chosen) \cup (now \cap pass[p].chosen)
       /\ pass' = [pass EXCEPT
                     ![p].phase = "reading",
                     ![p].chosen = StillChosen(p, answering')]
  /\ UNCHANGED <<on, testsPass, filed, known, proposed, turn, heldBack, changes, begun, moved>>

(* still_without_files: each is read at the Arr, which may not answer. *)
ReadsOne(p) ==
  /\ pass[p].phase = "reading"
  /\ \E t \in pass[p].chosen :
       pass' = [pass EXCEPT ![p].chosen = @ \ {t},
                            ![p].kept = IF t \in filed THEN @ ELSE @ \cup {t}]
  /\ UNCHANGED <<world, proposed, turn, heldBack, changes, begun, moved>>

ReadFails(p) ==
  /\ pass[p].phase = "reading"
  /\ \E t \in pass[p].chosen : pass' = [pass EXCEPT ![p].chosen = @ \ {t}]
  /\ UNCHANGED <<world, proposed, turn, heldBack, changes, begun, moved>>

NoneLeft(p) ==
  /\ pass[p].phase = "reading"
  /\ pass[p].chosen = {}
  /\ pass[p].kept = {}
  /\ Done(p, pass[p].over)
  /\ turn' = None
  /\ UNCHANGED <<world, proposed, changes, begun, moved>>

(* apply_unattended: the proposals still pending of those kept, unless it  *)
(* fails on the way. Executor has the moves.                               *)
Applies(p) ==
  LET going == {t \in pass[p].kept : proposed[t] = p} IN
  /\ pass[p].phase = "reading"
  /\ pass[p].chosen = {}
  /\ pass[p].kept # {}
  /\ \/ /\ on
        /\ moved' = [by |-> p, titles |-> going]
        /\ proposed' = [t \in Titles |-> IF t \in going THEN None ELSE proposed[t]]
        /\ Done(p, pass[p].over)
     \/ Held(p) /\ UNCHANGED <<moved, proposed>>
  /\ turn' = None
  /\ UNCHANGED <<world, changes, begun>>

-----------------------------------------------------------------------------
(* The others. *)

Other == changes < MaxChanges /\ changes' = changes + 1

AllowedAgain(allowed) ==
  [p \in Passes |-> IF allowed THEN [pass[p] EXCEPT !.offBefore = FALSE] ELSE pass[p]]

Switch ==
  /\ Other
  /\ on' = ~ on
  /\ pass' = AllowedAgain(on' /\ testsPass)
  /\ UNCHANGED <<testsPass, filed, known, answering, proposed, turn, heldBack, begun, moved>>

RuleChanges ==
  /\ Other
  /\ testsPass' = ~ testsPass
  /\ pass' = AllowedAgain(on /\ testsPass')
  /\ UNCHANGED <<on, filed, known, answering, proposed, turn, heldBack, begun, moved>>

FileArrives(t) ==
  /\ Other
  /\ t \notin filed
  /\ filed' = filed \cup {t}
  /\ UNCHANGED <<on, testsPass, known, answering, proposed, turn, pass, heldBack, begun, moved>>

(* A synchronisation of the title and of where its folders answer. *)
Synced(t) ==
  /\ Other
  /\ known' = IF t \in filed THEN known \cup {t} ELSE known \ {t}
  /\ answering' \in {answering \cup {t}, answering \ {t}}
  /\ UNCHANGED <<on, testsPass, filed, proposed, turn, pass, heldBack, begun, moved>>

(* A person applies the title's proposal, or pins it. *)
PersonDecides(t) ==
  /\ proposed[t] # None
  /\ turn = None
  /\ Other
  /\ proposed' = [proposed EXCEPT ![t] = None]
  /\ turn' \in {None, Person}
  /\ UNCHANGED <<world, pass, heldBack, begun, moved>>

PersonDone ==
  /\ turn = Person
  /\ turn' = None
  /\ UNCHANGED <<world, proposed, pass, heldBack, changes, begun, moved>>

Init ==
  /\ on = TRUE
  /\ testsPass = TRUE
  /\ filed = {}
  /\ known = {}
  /\ answering = Titles
  /\ proposed = [t \in Titles |-> None]
  /\ turn = None
  /\ pass = [p \in Passes |-> NoPass]
  /\ heldBack = {}
  /\ changes = 0
  /\ begun = 0
  /\ moved = Nothing

Next ==
  \/ \E p \in Passes :
       \/ Simulates(p, Instances, Titles)
       \/ \E t \in Titles : Simulates(p, {InstanceOf[t]}, {t})
       \/ Chooses(p) \/ TurnComes(p) \/ TurnNotReached(p) \/ AsksAgain(p)
       \/ ChoosesAgain(p) \/ ReadsOne(p) \/ ReadFails(p) \/ NoneLeft(p) \/ Applies(p)
  \/ Switch \/ RuleChanges \/ PersonDone
  \/ \E t \in Titles : FileArrives(t) \/ Synced(t) \/ PersonDecides(t)

Spec == Init /\ [][Next]_vars

-----------------------------------------------------------------------------
TypeOK ==
  /\ filed \subseteq Titles
  /\ known \subseteq Titles
  /\ answering \subseteq Titles
  /\ proposed \in [Titles -> Passes \cup {None}]
  /\ turn \in Passes \cup {None, Person}
  /\ heldBack \subseteq Instances

(* Nothing moves unattended that had a file when the pass got its turn, or *)
(* when moves were switched off or a rule test failed by then: what was    *)
(* chosen before the wait is asked again after it (decide).                *)
MovesAsAsked ==
  \A p \in Passes :
    moved' # moved /\ moved'.by = p
    => /\ moved'.titles \cap pass[p].filedBefore = {}
       /\ pass[p].offBefore => moved'.titles = {}
MovedAsAskedAtTheTurn == [][MovesAsAsked]_vars

(* One pass moves no more titles of an instance than the cap, though more  *)
(* of them became eligible while it waited (within_cap).                   *)
MovedWithinCap ==
  \A i \in Instances : Cardinality(OfInstance(moved.titles, i)) <= Cap
=============================================================================
