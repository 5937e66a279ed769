------------------------------ MODULE Proposals ------------------------------
(***************************************************************************)
(* The simulations that are stored (services/routing.rs): what each title  *)
(* was last decided, in media_routing, and the proposals still pending.    *)
(*                                                                         *)
(* Several runs read and store at once: a webhook's of one title beside a  *)
(* whole library's. Each is given an order when it starts, and a title     *)
(* keeps the decision of the largest one. The order comes from the clock,  *)
(* which may be set back, and outlives neither a restart nor the restore   *)
(* of an archive whose rows hold larger ones.                              *)
(***************************************************************************)
EXTENDS Integers, FiniteSets, FiniteSetsExt

CONSTANTS
  Media,      \* the ids of the media rows
  Runs,       \* the simulations that may be under way at once
  LibraryPasses, \* MAX_CONCURRENT_LIBRARY_PASSES
  None,
  MaxClock,   \* bound on the clock
  MaxOrder,   \* bound on the orders runs start with
  MaxEdits,   \* bound on the writes to what a simulation reads
  MaxRestarts

SomeLibraryPass == LibraryPasses \in Nat \ {0}
OrdersAreNumbers == MaxOrder \in Nat
NoneIsNoDecision == None \notin [order : Nat, seen : Nat]

VARIABLES
  clock,      \* Utc::now, in steps that tell two readings apart
  lastOrder,  \* LAST_ORDER, of this process
  said,       \* what a simulation reads of each row: the edit it dates from
  routed,     \* media_routing
  offered,    \* the pending proposals of each row
  run,        \* the simulations under way
  born,       \* ghost: the edit since which the row is of the title it is of
  edits,      \* what a simulation reads was written this many times
  restarts

stored == <<said, routed, offered, born>>
vars == <<clock, lastOrder, stored, run, edits, restarts>>

(* `seen` is a ghost, the edits before the read; `since` another, the      *)
(* titles other runs stored after it.                                      *)
Idle == [phase |-> "idle", whole |-> FALSE, media |-> {}, order |-> 0, seen |-> 0, since |-> {}]

Decision(r) == [order |-> run[r].order, seen |-> run[r].seen]

(* load_order: the clock, or past the last order this process gave. *)
LoadOrder(last) == Max({clock, last + 1})

(* Mutant: the order given at load is kept whatever is stored. *)
AboveStoredKept(order) == order

(* above_stored: the order, or a new one above every stored. *)
Floor == Max({0} \cup {routed[m].order : m \in {n \in Media : routed[n] # None}})
AboveStored(order) ==
  IF Floor < order THEN order ELSE LoadOrder(Max({lastOrder, Floor}))

Asked(r, whole, media) ==
  /\ run[r].phase \in {"idle", "stored"}
  /\ LoadOrder(lastOrder) <= MaxOrder
  /\ run' = [run EXCEPT ![r] = [Idle EXCEPT !.phase = "asked", !.whole = whole, !.media = media,
                                            !.order = LoadOrder(lastOrder)]]
  /\ lastOrder' = LoadOrder(lastOrder)
  /\ UNCHANGED <<clock, stored, edits, restarts>>

(* The whole library waits for a permit, then both kinds read a snapshot.  *)
Loads(r) ==
  LET there == {m \in run[r].media : said[m] # None}
      order == IF run[r].whole \/ there # {} THEN AboveStored(run[r].order) ELSE run[r].order
  IN /\ run[r].phase = "asked"
     /\ run[r].whole => Cardinality({q \in Runs : run[q].whole /\ run[q].phase = "loaded"})
                          < LibraryPasses
     /\ run' = [run EXCEPT ![r].phase = "loaded", ![r].media = there, ![r].order = order,
                           ![r].seen = edits]
     /\ lastOrder' = Max({lastOrder, order})
     /\ UNCHANGED <<clock, stored, edits, restarts>>

(* The titles a run stores: their row is there, and no larger order is.    *)
Stored(r) ==
  {m \in run[r].media : said[m] # None /\ (routed[m] = None \/ run[r].order > routed[m].order)}

(* Mutant: the proposals of every title the run read. *)
OursAll(r, routing) == run[r].media

(* The titles whose verdict is this run's. *)
Ours(r, routing) == {m \in Media : routing[m] # None /\ routing[m].order = run[r].order}

(* store_run: the verdicts, then the proposals of the titles it decided in *)
(* place of theirs. `moves`: the titles not already where they belong.     *)
Stores(r) ==
  LET routing == [m \in Media |-> IF m \in Stored(r) THEN Decision(r) ELSE routed[m]]
      ours == Ours(r, routing)
  IN /\ run[r].phase = "loaded"
     /\ \E moves \in SUBSET run[r].media :
          offered' = [m \in Media |-> IF m \notin ours THEN offered[m]
                                      ELSE IF m \in moves THEN {Decision(r)} ELSE {}]
     /\ routed' = routing
     /\ run' = [q \in Runs |->
                  IF q = r THEN [Idle EXCEPT !.phase = "stored"]
                  ELSE [run[q] EXCEPT !.since = @ \cup IF run[q].phase = "loaded" THEN Stored(r)
                                                       ELSE {}]]
     /\ UNCHANGED <<clock, lastOrder, said, born, edits, restarts>>

Fails(r) ==
  /\ run[r].phase \in {"asked", "loaded"}
  /\ run' = [run EXCEPT ![r] = Idle]
  /\ UNCHANGED <<clock, lastOrder, stored, edits, restarts>>

-----------------------------------------------------------------------------
(* The other writers. *)

(* A synchronisation, a rule, a folder or the metadata: what a simulation  *)
(* of the title reads is not what it was. Its proposals stand.             *)
Edit(m) ==
  /\ edits < MaxEdits
  /\ edits' = edits + 1
  /\ said' = [said EXCEPT ![m] = edits']
  /\ UNCHANGED <<clock, lastOrder, routed, offered, born, run, restarts>>

(* The row goes, its decision with it (ON DELETE CASCADE), and perhaps     *)
(* another title takes its id in the same transaction (retire_media).      *)
Retire(m, reassigned) ==
  /\ said[m] # None
  /\ edits < MaxEdits
  /\ edits' = edits + 1
  /\ said' = [said EXCEPT ![m] = IF reassigned THEN edits' ELSE None]
  /\ routed' = [routed EXCEPT ![m] = None]
  /\ offered' = [offered EXCEPT ![m] = {}]
  /\ born' = [born EXCEPT ![m] = edits']
  /\ UNCHANGED <<clock, lastOrder, run, restarts>>

(* The proposal is applied, refused, or superseded by an exception. *)
Settled(m) ==
  /\ offered[m] # {}
  /\ offered' = [offered EXCEPT ![m] = {}]
  /\ UNCHANGED <<clock, lastOrder, said, routed, born, run, edits, restarts>>

ClockRuns ==
  /\ clock < MaxClock
  /\ clock' = clock + 1
  /\ UNCHANGED <<lastOrder, stored, run, edits, restarts>>

(* An archive taken under a clock that ran ahead of this one. *)
Archived ==
  LET ahead == [order |-> MaxOrder + 1, seen |-> 0] IN
  [said |-> [m \in Media |-> 0], born |-> [m \in Media |-> 0],
   routed |-> [m \in Media |-> ahead], offered |-> [m \in Media |-> {ahead}]]

(* The process starts again, perhaps on an archive and with its clock set  *)
(* back. What was read before is gone with it.                             *)
Restart ==
  /\ restarts < MaxRestarts
  /\ restarts' = restarts + 1
  /\ lastOrder' = 0
  /\ run' = [r \in Runs |-> Idle]
  /\ clock' \in 0..clock
  /\ \/ UNCHANGED stored
     \/ /\ said' = Archived.said
        /\ routed' = Archived.routed
        /\ offered' = Archived.offered
        /\ born' = Archived.born
  /\ UNCHANGED edits

Init ==
  /\ clock = 1
  /\ lastOrder = 0
  /\ said = [m \in Media |-> 0]
  /\ routed = [m \in Media |-> None]
  /\ offered = [m \in Media |-> {}]
  /\ born = [m \in Media |-> 0]
  /\ run = [r \in Runs |-> Idle]
  /\ edits = 0
  /\ restarts = 0

Next ==
  \/ \E r \in Runs :
       \/ Asked(r, TRUE, Media)
       \/ \E m \in Media : Asked(r, FALSE, {m})
       \/ Loads(r) \/ Stores(r) \/ Fails(r)
  \/ \E m \in Media :
       Edit(m) \/ Settled(m) \/ \E reassigned \in BOOLEAN : Retire(m, reassigned)
  \/ ClockRuns
  \/ Restart

Spec == Init /\ [][Next]_vars

-----------------------------------------------------------------------------
TypeOK ==
  /\ clock \in 0..MaxClock
  /\ lastOrder \in Nat
  /\ said \in [Media -> 0..MaxEdits \cup {None}]
  /\ \A m \in Media :
       /\ routed[m] # None => routed[m] \in [order : Nat, seen : 0..MaxEdits]
       /\ \A d \in offered[m] : d \in [order : Nat, seen : 0..MaxEdits]
  /\ \A r \in Runs :
       run[r] \in [phase : {"idle", "asked", "loaded", "stored"}, whole : BOOLEAN, media : SUBSET Media,
                   order : Nat, seen : 0..MaxEdits, since : SUBSET Media]

(* A title has one proposal at most, of the run whose decision the library *)
(* shows for it, and none once its row went: whatever the order in which   *)
(* runs store, and whatever was retired meanwhile (store_run).             *)
OneProposalOfTheRunShown ==
  \A m \in Media : offered[m] # {} => routed[m] # None /\ Cardinality(offered[m]) = 1
                                      /\ \A d \in offered[m] : d = routed[m]

(* A run stores every title it read whose row is still there, unless       *)
(* another stored it after that read: a clock set back, a restart or an    *)
(* archive with larger orders never makes it store nothing (above_stored). *)
StoresWhatItRead ==
  \A r \in Runs :
    run[r].phase = "loaded" /\ run'[r].phase = "stored"
    => \A m \in run[r].media \ run[r].since : said[m] # None => routed'[m] = Decision(r)
RunAloneIsStored == [][StoresWhatItRead]_vars

(* Of two decisions stored for a title, the one read later stands          *)
(* (load_order: "tell which of them read the library last").               *)
LaterReadStands ==
  [][\A m \in Media :
       routed[m] # None /\ routed'[m] # None /\ restarts' = restarts
       => routed'[m].seen >= routed[m].seen]_vars

(* What is offered for a row was decided of the title it is of: a title    *)
(* whose row went after the read is skipped (store_run).                   *)
OfferedToItsTitle == \A m \in Media : \A d \in offered[m] : d.seen >= born[m]
=============================================================================
