------------------------------ MODULE Deliveries ------------------------------
(***************************************************************************)
(* The deliveries of an Arr's webhook to one instance (api/webhook.rs),    *)
(* beside its full synchronisation (services/sync.rs) and its removal      *)
(* (api/instances.rs).                                                     *)
(*                                                                         *)
(* An Arr sends each event once. A delivery takes a place in a bounded     *)
(* queue, one per title, then waits for the instance's delivery lock, and  *)
(* gives its places back before it reads the Arr. A deletion then waits    *)
(* for the synchronisation's lock while it holds its own, where a removal  *)
(* of the instance takes the two the other way round.                      *)
(***************************************************************************)
EXTENDS Integers, Sequences, FiniteSets, SequencesExt

CONSTANTS
  Titles,
  Deliveries,  \* the tasks of the deliveries there may be at once
  MaxWaiting,  \* MAX_WAITING_DELIVERIES
  None,
  MaxEvents,   \* bound on the events the Arr sends
  MaxSwitches  \* bound on what a person does to the instance

SomeoneWaits == MaxWaiting \in Nat \ {0}
NoneHoldsNothing == None \notin Deliveries \cup {"removal", "sync"}

VARIABLES
  held,        \* the titles the Arr has
  rows,        \* the titles with a media row
  instance,    \* its row: enabled, disabled or removed
  delivery,    \* the deliveries under way
  line,        \* those waiting for the lock "webhook:<id>", and the removal
  hooked,      \* who holds it
  syncing,     \* who holds the lock "sync:<id>"
  sync,        \* the full synchronisation under way
  events, switches,
  missed,      \* ghost: the titles an event of which was answered without a read
  shadowed     \* ghost: those whose deletion was left to a delivery of another event

arrVars == <<held, events>>
locks == <<line, hooked, syncing>>
ghosts == <<missed, shadowed>>
vars == <<arrVars, rows, instance, delivery, locks, sync, switches, ghosts>>

Removal == "removal"
FullSync == "sync"

Over == [phase |-> "over", title |-> None, kind |-> None, saw |-> FALSE]
(* `fresh`: the rows written since the synchronisation began, whose        *)
(* synced_at is not older than it.                                         *)
NoSync == [phase |-> "idle", list |-> {}, fresh |-> {}]

Waiting == {d \in Deliveries : delivery[d].phase = "waiting"}

(* delivered: a place for the title and one for the instance, then a task. *)
Queued(d, t, kind) ==
  /\ delivery' = [delivery EXCEPT ![d] = [Over EXCEPT !.phase = "waiting", !.title = t,
                                                      !.kind = kind]]
  /\ line' = Append(line, d)
  /\ UNCHANGED ghosts

Answered(t, kind) ==
  LET same == {d \in Waiting : delivery[d].title = t} IN
  CASE instance # "enabled" ->
         missed' = missed \cup {t} /\ UNCHANGED <<delivery, line, shadowed>>
    [] instance = "enabled" /\ same # {} ->
         /\ shadowed' = IF kind = "delete" /\ \A d \in same : delivery[d].kind # "delete"
                        THEN shadowed \cup {t} ELSE shadowed
         /\ UNCHANGED <<delivery, line, missed>>
    [] instance = "enabled" /\ same = {} /\ Cardinality(Waiting) >= MaxWaiting ->
         missed' = missed \cup {t} /\ UNCHANGED <<delivery, line, shadowed>>
    [] OTHER -> \E d \in Deliveries : delivery[d] = Over /\ Queued(d, t, kind)

(* The Arr adds, changes or deletes a title, and says so. *)
Event(t, kind) ==
  /\ events < MaxEvents
  /\ kind = "delete" => t \in held
  /\ held' = IF kind = "delete" THEN held \ {t} ELSE held \cup {t}
  /\ events' = events + 1
  /\ Answered(t, kind)
  /\ UNCHANGED <<rows, instance, hooked, syncing, sync, switches>>

(* lock_within, and the places are given back. *)
Taken(d) ==
  /\ delivery[d].phase = "waiting"
  /\ hooked = None
  /\ Head(line) = d
  /\ line' = Tail(line)
  /\ hooked' = d
  /\ delivery' = [delivery EXCEPT ![d].phase = "held"]
  /\ UNCHANGED <<arrVars, rows, instance, syncing, sync, switches, ghosts>>

GivesUp(d) ==
  /\ delivery[d].phase = "waiting"
  /\ line' = Remove(line, d)
  /\ delivery' = [delivery EXCEPT ![d] = Over]
  /\ missed' = missed \cup {delivery[d].title}
  /\ UNCHANGED <<arrVars, rows, instance, hooked, syncing, sync, switches, shadowed>>

Ends(d) ==
  /\ delivery' = [delivery EXCEPT ![d] = Over]
  /\ hooked' = None

(* The instance is read again: removed or switched off, nothing is done. *)
Checks(d) ==
  /\ delivery[d].phase = "held"
  /\ IF instance = "enabled"
     THEN delivery' = [delivery EXCEPT ![d].phase = "checked"] /\ UNCHANGED <<hooked, missed>>
     ELSE Ends(d) /\ missed' = missed \cup {delivery[d].title}
  /\ UNCHANGED <<arrVars, rows, instance, line, syncing, sync, switches, shadowed>>

(* sync_single_media: the title is read, *)
ReadsArr(d) ==
  /\ delivery[d].phase = "checked"
  /\ delivery' = [delivery EXCEPT ![d].phase = "read", ![d].saw = delivery[d].title \in held]
  /\ UNCHANGED <<arrVars, rows, instance, locks, sync, switches, ghosts>>

(* and its row written. The lock is held while the title is simulated.     *)
Writes(d) ==
  /\ delivery[d].phase = "read"
  /\ delivery[d].saw
  /\ rows' = rows \cup {delivery[d].title}
  /\ sync' = IF sync.phase = "idle" THEN sync
             ELSE [sync EXCEPT !.fresh = @ \cup {delivery[d].title}]
  /\ Ends(d)
  /\ UNCHANGED <<arrVars, instance, line, syncing, switches, ghosts>>

(* The Arr has it no more: only the event of a deletion is a proof of it. *)
LeavesIt(d) ==
  /\ delivery[d].phase = "read"
  /\ ~ delivery[d].saw
  /\ delivery[d].kind # "delete"
  /\ Ends(d)
  /\ UNCHANGED <<arrVars, rows, instance, line, syncing, sync, switches, ghosts>>

(* Mutant: beside a synchronisation that may have read the title. *)
RetiresBesideASync(d) ==
  /\ delivery[d].phase = "read"
  /\ ~ delivery[d].saw
  /\ delivery[d].kind = "delete"
  /\ rows' = rows \ {delivery[d].title}
  /\ Ends(d)
  /\ UNCHANGED <<arrVars, instance, line, syncing, sync, switches, ghosts>>

Retires(d) ==
  /\ delivery[d].phase = "read"
  /\ ~ delivery[d].saw
  /\ delivery[d].kind = "delete"
  /\ syncing = None
  /\ rows' = rows \ {delivery[d].title}
  /\ Ends(d)
  /\ UNCHANGED <<arrVars, instance, line, syncing, sync, switches, ghosts>>

(* Mutant: no budget for the synchronisation's lock. *)
DropsBeforeTheRead(d) ==
  /\ delivery[d].phase \in {"held", "checked"}
  /\ Ends(d)
  /\ missed' = missed \cup {delivery[d].title}
  /\ UNCHANGED <<arrVars, rows, instance, line, syncing, sync, switches, shadowed>>

(* Past the budget for the synchronisation's lock, or an error on the way. *)
Drops(d) ==
  /\ delivery[d].phase \in {"held", "checked", "read"}
  /\ Ends(d)
  /\ missed' = missed \cup {delivery[d].title}
  /\ UNCHANGED <<arrVars, rows, instance, line, syncing, sync, switches, shadowed>>

-----------------------------------------------------------------------------
(* The full synchronisation: it takes its lock or leaves. *)

SyncStarts ==
  /\ instance = "enabled"
  /\ syncing = None
  /\ syncing' = FullSync
  /\ sync' = [NoSync EXCEPT !.phase = "began"]
  /\ UNCHANGED <<arrVars, rows, instance, delivery, line, hooked, switches, ghosts>>

SyncReads ==
  /\ sync.phase = "began"
  /\ sync' = [sync EXCEPT !.phase = "read", !.list = held]
  /\ UNCHANGED <<arrVars, rows, instance, delivery, locks, switches, ghosts>>

(* The rows of the list are written, and those older than it removed. *)
SyncWrites ==
  /\ sync.phase = "read"
  /\ rows' = IF sync.list = {} THEN rows ELSE sync.list \cup (rows \cap sync.fresh)
  /\ sync' = NoSync
  /\ syncing' = None
  /\ UNCHANGED <<arrVars, instance, delivery, line, hooked, switches, ghosts>>

SyncFails ==
  /\ sync.phase # "idle"
  /\ sync' = NoSync
  /\ syncing' = None
  /\ UNCHANGED <<arrVars, rows, instance, delivery, line, hooked, switches, ghosts>>

-----------------------------------------------------------------------------
(* A person switches the instance on or off, with no lock, or removes it,  *)
(* under both.                                                             *)

Switch ==
  /\ switches < MaxSwitches
  /\ instance # "removed"
  /\ instance' = IF instance = "enabled" THEN "disabled" ELSE "enabled"
  /\ switches' = switches + 1
  /\ UNCHANGED <<arrVars, rows, delivery, locks, sync, ghosts>>

RemovalAsked ==
  /\ switches < MaxSwitches
  /\ instance # "removed"
  /\ syncing = None
  /\ syncing' = Removal
  /\ line' = Append(line, Removal)
  /\ switches' = switches + 1
  /\ UNCHANGED <<arrVars, rows, instance, delivery, hooked, sync, ghosts>>

Removed ==
  /\ hooked = None
  /\ line # <<>> /\ Head(line) = Removal
  /\ instance' = "removed"
  /\ rows' = {}
  /\ line' = Tail(line)
  /\ syncing' = None
  /\ UNCHANGED <<arrVars, delivery, hooked, sync, switches, ghosts>>

(* Past DELIVERY_WAIT, the removal that holds the other lock is refused. *)
RemovalGivesUp ==
  /\ syncing = Removal
  /\ line' = Remove(line, Removal)
  /\ syncing' = None
  /\ UNCHANGED <<arrVars, rows, instance, delivery, hooked, sync, switches, ghosts>>

Init ==
  /\ held \in SUBSET Titles
  /\ rows = held
  /\ instance = "enabled"
  /\ delivery = [d \in Deliveries |-> Over]
  /\ line = <<>>
  /\ hooked = None
  /\ syncing = None
  /\ sync = NoSync
  /\ events = 0
  /\ switches = 0
  /\ missed = {}
  /\ shadowed = {}

DeliveryStep(d) ==
  \/ Taken(d) \/ Checks(d) \/ ReadsArr(d)
  \/ Writes(d) \/ LeavesIt(d) \/ Retires(d) \/ Drops(d)
SyncEnds == SyncReads \/ SyncWrites \/ SyncFails
RemovalEnds == Removed \/ RemovalGivesUp

Next ==
  \/ \E t \in Titles, kind \in {"change", "delete"} : Event(t, kind)
  \/ \E d \in Deliveries : DeliveryStep(d) \/ GivesUp(d)
  \/ SyncStarts \/ SyncEnds
  \/ Switch \/ RemovalAsked \/ RemovalEnds

Spec == Init /\ [][Next]_vars

(* Every wait has a budget and every request to the Arr a timeout: a task  *)
(* goes on, and what waits for a lock that stays held gives up in the end. *)
(* A removal's budget ends before a delivery's, which is not assumed.      *)
FairSpec ==
  /\ Spec
  /\ \A d \in Deliveries : WF_vars(DeliveryStep(d))
  /\ WF_vars(SyncEnds)
  /\ WF_vars(RemovalEnds)

-----------------------------------------------------------------------------
TypeOK ==
  /\ held \subseteq Titles
  /\ rows \subseteq Titles
  /\ instance \in {"enabled", "disabled", "removed"}
  /\ delivery \in [Deliveries ->
                     [phase : {"over", "waiting", "held", "checked", "read"},
                      title : Titles \cup {None}, kind : {"change", "delete", None},
                      saw : BOOLEAN]]
  /\ ToSet(line) \subseteq Deliveries \cup {Removal}
  /\ hooked \in Deliveries \cup {None}
  /\ syncing \in {FullSync, Removal, None}

Quiet ==
  /\ \A d \in Deliveries : delivery[d] = Over
  /\ syncing = None
  /\ instance = "enabled"

(* Once the deliveries are over, the rows are the titles the Arr has: an   *)
(* event answered "already waiting" is read by the one that waits, and no  *)
(* synchronisation that read before it brings a deleted title back or      *)
(* takes a new one away. Left out are the titles an event of which was     *)
(* dropped, and the deletions answered for by the delivery of another      *)
(* event, which leaves the row to the next synchronisation.                *)
QuietRowsAreTheArrs ==
  Quiet => /\ held \ missed \subseteq rows
           /\ rows \ (missed \cup shadowed) \subseteq held

(* The event of a title already waiting needs no delivery of its own: the  *)
(* waiting one reads the title when its turn comes (delivered).            *)
WaitingOneActsForAll == Quiet => rows \ missed \subseteq held

(* A delivery that waits for its lock, then perhaps for the                *)
(* synchronisation's, comes to its end though a removal holds the one and  *)
(* waits for the other.                                                    *)
DeliveryEnds == \A d \in Deliveries : delivery[d].phase # "over" ~> delivery[d].phase = "over"
=============================================================================
