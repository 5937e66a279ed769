------------------------------- MODULE Titles -------------------------------
(***************************************************************************)
(* The rows Routarr keeps of the titles of one instance, and what hangs on *)
(* them by the row's id: the pending proposals, the history, the           *)
(* exceptions (services/sync.rs, api/exceptions.rs, api/instances.rs).     *)
(*                                                                         *)
(* A row's id is made of the instance and of the id the Arr gives the      *)
(* title, and the Arr may give that id to another title: it was rebuilt,   *)
(* or the instance was pointed at another Arr. A full synchronisation and  *)
(* the delivery of a webhook read the Arr at one time and write the rows   *)
(* at another, beside each other and beside the moves; the timestamps they *)
(* are ordered by hold whole seconds.                                      *)
(***************************************************************************)
EXTENDS Integers, FiniteSets

CONSTANTS
  Arrs,        \* the Arrs the instance is pointed at in turn
  Ids,         \* the ids an Arr gives its titles
  Works,       \* the titles, each with the TMDB or TheTVDB id that is its own
  Folders,     \* the paths a title is at
  Tags,        \* the other columns of a title, one value for all of them
  HeldPast,    \* HELD_PAST
  None,
  MaxTime,     \* bound on the seconds of the clock
  MaxChanges,  \* bound on what happens to the Arrs by other hands
  MaxAsked     \* bound on what a person asks of Routarr, a pin or a move

VARIABLES
  now,         \* the clock, in seconds from 1: 0 stands for a NULL timestamp
  arr,         \* what each Arr holds under each id
  pointed,     \* the Arr of the instance's row
  row,         \* the media row of each id
  pending,     \* each row's pending proposal
  history,     \* the proposals of the moves recorded on each row
  pin,         \* the title each row's exception was set on
  retired,     \* retired_overrides: by the title of the row, the title it was set on
  reader,      \* the synchronisation and the delivery under way
  simulation,  \* the simulation that has read a row and not stored its verdict
  moving,      \* the move the Arr has taken and Routarr has not recorded
  changes, asked,
  changedAt,   \* ghost: the second of the last change of the Arr, the instance or a path
  pinned       \* ghost: the titles somebody pinned

arrVars == <<arr, pointed>>
rowVars == <<row, pending, history, pin, retired>>
ghosts == <<changedAt, pinned>>
vars == <<now, arrVars, rowVars, reader, simulation, moving, changes, asked, ghosts>>

(* The title a proposal is about. `kept` is a ghost: the row stayed the    *)
(* title's from the simulation's read of it to its store.                  *)
Proposal == [work: Works, kept: BOOLEAN]
Simulation == [id: Ids, of: Proposal]
Move == [id: Ids, of: Proposal, to: Folders, attached: BOOLEAN]
Item == [work: Works, tags: Tags, path: Folders]
Row == [work: Works, tags: Tags, path: Folders, syncedAt: 0..MaxTime, movedAt: 0..MaxTime]

NoneIsNothing == None \notin Works \cup Item \cup Row \cup Proposal \cup Simulation \cup Move
BoundsAreNumbers == MaxTime \in Nat \ {0} /\ {HeldPast, MaxChanges, MaxAsked} \subseteq Nat

(* No two ids of an Arr name one title. *)
Listing == {l \in [Ids -> Item \cup {None}] :
              \A i, j \in Ids : i # j /\ l[i] # None /\ l[j] # None => l[i].work # l[j].work}

(* The two locks: one full synchronisation at a time, and one delivery.    *)
(* `moved` is a ghost, the rows a move was recorded on since the read      *)
(* began. `folders`: the root folders were not listed, or not empty.       *)
Readers == {"sync", "delivery"}
Idle == [kind |-> "idle", phase |-> "idle", at |-> 0, from |-> None,
         of |-> {}, list |-> [i \in Ids |-> None], folders |-> TRUE, moved |-> {}]

-----------------------------------------------------------------------------
(* The rows and what hangs on them, as one transaction changes them.       *)

Library == [row |-> row, pending |-> pending, history |-> history,
            pin |-> pin, retired |-> retired]

Commits(lib) ==
  /\ row' = lib.row
  /\ pending' = lib.pending
  /\ history' = lib.history
  /\ pin' = lib.pin
  /\ retired' = lib.retired

(* Mutants: the row of an id is taken to be of whatever title has the id;  *)
(* the exception stays on the id; and of a moved row, the path is kept for *)
(* good, or given up to a read begun in the second of the move.            *)
ReassignedNever(held, item) == FALSE
RetireWithoutItsPin(lib, ids) ==
  LET Emptied(f, nothing) == [i \in DOMAIN f |-> IF i \in ids THEN nothing ELSE f[i]]
  IN [lib EXCEPT !.row = Emptied(lib.row, None), !.pending = Emptied(lib.pending, None),
                 !.history = Emptied(lib.history, {})]
PathStandsForGood(held, at) == held.movedAt # 0
PathStandsStrictly(held, at) == held.movedAt > at

(* The id names another title than the row. *)
Reassigned(held, item) == held # None /\ held.work # item.work

(* The row goes, its proposal is superseded, its history detached, and its *)
(* exception waits under the title's own id.                               *)
Retire(lib, ids) ==
  LET Emptied(f, nothing) == [i \in DOMAIN f |-> IF i \in ids THEN nothing ELSE f[i]]
      Kept(w) == {i \in ids : lib.pin[i] # None /\ lib.row[i].work = w}
  IN [row     |-> Emptied(lib.row, None),
      pending |-> Emptied(lib.pending, None),
      history |-> Emptied(lib.history, {}),
      pin     |-> Emptied(lib.pin, None),
      retired |-> [w \in DOMAIN lib.retired |-> IF Kept(w) = {} THEN lib.retired[w]
                                   ELSE lib.pin[CHOOSE i \in Kept(w) : TRUE]]]

(* The row of `item`, read from the second `at` on. *)
PathStands(held, at) == held.movedAt # 0 /\ held.movedAt >= at

Upserted(held, item, at) ==
  LET found == [work |-> item.work, tags |-> item.tags,
                path |-> IF PathStands(held, at) THEN held.path ELSE item.path,
                syncedAt |-> held.syncedAt, movedAt |-> held.movedAt]
  IN IF held.syncedAt > at \/ found = held THEN held
     ELSE [found EXCEPT !.syncedAt = at]

Inserted(item, at) ==
  [work |-> item.work, tags |-> item.tags, path |-> item.path, syncedAt |-> at, movedAt |-> 0]

Upsert(lib, list, listed, at) ==
  [lib EXCEPT !.row = [i \in DOMAIN lib.row |->
                         IF i \notin listed THEN lib.row[i]
                         ELSE IF lib.row[i] = None THEN Inserted(list[i], at)
                         ELSE Upserted(lib.row[i], list[i], at)]]

Restore(lib) ==
  LET Waits(i) == lib.row[i] # None /\ lib.retired[lib.row[i].work] # None
      back == {lib.row[i].work : i \in {j \in DOMAIN lib.row : lib.row[j] # None}}
  IN [lib EXCEPT
        !.pin = [i \in DOMAIN lib.row |-> IF Waits(i) /\ lib.pin[i] = None
                               THEN lib.retired[lib.row[i].work] ELSE lib.pin[i]],
        !.retired = [w \in DOMAIN lib.retired |-> IF w \in back THEN None ELSE lib.retired[w]]]

(* The move on its way names its row, whose history goes elsewhere; the    *)
(* simulation under way read a row that is gone.                           *)
Detached(ids) ==
  /\ moving' = IF moving # None /\ moving.id \in ids THEN [moving EXCEPT !.attached = FALSE]
               ELSE moving
  /\ simulation' = IF simulation # None /\ simulation.id \in ids
                   THEN [simulation EXCEPT !.of.kept = FALSE] ELSE simulation

-----------------------------------------------------------------------------
(* Reading the Arr. *)

SyncBegins ==
  /\ reader["sync"] = Idle
  /\ \E kind \in {"bounded", "asked"} :
       reader' = [reader EXCEPT !["sync"] =
                    [Idle EXCEPT !.kind = kind, !.phase = "began", !.at = now,
                                 !.from = pointed, !.of = Ids]]
  /\ UNCHANGED <<now, arrVars, rowVars, simulation, moving, changes, asked, ghosts>>

DeliveryBegins ==
  /\ reader["delivery"] = Idle
  /\ \E i \in Ids, kind \in {"change", "delete"} :
       reader' = [reader EXCEPT !["delivery"] =
                    [Idle EXCEPT !.kind = kind, !.phase = "began", !.at = now,
                                 !.from = pointed, !.of = {i}]]
  /\ UNCHANGED <<now, arrVars, rowVars, simulation, moving, changes, asked, ghosts>>

Reads(p) ==
  /\ reader[p].phase = "began"
  /\ \E folders \in IF p = "sync" THEN BOOLEAN ELSE {TRUE} :
       reader' = [reader EXCEPT
                    ![p].phase = "read",
                    ![p].folders = folders,
                    ![p].list = [i \in Ids |-> IF i \in reader[p].of
                                               THEN arr[reader[p].from][i] ELSE None]]
  /\ UNCHANGED <<now, arrVars, rowVars, simulation, moving, changes, asked, ghosts>>

(* A failure after the reads leaves the rows as one before them does. *)
Fails(p) ==
  /\ reader[p].phase = "began"
  /\ reader' = [reader EXCEPT ![p] = Idle]
  /\ UNCHANGED <<now, arrVars, rowVars, simulation, moving, changes, asked, ghosts>>

(* Writing the rows, in one transaction. *)

Listed(r) == {i \in r.of : r.list[i] # None}

Written(r) ==
  LET other == {i \in Listed(r) : Reassigned(row[i], r.list[i])}
  IN Restore(Upsert(Retire(Library, other), r.list, Listed(r), r.at))

(* What the Arr stopped reporting: the rows older than the read, none for  *)
(* an empty answer.                                                        *)
Gone(r, lib) ==
  IF r.kind \notin {"bounded", "asked"} \/ Listed(r) = {} \/ ~ r.folders THEN {}
  ELSE {i \in DOMAIN lib.row \ Listed(r) : lib.row[i] # None /\ lib.row[i].syncedAt < r.at}

Held(r, gone) ==
  /\ r.kind = "bounded"
  /\ Cardinality(gone) > HeldPast
  /\ Cardinality(gone) * 2 > Cardinality(gone) + Cardinality(Listed(r))

Commit(p) ==
  LET r == reader[p]
      written == Written(r)
      gone == Gone(r, written)
      removed == IF Held(r, gone) THEN {} ELSE gone
  IN /\ r.phase = "read"
     /\ p = "delivery" => Listed(r) # {}
     /\ Commits(Retire(written, removed))
     /\ Detached(removed \cup {i \in Listed(r) : Reassigned(row[i], r.list[i])})
     /\ reader' = [reader EXCEPT ![p] = Idle]
     /\ UNCHANGED <<now, arrVars, changes, asked, ghosts>>

(* The Arr lacks the title: the event of a deletion retires its row, once  *)
(* no synchronisation runs; any other leaves that to the synchronisation.  *)
DeliveryFindsNone ==
  LET r == reader["delivery"] IN
  /\ r.phase = "read"
  /\ Listed(r) = {}
  /\ IF r.kind = "delete"
     THEN /\ reader["sync"] = Idle
          /\ Commits(Retire(Library, r.of))
          /\ Detached(r.of)
     ELSE UNCHANGED <<rowVars, simulation, moving>>
  /\ reader' = [reader EXCEPT !["delivery"] = Idle]
  /\ UNCHANGED <<now, arrVars, changes, asked, ghosts>>

-----------------------------------------------------------------------------
(* The other writers of the rows. *)

(* A simulation of one title; Proposals has several beside each other. It  *)
(* reads the row in a snapshot, and stores in a transaction of its own,    *)
(* where it asks of the row's id alone whether it is there.                *)
SimulationReads(i) ==
  /\ simulation = None
  /\ row[i] # None
  /\ simulation' = [id |-> i, of |-> [work |-> row[i].work, kept |-> TRUE]]
  /\ UNCHANGED <<now, arrVars, rowVars, reader, moving, changes, asked, ghosts>>

SimulationStores ==
  /\ simulation # None
  /\ IF row[simulation.id] = None THEN UNCHANGED pending
     ELSE \E proposed \in {simulation.of, None} :
            pending' = [pending EXCEPT ![simulation.id] = proposed]
  /\ simulation' = None
  /\ UNCHANGED <<now, arrVars, row, history, pin, retired, reader, moving, changes, asked, ghosts>>

(* The decision becomes requested and the Arr takes the move. *)
MoveSent(i) ==
  /\ asked < MaxAsked
  /\ moving = None
  /\ row[i] # None
  /\ pending[i] # None
  /\ arr[pointed][i] # None
  /\ \E to \in Folders \ {row[i].path} :
       /\ moving' = [id |-> i, of |-> pending[i], to |-> to, attached |-> TRUE]
       /\ arr' = [arr EXCEPT ![pointed][i].path = to]
  /\ pending' = [pending EXCEPT ![i] = None]
  /\ asked' = asked + 1
  /\ changedAt' = now
  /\ UNCHANGED <<now, pointed, row, history, pin, retired, reader, simulation, changes, pinned>>

(* The row follows by its id, whatever title it is of by now. *)
MoveRecorded ==
  /\ moving # None
  /\ LET of == moving.id IN
     /\ row' = IF row[of] = None THEN row
               ELSE [row EXCEPT ![of].path = moving.to, ![of].movedAt = now]
     /\ pending' = [pending EXCEPT ![of] = None]
     /\ history' = IF moving.attached THEN [history EXCEPT ![of] = @ \cup {moving.of}] ELSE history
     /\ reader' = [p \in Readers |-> IF reader[p] = Idle THEN Idle
                                     ELSE [reader[p] EXCEPT !.moved = @ \cup {of}]]
  /\ moving' = None
  /\ changedAt' = now
  /\ UNCHANGED <<now, arrVars, pin, retired, simulation, changes, asked, pinned>>

Pin(i) ==
  /\ asked < MaxAsked
  /\ row[i] # None
  /\ pin[i] = None
  /\ pin' = [pin EXCEPT ![i] = row[i].work]
  /\ pending' = [pending EXCEPT ![i] = None]
  /\ pinned' = pinned \cup {row[i].work}
  /\ asked' = asked + 1
  /\ UNCHANGED <<now, arrVars, row, history, retired, reader, simulation, moving, changes, changedAt>>

Unpin(i) ==
  /\ pin[i] # None
  /\ pin' = [pin EXCEPT ![i] = None]
  /\ pending' = [pending EXCEPT ![i] = None]
  /\ pinned' = pinned \ {pin[i]}
  /\ UNCHANGED <<now, arrVars, row, history, retired, reader, simulation, moving, changes, asked, changedAt>>

(* The instance's row names another Arr. No lock is taken. *)
Point(a) ==
  /\ changes < MaxChanges
  /\ a # pointed
  /\ pointed' = a
  /\ pending' = [i \in Ids |-> None]
  /\ changes' = changes + 1
  /\ changedAt' = now
  /\ UNCHANGED <<now, arr, row, history, pin, retired, reader, simulation, moving, asked, pinned>>

-----------------------------------------------------------------------------
(* The Arrs and the clock. *)

(* A title is added, deleted or edited, or the Arr is rebuilt and hands    *)
(* its ids out again.                                                      *)
ArrChanges ==
  /\ changes < MaxChanges
  /\ \E a \in Arrs, l \in Listing : l # arr[a] /\ arr' = [arr EXCEPT ![a] = l]
  /\ changes' = changes + 1
  /\ changedAt' = now
  /\ UNCHANGED <<now, pointed, rowVars, reader, simulation, moving, asked, pinned>>

Tick ==
  /\ now < MaxTime
  /\ now' = now + 1
  /\ UNCHANGED <<arrVars, rowVars, reader, simulation, moving, changes, asked, ghosts>>

Init ==
  /\ now = 1
  /\ arr \in [Arrs -> Listing]
  /\ pointed \in Arrs
  /\ row = [i \in Ids |-> None]
  /\ pending = [i \in Ids |-> None]
  /\ history = [i \in Ids |-> {}]
  /\ pin = [i \in Ids |-> None]
  /\ retired = [w \in Works |-> None]
  /\ reader = [p \in Readers |-> Idle]
  /\ simulation = None
  /\ moving = None
  /\ changes = 0
  /\ asked = 0
  /\ changedAt = 1
  /\ pinned = {}

Next ==
  \/ SyncBegins
  \/ DeliveryBegins
  \/ \E p \in Readers : Reads(p) \/ Fails(p) \/ Commit(p)
  \/ DeliveryFindsNone
  \/ \E i \in Ids : SimulationReads(i) \/ MoveSent(i) \/ Pin(i) \/ Unpin(i)
  \/ SimulationStores
  \/ MoveRecorded
  \/ \E a \in Arrs : Point(a)
  \/ ArrChanges
  \/ Tick

Spec == Init /\ [][Next]_vars

-----------------------------------------------------------------------------
(* The properties. *)

TypeOK ==
  /\ now \in 1..MaxTime
  /\ pointed \in Arrs
  /\ row \in [Ids -> Row \cup {None}]
  /\ pending \in [Ids -> Proposal \cup {None}]
  /\ history \in [Ids -> SUBSET Proposal]
  /\ pin \in [Ids -> Works \cup {None}]
  /\ retired \in [Works -> Works \cup {None}]
  /\ simulation \in Simulation \cup {None}

(* An exception somebody set is on a row of the title it was set on, or    *)
(* waits under that title's own id, however ids were handed out again,     *)
(* rows retired and brought back, and whichever of a synchronisation and a *)
(* delivery did it (retire_media, restore_overrides).                      *)
ExceptionsFollowTheirTitles ==
  /\ \A i \in DOMAIN row : pin[i] # None => row[i] # None /\ row[i].work = pin[i]
  /\ \A w \in DOMAIN retired : retired[w] \in {w, None}
  /\ \A w \in pinned : retired[w] = w \/ \E i \in DOMAIN row : pin[i] = w

(* A proposal that may be applied, or a move that may be reverted, hangs   *)
(* on a row, and on one of its own title: an id handed out again brings    *)
(* back neither (retire_media). But what a simulation stored that had read *)
(* the row before its id was handed out again is of the former title       *)
(* (store_run), as Proposals!OfferedToItsTitle shows.                      *)
WhatHangsIsOfTheTitle ==
  \A i \in DOMAIN row : \A of \in history[i] \cup {pending[i]} :
     of # None => row[i] # None /\ (of.kept => row[i].work = of.work)

(* Both: whatever is kept by a row's id is of the title the row is of.     *)
RowsKeepTheirTitles == ExceptionsFollowTheirTitles /\ WhatHangsIsOfTheTitle

(* Process p has just written what it read. *)
Wrote(p) == reader[p].phase = "read" /\ reader'[p].phase = "idle"

(* A path recorded by a move is not put back by a read that began before   *)
(* the move was recorded, within one second of it included (moved_at,      *)
(* upsert_media).                                                          *)
MovedPathStays ==
  \A p \in Readers : Wrote(p) =>
    \A i \in reader[p].moved :
      row[i] # None /\ row[i].movedAt # 0
        => row'[i] = None \/ row'[i].work # row[i].work \/ row'[i].path = row[i].path
MovedPathStands == [][MovedPathStays]_vars

(* Rows that other reads, moves and the change of Arr left wrong are right *)
(* after one synchronisation that began in a later second than the last    *)
(* change, unless the Arr answered nothing or its removals are held.       *)
Heals ==
  LET r == reader["sync"] IN
  Wrote("sync") /\ r.at > changedAt /\ Listed(r) # {} /\ r.folders /\ ~ Held(r, Gone(r, Written(r)))
  => \A i \in DOMAIN row :
       IF arr[pointed][i] = None THEN row'[i] = None
       ELSE /\ row'[i] # None
            /\ [work |-> row'[i].work, tags |-> row'[i].tags, path |-> row'[i].path]
                 = arr[pointed][i]
QuietSyncHeals == [][Heals]_vars

(* A row read after a read began keeps every column when that read is      *)
(* written (the comments of upsert_media).                                 *)
NewerReadStands ==
  [][\A p \in Readers : Wrote(p) =>
       \A i \in Listed(reader[p]) :
         row[i] # None /\ row[i].syncedAt > reader[p].at => row'[i] = row[i]]_vars
=============================================================================
