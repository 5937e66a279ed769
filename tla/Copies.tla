------------------------------- MODULE Copies -------------------------------
(***************************************************************************)
(* The copy folder (ROUTARR_BACKUP_COPY_DIR): a share other databases may  *)
(* use and that may hang, be missing or be left unmounted. One thread at a *)
(* time brings it level with the backup folder; its run waits for it while *)
(* it writes, records what it left, and a thread given up on keeps the     *)
(* lock until it ends and is recorded then.                                *)
(*                                                                         *)
(* A place is a directory the path may show: the share, another one, or    *)
(* the bare directory under a mount.                                       *)
(***************************************************************************)
EXTENDS Naturals, FiniteSets

CONSTANTS
  MaxTaken,      \* archives taken in all; an archive's number is its age
  Forms,         \* the forms an archive is taken in: "plain", "sealed"
  Retention,     \* `backup_retention_count`
  Places,
  Theirs,        \* names of archives of other databases, to the second as ours are
  MaxRestarts, MaxChanges,
  None

Archive == 1..MaxTaken
FileNames == Archive \X {"plain", "sealed"}

SomeOfEach ==
  /\ {MaxTaken, Retention} \subseteq Nat \ {0} /\ {MaxRestarts, MaxChanges} \subseteq Nat
  /\ Forms \subseteq {"plain", "sealed"} /\ None \notin Places

VARIABLES
  archives,      \* names in the backup folder
  taken,
  place,         \* what the path shows, None when no directory
  files,         \* archives of each place
  marker,        \* places with a marker
  adopted,       \* the row of `backup_copy_folders`
  ours,          \* the rows of `backup_copies`
  run,           \* the run that holds the lock, or what it left to record
  thread,        \* the thread that copies, and what it has in hand
  adopting,      \* an adoption by hand that made the marker and has no row yet
  forgets,       \* archives deleted by hand, their copies not yet
  restarts, changes,
  unwritten,     \* history: the last recording had a write refused
  theirs         \* history: what other databases put in each place

vars ==
  <<archives, taken, place, files, marker, adopted, ours, run, thread, adopting, forgets, restarts,
    changes, unwritten, theirs>>
folder == <<files, marker>>
rows == <<adopted, ours>>
bounds == <<restarts, changes>>
history == <<unwritten, theirs>>

\* "gone on" is the recording of a run that gave up on a thread still going.
Steps == {"watching", "recording", "recording gone on", "gone on", "forgetting"}
Ends == {"level", "failed"}
Thread ==
  [step: {"look", "list", "copy", "stale", "prune"} \cup Ends, names: SUBSET FileNames, adopted: BOOLEAN,
   ours: SUBSET FileNames, held: SUBSET FileNames, done: SUBSET FileNames, marked: BOOLEAN,
   copies: SUBSET FileNames, present: SUBSET FileNames, swapped: BOOLEAN]

NoneIsNothing == None \notin Thread \cup Steps

TypeOK ==
  /\ archives \subseteq FileNames /\ taken \in 0..MaxTaken
  /\ place \in Places \cup {None} /\ marker \subseteq Places
  /\ files \in [Places -> SUBSET (FileNames \cup Theirs)]
  /\ theirs \in [Places -> SUBSET Theirs]
  /\ {adopted, adopting, unwritten} \subseteq BOOLEAN
  /\ ours \subseteq FileNames
  /\ run \in Steps \cup {None} /\ thread \in Thread \cup {None}
  /\ forgets \subseteq FileNames
  /\ restarts \in 0..MaxRestarts /\ changes \in 0..MaxChanges

Init ==
  /\ archives = {} /\ taken = 0
  /\ place \in Places
  /\ files = [p \in Places |-> {}] /\ theirs = files /\ marker = {}
  /\ adopted = FALSE /\ ours = {}
  /\ run = None /\ thread = None /\ adopting = FALSE /\ forgets = {}
  /\ restarts = 0 /\ changes = 0 /\ unwritten = FALSE

Changed == changes < MaxChanges /\ changes' = changes + 1

-----------------------------------------------------------------------------
(* The backup folder                                                       *)

Take ==
  /\ taken < MaxTaken
  /\ taken' = taken + 1
  /\ \E form \in Forms : archives' = archives \cup {<<taken', form>>}
  /\ UNCHANGED <<place, folder, rows, run, thread, adopting, forgets, bounds, history>>

Other(n) == <<n[1], IF n[2] = "plain" THEN "sealed" ELSE "plain">>
Reseal(n) ==
  /\ n \in archives
  /\ archives' = (archives \ {n}) \cup {Other(n)}
  /\ Changed
  /\ UNCHANGED <<taken, place, folder, rows, run, thread, adopting, forgets, restarts, history>>

(* Pruned, or deleted by hand with its copy behind it.                     *)
Remove(n) ==
  /\ n \in archives
  /\ archives' = archives \ {n}
  /\ forgets' \in {forgets, forgets \cup {n}}
  /\ Changed
  /\ UNCHANGED <<taken, place, folder, rows, run, thread, adopting, restarts, history>>

-----------------------------------------------------------------------------
(* A pass                                                                  *)

(* What it works from is read once, behind the lock.                       *)
Begin ==
  /\ run = None
  /\ run' = "watching"
  /\ thread' = [step |-> "look", names |-> archives, adopted |-> adopted, ours |-> ours,
                held |-> {}, done |-> {}, marked |-> FALSE, copies |-> {}, present |-> {},
                swapped |-> FALSE]
  /\ unwritten' = FALSE
  /\ UNCHANGED
       <<archives, taken, place, folder, rows, adopting, forgets, bounds, theirs>>

At(step) == thread # None /\ thread.step = step
ThreadOnly == UNCHANGED <<archives, taken, place, rows, run, adopting, forgets, bounds, history>>

(* Missing, Unmounted, Foreign; a folder without a marker is taken when    *)
(* none was recorded.                                                      *)
Refused ==
  \/ place = None
  \/ place \notin marker /\ thread.adopted
  \/ place \in marker /\ ~thread.adopted
Look ==
  /\ At("look")
  /\ ThreadOnly
  /\ \/ Refused /\ thread' = [thread EXCEPT !.step = "failed"] /\ UNCHANGED folder
     \/ /\ ~Refused
        /\ marker' = marker \cup {place}
        /\ thread' = [thread EXCEPT !.step = "list", !.marked = ~@ /\ place \notin marker]
        /\ UNCHANGED files

(* What cannot be listed is passed over.                                   *)
List ==
  /\ At("list")
  /\ \E held \in SUBSET (IF place = None THEN {} ELSE files[place] \cap FileNames) :
       thread' = [thread EXCEPT !.step = "copy", !.held = held]
  /\ ThreadOnly /\ UNCHANGED folder

Gets(names) == files' = [files EXCEPT ![place] = @ \cup names]
Loses(names) == files' = [files EXCEPT ![place] = @ \ names]

(* Every path is resolved again. An archive gone meanwhile is passed over, *)
(* a copy there already is an error, and any call may fail.                *)
CopyNext ==
  /\ At("copy")
  /\ ThreadOnly /\ UNCHANGED marker
  /\ \/ \E n \in thread.names \ (thread.held \cup thread.done) :
          /\ \A o \in thread.names \ (thread.held \cup thread.done) : o[1] <= n[1]
          /\ place # None /\ n \notin files[place]
          /\ Gets({n} \cap archives)
          /\ thread' = [thread EXCEPT !.done = @ \cup {n}, !.copies = @ \cup ({n} \cap archives)]
     \/ /\ thread.names \subseteq thread.held \cup thread.done
        /\ thread' = [thread EXCEPT !.step = "stale", !.ours = @ \cup thread.copies]
        /\ UNCHANGED files

(* A copy of ours whose archive goes by another name now; the first that   *)
(* cannot be removed ends the pass.                                        *)
RemoveStale ==
  LET stale == {n \in thread.held \cap thread.ours :
                  n \notin thread.names /\ Other(n) \in thread.names}
  IN /\ At("stale") /\ place # None
     /\ ThreadOnly /\ UNCHANGED marker
     /\ \E gone \in SUBSET (stale \cap files[place]) :
          /\ Loses(gone)
          /\ thread' = [thread EXCEPT !.step = IF gone = stale THEN "prune" ELSE "failed"]

(* Mutant: whatever the folder holds counts and goes. *)
PruneWhateverIsThere ==
  LET Newer(n) == {o \in files[place] : o[1] > n[1] \/ (o[1] = n[1] /\ o[2] = "sealed" /\ n[2] = "plain")}
  IN /\ At("prune") /\ place # None
     /\ ThreadOnly /\ UNCHANGED marker
     /\ Loses({n \in files[place] : Cardinality(Newer(n)) >= Retention})
     /\ thread' = [thread EXCEPT !.step = "level", !.present = files'[place] \cap FileNames]

(* prune_in, the files that count and go being those of ours, but those    *)
(* that cannot be removed; then listed.                                    *)
PruneCopies ==
  LET mine == files[place] \cap thread.ours
      Newer(n) == {o \in mine : o[1] > n[1] \/ (o[1] = n[1] /\ o[2] = "sealed" /\ n[2] = "plain")}
  IN /\ At("prune") /\ place # None
     /\ ThreadOnly /\ UNCHANGED marker
     /\ \E gone \in SUBSET {n \in mine : Cardinality(Newer(n)) >= Retention} : Loses(gone)
     /\ \E end \in Ends :
          thread' = [thread EXCEPT !.step = end, !.present = files'[place] \cap FileNames]

ThreadFails ==
  /\ At("list") \/ At("copy") \/ At("stale") \/ At("prune")
  /\ thread' = [thread EXCEPT !.step = "failed"]
  /\ ThreadOnly /\ UNCHANGED folder

Ended == thread.step \in Ends
RunOnly == UNCHANGED <<archives, taken, place, folder, adopting, forgets, bounds, theirs>>

(* The run hears of the end, or gives up after a stall: whether the thread *)
(* goes on is asked before anything is recorded.                           *)
Watched ==
  /\ run = "watching"
  /\ run' = IF Ended THEN "recording" ELSE "recording gone on"
  /\ UNCHANGED <<rows, thread, unwritten>>
  /\ RunOnly

(* record_left: the folder, then the copies one by one, newest first, up   *)
(* to the first the database refuses. What is refused is only logged.      *)
Recorded ==
  \E written \in BOOLEAN, copies \in SUBSET thread.copies :
    /\ \A n \in copies, o \in thread.copies \ copies : o[1] <= n[1]
    /\ adopted' = (adopted \/ (thread.marked /\ written))
    /\ ours' = ours \cup copies
    /\ unwritten' = ((thread.marked /\ ~written) \/ copies # thread.copies)
Record ==
  /\ run \in {"recording", "recording gone on"}
  /\ Recorded
  /\ run' = IF run = "recording gone on" THEN "gone on"
            ELSE IF thread.step = "level" THEN "forgetting" ELSE None
  /\ thread' = IF run' = None THEN None ELSE thread
  /\ RunOnly

(* Mutant: the lock is held to the end and nothing recorded then. *)
GivenBackUnrecorded ==
  /\ run = "gone on" /\ Ended
  /\ run' = None /\ thread' = None
  /\ UNCHANGED <<rows, unwritten>>
  /\ RunOnly

(* record_once_ended                                                       *)
RecordEnded ==
  /\ run = "gone on" /\ Ended
  /\ Recorded
  /\ run' = None /\ thread' = None
  /\ RunOnly

(* Up to the first the database refuses.                                   *)
ForgetGone ==
  /\ run = "forgetting"
  /\ \E gone \in SUBSET (ours \ thread.present) : ours' = ours \ gone
  /\ run' = None /\ thread' = None
  /\ UNCHANGED <<adopted, unwritten>>
  /\ RunOnly

-----------------------------------------------------------------------------
(* The copy of an archive deleted by hand, behind the lock: whatever is    *)
(* there by its name, marker or not, recorded or not. None is left to      *)
(* remove when the share does not answer.                                  *)
Forget(n) ==
  /\ n \in forgets /\ run = None
  /\ forgets' = forgets \ {n}
  /\ \/ place # None /\ Loses({n})
     \/ UNCHANGED files
  /\ UNCHANGED <<archives, taken, place, marker, rows, run, thread, adopting, bounds, history>>

(* By hand, without the lock: the marker, then its row, which may be       *)
(* refused.                                                                *)
Adopt ==
  /\ place # None /\ ~adopting
  /\ marker' = marker \cup {place}
  /\ adopting' = TRUE
  /\ Changed
  /\ UNCHANGED <<archives, taken, place, files, rows, run, thread, forgets, restarts, history>>
Adopted ==
  /\ adopting
  /\ adopted' \in {adopted, TRUE} /\ adopting' = FALSE
  /\ UNCHANGED <<archives, taken, place, folder, ours, run, thread, forgets, bounds, history>>

(* The share is mounted, unmounted or swapped for another.                 *)
Mount(p) ==
  /\ p # place
  /\ place' = p
  /\ thread' = IF thread = None THEN None ELSE [thread EXCEPT !.swapped = TRUE]
  /\ Changed
  /\ UNCHANGED <<archives, taken, folder, rows, run, adopting, forgets, restarts, history>>

(* Another database copies into a place of its own.                        *)
OthersCopy(p, n) ==
  /\ n \notin files[p]
  /\ files' = [files EXCEPT ![p] = @ \cup {n}] /\ theirs' = [theirs EXCEPT ![p] = @ \cup {n}]
  /\ marker' = marker \cup {p}
  /\ Changed
  /\ UNCHANGED <<archives, taken, place, rows, run, thread, adopting, forgets, restarts, unwritten>>

Restart ==
  /\ restarts < MaxRestarts
  /\ restarts' = restarts + 1
  /\ run' = None /\ thread' = None /\ adopting' = FALSE /\ forgets' = {}
  /\ UNCHANGED <<archives, taken, place, folder, rows, changes, history>>

Next ==
  \/ Take \/ \E n \in FileNames : Reseal(n) \/ Remove(n) \/ Forget(n)
  \/ Begin \/ Look \/ List \/ CopyNext \/ RemoveStale \/ PruneCopies \/ ThreadFails
  \/ Watched \/ Record \/ RecordEnded \/ ForgetGone
  \/ Adopt \/ Adopted
  \/ \E p \in Places \cup {None} : Mount(p)
  \/ \E p \in Places, n \in Theirs : OthersCopy(p, n)
  \/ Restart

Spec == Init /\ [][Next]_vars

-----------------------------------------------------------------------------
(* When the lock goes back, what the thread left in the folder is on       *)
(* record, one given up on as well, unless the database refused a write of *)
(* the last recording, the server stopped or the share was swapped         *)
(* meanwhile: unrecorded, the marker reads as another database's, and a    *)
(* copy is never pruned (copy.rs Left).                                    *)
GivenBackRecorded ==
  (run # None /\ run' = None /\ restarts' = restarts /\ ~thread.swapped /\ ~unwritten') =>
    /\ thread.marked => adopted'
    /\ place # None => thread.copies \cap (files[place] \ theirs[place]) \subseteq ours'
RecordedWithTheLock == [][GivenBackRecorded]_vars

(* What other databases put in a place stays, but what goes by a name of   *)
(* an archive of this one; and no step of a pass begun with a folder       *)
(* recorded touches a place without its marker, unless another was mounted *)
(* under it (copy.rs bring_level).                                         *)
Named == {n \in FileNames : n[1] <= taken}
LeavesTheOthers ==
  \A p \in Places :
    /\ (theirs[p] \cap files[p]) \ files'[p] \subseteq Named
    /\ (thread' # thread /\ thread # None /\ thread.adopted /\ ~thread.swapped /\ p \notin marker) =>
         files'[p] = files[p] /\ p \notin marker'
KeepsToItsFolder == [][LeavesTheOthers]_vars

(* What others put in a place is theirs to remove.                         *)
TheirsStay == [][\A p \in Places : theirs[p] \cap files[p] \subseteq files'[p]]_vars
(* And a pass stays out of places without a marker, whatever is mounted.   *)
StaysOutUnmarked ==
  [][\A p \in Places :
       (thread' # thread /\ thread # None /\ thread.adopted /\ p \notin marker) => files'[p] = files[p]]_vars
(* What a copy left is on record, whatever the database answered.          *)
AlwaysRecorded ==
  [][(run # None /\ run' = None /\ restarts' = restarts /\ ~thread.swapped /\ thread.marked) => adopted']_vars
=============================================================================
