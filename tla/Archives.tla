------------------------------ MODULE Archives ------------------------------
(***************************************************************************)
(* The archives in the backup folder: taken under the backup lock, sealed  *)
(* and opened again as the passphrase changes, each by a file beside it    *)
(* that is named and the old one then removed, and pruned by kind.         *)
(*                                                                         *)
(* An archive is known by its stamp. It may have two files, one in the     *)
(* clear and one sealed, under a name of each form.                        *)
(***************************************************************************)
EXTENDS Naturals, FiniteSets

CONSTANTS
  MaxTaken,      \* archives taken in all; an archive's number is its age
  KindOf,        \* of each: "own", "app" taken by a key, "pre" before a migration
  Passphrases,
  Keeps,         \* counts `backup_retention_count` may have
  MaxSets, MaxCrashes, MaxDeleted, MaxFailures,
  None

Archive == 1..MaxTaken
Word == Passphrases \cup {None}
FileNames == Archive \X {"plain", "sealed"}
Conversions == [old: Word, new: Word]

SomeOfEach ==
  /\ KindOf \in [Archive -> {"own", "app", "pre"}]
  /\ None \notin Passphrases /\ Keeps \subseteq Nat \ {0}
  /\ {MaxSets, MaxCrashes, MaxDeleted, MaxFailures, MaxTaken} \subseteq Nat

VARIABLES
  setting,       \* `backup_passphrase`
  keep,          \* `backup_retention_count`
  plain,         \* archives with a file in the clear
  sealed,        \* of each archive, the passphrase its sealed file opens with
  taken,         \* archives taken so far
  saves,         \* saves of a passphrase that have read the old one
  waiting,       \* conversions that wait for the backup lock
  holder,        \* who holds it: a backup or a conversion
  pruning,       \* a count was saved and what is past it not yet listed
  past,          \* files listed as past a count saved, not yet removed
  sets, crashes, failures,
  deleted,       \* history: archives deleted by hand
  savedSince,    \* history: a passphrase saved since the last start
  failedSince,   \* history: a conversion failed or gave up since the last start
  midway         \* history: archives listed with two files, of which the one in the clear was past

folder == <<plain, sealed>>
vars ==
  <<setting, keep, folder, taken, saves, waiting, holder, pruning, past, sets, crashes, failures, deleted,
    savedSince, failedSince, midway>>
bounds == <<sets, crashes, failures>>
history == <<deleted, savedSince, failedSince, midway>>

Backup == [by: {"backup"}, word: Word, named: BOOLEAN]
\* `names` are those left, `name` the one in hand and `step` what comes next of it.
Conversion ==
  [by: {"conversion"}, old: Word, new: Word, names: SUBSET FileNames, name: FileNames \cup {None},
   step: {"next", "rename", "remove"}]

\* The lock in nobody's hands is told from one in somebody's.
NoneIsNothing == None \notin Backup \cup Conversion

TypeOK ==
  /\ setting \in Word /\ keep \in Keeps
  /\ plain \subseteq Archive /\ sealed \in [Archive -> Word] /\ taken \in 0..MaxTaken
  /\ saves \subseteq Conversions /\ waiting \subseteq Conversions
  /\ holder \in Backup \cup Conversion \cup {None}
  /\ {pruning, savedSince, failedSince} \subseteq BOOLEAN
  /\ sets \in 0..MaxSets /\ crashes \in 0..MaxCrashes /\ failures \in 0..MaxFailures
  /\ past \subseteq FileNames /\ {deleted, midway} \subseteq SUBSET Archive

Init ==
  /\ setting = None /\ keep \in Keeps
  /\ plain = {} /\ sealed = [a \in Archive |-> None] /\ taken = 0
  /\ saves = {} /\ waiting = {} /\ holder = None
  /\ pruning = FALSE /\ past = {}
  /\ sets = 0 /\ crashes = 0 /\ failures = 0
  /\ deleted = {} /\ savedSince = FALSE /\ failedSince = FALSE /\ midway = {}

Listed == (plain \X {"plain"}) \cup ({a \in Archive : sealed[a] # None} \X {"sealed"})
\* Newest first; of one archive, the sealed name sorts before the plain one.
Before(n, o) == n[1] > o[1] \/ (n[1] = o[1] /\ n[2] = "sealed" /\ o[2] = "plain")

Converting(step) == holder # None /\ holder.by = "conversion" /\ holder.step = step

-----------------------------------------------------------------------------
(* Taking, pruning and deleting                                            *)

(* The lock is tried, never waited for; the passphrase is read behind it.  *)
BeginBackup ==
  /\ holder = None /\ taken < MaxTaken /\ KindOf[taken + 1] # "pre"
  /\ holder' = [by |-> "backup", word |-> setting, named |-> FALSE]
  /\ UNCHANGED <<setting, keep, folder, taken, saves, waiting, pruning, past, bounds, history>>

Named(a, word) ==
  /\ plain' = IF word = None THEN plain \cup {a} ELSE plain
  /\ sealed' = [sealed EXCEPT ![a] = word]

(* Named once whole; one that fails is swept, nothing of it listed.        *)
NameArchive ==
  /\ holder # None /\ holder.by = "backup" /\ ~holder.named
  /\ \/ /\ Named(taken + 1, holder.word)
        /\ taken' = taken + 1
        /\ holder' = [holder EXCEPT !.named = TRUE]
     \/ holder' = None /\ UNCHANGED <<folder, taken>>
  /\ UNCHANGED <<setting, keep, saves, waiting, pruning, past, bounds, history>>

(* prune_in: the files of a kind past the count, those of before a         *)
(* migration never.                                                        *)
Past ==
  LET Newer(n) == {o \in Listed : KindOf[o[1]] = KindOf[n[1]] /\ Before(o, n)}
  IN {n \in Listed : KindOf[n[1]] # "pre" /\ Cardinality(Newer(n)) >= keep}

Without(names) ==
  /\ plain' = {a \in plain : <<a, "plain">> \notin names}
  /\ sealed' = [a \in Archive |-> IF <<a, "sealed">> \in names THEN None ELSE sealed[a]]

(* Behind the lock no file gets a name: only removals go on beside it.     *)
PruneAfterBackup ==
  /\ holder # None /\ holder.by = "backup" /\ holder.named
  /\ Without(Past)
  /\ holder' = None
  /\ UNCHANGED <<setting, keep, taken, saves, waiting, pruning, past, bounds, history>>

(* retention_changed, which takes no lock.                                 *)
SaveCount(k) ==
  /\ k # keep /\ ~pruning
  /\ keep' = k /\ pruning' = TRUE
  /\ UNCHANGED <<setting, folder, taken, saves, waiting, holder, past, bounds, history>>
ListPast ==
  /\ pruning /\ pruning' = FALSE
  /\ past' = past \cup Past
  /\ midway' = midway \cup
       {a \in plain : sealed[a] # None /\ <<a, "plain">> \in Past /\ <<a, "sealed">> \notin Past}
  /\ UNCHANGED
       <<setting, keep, folder, taken, saves, waiting, holder, bounds, deleted, savedSince,
         failedSince>>

(* One by one, by the name listed; one that cannot be removed stays.       *)
RemovePast(n) ==
  /\ n \in past /\ past' = past \ {n}
  /\ Without({n}) \/ UNCHANGED folder
  /\ UNCHANGED
       <<setting, keep, taken, saves, waiting, holder, pruning, bounds, history>>

(* By name, and without the lock.                                          *)
Delete(n) ==
  /\ n \in Listed /\ Cardinality(deleted) < MaxDeleted
  /\ Without({n})
  /\ deleted' = deleted \cup {n[1]}
  /\ UNCHANGED
       <<setting, keep, taken, saves, waiting, holder, pruning, past, bounds, savedSince, failedSince,
         midway>>

-----------------------------------------------------------------------------
(* A passphrase set, changed or removed                                    *)

BeginSave(new) ==
  /\ sets < MaxSets
  /\ sets' = sets + 1
  /\ saves' = saves \cup {[old |-> setting, new |-> new]}
  /\ UNCHANGED
       <<setting, keep, folder, taken, waiting, holder, pruning, past, crashes, failures, history>>

(* The conversion is a task of its own, in no order with the others; none  *)
(* is needed when the passphrase stays.                                    *)
Save(s) ==
  /\ s \in saves
  /\ saves' = saves \ {s}
  /\ setting' = s.new
  /\ waiting' = IF s.old = s.new THEN waiting ELSE waiting \cup {s}
  /\ savedSince' = TRUE
  /\ UNCHANGED <<keep, folder, taken, holder, pruning, past, bounds, deleted, failedSince, midway>>

BeginConversion(c) ==
  /\ holder = None /\ c \in waiting
  /\ waiting' = waiting \ {c}
  /\ holder' = [by |-> "conversion", old |-> c.old, new |-> c.new, names |-> Listed,
                name |-> None, step |-> "next"]
  /\ UNCHANGED <<setting, keep, folder, taken, saves, pruning, past, bounds, history>>

Fails == failures < MaxFailures /\ failures' = failures + 1 /\ failedSince' = TRUE
Works == UNCHANGED <<failures, failedSince>>

(* An hour behind a lock that does not come.                               *)
GiveUp(c) ==
  /\ holder # None /\ c \in waiting
  /\ waiting' = waiting \ {c}
  /\ Fails
  /\ UNCHANGED
       <<setting, keep, folder, taken, saves, holder, pruning, past, sets, crashes, deleted, savedSince,
         midway>>

(* Mutant: one in the clear waits for an old passphrase as well. *)
ConvertsWithOld(n) ==
  /\ n \in Listed /\ holder.old # None
  /\ IF n[2] = "plain" THEN holder.new # None
     ELSE sealed[n[1]] # holder.new /\ sealed[n[1]] = holder.old

(* Whether the file changes: it is there, not yet what it should be, and,  *)
(* sealed, opens with the old passphrase.                                  *)
Converts(n) ==
  /\ n \in Listed
  /\ IF n[2] = "plain" THEN holder.new # None
     ELSE sealed[n[1]] # holder.new /\ holder.old # None /\ sealed[n[1]] = holder.old

(* What it should be, written beside it under a hidden name.               *)
ConvertNext ==
  /\ Converting("next")
  /\ \E n \in holder.names :
       LET passed == [holder EXCEPT !.names = @ \ {n}] IN
       /\ \A o \in holder.names \ {n} : Before(n, o)
       /\ \/ Converts(n) /\ holder' = [passed EXCEPT !.name = n, !.step = "rename"] /\ Works
          \/ ~Converts(n) /\ holder' = passed /\ Works
          \/ Converts(n) /\ holder' = passed /\ Fails
  /\ UNCHANGED
       <<setting, keep, folder, taken, saves, waiting, pruning, past, sets, crashes, deleted, savedSince,
         midway>>

Target == IF holder.new = None THEN "plain" ELSE "sealed"

(* Over a file already of that name.                                       *)
RenameConverted ==
  LET a == holder.name[1] IN
  /\ Converting("rename")
  /\ plain' = IF Target = "plain" THEN plain \cup {a} ELSE plain
  /\ sealed' = IF Target = "sealed" THEN [sealed EXCEPT ![a] = holder.new] ELSE sealed
  /\ holder' = [holder EXCEPT !.step = "remove"]
  /\ UNCHANGED <<setting, keep, taken, saves, waiting, pruning, past, bounds, history>>

(* Mutant: the old name is removed where it is the new one too. *)
RemoveOldAlways ==
  LET n == holder.name IN
  /\ Converting("remove")
  /\ holder' = [holder EXCEPT !.name = None, !.step = "next"]
  /\ plain' = IF n[2] = "plain" THEN plain \ {n[1]} ELSE plain
  /\ sealed' = IF n[2] = "sealed" THEN [sealed EXCEPT ![n[1]] = None] ELSE sealed
  /\ UNCHANGED
       <<setting, keep, taken, saves, waiting, pruning, past, bounds, history>>

(* A file that cannot be removed stays, which is only logged.              *)
RemoveOld ==
  LET n == holder.name IN
  /\ Converting("remove")
  /\ holder' = [holder EXCEPT !.name = None, !.step = "next"]
  /\ \/ /\ plain' = IF n[2] = "plain" /\ Target # "plain" THEN plain \ {n[1]} ELSE plain
        /\ sealed' = IF n[2] = "sealed" /\ Target # "sealed"
                     THEN [sealed EXCEPT ![n[1]] = None] ELSE sealed
        /\ Works
     \/ n[2] # Target /\ Fails /\ UNCHANGED folder
  /\ UNCHANGED
       <<setting, keep, taken, saves, waiting, pruning, past, sets, crashes, deleted, savedSince,
         midway>>

EndConversion ==
  /\ Converting("next") /\ holder.names = {}
  /\ holder' = None
  /\ UNCHANGED <<setting, keep, folder, taken, saves, waiting, pruning, past, bounds, history>>

-----------------------------------------------------------------------------
(* What was under way is gone with the process. The start may migrate, an  *)
(* archive taken before, and seals what it finds in the clear.             *)
Restart ==
  LET pre == taken < MaxTaken /\ KindOf[taken + 1] = "pre" IN
  /\ crashes < MaxCrashes
  /\ crashes' = crashes + 1
  /\ \/ ~pre /\ UNCHANGED <<folder, taken>>
     \/ pre /\ Named(taken + 1, setting) /\ taken' = taken + 1
  /\ waiting' = IF setting # None /\ plain' # {} THEN {[old |-> None, new |-> setting]} ELSE {}
  /\ saves' = {} /\ holder' = None /\ pruning' = FALSE /\ past' = {}
  /\ savedSince' = FALSE /\ failedSince' = FALSE
  /\ UNCHANGED <<setting, keep, sets, failures, deleted, midway>>

Next ==
  \/ BeginBackup \/ NameArchive \/ PruneAfterBackup \/ ListPast
  \/ \E k \in Keeps : SaveCount(k)
  \/ \E n \in FileNames : Delete(n) \/ RemovePast(n)
  \/ \E new \in Word : BeginSave(new)
  \/ \E s \in saves : Save(s)
  \/ \E c \in waiting : BeginConversion(c) \/ GiveUp(c)
  \/ ConvertNext \/ RenameConverted \/ RemoveOld \/ EndConversion
  \/ Restart

Spec == Init /\ [][Next]_vars

-----------------------------------------------------------------------------
(* An archive not deleted by hand has a file, whatever stopped a           *)
(* conversion, unless a newer one of its kind was taken; one of before a   *)
(* migration always has (sealed.rs reseal_one, mod.rs prune_in). But for   *)
(* one a save of the count listed by two files.                            *)
Kept(a) ==
  \/ a \in plain \/ sealed[a] # None
  \/ KindOf[a] # "pre" /\ \E b \in (a + 1)..taken : KindOf[b] = KindOf[a]
NewestKept == \A a \in (1..taken) \ (deleted \cup midway) : Kept(a)
NewestKeptWhenPruned == \A a \in (1..taken) \ deleted : Kept(a)

(* After a start that holds a passphrase, once what it began has ended     *)
(* without a failure and none was saved since, no archive is in the clear  *)
(* (sealed.rs resume).                                                     *)
SealedAfterStart ==
  (crashes > 0 /\ setting # None /\ waiting = {} /\ holder = None /\ ~savedSince /\ ~failedSince)
    => plain = {}

(* Once nothing is under way and nothing failed or was stopped, every      *)
(* archive is brought to the passphrase (sealed.rs set).                   *)
BroughtToTheLast ==
  (crashes = 0 /\ failures = 0 /\ saves = {} /\ waiting = {} /\ holder = None)
    => \A n \in Listed : IF n[2] = "plain" THEN setting = None ELSE sealed[n[1]] = setting

(* An archive deleted stays so (mod.rs delete).                            *)
DeletedStays ==
  [][\A a \in deleted :
       (a \notin plain /\ sealed[a] = None) => (a \notin plain' /\ sealed'[a] = None)]_vars
=============================================================================
