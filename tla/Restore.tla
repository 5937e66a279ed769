------------------------------ MODULE Restore ------------------------------
(***************************************************************************)
(* A restore of Routarr, file by file. An archive is staged beside the     *)
(* files it replaces, by the server while it runs or by `routarr restore`  *)
(* while it does not, and the next start renames the staged files into     *)
(* place before it opens the database, setting aside the database          *)
(* replaced, its write-ahead log and the master key that opens it.         *)
(*                                                                         *)
(* Each file has one place under each suffix: live (no suffix), kept       *)
(* (.pre-restore), staging (.restore-staging) and pending                  *)
(* (.restore-pending). One action is one rename, one removal or one file   *)
(* written, and the process may die between any two. What was renamed or   *)
(* removed stays so: a loss of power that undoes it is not modelled.       *)
(*                                                                         *)
(* The master key and the API key are those of the files: neither          *)
(* ROUTARR_SECRET_KEY, ROUTARR_API_KEY nor ROUTARR_ALLOW_NEW_MASTER_KEY is *)
(* set.                                                                    *)
(***************************************************************************)
EXTENDS Naturals, FiniteSets

CONSTANTS
  Archives,     \* the archives an operator may restore
  Keys,         \* master keys
  KeyOf,        \* the key that sealed the credentials of an archive's database
  Carries,      \* the archives that carry their master key
  CarriesApi,   \* the archives that carry an API key
  ArrSealed,    \* the archives whose database holds an Arr's API key, sealed;
                \* what the others hold sealed is settings and webhook secrets
  Home,         \* the key of the installation the host begins with
  Here,         \* an API key made on this host
  None,         \* no archive, no key, no file
  ApiKeyMode,   \* ROUTARR_AUTH=apikey: a start without an API key makes one
  Offline,      \* whether `routarr restore` is run
  MaxCopies,    \* bound: databases written, by a staging or by a first start
  MaxCrashes,   \* bound: deaths of the process
  MaxRejects,   \* bound: pending databases a start does not accept
  MaxWords      \* bound: API keys minted or withdrawn by the owner

ASSUME ConstantsAssumption ==
  /\ KeyOf \in [Archives -> Keys]
  /\ Carries \subseteq Archives
  /\ CarriesApi \subseteq Archives
  /\ ArrSealed \subseteq Archives
  /\ Home \in Keys
  /\ None \notin Archives \cup Keys \cup {Here}
  /\ Here \notin Archives
  /\ {ApiKeyMode, Offline} \subseteq BOOLEAN
  /\ {MaxCopies, MaxCrashes, MaxRejects, MaxWords} \subseteq Nat

VARIABLES
  \* The data directory.
  live,        \* the files the server opens
  kept,        \* the database the last restore replaced, its log and its key
  staging,     \* what a staging extracts
  pending,     \* what the next start applies
  note,        \* the archive the note beside the pending database names
  \* The process.
  pc,          \* what it is: off, a start at one of its steps, up, a command
  task,        \* the staging or the withdrawal that holds the "restore" lock
  discarding,  \* the file discard_pending removes next
  deleting,    \* the file delete_replaced_database removes next
  changing,    \* a change of the API key half made
  \* History, read by the properties alone.
  served,      \* the database last served
  word,        \* the owner's last word on the API key, until a restore staged
               \* before it undoes it
  stale,       \* the sets staged before that word: pending, being staged
  \* Bounds.
  copies, crashes, rejects, words

files == <<live, kept, staging, pending, note>>
asked == <<deleting, changing>>
work == <<task, discarding, asked>>
past == <<served, word, stale, copies, crashes, rejects, words>>
vars == <<live, kept, staging, pending, note, pc, task, discarding, deleting,
          changing, served, word, stale, copies, crashes, rejects, words>>

Parts == {"db", "key", "api"}
Archive == Archives \cup {None}
Key == Keys \cup {None}
ApiKey == Archives \cup {Here, None}

\* A database file: which copy it is (0: there is none), the archive it comes
\* from, the key its credentials are sealed with, and whether it records that
\* the API key was withdrawn.
Db == [copy: Nat, of: Archive, seal: Key, withdrawn: BOOLEAN]
NoDb == [copy |-> 0, of |-> None, seal |-> None, withdrawn |-> FALSE]

\* A write-ahead log is named by the copy of the database it belongs to.
Log == Nat

FileSet == [db: Db, key: Key, api: ApiKey]
NoSet == [db |-> NoDb, key |-> None, api |-> None]
Live == [db: Db, log: Log, key: Key, api: ApiKey]
Kept == [db: Db, log: Log, key: Key]

StartPCs == {"swept", "key", "database", "log", "api", "masterkey", "base",
             "note", "rejected", "opening", "opened"}
PCs == StartPCs \cup {"off", "up", "offline"}
ExtractPCs == {"db", "key", "api", "withdrawals", "opens", "carry"}
PendPCs == {"pend api", "pend key", "pend db"}
TaskPCs == {"idle", "discard", "note", "dropped", "withdrawing"}
             \cup ExtractPCs \cup PendPCs
Task == [pc: TaskPCs, of: Archive, brought: SUBSET Parts, withdrawn: BOOLEAN]
Idle == [pc |-> "idle", of |-> None, brought |-> {}, withdrawn |-> FALSE]

Exists(db) == db.copy # 0

\* The files of a set but those of the parts named.
Without(set, parts) ==
  [db  |-> IF "db" \in parts THEN NoDb ELSE set.db,
   key |-> IF "key" \in parts THEN None ELSE set.key,
   api |-> IF "api" \in parts THEN None ELSE set.api]

TypeOK ==
  /\ live \in Live
  /\ kept \in Kept
  /\ staging \in FileSet
  /\ pending \in FileSet
  /\ note \in Archive
  /\ pc \in PCs
  /\ task \in Task
  /\ discarding \in Parts \cup {"no", "note"}
  /\ deleting \in {"no", "log", "db", "key"}
  /\ changing \in {"no", "clear", "rotate"}
  /\ served \in Nat
  /\ word \in {"none", "issued", "withdrawn"}
  /\ stale \subseteq {"pending", "task"}
  /\ copies \in Nat
  /\ crashes \in Nat
  /\ rejects \in Nat
  /\ words \in Nat

\* A host that never started, or one whose server stopped.
Init ==
  /\ \/ live = [db |-> NoDb, log |-> 0, key |-> None, api |-> None] /\ copies = 0
     \/ \E seal \in {None, Home}, api \in {None, Here} :
          /\ ApiKeyMode => api = Here
          /\ live = [db |-> [NoDb EXCEPT !.copy = 1, !.seal = seal], log |-> 0,
                     key |-> Home, api |-> api]
          /\ copies = 1
  /\ kept = [db |-> NoDb, log |-> 0, key |-> None]
  /\ staging = NoSet
  /\ pending = NoSet
  /\ note = None
  /\ pc = "off"
  /\ task = Idle
  /\ discarding = "no"
  /\ deleting = "no"
  /\ changing = "no"
  /\ served = live.db.copy
  /\ word = "none"
  /\ stale = {}
  /\ crashes = 0 /\ rejects = 0 /\ words = 0

-----------------------------------------------------------------------------
(***************************************************************************)
(* Discarding what is pending, file by file.                               *)
(***************************************************************************)

\* Which file is removed after which: the database goes before its keys.
DiscardKeysFirst ==
  [no |-> "key", key |-> "api", api |-> "db", db |-> "note", note |-> "no"]
DiscardOrder ==
  [no |-> "db", db |-> "note", note |-> "key", key |-> "api", api |-> "no"]

Discard == discarding' = DiscardOrder["no"]

DiscardNext ==
  /\ discarding # "no"
  /\ pending' = Without(pending, {discarding})
  /\ note' = IF discarding = "note" THEN None ELSE note
  /\ discarding' = DiscardOrder[discarding]
  /\ UNCHANGED <<live, kept, staging, pc, task, asked, past>>

-----------------------------------------------------------------------------
(***************************************************************************)
(* Staging an archive, under the "restore" lock.                           *)
(***************************************************************************)

TaskAt(step) == task.pc = step /\ discarding = "no"

\* `routarr restore` closes the database it read, and a close folds the log.
EndTask ==
  /\ task' = Idle
  /\ pc' = IF pc = "offline" THEN "off" ELSE pc
  /\ live' = IF pc = "offline" /\ Exists(live.db) THEN [live EXCEPT !.log = 0] ELSE live

StageBegin(a) ==
  /\ task.pc = "idle"
  /\ copies < MaxCopies
  /\ \/ pc = "up" /\ UNCHANGED pc
     \/ pc = "off" /\ Offline /\ pc' = "offline"
  /\ task' = [Idle EXCEPT !.pc = "db", !.of = a]
  /\ stale' = stale \ {"task"}
  /\ UNCHANGED <<files, discarding, asked, served, word, copies, crashes,
                 rejects, words>>

ExtractDatabase ==
  /\ TaskAt("db")
  /\ copies' = copies + 1
  /\ staging' = [staging EXCEPT !.db = [copy |-> copies + 1, of |-> task.of,
                                        seal |-> KeyOf[task.of], withdrawn |-> FALSE]]
  /\ task' = [task EXCEPT !.pc = "key", !.brought = {"db"}]
  /\ UNCHANGED <<live, kept, pending, note, pc, discarding, asked, served,
                 word, stale, crashes, rejects, words>>

ExtractKey ==
  /\ TaskAt("key")
  /\ staging' = IF task.of \in Carries THEN [staging EXCEPT !.key = KeyOf[task.of]]
                ELSE staging
  /\ task' = [task EXCEPT !.pc = "api", !.brought =
                @ \cup {part \in {"key"} : task.of \in Carries}]
  /\ UNCHANGED <<live, kept, pending, note, pc, discarding, asked, past>>

\* What an archive's entry for the API key holds.
ApiKeyEntry(a) == a

ExtractApi ==
  /\ TaskAt("api")
  /\ staging' = IF task.of \in CarriesApi
                THEN [staging EXCEPT !.api = ApiKeyEntry(task.of)] ELSE staging
  /\ task' = [task EXCEPT !.pc = "withdrawals", !.brought =
                @ \cup {part \in {"api"} : task.of \in CarriesApi}]
  /\ UNCHANGED <<live, kept, pending, note, pc, discarding, asked, past>>

ReadWithdrawals ==
  /\ TaskAt("withdrawals")
  /\ task' = [task EXCEPT !.pc = "opens", !.withdrawn = live.db.withdrawn]
  /\ UNCHANGED <<files, pc, discarding, asked, past>>

\* The key the next start will open the staged database with: the one brought
\* back, or else the one in place.
KeyBroughtBack == staging.key
NextStartKey == IF staging.key # None THEN staging.key ELSE live.key

\* It is tried on the API key of an Arr alone, where the start tries the settings
\* and the webhook secrets too: an archive without one passes with any key.
OpenedByTheNextStart ==
  /\ TaskAt("opens")
  /\ task.of \in ArrSealed => NextStartKey \in {None, staging.db.seal}
  /\ task' = [task EXCEPT !.pc = "carry"]
  /\ UNCHANGED <<files, pc, discarding, asked, past>>

\* What the staged database says of the API key: the withdrawals of the database
\* in place carry over.
WithdrawalsOfTheArchive == staging.db.withdrawn
Withdrawals == staging.db.withdrawn \/ live.db.withdrawn

KeepTodaysCredentials ==
  /\ TaskAt("carry")
  /\ staging' = [staging EXCEPT !.db.withdrawn = Withdrawals]
  /\ task' = [task EXCEPT !.pc = "discard"]
  /\ UNCHANGED <<live, kept, pending, note, pc, discarding, asked, past>>

\* The archive is damaged, its database refused, its credentials sealed with
\* another key, or a file cannot be written: what was extracted is removed.
StageRefused ==
  /\ \E step \in ExtractPCs \cup {"note"} : TaskAt(step)
  /\ staging' = Without(staging, task.brought)
  /\ EndTask
  /\ UNCHANGED <<kept, pending, note, discarding, asked, past>>

\* The earlier restore goes whole before this one is pending.
KeepEarlier ==
  /\ TaskAt("discard")
  /\ task' = [task EXCEPT !.pc = "note"]
  /\ UNCHANGED <<files, pc, discarding, asked, past>>

DiscardEarlier ==
  /\ TaskAt("discard")
  /\ Discard
  /\ task' = [task EXCEPT !.pc = "note"]
  /\ UNCHANGED <<files, pc, asked, past>>

WriteNote ==
  /\ TaskAt("note")
  /\ note' = task.of
  /\ task' = [task EXCEPT !.pc = "pend api"]
  /\ stale' = IF "task" \in stale THEN stale ELSE {}
  /\ UNCHANGED <<live, kept, staging, pending, pc, discarding, asked, served,
                 word, copies, crashes, rejects, words>>

\* An API key is not brought back over one in use, nor one withdrawn.
ApiKeyKept == live.api # None \/ task.withdrawn

PendApi ==
  /\ TaskAt("pend api")
  /\ IF "api" \in task.brought
     THEN /\ staging' = Without(staging, {"api"})
          /\ pending' = IF ApiKeyKept THEN pending
                        ELSE [pending EXCEPT !.api = staging.api]
     ELSE UNCHANGED <<staging, pending>>
  /\ task' = [task EXCEPT !.pc = "pend key"]
  /\ UNCHANGED <<live, kept, note, pc, discarding, asked, past>>

PendKey ==
  /\ TaskAt("pend key")
  /\ IF "key" \in task.brought
     THEN /\ staging' = Without(staging, {"key"})
          /\ pending' = [pending EXCEPT !.key = staging.key]
     ELSE UNCHANGED <<staging, pending>>
  /\ task' = [task EXCEPT !.pc = "pend db"]
  /\ UNCHANGED <<live, kept, note, pc, discarding, asked, past>>

PendDatabase ==
  /\ TaskAt("pend db")
  /\ staging' = Without(staging, {"db"})
  /\ pending' = [pending EXCEPT !.db = staging.db]
  /\ EndTask
  /\ UNCHANGED <<kept, note, discarding, asked, past>>

\* A rename fails: what is pending is discarded, then what was extracted.
PendFails ==
  /\ \E step \in PendPCs : TaskAt(step)
  /\ Discard
  /\ task' = [task EXCEPT !.pc = "dropped"]
  /\ UNCHANGED <<files, pc, asked, past>>

PendDropped ==
  /\ TaskAt("dropped")
  /\ staging' = Without(staging, task.brought)
  /\ EndTask
  /\ UNCHANGED <<kept, pending, note, discarding, asked, past>>

StageStep ==
  \/ ExtractDatabase \/ ExtractKey \/ ExtractApi
  \/ ReadWithdrawals \/ OpenedByTheNextStart \/ KeepTodaysCredentials
  \/ StageRefused \/ DiscardEarlier \/ WriteNote
  \/ PendApi \/ PendKey \/ PendDatabase \/ PendFails \/ PendDropped

Stage == StageStep \/ \E a \in Archives : StageBegin(a)

-----------------------------------------------------------------------------
(***************************************************************************)
(* What else is asked of a server that is up.                              *)
(***************************************************************************)

WithdrawBegin ==
  /\ pc = "up"
  /\ task.pc = "idle"
  /\ pending # NoSet
  /\ task' = [Idle EXCEPT !.pc = "withdrawing"]
  /\ Discard
  /\ UNCHANGED <<files, pc, asked, past>>

WithdrawEnd ==
  /\ TaskAt("withdrawing")
  /\ EndTask
  /\ UNCHANGED <<kept, staging, pending, note, discarding, asked, past>>

\* The write-ahead log first and the key last.
DeleteOrder == [no |-> "log", log |-> "db", db |-> "key", key |-> "no"]

DeleteReplaced ==
  /\ pc = "up"
  /\ deleting' = DeleteOrder[deleting]
  /\ kept' = [db  |-> IF deleting = "db" THEN NoDb ELSE kept.db,
              log |-> IF deleting = "log" THEN 0 ELSE kept.log,
              key |-> IF deleting = "key" THEN None ELSE kept.key]
  /\ UNCHANGED <<live, staging, pending, note, pc, task, discarding, changing, past>>

\* The first credential stored is sealed with the key in place.
SealCredential ==
  /\ pc = "up"
  /\ live.db.seal = None
  /\ live' = [live EXCEPT !.db.seal = live.key]
  /\ UNCHANGED <<kept, staging, pending, note, pc, work, past>>

\* The owner changes the API key, with a restore staged or being staged or not.
Said(said) ==
  /\ pc = "up"
  /\ changing = "no"
  /\ words < MaxWords
  /\ words' = words + 1
  /\ word' = said
  /\ stale' = {"pending"} \cup (IF task.pc = "idle" THEN {} ELSE {"task"})
  /\ UNCHANGED <<kept, staging, pending, note, pc, task, discarding, deleting,
                 served, copies, crashes, rejects>>

\* The withdrawal is recorded first, and the file removed next.
ClearApiKey ==
  /\ ~ApiKeyMode
  /\ Said("withdrawn")
  /\ live' = [live EXCEPT !.db.withdrawn = TRUE]
  /\ changing' = "clear"

\* The file is written first, and the withdrawal forgotten next.
RotateApiKey ==
  /\ Said("issued")
  /\ live' = [live EXCEPT !.api = Here]
  /\ changing' = "rotate"

ApiKeyChanged ==
  /\ pc = "up"
  /\ changing # "no"
  /\ live' = IF changing = "clear" THEN [live EXCEPT !.api = None]
             ELSE [live EXCEPT !.db.withdrawn = FALSE]
  /\ changing' = "no"
  /\ UNCHANGED <<kept, staging, pending, note, pc, task, discarding, deleting,
                 past>>

Operate ==
  \/ WithdrawBegin \/ WithdrawEnd \/ DeleteReplaced
  \/ SealCredential \/ ClearApiKey \/ RotateApiKey \/ ApiKeyChanged

-----------------------------------------------------------------------------
(***************************************************************************)
(* A start, from the leftovers it sweeps to the database it opens.         *)
(***************************************************************************)

StartAt(step) == pc = step /\ discarding = "no"

SweepLeftovers ==
  /\ pc = "off"
  /\ staging' = NoSet
  /\ note' = IF Exists(pending.db) THEN note ELSE None
  /\ pc' = "swept"
  /\ UNCHANGED <<live, kept, pending, work, past>>

NothingPending ==
  /\ StartAt("swept")
  /\ pending = NoSet
  /\ pc' = "opening"
  /\ UNCHANGED <<files, work, past>>

\* Keys pending alone are an interrupted staging; a database may be at a schema
\* the build that starts does not know, or damaged.
RejectPending ==
  /\ StartAt("swept")
  /\ pending # NoSet
  /\ IF Exists(pending.db) THEN rejects < MaxRejects /\ rejects' = rejects + 1
     ELSE UNCHANGED rejects
  /\ Discard
  /\ pc' = "rejected"
  /\ UNCHANGED <<files, task, asked, served, word, stale, copies, crashes,
                 words>>

Rejected ==
  /\ StartAt("rejected")
  /\ pc' = "opening"
  /\ UNCHANGED <<files, work, past>>

AcceptPending ==
  /\ StartAt("swept")
  /\ Exists(pending.db)
  /\ pc' = "key"
  /\ UNCHANGED <<files, work, past>>

\* The key that opens the database set aside goes with it when the restore
\* brings another; otherwise the key in place opens both. With no database in
\* place, a start was stopped past the rename and the key kept is its own.
AnyKeyInPlace == live.key # None
KeyToSetAside == Exists(live.db) /\ live.key # None

SetTheKeyAside ==
  /\ StartAt("key")
  /\ IF ~KeyToSetAside THEN UNCHANGED <<live, kept>>
     ELSE IF pending.key \in {None, live.key}
     THEN kept' = [kept EXCEPT !.key = None] /\ UNCHANGED live
     ELSE /\ kept' = [kept EXCEPT !.key = live.key]
          /\ live' = [live EXCEPT !.key = None]
  /\ pc' = "database"
  /\ UNCHANGED <<staging, pending, note, work, past>>

\* With no database in place there is none to set aside: the start goes on to the
\* log, which is handled by its path.
WithoutDatabase(step, db) ==
  /\ StartAt("database")
  /\ ~Exists(live.db)
  /\ kept' = [kept EXCEPT !.db = db]
  /\ pc' = step
  /\ UNCHANGED <<live, staging, pending, note, work, past>>

\* In place of the last: the log left where it is, a database set aside before
\* removed first, a start that gives up.
LeaveTheLog == WithoutDatabase("api", kept.db)
DropTheKept == WithoutDatabase("log", NoDb)
GiveUp == WithoutDatabase("off", kept.db)
NoneToSetAside == WithoutDatabase("log", kept.db)

\* The log an earlier restore kept goes before the database is renamed.
SetTheDatabaseAside ==
  /\ StartAt("database")
  /\ Exists(live.db)
  /\ IF kept.log # 0
     THEN kept' = [kept EXCEPT !.log = 0] /\ UNCHANGED <<live, pc>>
     ELSE /\ kept' = [kept EXCEPT !.db = live.db]
          /\ live' = [live EXCEPT !.db = NoDb]
          /\ pc' = "log"
  /\ UNCHANGED <<staging, pending, note, work, past>>

SetTheLogAside ==
  /\ StartAt("log")
  /\ live' = [live EXCEPT !.log = 0]
  /\ kept' = IF live.log # 0 /\ kept.log = 0 THEN [kept EXCEPT !.log = live.log]
             ELSE kept
  /\ pc' = "api"
  /\ UNCHANGED <<staging, pending, note, work, past>>

RestoreApi ==
  /\ StartAt("api")
  /\ IF pending.api = None THEN UNCHANGED <<live, pending>>
     ELSE /\ live' = [live EXCEPT !.api = pending.api]
          /\ pending' = Without(pending, {"api"})
  /\ pc' = "masterkey"
  /\ UNCHANGED <<kept, staging, note, work, past>>

RestoreKey ==
  /\ StartAt("masterkey")
  /\ IF pending.key = None THEN UNCHANGED <<live, pending>>
     ELSE /\ live' = [live EXCEPT !.key = pending.key]
          /\ pending' = Without(pending, {"key"})
  /\ pc' = "base"
  /\ UNCHANGED <<kept, staging, note, work, past>>

RestoreDatabase ==
  /\ StartAt("base")
  /\ live' = [live EXCEPT !.db = pending.db]
  /\ pending' = Without(pending, {"db"})
  /\ pc' = "note"
  /\ word' = IF "pending" \in stale THEN "none" ELSE word
  /\ UNCHANGED <<kept, staging, note, work, served, stale, copies, crashes,
                 rejects, words>>

RemoveNote ==
  /\ StartAt("note")
  /\ note' = None
  /\ pc' = "opening"
  /\ UNCHANGED <<live, kept, staging, pending, work, past>>

\* An API key is made when the mode asks for one, a database when there is
\* none; from here on a write-ahead log lies beside the database.
OpenPool ==
  /\ StartAt("opening")
  /\ LET made == [NoDb EXCEPT !.copy = copies + 1]
         db == IF Exists(live.db) THEN live.db ELSE made
     IN  live' = [live EXCEPT !.db = db, !.log = db.copy,
                             !.api = IF ApiKeyMode /\ @ = None THEN Here ELSE @]
  /\ copies' = IF Exists(live.db) THEN copies ELSE copies + 1
  /\ pc' = "opened"
  /\ UNCHANGED <<kept, staging, pending, note, work, served, word, stale,
                 crashes, rejects, words>>

\* Keys some file, some database or some archive still needs.
KeysInUse ==
  {kept.key, staging.key, pending.key, live.db.seal, kept.db.seal,
   pending.db.seal} \cup {KeyOf[a] : a \in Archives}

\* A start without a key makes one, unless something is sealed; with a key
\* that does not open what is sealed, it is refused.
StartServes ==
  /\ StartAt("opened")
  /\ \/ live.key = None /\ live.db.seal = None
        /\ \E k \in Keys \ KeysInUse : live' = [live EXCEPT !.key = k]
     \/ live.key # None /\ live.db.seal \in {None, live.key} /\ UNCHANGED live
  /\ pc' = "up"
  /\ served' = live.db.copy
  /\ UNCHANGED <<kept, staging, pending, note, work, word, stale, copies,
                 crashes, rejects, words>>

StartRefused ==
  /\ StartAt("opened")
  /\ live.db.seal \notin {None, live.key}
  /\ pc' = "off"
  /\ UNCHANGED <<files, work, past>>

Start ==
  \/ SweepLeftovers
  \/ NothingPending \/ RejectPending \/ Rejected \/ AcceptPending
  \/ SetTheKeyAside \/ NoneToSetAside \/ SetTheDatabaseAside
  \/ SetTheLogAside
  \/ RestoreApi \/ RestoreKey \/ RestoreDatabase \/ RemoveNote
  \/ OpenPool \/ StartServes \/ StartRefused

-----------------------------------------------------------------------------

\* The process is gone, and with it all but the files.
Gone ==
  /\ pc' = "off"
  /\ task' = Idle
  /\ discarding' = "no"
  /\ deleting' = "no"
  /\ changing' = "no"
  /\ UNCHANGED <<kept, staging, pending, note, served, word, stale, copies,
                 rejects, words>>

\* A stop folds the log into the database.
Stop ==
  /\ pc = "up"
  /\ live' = [live EXCEPT !.log = 0]
  /\ Gone
  /\ UNCHANGED crashes

Crash ==
  /\ pc # "off"
  /\ crashes < MaxCrashes
  /\ crashes' = crashes + 1
  /\ Gone
  /\ UNCHANGED live

Next == DiscardNext \/ Stage \/ Operate \/ Start \/ Stop \/ Crash

Spec == Init /\ [][Next]_vars

\* A start, a staging and a removal under way go on, and a server that is gone
\* is some time started again, whatever commands are run meanwhile.
FairSpec ==
  /\ Spec
  /\ SF_vars(SweepLeftovers)
  /\ WF_vars(Start) /\ WF_vars(StageStep) /\ WF_vars(DiscardNext)

-----------------------------------------------------------------------------
(***************************************************************************)
(* What must hold.                                                         *)
(***************************************************************************)

\* A start that restores a database restores the keys of the same archive: the
\* pending key and API key are its own, and a key it carries is pending or, once
\* a start was stopped past its rename, in place.
PendingOfOneArchive ==
  LET a == pending.db.of
  IN  Exists(pending.db) =>
        /\ pending.key \in {None} \cup {KeyOf[c] : c \in Carries \cap {a}}
        /\ pending.api \in {None} \cup (CarriesApi \cap {a})
        /\ a \in Carries => KeyOf[a] \in {pending.key, live.key}

\* The archive the Backups card says will be applied is the one pending.
NoteNamesPending == Exists(pending.db) => note = pending.db.of

\* SQLite never opens a database beside another database's write-ahead log,
\* whose frames it would replay: not a start, not `routarr restore`.
LogOfItsDatabase ==
  pc = "opening" \/ (pc = "offline" /\ Exists(live.db))
    => live.log \in {0, live.db.copy}

\* Once a start serves, the database the restore set aside can be opened: with
\* its own log beside it, and with the key kept or else the one in place.
KeptOpens ==
  pc = "up" /\ Exists(kept.db) =>
    /\ kept.log \in {0, kept.db.copy}
    /\ kept.db.seal \in {None, kept.key, live.key}

\* The databases a start tries nothing of that the staging did not: one made here,
\* and one of an archive that holds an Arr's key.
Tried(db) == db.of \in ArrSealed \cup {None}

\* No restore of an archive that holds an Arr's key ends in a start that is
\* refused for its master key: what the staging opened with the key it foresaw,
\* the start opens with the key it finds.
NeverRefused == pc = "opened" /\ Tried(live.db) => live.db.seal \in {None, live.key}

\* The database last served is never lost: it is in place, or set aside.
LastServedKept == served \in {0, live.db.copy, kept.db.copy}

\* The key brought back by a restore replaces none in use, and is not one the
\* owner withdrew.
BroughtBack ==
  /\ live.api = None
  /\ word # "withdrawn"

\* Nothing said before the archive was staged is undone by its restore, nor by
\* the restores after it.
NoKeyWithdrawnBefore ==
  [][pc = "api" /\ pending.api # None /\ pending'.api = None
       => "pending" \in stale \/ BroughtBack]_vars

\* The same whenever it was said (the comment in stage, and SECURITY.md).
NoKeyWithdrawn ==
  [][pc = "api" /\ pending.api # None /\ pending'.api = None
       => BroughtBack]_vars

\* A pending database that was checked opens with the key the start that
\* applies it finds.
StagedOpens ==
  LET found == IF pending.key # None THEN pending.key ELSE live.key
  IN  Exists(pending.db) => found \in {None, pending.db.seal}

\* A start that rejects what is pending keeps the database in place, and keeps
\* it open.
CurrentDatabaseKept ==
  [][pc = "rejected" /\ pc' = "opening"
       => /\ live.db.copy = served
          /\ live.db.seal \in {None, live.key}]_vars

\* A database set aside leaves its place empty only until some start.
DatabaseBack == ~Exists(live.db) ~> Exists(live.db)
=============================================================================
