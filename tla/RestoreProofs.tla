--------------------------- MODULE RestoreProofs ---------------------------
(***************************************************************************)
(* A restore, for any archives, keys and bounds. First, whoever restores:  *)
(* what is pending is of one archive, and its note names that archive.     *)
(* Neither holds by itself: the staging writes the note and renames the    *)
(* keys before the database, so the invariant says what each of its steps  *)
(* has left in the files, and in which order a set is discarded.           *)
(*                                                                         *)
(* Then, where the server alone restores: no database served is lost, each *)
(* is opened beside its own log, with its own key, and no API key comes    *)
(* back once it was withdrawn. What is at each place follows from the step *)
(* of the start and from what is pending.                                  *)
(***************************************************************************)
EXTENDS Restore, TLAPS

\* A staging is of an archive.
TaskOfArchive ==
  task.pc \notin {"idle", "withdrawing"} => task.of \in Archives

\* A staging or a withdrawal is of a server that is up, or of a command.
TaskInProcess == task.pc # "idle" => pc \in {"up", "offline"}

\* Files are discarded on behalf of a staging, a withdrawal or a start.
DiscardUnderWay ==
  discarding # "no" =>
    task.pc \in {"note", "dropped", "withdrawing"} \/ pc = "rejected"

\* What is discarded loses its database first and its API key last. A start
\* removes the note once the database is in place.
DatabaseFirst ==
  /\ discarding \in {"note", "key", "api"} => pending.db = NoDb
  /\ discarding = "api" => pending.key = None
  /\ pc = "note" => pending.db = NoDb

\* The steps of a staging from the extraction of the key to the first rename.
KeyExtracted ==
  {"api", "withdrawals", "opens", "carry", "discard", "note"}

\* What a staging extracted is of its archive, until it is renamed.
ExtractedOfTask ==
  /\ task.pc \in {"key"} \cup KeyExtracted \cup PendPCs => staging.db.of = task.of
  /\ task.pc \in KeyExtracted \cup {"pend api", "pend key"} =>
       /\ "key" \in task.brought <=> task.of \in Carries
       /\ task.of \in Carries => staging.key = KeyOf[task.of]
  /\ task.pc \in KeyExtracted \cup {"pend api"} /\ "api" \in task.brought =>
       task.of \in CarriesApi /\ staging.api = task.of
  /\ task.pc \in {"db", "key", "api"} => "api" \notin task.brought
  /\ task.pc \in {"db", "key"} => "key" \notin task.brought

\* What a staging has pended is of its archive, and lies on an empty place.
PendedOfTask ==
  /\ (task.pc = "note" /\ discarding = "no") \/ task.pc = "pend api" => pending = NoSet
  /\ task.pc \in PendPCs => pending.db = NoDb /\ note = task.of
  /\ task.pc = "pend key" => pending.key = None
  /\ task.pc \in {"pend key", "pend db"} =>
       pending.api \in {None} \cup (CarriesApi \cap {task.of})
  /\ task.pc = "pend db" =>
       /\ pending.key \in {None} \cup {KeyOf[c] : c \in Carries \cap {task.of}}
       /\ task.of \in Carries => pending.key = KeyOf[task.of]

\* The inductive invariant.
IInv ==
  /\ TypeOK
  /\ TaskOfArchive
  /\ TaskInProcess
  /\ DiscardUnderWay
  /\ DatabaseFirst
  /\ ExtractedOfTask
  /\ PendedOfTask
  /\ PendingOfOneArchive
  /\ NoteNamesPending

-----------------------------------------------------------------------------
(***************************************************************************)
(* The records keep their types under the updates the actions make.        *)
(***************************************************************************)

LEMMA NoDbType == NoDb \in Db
BY DEF NoDb, Db, Archive, Key

LEMMA NoSetType == NoSet \in FileSet
BY NoDbType DEF NoSet, FileSet, Key, ApiKey

LEMMA IdleType == Idle \in Task
BY DEF Idle, Task, TaskPCs, Archive, Parts

LEMMA LiveDb ==
  ASSUME NEW set \in Live, NEW db \in Db
  PROVE  [set EXCEPT !.db = db] \in Live
BY DEF Live

LEMMA LiveLog ==
  ASSUME NEW set \in Live, NEW log \in Log
  PROVE  [set EXCEPT !.log = log] \in Live
BY DEF Live

LEMMA LiveKey ==
  ASSUME NEW set \in Live, NEW key \in Key
  PROVE  [set EXCEPT !.key = key] \in Live
BY DEF Live

LEMMA LiveApi ==
  ASSUME NEW set \in Live, NEW api \in ApiKey
  PROVE  [set EXCEPT !.api = api] \in Live
BY DEF Live

LEMMA KeptDb ==
  ASSUME NEW set \in Kept, NEW db \in Db
  PROVE  [set EXCEPT !.db = db] \in Kept
BY DEF Kept

LEMMA KeptLog ==
  ASSUME NEW set \in Kept, NEW log \in Log
  PROVE  [set EXCEPT !.log = log] \in Kept
BY DEF Kept

LEMMA KeptKey ==
  ASSUME NEW set \in Kept, NEW key \in Key
  PROVE  [set EXCEPT !.key = key] \in Kept
BY DEF Kept

LEMMA FileSetDb ==
  ASSUME NEW set \in FileSet, NEW db \in Db
  PROVE  [set EXCEPT !.db = db] \in FileSet
BY DEF FileSet

LEMMA FileSetKey ==
  ASSUME NEW set \in FileSet, NEW key \in Key
  PROVE  [set EXCEPT !.key = key] \in FileSet
BY DEF FileSet

LEMMA FileSetApi ==
  ASSUME NEW set \in FileSet, NEW api \in ApiKey
  PROVE  [set EXCEPT !.api = api] \in FileSet
BY DEF FileSet

LEMMA DbSeal ==
  ASSUME NEW db \in Db, NEW key \in Key
  PROVE  [db EXCEPT !.seal = key] \in Db
BY DEF Db

LEMMA DbWithdrawn ==
  ASSUME NEW db \in Db, NEW b \in BOOLEAN
  PROVE  [db EXCEPT !.withdrawn = b] \in Db
BY DEF Db

LEMMA DbCopy ==
  ASSUME NEW db \in Db, NEW copy \in Nat
  PROVE  [db EXCEPT !.copy = copy] \in Db
BY DEF Db

LEMMA LiveSeal ==
  ASSUME NEW set \in Live, NEW key \in Key
  PROVE  [set EXCEPT !.db.seal = key] \in Live
BY DbSeal, LiveDb DEF Live

LEMMA LiveWithdrawn ==
  ASSUME NEW set \in Live, NEW b \in BOOLEAN
  PROVE  [set EXCEPT !.db.withdrawn = b] \in Live
BY DbWithdrawn, LiveDb DEF Live

LEMMA FileSetWithdrawn ==
  ASSUME NEW set \in FileSet, NEW b \in BOOLEAN
  PROVE  [set EXCEPT !.db.withdrawn = b] \in FileSet
BY DbWithdrawn, FileSetDb DEF FileSet

LEMMA WithoutType ==
  ASSUME NEW set \in FileSet, NEW parts
  PROVE  Without(set, parts) \in FileSet
BY NoDbType DEF Without, FileSet, Key, ApiKey

LEMMA TaskAtStep ==
  ASSUME NEW t \in Task, NEW step \in TaskPCs
  PROVE  [t EXCEPT !.pc = step] \in Task
BY DEF Task

LEMMA TaskBrings ==
  ASSUME NEW t \in Task, NEW step \in TaskPCs, NEW brought \in SUBSET Parts
  PROVE  [t EXCEPT !.pc = step, !.brought = brought] \in Task
BY DEF Task

LEMMA TaskReads ==
  ASSUME NEW t \in Task, NEW step \in TaskPCs, NEW b \in BOOLEAN
  PROVE  [t EXCEPT !.pc = step, !.withdrawn = b] \in Task
BY DEF Task

LEMMA TaskBegins ==
  ASSUME NEW a \in Archives, NEW step \in TaskPCs
  PROVE  [Idle EXCEPT !.pc = step, !.of = a] \in Task
BY IdleType DEF Task, Archive

LEMMA LiveOpened ==
  ASSUME NEW set \in Live, NEW db \in Db, NEW log \in Log, NEW api \in ApiKey
  PROVE  [set EXCEPT !.db = db, !.log = log, !.api = api] \in Live
BY DEF Live

-----------------------------------------------------------------------------
(***************************************************************************)
(* Every action keeps the types.                                           *)
(***************************************************************************)

LEMMA DiscardTypes ==
  ASSUME TypeOK, DiscardNext
  PROVE  TypeOK'
<1>1. pending' \in FileSet
  BY WithoutType DEF TypeOK, DiscardNext
<1>2. discarding' \in Parts \cup {"no", "note"} /\ note' \in Archive
  BY DEF TypeOK, DiscardNext, DiscardOrder, Parts, Archive
<1> QED BY <1>1, <1>2 DEF TypeOK, DiscardNext, past, asked

LEMMA BeginTypes ==
  ASSUME TypeOK, NEW a \in Archives, StageBegin(a)
  PROVE  TypeOK'
<1>1. task' \in Task
  BY TaskBegins DEF StageBegin, TaskPCs, ExtractPCs
<1> QED BY <1>1 DEF TypeOK, StageBegin, PCs, files, asked

LEMMA StageTypes ==
  ASSUME TypeOK, TaskOfArchive, StageStep
  PROVE  TypeOK'
<1>1. 0 \in Log
  BY DEF Log
<1>2. task.of \in Archive /\ task.brought \in SUBSET Parts
  BY DEF TypeOK, Task
<1>3. /\ staging.db \in Db
      /\ staging.key \in Key
      /\ staging.api \in ApiKey
  BY DEF TypeOK, FileSet
<1>4. {live.db.withdrawn, staging.db.withdrawn} \subseteq BOOLEAN
  BY DEF TypeOK, Live, FileSet, Db
<1>5. CASE ExtractDatabase
  <2>1. KeyOf[task.of] \in Keys
    BY <1>5, ConstantsAssumption DEF TaskOfArchive, ExtractDatabase, TaskAt
  <2>2. [copy |-> copies + 1, of |-> task.of,
              seal |-> KeyOf[task.of], withdrawn |-> FALSE] \in Db
    BY <1>2, <2>1 DEF TypeOK, Db, Key
  <2>3. staging' \in FileSet
    BY <1>5, <2>2, FileSetDb DEF TypeOK, ExtractDatabase
  <2>4. task' \in Task
    BY <1>5, TaskBrings DEF TypeOK, ExtractDatabase, TaskPCs, ExtractPCs, Parts
  <2> QED BY <1>5, <2>1, <2>2, <2>3, <2>4
             DEF TypeOK, ExtractDatabase, past, asked, work, files
<1>6. CASE ExtractKey
  <2>1. staging' \in FileSet
    BY <1>6, ConstantsAssumption, FileSetKey DEF TypeOK, ExtractKey, Key
  <2>2. task' \in Task
    BY <1>2, <1>6, TaskBrings DEF TypeOK, ExtractKey, TaskPCs, ExtractPCs, Parts
  <2> QED BY <1>6, <2>1, <2>2 DEF TypeOK, ExtractKey, past, asked, work, files
<1>7. CASE ExtractApi
  <2>1. staging' \in FileSet
    BY <1>7, ConstantsAssumption, FileSetApi
       DEF TypeOK, ExtractApi, ApiKeyEntry, ApiKey
  <2>2. task' \in Task
    BY <1>2, <1>7, TaskBrings DEF TypeOK, ExtractApi, TaskPCs, ExtractPCs, Parts
  <2> QED BY <1>7, <2>1, <2>2 DEF TypeOK, ExtractApi, past, asked, work, files
<1>8. CASE ReadWithdrawals
  <2>1. task' \in Task
    BY <1>4, <1>8, TaskReads DEF TypeOK, ReadWithdrawals, TaskPCs, ExtractPCs
  <2> QED BY <1>8, <2>1 DEF TypeOK, ReadWithdrawals, past, asked, work, files
<1>9. CASE OpenedByTheNextStart
  <2>1. task' \in Task
    BY <1>9, TaskAtStep DEF TypeOK, OpenedByTheNextStart, TaskPCs, ExtractPCs,
           PendPCs
  <2> QED BY <1>9, <2>1 DEF TypeOK, OpenedByTheNextStart, past, asked, work,
                 files
<1>10. CASE KeepTodaysCredentials
  <2>1. Withdrawals \in BOOLEAN
    BY <1>4 DEF Withdrawals
  <2>2. staging' \in FileSet
    BY <1>10, <2>1, FileSetWithdrawn DEF TypeOK, KeepTodaysCredentials
  <2>3. task' \in Task
    BY <1>10, TaskAtStep DEF TypeOK, KeepTodaysCredentials, TaskPCs,
           ExtractPCs, PendPCs
  <2> QED BY <1>10, <2>1, <2>2, <2>3
             DEF TypeOK, KeepTodaysCredentials, past, asked, work, files
<1>11. CASE StageRefused
  <2>1. staging' \in FileSet
    BY <1>11, WithoutType DEF TypeOK, StageRefused
  <2>2. live' \in Live
    BY <1>1, <1>11, LiveLog DEF TypeOK, StageRefused, EndTask
  <2>3. task' \in Task
    BY <1>11, IdleType DEF StageRefused, EndTask
  <2> QED BY <1>11, <2>1, <2>2, <2>3
             DEF TypeOK, StageRefused, EndTask, PCs, past, asked, work, files
<1>12. CASE DiscardEarlier
  <2>1. task' \in Task
    BY <1>12, TaskAtStep DEF TypeOK, DiscardEarlier, TaskPCs, ExtractPCs,
           PendPCs
  <2> QED BY <1>12, <2>1 DEF TypeOK, DiscardEarlier, Discard, DiscardOrder,
                 Parts, past, asked, work, files
<1>13. CASE WriteNote
  <2>1. task' \in Task
    BY <1>13, TaskAtStep DEF TypeOK, WriteNote, TaskPCs, ExtractPCs, PendPCs
  <2>2. stale' \subseteq {"pending", "task"}
    BY <1>13 DEF TypeOK, WriteNote
  <2>3. note' \in Archive
    BY <1>2, <1>13 DEF WriteNote
  <2> QED BY <1>13, <2>1, <2>2, <2>3
             DEF TypeOK, WriteNote, past, asked, work, files
<1>14. CASE PendApi
  <2>1. task' \in Task
    BY <1>14, TaskAtStep DEF TypeOK, PendApi, TaskPCs, ExtractPCs, PendPCs
  <2>2. staging' \in FileSet
    BY <1>14, WithoutType DEF TypeOK, PendApi
  <2>3. pending' \in FileSet
    BY <1>3, <1>14, FileSetApi DEF TypeOK, PendApi
  <2> QED BY <1>14, <2>1, <2>2, <2>3
             DEF TypeOK, PendApi, past, asked, work, files
<1>15. CASE PendKey
  <2>1. task' \in Task
    BY <1>15, TaskAtStep DEF TypeOK, PendKey, TaskPCs, ExtractPCs, PendPCs
  <2>2. staging' \in FileSet
    BY <1>15, WithoutType DEF TypeOK, PendKey
  <2>3. pending' \in FileSet
    BY <1>3, <1>15, FileSetKey DEF TypeOK, PendKey
  <2> QED BY <1>15, <2>1, <2>2, <2>3
             DEF TypeOK, PendKey, past, asked, work, files
<1>16. CASE PendDatabase
  <2>1. staging' \in FileSet
    BY <1>16, WithoutType DEF TypeOK, PendDatabase
  <2>2. pending' \in FileSet
    BY <1>3, <1>16, FileSetDb DEF TypeOK, PendDatabase
  <2>3. live' \in Live
    BY <1>1, <1>16, LiveLog DEF TypeOK, PendDatabase, EndTask
  <2>4. task' \in Task
    BY <1>16, IdleType DEF PendDatabase, EndTask
  <2> QED BY <1>16, <2>1, <2>2, <2>3, <2>4
             DEF TypeOK, PendDatabase, EndTask, PCs, past, asked, work, files
<1>17. CASE PendFails
  <2>1. task' \in Task
    BY <1>17, TaskAtStep DEF TypeOK, PendFails, TaskPCs, ExtractPCs, PendPCs
  <2> QED BY <1>17, <2>1 DEF TypeOK, PendFails, Discard, DiscardOrder, Parts,
                 past, asked, work, files
<1>18. CASE PendDropped
  <2>1. staging' \in FileSet
    BY <1>18, WithoutType DEF TypeOK, PendDropped
  <2>2. live' \in Live
    BY <1>1, <1>18, LiveLog DEF TypeOK, PendDropped, EndTask
  <2>3. task' \in Task
    BY <1>18, IdleType DEF PendDropped, EndTask
  <2> QED BY <1>18, <2>1, <2>2, <2>3
             DEF TypeOK, PendDropped, EndTask, PCs, past, asked, work, files
<1> QED BY <1>5, <1>6, <1>7, <1>8, <1>9, <1>10, <1>11, <1>12, <1>13, <1>14,
           <1>15, <1>16, <1>17, <1>18
           DEF StageStep

LEMMA OperateTypes ==
  ASSUME TypeOK, Operate
  PROVE  TypeOK'
<1>1. live.key \in Key
  BY DEF TypeOK, Live
<1>2. live.log \in Log /\ 0 \in Log
  BY DEF TypeOK, Live, Log
<1>3. {None, Here} \subseteq ApiKey
  BY DEF ApiKey
<1>4. CASE WithdrawBegin
  <2>1. task' \in Task
    BY <1>4, IdleType, TaskAtStep DEF WithdrawBegin, TaskPCs
  <2> QED BY <1>4, <2>1 DEF TypeOK, WithdrawBegin, Discard, DiscardOrder,
                 Parts, past, asked, work, files
<1>5. CASE WithdrawEnd
  <2>1. task' \in Task
    BY <1>5, IdleType DEF WithdrawEnd, EndTask
  <2>2. live' \in Live
    BY <1>2, <1>5, LiveLog DEF TypeOK, WithdrawEnd, EndTask
  <2> QED BY <1>5, <2>1, <2>2 DEF TypeOK, WithdrawEnd, EndTask, PCs, past,
                 asked, work, files
<1>6. CASE DeleteReplaced
  <2>1. kept' \in Kept
    BY <1>2, <1>6, NoDbType DEF TypeOK, DeleteReplaced, Kept, Key
  <2> QED BY <1>6, <2>1 DEF TypeOK, DeleteReplaced, DeleteOrder, Kept, Key,
                 Log, past, asked, work, files
<1>7. CASE SealCredential
  <2>1. live' \in Live
    BY <1>1, <1>7, LiveSeal DEF TypeOK, SealCredential
  <2> QED BY <1>7, <2>1 DEF TypeOK, SealCredential, past, asked, work, files
<1>8. CASE ClearApiKey
  <2>1. live' \in Live
    BY <1>8, LiveWithdrawn DEF TypeOK, ClearApiKey
  <2> QED BY <1>8, <2>1 DEF TypeOK, ClearApiKey, Said, past, asked, work, files
<1>9. CASE RotateApiKey
  <2>1. live' \in Live
    BY <1>3, <1>9, LiveApi DEF TypeOK, RotateApiKey
  <2> QED BY <1>9, <2>1 DEF TypeOK, RotateApiKey, Said, past, asked, work, files
<1>10. CASE ApiKeyChanged
  <2>1. live' \in Live
    BY <1>3, <1>10, LiveApi, LiveWithdrawn DEF TypeOK, ApiKeyChanged
  <2> QED BY <1>10, <2>1 DEF TypeOK, ApiKeyChanged, past, asked, work, files
<1> QED BY <1>4, <1>5, <1>6, <1>7, <1>8, <1>9, <1>10 DEF Operate

LEMMA StartTypes ==
  ASSUME TypeOK, Start
  PROVE  TypeOK'
<1>1. /\ live.db \in Db
      /\ live.log \in Log
      /\ live.key \in Key
      /\ live.api \in ApiKey
      /\ live.db.copy \in Nat
  BY DEF TypeOK, Live, Db
<1>2. /\ pending.db \in Db
      /\ pending.key \in Key
      /\ pending.api \in ApiKey
  BY DEF TypeOK, FileSet
<1>3. 0 \in Log /\ None \in Key /\ Here \in ApiKey
  BY DEF Log, Key, ApiKey
<1>4. kept.db \in Db
  BY DEF TypeOK, Kept
<1>5. CASE SweepLeftovers
  <2>1. staging' \in FileSet
    BY <1>5, NoSetType DEF SweepLeftovers
  <2> QED BY <1>5, <2>1 DEF TypeOK, SweepLeftovers, PCs, StartPCs, Archive,
                 past, asked, work, files
<1>6. CASE NothingPending
  BY <1>6 DEF TypeOK, NothingPending, PCs, StartPCs, past, asked, work, files
<1>7. CASE RejectPending
  BY <1>7 DEF TypeOK, RejectPending, Discard, DiscardOrder, Parts, PCs,
         StartPCs, past, asked, work, files
<1>8. CASE Rejected
  BY <1>8 DEF TypeOK, Rejected, PCs, StartPCs, past, asked, work, files
<1>9. CASE AcceptPending
  BY <1>9 DEF TypeOK, AcceptPending, PCs, StartPCs, past, asked, work, files
<1>10. CASE SetTheKeyAside
  <2>1. kept' \in Kept
    BY <1>1, <1>3, <1>10, KeptKey DEF TypeOK, SetTheKeyAside
  <2>2. live' \in Live
    BY <1>3, <1>10, LiveKey DEF TypeOK, SetTheKeyAside
  <2> QED BY <1>10, <2>1, <2>2 DEF TypeOK, SetTheKeyAside, PCs, StartPCs,
                 past, asked, work, files
<1>11. CASE NoneToSetAside
  <2>1. kept' \in Kept
    BY <1>4, <1>11, KeptDb DEF TypeOK, NoneToSetAside, WithoutDatabase
  <2> QED BY <1>11, <2>1 DEF TypeOK, NoneToSetAside, PCs, StartPCs,
                 WithoutDatabase, past, asked, work, files
<1>12. CASE SetTheDatabaseAside
  <2>1. kept' \in Kept
    BY <1>1, <1>3, <1>12, KeptDb, KeptLog DEF TypeOK, SetTheDatabaseAside
  <2>2. live' \in Live
    BY <1>12, NoDbType, LiveDb DEF TypeOK, SetTheDatabaseAside
  <2> QED BY <1>12, <2>1, <2>2 DEF TypeOK, SetTheDatabaseAside, PCs, StartPCs,
                 past, asked, work, files
<1>13. CASE SetTheLogAside
  <2>1. kept' \in Kept
    BY <1>1, <1>13, KeptLog DEF TypeOK, SetTheLogAside
  <2>2. live' \in Live
    BY <1>3, <1>13, LiveLog DEF TypeOK, SetTheLogAside
  <2> QED BY <1>13, <2>1, <2>2 DEF TypeOK, SetTheLogAside, PCs, StartPCs,
                 past, asked, work, files
<1>14. CASE RestoreApi
  <2>1. live' \in Live
    BY <1>2, <1>14, LiveApi DEF TypeOK, RestoreApi
  <2>2. pending' \in FileSet
    BY <1>14, WithoutType DEF TypeOK, RestoreApi
  <2> QED BY <1>14, <2>1, <2>2 DEF TypeOK, RestoreApi, PCs, StartPCs, past,
                 asked, work, files
<1>15. CASE RestoreKey
  <2>1. live' \in Live
    BY <1>2, <1>15, LiveKey DEF TypeOK, RestoreKey
  <2>2. pending' \in FileSet
    BY <1>15, WithoutType DEF TypeOK, RestoreKey
  <2> QED BY <1>15, <2>1, <2>2 DEF TypeOK, RestoreKey, PCs, StartPCs, past,
                 asked, work, files
<1>16. CASE RestoreDatabase
  <2>1. live' \in Live
    BY <1>2, <1>16, LiveDb DEF TypeOK, RestoreDatabase
  <2>2. pending' \in FileSet
    BY <1>16, WithoutType DEF TypeOK, RestoreDatabase
  <2> QED BY <1>16, <2>1, <2>2 DEF TypeOK, RestoreDatabase, PCs, StartPCs,
                 past, asked, work, files
<1>17. CASE RemoveNote
  BY <1>17 DEF TypeOK, RemoveNote, PCs, StartPCs, Archive, past, asked, work,
         files
<1>18. CASE OpenPool
  <2>1. copies' \in Nat
    BY <1>18 DEF TypeOK, OpenPool
  <2>2. [NoDb EXCEPT !.copy = copies + 1] \in Db
    BY NoDbType, DbCopy DEF TypeOK
  <2>3. (copies + 1) \in Log /\ live.db.copy \in Log
    BY <1>1 DEF TypeOK, Log
  <2>4. [NoDb EXCEPT !.copy = copies + 1].copy = copies + 1
    BY DEF NoDb
  <2>5. live' \in Live
    BY <1>1, <1>3, <1>18, <2>2, <2>3, <2>4, LiveOpened DEF TypeOK, OpenPool
  <2> QED BY <1>18, <2>1, <2>2, <2>3, <2>4, <2>5
             DEF TypeOK, OpenPool, PCs, StartPCs, past, asked, work, files
<1>19. CASE StartServes
  <2>1. live' \in Live
    BY <1>19, LiveKey DEF TypeOK, StartServes, Key
  <2> QED BY <1>1, <1>19, <2>1 DEF TypeOK, StartServes, PCs, StartPCs, past,
                 asked, work, files
<1>20. CASE StartRefused
  BY <1>20 DEF TypeOK, StartRefused, PCs, StartPCs, past, asked, work, files
<1> QED BY <1>5, <1>6, <1>7, <1>8, <1>9, <1>10, <1>11, <1>12, <1>13, <1>14,
           <1>15, <1>16, <1>17, <1>18, <1>19, <1>20
           DEF Start

LEMMA EndTypes ==
  ASSUME TypeOK, Stop \/ Crash
  PROVE  TypeOK'
<1>1. 0 \in Log
  BY DEF Log
<1>2. CASE Stop
  <2>1. live' \in Live
    BY <1>1, <1>2, LiveLog DEF TypeOK, Stop
  <2>2. task' \in Task
    BY <1>2, IdleType DEF Stop, Gone
  <2> QED BY <1>2, <2>1, <2>2 DEF TypeOK, Stop, Gone, PCs, past, asked, work,
                 files
<1>3. CASE Crash
  <2>1. task' \in Task
    BY <1>3, IdleType DEF Crash, Gone
  <2>2. crashes' \in Nat
    BY <1>3 DEF TypeOK, Crash
  <2> QED BY <1>3, <2>1, <2>2 DEF TypeOK, Crash, Gone, PCs, past, asked, work,
                 files
<1> QED BY <1>2, <1>3 DEF Next

-----------------------------------------------------------------------------
(***************************************************************************)
(* Every action keeps the rest of the invariant.                           *)
(***************************************************************************)

\* Steps that move neither what is staged nor what is pending, and replace no
\* master key the pending database counts on.
LEMMA FilesKept ==
  ASSUME IInv, TypeOK', UNCHANGED <<staging, pending, note, task, discarding>>,
         task.pc # "idle" => pc' \in {"up", "offline"},
         discarding # "no" => pc' = pc,
         pc' = "note" => pc = "note",
         live'.key = live.key \/ live.key = None \/ pending.key \notin {None, live.key}
  PROVE  IInv'
<1>1. TaskOfArchive' /\ TaskInProcess'
  BY DEF IInv, TaskOfArchive, TaskInProcess
<1>2. DiscardUnderWay' /\ DatabaseFirst'
  BY DEF IInv, DiscardUnderWay, DatabaseFirst
<1>3. ExtractedOfTask' /\ PendedOfTask'
  BY DEF IInv, ExtractedOfTask, PendedOfTask
<1>4. PendingOfOneArchive'
  BY ConstantsAssumption DEF IInv, PendingOfOneArchive
<1>5. NoteNamesPending'
  BY DEF IInv, NoteNamesPending
<1> QED BY <1>1, <1>2, <1>3, <1>4, <1>5 DEF IInv

\* The renames of a staging and the removals, by what they leave in the files.
LEMMA WriteNoteDoes ==
  ASSUME IInv, WriteNote
  PROVE  /\ task.pc = "note" /\ task'.pc = "pend api" /\ task'.of = task.of
         /\ discarding' = "no"
         /\ pending' = NoSet /\ pending'.db = NoDb /\ ~Exists(pending'.db)
         /\ note' = task.of
<1>1. task.pc = "note" /\ discarding = "no"
  BY DEF WriteNote, TaskAt
<1>2. task'.pc = "pend api" /\ task'.of = task.of
  BY DEF IInv, TypeOK, Task, WriteNote
<1>3. pending = NoSet
  BY <1>1 DEF IInv, PendedOfTask
<1>4. pending' = NoSet /\ pending'.db = NoDb
  BY <1>3 DEF WriteNote, NoSet
<1>5. ~Exists(pending'.db)
  BY <1>4 DEF NoDb, Exists
<1> QED BY <1>1, <1>2, <1>4, <1>5 DEF WriteNote

LEMMA PendApiDoes ==
  ASSUME IInv, PendApi
  PROVE  /\ task.pc = "pend api" /\ task'.pc = "pend key"
         /\ task'.of = task.of /\ task'.brought = task.brought
         /\ staging'.db = staging.db /\ staging'.key = staging.key
         /\ pending'.db = NoDb /\ ~Exists(pending'.db)
         /\ pending'.key = None
         /\ pending'.api \in {None} \cup (CarriesApi \cap {task.of})
         /\ note = task.of /\ note' = note
         /\ discarding' = "no"
<1>1. task.pc = "pend api" /\ discarding = "no"
  BY DEF PendApi, TaskAt
<1>2. task'.pc = "pend key" /\ task'.of = task.of /\ task'.brought = task.brought
  BY DEF IInv, TypeOK, Task, PendApi
<1>3. staging'.db = staging.db /\ staging'.key = staging.key
  <2>1. CASE "api" \in task.brought
    <3>1. staging' = Without(staging, {"api"})
      BY <2>1 DEF PendApi
    <3> QED BY <3>1 DEF Without
  <2>2. CASE "api" \notin task.brought
    BY <2>2 DEF PendApi
  <2> QED BY <2>1, <2>2
<1>4. pending = NoSet /\ note = task.of
  BY <1>1 DEF IInv, PendedOfTask, PendPCs
<1>5. "api" \in task.brought => task.of \in CarriesApi /\ staging.api = task.of
  BY <1>1 DEF IInv, ExtractedOfTask
<1>6. /\ pending'.db = NoDb /\ pending'.key = None
      /\ pending'.api \in {None} \cup (CarriesApi \cap {task.of})
  <2>1. pending.db = NoDb /\ pending.key = None /\ pending.api = None
    BY <1>4 DEF NoSet
  <2>2. /\ pending'.db = pending.db /\ pending'.key = pending.key
        /\ \/ pending'.api = pending.api
           \/ "api" \in task.brought /\ pending'.api = staging.api
    BY DEF IInv, TypeOK, FileSet, PendApi
  <2> QED BY <1>5, <2>1, <2>2
<1>7. ~Exists(pending'.db)
  BY <1>6 DEF NoDb, Exists
<1> QED BY <1>1, <1>2, <1>3, <1>4, <1>6, <1>7 DEF PendApi

LEMMA PendKeyDoes ==
  ASSUME IInv, PendKey
  PROVE  /\ task.pc = "pend key" /\ task'.pc = "pend db"
         /\ task'.of = task.of
         /\ staging'.db = staging.db
         /\ pending'.db = NoDb /\ ~Exists(pending'.db)
         /\ pending'.api \in {None} \cup (CarriesApi \cap {task.of})
         /\ pending'.key \in {None} \cup {KeyOf[c] : c \in Carries \cap {task.of}}
         /\ task.of \in Carries => pending'.key = KeyOf[task.of]
         /\ note = task.of /\ note' = note
         /\ discarding' = "no"
<1>1. task.pc = "pend key" /\ discarding = "no"
  BY DEF PendKey, TaskAt
<1>2. task'.pc = "pend db" /\ task'.of = task.of
  BY DEF IInv, TypeOK, Task, PendKey
<1>3. staging'.db = staging.db
  <2>1. CASE "key" \in task.brought
    <3>1. staging' = Without(staging, {"key"})
      BY <2>1 DEF PendKey
    <3> QED BY <3>1 DEF Without
  <2>2. CASE "key" \notin task.brought
    BY <2>2 DEF PendKey
  <2> QED BY <2>1, <2>2
<1>4. /\ pending.db = NoDb /\ pending.key = None
      /\ pending.api \in {None} \cup (CarriesApi \cap {task.of})
      /\ note = task.of
  BY <1>1 DEF IInv, PendedOfTask, PendPCs
<1>5. /\ "key" \in task.brought <=> task.of \in Carries
      /\ task.of \in Carries => staging.key = KeyOf[task.of]
  BY <1>1 DEF IInv, ExtractedOfTask
<1>6. /\ pending'.db = pending.db /\ pending'.api = pending.api
      /\ pending'.key = IF "key" \in task.brought THEN staging.key ELSE pending.key
  BY DEF IInv, TypeOK, FileSet, PendKey
<1>7. ~Exists(pending'.db)
  BY <1>4, <1>6 DEF NoDb, Exists
<1> QED BY <1>1, <1>2, <1>3, <1>4, <1>5, <1>6, <1>7 DEF PendKey

LEMMA PendDatabaseDoes ==
  ASSUME IInv, PendDatabase
  PROVE  /\ task'.pc = "idle"
         /\ discarding' = "no"
         /\ pc' \in {"up", "off"}
         /\ pending'.db.of = task.of
         /\ pending'.key \in {None} \cup {KeyOf[c] : c \in Carries \cap {task.of}}
         /\ task.of \in Carries => pending'.key = KeyOf[task.of]
         /\ pending'.api \in {None} \cup (CarriesApi \cap {task.of})
         /\ note' = task.of
<1>1. task.pc = "pend db" /\ discarding = "no"
  BY DEF PendDatabase, TaskAt
<1>2. pc' \in {"up", "off"}
  BY <1>1 DEF IInv, TaskInProcess, PendDatabase, EndTask
<1>3. staging.db.of = task.of
  BY <1>1 DEF IInv, ExtractedOfTask, PendPCs
<1>4. /\ pending'.db = staging.db
      /\ pending'.key = pending.key /\ pending'.api = pending.api
  BY DEF IInv, TypeOK, FileSet, PendDatabase
<1>5. task'.pc = "idle"
  BY DEF PendDatabase, EndTask, Idle
<1> QED BY <1>1, <1>2, <1>3, <1>4, <1>5
           DEF IInv, PendedOfTask, PendPCs, PendDatabase

LEMMA DiscardNextDoes ==
  ASSUME IInv, DiscardNext
  PROVE  /\ \/ /\ discarding = "db" /\ discarding' = "note"
               /\ pending'.db = NoDb /\ note' = note
            \/ /\ discarding = "note" /\ discarding' = "key"
               /\ pending.db = NoDb /\ pending'.db = NoDb
            \/ /\ discarding = "key" /\ discarding' = "api"
               /\ pending.db = NoDb /\ pending'.db = NoDb
               /\ pending'.key = None /\ note' = note
            \/ /\ discarding = "api" /\ discarding' = "no"
               /\ pending' = NoSet /\ note' = note
         /\ task.pc \in {"note", "dropped", "withdrawing"} \/ pc = "rejected"
         /\ UNCHANGED <<live, pc, task>>
<1>1. /\ discarding \in {"db", "note", "key", "api"}
      /\ pending' = Without(pending, {discarding})
      /\ note' = IF discarding = "note" THEN None ELSE note
      /\ UNCHANGED <<live, pc, task>>
  BY DEF IInv, TypeOK, Parts, DiscardNext
<1>2. discarding' = CASE discarding = "db" -> "note" [] discarding = "note" -> "key"
                      [] discarding = "key" -> "api" [] discarding = "api" -> "no"
  BY <1>1 DEF DiscardNext, DiscardOrder
<1>3. task.pc \in {"note", "dropped", "withdrawing"} \/ pc = "rejected"
  BY <1>1 DEF IInv, DiscardUnderWay
<1>4. CASE discarding = "db"
  BY <1>1, <1>2, <1>3, <1>4 DEF Without
<1>5. CASE discarding = "note"
  BY <1>1, <1>2, <1>3, <1>5 DEF IInv, DatabaseFirst, Without
<1>6. CASE discarding = "key"
  BY <1>1, <1>2, <1>3, <1>6 DEF IInv, DatabaseFirst, Without
<1>7. CASE discarding = "api"
  BY <1>1, <1>2, <1>3, <1>7 DEF IInv, DatabaseFirst, Without, NoSet
<1> QED BY <1>1, <1>4, <1>5, <1>6, <1>7

\* A staging.
LEMMA StageInvariant ==
  ASSUME IInv, StageStep
  PROVE  IInv'
<1>1. CASE ExtractDatabase
  <2>1. TypeOK'
    BY <1>1, StageTypes DEF IInv, StageStep
  <2>2. TaskOfArchive'
    BY <1>1 DEF IInv, TaskOfArchive, TaskInProcess, TypeOK, Task,
           ExtractDatabase, TaskAt
  <2>3. TaskInProcess'
    BY <1>1 DEF IInv, TaskInProcess, TypeOK, Task, ExtractDatabase, TaskAt
  <2>4. DiscardUnderWay'
    BY <1>1 DEF IInv, DiscardUnderWay, TaskInProcess, TypeOK, Task,
           ExtractDatabase, TaskAt
  <2>5. ExtractedOfTask'
    BY <1>1 DEF IInv, ExtractedOfTask, TaskInProcess, KeyExtracted, PendPCs,
           TypeOK, Task, ExtractDatabase, TaskAt
  <2>6. PendedOfTask'
    BY <1>1 DEF IInv, PendedOfTask, TaskInProcess, DiscardUnderWay, PendPCs,
           TypeOK, Task, ExtractDatabase, TaskAt
  <2> QED
    BY <1>1, <2>1, <2>2, <2>3, <2>4, <2>5, <2>6
       DEF IInv, DatabaseFirst, PendingOfOneArchive, NoteNamesPending,
           ExtractDatabase
<1>2. CASE ExtractKey
  <2>1. TypeOK'
    BY <1>2, StageTypes DEF IInv, StageStep
  <2>2. TaskOfArchive'
    BY <1>2 DEF IInv, TaskOfArchive, TaskInProcess, TypeOK, Task, ExtractKey,
           TaskAt
  <2>3. TaskInProcess'
    BY <1>2 DEF IInv, TaskInProcess, TypeOK, Task, ExtractKey, TaskAt
  <2>4. DiscardUnderWay'
    BY <1>2 DEF IInv, DiscardUnderWay, TaskInProcess, TypeOK, Task,
           ExtractKey, TaskAt
  <2>5. ExtractedOfTask'
    BY <1>2 DEF IInv, ExtractedOfTask, TaskInProcess, KeyExtracted, PendPCs,
           TypeOK, Task, ExtractKey, TaskAt
  <2>6. PendedOfTask'
    BY <1>2 DEF IInv, PendedOfTask, TaskInProcess, DiscardUnderWay, PendPCs,
           TypeOK, Task, ExtractKey, TaskAt
  <2> QED
    BY <1>2, <2>1, <2>2, <2>3, <2>4, <2>5, <2>6
       DEF IInv, DatabaseFirst, PendingOfOneArchive, NoteNamesPending,
           ExtractKey
<1>3. CASE ExtractApi
  <2>1. TypeOK'
    BY <1>3, StageTypes DEF IInv, StageStep
  <2>2. TaskOfArchive'
    BY <1>3 DEF IInv, TaskOfArchive, TaskInProcess, TypeOK, Task, ExtractApi,
           TaskAt, ApiKeyEntry
  <2>3. TaskInProcess'
    BY <1>3 DEF IInv, TaskInProcess, TypeOK, Task, ExtractApi, TaskAt,
           ApiKeyEntry
  <2>4. DiscardUnderWay'
    BY <1>3 DEF IInv, DiscardUnderWay, TaskInProcess, TypeOK, Task,
           ExtractApi, TaskAt, ApiKeyEntry
  <2>5. ExtractedOfTask'
    BY <1>3 DEF IInv, ExtractedOfTask, TaskInProcess, KeyExtracted, PendPCs,
           TypeOK, Task, ExtractApi, TaskAt, ApiKeyEntry
  <2>6. PendedOfTask'
    BY <1>3 DEF IInv, PendedOfTask, TaskInProcess, DiscardUnderWay, PendPCs,
           TypeOK, Task, ExtractApi, TaskAt, ApiKeyEntry
  <2> QED
    BY <1>3, <2>1, <2>2, <2>3, <2>4, <2>5, <2>6
       DEF IInv, DatabaseFirst, PendingOfOneArchive, NoteNamesPending,
           ExtractApi
<1>4. CASE ReadWithdrawals
  <2>1. TypeOK'
    BY <1>4, StageTypes DEF IInv, StageStep
  <2>2. TaskOfArchive'
    BY <1>4 DEF IInv, TaskOfArchive, TaskInProcess, TypeOK, Task,
           ReadWithdrawals, TaskAt, files
  <2>3. TaskInProcess'
    BY <1>4 DEF IInv, TaskInProcess, TypeOK, Task, ReadWithdrawals, TaskAt,
           files
  <2>4. DiscardUnderWay'
    BY <1>4 DEF IInv, DiscardUnderWay, TaskInProcess, TypeOK, Task,
           ReadWithdrawals, TaskAt, files
  <2>5. ExtractedOfTask'
    BY <1>4 DEF IInv, ExtractedOfTask, TaskInProcess, KeyExtracted, PendPCs,
           TypeOK, Task, ReadWithdrawals, TaskAt, files
  <2>6. PendedOfTask'
    BY <1>4 DEF IInv, PendedOfTask, TaskInProcess, DiscardUnderWay, PendPCs,
           TypeOK, Task, ReadWithdrawals, TaskAt, files
  <2> QED
    BY <1>4, <2>1, <2>2, <2>3, <2>4, <2>5, <2>6
       DEF IInv, DatabaseFirst, PendingOfOneArchive, NoteNamesPending,
           ReadWithdrawals, files
<1>5. CASE OpenedByTheNextStart
  <2>1. TypeOK'
    BY <1>5, StageTypes DEF IInv, StageStep
  <2>2. TaskOfArchive'
    BY <1>5 DEF IInv, TaskOfArchive, TaskInProcess, TypeOK, Task,
           OpenedByTheNextStart, TaskAt, files
  <2>3. TaskInProcess'
    BY <1>5 DEF IInv, TaskInProcess, TypeOK, Task, OpenedByTheNextStart,
           TaskAt, files
  <2>4. DiscardUnderWay'
    BY <1>5 DEF IInv, DiscardUnderWay, TaskInProcess, TypeOK, Task,
           OpenedByTheNextStart, TaskAt, files
  <2>5. ExtractedOfTask'
    BY <1>5 DEF IInv, ExtractedOfTask, TaskInProcess, KeyExtracted, PendPCs,
           TypeOK, Task, OpenedByTheNextStart, TaskAt, files
  <2>6. PendedOfTask'
    BY <1>5 DEF IInv, PendedOfTask, TaskInProcess, DiscardUnderWay, PendPCs,
           TypeOK, Task, OpenedByTheNextStart, TaskAt, files
  <2> QED
    BY <1>5, <2>1, <2>2, <2>3, <2>4, <2>5, <2>6
       DEF IInv, DatabaseFirst, PendingOfOneArchive, NoteNamesPending,
           OpenedByTheNextStart, files
<1>6. CASE KeepTodaysCredentials
  <2>1. TypeOK'
    BY <1>6, StageTypes DEF IInv, StageStep
  <2>2. TaskOfArchive'
    BY <1>6 DEF IInv, TaskOfArchive, TaskInProcess, TypeOK, Task,
           KeepTodaysCredentials, TaskAt
  <2>3. TaskInProcess'
    BY <1>6 DEF IInv, TaskInProcess, TypeOK, Task, KeepTodaysCredentials, TaskAt
  <2>4. DiscardUnderWay'
    BY <1>6 DEF IInv, DiscardUnderWay, TaskInProcess, TypeOK, Task,
           KeepTodaysCredentials, TaskAt
  <2>5. ExtractedOfTask'
    <3>1. staging'.db.of = staging.db.of /\ staging'.key = staging.key
           /\ staging'.api = staging.api
      BY <1>6 DEF IInv, TypeOK, FileSet, Db, KeepTodaysCredentials
    <3>2. /\ task.pc = "carry" /\ task'.pc = "discard"
          /\ task'.of = task.of /\ task'.brought = task.brought
      BY <1>6 DEF IInv, TypeOK, Task, KeepTodaysCredentials, TaskAt
    <3> QED BY <3>1, <3>2 DEF IInv, ExtractedOfTask, KeyExtracted, PendPCs
  <2>6. PendedOfTask'
    BY <1>6 DEF IInv, PendedOfTask, TaskInProcess, DiscardUnderWay, PendPCs,
           TypeOK, Task, KeepTodaysCredentials, TaskAt
  <2> QED
    BY <1>6, <2>1, <2>2, <2>3, <2>4, <2>5, <2>6
       DEF IInv, DatabaseFirst, PendingOfOneArchive, NoteNamesPending,
           KeepTodaysCredentials
<1>7. CASE StageRefused
  <2>1. TypeOK'
    BY <1>7, StageTypes DEF IInv, StageStep
  <2>2. TaskOfArchive'
    BY <1>7 DEF IInv, TaskOfArchive, TaskInProcess, TypeOK, Task,
           StageRefused, TaskAt, EndTask, Idle, Without, ExtractPCs
  <2>3. TaskInProcess'
    BY <1>7 DEF IInv, TaskInProcess, TypeOK, Task, StageRefused, TaskAt,
           EndTask, Idle, Without, ExtractPCs
  <2>4. DiscardUnderWay'
    BY <1>7 DEF IInv, DiscardUnderWay, TaskInProcess, TypeOK, Task,
           StageRefused, TaskAt, EndTask, Idle, Without, ExtractPCs
  <2>5. DatabaseFirst'
    BY <1>7 DEF IInv, DatabaseFirst, StageRefused, TaskAt, EndTask, Idle,
           Without, ExtractPCs
  <2>6. ExtractedOfTask'
    BY <1>7 DEF IInv, ExtractedOfTask, TaskInProcess, KeyExtracted, PendPCs,
           TypeOK, Task, StageRefused, TaskAt, EndTask, Idle, Without,
           ExtractPCs
  <2>7. PendedOfTask'
    BY <1>7 DEF IInv, PendedOfTask, TaskInProcess, DiscardUnderWay, PendPCs,
           TypeOK, Task, StageRefused, TaskAt, EndTask, Idle, Without,
           ExtractPCs
  <2>8. PendingOfOneArchive'
    BY <1>7 DEF IInv, PendingOfOneArchive, StageRefused, TaskAt, EndTask,
           Idle, Without, ExtractPCs
  <2> QED
    BY <1>7, <2>1, <2>2, <2>3, <2>4, <2>5, <2>6, <2>7, <2>8
       DEF IInv, NoteNamesPending, StageRefused
<1>8. CASE DiscardEarlier
  <2>1. TypeOK'
    BY <1>8, StageTypes DEF IInv, StageStep
  <2>2. TaskOfArchive'
    BY <1>8 DEF IInv, TaskOfArchive, TaskInProcess, TypeOK, Task,
           DiscardEarlier, TaskAt, Discard, DiscardOrder, files
  <2>3. TaskInProcess'
    BY <1>8 DEF IInv, TaskInProcess, TypeOK, Task, DiscardEarlier, TaskAt,
           Discard, DiscardOrder, files
  <2>4. DiscardUnderWay'
    BY <1>8 DEF IInv, DiscardUnderWay, TaskInProcess, TypeOK, Task,
           DiscardEarlier, TaskAt, Discard, DiscardOrder, files
  <2>5. DatabaseFirst'
    BY <1>8 DEF IInv, DatabaseFirst, DiscardUnderWay, TaskInProcess,
           DiscardEarlier, TaskAt, Discard, DiscardOrder, files
  <2>6. ExtractedOfTask'
    BY <1>8 DEF IInv, ExtractedOfTask, TaskInProcess, KeyExtracted, PendPCs,
           TypeOK, Task, DiscardEarlier, TaskAt, Discard, DiscardOrder, files
  <2>7. PendedOfTask'
    BY <1>8 DEF IInv, PendedOfTask, TaskInProcess, DiscardUnderWay, PendPCs,
           TypeOK, Task, DiscardEarlier, TaskAt, Discard, DiscardOrder, files
  <2> QED
    BY <1>8, <2>1, <2>2, <2>3, <2>4, <2>5, <2>6, <2>7
       DEF IInv, PendingOfOneArchive, NoteNamesPending, DiscardEarlier, files
<1>9. CASE WriteNote
  <2>1. TypeOK'
    BY <1>9, StageTypes DEF IInv, StageStep
  <2>2. TaskOfArchive'
    BY <1>9 DEF IInv, TaskOfArchive, TaskInProcess, TypeOK, Task, WriteNote,
           TaskAt
  <2>3. TaskInProcess'
    BY <1>9 DEF IInv, TaskInProcess, TypeOK, Task, WriteNote, TaskAt
  <2>4. DiscardUnderWay'
    BY <1>9 DEF IInv, DiscardUnderWay, TaskInProcess, TypeOK, Task, WriteNote,
           TaskAt
  <2>5. ExtractedOfTask'
    BY <1>9 DEF IInv, ExtractedOfTask, TaskInProcess, KeyExtracted, PendPCs,
           TypeOK, Task, WriteNote, TaskAt
  <2>6. PendedOfTask'
    BY <1>9, WriteNoteDoes DEF PendedOfTask, PendPCs
  <2>7. NoteNamesPending'
    BY <1>9, WriteNoteDoes DEF NoteNamesPending
  <2> QED
    BY <1>9, <2>1, <2>2, <2>3, <2>4, <2>5, <2>6, <2>7
       DEF IInv, DatabaseFirst, PendingOfOneArchive, WriteNote
<1>10. CASE PendApi
  <2>1. TypeOK'
    BY <1>10, StageTypes DEF IInv, StageStep
  <2>2. TaskOfArchive'
    BY <1>10 DEF IInv, TaskOfArchive, TaskInProcess, TypeOK, Task, PendApi,
           TaskAt, Without
  <2>3. TaskInProcess'
    BY <1>10 DEF IInv, TaskInProcess, TypeOK, Task, PendApi, TaskAt, Without
  <2>4. DiscardUnderWay'
    BY <1>10 DEF IInv, DiscardUnderWay, TaskInProcess, TypeOK, Task, PendApi,
           TaskAt, Without
  <2>5. DatabaseFirst'
    BY <1>10, PendApiDoes DEF IInv, TaskInProcess, DatabaseFirst, PendApi
  <2>6. ExtractedOfTask'
    BY <1>10, PendApiDoes DEF IInv, ExtractedOfTask, KeyExtracted, PendPCs
  <2>7. PendedOfTask'
    BY <1>10, PendApiDoes DEF PendedOfTask, PendPCs
  <2>8. PendingOfOneArchive'
    BY <1>10, PendApiDoes DEF PendingOfOneArchive
  <2>9. NoteNamesPending'
    BY <1>10, PendApiDoes DEF NoteNamesPending
  <2> QED
    BY <1>10, <2>1, <2>2, <2>3, <2>4, <2>5, <2>6, <2>7, <2>8, <2>9
       DEF IInv, PendApi
<1>11. CASE PendKey
  <2>1. TypeOK'
    BY <1>11, StageTypes DEF IInv, StageStep
  <2>2. TaskOfArchive'
    BY <1>11 DEF IInv, TaskOfArchive, TaskInProcess, TypeOK, Task, PendKey,
           TaskAt, Without
  <2>3. TaskInProcess'
    BY <1>11 DEF IInv, TaskInProcess, TypeOK, Task, PendKey, TaskAt, Without
  <2>4. DiscardUnderWay'
    BY <1>11 DEF IInv, DiscardUnderWay, TaskInProcess, TypeOK, Task, PendKey,
           TaskAt, Without
  <2>5. DatabaseFirst'
    BY <1>11, PendKeyDoes DEF IInv, TaskInProcess, DatabaseFirst, PendKey
  <2>6. ExtractedOfTask'
    BY <1>11, PendKeyDoes DEF IInv, ExtractedOfTask, KeyExtracted, PendPCs
  <2>7. PendedOfTask'
    BY <1>11, PendKeyDoes DEF PendedOfTask, PendPCs
  <2>8. PendingOfOneArchive'
    BY <1>11, PendKeyDoes DEF PendingOfOneArchive
  <2>9. NoteNamesPending'
    BY <1>11, PendKeyDoes DEF NoteNamesPending
  <2> QED
    BY <1>11, <2>1, <2>2, <2>3, <2>4, <2>5, <2>6, <2>7, <2>8, <2>9
       DEF IInv, PendKey
<1>12. CASE PendDatabase
  <2>1. TypeOK'
    BY <1>12, StageTypes DEF IInv, StageStep
  <2>2. TaskOfArchive'
    BY <1>12 DEF IInv, TaskOfArchive, TaskInProcess, TypeOK, Task,
           PendDatabase, TaskAt, EndTask, Idle, Without
  <2>3. TaskInProcess'
    BY <1>12 DEF IInv, TaskInProcess, TypeOK, Task, PendDatabase, TaskAt,
           EndTask, Idle, Without
  <2>4. DiscardUnderWay'
    BY <1>12 DEF IInv, DiscardUnderWay, TaskInProcess, TypeOK, Task,
           PendDatabase, TaskAt, EndTask, Idle, Without
  <2>5. DatabaseFirst'
    BY <1>12, PendDatabaseDoes DEF DatabaseFirst
  <2>6. ExtractedOfTask'
    BY <1>12 DEF IInv, ExtractedOfTask, TaskInProcess, KeyExtracted, PendPCs,
           TypeOK, Task, PendDatabase, TaskAt, EndTask, Idle, Without
  <2>7. PendedOfTask'
    BY <1>12, PendDatabaseDoes DEF PendedOfTask, PendPCs
  <2>8. PendingOfOneArchive'
    BY <1>12, PendDatabaseDoes DEF PendingOfOneArchive
  <2>9. NoteNamesPending'
    BY <1>12, PendDatabaseDoes DEF NoteNamesPending
  <2> QED
    BY <1>12, <2>1, <2>2, <2>3, <2>4, <2>5, <2>6, <2>7, <2>8, <2>9
       DEF IInv, PendDatabase
<1>13. CASE PendFails
  <2>1. TypeOK'
    BY <1>13, StageTypes DEF IInv, StageStep
  <2>2. TaskOfArchive'
    BY <1>13 DEF IInv, TaskOfArchive, TaskInProcess, TypeOK, Task, PendFails,
           TaskAt, Discard, DiscardOrder, PendPCs, files
  <2>3. TaskInProcess'
    BY <1>13 DEF IInv, TaskInProcess, TypeOK, Task, PendFails, TaskAt,
           Discard, DiscardOrder, PendPCs, files
  <2>4. DiscardUnderWay'
    BY <1>13 DEF IInv, DiscardUnderWay, TaskInProcess, TypeOK, Task,
           PendFails, TaskAt, Discard, DiscardOrder, PendPCs, files
  <2>5. DatabaseFirst'
    BY <1>13 DEF IInv, DatabaseFirst, DiscardUnderWay, TaskInProcess,
           PendFails, TaskAt, Discard, DiscardOrder, PendPCs, files
  <2>6. ExtractedOfTask'
    BY <1>13 DEF IInv, ExtractedOfTask, TaskInProcess, KeyExtracted, PendPCs,
           TypeOK, Task, PendFails, TaskAt, Discard, DiscardOrder, files
  <2>7. PendedOfTask'
    BY <1>13 DEF IInv, PendedOfTask, TaskInProcess, DiscardUnderWay, PendPCs,
           TypeOK, Task, PendFails, TaskAt, Discard, DiscardOrder, files
  <2> QED
    BY <1>13, <2>1, <2>2, <2>3, <2>4, <2>5, <2>6, <2>7
       DEF IInv, PendingOfOneArchive, NoteNamesPending, PendFails, files
<1>14. CASE PendDropped
  <2>1. TypeOK'
    BY <1>14, StageTypes DEF IInv, StageStep
  <2>2. TaskOfArchive'
    BY <1>14 DEF IInv, TaskOfArchive, TaskInProcess, TypeOK, Task,
           PendDropped, TaskAt, EndTask, Idle, Without
  <2>3. TaskInProcess'
    BY <1>14 DEF IInv, TaskInProcess, TypeOK, Task, PendDropped, TaskAt,
           EndTask, Idle, Without
  <2>4. DiscardUnderWay'
    BY <1>14 DEF IInv, DiscardUnderWay, TaskInProcess, TypeOK, Task,
           PendDropped, TaskAt, EndTask, Idle, Without
  <2>5. DatabaseFirst'
    BY <1>14 DEF IInv, DatabaseFirst, PendDropped, TaskAt, EndTask, Idle,
           Without
  <2>6. ExtractedOfTask'
    BY <1>14 DEF IInv, ExtractedOfTask, TaskInProcess, KeyExtracted, PendPCs,
           TypeOK, Task, PendDropped, TaskAt, EndTask, Idle, Without
  <2>7. PendedOfTask'
    BY <1>14 DEF IInv, PendedOfTask, TaskInProcess, DiscardUnderWay, PendPCs,
           TypeOK, Task, PendDropped, TaskAt, EndTask, Idle, Without
  <2>8. PendingOfOneArchive'
    BY <1>14 DEF IInv, PendingOfOneArchive, PendDropped, TaskAt, EndTask,
           Idle, Without
  <2> QED
    BY <1>14, <2>1, <2>2, <2>3, <2>4, <2>5, <2>6, <2>7, <2>8
       DEF IInv, NoteNamesPending, PendDropped
<1> QED BY <1>1, <1>2, <1>3, <1>4, <1>5, <1>6, <1>7, <1>8, <1>9, <1>10, <1>11,
           <1>12, <1>13, <1>14
           DEF StageStep

\* The start of a staging, by the server or by a command.
LEMMA BeginInvariant ==
  ASSUME IInv, NEW a \in Archives, StageBegin(a)
  PROVE  IInv'
<1>1. TypeOK'
  BY BeginTypes DEF IInv
<1>2. TaskOfArchive'
  BY DEF IInv, TaskOfArchive, TaskInProcess, TypeOK, Task, StageBegin, Idle,
         files
<1>3. TaskInProcess'
  BY DEF IInv, TaskInProcess, TypeOK, Task, StageBegin, Idle, files
<1>4. DiscardUnderWay'
  BY DEF IInv, DiscardUnderWay, TaskInProcess, TypeOK, Task, StageBegin, Idle,
         files
<1>5. DatabaseFirst'
  BY DEF IInv, DatabaseFirst, DiscardUnderWay, TaskInProcess, StageBegin,
         Idle, files
<1>6. ExtractedOfTask'
  BY DEF IInv, ExtractedOfTask, TaskInProcess, KeyExtracted, PendPCs, TypeOK,
         Task, StageBegin, Idle, files
<1>7. PendedOfTask'
  BY DEF IInv, PendedOfTask, TaskInProcess, DiscardUnderWay, PendPCs, TypeOK,
         Task, StageBegin, Idle, files
<1> QED
  BY <1>1, <1>2, <1>3, <1>4, <1>5, <1>6, <1>7
     DEF IInv, PendingOfOneArchive, NoteNamesPending, StageBegin, files

\* A file discarded.
LEMMA DiscardInvariant ==
  ASSUME IInv, DiscardNext
  PROVE  IInv'
<1>1. TypeOK'
  BY DiscardTypes DEF IInv
<1>2. DiscardUnderWay'
  BY DEF IInv, DiscardUnderWay, TaskInProcess, TypeOK, Task, DiscardNext,
         DiscardOrder, Without
<1>3. DatabaseFirst'
  BY DiscardNextDoes DEF IInv, TaskInProcess, DatabaseFirst, NoSet
<1>4. PendedOfTask'
  BY DiscardNextDoes DEF IInv, TaskInProcess, PendedOfTask, PendPCs
<1>5. PendingOfOneArchive'
  BY DiscardNextDoes DEF PendingOfOneArchive, NoSet, NoDb, Exists
<1>6. NoteNamesPending'
  BY DiscardNextDoes DEF NoteNamesPending, NoSet, NoDb, Exists
<1> QED
  BY <1>1, <1>2, <1>3, <1>4, <1>5, <1>6
     DEF IInv, TaskOfArchive, TaskInProcess, ExtractedOfTask, DiscardNext

\* What else is asked of the server.
LEMMA OperateInvariant ==
  ASSUME IInv, Operate
  PROVE  IInv'
<1>1. CASE WithdrawBegin
  <2>1. TypeOK'
    BY <1>1, OperateTypes DEF IInv, Operate
  <2>2. TaskOfArchive'
    BY <1>1 DEF IInv, TaskOfArchive, TaskInProcess, TypeOK, Task,
           WithdrawBegin, Discard, DiscardOrder, Idle, files
  <2>3. TaskInProcess'
    BY <1>1 DEF IInv, TaskInProcess, TypeOK, Task, WithdrawBegin, Discard,
           DiscardOrder, Idle, files
  <2>4. DiscardUnderWay'
    BY <1>1 DEF IInv, DiscardUnderWay, TaskInProcess, TypeOK, Task,
           WithdrawBegin, Discard, DiscardOrder, Idle, files
  <2>5. DatabaseFirst'
    BY <1>1 DEF IInv, DatabaseFirst, DiscardUnderWay, TaskInProcess,
           WithdrawBegin, Discard, DiscardOrder, Idle, files
  <2>6. ExtractedOfTask'
    BY <1>1 DEF IInv, ExtractedOfTask, TaskInProcess, KeyExtracted, PendPCs,
           TypeOK, Task, WithdrawBegin, Discard, DiscardOrder, Idle, files
  <2>7. PendedOfTask'
    BY <1>1 DEF IInv, PendedOfTask, TaskInProcess, DiscardUnderWay, PendPCs,
           TypeOK, Task, WithdrawBegin, Discard, DiscardOrder, Idle, files
  <2> QED
    BY <1>1, <2>1, <2>2, <2>3, <2>4, <2>5, <2>6, <2>7
       DEF IInv, PendingOfOneArchive, NoteNamesPending, WithdrawBegin, files
<1>2. CASE WithdrawEnd
  <2>1. TypeOK'
    BY <1>2, OperateTypes DEF IInv, Operate
  <2>2. TaskOfArchive'
    BY <1>2 DEF IInv, TaskOfArchive, TaskInProcess, TypeOK, Task, WithdrawEnd,
           TaskAt, EndTask, Idle
  <2>3. TaskInProcess'
    BY <1>2 DEF IInv, TaskInProcess, TypeOK, Task, WithdrawEnd, TaskAt,
           EndTask, Idle
  <2>4. DiscardUnderWay'
    BY <1>2 DEF IInv, DiscardUnderWay, TaskInProcess, TypeOK, Task,
           WithdrawEnd, TaskAt, EndTask, Idle
  <2>5. DatabaseFirst'
    BY <1>2 DEF IInv, DatabaseFirst, WithdrawEnd, TaskAt, EndTask, Idle
  <2>6. ExtractedOfTask'
    BY <1>2 DEF IInv, ExtractedOfTask, TaskInProcess, KeyExtracted, PendPCs,
           TypeOK, Task, WithdrawEnd, TaskAt, EndTask, Idle
  <2>7. PendedOfTask'
    BY <1>2 DEF IInv, PendedOfTask, TaskInProcess, DiscardUnderWay, PendPCs,
           TypeOK, Task, WithdrawEnd, TaskAt, EndTask, Idle
  <2>8. PendingOfOneArchive'
    BY <1>2 DEF IInv, PendingOfOneArchive, WithdrawEnd, TaskAt, EndTask, Idle
  <2> QED
    BY <1>2, <2>1, <2>2, <2>3, <2>4, <2>5, <2>6, <2>7, <2>8
       DEF IInv, NoteNamesPending, WithdrawEnd
<1>3. CASE DeleteReplaced
  <2>1. TypeOK'
    BY <1>3, OperateTypes DEF IInv, Operate
  <2> QED BY <1>3, <2>1, FilesKept DEF IInv, TaskInProcess, DiscardUnderWay,
                 DeleteReplaced
<1>4. CASE SealCredential
  <2>1. TypeOK'
    BY <1>4, OperateTypes DEF IInv, Operate
  <2> QED BY <1>4, <2>1, FilesKept DEF IInv, TaskInProcess, DiscardUnderWay,
                 SealCredential, work, TypeOK, Live
<1>5. CASE ClearApiKey
  <2>1. TypeOK'
    BY <1>5, OperateTypes DEF IInv, Operate
  <2> QED BY <1>5, <2>1, FilesKept DEF IInv, TaskInProcess, DiscardUnderWay,
                 ClearApiKey, Said, TypeOK, Live
<1>6. CASE RotateApiKey
  <2>1. TypeOK'
    BY <1>6, OperateTypes DEF IInv, Operate
  <2> QED BY <1>6, <2>1, FilesKept DEF IInv, TaskInProcess, DiscardUnderWay,
                 RotateApiKey, Said, TypeOK, Live
<1>7. CASE ApiKeyChanged
  <2>1. TypeOK'
    BY <1>7, OperateTypes DEF IInv, Operate
  <2> QED BY <1>7, <2>1, FilesKept DEF IInv, TaskInProcess, DiscardUnderWay,
                 ApiKeyChanged, TypeOK, Live
<1> QED BY <1>1, <1>2, <1>3, <1>4, <1>5, <1>6, <1>7 DEF Operate

\* A start.
LEMMA StartInvariant ==
  ASSUME IInv, Start
  PROVE  IInv'
<1>1. CASE SweepLeftovers
  <2>1. TypeOK'
    BY <1>1, StartTypes DEF IInv, Start
  <2>2. TaskInProcess'
    BY <1>1 DEF IInv, TaskInProcess, TypeOK, Task, SweepLeftovers, work
  <2>3. DiscardUnderWay'
    BY <1>1 DEF IInv, DiscardUnderWay, TaskInProcess, TypeOK, Task,
           SweepLeftovers, work
  <2>4. DatabaseFirst'
    BY <1>1 DEF IInv, DatabaseFirst, TaskInProcess, DiscardUnderWay,
           PendedOfTask, PendPCs, TypeOK, Task, FileSet, Live, NoSet, NoDb,
           Exists, SweepLeftovers, work
  <2>5. ExtractedOfTask'
    BY <1>1 DEF IInv, ExtractedOfTask, TaskInProcess, KeyExtracted, PendPCs,
           TypeOK, Task, ExtractPCs, TaskPCs, SweepLeftovers, work
  <2>6. PendedOfTask'
    BY <1>1 DEF IInv, PendedOfTask, TaskInProcess, DiscardUnderWay, PendPCs,
           TypeOK, Task, DatabaseFirst, FileSet, Live, NoSet, NoDb, Exists,
           SweepLeftovers, work
  <2>7. NoteNamesPending'
    BY <1>1 DEF IInv, NoteNamesPending, TaskInProcess, DiscardUnderWay,
           DatabaseFirst, PendedOfTask, PendPCs, TypeOK, Task, FileSet, Live,
           NoSet, NoDb, Exists, SweepLeftovers, work
  <2> QED
    BY <1>1, <2>1, <2>2, <2>3, <2>4, <2>5, <2>6, <2>7
       DEF IInv, TaskOfArchive, PendingOfOneArchive, SweepLeftovers, work
<1>2. CASE NothingPending
  <2>1. TypeOK'
    BY <1>2, StartTypes DEF IInv, Start
  <2> QED BY <1>2, <2>1, FilesKept DEF IInv, TaskInProcess, DiscardUnderWay,
                 NothingPending, StartAt, files, work
<1>3. CASE RejectPending
  <2>1. TypeOK'
    BY <1>3, StartTypes DEF IInv, Start
  <2>2. TaskInProcess'
    BY <1>3 DEF IInv, TaskInProcess, TypeOK, Task, RejectPending, Discard,
           DiscardOrder, StartAt, files
  <2>3. DiscardUnderWay'
    BY <1>3 DEF IInv, DiscardUnderWay, TaskInProcess, TypeOK, Task,
           RejectPending, Discard, DiscardOrder, StartAt, files
  <2>4. DatabaseFirst'
    BY <1>3 DEF IInv, DatabaseFirst, DiscardUnderWay, TaskInProcess,
           RejectPending, Discard, DiscardOrder, StartAt, files
  <2>5. PendedOfTask'
    BY <1>3 DEF IInv, PendedOfTask, TaskInProcess, DiscardUnderWay, PendPCs,
           TypeOK, Task, TaskPCs, RejectPending, Discard, DiscardOrder,
           StartAt, files
  <2> QED
    BY <1>3, <2>1, <2>2, <2>3, <2>4, <2>5
       DEF IInv, TaskOfArchive, ExtractedOfTask, PendingOfOneArchive,
           NoteNamesPending, RejectPending, files
<1>4. CASE Rejected
  <2>1. TypeOK'
    BY <1>4, StartTypes DEF IInv, Start
  <2> QED BY <1>4, <2>1, FilesKept DEF IInv, TaskInProcess, DiscardUnderWay,
                 Rejected, StartAt, files, work
<1>5. CASE AcceptPending
  <2>1. TypeOK'
    BY <1>5, StartTypes DEF IInv, Start
  <2> QED BY <1>5, <2>1, FilesKept DEF IInv, TaskInProcess, DiscardUnderWay,
                 AcceptPending, StartAt, files, work
<1>6. CASE SetTheKeyAside
  <2>1. TypeOK'
    BY <1>6, StartTypes DEF IInv, Start
  <2> QED BY <1>6, <2>1, FilesKept DEF IInv, TaskInProcess, DiscardUnderWay,
                 SetTheKeyAside, StartAt, work, TypeOK, Live
<1>7. CASE NoneToSetAside
  <2>1. TypeOK'
    BY <1>7, StartTypes DEF IInv, Start
  <2> QED BY <1>7, <2>1, FilesKept DEF IInv, TaskInProcess, DiscardUnderWay,
                 NoneToSetAside, StartAt, WithoutDatabase, work
<1>8. CASE SetTheDatabaseAside
  <2>1. TypeOK'
    BY <1>8, StartTypes DEF IInv, Start
  <2> QED BY <1>8, <2>1, FilesKept DEF IInv, TaskInProcess, DiscardUnderWay,
                 SetTheDatabaseAside, StartAt, work, TypeOK, Live
<1>9. CASE SetTheLogAside
  <2>1. TypeOK'
    BY <1>9, StartTypes DEF IInv, Start
  <2> QED BY <1>9, <2>1, FilesKept DEF IInv, TaskInProcess, DiscardUnderWay,
                 SetTheLogAside, StartAt, work, TypeOK, Live
<1>10. CASE RestoreApi
  <2>1. TypeOK'
    BY <1>10, StartTypes DEF IInv, Start
  <2>2. TaskInProcess'
    BY <1>10 DEF IInv, TaskInProcess, TypeOK, Task, RestoreApi, Without,
           StartAt, work
  <2>3. DiscardUnderWay'
    BY <1>10 DEF IInv, DiscardUnderWay, TaskInProcess, TypeOK, Task,
           RestoreApi, Without, StartAt, work
  <2>4. DatabaseFirst'
    BY <1>10 DEF IInv, DatabaseFirst, TaskInProcess, DiscardUnderWay,
           PendedOfTask, PendPCs, TypeOK, Task, FileSet, Live, NoSet, NoDb,
           Exists, RestoreApi, Without, StartAt, work
  <2>5. PendedOfTask'
    BY <1>10 DEF IInv, PendedOfTask, TaskInProcess, DiscardUnderWay, PendPCs,
           TypeOK, Task, DatabaseFirst, FileSet, Live, NoSet, NoDb, Exists,
           RestoreApi, Without, StartAt, work
  <2>6. PendingOfOneArchive'
    <3>1. /\ pending'.db = pending.db /\ pending'.key = pending.key
          /\ pending'.api \in {None, pending.api}
          /\ live'.key = live.key
      BY <1>10 DEF IInv, TypeOK, FileSet, Live, RestoreApi, Without
    <3> QED BY <3>1 DEF IInv, PendingOfOneArchive
  <2>7. NoteNamesPending'
    <3>1. pending'.db = pending.db /\ note' = note
      BY <1>10 DEF RestoreApi, Without
    <3> QED BY <3>1 DEF IInv, NoteNamesPending
  <2> QED
    BY <1>10, <2>1, <2>2, <2>3, <2>4, <2>5, <2>6, <2>7
       DEF IInv, TaskOfArchive, ExtractedOfTask, RestoreApi, work
<1>11. CASE RestoreKey
  <2>1. TypeOK'
    BY <1>11, StartTypes DEF IInv, Start
  <2>2. TaskInProcess'
    BY <1>11 DEF IInv, TaskInProcess, TypeOK, Task, RestoreKey, Without,
           StartAt, work
  <2>3. DiscardUnderWay'
    BY <1>11 DEF IInv, DiscardUnderWay, TaskInProcess, TypeOK, Task,
           RestoreKey, Without, StartAt, work
  <2>4. DatabaseFirst'
    BY <1>11, ConstantsAssumption DEF IInv, DatabaseFirst, TaskInProcess,
           DiscardUnderWay, PendedOfTask, PendPCs, TypeOK, Task, FileSet,
           Live, NoSet, NoDb, Exists, RestoreKey, Without, StartAt, work
  <2>5. PendedOfTask'
    BY <1>11, ConstantsAssumption DEF IInv, PendedOfTask, TaskInProcess,
           DiscardUnderWay, PendPCs, TypeOK, Task, DatabaseFirst, FileSet,
           Live, NoSet, NoDb, Exists, RestoreKey, Without, StartAt, work
  <2>6. PendingOfOneArchive'
    <3>1. /\ pending'.db = pending.db /\ pending'.api = pending.api
          /\ pending'.key = None
          /\ live'.key = IF pending.key = None THEN live.key ELSE pending.key
      BY <1>11 DEF IInv, TypeOK, FileSet, Live, RestoreKey, Without
    <3> QED BY <3>1, ConstantsAssumption DEF IInv, PendingOfOneArchive
  <2>7. NoteNamesPending'
    <3>1. pending'.db = pending.db /\ note' = note
      BY <1>11 DEF RestoreKey, Without
    <3> QED BY <3>1 DEF IInv, NoteNamesPending
  <2> QED
    BY <1>11, <2>1, <2>2, <2>3, <2>4, <2>5, <2>6, <2>7
       DEF IInv, TaskOfArchive, ExtractedOfTask, RestoreKey, work
<1>12. CASE RestoreDatabase
  <2>1. TypeOK'
    BY <1>12, StartTypes DEF IInv, Start
  <2>2. TaskInProcess'
    BY <1>12 DEF IInv, TaskInProcess, TypeOK, Task, RestoreDatabase, Without,
           StartAt, work
  <2>3. DiscardUnderWay'
    BY <1>12 DEF IInv, DiscardUnderWay, TaskInProcess, TypeOK, Task,
           RestoreDatabase, Without, StartAt, work
  <2>4. DatabaseFirst'
    BY <1>12 DEF IInv, DatabaseFirst, TaskInProcess, DiscardUnderWay,
           PendedOfTask, PendPCs, TypeOK, Task, FileSet, Live, NoSet, NoDb,
           Exists, RestoreDatabase, Without, StartAt, work
  <2>5. PendedOfTask'
    BY <1>12 DEF IInv, PendedOfTask, TaskInProcess, DiscardUnderWay, PendPCs,
           TypeOK, Task, DatabaseFirst, FileSet, Live, NoSet, NoDb, Exists,
           RestoreDatabase, Without, StartAt, work
  <2>6. PendingOfOneArchive'
    BY <1>12 DEF IInv, PendingOfOneArchive, TaskInProcess, DiscardUnderWay,
           DatabaseFirst, PendedOfTask, PendPCs, TypeOK, Task, FileSet, Live,
           NoSet, NoDb, Exists, RestoreDatabase, Without, StartAt, work
  <2>7. NoteNamesPending'
    BY <1>12 DEF IInv, NoteNamesPending, TaskInProcess, DiscardUnderWay,
           DatabaseFirst, PendedOfTask, PendPCs, TypeOK, Task, FileSet, Live,
           NoSet, NoDb, Exists, RestoreDatabase, Without, StartAt, work
  <2> QED
    BY <1>12, <2>1, <2>2, <2>3, <2>4, <2>5, <2>6, <2>7
       DEF IInv, TaskOfArchive, ExtractedOfTask, RestoreDatabase, work
<1>13. CASE RemoveNote
  <2>1. TypeOK'
    BY <1>13, StartTypes DEF IInv, Start
  <2>2. TaskInProcess'
    BY <1>13 DEF IInv, TaskInProcess, TypeOK, Task, RemoveNote, StartAt, work
  <2>3. DiscardUnderWay'
    BY <1>13 DEF IInv, DiscardUnderWay, TaskInProcess, TypeOK, Task,
           RemoveNote, StartAt, work
  <2>4. DatabaseFirst'
    BY <1>13 DEF IInv, DatabaseFirst, TaskInProcess, DiscardUnderWay,
           PendedOfTask, PendPCs, TypeOK, Task, FileSet, Live, NoSet, NoDb,
           Exists, RemoveNote, StartAt, work
  <2>5. PendedOfTask'
    BY <1>13 DEF IInv, PendedOfTask, TaskInProcess, DiscardUnderWay, PendPCs,
           TypeOK, Task, DatabaseFirst, FileSet, Live, NoSet, NoDb, Exists,
           RemoveNote, StartAt, work
  <2>6. NoteNamesPending'
    <3>1. pending'.db = NoDb
      BY <1>13 DEF IInv, DatabaseFirst, RemoveNote, StartAt
    <3> QED BY <3>1 DEF NoteNamesPending, NoDb, Exists
  <2> QED
    BY <1>13, <2>1, <2>2, <2>3, <2>4, <2>5, <2>6
       DEF IInv, TaskOfArchive, ExtractedOfTask, PendingOfOneArchive,
           RemoveNote, work
<1>14. CASE OpenPool
  <2>1. TypeOK'
    BY <1>14, StartTypes DEF IInv, Start
  <2> QED BY <1>14, <2>1, FilesKept DEF IInv, TaskInProcess, DiscardUnderWay,
                 OpenPool, StartAt, work, TypeOK, Live
<1>15. CASE StartServes
  <2>1. TypeOK'
    BY <1>15, StartTypes DEF IInv, Start
  <2> QED BY <1>15, <2>1, FilesKept DEF IInv, TaskInProcess, DiscardUnderWay,
                 StartServes, StartAt, work, TypeOK, Live
<1>16. CASE StartRefused
  <2>1. TypeOK'
    BY <1>16, StartTypes DEF IInv, Start
  <2> QED BY <1>16, <2>1, FilesKept DEF IInv, TaskInProcess, DiscardUnderWay,
                 StartRefused, StartAt, files, work
<1> QED BY <1>1, <1>2, <1>3, <1>4, <1>5, <1>6, <1>7, <1>8, <1>9, <1>10, <1>11,
           <1>12, <1>13, <1>14, <1>15, <1>16
           DEF Start

\* The end of the process.
LEMMA EndInvariant ==
  ASSUME IInv, Stop \/ Crash
  PROVE  IInv'
<1>1. CASE Stop
  <2>1. TypeOK'
    BY <1>1, EndTypes DEF IInv
  <2>2. TaskOfArchive'
    BY <1>1 DEF IInv, TaskOfArchive, TaskInProcess, TypeOK, Task, Stop, Gone,
           Idle
  <2>3. TaskInProcess'
    BY <1>1 DEF IInv, TaskInProcess, TypeOK, Task, Stop, Gone, Idle
  <2>4. DiscardUnderWay'
    BY <1>1 DEF IInv, DiscardUnderWay, TaskInProcess, TypeOK, Task, Stop,
           Gone, Idle
  <2>5. DatabaseFirst'
    BY <1>1 DEF IInv, DatabaseFirst, DiscardUnderWay, TaskInProcess, Stop,
           Gone, Idle
  <2>6. ExtractedOfTask'
    BY <1>1 DEF IInv, ExtractedOfTask, TaskInProcess, KeyExtracted, PendPCs,
           TypeOK, Task, Stop, Gone, Idle
  <2>7. PendedOfTask'
    BY <1>1 DEF IInv, PendedOfTask, TaskInProcess, DiscardUnderWay, PendPCs,
           TypeOK, Task, Stop, Gone, Idle
  <2>8. PendingOfOneArchive'
    BY <1>1 DEF IInv, PendingOfOneArchive, Stop, Gone, Idle
  <2> QED
    BY <1>1, <2>1, <2>2, <2>3, <2>4, <2>5, <2>6, <2>7, <2>8
       DEF IInv, NoteNamesPending, Stop, Gone
<1>2. CASE Crash
  <2>1. TypeOK'
    BY <1>2, EndTypes DEF IInv
  <2>2. TaskOfArchive'
    BY <1>2 DEF IInv, TaskOfArchive, TaskInProcess, TypeOK, Task, Crash, Gone,
           Idle
  <2>3. TaskInProcess'
    BY <1>2 DEF IInv, TaskInProcess, TypeOK, Task, Crash, Gone, Idle
  <2>4. DiscardUnderWay'
    BY <1>2 DEF IInv, DiscardUnderWay, TaskInProcess, TypeOK, Task, Crash,
           Gone, Idle
  <2>5. DatabaseFirst'
    BY <1>2 DEF IInv, DatabaseFirst, DiscardUnderWay, TaskInProcess, Crash,
           Gone, Idle
  <2>6. ExtractedOfTask'
    BY <1>2 DEF IInv, ExtractedOfTask, TaskInProcess, KeyExtracted, PendPCs,
           TypeOK, Task, Crash, Gone, Idle
  <2>7. PendedOfTask'
    BY <1>2 DEF IInv, PendedOfTask, TaskInProcess, DiscardUnderWay, PendPCs,
           TypeOK, Task, Crash, Gone, Idle
  <2> QED
    BY <1>2, <2>1, <2>2, <2>3, <2>4, <2>5, <2>6, <2>7
       DEF IInv, PendingOfOneArchive, NoteNamesPending, Crash, Gone
<1> QED BY <1>1, <1>2 DEF Stop

-----------------------------------------------------------------------------
(***************************************************************************)
(* The theorems.                                                           *)
(***************************************************************************)

LEMMA Initially == Init => IInv
<1> SUFFICES ASSUME Init PROVE IInv
  OBVIOUS
<1>1. live \in Live
  <2>1. CASE live = [db |-> NoDb, log |-> 0, key |-> None, api |-> None]
    BY <2>1, NoDbType DEF Live, Log, Key, ApiKey
  <2>2. ASSUME NEW seal \in {None, Home}, NEW api \in {None, Here},
               live = [db |-> [NoDb EXCEPT !.copy = 1, !.seal = seal], log |-> 0,
                       key |-> Home, api |-> api]
        PROVE  live \in Live
    <3>1. seal \in Key /\ Home \in Key /\ api \in ApiKey
      BY ConstantsAssumption DEF Key, ApiKey
    <3>2. [NoDb EXCEPT !.copy = 1, !.seal = seal] \in Db
      BY <3>1, NoDbType DEF Db
    <3> QED BY <2>2, <3>1, <3>2 DEF Live, Log
  <2> QED BY <2>1, <2>2 DEF Init
<1>2. live.db.copy \in Nat
  BY <1>1 DEF Live, Db
<1>3. kept \in Kept
  BY NoDbType DEF Init, Kept, Log, Key
<1>4. copies \in Nat
  BY DEF Init
<1>5. TypeOK
  BY <1>1, <1>2, <1>3, <1>4, NoSetType, IdleType
     DEF Init, TypeOK, Archive, PCs, Parts
<1>6. task.pc = "idle" /\ task.brought = {} /\ pc = "off" /\ discarding = "no"
  BY DEF Init, Idle
<1>7. ~Exists(pending.db)
  BY DEF Init, NoSet, NoDb, Exists
<1> QED
  BY <1>5, <1>6, <1>7
     DEF IInv, TaskOfArchive, TaskInProcess, DiscardUnderWay, DatabaseFirst,
         ExtractedOfTask, KeyExtracted, PendedOfTask, PendPCs,
         PendingOfOneArchive, NoteNamesPending

LEMMA Stuttering ==
  ASSUME IInv, UNCHANGED vars
  PROVE  IInv'
<1>1. TypeOK'
  BY DEF IInv, TypeOK, vars
<1> QED BY <1>1, FilesKept DEF IInv, TaskInProcess, vars

\* A staging, a withdrawal, a start and a crash keep the set that is pending of one
\* archive, the one its note names, at every step.
THEOREM Invariance == Spec => []IInv
<1>1. IInv /\ [Next]_vars => IInv'
  <2> SUFFICES ASSUME IInv, [Next]_vars PROVE IInv'
    OBVIOUS
  <2>1. CASE DiscardNext
    BY <2>1, DiscardInvariant
  <2>2. CASE StageStep
    BY <2>2, StageInvariant
  <2>3. ASSUME NEW a \in Archives, StageBegin(a) PROVE IInv'
    BY <2>3, BeginInvariant
  <2>4. CASE Operate
    BY <2>4, OperateInvariant
  <2>5. CASE Start
    BY <2>5, StartInvariant
  <2>6. CASE Stop \/ Crash
    BY <2>6, EndInvariant
  <2>7. CASE UNCHANGED vars
    BY <2>7, Stuttering
  <2> QED BY <2>1, <2>2, <2>3, <2>4, <2>5, <2>6, <2>7 DEF Next, Stage
<1> QED BY Initially, <1>1, PTL DEF Spec

\* Every variable keeps its type.
THEOREM TypeCorrect == Spec => []TypeOK
<1>1. IInv => TypeOK
  BY DEF IInv
<1> QED BY Invariance, <1>1, PTL

\* The keys a start would restore beside a pending database are those of the same
\* archive, and none it carries is missing.
THEOREM OneArchive == Spec => []PendingOfOneArchive
<1>1. IInv => PendingOfOneArchive
  BY DEF IInv
<1> QED BY Invariance, <1>1, PTL

\* The archive the Backups card names is the one the next start applies.
THEOREM NoteTells == Spec => []NoteNamesPending
<1>1. IInv => NoteNamesPending
  BY DEF IInv
<1> QED BY Invariance, <1>1, PTL

-----------------------------------------------------------------------------
(***************************************************************************)
(* What the server alone restores: no `routarr restore`. Where each file   *)
(* is follows from the step of the start and from what is pending, so that *)
(* a start that finds an apply half done goes on with it.                  *)
(***************************************************************************)

\* The databases: in place when served, and set aside only for one that is pending.
DatabasePlaced ==
  /\ pc # "offline"
  /\ pc \in {"note", "opening", "opened"} \/ (pc = "rejected" /\ discarding # "db") =>
       ~Exists(pending.db)
  /\ pc \in {"key", "database", "log", "api", "masterkey", "base"} => Exists(pending.db)
  /\ pc \in {"log", "api", "masterkey", "base"} => ~Exists(live.db)
  /\ pc \in {"opened", "up"} => Exists(live.db)
  /\ pc = "up" => served = live.db.copy
  /\ Exists(pending.db) /\ Exists(live.db) => served \in {0, live.db.copy}
  /\ LastServedKept

\* The logs: of the database beside them, or left by one that is set aside.
LogPlaced ==
  /\ Exists(live.db) => live.log \in {0, live.db.copy}
  /\ ~Exists(live.db) /\ live.log # 0 => Exists(pending.db) /\ live.log = kept.db.copy
  /\ pc \in {"api", "masterkey", "base"} => live.log = 0
  /\ Exists(kept.db) => kept.log \in {0, kept.db.copy}

LEMMA Served ==
  ASSUME DatabasePlaced, pc = "up", pc' = "up", live'.db.copy = live.db.copy, served' = served
  PROVE  DatabasePlaced'
BY DEF DatabasePlaced, Exists, LastServedKept

LEMMA LogUp ==
  ASSUME DatabasePlaced, LogPlaced, pc = "up", pc' = "up", live'.db.copy = live.db.copy,
         live'.log = live.log, kept' = kept
  PROVE  LogPlaced'
BY DEF DatabasePlaced, LogPlaced, Exists

\* A staging leaves the files in place alone.
LEMMA StageLeaves ==
  ASSUME IInv, ~Offline, DatabasePlaced, StageStep \/ \E a \in Archives : StageBegin(a)
  PROVE  /\ pc = "up" /\ pc' = "up"
         /\ UNCHANGED <<live, kept, deleting, changing, served, word>>
<1>1. CASE StageStep
  <2>1. task.pc # "idle"
    BY <1>1 DEF StageStep, ExtractDatabase, ExtractKey, ExtractApi, ReadWithdrawals,
         OpenedByTheNextStart, KeepTodaysCredentials, StageRefused, DiscardEarlier, WriteNote,
         PendApi, PendKey, PendDatabase, PendFails, PendDropped, TaskAt, ExtractPCs, PendPCs
  <2>2. pc = "up"
    BY <2>1 DEF IInv, TaskInProcess, DatabasePlaced
  <2> QED
    BY <1>1, <2>2 DEF StageStep, ExtractDatabase, ExtractKey, ExtractApi, ReadWithdrawals,
         OpenedByTheNextStart, KeepTodaysCredentials, StageRefused, DiscardEarlier, WriteNote,
         PendApi, PendKey, PendDatabase, PendFails, PendDropped, EndTask, files, work, asked, past
<1>2. ASSUME NEW a \in Archives, StageBegin(a)
      PROVE  /\ pc = "up" /\ pc' = "up"
             /\ UNCHANGED <<live, kept, deleting, changing, served, word>>
  BY <1>2 DEF StageBegin, files, asked
<1> QED BY <1>1, <1>2

\* What is asked of a server changes its files' places only where it deletes.
LEMMA OperateLeaves ==
  ASSUME IInv, ~Offline, DatabasePlaced, Operate
  PROVE  /\ pc = "up" /\ pc' = "up" /\ served' = served
         /\ live'.db.copy = live.db.copy /\ live'.log = live.log /\ live'.key = live.key
         /\ kept' = kept \/ DeleteReplaced
<1>1. live \in Live /\ live.db \in Db
  BY DEF IInv, TypeOK, Live
<1>2. CASE WithdrawBegin
  BY <1>2 DEF WithdrawBegin, files, past
<1>3. CASE WithdrawEnd
  <2>1. pc = "up"
    BY <1>3 DEF WithdrawEnd, TaskAt, IInv, TaskInProcess, DatabasePlaced
  <2> QED BY <1>3, <2>1 DEF WithdrawEnd, EndTask, past
<1>4. CASE DeleteReplaced
  BY <1>4 DEF DeleteReplaced, past
<1>5. CASE SealCredential
  BY <1>1, <1>5 DEF SealCredential, Live, Db, past
<1>6. CASE ClearApiKey
  BY <1>1, <1>6 DEF ClearApiKey, Said, Live, Db
<1>7. CASE RotateApiKey
  BY <1>1, <1>7 DEF RotateApiKey, Said, Live, Db
<1>8. CASE ApiKeyChanged
  BY <1>1, <1>8 DEF ApiKeyChanged, Live, Db, past
<1> QED BY <1>2, <1>3, <1>4, <1>5, <1>6, <1>7, <1>8 DEF Operate

LEMMA DiscardLeaves ==
  ASSUME IInv, DiscardNext
  PROVE  UNCHANGED <<live, kept, pc, served, word, stale, deleting, changing, staging, task>>
BY DEF DiscardNext, asked, past

LEMMA NoDbExists == ~Exists(NoDb)
BY DEF NoDb, Exists

\* A start works on the files alone, step by step.
LEMMA PlacedAtStart ==
  ASSUME IInv, ~Offline, DatabasePlaced, Start
  PROVE  DatabasePlaced'
<1>1. /\ live \in Live /\ live.db \in Db /\ kept \in Kept /\ kept.db \in Db
      /\ pending \in FileSet /\ pending.db \in Db /\ copies \in Nat /\ NoDb \in Db
  BY NoDbType DEF IInv, TypeOK, Live, Kept, FileSet
<1>2. CASE SweepLeftovers
  BY <1>2 DEF SweepLeftovers, DatabasePlaced, LastServedKept, past, work
<1>3. CASE NothingPending
  BY <1>3, NoDbExists DEF NothingPending, StartAt, DatabasePlaced, LastServedKept, past, work, files, NoSet
<1>4. CASE RejectPending
  BY <1>4 DEF RejectPending, StartAt, DatabasePlaced, LastServedKept, files, Discard, DiscardOrder
<1>5. CASE Rejected
  BY <1>5 DEF Rejected, StartAt, DatabasePlaced, LastServedKept, past, work, files
<1>6. CASE AcceptPending
  BY <1>6 DEF AcceptPending, StartAt, DatabasePlaced, LastServedKept, past, work, files
<1>7. CASE SetTheKeyAside
  <2>1. live'.db = live.db /\ kept'.db = kept.db
    BY <1>1, <1>7 DEF SetTheKeyAside, Live, Kept
  <2> QED BY <1>7, <2>1 DEF SetTheKeyAside, StartAt, DatabasePlaced, LastServedKept, past, work
<1>8. CASE NoneToSetAside
  <2>1. kept' = kept
    BY <1>1, <1>8 DEF NoneToSetAside, WithoutDatabase, Kept
  <2> QED BY <1>8, <2>1 DEF NoneToSetAside, WithoutDatabase, StartAt, DatabasePlaced, LastServedKept, past, work
<1>9. CASE SetTheDatabaseAside
  <2>1. \/ live'.db = live.db /\ kept'.db = kept.db /\ pc' = pc
        \/ ~Exists(live'.db) /\ live'.db.copy = 0 /\ kept'.db = live.db /\ pc' = "log"
    BY <1>1, <1>9 DEF SetTheDatabaseAside, Live, Kept, NoDb, Exists
  <2> QED BY <1>9, <2>1 DEF SetTheDatabaseAside, StartAt, DatabasePlaced, LastServedKept, past, work
<1>10. CASE SetTheLogAside
  <2>1. live'.db = live.db /\ kept'.db = kept.db
    BY <1>1, <1>10 DEF SetTheLogAside, Live, Kept
  <2> QED BY <1>10, <2>1 DEF SetTheLogAside, StartAt, DatabasePlaced, LastServedKept, past, work
<1>11. CASE RestoreApi
  <2>1. live'.db = live.db /\ pending'.db = pending.db
    BY <1>1, <1>11 DEF RestoreApi, Live, Without
  <2> QED BY <1>11, <2>1 DEF RestoreApi, StartAt, DatabasePlaced, LastServedKept, past, work
<1>12. CASE RestoreKey
  <2>1. live'.db = live.db /\ pending'.db = pending.db
    BY <1>1, <1>12 DEF RestoreKey, Live, Without
  <2> QED BY <1>12, <2>1 DEF RestoreKey, StartAt, DatabasePlaced, LastServedKept, past, work
<1>13. CASE RestoreDatabase
  <2>1. live'.db = pending.db /\ pending'.db = NoDb
    BY <1>1, <1>13 DEF RestoreDatabase, Live, Without
  <2>2. served \in {0, kept.db.copy}
    BY <1>13 DEF RestoreDatabase, StartAt, DatabasePlaced, LastServedKept, Exists
  <2> QED BY <1>13, <2>1, <2>2, NoDbExists DEF RestoreDatabase, StartAt, DatabasePlaced, LastServedKept, past, work
<1>14. CASE RemoveNote
  BY <1>14 DEF RemoveNote, StartAt, DatabasePlaced, LastServedKept, past, work
<1>15. CASE OpenPool
  <2>1. live'.db = live.db \/ live.db.copy = 0
    BY <1>1, <1>15 DEF OpenPool, Live, Exists
  <2>2. Exists(live'.db)
    BY <1>1, <1>15 DEF OpenPool, Live, Db, Exists
  <2> QED BY <1>15, <2>1, <2>2 DEF OpenPool, StartAt, DatabasePlaced, LastServedKept, past, work
<1>16. CASE StartServes
  <2>1. live'.db = live.db
    BY <1>1, <1>16 DEF StartServes, Live
  <2> QED BY <1>16, <2>1 DEF StartServes, StartAt, DatabasePlaced, LastServedKept, past, work
<1>17. CASE StartRefused
  BY <1>17 DEF StartRefused, StartAt, DatabasePlaced, LastServedKept, past, work, files
<1> QED BY <1>2, <1>3, <1>4, <1>5, <1>6, <1>7, <1>8, <1>9, <1>10, <1>11, <1>12, <1>13, <1>14,
           <1>15, <1>16, <1>17 DEF Start

LEMMA PlacedStays ==
  ASSUME DatabasePlaced, pc' \in {pc, "off"}, live'.db = live.db, kept'.db = kept.db,
         pending'.db = pending.db, served' = served, pc' = "off" \/ discarding' = discarding
  PROVE  DatabasePlaced'
BY DEF DatabasePlaced, LastServedKept, Exists

LEMMA PlacedKept ==
  ASSUME IInv, ~Offline, DatabasePlaced, [Next]_vars
  PROVE  DatabasePlaced'
<1>1. CASE DiscardNext
  <2>1. pc = "up" \/ pc = "rejected"
    BY <1>1, DiscardNextDoes DEF IInv, TaskInProcess, DatabasePlaced
  <2>2. UNCHANGED <<live, kept, pc, served>>
    BY <1>1, DiscardLeaves
  <2>3. CASE pc = "up"
    BY <2>2, <2>3, Served
  <2>4. CASE pc = "rejected"
    <3>1. ~Exists(pending'.db)
      BY <1>1, DiscardNextDoes, NoDbExists DEF NoSet
    <3> QED BY <2>2, <2>4, <3>1 DEF DatabasePlaced, LastServedKept
  <2> QED BY <2>1, <2>3, <2>4
<1>2. CASE Stage
  BY <1>2, StageLeaves, Served DEF Stage
<1>3. CASE Operate
  BY <1>3, OperateLeaves, Served
<1>4. CASE Start
  BY <1>4, PlacedAtStart
<1>5. CASE Stop
  <2>1. live'.db = live.db
    BY <1>5 DEF Stop, IInv, TypeOK, Live
  <2> QED BY <1>5, <2>1, PlacedStays DEF Stop, Gone
<1>6. CASE Crash
  BY <1>6, PlacedStays DEF Crash, Gone
<1>7. CASE UNCHANGED vars
  BY <1>7, PlacedStays DEF vars
<1> QED BY <1>1, <1>2, <1>3, <1>4, <1>5, <1>6, <1>7 DEF Next

LEMMA LogAtStart ==
  ASSUME IInv, ~Offline, DatabasePlaced, LogPlaced, Start
  PROVE  LogPlaced'
<1>1. /\ live \in Live /\ live.db \in Db /\ kept \in Kept /\ kept.db \in Db
      /\ pending \in FileSet /\ pending.db \in Db /\ NoDb \in Db
  BY NoDbType DEF IInv, TypeOK, Live, Kept, FileSet
<1>2. CASE SweepLeftovers
  BY <1>2 DEF SweepLeftovers, LogPlaced
<1>3. CASE NothingPending \/ Rejected \/ AcceptPending \/ StartRefused
  BY <1>3 DEF NothingPending, Rejected, AcceptPending, StartRefused, StartAt, LogPlaced, files
<1>4. CASE RejectPending
  BY <1>4 DEF RejectPending, StartAt, LogPlaced, files
<1>5. CASE SetTheKeyAside
  <2>1. live'.db = live.db /\ live'.log = live.log /\ kept'.db = kept.db /\ kept'.log = kept.log
    BY <1>1, <1>5 DEF SetTheKeyAside, Live, Kept
  <2> QED BY <1>5, <2>1 DEF SetTheKeyAside, StartAt, LogPlaced
<1>6. CASE NoneToSetAside
  <2>1. kept' = kept
    BY <1>1, <1>6 DEF NoneToSetAside, WithoutDatabase, Kept
  <2> QED BY <1>6, <2>1 DEF NoneToSetAside, WithoutDatabase, StartAt, LogPlaced
<1>7. CASE SetTheDatabaseAside
  <2>1. /\ live'.log = live.log /\ Exists(live.db) /\ Exists(pending.db)
        /\ \/ live'.db = live.db /\ kept'.db = kept.db /\ kept'.log = 0 /\ pc' = pc
           \/ live'.db = NoDb /\ kept'.db = live.db /\ kept'.log = 0 /\ pc' = "log"
    BY <1>1, <1>7 DEF SetTheDatabaseAside, StartAt, Live, Kept, DatabasePlaced
  <2> QED BY <1>7, <2>1, NoDbExists DEF SetTheDatabaseAside, StartAt, LogPlaced
<1>8. CASE SetTheLogAside
  <2>1. /\ live'.db = live.db /\ live'.log = 0 /\ kept'.db = kept.db
        /\ kept'.log \in {kept.log, live.log}
    BY <1>1, <1>8 DEF SetTheLogAside, Live, Kept
  <2>2. ~Exists(live.db)
    BY <1>8 DEF SetTheLogAside, StartAt, DatabasePlaced
  <2>3. Exists(kept.db) => kept'.log \in {0, kept.db.copy}
    BY <2>1, <2>2 DEF LogPlaced
  <2> QED BY <1>8, <2>1, <2>3 DEF SetTheLogAside, LogPlaced
<1>9. CASE RestoreApi
  <2>1. live'.db = live.db /\ live'.log = live.log /\ pending'.db = pending.db
    BY <1>1, <1>9 DEF RestoreApi, Live, Without
  <2> QED BY <1>9, <2>1 DEF RestoreApi, StartAt, LogPlaced
<1>10. CASE RestoreKey
  <2>1. live'.db = live.db /\ live'.log = live.log /\ pending'.db = pending.db
    BY <1>1, <1>10 DEF RestoreKey, Live, Without
  <2> QED BY <1>10, <2>1 DEF RestoreKey, StartAt, LogPlaced
<1>11. CASE RestoreDatabase
  <2>1. live'.db = pending.db /\ live'.log = live.log
    BY <1>1, <1>11 DEF RestoreDatabase, Live
  <2> QED BY <1>11, <2>1 DEF RestoreDatabase, StartAt, LogPlaced, DatabasePlaced
<1>12. CASE RemoveNote
  BY <1>12 DEF RemoveNote, StartAt, LogPlaced
<1>13. CASE OpenPool
  <2>1. live'.log = live'.db.copy /\ Exists(live'.db)
    BY <1>1, <1>13 DEF OpenPool, Live, Db, Exists, IInv, TypeOK
  <2> QED BY <1>13, <2>1 DEF OpenPool, LogPlaced
<1>14. CASE StartServes
  <2>1. live'.db = live.db /\ live'.log = live.log
    BY <1>1, <1>14 DEF StartServes, Live
  <2> QED BY <1>14, <2>1 DEF StartServes, StartAt, LogPlaced
<1> QED BY <1>2, <1>3, <1>4, <1>5, <1>6, <1>7, <1>8, <1>9, <1>10, <1>11, <1>12, <1>13, <1>14 DEF Start

\* A start rejects no database: each accepts what is pending.
RejectsNone == pc = "rejected" => ~Exists(pending.db)

LEMMA LogKept ==
  ASSUME IInv, ~Offline, DatabasePlaced, RejectsNone, LogPlaced, [Next]_vars
  PROVE  LogPlaced'
<1>1. CASE DiscardNext
  <2>1. pc = "up" \/ pc = "rejected"
    BY <1>1, DiscardNextDoes DEF IInv, TaskInProcess, DatabasePlaced
  <2>2. UNCHANGED <<live, kept, pc>>
    BY <1>1, DiscardLeaves
  <2>3. CASE pc = "up"
    BY <2>2, <2>3, LogUp
  <2>4. CASE pc = "rejected"
    BY <2>2, <2>4 DEF RejectsNone, LogPlaced
  <2> QED BY <2>1, <2>3, <2>4
<1>2. CASE Stage
  BY <1>2, StageLeaves, LogUp DEF Stage
<1>3. CASE Operate
  <2>1. CASE kept' = kept
    BY <1>3, <2>1, OperateLeaves, LogUp
  <2>2. CASE DeleteReplaced
    <3>1. /\ live' = live /\ pc' = pc
          /\ kept'.db \in {kept.db, NoDb} /\ kept'.log \in {kept.log, 0}
      BY <2>2 DEF DeleteReplaced
    <3>2. pc = "up" /\ Exists(live.db)
      BY <2>2 DEF DeleteReplaced, DatabasePlaced
    <3> QED BY <3>1, <3>2, NoDbExists DEF LogPlaced
  <2> QED BY <1>3, <2>1, <2>2, OperateLeaves
<1>4. CASE Start
  BY <1>4, LogAtStart
<1>5. CASE Stop
  <2>1. live'.db = live.db /\ live'.log = 0 /\ kept' = kept /\ pc' = "off"
    BY <1>5 DEF Stop, Gone, IInv, TypeOK, Live
  <2> QED BY <2>1 DEF LogPlaced
<1>6. CASE Crash
  BY <1>6 DEF Crash, Gone, LogPlaced
<1>7. CASE UNCHANGED vars
  BY <1>7 DEF vars, LogPlaced
<1> QED BY <1>1, <1>2, <1>3, <1>4, <1>5, <1>6, <1>7 DEF Next

LEMMA RejectsKept ==
  ASSUME IInv, ~Offline, MaxRejects = 0, DatabasePlaced, RejectsNone, [Next]_vars
  PROVE  RejectsNone'
<1>1. CASE DiscardNext
  BY <1>1, DiscardNextDoes, NoDbExists DEF RejectsNone, NoSet
<1>2. CASE Stage \/ Operate
  BY <1>2, StageLeaves, OperateLeaves DEF Stage, RejectsNone
<1>3. CASE Start
  <2>1. pc' = "rejected" => RejectPending
    BY <1>3 DEF Start, SweepLeftovers, NothingPending, Rejected, AcceptPending, SetTheKeyAside,
         NoneToSetAside, WithoutDatabase, SetTheDatabaseAside, SetTheLogAside, RestoreApi,
         RestoreKey, RestoreDatabase, RemoveNote, OpenPool, StartServes, StartRefused, StartAt
  <2>2. RejectPending => ~Exists(pending.db) /\ pending' = pending
    BY DEF RejectPending, files, IInv, TypeOK
  <2> QED BY <2>1, <2>2 DEF RejectsNone
<1>4. CASE Stop \/ Crash
  BY <1>4 DEF Stop, Crash, Gone, RejectsNone
<1>5. CASE UNCHANGED vars
  BY <1>5 DEF vars, RejectsNone
<1> QED BY <1>1, <1>2, <1>3, <1>4, <1>5 DEF Next

-----------------------------------------------------------------------------
(***************************************************************************)
(* The keys. What is extracted is removed before the next staging, so that *)
(* a pending database the staging tried is opened by the key pending       *)
(* beside it or, where there is none, by the key in place, which nothing   *)
(* else replaces. One it did not try may not open once it is in place;     *)
(* then no server is up to stage over it.                                  *)
(***************************************************************************)

\* The steps of a staging that remove what it extracted, if it ends there.
Cleans == ExtractPCs \cup {"discard", "note", "dropped", "pend api", "pend key"}

StagedByTask ==
  /\ pc # "off" /\ staging.key # None => task.pc \in Cleans /\ "key" \in task.brought
  /\ task.pc \in {"key"} \cup KeyExtracted \cup PendPCs => staging.db.seal = KeyOf[task.of]
  /\ task.pc \in {"carry", "discard", "note"} \cup PendPCs /\ task.of \in ArrSealed \ Carries =>
       live.key = KeyOf[task.of]

PendingOpens ==
  Tried(pending.db) =>
    pending.db.seal = IF pending.key # None THEN pending.key ELSE live.key

\* The credentials of a database to set aside open with the key kept, or with the one in place,
\* which the restore then leaves there.
OpensAside(seal) ==
  \/ seal \in {None, kept.key}
  \/ seal = live.key /\ pending.key \in {None, live.key}

KeysPlaced ==
  /\ pc = "up" => live.key # None
  /\ pc = "base" => pending.key = None
  /\ deleting # "no" => pc = "up"
  /\ deleting = "key" => ~Exists(kept.db)
  /\ Exists(live.db) =>
       \/ live.db.seal \in {None, live.key}
       \/ Exists(pending.db) /\ live.key = None /\ live.db.seal = kept.key
       \/ ~Tried(live.db) /\ ~Exists(pending.db) /\ pc # "up"
  /\ Exists(pending.db) => PendingOpens
  /\ Exists(kept.db) /\ (Exists(pending.db) => pc = "up") =>
       kept.db.seal \in {None, kept.key, live.key}
  /\ pc = "database" /\ Exists(live.db) => OpensAside(live.db.seal)
  /\ Exists(kept.db) /\ Exists(pending.db) /\ ~Exists(live.db) => OpensAside(kept.db.seal)

LEMMA KeysUp ==
  ASSUME DatabasePlaced, KeysPlaced, pc = "up", pc' = "up",
         live'.db.copy = live.db.copy, live'.key = live.key,
         live'.db.seal \in {live.db.seal, live.key},
         kept' = kept, deleting' = deleting, Exists(pending.db)' => PendingOpens'
  PROVE  KeysPlaced'
<1>1. Exists(live.db) /\ Exists(live'.db) /\ live.key # None
  BY DEF DatabasePlaced, KeysPlaced, Exists
<1>2. live'.db.seal \in {None, live'.key}
  BY <1>1 DEF KeysPlaced
<1>3. Exists(kept.db) => kept.db.seal \in {None, kept.key, live.key}
  BY DEF KeysPlaced
<1> QED BY <1>1, <1>2, <1>3 DEF KeysPlaced

LEMMA KeyOfArchive ==
  ASSUME NEW a \in Archives
  PROVE  KeyOf[a] \in Keys /\ KeyOf[a] # None
BY ConstantsAssumption

LEMMA StagedAtStep ==
  ASSUME IInv, ~Offline, DatabasePlaced, KeysPlaced, StagedByTask, StageStep
  PROVE  StagedByTask'
<1>1. /\ task \in Task /\ task.of \in Archive /\ staging \in FileSet /\ staging.db \in Db
      /\ live \in Live /\ pending \in FileSet
  BY DEF IInv, TypeOK, Task, FileSet
<1>2. pc = "up" /\ pc' = "up" /\ live' = live
  BY StageLeaves
<1>3. live.key # None
  BY <1>2 DEF KeysPlaced
<1>4. CASE ExtractDatabase
  <2>1. /\ task.pc = "db" /\ task'.pc = "key" /\ task'.of = task.of
        /\ staging'.key = staging.key /\ staging'.db.seal = KeyOf[task.of]
    BY <1>1, <1>4 DEF ExtractDatabase, TaskAt, Task, FileSet
  <2>2. staging.key = None
    BY <1>2, <2>1 DEF StagedByTask, IInv, ExtractedOfTask
  <2> QED BY <2>1, <2>2 DEF StagedByTask, KeyExtracted, PendPCs
<1>5. CASE ExtractKey
  <2>1. /\ task.pc = "key" /\ task'.pc = "api" /\ task'.of = task.of
        /\ staging'.db = staging.db
        /\ staging'.key = staging.key \/ "key" \in task'.brought
        /\ "key" \in task.brought => "key" \in task'.brought
    BY <1>1, <1>5 DEF ExtractKey, TaskAt, Task, FileSet
  <2> QED BY <1>2, <2>1 DEF StagedByTask, KeyExtracted, PendPCs, Cleans, ExtractPCs
<1>6. CASE ExtractApi
  <2>1. /\ task.pc = "api" /\ task'.pc = "withdrawals" /\ task'.of = task.of
        /\ staging'.db = staging.db /\ staging'.key = staging.key
        /\ "key" \in task.brought => "key" \in task'.brought
    BY <1>1, <1>6 DEF ExtractApi, TaskAt, Task, FileSet
  <2> QED BY <1>2, <2>1 DEF StagedByTask, KeyExtracted, PendPCs, Cleans, ExtractPCs
<1>7. CASE ReadWithdrawals
  <2>1. /\ task.pc = "withdrawals" /\ task'.pc = "opens" /\ task'.of = task.of
        /\ staging' = staging /\ task'.brought = task.brought
    BY <1>1, <1>7 DEF ReadWithdrawals, TaskAt, Task, files
  <2> QED BY <1>2, <2>1 DEF StagedByTask, KeyExtracted, PendPCs, Cleans, ExtractPCs
<1>8. CASE OpenedByTheNextStart
  <2>1. /\ task.pc = "opens" /\ task'.pc = "carry" /\ task'.of = task.of
        /\ staging' = staging /\ task'.brought = task.brought
        /\ task.of \in ArrSealed => NextStartKey \in {None, staging.db.seal}
    BY <1>1, <1>8 DEF OpenedByTheNextStart, TaskAt, Task, files
  <2>2. staging.db.seal = KeyOf[task.of]
    BY <2>1 DEF StagedByTask, KeyExtracted
  <2>3. task.of \notin Carries => staging.key = None
    BY <1>2, <2>1 DEF StagedByTask, IInv, ExtractedOfTask, KeyExtracted
  <2>4. task.of \in ArrSealed \ Carries => live.key = KeyOf[task.of]
    BY <1>3, <2>1, <2>2, <2>3 DEF NextStartKey
  <2> QED BY <1>2, <2>1, <2>2, <2>4 DEF StagedByTask, KeyExtracted, PendPCs, Cleans, ExtractPCs
<1>9. CASE KeepTodaysCredentials
  <2>1. /\ task.pc = "carry" /\ task'.pc = "discard" /\ task'.of = task.of
        /\ staging'.key = staging.key /\ task'.brought = task.brought
    BY <1>1, <1>9 DEF KeepTodaysCredentials, TaskAt, Task, FileSet
  <2>2. staging'.db.seal = staging.db.seal
    BY <1>1, <1>9 DEF KeepTodaysCredentials, FileSet, Db
  <2> QED BY <1>2, <2>1, <2>2 DEF StagedByTask, KeyExtracted, PendPCs, Cleans, ExtractPCs
<1>10. CASE StageRefused \/ PendDropped
  <2>1. task'.pc = "idle" /\ staging' = Without(staging, task.brought)
    BY <1>10 DEF StageRefused, PendDropped, EndTask, Idle
  <2>2. staging'.key = None
    BY <1>2, <2>1 DEF StagedByTask, Without
  <2> QED BY <2>1, <2>2 DEF StagedByTask, KeyExtracted, PendPCs
<1>11. CASE DiscardEarlier
  <2>1. /\ task.pc = "discard" /\ task'.pc = "note" /\ task'.of = task.of
        /\ staging' = staging /\ task'.brought = task.brought
    BY <1>1, <1>11 DEF DiscardEarlier, TaskAt, Task, files
  <2> QED BY <1>2, <2>1 DEF StagedByTask, KeyExtracted, PendPCs, Cleans, ExtractPCs
<1>12. CASE WriteNote
  <2>1. /\ task.pc = "note" /\ task'.pc = "pend api" /\ task'.of = task.of
        /\ staging' = staging /\ task'.brought = task.brought
    BY <1>1, <1>12 DEF WriteNote, TaskAt, Task
  <2> QED BY <1>2, <2>1 DEF StagedByTask, KeyExtracted, PendPCs, Cleans, ExtractPCs
<1>13. CASE PendApi
  <2>1. /\ task.pc = "pend api" /\ task'.pc = "pend key" /\ task'.of = task.of
        /\ staging'.db = staging.db /\ staging'.key = staging.key /\ task'.brought = task.brought
    BY <1>13, PendApiDoes
  <2> QED BY <1>2, <2>1 DEF StagedByTask, KeyExtracted, PendPCs, Cleans, ExtractPCs
<1>14. CASE PendKey
  <2>1. /\ task.pc = "pend key" /\ task'.pc = "pend db" /\ task'.of = task.of
        /\ staging'.db = staging.db
    BY <1>14, PendKeyDoes
  <2>2. staging'.key = None
    <3>1. "key" \notin task.brought => staging' = staging /\ staging.key = None
      BY <1>2, <1>14 DEF PendKey, StagedByTask
    <3>2. "key" \in task.brought => staging' = Without(staging, {"key"})
      BY <1>14 DEF PendKey
    <3>3. Without(staging, {"key"}).key = None
      BY DEF Without
    <3> QED BY <3>1, <3>2, <3>3
  <2> QED BY <1>2, <2>1, <2>2 DEF StagedByTask, KeyExtracted, PendPCs
<1>15. CASE PendDatabase
  <2>1. task.pc = "pend db" /\ task'.pc = "idle" /\ staging'.key = staging.key
    BY <1>15 DEF PendDatabase, TaskAt, EndTask, Idle, Without
  <2>2. staging.key = None
    BY <1>2, <2>1 DEF StagedByTask, Cleans, ExtractPCs
  <2> QED BY <2>1, <2>2 DEF StagedByTask, KeyExtracted, PendPCs
<1>16. CASE PendFails
  <2>1. /\ task.pc \in PendPCs /\ task'.pc = "dropped"
        /\ staging' = staging /\ task'.brought = task.brought
    BY <1>1, <1>16 DEF PendFails, TaskAt, Task, files
  <2> QED BY <1>2, <2>1 DEF StagedByTask, KeyExtracted, PendPCs, Cleans
<1> QED BY <1>4, <1>5, <1>6, <1>7, <1>8, <1>9, <1>10, <1>11, <1>12, <1>13, <1>14, <1>15, <1>16
        DEF StageStep

LEMMA StagedKept ==
  ASSUME IInv, ~Offline, DatabasePlaced, KeysPlaced, StagedByTask, [Next]_vars
  PROVE  StagedByTask'
<1>1. CASE DiscardNext
  BY <1>1, DiscardLeaves DEF StagedByTask
<1>2. CASE StageStep
  BY <1>2, StagedAtStep
<1>3. ASSUME NEW a \in Archives, StageBegin(a) PROVE StagedByTask'
  <2>1. pc = "up" /\ task.pc = "idle" /\ task'.pc = "db" /\ staging' = staging
    BY <1>3, StageLeaves DEF StageBegin, Idle, files
  <2>2. staging.key = None
    BY <2>1 DEF StagedByTask, Cleans, ExtractPCs
  <2> QED BY <2>1, <2>2 DEF StagedByTask, KeyExtracted, PendPCs
<1>4. CASE Operate
  <2>1. pc = "up" /\ pc' = "up" /\ live'.key = live.key
    BY <1>4, OperateLeaves
  <2>2. staging' = staging /\ (task' = task \/ WithdrawBegin \/ WithdrawEnd)
    BY <1>4 DEF Operate, WithdrawBegin, WithdrawEnd, DeleteReplaced, SealCredential, ClearApiKey,
                RotateApiKey, Said, ApiKeyChanged, files, work
  <2>3. CASE task' = task
    BY <2>1, <2>2, <2>3 DEF StagedByTask
  <2>4. CASE WithdrawBegin \/ WithdrawEnd
    <3>1. task.pc \in {"idle", "withdrawing"} /\ task'.pc \in {"idle", "withdrawing"}
      BY <2>4 DEF WithdrawBegin, WithdrawEnd, TaskAt, EndTask, Idle
    <3>2. staging.key = None
      BY <2>1, <3>1 DEF StagedByTask, Cleans, ExtractPCs
    <3> QED BY <2>2, <3>1, <3>2 DEF StagedByTask, KeyExtracted, PendPCs
  <2> QED BY <2>2, <2>3, <2>4
<1>5. CASE Start
  <2>1. task.pc = "idle" /\ task' = task
    BY <1>5 DEF Start, SweepLeftovers, NothingPending, RejectPending, Rejected, AcceptPending,
         SetTheKeyAside, NoneToSetAside, WithoutDatabase, SetTheDatabaseAside, SetTheLogAside,
         RestoreApi, RestoreKey, RestoreDatabase, RemoveNote, OpenPool, StartServes, StartRefused,
         StartAt, work, IInv, TaskInProcess
  <2>2. staging'.key = None \/ (pc # "off" /\ staging' = staging)
    BY <1>5 DEF Start, SweepLeftovers, NothingPending, RejectPending, Rejected, AcceptPending,
         SetTheKeyAside, NoneToSetAside, WithoutDatabase, SetTheDatabaseAside, SetTheLogAside,
         RestoreApi, RestoreKey, RestoreDatabase, RemoveNote, OpenPool, StartServes, StartRefused,
         StartAt, files, NoSet
  <2> QED BY <2>1, <2>2 DEF StagedByTask, KeyExtracted, PendPCs
<1>6. CASE Stop \/ Crash
  <2>1. pc' = "off" /\ task'.pc = "idle"
    BY <1>6 DEF Stop, Crash, Gone, Idle
  <2> QED BY <2>1 DEF StagedByTask, KeyExtracted, PendPCs
<1>7. CASE UNCHANGED vars
  BY <1>7 DEF vars, StagedByTask
<1> QED BY <1>1, <1>2, <1>3, <1>4, <1>5, <1>6, <1>7 DEF Next, Stage

LEMMA KeysAtStart ==
  ASSUME IInv, ~Offline, DatabasePlaced, RejectsNone, KeysPlaced, Start
  PROVE  KeysPlaced'
<1>1. /\ live \in Live /\ live.db \in Db /\ kept \in Kept /\ kept.db \in Db
      /\ pending \in FileSet /\ pending.db \in Db /\ NoDb \in Db
  BY NoDbType DEF IInv, TypeOK, Live, Kept, FileSet
<1>2. pc # "up" /\ deleting = "no" /\ deleting' = "no"
  <2>1. pc # "up"
    BY DEF Start, SweepLeftovers, NothingPending, RejectPending, Rejected, AcceptPending,
         SetTheKeyAside, NoneToSetAside, WithoutDatabase, SetTheDatabaseAside, SetTheLogAside,
         RestoreApi, RestoreKey, RestoreDatabase, RemoveNote, OpenPool, StartServes, StartRefused,
         StartAt
  <2>2. deleting' = deleting
    BY DEF Start, SweepLeftovers, NothingPending, RejectPending, Rejected, AcceptPending,
         SetTheKeyAside, NoneToSetAside, WithoutDatabase, SetTheDatabaseAside, SetTheLogAside,
         RestoreApi, RestoreKey, RestoreDatabase, RemoveNote, OpenPool, StartServes, StartRefused,
         StartAt, work, asked
  <2> QED BY <2>1, <2>2 DEF KeysPlaced
<1>3. ASSUME live' = live, kept' = kept, pending' = pending, pc' \notin {"up", "base", "database"}
      PROVE  KeysPlaced'
  BY <1>2, <1>3 DEF KeysPlaced, PendingOpens, OpensAside
<1>4. CASE SweepLeftovers \/ NothingPending \/ Rejected \/ AcceptPending \/ RemoveNote \/ StartRefused
  BY <1>3, <1>4 DEF SweepLeftovers, NothingPending, Rejected, AcceptPending, RemoveNote,
     StartRefused, StartAt, files
<1>5. CASE RejectPending
  BY <1>3, <1>5 DEF RejectPending, files
<1>6. CASE SetTheKeyAside
  <2>1. /\ Exists(pending.db) /\ pending' = pending /\ pc' = "database"
        /\ live'.db = live.db /\ kept'.db = kept.db
    BY <1>1, <1>6 DEF SetTheKeyAside, StartAt, Live, Kept, DatabasePlaced
  <2>2. \/ ~KeyToSetAside /\ live'.key = live.key /\ kept'.key = kept.key
        \/ KeyToSetAside /\ pending.key \in {None, live.key} /\ live'.key = live.key
        \/ KeyToSetAside /\ pending.key \notin {None, live.key} /\ live'.key = None /\ kept'.key = live.key
    BY <1>1, <1>6 DEF SetTheKeyAside, Live, Kept
  <2>3. PendingOpens'
    BY <2>1, <2>2 DEF KeysPlaced, PendingOpens
  <2>4. Exists(live.db) => OpensAside(live.db.seal)'
    BY <2>1, <2>2 DEF KeysPlaced, OpensAside, KeyToSetAside
  <2>5. Exists(live.db) => \/ live.db.seal \in {None, live'.key}
                           \/ live'.key = None /\ live.db.seal = kept'.key
    BY <2>1, <2>2 DEF KeysPlaced, KeyToSetAside
  <2>6. Exists(kept.db) /\ ~Exists(live.db) => OpensAside(kept.db.seal)'
    BY <2>1, <2>2 DEF KeysPlaced, OpensAside, KeyToSetAside
  <2> QED BY <1>2, <2>1, <2>3, <2>4, <2>5, <2>6 DEF KeysPlaced
<1>7. CASE NoneToSetAside
  <2>1. kept' = kept
    BY <1>1, <1>7 DEF NoneToSetAside, WithoutDatabase, Kept
  <2> QED BY <1>3, <1>7, <2>1 DEF NoneToSetAside, WithoutDatabase
<1>8. CASE SetTheDatabaseAside
  <2>1. /\ Exists(pending.db) /\ Exists(live.db) /\ pending' = pending
        /\ live'.key = live.key /\ kept'.key = kept.key /\ pc = "database"
        /\ \/ live'.db = live.db /\ kept'.db = kept.db /\ pc' = pc
           \/ live'.db = NoDb /\ kept'.db = live.db /\ pc' = "log"
    BY <1>1, <1>8 DEF SetTheDatabaseAside, StartAt, Live, Kept, DatabasePlaced
  <2> QED BY <1>2, <2>1, NoDbExists DEF KeysPlaced, PendingOpens, OpensAside
<1>9. CASE SetTheLogAside
  <2>1. /\ live'.db = live.db /\ live'.key = live.key /\ kept'.db = kept.db /\ kept'.key = kept.key
        /\ pending' = pending /\ pc' = "api"
    BY <1>1, <1>9 DEF SetTheLogAside, Live, Kept
  <2> QED BY <1>2, <2>1 DEF KeysPlaced, PendingOpens, OpensAside
<1>10. CASE RestoreApi
  <2>1. /\ live'.db = live.db /\ live'.key = live.key /\ kept' = kept
        /\ pending'.db = pending.db /\ pending'.key = pending.key /\ pc' = "masterkey"
    BY <1>1, <1>10 DEF RestoreApi, Live, Without
  <2> QED BY <1>2, <2>1 DEF KeysPlaced, PendingOpens, OpensAside
<1>11. CASE RestoreKey
  <2>1. /\ live'.db = live.db /\ kept' = kept /\ pending'.db = pending.db /\ pc' = "base"
        /\ pending'.key = None
        /\ live'.key = IF pending.key = None THEN live.key ELSE pending.key
    BY <1>1, <1>11 DEF RestoreKey, Live, Without
  <2>2. ~Exists(live.db) /\ Exists(pending.db)
    BY <1>11 DEF RestoreKey, StartAt, DatabasePlaced
  <2>3. PendingOpens'
    BY <2>1, <2>2 DEF KeysPlaced, PendingOpens
  <2>4. Exists(kept.db) => OpensAside(kept.db.seal)'
    BY <2>1, <2>2 DEF KeysPlaced, OpensAside
  <2> QED BY <1>2, <2>1, <2>2, <2>3, <2>4 DEF KeysPlaced
<1>12. CASE RestoreDatabase
  <2>1. /\ live'.db = pending.db /\ live'.key = live.key /\ kept' = kept
        /\ pending'.db = NoDb /\ pc' = "note"
    BY <1>1, <1>12 DEF RestoreDatabase, Live, Without
  <2>2. pending.key = None /\ ~Exists(live.db) /\ Exists(pending.db)
    BY <1>12 DEF RestoreDatabase, StartAt, DatabasePlaced, KeysPlaced
  <2>3. Tried(live'.db) => live'.db.seal = live.key
    BY <2>1, <2>2 DEF KeysPlaced, PendingOpens
  <2>4. Exists(kept.db) => kept.db.seal \in {None, kept.key, live.key}
    BY <2>2 DEF KeysPlaced, OpensAside
  <2> QED BY <1>2, <2>1, <2>2, <2>3, <2>4, NoDbExists DEF KeysPlaced
<1>13. CASE OpenPool
  <2>1. /\ live'.key = live.key /\ kept' = kept /\ pending' = pending /\ pc' = "opened"
        /\ live'.db = live.db \/ live'.db.seal = None
        /\ live'.db = live.db => Exists(live.db)
    BY <1>1, <1>13 DEF OpenPool, Live, Db, NoDb, Exists, IInv, TypeOK
  <2>2. ~Exists(pending.db)
    BY <1>13 DEF OpenPool, StartAt, DatabasePlaced
  <2> QED BY <1>2, <2>1, <2>2 DEF KeysPlaced
<1>14. CASE StartServes
  <2>1. /\ live'.db = live.db /\ kept' = kept /\ pending' = pending /\ pc' = "up"
        /\ live'.key # None
        /\ \/ live'.key = live.key
           \/ live.key = None /\ live.db.seal = None
        /\ live.db.seal \in {None, live'.key}
    BY <1>1, <1>14, ConstantsAssumption DEF StartServes, Live
  <2>2. ~Exists(pending.db)
    BY <1>14 DEF StartServes, StartAt, DatabasePlaced
  <2>3. Exists(kept.db) => kept.db.seal \in {None, kept.key, live'.key}
    BY <2>1, <2>2 DEF KeysPlaced
  <2> QED BY <1>2, <2>1, <2>2, <2>3 DEF KeysPlaced
<1> QED BY <1>4, <1>5, <1>6, <1>7, <1>8, <1>9, <1>10, <1>11, <1>12, <1>13, <1>14 DEF Start

\* What is pended opens.
LEMMA PendsWhatOpens ==
  ASSUME IInv, ~Offline, DatabasePlaced, KeysPlaced, StagedByTask,
         StageStep \/ \E a \in Archives : StageBegin(a), Exists(pending.db)'
  PROVE  PendingOpens'
<1>1. live' = live
  BY StageLeaves
<1>2. CASE pending' = pending
  BY <1>1, <1>2 DEF KeysPlaced, PendingOpens
<1>3. CASE PendApi \/ PendKey
  BY <1>3, PendApiDoes, PendKeyDoes
<1>4. CASE PendDatabase
  <2>1. task.pc = "pend db" /\ pending'.db = staging.db /\ pending'.key = pending.key
    BY <1>4 DEF PendDatabase, TaskAt, IInv, TypeOK, FileSet
  <2>2. task.of \in Archives /\ staging.db.seal = KeyOf[task.of]
    BY <2>1 DEF IInv, TaskOfArchive, StagedByTask, PendPCs
  <2>3. /\ pending.key \in {None, KeyOf[task.of]}
        /\ task.of \in Carries => pending.key = KeyOf[task.of]
    BY <2>1 DEF IInv, PendedOfTask
  <2>4. task.of \in ArrSealed \ Carries => live.key = KeyOf[task.of]
    BY <2>1 DEF StagedByTask, PendPCs
  <2>5. Tried(pending.db)' => task.of \in ArrSealed
    <3>1. staging.db.of = task.of
      BY <2>1 DEF IInv, ExtractedOfTask, PendPCs
    <3> QED BY <2>1, <2>2, <3>1, ConstantsAssumption DEF Tried
  <2> QED BY <1>1, <2>1, <2>2, <2>3, <2>4, <2>5, KeyOfArchive DEF PendingOpens
<1> QED
  BY <1>2, <1>3, <1>4 DEF StageStep, StageBegin, ExtractDatabase, ExtractKey, ExtractApi,
     ReadWithdrawals, OpenedByTheNextStart, KeepTodaysCredentials, StageRefused, DiscardEarlier,
     WriteNote, PendFails, PendDropped, files

LEMMA KeysKept ==
  ASSUME IInv, ~Offline, DatabasePlaced, RejectsNone, StagedByTask, KeysPlaced, [Next]_vars
  PROVE  KeysPlaced'
<1>1. CASE DiscardNext
  <2>1. pc = "up" \/ pc = "rejected"
    BY <1>1, DiscardNextDoes DEF IInv, TaskInProcess, DatabasePlaced
  <2>2. UNCHANGED <<live, kept, pc, deleting>>
    BY <1>1, DiscardLeaves
  <2>3. ~Exists(pending.db)'
    BY <1>1, DiscardNextDoes, NoDbExists DEF NoSet
  <2>4. CASE pc = "up"
    BY <2>2, <2>3, <2>4, KeysUp
  <2>5. CASE pc = "rejected"
    BY <2>2, <2>3, <2>5 DEF RejectsNone, KeysPlaced
  <2> QED BY <2>1, <2>4, <2>5
<1>2. CASE Stage
  BY <1>2, StageLeaves, PendsWhatOpens, KeysUp DEF Stage
<1>3. CASE Operate
  <2>1. pc = "up" /\ pc' = "up" /\ live'.db.copy = live.db.copy /\ live'.key = live.key
    BY <1>3, OperateLeaves
  <2>2. pending' = pending
    BY <1>3 DEF Operate, WithdrawBegin, WithdrawEnd, DeleteReplaced, SealCredential, ClearApiKey,
                RotateApiKey, Said, ApiKeyChanged, files
  <2>3. Exists(pending.db)' => PendingOpens'
    BY <2>1, <2>2 DEF KeysPlaced, PendingOpens
  <2>4. CASE DeleteReplaced
    <3>1. /\ live' = live
          /\ deleting \in {"no", "log", "db", "key"} /\ deleting' = DeleteOrder[deleting]
          /\ deleting = "db" => kept'.db = NoDb
          /\ deleting # "db" => kept'.db = kept.db
          /\ deleting # "key" => kept'.key = kept.key
      BY <2>4 DEF DeleteReplaced, IInv, TypeOK
    <3>2. deleting' = "key" => deleting = "db"
      BY <3>1 DEF DeleteOrder
    <3>3. Exists(live.db) /\ live.key # None
      BY <2>1 DEF DatabasePlaced, KeysPlaced
    <3>4. Exists(kept'.db) => kept'.db = kept.db /\ kept'.key = kept.key
      BY <3>1, NoDbExists DEF KeysPlaced
    <3>5. deleting' = "key" => ~Exists(kept'.db)
      BY <3>1, <3>2, NoDbExists
    <3> QED BY <2>1, <2>3, <3>1, <3>3, <3>4, <3>5 DEF KeysPlaced
  <2>5. CASE ~DeleteReplaced
    <3>1. kept' = kept
      BY <1>3, <2>5, OperateLeaves
    <3>2. deleting' = deleting
      BY <1>3, <2>5 DEF Operate, WithdrawBegin, WithdrawEnd, SealCredential, ClearApiKey,
                RotateApiKey, Said, ApiKeyChanged, files, work, asked
    <3>3. live'.db.seal \in {live.db.seal, live.key}
      <4>1. live \in Live /\ live.db \in Db
        BY DEF IInv, TypeOK, Live
      <4>2. CASE SealCredential
        BY <4>1, <4>2 DEF SealCredential, Live, Db
      <4>3. CASE ClearApiKey
        BY <4>1, <4>3 DEF ClearApiKey, Live, Db
      <4>4. CASE RotateApiKey
        BY <4>1, <4>4 DEF RotateApiKey, Live
      <4>5. CASE ApiKeyChanged
        BY <4>1, <4>5 DEF ApiKeyChanged, Live, Db
      <4>6. CASE WithdrawBegin \/ WithdrawEnd
        BY <2>1, <4>6 DEF WithdrawBegin, WithdrawEnd, EndTask, files
      <4> QED BY <1>3, <2>5, <4>2, <4>3, <4>4, <4>5, <4>6 DEF Operate
    <3> QED BY <2>1, <2>3, <3>1, <3>2, <3>3, KeysUp
  <2> QED BY <2>4, <2>5
<1>4. CASE Start
  BY <1>4, KeysAtStart
<1>5. CASE Stop \/ Crash
  <2>1. /\ live'.db = live.db /\ live'.key = live.key /\ kept' = kept /\ pending' = pending
        /\ pc' = "off" /\ deleting' = "no"
    BY <1>5 DEF Stop, Crash, Gone, IInv, TypeOK, Live
  <2> QED BY <2>1 DEF KeysPlaced, PendingOpens, OpensAside
<1>6. CASE UNCHANGED vars
  BY <1>6 DEF vars, KeysPlaced, PendingOpens, OpensAside
<1> QED BY <1>1, <1>2, <1>3, <1>4, <1>5, <1>6 DEF Next

-----------------------------------------------------------------------------
(***************************************************************************)
(* The owner's word on the API key. Until a restore staged before it       *)
(* undoes it, a withdrawal is recorded by the database in place or by the  *)
(* one that is to replace it.                                              *)
(***************************************************************************)

Withdrawn == word = "withdrawn"
StagedSince == "task" \notin stale
PendedSince == "pending" \notin stale

WordKept ==
  /\ PendedSince => StagedSince
  /\ changing = "rotate" => ~Withdrawn
  /\ Withdrawn => IF Exists(live.db) THEN live.db.withdrawn ELSE Exists(pending.db)
  /\ Withdrawn /\ PendedSince /\ Exists(pending.db) => pending.db.withdrawn
  /\ PendedSince /\ pending.api # None => live.api = None /\ ~Withdrawn
  /\ pc \in {"masterkey", "base", "note", "opening"} \/ (pc = "rejected" /\ discarding = "no") =>
       pending.api = None
  /\ Withdrawn /\ StagedSince =>
       /\ task.pc \in {"opens", "carry", "discard", "note", "pend api"} => task.withdrawn
       /\ task.pc \in {"discard", "note"} \cup PendPCs => staging.db.withdrawn

\* Words are said of a server that is up, where the database in place records them.
LEMMA WordUp ==
  ASSUME DatabasePlaced, WordKept, pc = "up", pc' = "up",
         live'.db.copy = live.db.copy, live'.db.withdrawn = live.db.withdrawn, live'.api = live.api,
         UNCHANGED <<changing, word>>,
         PendedSince' => StagedSince',
         Withdrawn /\ PendedSince' /\ Exists(pending.db)' => pending'.db.withdrawn,
         PendedSince' /\ pending'.api # None => live.api = None /\ ~Withdrawn,
         Withdrawn /\ StagedSince' =>
           /\ task'.pc \in {"opens", "carry", "discard", "note", "pend api"} => task'.withdrawn
           /\ task'.pc \in {"discard", "note"} \cup PendPCs => staging'.db.withdrawn
  PROVE  WordKept'
<1>1. Exists(live.db) /\ Exists(live'.db)
  BY DEF DatabasePlaced, Exists
<1>2. Withdrawn' <=> Withdrawn
  BY DEF Withdrawn
<1> QED BY <1>1, <1>2 DEF WordKept

\* A step of a staging that pends nothing.
LEMMA WordAsStaged ==
  ASSUME DatabasePlaced, WordKept, pc = "up", pc' = "up",
         UNCHANGED <<live, pending, changing, word, stale>>,
         Withdrawn /\ StagedSince =>
           /\ task'.pc \in {"opens", "carry", "discard", "note", "pend api"} => task'.withdrawn
           /\ task'.pc \in {"discard", "note"} \cup PendPCs => staging'.db.withdrawn
  PROVE  WordKept'
<1>1. (StagedSince' <=> StagedSince) /\ (PendedSince' <=> PendedSince)
  BY DEF StagedSince, PendedSince
<1> QED BY <1>1, WordUp DEF WordKept

LEMMA WordAtStep ==
  ASSUME IInv, ~Offline, DatabasePlaced, WordKept, StageStep
  PROVE  WordKept'
<1>1. /\ task \in Task /\ staging \in FileSet /\ staging.db \in Db /\ pending \in FileSet
      /\ pending.db \in Db /\ live \in Live /\ live.db \in Db
  BY DEF IInv, TypeOK, FileSet, Live
<1>2. pc = "up" /\ pc' = "up" /\ UNCHANGED <<live, changing, word>>
  BY StageLeaves
<1>3. Exists(live.db) /\ (Withdrawn => live.db.withdrawn)
  BY <1>2 DEF DatabasePlaced, WordKept
<1>4. CASE ExtractDatabase \/ ExtractKey \/ ExtractApi
  <2>1. task'.pc \in {"key", "api", "withdrawals"} /\ UNCHANGED <<pending, stale>>
    BY <1>1, <1>4 DEF ExtractDatabase, ExtractKey, ExtractApi, past, Task
  <2> QED BY <1>2, <2>1, WordAsStaged DEF PendPCs
<1>5. CASE ReadWithdrawals
  <2>1. task'.pc = "opens" /\ task'.withdrawn = live.db.withdrawn /\ UNCHANGED <<pending, stale>>
    BY <1>1, <1>5 DEF ReadWithdrawals, past, files, Task
  <2> QED BY <1>2, <1>3, <2>1, WordAsStaged DEF PendPCs
<1>6. CASE OpenedByTheNextStart
  <2>1. /\ task.pc = "opens" /\ task'.pc = "carry" /\ task'.withdrawn = task.withdrawn
        /\ UNCHANGED <<pending, stale>>
    BY <1>1, <1>6 DEF OpenedByTheNextStart, TaskAt, past, files, Task
  <2> QED BY <1>2, <2>1, WordAsStaged DEF WordKept, PendPCs
<1>7. CASE KeepTodaysCredentials
  <2>1. /\ task.pc = "carry" /\ task'.pc = "discard" /\ task'.withdrawn = task.withdrawn
        /\ UNCHANGED <<pending, stale>>
    BY <1>1, <1>7 DEF KeepTodaysCredentials, TaskAt, past, Task
  <2>2. staging'.db.withdrawn = Withdrawals
    BY <1>1, <1>7 DEF KeepTodaysCredentials, FileSet, Db
  <2>3. Withdrawn => staging'.db.withdrawn
    BY <1>3, <2>2 DEF Withdrawals
  <2> QED BY <1>2, <2>1, <2>3, WordAsStaged DEF WordKept, PendPCs
<1>8. CASE StageRefused \/ PendDropped
  <2>1. task'.pc = "idle" /\ UNCHANGED <<pending, stale>>
    BY <1>8 DEF StageRefused, PendDropped, EndTask, Idle, past
  <2> QED BY <1>2, <2>1, WordAsStaged DEF PendPCs
<1>9. CASE DiscardEarlier
  <2>1. /\ task.pc = "discard" /\ task'.pc = "note" /\ task'.withdrawn = task.withdrawn
        /\ staging' = staging /\ UNCHANGED <<pending, stale>>
    BY <1>1, <1>9 DEF DiscardEarlier, TaskAt, past, files, Task
  <2> QED BY <1>2, <2>1, WordAsStaged DEF WordKept, PendPCs
<1>10. CASE WriteNote
  <2>1. /\ task.pc = "note" /\ task'.pc = "pend api" /\ task'.withdrawn = task.withdrawn
        /\ staging' = staging /\ pending' = pending /\ discarding = "no"
        /\ stale' = IF "task" \in stale THEN stale ELSE {}
    BY <1>1, <1>10 DEF WriteNote, TaskAt, Task
  <2>2. pending = NoSet
    BY <2>1 DEF IInv, PendedOfTask
  <2>3. ~Exists(pending.db)' /\ pending'.api = None
    BY <2>1, <2>2, NoDbExists DEF NoSet
  <2>4. (StagedSince' <=> StagedSince) /\ (PendedSince' => StagedSince')
    BY <2>1 DEF StagedSince, PendedSince, WordKept
  <2> QED BY <1>2, <2>1, <2>3, <2>4, WordUp DEF WordKept, PendPCs
<1>11. CASE PendApi
  <2>1. /\ task.pc = "pend api" /\ task'.pc = "pend key" /\ ~Exists(pending.db)'
        /\ staging'.db = staging.db
    BY <1>11, PendApiDoes
  <2>2. pending'.api = pending.api \/ ~ApiKeyKept
    BY <1>1, <1>11 DEF PendApi
  <2>3. stale' = stale
    BY <1>11 DEF PendApi, past
  <2>4. (StagedSince' <=> StagedSince) /\ (PendedSince' <=> PendedSince)
    BY <2>3 DEF StagedSince, PendedSince
  <2>5. PendedSince => StagedSince
    BY DEF WordKept
  <2>6. PendedSince /\ pending'.api # None => live.api = None /\ ~Withdrawn
    BY <2>1, <2>2, <2>5 DEF WordKept, ApiKeyKept
  <2>7. Withdrawn /\ StagedSince => staging'.db.withdrawn
    BY <2>1 DEF WordKept, PendPCs
  <2> QED BY <1>2, <2>1, <2>4, <2>5, <2>6, <2>7, WordUp
<1>12. CASE PendKey
  <2>1. /\ task.pc = "pend key" /\ task'.pc = "pend db" /\ ~Exists(pending.db)'
        /\ staging'.db = staging.db
    BY <1>12, PendKeyDoes
  <2>a. ASSUME "key" \in task.brought
        PROVE  pending'.api = pending.api
    <3>1. pending' = [pending EXCEPT !.key = staging.key]
      BY <1>12, <2>a DEF PendKey
    <3> QED BY <1>1, <3>1 DEF FileSet
  <2>b. ASSUME "key" \notin task.brought
        PROVE  pending'.api = pending.api
    BY <1>12, <2>b DEF PendKey
  <2>2. pending'.api = pending.api /\ stale' = stale
    BY <1>12, <2>a, <2>b DEF PendKey, past
  <2>3. (StagedSince' <=> StagedSince) /\ (PendedSince' <=> PendedSince)
    BY <2>2 DEF StagedSince, PendedSince
  <2>4. Withdrawn /\ StagedSince => staging'.db.withdrawn
    BY <2>1 DEF WordKept, PendPCs
  <2>5. PendedSince /\ pending'.api # None => live.api = None /\ ~Withdrawn
    BY <2>2 DEF WordKept
  <2> QED BY <1>2, <2>1, <2>3, <2>4, <2>5, WordUp DEF WordKept
<1>13. CASE PendDatabase
  <2>1. /\ task.pc = "pend db" /\ task'.pc = "idle" /\ pending'.db = staging.db
        /\ pending'.api = pending.api /\ stale' = stale
    <3>1. task.pc = "pend db" /\ pending' = [pending EXCEPT !.db = staging.db] /\ stale' = stale
      BY <1>13 DEF PendDatabase, TaskAt, past
    <3>2. task' = Idle
      BY <1>13 DEF PendDatabase, EndTask
    <3>3. task'.pc = "idle"
      BY <3>2 DEF Idle
    <3> QED BY <1>1, <3>1, <3>3 DEF FileSet
  <2>2. (StagedSince' <=> StagedSince) /\ (PendedSince' <=> PendedSince)
    BY <2>1 DEF StagedSince, PendedSince
  <2>3. PendedSince => StagedSince
    BY DEF WordKept
  <2>4. Withdrawn /\ StagedSince => pending'.db.withdrawn
    BY <2>1 DEF WordKept, PendPCs
  <2>5. PendedSince /\ pending'.api # None => live.api = None /\ ~Withdrawn
    BY <2>1 DEF WordKept
  <2> QED BY <1>2, <2>1, <2>2, <2>3, <2>4, <2>5, WordUp DEF PendPCs
<1>14. CASE PendFails
  <2>1. task'.pc = "dropped" /\ UNCHANGED <<pending, stale>>
    BY <1>1, <1>14 DEF PendFails, past, files, Task
  <2> QED BY <1>2, <2>1, WordAsStaged DEF PendPCs
<1> QED BY <1>4, <1>5, <1>6, <1>7, <1>8, <1>9, <1>10, <1>11, <1>12, <1>13, <1>14 DEF StageStep

LEMMA WordAtStart ==
  ASSUME IInv, ~Offline, DatabasePlaced, RejectsNone, WordKept, Start
  PROVE  WordKept'
<1>1. /\ live \in Live /\ live.db \in Db /\ kept \in Kept
      /\ pending \in FileSet /\ pending.db \in Db /\ NoDb \in Db
  BY NoDbType DEF IInv, TypeOK, Live, Kept, FileSet
<1>2. task.pc = "idle" /\ task' = task /\ changing' = changing /\ stale' = stale
  BY DEF Start, SweepLeftovers, NothingPending, RejectPending, Rejected, AcceptPending,
       SetTheKeyAside, NoneToSetAside, WithoutDatabase, SetTheDatabaseAside, SetTheLogAside,
       RestoreApi, RestoreKey, RestoreDatabase, RemoveNote, OpenPool, StartServes, StartRefused,
       StartAt, work, asked, past, IInv, TaskInProcess
<1>3. (StagedSince' <=> StagedSince) /\ (PendedSince' <=> PendedSince)
  BY <1>2 DEF StagedSince, PendedSince
<1>4. ASSUME live'.db = live.db, live'.api = live.api, pending' = pending, word' = word,
             pc' \in {"masterkey", "base", "note", "opening"} \/ (pc' = "rejected" /\ discarding' = "no") =>
               pending.api = None
      PROVE  WordKept'
  BY <1>2, <1>3, <1>4 DEF WordKept, Withdrawn, PendPCs
<1>5. CASE SweepLeftovers \/ RejectPending \/ AcceptPending \/ StartRefused
  BY <1>4, <1>5 DEF SweepLeftovers, RejectPending, AcceptPending, StartRefused, Discard,
     DiscardOrder, files, past
<1>6. CASE NothingPending \/ Rejected \/ RemoveNote
  <2>1. live' = live /\ pending' = pending /\ word' = word /\ pc' = "opening"
    BY <1>6 DEF NothingPending, Rejected, RemoveNote, files, past
  <2>2. NothingPending => pending.api = None
    BY DEF NothingPending, NoSet
  <2>3. Rejected \/ RemoveNote => pending.api = None
    BY DEF Rejected, RemoveNote, StartAt, WordKept
  <2> QED BY <1>4, <1>6, <2>1, <2>2, <2>3
<1>7. CASE SetTheKeyAside
  <2>1. live'.db = live.db /\ live'.api = live.api
    BY <1>1, <1>7 DEF SetTheKeyAside, Live
  <2> QED BY <1>4, <1>7, <2>1 DEF SetTheKeyAside, past
<1>8. CASE NoneToSetAside
  BY <1>4, <1>8 DEF NoneToSetAside, WithoutDatabase, past
<1>9. CASE SetTheDatabaseAside
  <2>1. /\ live'.api = live.api /\ pending' = pending /\ Exists(pending.db) /\ pc' \in {"database", "log"}
        /\ word' = word
        /\ live'.db = live.db \/ live'.db = NoDb
    BY <1>1, <1>9 DEF SetTheDatabaseAside, StartAt, Live, DatabasePlaced, past
  <2> QED BY <1>2, <1>3, <2>1, NoDbExists DEF WordKept, Withdrawn, PendPCs
<1>10. CASE SetTheLogAside
  <2>1. live'.db = live.db /\ live'.api = live.api
    BY <1>1, <1>10 DEF SetTheLogAside, Live
  <2> QED BY <1>4, <1>10, <2>1 DEF SetTheLogAside, past
<1>11. CASE RestoreApi
  <2>1. /\ live'.db = live.db /\ pending'.db = pending.db /\ pending'.api = None
        /\ pc' = "masterkey" /\ word' = word
    BY <1>1, <1>11 DEF RestoreApi, Live, Without, past
  <2> QED BY <1>2, <1>3, <2>1 DEF WordKept, Withdrawn, PendPCs
<1>12. CASE RestoreKey
  <2>1. /\ live'.db = live.db /\ live'.api = live.api /\ pending'.db = pending.db
        /\ pending'.api = pending.api /\ pending.api = None /\ pc' = "base" /\ word' = word
    <3>1. pc' = "base" /\ word' = word /\ pending.api = None
      BY <1>12 DEF RestoreKey, StartAt, past, WordKept
    <3>2. live'.db = live.db /\ live'.api = live.api
      BY <1>1, <1>12 DEF RestoreKey, Live
    <3>3. pending' = pending \/ pending' = Without(pending, {"key"})
      BY <1>12 DEF RestoreKey
    <3>4. pending'.db = pending.db /\ pending'.api = pending.api
      BY <3>3 DEF Without
    <3> QED BY <3>1, <3>2, <3>4
  <2> QED BY <1>2, <1>3, <2>1 DEF WordKept, Withdrawn, PendPCs
<1>13. CASE RestoreDatabase
  <2>1. /\ live'.db = pending.db /\ pending'.db = NoDb /\ pending'.api = pending.api /\ pc' = "note"
        /\ Exists(pending.db) /\ pending.api = None
        /\ word' = IF "pending" \in stale THEN "none" ELSE word
    BY <1>1, <1>13 DEF RestoreDatabase, StartAt, Live, Without, DatabasePlaced, WordKept
  <2>2. Withdrawn' => Withdrawn /\ pending.db.withdrawn
    BY <2>1 DEF WordKept, Withdrawn, PendedSince
  <2> QED BY <1>2, <1>3, <2>1, <2>2, NoDbExists DEF WordKept, PendPCs
<1>14. CASE OpenPool
  <2>1. /\ pending' = pending /\ pc' = "opened" /\ word' = word /\ pending.api = None
        /\ ~Exists(pending.db)
    BY <1>1, <1>14 DEF OpenPool, StartAt, DatabasePlaced, WordKept
  <2>2. Exists(live.db) => live'.db = live.db
    BY <1>1, <1>14 DEF OpenPool, Live
  <2> QED BY <1>2, <1>3, <2>1, <2>2 DEF WordKept, Withdrawn, PendPCs
<1>15. CASE StartServes
  <2>1. live'.db = live.db /\ live'.api = live.api
    BY <1>1, <1>15 DEF StartServes, Live
  <2> QED BY <1>4, <1>15, <2>1 DEF StartServes
<1> QED BY <1>5, <1>6, <1>7, <1>8, <1>9, <1>10, <1>11, <1>12, <1>13, <1>14, <1>15 DEF Start

\* What is said makes stale what is staged.
LEMMA WordSaid ==
  ASSUME IInv, ~Offline, DatabasePlaced, WordKept, ClearApiKey \/ RotateApiKey
  PROVE  WordKept'
<1>1. /\ pc = "up" /\ pc' = "up" /\ live'.db.copy = live.db.copy
      /\ Exists(live.db)
  BY OperateLeaves DEF Operate, DatabasePlaced
<1>2. "pending" \in stale' /\ (task.pc # "idle" => "task" \in stale') /\ UNCHANGED <<task, pending>>
  BY DEF ClearApiKey, RotateApiKey, Said
<1>3. word' = "withdrawn" => live'.db.withdrawn
  <2>1. live.db \in Db /\ live \in Live
    BY DEF IInv, TypeOK, Live
  <2> QED BY <2>1 DEF ClearApiKey, RotateApiKey, Said, Live, Db
<1>4. changing' = "rotate" => word' # "withdrawn"
  BY DEF ClearApiKey, RotateApiKey, Said
<1> QED BY <1>1, <1>2, <1>3, <1>4 DEF WordKept, Withdrawn, StagedSince, PendedSince, Exists, PendPCs

LEMMA WordOnceOperated ==
  ASSUME IInv, ~Offline, DatabasePlaced, WordKept, Operate
  PROVE  WordKept'
<1>1. /\ live \in Live /\ live.db \in Db
  BY DEF IInv, TypeOK, Live
<1>2. pc = "up" /\ pc' = "up" /\ live'.db.copy = live.db.copy /\ Exists(live.db)
  BY OperateLeaves DEF DatabasePlaced
<1>3. CASE ClearApiKey \/ RotateApiKey
  BY <1>3, WordSaid
<1>4. ASSUME UNCHANGED <<pending, staging, stale, word>>,
             live'.db.withdrawn = live.db.withdrawn \/ (~Withdrawn /\ ~live'.db.withdrawn),
             live'.api \in {live.api, None}, changing' \in {changing, "no"},
             task' = task \/ task'.pc \in {"idle", "withdrawing"}
      PROVE  WordKept'
  BY <1>2, <1>4 DEF WordKept, Withdrawn, StagedSince, PendedSince, Exists, PendPCs
<1>5. CASE WithdrawBegin \/ WithdrawEnd
  <2>1. task'.pc \in {"idle", "withdrawing"} /\ live' = live
    BY <1>2, <1>5 DEF WithdrawBegin, WithdrawEnd, EndTask, Idle, files
  <2> QED BY <1>4, <1>5, <2>1 DEF WithdrawBegin, WithdrawEnd, files, past, asked
<1>6. CASE DeleteReplaced
  BY <1>4, <1>6 DEF DeleteReplaced, past
<1>7. CASE SealCredential
  <2>1. live'.db.withdrawn = live.db.withdrawn /\ live'.api = live.api
    BY <1>1, <1>7 DEF SealCredential, Live, Db
  <2> QED BY <1>4, <1>7, <2>1 DEF SealCredential, work, asked, past
<1>8. CASE ApiKeyChanged
  <2>1. /\ live'.db.withdrawn = live.db.withdrawn \/ (~Withdrawn /\ ~live'.db.withdrawn)
        /\ live'.api \in {live.api, None}
    <3>1. CASE changing = "clear"
      BY <1>1, <1>8, <3>1 DEF ApiKeyChanged, Live
    <3>2. CASE changing = "rotate"
      BY <1>1, <1>8, <3>2 DEF ApiKeyChanged, Live, Db, WordKept
    <3> QED BY <1>8, <3>1, <3>2 DEF ApiKeyChanged, IInv, TypeOK
  <2> QED BY <1>4, <1>8, <2>1 DEF ApiKeyChanged, past
<1> QED BY <1>3, <1>5, <1>6, <1>7, <1>8 DEF Operate

LEMMA WordIsKept ==
  ASSUME IInv, ~Offline, DatabasePlaced, RejectsNone, WordKept, [Next]_vars
  PROVE  WordKept'
<1>1. CASE DiscardNext
  <2>1. pc = "up" \/ pc = "rejected"
    BY <1>1, DiscardNextDoes DEF IInv, TaskInProcess, DatabasePlaced
  <2>2. UNCHANGED <<live, pc, word, stale, changing, staging, task>>
    BY <1>1, DiscardLeaves
  <2>3. ~Exists(pending.db)'
    BY <1>1, DiscardNextDoes, NoDbExists DEF NoSet
  <2>4. pending'.api \in {pending.api, None} /\ (discarding' = "no" => pending'.api = None)
    <3>1. discarding \in Parts \cup {"no", "note"} /\ discarding # "no"
      BY <1>1 DEF IInv, TypeOK, DiscardNext
    <3>2. pending' = Without(pending, {discarding}) /\ discarding' = DiscardOrder[discarding]
      BY <1>1 DEF DiscardNext
    <3>3. discarding' = "no" => discarding = "api"
      BY <3>1, <3>2 DEF DiscardOrder, Parts
    <3> QED BY <3>2, <3>3 DEF Without
  <2>5. CASE pc = "up"
    BY <2>2, <2>3, <2>4, <2>5 DEF WordKept, DatabasePlaced, Withdrawn, StagedSince, PendedSince
  <2>6. CASE pc = "rejected"
    BY <2>2, <2>3, <2>4, <2>6 DEF WordKept, RejectsNone, Withdrawn, StagedSince, PendedSince
  <2> QED BY <2>1, <2>5, <2>6
<1>2. CASE StageStep
  BY <1>2, WordAtStep
<1>3. ASSUME NEW a \in Archives, StageBegin(a) PROVE WordKept'
  <2>1. pc = "up" /\ pc' = "up" /\ UNCHANGED <<live, word, changing>>
    BY <1>3, StageLeaves
  <2>2. task'.pc = "db" /\ pending' = pending /\ stale' = stale \ {"task"}
    BY <1>3 DEF StageBegin, Idle, files
  <2> QED BY <2>1, <2>2 DEF WordKept, DatabasePlaced, Withdrawn, StagedSince, PendedSince, PendPCs
<1>4. CASE Operate
  BY <1>4, WordOnceOperated
<1>5. CASE Start
  BY <1>5, WordAtStart
<1>6. CASE Stop \/ Crash
  <2>1. /\ live'.db = live.db /\ live'.api = live.api /\ pc' = "off" /\ task'.pc = "idle"
        /\ changing' = "no" /\ UNCHANGED <<pending, word, stale>>
    BY <1>6 DEF Stop, Crash, Gone, Idle, IInv, TypeOK, Live
  <2> QED BY <2>1 DEF WordKept, Withdrawn, StagedSince, PendedSince, PendPCs
<1>7. CASE UNCHANGED vars
  BY <1>7 DEF vars, WordKept, Withdrawn, StagedSince, PendedSince
<1> QED BY <1>1, <1>2, <1>3, <1>4, <1>5, <1>6, <1>7 DEF Next, Stage

-----------------------------------------------------------------------------
Holds == DatabasePlaced /\ RejectsNone /\ LogPlaced /\ StagedByTask /\ KeysPlaced /\ WordKept

LEMMA InitHolds == Init => Holds
<1> SUFFICES ASSUME Init PROVE Holds
  OBVIOUS
<1>1. IInv
  BY Initially
<1>2. /\ pc = "off" /\ task.pc = "idle" /\ discarding = "no" /\ deleting = "no" /\ changing = "no"
      /\ served = live.db.copy /\ word = "none" /\ stale = {}
      /\ ~Exists(pending.db) /\ pending.api = None /\ ~Exists(kept.db)
  BY NoDbExists DEF Init, Idle, NoSet
<1>3. live.log = 0 /\ (Exists(live.db) => live.db.seal \in {None, live.key})
  <2>1. CASE live = [db |-> NoDb, log |-> 0, key |-> None, api |-> None]
    BY <2>1, NoDbExists
  <2>2. ASSUME NEW seal \in {None, Home}, NEW api \in {None, Here},
               live = [db |-> [NoDb EXCEPT !.copy = 1, !.seal = seal], log |-> 0,
                       key |-> Home, api |-> api]
        PROVE  live.log = 0 /\ live.db.seal \in {None, live.key}
    BY <2>2, NoDbType DEF Db
  <2> QED BY <2>1, <2>2 DEF Init
<1> QED BY <1>2, <1>3 DEF Holds, DatabasePlaced, RejectsNone, LogPlaced, StagedByTask, KeysPlaced, WordKept,
           LastServedKept, Withdrawn, StagedSince, PendedSince, KeyExtracted, PendPCs

LEMMA HoldsKept ==
  ASSUME IInv, ~Offline, MaxRejects = 0, Holds, [Next]_vars
  PROVE  Holds'
BY PlacedKept, RejectsKept, LogKept, StagedKept, KeysKept, WordIsKept DEF Holds

\* Without `routarr restore`, no database last served is lost: the one a start replaces is set
\* aside, and what is set aside is deleted by a server that serves another (apply_pending_restore,
\* delete_replaced_database).
THEOREM LastServedStays ==
  ASSUME ~Offline
  PROVE  Spec => []LastServedKept
<1>1. Init => DatabasePlaced
  BY InitHolds DEF Holds
<1>2. IInv /\ DatabasePlaced /\ [Next]_vars => DatabasePlaced'
  BY PlacedKept
<1>3. DatabasePlaced => LastServedKept
  BY DEF DatabasePlaced
<1> QED BY <1>1, <1>2, <1>3, Invariance, PTL DEF Spec

\* Where besides no start rejects a database, the invariant holds.
LEMMA HoldsAlways ==
  ASSUME ~Offline, MaxRejects = 0
  PROVE  Spec => []Holds
<1>1. IInv /\ Holds /\ [Next]_vars => Holds'
  BY HoldsKept
<1> QED BY InitHolds, <1>1, Invariance, PTL DEF Spec

\* No start opens a database beside the write-ahead log of another, whatever the deaths between
\* the renames of the start before (set_aside).
THEOREM OwnLog ==
  ASSUME ~Offline, MaxRejects = 0
  PROVE  Spec => []LogOfItsDatabase
<1>1. Holds => LogOfItsDatabase
  BY DEF Holds, DatabasePlaced, LogPlaced, LogOfItsDatabase
<1> QED BY HoldsAlways, <1>1, PTL

\* What a restore set aside opens with what is kept beside it or with what is in place
\* (set_the_key_aside).
THEOREM SetAsideOpens ==
  ASSUME ~Offline, MaxRejects = 0
  PROVE  Spec => []KeptOpens
<1>1. Holds => KeptOpens
  BY DEF Holds, LogPlaced, KeysPlaced, KeptOpens
<1> QED BY HoldsAlways, <1>1, PTL

\* No start is refused for the key a restore left it with, when the archive holds an Arr's key,
\* the one value the staging tries (opened_by_the_next_start, refuse_a_foreign_master_key).
THEOREM NoneRefused ==
  ASSUME ~Offline, MaxRejects = 0
  PROVE  Spec => []NeverRefused
<1>1. Holds => NeverRefused
  BY DEF Holds, DatabasePlaced, KeysPlaced, NeverRefused
<1> QED BY HoldsAlways, <1>1, PTL

\* No restore undoes what the owner said of the API key before it was staged, nor brings its
\* key back over one in use (stage, api_key_kept).
THEOREM NoneBroughtBack ==
  ASSUME ~Offline, MaxRejects = 0
  PROVE  Spec => NoKeyWithdrawnBefore
<1>1. Holds /\ [Next]_vars =>
        [pc = "api" /\ pending.api # None /\ pending'.api = None
           => "pending" \in stale \/ BroughtBack]_vars
  BY DEF Holds, WordKept, Withdrawn, PendedSince, BroughtBack
<1> QED BY HoldsAlways, <1>1, PTL DEF Spec, NoKeyWithdrawnBefore
=============================================================================
