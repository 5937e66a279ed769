--------------------------- MODULE ArchivesProofs ---------------------------
(***************************************************************************)
(* The safety of the backup folder, for every number of archives, of       *)
(* passphrases and of counts, and for every bound: the newest archive of   *)
(* each kind is kept, and a start that holds a passphrase leaves none in   *)
(* the clear.                                                              *)
(*                                                                         *)
(* The argument. A conversion names the new file before it removes the old *)
(* one, and what it finds to remove it had in hand when it named           *)
(* (TargetThere): between the two, only a prune or a person takes the new  *)
(* file away, and a prune takes the last file of an archive only for a     *)
(* newer one of its kind (PrunedForNewer). The start that holds a          *)
(* passphrase hands every name in the clear to one conversion, which drops *)
(* none but those that are gone (StartSeals); nothing else names a file in *)
(* the clear until a passphrase is saved.                                  *)
(*                                                                         *)
(* Then their copies: what a run leaves in the copy folder is recorded     *)
(* with its lock, and of another database nothing is removed from it but   *)
(* by a name of an archive of this one.                                    *)
(***************************************************************************)
EXTENDS Archives, FiniteSetTheorems, TLAPS

Backing == holder # None /\ holder.by = "backup"
Holding == holder # None /\ holder.by = "conversion"

Superseded(a) == KindOf[a] # "pre" /\ \E b \in (a + 1)..taken : KindOf[b] = KindOf[a]

\* What is listed was taken.
ListedTaken ==
  /\ plain \subseteq 1..taken
  /\ \A a \in Archive : sealed[a] # None => a <= taken

\* A backup has a number to give, a conversion a name in hand.
HandsFull ==
  /\ Backing /\ ~holder.named => taken < MaxTaken
  /\ Holding /\ holder.step # "next" => holder.name \in FileNames /\ holder.name[1] <= taken

\* The file that replaces the one to remove.
Replaced(a) == IF Target = "plain" THEN a \in plain ELSE sealed[a] # None

TargetThere ==
  Holding /\ holder.step = "remove" /\ holder.name[2] # Target =>
    \/ Replaced(holder.name[1])
    \/ holder.name[1] \in deleted \cup midway
    \/ Superseded(holder.name[1])

\* Of a start that holds a passphrase, nothing saved and nothing failed since.
Sealing == crashes > 0 /\ setting # None /\ ~savedSince /\ ~failedSince

\* The conversion of that start.
StartConversion == [old |-> None, new |-> setting]

StartSeals ==
  Sealing =>
    /\ waiting \subseteq {StartConversion}
    /\ Backing => holder.word = setting
    /\ Holding =>
         /\ waiting = {} /\ holder.new = setting
         /\ \A a \in plain :
              \/ <<a, "plain">> \in holder.names
              \/ holder.step # "next" /\ holder.name = <<a, "plain">>
    /\ ~Holding /\ waiting = {} => plain = {}

\* What a save of the count is about to remove leaves a newer one of its kind.
PastGoes == \A n \in past : n[1] \in midway \/ Superseded(n[1])

IInv ==
  TypeOK /\ ListedTaken /\ HandsFull /\ NewestKept /\ TargetThere /\ StartSeals

Assumed == SomeOfEach /\ NoneIsNothing

-----------------------------------------------------------------------------
LEMMA Numbers ==
  ASSUME Assumed, IInv
  PROVE  /\ keep \in Nat /\ keep # 0 /\ taken \in Nat /\ MaxTaken \in Nat /\ crashes \in Nat
         /\ taken <= MaxTaken
<1>1. {MaxSets, MaxCrashes, MaxDeleted, MaxFailures, MaxTaken} \subseteq Nat
  BY DEF Assumed, SomeOfEach
<1>2. MaxTaken \in Nat /\ MaxCrashes \in Nat BY <1>1
<1>3. keep \in Nat \ {0} BY DEF Assumed, SomeOfEach, IInv, TypeOK
<1>4. taken \in 0..MaxTaken /\ crashes \in 0..MaxCrashes BY DEF IInv, TypeOK
<1> QED BY <1>2, <1>3, <1>4

LEMMA InConversion ==
  ASSUME Assumed, IInv, Holding
  PROVE  /\ holder \in Conversion
         /\ holder.names \subseteq FileNames /\ holder.old \in Word /\ holder.new \in Word
         /\ holder = [by |-> "conversion", old |-> holder.old, new |-> holder.new,
                      names |-> holder.names, name |-> holder.name, step |-> holder.step]
BY DEF IInv, TypeOK, Holding, Backup, Conversion

LEMMA InBackup ==
  ASSUME Assumed, IInv, Backing
  PROVE  /\ holder \in Backup /\ holder.word \in Word /\ holder.named \in BOOLEAN
         /\ holder = [by |-> "backup", word |-> holder.word, named |-> holder.named]
BY DEF IInv, TypeOK, Backing, Backup, Conversion

LEMMA ListedIs ==
  ASSUME NEW n
  PROVE  n \in Listed <=>
           \/ \E a \in plain : n = <<a, "plain">>
           \/ \E a \in Archive : sealed[a] # None /\ n = <<a, "sealed">>
BY DEF Listed

LEMMA ListedAreNames == ASSUME IInv PROVE Listed \subseteq FileNames
BY DEF Listed, FileNames, IInv, TypeOK

\* What is past leaves a newer one of its kind or, of the file in the clear, the sealed one.
LEMMA PastIsNewer ==
  ASSUME Assumed, IInv
  PROVE  /\ Past \subseteq Listed
         /\ \A a \in Archive : <<a, "sealed">> \in Past => Superseded(a)
         /\ \A a \in Archive : <<a, "plain">> \in Past => sealed[a] # None \/ Superseded(a)
<1> DEFINE Newer(n) == {o \in Listed : KindOf[o[1]] = KindOf[n[1]] /\ Before(o, n)}
<1>1. Past = {n \in Listed : KindOf[n[1]] # "pre" /\ Cardinality(Newer(n)) >= keep} BY DEF Past
<1>2. keep \in Nat /\ keep # 0 /\ plain \subseteq Archive /\ sealed \in [Archive -> Word]
      /\ taken \in Nat
  BY Numbers DEF IInv, TypeOK
<1>3. \A n \in Past : n \in Listed /\ KindOf[n[1]] # "pre" /\ Newer(n) # {}
  <2> TAKE n \in Past
  <2>1. Cardinality(Newer(n)) >= keep BY <1>1
  <2> HIDE DEF Newer
  <2>2. CASE Newer(n) = {}
    BY <2>1, <2>2, <1>2, FS_EmptySet
  <2> QED BY <1>1, <2>2
<1>4. \A o \in Listed : o[1] \in Archive /\ o[1] <= taken /\ (o[2] = "sealed" => sealed[o[1]] # None)
  BY <1>2, ListedIs DEF IInv, ListedTaken, Archive
<1>5. ASSUME NEW a \in Archive, NEW o \in Listed, KindOf[a] # "pre", KindOf[o[1]] = KindOf[a], o[1] > a
      PROVE  Superseded(a)
  <2>1. o[1] \in (a + 1)..taken BY <1>4, <1>5, <1>2 DEF Archive
  <2> QED BY <2>1, <1>5 DEF Superseded
<1>6. \A a \in Archive : <<a, "sealed">> \in Past => Superseded(a)
  <2> SUFFICES ASSUME NEW a \in Archive, <<a, "sealed">> \in Past PROVE Superseded(a)
    OBVIOUS
  <2>1. PICK o \in Newer(<<a, "sealed">>) : TRUE BY <1>3
  <2>2. o \in Listed /\ KindOf[o[1]] = KindOf[a] /\ o[1] > a BY <2>1 DEF Before
  <2>3. KindOf[a] # "pre" BY <1>3
  <2> HIDE DEF Newer
  <2> QED BY <2>2, <2>3, <1>5
<1>7. \A a \in Archive : <<a, "plain">> \in Past => sealed[a] # None \/ Superseded(a)
  <2> SUFFICES ASSUME NEW a \in Archive, <<a, "plain">> \in Past PROVE sealed[a] # None \/ Superseded(a)
    OBVIOUS
  <2>1. PICK o \in Newer(<<a, "plain">>) : TRUE BY <1>3
  <2>2. o \in Listed /\ KindOf[o[1]] = KindOf[a] /\ (o[1] > a \/ (o[1] = a /\ o[2] = "sealed"))
    BY <2>1 DEF Before
  <2>3. KindOf[a] # "pre" BY <1>3
  <2> HIDE DEF Newer
  <2> QED BY <2>2, <2>3, <1>4, <1>5
<1> QED BY <1>1, <1>6, <1>7

LEMMA WithoutIs ==
  ASSUME Assumed, IInv, NEW names, Without(names)
  PROVE  /\ plain' = {a \in plain : <<a, "plain">> \notin names} /\ sealed' \in [Archive -> Word]
         /\ \A a \in Archive : sealed'[a] = IF <<a, "sealed">> \in names THEN None ELSE sealed[a]
<1>1. None \in Word /\ sealed \in [Archive -> Word] BY DEF Word, IInv, TypeOK
<1> QED BY <1>1 DEF Without

LEMMA WithoutOne ==
  ASSUME Assumed, IInv, NEW n, Without({n}) \/ (plain' = plain /\ sealed' = sealed)
  PROVE  /\ plain' \subseteq plain /\ sealed' \in [Archive -> Word]
         /\ \A a \in Archive : sealed'[a] \in {sealed[a], None}
         /\ \A a \in Archive : a # n[1] => sealed'[a] = sealed[a] /\ (a \in plain' <=> a \in plain)
<1>1. CASE Without({n})
  <2>1. /\ plain' = {a \in plain : <<a, "plain">> \notin {n}} /\ sealed' \in [Archive -> Word]
        /\ \A a \in Archive : sealed'[a] = IF <<a, "sealed">> \in {n} THEN None ELSE sealed[a]
    BY <1>1, WithoutIs
  <2> QED BY <2>1
<1>2. CASE plain' = plain /\ sealed' = sealed BY <1>2 DEF IInv, TypeOK
<1> QED BY <1>1, <1>2

\* A prune takes the last file of an archive only for a newer one of its kind,
\* and the one in the clear first.
LEMMA PrunedForNewer ==
  ASSUME Assumed, IInv, Without(Past)
  PROVE  /\ plain' \subseteq plain /\ sealed' \in [Archive -> Word]
         /\ \A a \in Archive : sealed'[a] \in {sealed[a], None}
         /\ \A a \in Archive : sealed[a] # None /\ sealed'[a] = None => Superseded(a)
         /\ \A a \in plain \ plain' : sealed[a] # None \/ Superseded(a)
<1>1. /\ plain' = {a \in plain : <<a, "plain">> \notin Past} /\ sealed' \in [Archive -> Word]
      /\ \A a \in Archive : sealed'[a] = IF <<a, "sealed">> \in Past THEN None ELSE sealed[a]
  BY WithoutIs
<1>2. plain \subseteq Archive BY DEF IInv, TypeOK
<1> QED BY <1>1, <1>2, PastIsNewer

-----------------------------------------------------------------------------
(* What each step keeps.                                                   *)

\* A step that leaves the folder and what the names in hand depend on.
LEMMA HistoryGrows ==
  ASSUME NewestKept, plain' = plain, sealed' = sealed, taken' = taken,
         deleted \subseteq deleted', midway \subseteq midway'
  PROVE  NewestKept'
BY DEF NewestKept, Kept

LEMMA BeginBackupKeeps ==
  ASSUME Assumed, IInv, BeginBackup
  PROVE  IInv'
<1>1. /\ holder' = [by |-> "backup", word |-> setting, named |-> FALSE]
      /\ holder = None /\ taken < MaxTaken
      /\ UNCHANGED <<setting, keep, plain, sealed, taken, saves, waiting, pruning, past, bounds, history>>
  BY DEF BeginBackup, folder
<1>2. holder' \in Backup BY <1>1 DEF IInv, TypeOK, Backup
<1>3. TypeOK' BY <1>1, <1>2 DEF IInv, TypeOK, bounds, history
<1>4. ~Holding' /\ ListedTaken' /\ HandsFull' BY <1>1 DEF IInv, ListedTaken, HandsFull, Holding, Backing
<1>5. NewestKept' BY <1>1, HistoryGrows DEF IInv, history
<1>6. TargetThere' BY <1>4 DEF TargetThere
<1>7. StartSeals'
  BY <1>1, <1>4 DEF IInv, StartSeals, Sealing, Backing, Holding, StartConversion, bounds, history
<1> QED BY <1>3, <1>4, <1>5, <1>6, <1>7 DEF IInv

\* A file named for the next archive, its other name free.
LEMMA NextIsNamed ==
  ASSUME Assumed, IInv, NEW word \in Word, Named(taken + 1, word), taken < MaxTaken,
         taken' = taken + 1, UNCHANGED <<deleted, midway>>
  PROVE  /\ plain' \subseteq Archive /\ sealed' \in [Archive -> Word] /\ taken' \in 0..MaxTaken
         /\ ListedTaken' /\ NewestKept'
         /\ plain' = IF word = None THEN plain \cup {taken + 1} ELSE plain
<1>1. taken + 1 \in Archive /\ taken \in Nat /\ MaxTaken \in Nat BY Numbers DEF Archive
<1>2. /\ plain' = IF word = None THEN plain \cup {taken + 1} ELSE plain
      /\ sealed' = [sealed EXCEPT ![taken + 1] = word]
  BY DEF Named
<1>3. plain \subseteq Archive /\ sealed \in [Archive -> Word] BY DEF IInv, TypeOK
<1>4. plain' \subseteq Archive /\ sealed' \in [Archive -> Word] /\ taken' \in 0..MaxTaken
  BY <1>1, <1>2, <1>3
<1>5. \A a \in Archive : a # taken + 1 => sealed'[a] = sealed[a] BY <1>2, <1>3
<1>6. sealed'[taken + 1] = word BY <1>1, <1>2, <1>3
<1>7. ListedTaken'
  <2>1. plain' \subseteq 1..taken' BY <1>1, <1>2 DEF IInv, ListedTaken
  <2>2. \A a \in Archive : sealed'[a] # None => a <= taken'
    BY <1>1, <1>5 DEF IInv, ListedTaken, Archive
  <2> QED BY <2>1, <2>2 DEF ListedTaken
<1>8. NewestKept'
  <2> SUFFICES ASSUME NEW a \in (1..taken') \ (deleted' \cup midway') PROVE Kept(a)'
    BY DEF NewestKept
  <2>1. CASE a = taken + 1
    BY <2>1, <1>2, <1>6 DEF Kept
  <2>2. CASE a # taken + 1
    <3>1. a \in (1..taken) \ (deleted \cup midway) /\ a \in Archive
      BY <2>2, <1>1 DEF Archive
    <3>2. Kept(a) BY <3>1 DEF IInv, NewestKept
    <3>3. plain \subseteq plain' /\ sealed'[a] = sealed[a] BY <1>2, <1>5, <2>2, <3>1
    <3>4. (a + 1)..taken \subseteq (a + 1)..taken' BY <1>1, <3>1
    <3> QED BY <3>2, <3>3, <3>4 DEF Kept
  <2> QED BY <2>1, <2>2
<1> QED BY <1>2, <1>4, <1>7, <1>8

LEMMA NameArchiveKeeps ==
  ASSUME Assumed, IInv, NameArchive
  PROVE  IInv'
<1>1. Backing /\ ~holder.named /\ UNCHANGED <<setting, keep, saves, waiting, pruning, past, bounds, history>>
  BY DEF NameArchive, Backing
<1>2. holder = [by |-> "backup", word |-> holder.word, named |-> holder.named] /\ holder.word \in Word
  BY <1>1, InBackup
<1>3. CASE holder' = None /\ UNCHANGED <<folder, taken>>
  <2>1. plain' = plain /\ sealed' = sealed /\ taken' = taken BY <1>3 DEF folder
  <2>2. ~Backing' /\ ~Holding' /\ ~Holding BY <1>1, <1>3 DEF Backing, Holding
  <2>3. TypeOK' BY <1>1, <1>3, <2>1 DEF IInv, TypeOK, bounds, history
  <2>4. ListedTaken' /\ HandsFull' /\ TargetThere'
    BY <2>1, <2>2 DEF IInv, ListedTaken, HandsFull, TargetThere
  <2>5. NewestKept' BY <1>1, <2>1, HistoryGrows DEF IInv, history
  <2>6. StartSeals'
    BY <1>1, <2>1, <2>2 DEF IInv, StartSeals, Sealing, StartConversion, bounds, history
  <2> QED BY <2>3, <2>4, <2>5, <2>6 DEF IInv
<1>4. CASE /\ Named(taken + 1, holder.word) /\ taken' = taken + 1
           /\ holder' = [holder EXCEPT !.named = TRUE]
  <2>1. taken < MaxTaken BY <1>1 DEF IInv, HandsFull
  <2> holder \in Backup BY <1>1, InBackup
  <2>2. /\ holder' \in Backup /\ holder'.by = "backup" /\ holder'.word = holder.word
        /\ holder'.named = TRUE
    BY <1>4 DEF Backup
  <2>3. UNCHANGED <<deleted, midway>> BY <1>1 DEF history
  <2>4. /\ plain' \subseteq Archive /\ sealed' \in [Archive -> Word] /\ taken' \in 0..MaxTaken
        /\ ListedTaken' /\ NewestKept'
        /\ plain' = IF holder.word = None THEN plain \cup {taken + 1} ELSE plain
    BY <1>2, <1>4, <2>1, <2>3, NextIsNamed
  <2>5. TypeOK' BY <1>1, <2>2, <2>4 DEF IInv, TypeOK, bounds, history
  <2>6. ~Holding' /\ ~Holding BY <1>1, <2>2 DEF Holding, Backing
  <2>7. HandsFull' /\ TargetThere' BY <2>2, <2>6 DEF HandsFull, TargetThere
  <2>8. StartSeals'
    BY <1>1, <2>2, <2>4, <2>6 DEF IInv, StartSeals, Sealing, StartConversion, Backing, bounds, history
  <2> QED BY <2>4, <2>5, <2>7, <2>8 DEF IInv
<1> QED BY <1>3, <1>4 DEF NameArchive

\* A prune leaves the newest.
LEMMA PruneKeepsNewest ==
  ASSUME Assumed, IInv, Without(Past), taken' = taken, deleted' = deleted, midway \subseteq midway'
  PROVE  ListedTaken' /\ NewestKept'
<1>1. /\ plain' \subseteq plain /\ sealed' \in [Archive -> Word]
      /\ \A a \in Archive : sealed'[a] \in {sealed[a], None}
      /\ \A a \in Archive : sealed[a] # None /\ sealed'[a] = None => Superseded(a)
      /\ \A a \in plain \ plain' : sealed[a] # None \/ Superseded(a)
  BY PrunedForNewer
<1>2. ListedTaken' BY <1>1 DEF IInv, ListedTaken
<1>3. NewestKept'
  <2> SUFFICES ASSUME NEW a \in (1..taken) \ (deleted \cup midway) PROVE Kept(a)'
    BY DEF NewestKept
  <2>1. a \in Archive /\ Kept(a) BY Numbers DEF Archive, IInv, NewestKept
  <2>2. Superseded(a) => Kept(a)' BY DEF Superseded, Kept
  <2>3. CASE sealed[a] # None BY <1>1, <2>1, <2>2, <2>3 DEF Kept
  <2>4. CASE a \in plain /\ sealed[a] = None BY <1>1, <2>2, <2>4 DEF Kept
  <2> QED BY <2>1, <2>2, <2>3, <2>4 DEF Kept, Superseded
<1> QED BY <1>2, <1>3

LEMMA PruneAfterBackupKeeps ==
  ASSUME Assumed, IInv, PruneAfterBackup
  PROVE  IInv'
<1>1. /\ Backing /\ Without(Past) /\ holder' = None
      /\ UNCHANGED <<setting, keep, taken, saves, waiting, pruning, past, bounds, history>>
  BY DEF PruneAfterBackup, Backing
<1>2. ~Holding /\ ~Holding' /\ ~Backing' BY <1>1 DEF Holding, Backing
<1>3. plain' \subseteq plain /\ sealed' \in [Archive -> Word] BY <1>1, PrunedForNewer
<1>4. TypeOK' BY <1>1, <1>3 DEF IInv, TypeOK, bounds, history
<1>5. ListedTaken' /\ NewestKept' BY <1>1, PruneKeepsNewest DEF history
<1>6. HandsFull' /\ TargetThere' BY <1>2 DEF HandsFull, TargetThere
<1>7. StartSeals'
  BY <1>1, <1>2, <1>3 DEF IInv, StartSeals, Sealing, StartConversion, bounds, history
<1> QED BY <1>4, <1>5, <1>6, <1>7 DEF IInv

LEMMA SaveCountKeeps ==
  ASSUME Assumed, IInv, NEW k \in Keeps, SaveCount(k)
  PROVE  IInv'
<1>1. /\ keep' = k /\ pruning' = TRUE
      /\ UNCHANGED <<setting, plain, sealed, taken, saves, waiting, holder, past, bounds, history>>
  BY DEF SaveCount, folder
<1>2. TypeOK' BY <1>1 DEF IInv, TypeOK, bounds, history
<1>3. NewestKept' BY <1>1, HistoryGrows DEF IInv, history
<1>4. ListedTaken' /\ HandsFull' BY <1>1 DEF IInv, ListedTaken, HandsFull, Holding, Backing
<1>5. TargetThere'
  BY <1>1 DEF IInv, TargetThere, Holding, Target, Replaced, Superseded, history
<1>6. StartSeals'
  BY <1>1 DEF IInv, StartSeals, Sealing, StartConversion, Holding, Backing, bounds, history
<1> QED BY <1>2, <1>3, <1>4, <1>5, <1>6 DEF IInv

LEMMA ListPastKeeps ==
  ASSUME Assumed, IInv, ListPast
  PROVE  IInv'
<1>1. /\ pruning' = FALSE /\ past' = past \cup Past
      /\ midway \subseteq midway' /\ midway' \subseteq midway \cup plain
      /\ UNCHANGED <<setting, keep, plain, sealed, taken, saves, waiting, holder, bounds, deleted, savedSince,
                     failedSince>>
  BY DEF ListPast, folder
<1>2. Past \subseteq FileNames BY ListedAreNames DEF Past
<1>3. midway' \subseteq Archive BY <1>1 DEF IInv, TypeOK
<1>4. TypeOK' BY <1>1, <1>2, <1>3 DEF IInv, TypeOK, bounds
<1>5. NewestKept' BY <1>1, HistoryGrows DEF IInv
<1>6. ListedTaken' /\ HandsFull' BY <1>1 DEF IInv, ListedTaken, HandsFull, Holding, Backing
<1>7. TargetThere' BY <1>1 DEF IInv, TargetThere, Holding, Target, Replaced, Superseded
<1>8. StartSeals'
  BY <1>1 DEF IInv, StartSeals, Sealing, StartConversion, Holding, Backing, bounds
<1> QED BY <1>4, <1>5, <1>6, <1>7, <1>8 DEF IInv

LEMMA RemovePastKeeps ==
  ASSUME Assumed, IInv, PastGoes, NEW n \in FileNames, RemovePast(n)
  PROVE  IInv'
<1>1. /\ n \in past /\ past' = past \ {n}
      /\ UNCHANGED <<setting, keep, taken, saves, waiting, holder, pruning, bounds, history>>
      /\ Without({n}) \/ (plain' = plain /\ sealed' = sealed)
  BY DEF RemovePast, folder
<1>2. n[1] \in Archive /\ n[2] \in {"plain", "sealed"} BY DEF FileNames
<1>3. sealed \in [Archive -> Word] /\ plain \subseteq Archive BY DEF IInv, TypeOK
<1>4. /\ plain' \subseteq plain /\ sealed' \in [Archive -> Word]
      /\ \A a \in Archive : sealed'[a] \in {sealed[a], None}
      /\ \A a \in Archive : a # n[1] => sealed'[a] = sealed[a] /\ (a \in plain' <=> a \in plain)
  BY <1>1, <1>2, <1>3, WithoutOne
<1>5. TypeOK' BY <1>1, <1>4 DEF IInv, TypeOK, bounds, history
<1>6. ListedTaken' BY <1>1, <1>4 DEF IInv, ListedTaken
<1>7. n[1] \in midway \/ Superseded(n[1]) BY <1>1 DEF PastGoes
<1>8. NewestKept'
  <2> SUFFICES ASSUME NEW a \in (1..taken) \ (deleted \cup midway) PROVE Kept(a)'
    BY <1>1 DEF NewestKept, history
  <2>1. a \in Archive /\ Kept(a) BY Numbers DEF Archive, IInv, NewestKept
  <2>2. CASE a # n[1] BY <1>1, <1>4, <2>1, <2>2 DEF Kept
  <2>3. CASE a = n[1]
    <3>1. Superseded(a) BY <1>7, <2>3
    <3> QED BY <3>1, <1>1 DEF Superseded, Kept
  <2> QED BY <2>2, <2>3
<1>9. HandsFull' BY <1>1 DEF IInv, HandsFull, Holding, Backing
<1>10. TargetThere'
  <2> DEFINE a == holder.name[1]
  <2> SUFFICES ASSUME Holding, holder.step = "remove", holder.name[2] # Target
               PROVE  \/ IF Target = "plain" THEN a \in plain' ELSE sealed'[a] # None
                      \/ a \in deleted \cup midway
                      \/ Superseded(a)'
    BY <1>1 DEF TargetThere, Holding, Target, Replaced, history
  <2>1. Replaced(a) \/ a \in deleted \cup midway \/ Superseded(a) BY DEF IInv, TargetThere
  <2>2. a \in Archive BY DEF IInv, HandsFull, FileNames
  <2>3. Superseded(a)' <=> Superseded(a) BY <1>1 DEF Superseded
  <2> HIDE DEF a
  <2>4. CASE a = n[1] BY <1>7, <2>3, <2>4
  <2>5. CASE a # n[1] BY <1>4, <2>1, <2>2, <2>3, <2>5 DEF Replaced
  <2> QED BY <2>4, <2>5
<1>11. StartSeals'
  BY <1>1, <1>4 DEF IInv, StartSeals, Sealing, StartConversion, Holding, Backing, bounds, history
<1> QED BY <1>5, <1>6, <1>8, <1>9, <1>10, <1>11 DEF IInv

\* What is past stays so, and no step lists anything else.
LEMMA PastStays ==
  ASSUME Assumed, IInv, PastGoes, [Next]_vars
  PROVE  PastGoes'
<1>1. CASE ListPast
  <2>1. /\ past' = past \cup Past /\ taken' = taken
        /\ midway' = midway \cup
             {a \in plain : sealed[a] # None /\ <<a, "plain">> \in Past /\ <<a, "sealed">> \notin Past}
    BY <1>1 DEF ListPast
  <2> SUFFICES ASSUME NEW n \in Past PROVE n[1] \in midway' \/ Superseded(n[1])
    BY <2>1 DEF PastGoes, Superseded
  <2>2. n \in Listed BY DEF Past
  <2>3. PICK a \in Archive :
          \/ n = <<a, "sealed">>
          \/ n = <<a, "plain">> /\ a \in plain
    BY <2>2, ListedIs DEF IInv, TypeOK
  <2>4. CASE n = <<a, "sealed">> BY <2>4, PastIsNewer
  <2>5. CASE n = <<a, "plain">> /\ a \in plain
    <3>1. sealed[a] # None \/ Superseded(a) BY <2>5, PastIsNewer
    <3>2. <<a, "sealed">> \in Past => Superseded(a) BY PastIsNewer
    <3> QED BY <2>1, <2>5, <3>1, <3>2
  <2> QED BY <2>3, <2>4, <2>5
<1>2. CASE ~ListPast
  <2>1. past' \subseteq past /\ midway' = midway /\ (taken' = taken \/ taken' = taken + 1)
    BY <1>2
    DEF Next, BeginBackup, NameArchive, PruneAfterBackup, SaveCount, Delete, RemovePast, BeginSave, Save,
        BeginConversion, GiveUp, ConvertNext, RenameConverted, RemoveOld, EndConversion, Restart, vars,
        history
  <2>2. taken \in Nat BY Numbers
  <2>3. ASSUME NEW a, Superseded(a) PROVE Superseded(a)'
    <3>1. PICK b \in (a + 1)..taken : KindOf[b] = KindOf[a] BY <2>3 DEF Superseded
    <3>2. b \in (a + 1)..taken' BY <2>1, <2>2
    <3> QED BY <2>3, <3>1, <3>2 DEF Superseded
  <2> QED BY <2>1, <2>3 DEF PastGoes
<1> QED BY <1>1, <1>2

LEMMA DeleteKeeps ==
  ASSUME Assumed, IInv, NEW n \in FileNames, Delete(n)
  PROVE  IInv'
<1>1. /\ Without({n})
      /\ deleted' = deleted \cup {n[1]}
      /\ UNCHANGED <<setting, keep, taken, saves, waiting, holder, pruning, past, bounds, savedSince,
                     failedSince, midway>>
  BY DEF Delete
<1>2. n[1] \in Archive BY DEF FileNames
<1>3. sealed \in [Archive -> Word] /\ plain \subseteq Archive /\ None \in Word
  BY DEF IInv, TypeOK, Word
<1>4. /\ plain' \subseteq plain /\ sealed' \in [Archive -> Word]
      /\ \A a \in Archive : sealed'[a] \in {sealed[a], None}
      /\ \A a \in Archive : a # n[1] => sealed'[a] = sealed[a] /\ (a \in plain' <=> a \in plain)
  BY <1>1, WithoutOne
<1>5. TypeOK' BY <1>1, <1>2, <1>4 DEF IInv, TypeOK, bounds
<1>6. ListedTaken' BY <1>1, <1>4 DEF IInv, ListedTaken
<1>7. NewestKept'
  <2> SUFFICES ASSUME NEW a \in (1..taken) \ (deleted' \cup midway) PROVE Kept(a)'
    BY <1>1 DEF NewestKept
  <2>1. a \in Archive /\ a # n[1] /\ Kept(a) BY <1>1, Numbers DEF Archive, IInv, NewestKept
  <2> QED BY <1>1, <1>4, <2>1 DEF Kept
<1>8. HandsFull' BY <1>1 DEF IInv, HandsFull, Holding, Backing
<1>9. TargetThere'
  <2> DEFINE a == holder.name[1]
  <2> SUFFICES ASSUME Holding, holder.step = "remove", holder.name[2] # Target
               PROVE  \/ IF Target = "plain" THEN a \in plain' ELSE sealed'[a] # None
                      \/ a \in deleted' \cup midway'
                      \/ Superseded(a)'
    BY <1>1 DEF TargetThere, Holding, Target, Replaced
  <2>1. Replaced(a) \/ a \in deleted \cup midway \/ Superseded(a) BY DEF IInv, TargetThere
  <2>2. a \in Archive BY DEF IInv, HandsFull, FileNames
  <2>3. Superseded(a)' <=> Superseded(a) BY <1>1 DEF Superseded
  <2> HIDE DEF a
  <2> QED BY <1>1, <1>4, <2>1, <2>2, <2>3 DEF Replaced
<1>10. StartSeals'
  BY <1>1, <1>4 DEF IInv, StartSeals, Sealing, StartConversion, Holding, Backing, bounds
<1> QED BY <1>5, <1>6, <1>7, <1>8, <1>9, <1>10 DEF IInv

\* What of the invariant a step leaves that touches neither the folder nor the
\* lock's holder.
LEMMA FolderStays ==
  ASSUME Assumed, IInv,
         UNCHANGED <<plain, sealed, taken, holder, deleted, midway>>
  PROVE  ListedTaken' /\ HandsFull' /\ NewestKept' /\ TargetThere'
<1>1. ListedTaken' /\ HandsFull' BY DEF IInv, ListedTaken, HandsFull, Holding, Backing
<1>2. NewestKept' BY DEF IInv, NewestKept, Kept
<1>3. TargetThere' BY DEF IInv, TargetThere, Holding, Target, Replaced, Superseded
<1> QED BY <1>1, <1>2, <1>3

LEMMA BeginSaveKeeps ==
  ASSUME Assumed, IInv, NEW new \in Word, BeginSave(new)
  PROVE  IInv'
<1>1. /\ sets < MaxSets /\ sets' = sets + 1 /\ saves' = saves \cup {[old |-> setting, new |-> new]}
      /\ UNCHANGED <<setting, keep, plain, sealed, taken, waiting, holder, pruning, past, crashes, failures,
                     deleted, savedSince, failedSince, midway>>
  BY DEF BeginSave, folder, history
<1>2. MaxSets \in Nat BY DEF Assumed, SomeOfEach
<1>3. saves' \subseteq Conversions BY <1>1 DEF IInv, TypeOK, Conversions
<1>4. TypeOK' BY <1>1, <1>2, <1>3 DEF IInv, TypeOK
<1>5. StartSeals' BY <1>1 DEF IInv, StartSeals, Sealing, StartConversion, Holding, Backing
<1> QED BY <1>1, <1>4, <1>5, FolderStays DEF IInv

LEMMA SaveKeeps ==
  ASSUME Assumed, IInv, NEW s \in saves, Save(s)
  PROVE  IInv'
<1>1. /\ saves' = saves \ {s} /\ setting' = s.new /\ savedSince' = TRUE
      /\ waiting' = IF s.old = s.new THEN waiting ELSE waiting \cup {s}
      /\ UNCHANGED <<keep, plain, sealed, taken, holder, pruning, past, bounds, deleted, failedSince, midway>>
  BY DEF Save, folder
<1>2. s \in Conversions BY DEF IInv, TypeOK
<1>3. setting' \in Word /\ waiting' \subseteq Conversions /\ saves' \subseteq Conversions
  BY <1>1, <1>2 DEF IInv, TypeOK, Conversions
<1>4. TypeOK' BY <1>1, <1>3 DEF IInv, TypeOK, bounds
<1>5. StartSeals' BY <1>1 DEF StartSeals, Sealing
<1> QED BY <1>1, <1>4, <1>5, FolderStays DEF IInv

LEMMA GiveUpKeeps ==
  ASSUME Assumed, IInv, NEW c \in waiting, GiveUp(c)
  PROVE  IInv'
<1>1. /\ waiting' = waiting \ {c} /\ failures < MaxFailures /\ failures' = failures + 1
      /\ failedSince' = TRUE
      /\ UNCHANGED <<setting, keep, plain, sealed, taken, saves, holder, pruning, past, sets, crashes, deleted,
                     savedSince, midway>>
  BY DEF GiveUp, Fails, folder
<1>2. MaxFailures \in Nat BY DEF Assumed, SomeOfEach
<1>3. TypeOK' BY <1>1, <1>2 DEF IInv, TypeOK
<1>4. StartSeals' BY <1>1 DEF StartSeals, Sealing
<1> QED BY <1>1, <1>3, <1>4, FolderStays DEF IInv

LEMMA BeginConversionKeeps ==
  ASSUME Assumed, IInv, NEW c \in waiting, BeginConversion(c)
  PROVE  IInv'
<1>1. /\ holder = None /\ waiting' = waiting \ {c}
      /\ holder' = [by |-> "conversion", old |-> c.old, new |-> c.new, names |-> Listed,
                    name |-> None, step |-> "next"]
      /\ UNCHANGED <<setting, keep, plain, sealed, taken, saves, pruning, past, bounds, history>>
  BY DEF BeginConversion, folder
<1>2. c.old \in Word /\ c.new \in Word BY DEF IInv, TypeOK, Conversions
<1>3. Listed \subseteq FileNames BY DEF Listed, FileNames, IInv, TypeOK
<1>4. holder' \in Conversion BY <1>1, <1>2, <1>3 DEF Conversion
<1>5. TypeOK' BY <1>1, <1>4 DEF IInv, TypeOK, bounds, history
<1>6. ListedTaken' BY <1>1 DEF IInv, ListedTaken
<1>7. HandsFull' /\ TargetThere' BY <1>1 DEF HandsFull, TargetThere, Holding, Backing
<1>8. NewestKept' BY <1>1, HistoryGrows DEF IInv, history
<1>9. ASSUME Sealing'
      PROVE  /\ waiting' = {} /\ holder'.new = setting'
             /\ \A a \in plain' : <<a, "plain">> \in holder'.names
  <2>1. Sealing /\ waiting \subseteq {StartConversion}
    BY <1>1, <1>9 DEF Sealing, IInv, StartSeals, bounds, history
  <2>2. c = StartConversion /\ waiting' = {} BY <1>1, <2>1
  <2>3. c.new = setting BY <2>2 DEF StartConversion
  <2>4. \A a \in plain : <<a, "plain">> \in Listed BY DEF Listed
  <2> QED BY <1>1, <2>2, <2>3, <2>4
<1>10. holder' # None /\ holder'.by = "conversion" BY <1>1, <1>4 DEF Assumed, NoneIsNothing
<1>11. StartSeals' BY <1>9, <1>10 DEF StartSeals, Holding, Backing
<1> QED BY <1>5, <1>6, <1>7, <1>8, <1>11 DEF IInv

LEMMA ConvertNextKeeps ==
  ASSUME Assumed, IInv, ConvertNext
  PROVE  IInv'
<1>1. /\ Holding /\ holder.step = "next"
      /\ UNCHANGED <<setting, keep, plain, sealed, taken, saves, waiting, pruning, past, sets, crashes, deleted,
                     savedSince, midway>>
  BY DEF ConvertNext, Converting, Holding, folder
<1>2. holder \in Conversion /\ holder.new \in Word BY <1>1, InConversion
<1>3. PICK n \in holder.names :
        LET passed == [holder EXCEPT !.names = @ \ {n}] IN
        \/ Converts(n) /\ holder' = [passed EXCEPT !.name = n, !.step = "rename"] /\ Works
        \/ ~Converts(n) /\ holder' = passed /\ Works
        \/ Converts(n) /\ holder' = passed /\ Fails
  BY DEF ConvertNext
<1>4. n \in FileNames BY <1>2 DEF Conversion
<1>5. /\ holder' \in Conversion /\ holder'.by = "conversion" /\ holder'.new = holder.new
      /\ holder'.names = holder.names \ {n}
      /\ \/ Converts(n) /\ holder'.name = n /\ holder'.step = "rename" /\ Works
         \/ ~Converts(n) /\ holder'.step = "next" /\ Works
         \/ holder'.step = "next" /\ Fails
  BY <1>1, <1>2, <1>3, <1>4 DEF Conversion
<1>6. failures' \in 0..MaxFailures /\ failedSince' \in BOOLEAN
  <2>1. MaxFailures \in Nat BY DEF Assumed, SomeOfEach
  <2>2. failures \in 0..MaxFailures /\ failedSince \in BOOLEAN BY DEF IInv, TypeOK
  <2>3. CASE Works BY <2>2, <2>3 DEF Works
  <2>4. CASE Fails
    <3>1. failedSince' = TRUE BY <2>4 DEF Fails
    <3>2. failures' \in 0..MaxFailures BY <2>1, <2>2, <2>4 DEF Fails
    <3> QED BY <3>1, <3>2
  <2> QED BY <1>5, <2>3, <2>4
<1>7. TypeOK' BY <1>1, <1>5, <1>6 DEF IInv, TypeOK
<1>8. ListedTaken' BY <1>1 DEF IInv, ListedTaken
<1>9. NewestKept' BY <1>1, HistoryGrows DEF IInv
<1>10. Converts(n) => n[1] <= taken /\ n[1] \in Archive
  <2> SUFFICES ASSUME n \in Listed PROVE n[1] <= taken /\ n[1] \in Archive
    BY DEF Converts
  <2>1. plain \subseteq Archive BY DEF IInv, TypeOK
  <2> QED BY ListedIs, <2>1 DEF IInv, ListedTaken, Archive
<1>11. HandsFull' BY <1>1, <1>4, <1>5, <1>10 DEF HandsFull, Backing, Holding
<1>12. TargetThere' BY <1>5 DEF TargetThere
<1>13. StartSeals'
  <2> SUFFICES ASSUME Sealing' PROVE StartSeals'
    BY DEF StartSeals
  <2>1. ~failedSince' BY DEF Sealing
  <2>2. Works BY <2>1, <1>5 DEF Fails
  <2>3. Sealing BY <1>1, <2>2 DEF Sealing, Works
  <2>4. /\ waiting = {} /\ holder.new = setting
        /\ \A a \in plain : <<a, "plain">> \in holder.names
    BY <1>1, <2>3 DEF IInv, StartSeals
  <2>5. \A a \in plain : \/ <<a, "plain">> \in holder'.names
                         \/ holder'.step # "next" /\ holder'.name = <<a, "plain">>
    <3> SUFFICES ASSUME NEW a \in plain, n = <<a, "plain">>
                 PROVE  holder'.step # "next" /\ holder'.name = <<a, "plain">>
      BY <1>5, <2>4
    <3>1. n \in Listed /\ n[2] = "plain" /\ holder.new # None
      BY <2>3, <2>4 DEF Listed, Sealing
    <3>2. Converts(n) BY <3>1 DEF Converts
    <3> QED BY <1>5, <2>1, <3>2 DEF Fails
  <2>6. Holding' BY <1>5 DEF Holding, Assumed, NoneIsNothing
  <2>7. ~Backing' BY <1>5 DEF Backing
  <2> QED BY <1>1, <1>5, <2>4, <2>5, <2>6, <2>7 DEF StartSeals
<1> QED BY <1>7, <1>8, <1>9, <1>11, <1>12, <1>13 DEF IInv

LEMMA RenameConvertedKeeps ==
  ASSUME Assumed, IInv, RenameConverted
  PROVE  IInv'
<1> DEFINE a == holder.name[1]
<1>1. /\ Holding /\ holder.step = "rename"
      /\ plain' = IF Target = "plain" THEN plain \cup {a} ELSE plain
      /\ sealed' = IF Target = "sealed" THEN [sealed EXCEPT ![a] = holder.new] ELSE sealed
      /\ holder' = [holder EXCEPT !.step = "remove"]
      /\ UNCHANGED <<setting, keep, taken, saves, waiting, pruning, past, bounds, history>>
  BY DEF RenameConverted, Converting, Holding
<1>2. holder \in Conversion /\ holder.new \in Word BY <1>1, InConversion
<1>3. /\ holder' \in Conversion /\ holder'.by = "conversion" /\ holder'.new = holder.new
      /\ holder'.names = holder.names /\ holder'.name = holder.name /\ holder'.step = "remove"
  BY <1>1, <1>2 DEF Conversion
<1>4. holder.name \in FileNames /\ a \in Archive /\ a <= taken
  BY <1>1 DEF IInv, HandsFull, FileNames
<1>5. plain \subseteq Archive /\ sealed \in [Archive -> Word] BY DEF IInv, TypeOK
<1>6. Target \in {"plain", "sealed"} /\ (Target = "sealed" => holder.new # None) BY DEF Target
<1> HIDE DEF a
<1>7. /\ plain \subseteq plain' /\ plain' \subseteq plain \cup {a} /\ plain' \subseteq Archive
      /\ sealed' \in [Archive -> Word]
      /\ \A b \in Archive : b # a => sealed'[b] = sealed[b]
      /\ \A b \in Archive : sealed[b] # None => sealed'[b] # None
      /\ Target = "plain" => a \in plain'
      /\ Target = "sealed" => sealed'[a] # None /\ plain' = plain
  <2>1. CASE Target = "plain" BY <1>1, <1>4, <1>5, <2>1
  <2>2. CASE Target = "sealed" BY <1>1, <1>2, <1>4, <1>5, <1>6, <2>2
  <2> QED BY <2>1, <2>2, <1>6
<1>8. TypeOK' BY <1>1, <1>3, <1>7 DEF IInv, TypeOK, bounds, history
<1>9. ListedTaken'
  BY <1>1, <1>4, <1>7 DEF IInv, ListedTaken, Archive
<1>10. NewestKept'
  <2> SUFFICES ASSUME NEW b \in (1..taken) \ (deleted \cup midway) PROVE Kept(b)'
    BY <1>1 DEF NewestKept, history
  <2>1. b \in Archive /\ Kept(b) BY Numbers DEF Archive, IInv, NewestKept
  <2> QED BY <1>1, <1>7, <2>1 DEF Kept
<1>11. HandsFull' BY <1>1, <1>3, <1>4 DEF HandsFull, Backing, Holding, a
<1>12. TargetThere'
  <2>1. holder'.name[1] = a /\ Target' = Target BY <1>3 DEF a, Target
  <2>2. IF Target' = "plain" THEN a \in plain' ELSE sealed'[a] # None BY <1>6, <1>7, <2>1
  <2> QED BY <2>1, <2>2 DEF TargetThere, Replaced
<1>13. StartSeals'
  <2> SUFFICES ASSUME Sealing' PROVE StartSeals'
    BY DEF StartSeals
  <2>1. Sealing BY <1>1 DEF Sealing, bounds, history
  <2>2. /\ waiting = {} /\ holder.new = setting
        /\ \A b \in plain : \/ <<b, "plain">> \in holder.names
                            \/ holder.name = <<b, "plain">>
    BY <1>1, <2>1 DEF IInv, StartSeals
  <2>3. Target = "sealed" BY <2>1, <2>2 DEF Target, Sealing
  <2>4. plain' = plain BY <1>7, <2>3
  <2>5. Holding' /\ ~Backing' BY <1>3 DEF Holding, Backing, Assumed, NoneIsNothing
  <2> QED BY <1>1, <1>3, <2>2, <2>4, <2>5 DEF StartSeals
<1> QED BY <1>8, <1>9, <1>10, <1>11, <1>12, <1>13 DEF IInv

LEMMA RemoveOldKeeps ==
  ASSUME Assumed, IInv, RemoveOld
  PROVE  IInv'
<1> DEFINE n == holder.name  a == n[1]
<1>1. /\ Holding /\ holder.step = "remove"
      /\ holder' = [holder EXCEPT !.name = None, !.step = "next"]
      /\ UNCHANGED <<setting, keep, taken, saves, waiting, pruning, past, sets, crashes, deleted, savedSince,
                     midway>>
      /\ \/ /\ plain' = IF n[2] = "plain" /\ Target # "plain" THEN plain \ {a} ELSE plain
            /\ sealed' = IF n[2] = "sealed" /\ Target # "sealed"
                         THEN [sealed EXCEPT ![a] = None] ELSE sealed
            /\ Works
         \/ Fails /\ plain' = plain /\ sealed' = sealed
  BY DEF RemoveOld, Converting, Holding, folder
<1>2. holder \in Conversion /\ holder.new \in Word BY <1>1, InConversion
<1>3. /\ holder' \in Conversion /\ holder'.by = "conversion" /\ holder'.new = holder.new
      /\ holder'.names = holder.names /\ holder'.step = "next"
  BY <1>1, <1>2 DEF Conversion
<1>4. n \in FileNames /\ n[2] \in {"plain", "sealed"} /\ a \in Archive
  BY <1>1 DEF IInv, HandsFull, FileNames
<1>5. plain \subseteq Archive /\ sealed \in [Archive -> Word] /\ None \in Word
  BY DEF IInv, TypeOK, Word
<1>6. Target \in {"plain", "sealed"} BY DEF Target
<1>7. /\ plain' \subseteq plain /\ sealed' \in [Archive -> Word]
      /\ \A b \in Archive : b # a => sealed'[b] = sealed[b] /\ (b \in plain' <=> b \in plain)
      /\ \A b \in Archive : sealed'[b] \in {sealed[b], None}
      /\ plain' # plain => n[2] = "plain" /\ Target = "sealed" /\ sealed' = sealed
      /\ sealed' # sealed => n[2] = "sealed" /\ Target = "plain" /\ plain' = plain
  <2> HIDE DEF a
  <2>1. CASE plain' = plain /\ sealed' = sealed BY <2>1, <1>5
  <2>2. CASE n[2] = "plain" /\ Target = "sealed" /\ plain' = plain \ {a} /\ sealed' = sealed
    BY <2>2, <1>5
  <2>3. CASE n[2] = "sealed" /\ Target = "plain" /\ plain' = plain /\ sealed' = [sealed EXCEPT ![a] = None]
    BY <2>3, <1>4, <1>5
  <2> QED BY <1>1, <1>4, <1>6, <2>1, <2>2, <2>3
<1>8. failures' \in 0..MaxFailures /\ failedSince' \in BOOLEAN
  <2>1. MaxFailures \in Nat BY DEF Assumed, SomeOfEach
  <2>2. failures \in 0..MaxFailures /\ failedSince \in BOOLEAN BY DEF IInv, TypeOK
  <2>3. CASE Works BY <2>2, <2>3 DEF Works
  <2>4. CASE Fails
    <3>1. failedSince' = TRUE BY <2>4 DEF Fails
    <3>2. failures' \in 0..MaxFailures BY <2>1, <2>2, <2>4 DEF Fails
    <3> QED BY <3>1, <3>2
  <2> QED BY <1>1, <2>3, <2>4
<1>9. TypeOK' BY <1>1, <1>3, <1>5, <1>7, <1>8 DEF IInv, TypeOK
<1>10. ListedTaken' BY <1>1, <1>7 DEF IInv, ListedTaken
<1>11. n[2] # Target => Replaced(a) \/ a \in deleted \cup midway \/ Superseded(a)
  BY <1>1 DEF IInv, TargetThere
<1> HIDE DEF a
<1>12. NewestKept'
  <2> SUFFICES ASSUME NEW b \in (1..taken) \ (deleted \cup midway) PROVE Kept(b)'
    BY <1>1 DEF NewestKept
  <2>1. b \in Archive /\ Kept(b) BY Numbers DEF Archive, IInv, NewestKept
  <2>2. CASE b # a BY <1>1, <1>7, <2>1, <2>2 DEF Kept
  <2>3. CASE b = a /\ plain' = plain /\ sealed' = sealed BY <1>1, <2>1, <2>3 DEF Kept
  <2>4. CASE b = a /\ (plain' # plain \/ sealed' # sealed)
    <3>1. n[2] # Target BY <1>7, <2>4
    <3>2. Replaced(a) \/ Superseded(a) BY <1>11, <3>1, <2>4
    <3>3. Superseded(a) => Kept(b)' BY <1>1, <2>4 DEF Superseded, Kept
    <3>4. CASE Target = "plain" /\ plain' = plain BY <3>2, <3>3, <3>4, <2>4 DEF Replaced, Kept
    <3>5. CASE Target = "sealed" /\ sealed' = sealed BY <3>2, <3>3, <3>5, <2>4 DEF Replaced, Kept
    <3> QED BY <1>7, <2>4, <3>4, <3>5
  <2> QED BY <2>2, <2>3, <2>4
<1>13. HandsFull' /\ TargetThere' BY <1>3 DEF HandsFull, TargetThere, Backing, Holding
<1>14. StartSeals'
  <2> SUFFICES ASSUME Sealing' PROVE StartSeals'
    BY DEF StartSeals
  <2>1. ~failedSince' BY DEF Sealing
  <2>2. Works /\ Sealing BY <1>1, <2>1 DEF Sealing, Works, Fails
  <2>3. /\ waiting = {} /\ holder.new = setting
        /\ \A b \in plain : <<b, "plain">> \in holder.names \/ n = <<b, "plain">>
    BY <1>1, <2>2 DEF IInv, StartSeals
  <2>4. Target = "sealed" BY <2>2, <2>3 DEF Target, Sealing
  <2>5. plain' = IF n[2] = "plain" THEN plain \ {a} ELSE plain BY <1>1, <2>1, <2>4 DEF Fails
  <2>6. \A b \in plain' : <<b, "plain">> \in holder.names
    <3> SUFFICES ASSUME NEW b \in plain', n = <<b, "plain">> PROVE FALSE
      BY <1>7, <2>3
    <3>1. a = b /\ n[2] = "plain" BY DEF a
    <3> QED BY <2>5, <3>1
  <2>7. Holding' /\ ~Backing' BY <1>3 DEF Holding, Backing, Assumed, NoneIsNothing
  <2> QED BY <1>1, <1>3, <2>3, <2>6, <2>7 DEF StartSeals
<1> QED BY <1>9, <1>10, <1>12, <1>13, <1>14 DEF IInv

LEMMA EndConversionKeeps ==
  ASSUME Assumed, IInv, EndConversion
  PROVE  IInv'
<1>1. /\ Holding /\ holder.step = "next" /\ holder.names = {} /\ holder' = None
      /\ UNCHANGED <<setting, keep, plain, sealed, taken, saves, waiting, pruning, past, bounds, history>>
  BY DEF EndConversion, Converting, Holding, folder
<1>2. TypeOK' BY <1>1 DEF IInv, TypeOK, bounds, history
<1>3. ~Holding' /\ ~Backing' BY <1>1 DEF Holding, Backing
<1>4. ListedTaken' /\ HandsFull' /\ TargetThere'
  BY <1>1, <1>3 DEF IInv, ListedTaken, HandsFull, TargetThere
<1>5. NewestKept' BY <1>1, HistoryGrows DEF IInv, history
<1>6. StartSeals'
  BY <1>1, <1>3 DEF IInv, StartSeals, Sealing, StartConversion, bounds, history
<1> QED BY <1>2, <1>4, <1>5, <1>6 DEF IInv

LEMMA RestartKeeps ==
  ASSUME Assumed, IInv, Restart
  PROVE  IInv'
<1>1. /\ crashes < MaxCrashes /\ crashes' = crashes + 1
      /\ waiting' = IF setting # None /\ plain' # {} THEN {StartConversion} ELSE {}
      /\ saves' = {} /\ holder' = None /\ pruning' = FALSE /\ past' = {} /\ savedSince' = FALSE /\ failedSince' = FALSE
      /\ UNCHANGED <<setting, keep, sets, failures, deleted, midway>>
      /\ \/ plain' = plain /\ sealed' = sealed /\ taken' = taken
         \/ taken < MaxTaken /\ Named(taken + 1, setting) /\ taken' = taken + 1
  BY DEF Restart, StartConversion, folder
<1>2. setting \in Word /\ plain \subseteq Archive /\ sealed \in [Archive -> Word] /\ taken \in 0..MaxTaken
  BY DEF IInv, TypeOK
<1>3. /\ plain' \subseteq Archive /\ sealed' \in [Archive -> Word] /\ taken' \in 0..MaxTaken
      /\ ListedTaken' /\ NewestKept'
  <2>1. CASE plain' = plain /\ sealed' = sealed /\ taken' = taken
    BY <1>1, <1>2, <2>1, HistoryGrows DEF IInv, ListedTaken
  <2>2. CASE taken < MaxTaken /\ Named(taken + 1, setting) /\ taken' = taken + 1
    BY <1>1, <1>2, <2>2, NextIsNamed
  <2> QED BY <1>1, <2>1, <2>2
<1>4. MaxCrashes \in Nat BY DEF Assumed, SomeOfEach
<1>5. waiting' \subseteq Conversions BY <1>1, <1>2 DEF StartConversion, Conversions, Word
<1>6. crashes' \in 0..MaxCrashes BY <1>1, <1>4 DEF IInv, TypeOK
<1>7. TypeOK' BY <1>1, <1>3, <1>5, <1>6 DEF IInv, TypeOK
<1>8. ~Holding' /\ ~Backing' BY <1>1 DEF Holding, Backing
<1>9. HandsFull' /\ TargetThere' BY <1>8 DEF HandsFull, TargetThere
<1>10. StartSeals' BY <1>1, <1>8 DEF StartSeals, Sealing, StartConversion
<1> QED BY <1>3, <1>7, <1>9, <1>10 DEF IInv

-----------------------------------------------------------------------------
LEMMA Begins ==
  ASSUME Assumed, Init
  PROVE  IInv
<1>1. MaxTaken \in Nat /\ MaxSets \in Nat /\ MaxCrashes \in Nat /\ MaxFailures \in Nat
  BY DEF Assumed, SomeOfEach
<1>2. None \in Word BY DEF Word
<1>3. [a \in Archive |-> None] \in [Archive -> Word] BY <1>2
<1>4. TypeOK
  <2>1. /\ setting \in Word /\ keep \in Keeps
        /\ plain \subseteq Archive /\ sealed \in [Archive -> Word]
        /\ saves \subseteq Conversions /\ waiting \subseteq Conversions
        /\ holder \in Backup \cup Conversion \cup {None}
    BY <1>2, <1>3 DEF Init
  <2>2. taken \in 0..MaxTaken /\ sets \in 0..MaxSets /\ crashes \in 0..MaxCrashes /\ failures \in 0..MaxFailures
    BY <1>1 DEF Init
  <2>3. /\ {pruning, savedSince, failedSince} \subseteq BOOLEAN /\ past \subseteq FileNames
        /\ {deleted, midway} \subseteq SUBSET Archive
    BY DEF Init
  <2> QED BY <2>1, <2>2, <2>3 DEF TypeOK
<1>5. ListedTaken /\ NewestKept BY DEF Init, ListedTaken, NewestKept
<1>6. ~Holding /\ ~Backing BY DEF Init, Holding, Backing
<1>7. HandsFull /\ TargetThere /\ StartSeals
  BY <1>6 DEF Init, HandsFull, TargetThere, StartSeals
<1> QED BY <1>4, <1>5, <1>7 DEF IInv

LEMMA StepKeeps ==
  ASSUME Assumed, IInv, PastGoes, [Next]_vars
  PROVE  IInv'
<1>1. CASE UNCHANGED vars
  <2>1. TypeOK' BY <1>1 DEF IInv, TypeOK, vars, folder, bounds, history
  <2>2. UNCHANGED <<plain, sealed, taken, holder, deleted, midway>>
    BY <1>1 DEF vars, folder, history
  <2>3. StartSeals'
    BY <1>1 DEF IInv, StartSeals, Sealing, StartConversion, Holding, Backing, vars, folder, bounds, history
  <2> QED BY <2>1, <2>2, <2>3, FolderStays DEF IInv
<1>2. CASE BeginBackup BY <1>2, BeginBackupKeeps
<1>3. CASE NameArchive BY <1>3, NameArchiveKeeps
<1>4. CASE PruneAfterBackup BY <1>4, PruneAfterBackupKeeps
<1>5. CASE ListPast BY <1>5, ListPastKeeps
<1>6. CASE \E k \in Keeps : SaveCount(k) BY <1>6, SaveCountKeeps
<1>7. CASE \E n \in FileNames : Delete(n) \/ RemovePast(n) BY <1>7, DeleteKeeps, RemovePastKeeps
<1>8. CASE \E new \in Word : BeginSave(new) BY <1>8, BeginSaveKeeps
<1>9. CASE \E s \in saves : Save(s) BY <1>9, SaveKeeps
<1>10. CASE \E c \in waiting : BeginConversion(c) \/ GiveUp(c)
  BY <1>10, BeginConversionKeeps, GiveUpKeeps
<1>11. CASE ConvertNext BY <1>11, ConvertNextKeeps
<1>12. CASE RenameConverted BY <1>12, RenameConvertedKeeps
<1>13. CASE RemoveOld BY <1>13, RemoveOldKeeps
<1>14. CASE EndConversion BY <1>14, EndConversionKeeps
<1>15. CASE Restart BY <1>15, RestartKeeps
<1> QED
  BY <1>1, <1>2, <1>3, <1>4, <1>5, <1>6, <1>7, <1>8, <1>9, <1>10, <1>11, <1>12, <1>13, <1>14, <1>15
  DEF Next

(* Whatever is taken, deleted, converted, pruned or stopped midway, the    *)
(* state of the folder and of the lock is the one those steps expect.      *)
THEOREM Invariance == Assumed => (Spec => [](IInv /\ PastGoes))
<1> SUFFICES ASSUME Assumed PROVE Spec => [](IInv /\ PastGoes)
  OBVIOUS
<1>1. Init => IInv /\ PastGoes BY Begins DEF Init, PastGoes
<1>2. IInv /\ PastGoes /\ [Next]_vars => (IInv /\ PastGoes)' BY StepKeeps, PastStays
<1> QED BY <1>1, <1>2, PTL DEF Spec

(* The newest archive of each kind is kept, and every one of before a      *)
(* migration, whatever stopped a conversion (sealed.rs reseal_one, mod.rs  *)
(* prune_in).                                                              *)
THEOREM NewestStays == Assumed => (Spec => []NewestKept)
<1> SUFFICES ASSUME Assumed PROVE Spec => []NewestKept
  OBVIOUS
<1>1. IInv => NewestKept BY DEF IInv
<1> QED BY <1>1, Invariance, PTL

(* A start that holds a passphrase leaves no archive in the clear, once    *)
(* what it began has ended (sealed.rs resume).                             *)
THEOREM StartsSeal == Assumed => (Spec => []SealedAfterStart)
<1> SUFFICES ASSUME Assumed PROVE Spec => []SealedAfterStart
  OBVIOUS
<1>1. IInv => SealedAfterStart
  BY DEF IInv, StartSeals, Sealing, SealedAfterStart, Holding
<1> QED BY <1>1, Invariance, PTL

-----------------------------------------------------------------------------
(* The copies of the archives, in a folder of the owner's: the module      *)
(* Copies, with variables of its own. The lock of a run and its thread     *)
(* come and go together (Watching), and a thread that found the marker in  *)
(* its folder works there until it is swapped (InAMarkedFolder).           *)

CONSTANTS Forms, Retention, Places, Theirs, MaxRestarts, MaxChanges

VARIABLES
  archives, numbered, place, files, marker, adopted, ours, run, thread, adopting, forgets,
  restarts, changes, unwritten, theirs

C == INSTANCE Copies WITH taken <- numbered

\* Whatever this database copies, records or has to forget goes by the name of an archive it took.
Numbered ==
  /\ archives \cup forgets \cup ours \subseteq C!Named
  /\ thread # None => thread.names \cup thread.ours \cup thread.copies \subseteq C!Named

\* A thread ends before its run forgets what is gone; what the run recorded is on record, unless
\* a write of it was refused.
Watching ==
  /\ run = None <=> thread = None
  /\ run = "recording" => thread.step \in C!Ends
  /\ run = "forgetting" =>
       thread.step = "level" /\ (~unwritten => thread.copies \subseteq ours /\ (thread.marked => adopted))
  /\ thread # None /\ thread.step = "level" /\ ~thread.swapped /\ place # None =>
       (files[place] \ theirs[place]) \cap C!FileNames \subseteq thread.present

\* A pass begun with a folder recorded works in one with its marker.
InAMarkedFolder ==
  thread # None /\ thread.adopted /\ ~thread.swapped /\ thread.step \in {"list", "copy", "stale", "prune"}
    => place \in marker

CopiesInv == C!TypeOK /\ Numbered /\ Watching /\ InAMarkedFolder

CopiesAssumed == C!SomeOfEach /\ C!NoneIsNothing

LEMMA ThreadTyped ==
  ASSUME C!TypeOK, thread # None
  PROVE  /\ thread \in C!Thread
         /\ thread.step \in {"look", "list", "copy", "stale", "prune"} \cup C!Ends
         /\ thread.names \subseteq C!FileNames /\ thread.adopted \in BOOLEAN
         /\ thread.ours \subseteq C!FileNames /\ thread.held \subseteq C!FileNames
         /\ thread.done \subseteq C!FileNames /\ thread.marked \in BOOLEAN
         /\ thread.copies \subseteq C!FileNames /\ thread.present \subseteq C!FileNames
         /\ thread.swapped \in BOOLEAN
<1>1. thread \in C!Thread BY DEF C!TypeOK
<1> QED BY <1>1 DEF C!Thread

LEMMA ThreadTypes ==
  ASSUME CopiesAssumed, CopiesInv, C!Look \/ C!List \/ C!CopyNext \/ C!RemoveStale \/ C!PruneCopies \/ C!ThreadFails
  PROVE  thread' \in C!Thread /\ files' \in [Places -> SUBSET (C!FileNames \cup Theirs)] /\ marker' \subseteq Places
<1>1. thread # None
  BY DEF C!Look, C!List, C!CopyNext, C!RemoveStale, C!PruneCopies, C!ThreadFails, C!At
<1>2. /\ thread = [step |-> thread.step, names |-> thread.names, adopted |-> thread.adopted,
                   ours |-> thread.ours, held |-> thread.held, done |-> thread.done,
                   marked |-> thread.marked, copies |-> thread.copies,
                   present |-> thread.present, swapped |-> thread.swapped]
      /\ thread \in C!Thread
  BY <1>1, ThreadTyped DEF CopiesInv, C!Thread
<1>3. /\ files \in [Places -> SUBSET (C!FileNames \cup Theirs)] /\ marker \subseteq Places
      /\ archives \subseteq C!FileNames /\ place \in Places \cup {None}
  BY DEF CopiesInv, C!TypeOK
<1>4. CASE C!Look
  <2>1. CASE thread' = [thread EXCEPT !.step = "failed"] /\ UNCHANGED <<files, marker>>
    BY <2>1, <1>2, <1>3 DEF C!Thread, C!Ends
  <2>2. CASE ~C!Refused
    <3>1. /\ marker' = marker \cup {place} /\ files' = files
          /\ thread' = [thread EXCEPT !.step = "list", !.marked = ~@ /\ place \notin marker]
      BY <1>4, <2>2 DEF C!Look
    <3>2. place # None BY <2>2 DEF C!Refused
    <3>3. thread' \in C!Thread BY <3>1, <1>2 DEF C!Thread
    <3> QED BY <3>1, <3>2, <3>3, <1>3
  <2> QED BY <1>4, <2>1, <2>2 DEF C!Look, C!folder
<1>5. CASE C!CopyNext
  <2>1. CASE thread' = [thread EXCEPT !.step = "stale", !.ours = @ \cup thread.copies] /\ files' = files
    <3>1. thread' \in C!Thread BY <2>1, <1>2 DEF C!Thread
    <3> QED BY <3>1, <2>1, <1>3, <1>5 DEF C!CopyNext
  <2>2. ASSUME NEW n \in thread.names, place # None, C!Gets({n} \cap archives),
               thread' = [thread EXCEPT !.done = @ \cup {n}, !.copies = @ \cup ({n} \cap archives)]
        PROVE  thread' \in C!Thread /\ files' \in [Places -> SUBSET (C!FileNames \cup Theirs)]
    <3>1. n \in C!FileNames BY <1>2 DEF C!Thread
    <3>2. thread' \in C!Thread BY <2>2, <3>1, <1>2, <1>3 DEF C!Thread
    <3> QED BY <3>2, <2>2, <1>3 DEF C!Gets
  <2> QED BY <1>5, <1>3, <2>1, <2>2 DEF C!CopyNext
<1>6. CASE C!RemoveStale
  <2>1. PICK gone \in SUBSET files[place] : C!Loses(gone) BY <1>6 DEF C!RemoveStale
  <2>2. thread' = [thread EXCEPT !.step = "prune"] \/ thread' = [thread EXCEPT !.step = "failed"]
    BY <1>6 DEF C!RemoveStale
  <2>3. thread' \in C!Thread BY <2>2, <1>2 DEF C!Thread, C!Ends
  <2> QED BY <1>6, <2>1, <2>3, <1>3 DEF C!RemoveStale, C!Loses
<1>7. CASE C!PruneCopies
  <2>1. PICK end \in C!Ends : thread' = [thread EXCEPT !.step = end, !.present = files'[place] \cap C!FileNames]
    BY <1>7 DEF C!PruneCopies
  <2>2. thread' \in C!Thread BY <2>1, <1>2 DEF C!Thread
  <2>3. PICK gone : C!Loses(gone) BY <1>7 DEF C!PruneCopies
  <2> QED BY <1>7, <2>2, <2>3, <1>3 DEF C!PruneCopies, C!Loses
<1>8. CASE C!List
  <2>1. PICK held \in SUBSET C!FileNames : thread' = [thread EXCEPT !.step = "copy", !.held = held]
    BY <1>8 DEF C!List
  <2>2. thread' \in C!Thread BY <2>1, <1>2 DEF C!Thread
  <2> QED BY <1>8, <2>2, <1>3 DEF C!List, C!folder
<1>9. CASE C!ThreadFails
  <2>1. thread' \in C!Thread BY <1>9, <1>2 DEF C!ThreadFails, C!Thread, C!Ends
  <2> QED BY <1>9, <2>1, <1>3 DEF C!ThreadFails, C!folder
<1> QED BY <1>4, <1>5, <1>6, <1>7, <1>8, <1>9

(* What a step of a thread removes is by a name it has on record, and it    *)
(* puts there what it takes from the backup folder.                        *)
LEMMA ThreadTouches ==
  ASSUME CopiesAssumed, CopiesInv,
         C!Look \/ C!List \/ C!CopyNext \/ C!RemoveStale \/ C!PruneCopies \/ C!ThreadFails
  PROVE  /\ \A p \in Places : (theirs[p] \cap files[p]) \ files'[p] \subseteq C!Named
         /\ thread' # None /\ thread'.adopted = thread.adopted /\ thread'.swapped = thread.swapped
         /\ thread'.names \cup thread'.ours \cup thread'.copies \subseteq C!Named
<1>1. thread # None
  BY DEF C!Look, C!List, C!CopyNext, C!RemoveStale, C!PruneCopies, C!ThreadFails, C!At
<1>2. thread \in C!Thread /\ thread.names \cup thread.ours \cup thread.copies \subseteq C!Named
  BY <1>1, ThreadTyped DEF CopiesInv, Numbered
<1>3. files \in [Places -> SUBSET (C!FileNames \cup Theirs)] /\ archives \subseteq C!Named
  BY DEF CopiesInv, C!TypeOK, Numbered
<1>4. thread' # None
  BY ThreadTypes DEF CopiesAssumed, C!NoneIsNothing
<1>5. CASE C!Look \/ C!List \/ C!ThreadFails
  <2>1. files' = files BY <1>5 DEF C!Look, C!List, C!ThreadFails, C!folder
  <2>2. /\ thread'.names = thread.names /\ thread'.ours = thread.ours /\ thread'.copies = thread.copies
        /\ thread'.adopted = thread.adopted /\ thread'.swapped = thread.swapped
    BY <1>5, <1>2 DEF C!Look, C!List, C!ThreadFails, C!Thread
  <2> QED BY <2>1, <2>2, <1>2, <1>4
<1>6. CASE C!CopyNext
  <2>1. /\ thread'.names = thread.names /\ thread'.adopted = thread.adopted
        /\ thread'.swapped = thread.swapped
        /\ thread'.ours \subseteq thread.ours \cup thread.copies
        /\ thread'.copies \subseteq thread.copies \cup archives
    BY <1>6, <1>2 DEF C!CopyNext, C!Thread
  <2>2. \A p \in Places : files[p] \subseteq files'[p]
    BY <1>6, <1>3 DEF C!CopyNext, C!Gets
  <2> QED BY <2>1, <2>2, <1>2, <1>3, <1>4
<1>7. CASE C!RemoveStale \/ C!PruneCopies
  <2>1. PICK gone \in SUBSET thread.ours : C!Loses(gone)
    BY <1>7 DEF C!RemoveStale, C!PruneCopies
  <2>2. \A p \in Places : files[p] \ files'[p] \subseteq thread.ours
    BY <2>1, <1>3 DEF C!Loses
  <2>3. /\ thread'.names = thread.names /\ thread'.ours = thread.ours /\ thread'.copies = thread.copies
        /\ thread'.adopted = thread.adopted /\ thread'.swapped = thread.swapped
    BY <1>7, <1>2 DEF C!RemoveStale, C!PruneCopies, C!Thread
  <2> QED BY <2>2, <2>3, <1>2, <1>4
<1> QED BY <1>5, <1>6, <1>7

LEMMA ThreadStepKeeps ==
  ASSUME CopiesAssumed, CopiesInv,
         C!Look \/ C!List \/ C!CopyNext \/ C!RemoveStale \/ C!PruneCopies \/ C!ThreadFails
  PROVE  CopiesInv' /\ C!GivenBackRecorded /\ C!LeavesTheOthers
<1>1. thread # None /\ run # None
  BY DEF C!Look, C!List, C!CopyNext, C!RemoveStale, C!PruneCopies, C!ThreadFails, C!At, CopiesInv, Watching
<1>2. thread \in C!Thread /\ thread.step \in {"look", "list", "copy", "stale", "prune"}
  BY <1>1, ThreadTyped
     DEF CopiesInv, C!Look, C!List, C!CopyNext, C!RemoveStale, C!PruneCopies, C!ThreadFails, C!At
<1>3. /\ files \in [Places -> SUBSET (C!FileNames \cup Theirs)] /\ marker \subseteq Places
      /\ place \in Places \cup {None} /\ None \notin Places
  BY DEF CopiesInv, C!TypeOK, CopiesAssumed, C!SomeOfEach
<1>4. UNCHANGED <<archives, numbered, place, adopted, ours, run, adopting, forgets, restarts, changes,
                  unwritten, theirs>>
  BY DEF C!Look, C!List, C!CopyNext, C!RemoveStale, C!PruneCopies, C!ThreadFails, C!ThreadOnly, C!rows,
         C!bounds, C!history
<1>5. /\ thread' \in C!Thread /\ files' \in [Places -> SUBSET (C!FileNames \cup Theirs)]
      /\ marker' \subseteq Places
  BY ThreadTypes
<1>6. C!TypeOK' BY <1>4, <1>5 DEF CopiesInv, C!TypeOK
<1>7. thread' # None /\ thread'.adopted = thread.adopted /\ thread'.swapped = thread.swapped
  BY ThreadTouches
<1>8. Numbered'
  <2>1. C!Named' = C!Named BY <1>4 DEF C!Named
  <2> QED BY <1>4, <2>1, ThreadTouches DEF CopiesInv, Numbered
<1>9. Watching'
  <2>1. thread'.step = "level" => files'[place] \cap C!FileNames \subseteq thread'.present
    <3>1. CASE C!PruneCopies BY <3>1, <1>2 DEF C!PruneCopies, C!Thread
    <3>2. CASE C!Look \/ C!List \/ C!CopyNext \/ C!RemoveStale \/ C!ThreadFails
      BY <3>2, <1>2 DEF C!Look, C!List, C!CopyNext, C!RemoveStale, C!ThreadFails, C!Thread
    <3> QED BY <3>1, <3>2
  <2>2. run \notin {"recording", "forgetting"}
    BY <1>2 DEF CopiesInv, Watching, C!Ends
  <2> QED BY <2>1, <2>2, <1>1, <1>4, <1>7 DEF Watching
<1>10. thread.adopted /\ ~thread.swapped
         /\ (thread'.step \in {"list", "copy", "stale", "prune"} \/ thread.step # "look")
         => place \in marker
  <2>1. CASE C!Look
    BY <2>1, <1>2, <1>4 DEF C!Look, C!Refused, C!Thread, C!At
  <2>2. CASE thread.step # "look"
    BY <2>2, <1>1, <1>2 DEF CopiesInv, InAMarkedFolder
  <2> QED BY <2>1, <2>2 DEF C!List, C!CopyNext, C!RemoveStale, C!PruneCopies, C!ThreadFails, C!At
<1>11. marker \subseteq marker' /\ (marker' # marker => marker' = marker \cup {place} /\ C!Look /\ ~C!Refused)
  BY DEF C!Look, C!List, C!CopyNext, C!RemoveStale, C!PruneCopies, C!ThreadFails, C!folder
<1>12. InAMarkedFolder' BY <1>4, <1>7, <1>10, <1>11 DEF InAMarkedFolder
<1>13. C!LeavesTheOthers
  <2> SUFFICES ASSUME NEW p \in Places, thread.adopted, ~thread.swapped, p \notin marker
               PROVE  files'[p] = files[p] /\ p \notin marker'
    BY ThreadTouches DEF C!LeavesTheOthers
  <2>1. CASE C!Look
    BY <2>1, <1>11 DEF C!Look, C!Refused, C!folder
  <2>2. CASE thread.step # "look"
    <3>1. p # place BY <2>2, <1>10
    <3>2. files'[p] = files[p]
      BY <3>1, <1>3, <2>2
         DEF C!Look, C!List, C!At, C!CopyNext, C!RemoveStale, C!PruneCopies, C!ThreadFails, C!Gets, C!Loses,
             C!folder
    <3> QED BY <3>1, <3>2, <1>11
  <2> QED BY <2>1, <2>2 DEF C!List, C!CopyNext, C!RemoveStale, C!PruneCopies, C!ThreadFails, C!At
<1>14. C!GivenBackRecorded BY <1>1, <1>4 DEF C!GivenBackRecorded
<1> QED BY <1>6, <1>8, <1>9, <1>12, <1>13, <1>14 DEF CopiesInv

LEMMA RunStepKeeps ==
  ASSUME CopiesAssumed, CopiesInv, C!Begin \/ C!Watched \/ C!Record \/ C!RecordEnded \/ C!ForgetGone
  PROVE  CopiesInv' /\ C!GivenBackRecorded /\ C!LeavesTheOthers
<1>1. UNCHANGED <<archives, numbered, place, files, marker, adopting, forgets, restarts, changes, theirs>>
  BY DEF C!Begin, C!Watched, C!Record, C!RecordEnded, C!ForgetGone, C!RunOnly, C!folder, C!bounds
<1>2. None \notin C!Thread \cup C!Steps
  BY DEF CopiesAssumed, C!NoneIsNothing
<1>3. /\ archives \subseteq C!FileNames /\ adopted \in BOOLEAN /\ ours \subseteq C!FileNames
      /\ run \in C!Steps \cup {None} /\ thread \in C!Thread \cup {None} /\ unwritten \in BOOLEAN
      /\ archives \cup forgets \cup ours \subseteq C!Named /\ C!Named' = C!Named
  BY <1>1 DEF CopiesInv, C!TypeOK, Numbered, C!Named
<1>4. C!LeavesTheOthers BY <1>1 DEF C!LeavesTheOthers
<1>5. CASE C!Begin
  <2>1. /\ run = None /\ run' = "watching" /\ unwritten' = FALSE
        /\ thread' = [step |-> "look", names |-> archives, adopted |-> adopted, ours |-> ours,
                      held |-> {}, done |-> {}, marked |-> FALSE, copies |-> {}, present |-> {},
                      swapped |-> FALSE]
        /\ adopted' = adopted /\ ours' = ours
    BY <1>5 DEF C!Begin, C!rows
  <2>2. thread' \in C!Thread /\ run' \in C!Steps BY <2>1, <1>3 DEF C!Thread, C!Steps
  <2>3. C!TypeOK' BY <1>1, <2>1, <2>2 DEF CopiesInv, C!TypeOK
  <2>4. Watching' /\ InAMarkedFolder'
    BY <2>1, <2>2, <1>2 DEF Watching, InAMarkedFolder
  <2>5. Numbered' BY <1>1, <1>3, <2>1 DEF Numbered
  <2>6. C!GivenBackRecorded BY <2>1 DEF C!GivenBackRecorded
  <2> QED BY <1>4, <2>3, <2>4, <2>5, <2>6 DEF CopiesInv
<1>6. ASSUME run # None
      PROVE  /\ thread \in C!Thread /\ thread.copies \subseteq C!FileNames /\ thread.marked \in BOOLEAN
             /\ thread.present \subseteq C!FileNames
             /\ thread.names \cup thread.ours \cup thread.copies \subseteq C!Named
  BY <1>6, ThreadTyped DEF CopiesInv, Watching, Numbered
<1>7. CASE C!Watched
  <2>1. /\ run = "watching" /\ thread' = thread /\ adopted' = adopted /\ ours' = ours
        /\ unwritten' = unwritten /\ run' \in {"recording", "recording gone on"}
        /\ run' = "recording" => thread.step \in C!Ends
    BY <1>7 DEF C!Watched, C!Ended, C!rows
  <2>2. run # None /\ thread # None BY <2>1, <1>2 DEF CopiesInv, Watching, C!Steps
  <2>3. C!TypeOK' BY <1>1, <2>1 DEF CopiesInv, C!TypeOK, C!Steps
  <2>4. run' # None BY <2>1, <1>2 DEF C!Steps
  <2>5. Watching' BY <1>1, <2>1, <2>2, <2>4 DEF CopiesInv, Watching
  <2>6. InAMarkedFolder' BY <1>1, <2>1 DEF CopiesInv, InAMarkedFolder
  <2>7. Numbered' BY <1>1, <1>3, <2>1 DEF CopiesInv, Numbered
  <2>8. C!GivenBackRecorded BY <2>4 DEF C!GivenBackRecorded
  <2> QED BY <1>4, <2>3, <2>5, <2>6, <2>7, <2>8 DEF CopiesInv
<1>8. ASSUME C!Recorded, run # None
      PROVE  /\ adopted' \in BOOLEAN /\ ours' \subseteq C!FileNames /\ ours' \subseteq C!Named
             /\ unwritten' \in BOOLEAN
             /\ ~unwritten' => thread.copies \subseteq ours' /\ (thread.marked => adopted')
  <2>1. PICK written \in BOOLEAN, copies \in SUBSET thread.copies :
          /\ adopted' = (adopted \/ (thread.marked /\ written))
          /\ ours' = ours \cup copies
          /\ unwritten' = ((thread.marked /\ ~written) \/ copies # thread.copies)
    BY <1>8 DEF C!Recorded
  <2>2. adopted' \in BOOLEAN /\ unwritten' \in BOOLEAN BY <2>1
  <2>3. ours' \subseteq C!FileNames /\ ours' \subseteq C!Named BY <2>1, <1>3, <1>6, <1>8
  <2>4. ASSUME ~unwritten'
        PROVE  thread.copies \subseteq ours' /\ (thread.marked => adopted')
    <3>1. copies = thread.copies /\ (thread.marked => written) BY <2>1, <2>4
    <3> QED BY <2>1, <3>1
  <2> QED BY <2>2, <2>3, <2>4
<1>9. CASE C!Record
  <2>1. /\ run \in {"recording", "recording gone on"} /\ C!Recorded
        /\ run' = IF run = "recording gone on" THEN "gone on"
                  ELSE IF thread.step = "level" THEN "forgetting" ELSE None
        /\ thread' = IF run' = None THEN None ELSE thread
    BY <1>9 DEF C!Record
  <2>2. run # None /\ thread # None BY <2>1, <1>2 DEF CopiesInv, Watching, C!Steps
  <2>3. run' \in C!Steps \cup {None} /\ thread' \in {thread, None}
    BY <2>1 DEF C!Steps
  <2>4. C!TypeOK' BY <1>1, <2>1, <2>2, <2>3, <1>8 DEF CopiesInv, C!TypeOK
  <2>5. run' = None <=> thread' = None BY <2>1, <2>2
  <2>6. "gone on" # None /\ "forgetting" # None BY <1>2 DEF C!Steps
  <2>7. run' = "forgetting" => thread' = thread /\ thread.step = "level" /\ run = "recording"
    BY <2>1, <2>6
  <2>8. run' # "recording"
    BY <2>1, <1>2 DEF C!Steps
  <2>9. Watching'
    BY <1>1, <2>1, <2>2, <2>3, <2>5, <2>7, <2>8, <1>8 DEF CopiesInv, Watching
  <2>10. InAMarkedFolder' BY <1>1, <2>3 DEF CopiesInv, InAMarkedFolder
  <2>11. Numbered' BY <1>1, <1>3, <1>6, <1>8, <2>1, <2>2, <2>3 DEF Numbered
  <2>12. C!GivenBackRecorded BY <2>1, <2>2, <1>8 DEF C!GivenBackRecorded
  <2> QED BY <1>4, <2>4, <2>9, <2>10, <2>11, <2>12 DEF CopiesInv
<1>10. CASE C!RecordEnded
  <2>1. run = "gone on" /\ run' = None /\ thread' = None /\ C!Recorded
    BY <1>10 DEF C!RecordEnded
  <2>2. run # None BY <2>1, <1>2 DEF C!Steps
  <2>3. C!TypeOK' BY <1>1, <2>1, <2>2, <1>8 DEF CopiesInv, C!TypeOK
  <2>4. Watching' /\ InAMarkedFolder' BY <2>1, <1>2 DEF Watching, InAMarkedFolder, C!Steps
  <2>5. Numbered' BY <1>1, <1>3, <1>8, <2>1, <2>2 DEF Numbered
  <2>6. C!GivenBackRecorded BY <2>1, <2>2, <1>8 DEF C!GivenBackRecorded
  <2> QED BY <1>4, <2>3, <2>4, <2>5, <2>6 DEF CopiesInv
<1>11. CASE C!ForgetGone
  <2>1. PICK gone \in SUBSET (ours \ thread.present) :
          /\ run = "forgetting" /\ run' = None /\ thread' = None
          /\ adopted' = adopted /\ unwritten' = unwritten /\ ours' = ours \ gone
    BY <1>11 DEF C!ForgetGone
  <2>2. run # None /\ thread # None BY <2>1, <1>2 DEF CopiesInv, Watching, C!Steps
  <2>3. C!TypeOK' BY <1>1, <2>1, <1>3 DEF CopiesInv, C!TypeOK
  <2>4. Watching' /\ InAMarkedFolder' BY <2>1, <1>2 DEF Watching, InAMarkedFolder, C!Steps
  <2>5. Numbered' BY <1>1, <1>3, <2>1 DEF Numbered
  <2>6. C!GivenBackRecorded
    BY <2>1, <2>2, <1>6 DEF C!GivenBackRecorded, CopiesInv, Watching
  <2> QED BY <1>4, <2>3, <2>4, <2>5, <2>6 DEF CopiesInv
<1> QED BY <1>5, <1>7, <1>9, <1>10, <1>11

LEMMA AroundKeeps ==
  ASSUME CopiesAssumed, CopiesInv,
         \/ C!Take \/ \E n \in C!FileNames : C!Reseal(n) \/ C!Remove(n) \/ C!Forget(n)
         \/ C!Adopt \/ C!Adopted
  PROVE  CopiesInv' /\ C!GivenBackRecorded /\ C!LeavesTheOthers
<1>1. UNCHANGED <<place, run, thread, restarts, unwritten, theirs>>
  BY DEF C!Take, C!Reseal, C!Remove, C!Forget, C!Adopt, C!Adopted, C!bounds, C!folder, C!Changed, C!history
<1>2. /\ archives \subseteq C!FileNames /\ numbered \in 0..MaxTaken /\ changes \in 0..MaxChanges
      /\ files \in [Places -> SUBSET (C!FileNames \cup Theirs)] /\ marker \subseteq Places
      /\ adopted \in BOOLEAN /\ adopting \in BOOLEAN /\ forgets \subseteq C!FileNames
      /\ place \in Places \cup {None} /\ (run = None <=> thread = None)
      /\ archives \cup forgets \cup ours \subseteq C!Named
  BY DEF CopiesInv, Watching, C!TypeOK, Numbered
<1>3. MaxTaken \in Nat /\ MaxChanges \in Nat BY DEF CopiesAssumed, C!SomeOfEach
<1>4. ours' = ours /\ (adopted' = adopted \/ adopted' = TRUE)
  BY DEF C!Take, C!Reseal, C!Remove, C!Forget, C!Adopt, C!Adopted, C!rows
<1>5. C!GivenBackRecorded BY <1>1 DEF C!GivenBackRecorded
<1>6. C!Changed => changes' \in 0..MaxChanges BY <1>2, <1>3 DEF C!Changed
<1>7. CASE C!Take
  <2>1. /\ UNCHANGED <<files, marker, adopted, adopting, forgets, changes>>
        /\ numbered < MaxTaken /\ numbered' = numbered + 1
    BY <1>7 DEF C!Take, C!folder, C!rows, C!bounds
  <2>2. PICK form \in Forms : archives' = archives \cup {<<numbered', form>>} BY <1>7 DEF C!Take
  <2>3. numbered' \in C!Archive /\ numbered' \in 0..MaxTaken BY <2>1, <1>2, <1>3 DEF C!Archive
  <2>4. form \in {"plain", "sealed"} BY DEF CopiesAssumed, C!SomeOfEach
  <2>5. archives' \subseteq C!FileNames BY <2>2, <2>3, <2>4, <1>2 DEF C!FileNames
  <2>6. C!TypeOK' BY <1>1, <1>4, <2>1, <2>3, <2>5 DEF CopiesInv, C!TypeOK
  <2>7. C!Named \subseteq C!Named' /\ <<numbered', form>> \in C!Named'
    BY <1>2, <2>1, <2>3, <2>4 DEF C!Named, C!FileNames, C!Archive
  <2>8. Numbered' BY <1>1, <1>2, <1>4, <2>1, <2>2, <2>7 DEF CopiesInv, Numbered
  <2>9. Watching' /\ InAMarkedFolder' /\ C!LeavesTheOthers
    BY <1>1, <1>4, <2>1 DEF CopiesInv, Watching, InAMarkedFolder, C!LeavesTheOthers
  <2> QED BY <1>5, <2>6, <2>8, <2>9 DEF CopiesInv
<1>8. ASSUME NEW n \in C!FileNames, C!Reseal(n) \/ C!Remove(n)
      PROVE  CopiesInv' /\ C!LeavesTheOthers
  <2>1. UNCHANGED <<numbered, files, marker, adopted, adopting>> /\ changes' \in 0..MaxChanges
    BY <1>6, <1>8 DEF C!Reseal, C!Remove, C!folder, C!rows
  <2>2. n \in C!Named /\ C!Other(n) \in C!Named /\ C!Named' = C!Named
    BY <1>2, <1>8, <2>1 DEF C!Reseal, C!Remove, C!Other, C!Named, C!FileNames
  <2>3. forgets' \subseteq forgets \cup {n} BY <1>8 DEF C!Reseal, C!Remove
  <2>4. archives' \subseteq archives \cup {C!Other(n)} BY <1>8 DEF C!Reseal, C!Remove
  <2>5. C!Named \subseteq C!FileNames BY DEF C!Named
  <2>6. C!TypeOK' BY <1>1, <1>2, <1>4, <2>1, <2>2, <2>3, <2>4, <2>5 DEF CopiesInv, C!TypeOK
  <2>7. Numbered' BY <1>1, <1>2, <1>4, <2>2, <2>3, <2>4 DEF CopiesInv, Numbered
  <2>8. Watching' /\ InAMarkedFolder' /\ C!LeavesTheOthers
    BY <1>1, <1>4, <2>1 DEF CopiesInv, Watching, InAMarkedFolder, C!LeavesTheOthers
  <2> QED BY <2>6, <2>7, <2>8 DEF CopiesInv
<1>9. ASSUME NEW n \in C!FileNames, C!Forget(n)
      PROVE  CopiesInv' /\ C!LeavesTheOthers
  <2>1. /\ UNCHANGED <<archives, numbered, marker, adopted, adopting, changes>>
        /\ n \in forgets /\ run = None /\ forgets' = forgets \ {n}
        /\ \/ place # None /\ files' = [files EXCEPT ![place] = @ \ {n}]
           \/ files' = files
    BY <1>9 DEF C!Forget, C!Loses, C!rows, C!bounds
  <2>2. thread = None BY <1>2, <2>1
  <2>3. files' \in [Places -> SUBSET (C!FileNames \cup Theirs)] BY <1>2, <2>1
  <2>4. \A p \in Places : files[p] \ files'[p] \subseteq {n}
    BY <1>2, <2>1
  <2>5. C!TypeOK' BY <1>1, <1>2, <1>4, <2>1, <2>3 DEF CopiesInv, C!TypeOK
  <2>6. None \notin {"recording", "forgetting"} BY DEF CopiesAssumed, C!NoneIsNothing, C!Steps
  <2>7. Watching' /\ InAMarkedFolder' BY <1>1, <2>1, <2>2, <2>6 DEF Watching, InAMarkedFolder
  <2>8. C!Named' = C!Named BY <2>1 DEF C!Named
  <2>9. Numbered' BY <1>1, <1>2, <1>4, <2>1, <2>2, <2>8 DEF Numbered
  <2>10. C!LeavesTheOthers BY <1>1, <1>2, <2>1, <2>2, <2>4 DEF C!LeavesTheOthers
  <2> QED BY <2>5, <2>7, <2>9, <2>10 DEF CopiesInv
<1>10. CASE C!Adopt
  <2>1. /\ UNCHANGED <<archives, numbered, files, adopted, forgets>> /\ ~adopting /\ adopting' = TRUE
        /\ place # None /\ marker' = marker \cup {place} /\ changes' \in 0..MaxChanges
    BY <1>6, <1>10 DEF C!Adopt, C!rows
  <2>2. marker' \subseteq Places BY <1>2, <2>1
  <2>3. C!TypeOK' BY <1>1, <1>4, <2>1, <2>2 DEF CopiesInv, C!TypeOK
  <2>4. Watching' /\ InAMarkedFolder' /\ C!LeavesTheOthers
    BY <1>1, <1>4, <2>1 DEF CopiesInv, Watching, InAMarkedFolder, C!LeavesTheOthers
  <2>5. Numbered' BY <1>1, <1>4, <2>1 DEF CopiesInv, Numbered, C!Named
  <2> QED BY <1>5, <2>3, <2>4, <2>5 DEF CopiesInv
<1>11. CASE C!Adopted
  <2>1. /\ UNCHANGED <<archives, numbered, files, marker, forgets, changes>>
        /\ adopted' \in {adopted, TRUE} /\ adopting' = FALSE
    BY <1>11 DEF C!Adopted, C!folder, C!bounds
  <2>2. C!TypeOK' BY <1>1, <1>2, <1>4, <2>1 DEF CopiesInv, C!TypeOK
  <2>3. Watching' /\ InAMarkedFolder' /\ C!LeavesTheOthers
    BY <1>1, <1>4, <2>1 DEF CopiesInv, Watching, InAMarkedFolder, C!LeavesTheOthers
  <2>4. Numbered' BY <1>1, <1>4, <2>1, <1>11 DEF CopiesInv, Numbered, C!Named, C!Adopted
  <2> QED BY <1>5, <2>2, <2>3, <2>4 DEF CopiesInv
<1> QED BY <1>5, <1>7, <1>8, <1>9, <1>10, <1>11

LEMMA MountKeeps ==
  ASSUME CopiesAssumed, CopiesInv, NEW p \in Places \cup {None}, C!Mount(p)
  PROVE  CopiesInv' /\ C!GivenBackRecorded /\ C!LeavesTheOthers
<1>1. /\ UNCHANGED <<archives, numbered, files, marker, adopted, ours, run, adopting, forgets, restarts,
                     unwritten, theirs>>
      /\ place' = p /\ changes < MaxChanges /\ changes' = changes + 1
      /\ thread' = IF thread = None THEN None ELSE [thread EXCEPT !.swapped = TRUE]
  BY DEF C!Mount, C!Changed, C!folder, C!rows, C!history
<1>2. changes' \in 0..MaxChanges
  <2>1. MaxChanges \in Nat BY DEF CopiesAssumed, C!SomeOfEach
  <2> QED BY <1>1, <2>1 DEF CopiesInv, C!TypeOK
<1>3. thread # None =>
        /\ thread' \in C!Thread /\ thread'.swapped
        /\ thread'.step = thread.step /\ thread'.copies = thread.copies /\ thread'.marked = thread.marked
        /\ thread'.names = thread.names /\ thread'.ours = thread.ours
  BY <1>1, ThreadTyped DEF CopiesInv, C!Thread
<1>4. thread = None => thread' = None BY <1>1
<1>5. thread # None => thread' # None BY <1>3 DEF CopiesAssumed, C!NoneIsNothing
<1>6. C!TypeOK' BY <1>1, <1>2, <1>3, <1>4 DEF CopiesInv, C!TypeOK
<1>7. Watching'
  BY <1>1, <1>3, <1>4, <1>5 DEF CopiesInv, Watching
<1>8. InAMarkedFolder' BY <1>3, <1>4 DEF InAMarkedFolder
<1>9. Numbered' BY <1>1, <1>3, <1>4 DEF CopiesInv, Numbered, C!Named
<1>10. C!GivenBackRecorded /\ C!LeavesTheOthers
  BY <1>1 DEF C!GivenBackRecorded, C!LeavesTheOthers
<1> QED BY <1>6, <1>7, <1>8, <1>9, <1>10 DEF CopiesInv

LEMMA OthersCopyKeeps ==
  ASSUME CopiesAssumed, CopiesInv, NEW p \in Places, NEW n \in Theirs, C!OthersCopy(p, n)
  PROVE  CopiesInv' /\ C!GivenBackRecorded /\ C!LeavesTheOthers
<1>1. /\ UNCHANGED <<archives, numbered, place, adopted, ours, run, thread, adopting, forgets, restarts,
                     unwritten>>
      /\ changes < MaxChanges /\ changes' = changes + 1
      /\ files' = [files EXCEPT ![p] = @ \cup {n}] /\ theirs' = [theirs EXCEPT ![p] = @ \cup {n}]
      /\ marker' = marker \cup {p}
  BY DEF C!OthersCopy, C!Changed, C!rows
<1>2. changes' \in 0..MaxChanges
  <2>1. MaxChanges \in Nat BY DEF CopiesAssumed, C!SomeOfEach
  <2> QED BY <1>1, <2>1 DEF CopiesInv, C!TypeOK
<1>3. /\ files \in [Places -> SUBSET (C!FileNames \cup Theirs)] /\ marker \subseteq Places
      /\ theirs \in [Places -> SUBSET Theirs] /\ place \in Places \cup {None}
  BY DEF CopiesInv, C!TypeOK
<1>4. /\ files' \in [Places -> SUBSET (C!FileNames \cup Theirs)] /\ marker' \subseteq Places
      /\ theirs' \in [Places -> SUBSET Theirs]
  BY <1>1, <1>3
<1>5. C!TypeOK' BY <1>1, <1>2, <1>4 DEF CopiesInv, C!TypeOK
<1>6. \A q \in Places : files[q] \subseteq files'[q] /\ files'[q] \ theirs'[q] \subseteq files[q] \ theirs[q]
  BY <1>1, <1>3
<1>7. Watching' BY <1>1, <1>3, <1>6 DEF CopiesInv, Watching
<1>8. InAMarkedFolder' BY <1>1 DEF CopiesInv, InAMarkedFolder
<1>9. Numbered' BY <1>1 DEF CopiesInv, Numbered, C!Named
<1>10. C!LeavesTheOthers BY <1>1, <1>6 DEF C!LeavesTheOthers
<1>11. C!GivenBackRecorded BY <1>1 DEF C!GivenBackRecorded
<1> QED BY <1>5, <1>7, <1>8, <1>9, <1>10, <1>11 DEF CopiesInv

LEMMA RestartCopiesKeeps ==
  ASSUME CopiesAssumed, CopiesInv, C!Restart
  PROVE  CopiesInv' /\ C!GivenBackRecorded /\ C!LeavesTheOthers
<1>1. /\ UNCHANGED <<archives, numbered, place, files, marker, adopted, ours, changes, unwritten, theirs>>
      /\ run' = None /\ thread' = None /\ adopting' = FALSE /\ forgets' = {}
      /\ restarts < MaxRestarts /\ restarts' = restarts + 1
  BY DEF C!Restart, C!folder, C!rows, C!history
<1>2. restarts \in Nat /\ restarts' \in 0..MaxRestarts
  <2>1. MaxRestarts \in Nat BY DEF CopiesAssumed, C!SomeOfEach
  <2> QED BY <1>1, <2>1 DEF CopiesInv, C!TypeOK
<1>3. C!TypeOK' BY <1>1, <1>2 DEF CopiesInv, C!TypeOK
<1>4. None \notin {"recording", "forgetting"} BY DEF CopiesAssumed, C!NoneIsNothing, C!Steps
<1>5. Watching' /\ InAMarkedFolder' BY <1>1, <1>4 DEF Watching, InAMarkedFolder
<1>6. Numbered' BY <1>1 DEF CopiesInv, Numbered, C!Named
<1>7. C!GivenBackRecorded BY <1>1, <1>2 DEF C!GivenBackRecorded
<1>8. C!LeavesTheOthers BY <1>1 DEF C!LeavesTheOthers
<1> QED BY <1>3, <1>5, <1>6, <1>7, <1>8 DEF CopiesInv

LEMMA CopiesBegin ==
  ASSUME CopiesAssumed, C!Init
  PROVE  CopiesInv
<1>1. MaxRestarts \in Nat /\ MaxChanges \in Nat /\ MaxTaken \in Nat /\ None \notin C!Steps
  BY DEF CopiesAssumed, C!SomeOfEach, C!NoneIsNothing
<1>2. C!TypeOK
  <2>2. /\ files \in [Places -> SUBSET (C!FileNames \cup Theirs)]
        /\ theirs \in [Places -> SUBSET Theirs]
    BY DEF C!Init
  <2>3. /\ archives \subseteq C!FileNames /\ place \in Places \cup {None} /\ marker \subseteq Places
        /\ {adopted, adopting, unwritten} \subseteq BOOLEAN /\ ours \subseteq C!FileNames
        /\ run \in C!Steps \cup {None} /\ thread \in C!Thread \cup {None} /\ forgets \subseteq C!FileNames
    BY DEF C!Init
  <2>4. numbered \in 0..MaxTaken /\ restarts \in 0..MaxRestarts /\ changes \in 0..MaxChanges
    BY <1>1 DEF C!Init
  <2> QED BY <2>2, <2>3, <2>4 DEF C!TypeOK
<1>3. Numbered BY DEF C!Init, Numbered
<1>4. Watching /\ InAMarkedFolder BY <1>1 DEF C!Init, Watching, InAMarkedFolder, C!Steps
<1> QED BY <1>2, <1>3, <1>4 DEF CopiesInv

LEMMA CopiesStep ==
  ASSUME CopiesAssumed, CopiesInv, [C!Next]_C!vars
  PROVE  CopiesInv' /\ (C!Next => C!GivenBackRecorded /\ C!LeavesTheOthers)
<1>1. CASE UNCHANGED C!vars
  <2>1. UNCHANGED <<archives, numbered, place, files, marker, adopted, ours, run, thread, adopting,
                    forgets, restarts, changes, unwritten, theirs>>
    BY <1>1 DEF C!vars
  <2>2. C!TypeOK' BY <2>1 DEF CopiesInv, C!TypeOK
  <2>3. Watching' /\ InAMarkedFolder' /\ Numbered'
    BY <2>1 DEF CopiesInv, Watching, InAMarkedFolder, Numbered, C!Named
  <2>4. C!GivenBackRecorded /\ C!LeavesTheOthers
    BY <2>1 DEF CopiesInv, C!GivenBackRecorded, C!LeavesTheOthers
  <2> QED BY <2>2, <2>3, <2>4 DEF CopiesInv
<1>2. CASE C!Look \/ C!List \/ C!CopyNext \/ C!RemoveStale \/ C!PruneCopies \/ C!ThreadFails
  BY <1>2, ThreadStepKeeps
<1>3. CASE C!Begin \/ C!Watched \/ C!Record \/ C!RecordEnded \/ C!ForgetGone
  BY <1>3, RunStepKeeps
<1>4. CASE \/ C!Take \/ \E n \in C!FileNames : C!Reseal(n) \/ C!Remove(n) \/ C!Forget(n)
           \/ C!Adopt \/ C!Adopted
  BY <1>4, AroundKeeps
<1>5. CASE \E p \in Places \cup {None} : C!Mount(p) BY <1>5, MountKeeps
<1>6. CASE \E p \in Places, n \in Theirs : C!OthersCopy(p, n) BY <1>6, OthersCopyKeeps
<1>7. CASE C!Restart BY <1>7, RestartCopiesKeeps
<1> QED BY <1>1, <1>2, <1>3, <1>4, <1>5, <1>6, <1>7 DEF C!Next

LEMMA CopiesInvariance == CopiesAssumed => (C!Spec => []CopiesInv)
<1> SUFFICES ASSUME CopiesAssumed PROVE C!Spec => []CopiesInv
  OBVIOUS
<1>1. C!Init => CopiesInv BY CopiesBegin
<1>2. CopiesInv /\ [C!Next]_C!vars => CopiesInv' BY CopiesStep
<1> QED BY <1>1, <1>2, PTL DEF C!Spec

(* What a copy left in the folder is on record when its lock goes back, a  *)
(* copy given up on included, unless the database refused a write of its   *)
(* last recording (copy.rs Left, record_once_ended).                       *)
THEOREM CopiesRecorded == CopiesAssumed => (C!Spec => C!RecordedWithTheLock)
<1> SUFFICES ASSUME CopiesAssumed PROVE C!Spec => C!RecordedWithTheLock
  OBVIOUS
<1>1. CopiesInv /\ [C!Next]_C!vars => [C!GivenBackRecorded]_C!vars BY CopiesStep
<1> QED BY <1>1, CopiesInvariance, PTL DEF C!Spec, C!RecordedWithTheLock

(* Of another database nothing is removed but by a name of this one's      *)
(* archives, and a pass leaves a folder without its marker as it is, unless *)
(* another was mounted under it (copy.rs bring_level).                     *)
THEOREM FoldersKept == CopiesAssumed => (C!Spec => C!KeepsToItsFolder)
<1> SUFFICES ASSUME CopiesAssumed PROVE C!Spec => C!KeepsToItsFolder
  OBVIOUS
<1>1. CopiesInv /\ [C!Next]_C!vars => [C!LeavesTheOthers]_C!vars BY CopiesStep
<1> QED BY <1>1, CopiesInvariance, PTL DEF C!Spec, C!KeepsToItsFolder
=============================================================================
