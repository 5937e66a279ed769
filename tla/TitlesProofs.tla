---------------------------- MODULE TitlesProofs ----------------------------
(***************************************************************************)
(* RowsKeepTheirTitles, MovedPathStands and QuietSyncHeals hold of Titles  *)
(* for any Arrs, ids, titles, folders and bounds.                          *)
(* After them, of Proposals: what is offered for a title is the decision   *)
(* shown for it, and a run stores what it read.                            *)
(***************************************************************************)
EXTENDS Titles, FiniteSetTheorems, WellFoundedInduction, TLAPS

Rows == [Ids -> Row \cup {None}]
Named == [Ids -> Works \cup {None}]
Offered == [Ids -> Proposal \cup {None}]
Lib == [row: Rows, pending: Offered, history: [Ids -> SUBSET Proposal], pin: Named,
        retired: [Works -> Works \cup {None}]]

(* What hangs on an id is of the title its row is of, a proposal unless    *)
(* the row was not kept, and an exception waits for the title it was set   *)
(* on.                                                                     *)
IsOf(lib, i, w) == w # None => lib.row[i] # None /\ lib.row[i].work = w
HangsOn(lib, i, of) == of # None => lib.row[i] # None /\ (of.kept => lib.row[i].work = of.work)
Sound(lib) ==
  /\ \A i \in Ids : IsOf(lib, i, lib.pin[i]) /\ HangsOn(lib, i, lib.pending[i])
  /\ \A i \in Ids : \A of \in lib.history[i] : HangsOn(lib, i, of)
  /\ \A w \in Works : lib.retired[w] \in {w, None}
KeepsPin(lib, w) == lib.retired[w] = w \/ \E i \in Ids : lib.pin[i] = w

-----------------------------------------------------------------------------
(* The rows as one transaction changes them.                               *)

LEMMA RetireDoes ==
  ASSUME NEW lib \in Lib, NEW ids \in SUBSET Ids
  PROVE  LET to == Retire(lib, ids) IN
         /\ DOMAIN to.row = Ids /\ DOMAIN to.pending = Ids /\ DOMAIN to.history = Ids
         /\ DOMAIN to.pin = Ids /\ DOMAIN to.retired = Works
         /\ \A i \in ids : /\ to.row[i] = None /\ to.pending[i] = None
                           /\ to.history[i] = {} /\ to.pin[i] = None
         /\ \A i \in Ids \ ids : /\ to.row[i] = lib.row[i] /\ to.pending[i] = lib.pending[i]
                                 /\ to.history[i] = lib.history[i] /\ to.pin[i] = lib.pin[i]
         /\ \A w \in Works :
              LET kept == {i \in ids : lib.pin[i] # None /\ lib.row[i].work = w} IN
              to.retired[w] = IF kept = {} THEN lib.retired[w] ELSE lib.pin[CHOOSE i \in kept : TRUE]
BY DEF Lib, Rows, Named, Offered, Retire

LEMMA RetireRetires ==
  ASSUME NEW lib \in Lib, Sound(lib), NEW ids \in SUBSET Ids, NEW w \in Works
  PROVE  LET to == Retire(lib, ids) IN
         /\ to.retired[w] = lib.retired[w] \/ to.retired[w] = w
         /\ \A i \in ids : lib.pin[i] = w /\ w # None => to.retired[w] = w
<1> DEFINE kept == {i \in ids : lib.pin[i] # None /\ lib.row[i].work = w}
<1>1. Retire(lib, ids).retired[w] = IF kept = {} THEN lib.retired[w] ELSE lib.pin[CHOOSE i \in kept : TRUE]
  BY RetireDoes
<1>2. \A i \in kept : lib.pin[i] = w
  BY DEF Sound, IsOf
<1>3. kept # {} => (CHOOSE i \in kept : TRUE) \in kept
  OBVIOUS
<1>4. kept # {} => lib.pin[CHOOSE i \in kept : TRUE] = w
  BY <1>2, <1>3
<1>5. ASSUME NEW i \in ids, lib.pin[i] = w, w # None PROVE kept # {}
  <2>1. i \in kept
    BY <1>5 DEF Sound, IsOf
  <2> QED BY <2>1
<1> HIDE DEF kept
<1> QED BY <1>1, <1>4, <1>5

LEMMA RetireKeeps ==
  ASSUME NoneIsNothing, NEW lib \in Lib, Sound(lib), NEW ids \in SUBSET Ids
  PROVE  LET to == Retire(lib, ids) IN
         to \in Lib /\ Sound(to) /\ \A w \in Works : KeepsPin(lib, w) => KeepsPin(to, w)
<1> DEFINE to == Retire(lib, ids)
<1>1. /\ DOMAIN to.row = Ids /\ DOMAIN to.pending = Ids /\ DOMAIN to.history = Ids
      /\ DOMAIN to.pin = Ids /\ DOMAIN to.retired = Works
      /\ \A i \in ids : /\ to.row[i] = None /\ to.pending[i] = None
                        /\ to.history[i] = {} /\ to.pin[i] = None
      /\ \A i \in Ids \ ids : /\ to.row[i] = lib.row[i] /\ to.pending[i] = lib.pending[i]
                              /\ to.history[i] = lib.history[i] /\ to.pin[i] = lib.pin[i]
  BY RetireDoes
<1>2. \A w \in Works : /\ to.retired[w] = lib.retired[w] \/ to.retired[w] = w
                       /\ \A i \in ids : lib.pin[i] = w /\ w # None => to.retired[w] = w
  BY RetireRetires
<1>3. to = [row |-> to.row, pending |-> to.pending, history |-> to.history, pin |-> to.pin,
            retired |-> to.retired]
  BY DEF Retire
<1>4. to \in Lib
  <2>1. to.row \in Rows
    <3>1. to.row = [i \in Ids |-> IF i \in ids THEN None ELSE lib.row[i]]
      BY DEF Retire, Lib, Rows
    <3> QED BY <3>1 DEF Lib, Rows
  <2>2. to.pending \in Offered /\ to.pin \in Named
    <3>1. /\ to.pending = [i \in Ids |-> IF i \in ids THEN None ELSE lib.pending[i]]
          /\ to.pin = [i \in Ids |-> IF i \in ids THEN None ELSE lib.pin[i]]
      BY DEF Retire, Lib, Named, Offered
    <3> QED BY <3>1 DEF Lib, Named, Offered
  <2>3. to.history \in [Ids -> SUBSET Proposal]
    <3>1. to.history = [i \in Ids |-> IF i \in ids THEN {} ELSE lib.history[i]]
      BY DEF Retire, Lib
    <3> QED BY <3>1 DEF Lib
  <2>4. to.retired \in [Works -> Works \cup {None}]
    <3>1. \A w \in Works : to.retired[w] \in Works \cup {None}
      BY <1>2 DEF Lib
    <3>2. to.retired = [w \in Works |-> to.retired[w]]
      BY DEF Retire, Lib
    <3> HIDE DEF to
    <3> QED BY <3>1, <3>2
  <2> HIDE DEF to
  <2> QED BY <1>3, <2>1, <2>2, <2>3, <2>4 DEF Lib
<1> HIDE DEF to
<1>5. Sound(to)
  <2>1. \A w \in Works : to.retired[w] \in {w, None}
    BY <1>2 DEF Sound
  <2>2. ASSUME NEW i \in Ids
        PROVE  /\ IsOf(to, i, to.pin[i]) /\ HangsOn(to, i, to.pending[i])
               /\ \A of \in to.history[i] : HangsOn(to, i, of)
    BY <1>1 DEF Sound, IsOf, HangsOn
  <2> QED BY <2>1, <2>2 DEF Sound
<1>6. ASSUME NEW w \in Works, KeepsPin(lib, w) PROVE KeepsPin(to, w)
  <2>1. CASE lib.retired[w] = w
    BY <1>2, <2>1 DEF KeepsPin
  <2>2. ASSUME NEW i \in Ids, lib.pin[i] = w PROVE KeepsPin(to, w)
    BY <1>1, <1>2, <2>2 DEF KeepsPin, NoneIsNothing
  <2> QED BY <1>6, <2>1, <2>2 DEF KeepsPin
<1> QED BY <1>4, <1>5, <1>6 DEF to

LEMMA UpsertedIsRow ==
  ASSUME NEW held \in Row, NEW item \in Item, NEW at \in 0..MaxTime, held.work = item.work
  PROVE  LET to == Upserted(held, item, at) IN
         /\ to \in Row /\ to.work = held.work /\ to.movedAt = held.movedAt
         /\ PathStands(held, at) => to.path = held.path
         /\ \/ to = held /\ held.syncedAt > at
            \/ /\ to.tags = item.tags
               /\ ~ PathStands(held, at) => to.path = item.path
         /\ to = held \/ to.syncedAt = at
<1> DEFINE path == IF PathStands(held, at) THEN held.path ELSE item.path
           found == [work |-> item.work, tags |-> item.tags, path |-> path,
                     syncedAt |-> held.syncedAt, movedAt |-> held.movedAt]
<1>1. Upserted(held, item, at) = IF held.syncedAt > at \/ found = held THEN held
                                 ELSE [found EXCEPT !.syncedAt = at]
  BY DEF Upserted
<1>2. path \in Folders
  BY DEF Row, Item
<1> HIDE DEF path
<1>3. found \in Row
  BY <1>2 DEF Row, Item
<1>4. [found EXCEPT !.syncedAt = at] \in Row
  BY <1>3 DEF Row
<1>5. /\ [found EXCEPT !.syncedAt = at].work = held.work
      /\ [found EXCEPT !.syncedAt = at].tags = item.tags
      /\ [found EXCEPT !.syncedAt = at].path = path
      /\ [found EXCEPT !.syncedAt = at].syncedAt = at
      /\ [found EXCEPT !.syncedAt = at].movedAt = held.movedAt
  OBVIOUS
<1>6. found = held => held.tags = item.tags /\ held.path = path
  OBVIOUS
<1> HIDE DEF found
<1>7. (PathStands(held, at) => path = held.path) /\ (~ PathStands(held, at) => path = item.path)
  BY DEF path
<1> QED BY <1>1, <1>4, <1>5, <1>6, <1>7

LEMMA UpsertDoes ==
  ASSUME NEW lib \in Lib, NEW list, NEW listed, NEW at
  PROVE  LET to == Upsert(lib, list, listed, at) IN
         /\ to.pending = lib.pending /\ to.history = lib.history /\ to.pin = lib.pin
         /\ to.retired = lib.retired
         /\ to.row = [i \in Ids |-> IF i \notin listed THEN lib.row[i]
                                    ELSE IF lib.row[i] = None THEN Inserted(list[i], at)
                                    ELSE Upserted(lib.row[i], list[i], at)]
         /\ to = [row |-> to.row, pending |-> to.pending, history |-> to.history, pin |-> to.pin,
                  retired |-> to.retired]
BY DEF Lib, Rows, Upsert

LEMMA UpsertKeeps ==
  ASSUME NoneIsNothing, BoundsAreNumbers, NEW lib \in Lib, Sound(lib), NEW listed \in SUBSET Ids,
         NEW list, \A i \in listed : list[i] \in Item, NEW at \in 0..MaxTime,
         \A i \in listed : lib.row[i] # None => lib.row[i].work = list[i].work
  PROVE  LET to == Upsert(lib, list, listed, at) IN
         to \in Lib /\ Sound(to) /\ \A w \in Works : KeepsPin(lib, w) => KeepsPin(to, w)
<1> DEFINE to == Upsert(lib, list, listed, at)
<1>1. /\ to.pending = lib.pending /\ to.history = lib.history /\ to.pin = lib.pin
      /\ to.retired = lib.retired
      /\ to.row = [i \in Ids |-> IF i \notin listed THEN lib.row[i]
                                 ELSE IF lib.row[i] = None THEN Inserted(list[i], at)
                                 ELSE Upserted(lib.row[i], list[i], at)]
      /\ to = [row |-> to.row, pending |-> to.pending, history |-> to.history, pin |-> to.pin,
               retired |-> to.retired]
  BY UpsertDoes
<1>2. \A i \in Ids : lib.row[i] \in Row \cup {None}
  BY DEF Lib, Rows
<1>3. ASSUME NEW i \in Ids
      PROVE  /\ to.row[i] \in Row \cup {None}
             /\ lib.row[i] # None => to.row[i] # None /\ to.row[i].work = lib.row[i].work
  <2>1. CASE i \notin listed
    BY <1>1, <1>2, <2>1
  <2>2. CASE i \in listed /\ lib.row[i] = None
    <3>1. list[i] \in Item /\ to.row[i] = Inserted(list[i], at)
      BY <1>1, <2>2
    <3>2. Inserted(list[i], at) \in Row
      BY <3>1 DEF Inserted, Item, Row, BoundsAreNumbers
    <3>3. to.row[i] \in Row
      BY <3>1, <3>2
    <3> HIDE DEF to
    <3> QED BY <2>2, <3>3
  <2>3. CASE i \in listed /\ lib.row[i] # None
    <3>1. lib.row[i] \in Row /\ list[i] \in Item /\ lib.row[i].work = list[i].work
      BY <1>2, <2>3
    <3>2. to.row[i] = Upserted(lib.row[i], list[i], at)
      BY <1>1, <2>3
    <3>3. to.row[i] \in Row /\ to.row[i].work = lib.row[i].work
      BY <3>1, <3>2, UpsertedIsRow
    <3> QED BY <3>3 DEF NoneIsNothing
  <2> QED BY <2>1, <2>2, <2>3
<1>4. to.row \in Rows
  <2>1. to.row = [i \in Ids |-> to.row[i]]
    BY <1>1
  <2> HIDE DEF to
  <2> QED BY <1>3, <2>1 DEF Rows
<1> HIDE DEF to
<1>5. to \in Lib
  BY <1>1, <1>4 DEF Lib
<1>6. Sound(to)
  BY <1>1, <1>3 DEF Sound, IsOf, HangsOn, Lib
<1>7. \A w \in Works : KeepsPin(lib, w) => KeepsPin(to, w)
  BY <1>1 DEF KeepsPin
<1> QED BY <1>5, <1>6, <1>7 DEF to

LEMMA RestoreDoes ==
  ASSUME NEW lib \in Lib
  PROVE  LET to == Restore(lib) IN
         /\ to.pending = lib.pending /\ to.history = lib.history /\ to.row = lib.row
         /\ to.pin = [i \in Ids |-> IF lib.row[i] # None /\ lib.retired[lib.row[i].work] # None
                                      /\ lib.pin[i] = None
                                   THEN lib.retired[lib.row[i].work] ELSE lib.pin[i]]
         /\ to.retired = [w \in Works |-> IF \E i \in Ids : lib.row[i] # None /\ lib.row[i].work = w
                                         THEN None ELSE lib.retired[w]]
         /\ to = [row |-> to.row, pending |-> to.pending, history |-> to.history, pin |-> to.pin,
                  retired |-> to.retired]
<1> DEFINE to == Restore(lib)
           back == {lib.row[i].work : i \in {j \in DOMAIN lib.row : lib.row[j] # None}}
<1>1. DOMAIN lib.row = Ids /\ DOMAIN lib.retired = Works
  BY DEF Lib, Rows
<1>2. lib = [row |-> lib.row, pending |-> lib.pending, history |-> lib.history, pin |-> lib.pin,
             retired |-> lib.retired]
  BY DEF Lib
<1>3. \A w : w \in back <=> \E i \in Ids : lib.row[i] # None /\ lib.row[i].work = w
  BY <1>1
<1> DEFINE pins == [i \in Ids |-> IF lib.row[i] # None /\ lib.retired[lib.row[i].work] # None
                                    /\ lib.pin[i] = None
                                  THEN lib.retired[lib.row[i].work] ELSE lib.pin[i]]
           waiting == [w \in Works |-> IF w \in back THEN None ELSE lib.retired[w]]
<1>4. to = [lib EXCEPT !.pin = pins, !.retired = waiting]
  BY <1>1 DEF Restore
<1> HIDE DEF to, pins, waiting
<1>5. to = [row |-> lib.row, pending |-> lib.pending, history |-> lib.history, pin |-> pins,
            retired |-> waiting]
  BY <1>2, <1>4
<1>6. /\ to.pending = lib.pending /\ to.history = lib.history /\ to.row = lib.row
      /\ to.pin = pins /\ to.retired = waiting
  BY <1>5
<1> HIDE DEF back
<1>8. \A w \in Works : (IF w \in back THEN None ELSE lib.retired[w])
        = (IF \E i \in Ids : lib.row[i] # None /\ lib.row[i].work = w THEN None ELSE lib.retired[w])
  BY <1>3
<1>9. to.retired = [w \in Works |-> IF \E i \in Ids : lib.row[i] # None /\ lib.row[i].work = w
                                  THEN None ELSE lib.retired[w]]
  BY <1>6, <1>8 DEF waiting
<1> QED BY <1>5, <1>6, <1>9 DEF to, pins

LEMMA RestoreKeeps ==
  ASSUME NoneIsNothing, NEW lib \in Lib, Sound(lib)
  PROVE  LET to == Restore(lib) IN
         /\ to \in Lib /\ Sound(to) /\ to.row = lib.row
         /\ \A w \in Works : KeepsPin(lib, w) => KeepsPin(to, w)
<1> DEFINE to == Restore(lib)
<1>1. /\ to.pending = lib.pending /\ to.history = lib.history /\ to.row = lib.row
      /\ to.pin = [i \in Ids |-> IF lib.row[i] # None /\ lib.retired[lib.row[i].work] # None
                                   /\ lib.pin[i] = None
                                THEN lib.retired[lib.row[i].work] ELSE lib.pin[i]]
      /\ to.retired = [w \in Works |-> IF \E i \in Ids : lib.row[i] # None /\ lib.row[i].work = w
                                      THEN None ELSE lib.retired[w]]
      /\ to = [row |-> to.row, pending |-> to.pending, history |-> to.history, pin |-> to.pin,
               retired |-> to.retired]
  BY RestoreDoes
<1> HIDE DEF to
<1>2. \A i \in Ids : lib.row[i] # None => lib.row[i].work \in Works
  BY DEF Lib, Rows, Row
<1>3. ASSUME NEW i \in Ids
      PROVE  to.pin[i] = lib.pin[i] \/ (lib.row[i] # None /\ to.pin[i] = lib.row[i].work)
  BY <1>1, <1>2 DEF Sound
<1>4. to.pin \in Named
  <2>1. \A i \in Ids : to.pin[i] \in Works \cup {None}
    BY <1>2, <1>3 DEF Lib, Named
  <2>2. to.pin = [i \in Ids |-> to.pin[i]]
    BY <1>1
  <2> QED BY <2>1, <2>2 DEF Named
<1>5. to.retired \in [Works -> Works \cup {None}] /\ \A w \in Works : to.retired[w] \in {w, None}
  BY <1>1 DEF Sound, Lib
<1>6. to \in Lib
  BY <1>1, <1>4, <1>5 DEF Lib
<1>7. Sound(to)
  BY <1>1, <1>3, <1>5 DEF Sound, IsOf, HangsOn
<1>8. ASSUME NEW w \in Works, KeepsPin(lib, w) PROVE KeepsPin(to, w)
  <2>1. ASSUME NEW i \in Ids, lib.pin[i] = w PROVE KeepsPin(to, w)
    BY <1>1, <2>1 DEF KeepsPin, NoneIsNothing
  <2>2. ASSUME lib.retired[w] = w, NEW i \in Ids, lib.row[i] # None, lib.row[i].work = w
        PROVE  KeepsPin(to, w)
    <3>1. CASE lib.pin[i] = None
      BY <1>1, <2>2, <3>1 DEF KeepsPin, NoneIsNothing
    <3>2. CASE lib.pin[i] # None
      BY <2>1, <2>2, <3>2 DEF Sound, IsOf
    <3> QED BY <3>1, <3>2
  <2>3. ASSUME lib.retired[w] = w, ~ \E i \in Ids : lib.row[i] # None /\ lib.row[i].work = w
        PROVE  KeepsPin(to, w)
    BY <1>1, <2>3 DEF KeepsPin
  <2> QED BY <1>8, <2>1, <2>2, <2>3 DEF KeepsPin
<1> QED BY <1>1, <1>6, <1>7, <1>8 DEF to

-----------------------------------------------------------------------------
(* The inductive invariant.                                                *)

Reader == [kind: {"idle", "bounded", "asked", "change", "delete"}, phase: {"idle", "began", "read"},
           at: 0..MaxTime, from: Arrs \cup {None}, of: SUBSET Ids, list: [Ids -> Item \cup {None}],
           folders: BOOLEAN, moved: SUBSET Ids]

Types ==
  /\ TypeOK
  /\ arr \in [Arrs -> Listing]
  /\ reader \in [Readers -> Reader]
  /\ moving \in Move \cup {None}
  /\ changedAt \in 0..MaxTime
  /\ pinned \in SUBSET Works

(* What is kept by a row's id is of its title, the move on its way and the *)
(* verdict to store included, and every pin that stands is on a row or     *)
(* waits.                                                                  *)
Hung ==
  /\ Sound(Library)
  /\ \A w \in pinned : KeepsPin(Library, w)
  /\ moving # None /\ moving.attached => HangsOn(Library, moving.id, moving.of)
  /\ simulation # None /\ simulation.of.kept => HangsOn(Library, simulation.id, simulation.of)

Busy(p) == reader[p].phase # "idle"

(* No time is ahead of the clock; a row a move was recorded on since a     *)
(* read began shows it, unless it was written anew.                        *)
InOrder ==
  /\ changedAt <= now
  /\ \A i \in Ids : row[i] # None => row[i].syncedAt <= now /\ row[i].movedAt <= changedAt
  /\ \A p \in Readers : Busy(p) =>
       /\ reader[p].at <= now
       /\ reader[p].from \in Arrs
       /\ \A i \in reader[p].moved : row[i] # None => row[i].movedAt = 0 \/ row[i].movedAt >= reader[p].at
  /\ Busy("sync") => reader["sync"].of = Ids /\ reader["sync"].kind \in {"bounded", "asked"}

Told(held) == [work |-> held.work, tags |-> held.tags, path |-> held.path]

(* What was read or written in a later second than the last change is what *)
(* the Arr the instance is pointed at holds.                               *)
Current(r) == r.phase # "idle" /\ r.at > changedAt =>
  /\ r.from = pointed
  /\ r.phase = "read" => \A i \in r.of : r.list[i] = arr[pointed][i]
Fresh ==
  /\ \A p \in Readers : Current(reader[p])
  /\ \A i \in Ids : row[i] # None /\ row[i].syncedAt > changedAt => arr[pointed][i] = Told(row[i])

Inv == Types /\ Hung /\ InOrder /\ Fresh

LEMMA LibraryIsLib ==
  ASSUME TypeOK PROVE Library \in Lib
BY DEF TypeOK, Library, Lib, Rows, Named, Offered

LEMMA IdleIsReader ==
  ASSUME NoneIsNothing, BoundsAreNumbers PROVE Idle \in Reader
BY DEF Idle, Reader, BoundsAreNumbers

-----------------------------------------------------------------------------
(* What a synchronisation or a delivery writes.                            *)

Others(r) == {i \in Listed(r) : Reassigned(row[i], r.list[i])}

LEMMA WrittenDoes ==
  ASSUME NoneIsNothing, BoundsAreNumbers, Types, Hung, NEW r \in Reader
  PROVE  LET written == Written(r) IN
         /\ written \in Lib /\ Sound(written)
         /\ \A w \in Works : KeepsPin(Library, w) => KeepsPin(written, w)
         /\ \A i \in Ids \ Listed(r) : written.row[i] = row[i]
         /\ \A i \in Listed(r) :
              /\ row[i] = None \/ Reassigned(row[i], r.list[i]) => written.row[i] = Inserted(r.list[i], r.at)
              /\ row[i] # None /\ row[i].work = r.list[i].work
                   => written.row[i] = Upserted(row[i], r.list[i], r.at)
<1> DEFINE other == Others(r)
           fewer == Retire(Library, other)
           more == Upsert(fewer, r.list, Listed(r), r.at)
<1>1. /\ Listed(r) \in SUBSET Ids /\ other \in SUBSET Ids
      /\ r.at \in 0..MaxTime /\ \A i \in Listed(r) : r.list[i] \in Item
  BY DEF Listed, Others, Reader
<1>2. Library \in Lib /\ Sound(Library) /\ Library.row = row
  BY LibraryIsLib DEF Types, Hung, Library
<1>3. fewer \in Lib /\ Sound(fewer) /\ \A w \in Works : KeepsPin(Library, w) => KeepsPin(fewer, w)
  BY <1>1, <1>2, RetireKeeps
<1>4. (\A i \in other : fewer.row[i] = None) /\ \A i \in Ids \ other : fewer.row[i] = row[i]
  BY <1>1, <1>2, RetireDoes
<1> HIDE DEF fewer
<1>5. \A i \in Listed(r) : fewer.row[i] # None => fewer.row[i].work = r.list[i].work
  BY <1>1, <1>4 DEF Others, Reassigned
<1>6. more \in Lib /\ Sound(more) /\ \A w \in Works : KeepsPin(fewer, w) => KeepsPin(more, w)
  BY <1>1, <1>3, <1>5, UpsertKeeps
<1>7. more.row = [i \in Ids |-> IF i \notin Listed(r) THEN fewer.row[i]
                               ELSE IF fewer.row[i] = None THEN Inserted(r.list[i], r.at)
                               ELSE Upserted(fewer.row[i], r.list[i], r.at)]
  BY <1>3, UpsertDoes
<1> HIDE DEF more
<1>8. LET written == Restore(more) IN
      /\ written \in Lib /\ Sound(written) /\ written.row = more.row
      /\ \A w \in Works : KeepsPin(more, w) => KeepsPin(written, w)
  BY <1>6, RestoreKeeps
<1>9. Written(r) = Restore(more)
  BY DEF Written, more, fewer, Others
<1>10. \A i \in Ids \ Listed(r) : more.row[i] = row[i]
  BY <1>4, <1>7 DEF Others
<1>11. ASSUME NEW i \in Listed(r), row[i] = None \/ Reassigned(row[i], r.list[i])
       PROVE  more.row[i] = Inserted(r.list[i], r.at)
  <2>1. fewer.row[i] = None
    BY <1>1, <1>4, <1>11 DEF Others
  <2> QED BY <1>1, <1>7, <2>1
<1>12. ASSUME NEW i \in Listed(r), row[i] # None, row[i].work = r.list[i].work
       PROVE  more.row[i] = Upserted(row[i], r.list[i], r.at)
  <2>1. fewer.row[i] = row[i]
    BY <1>1, <1>4, <1>12 DEF Others, Reassigned
  <2> QED BY <1>1, <1>7, <1>12, <2>1
<1> QED BY <1>3, <1>6, <1>8, <1>9, <1>10, <1>11, <1>12

(* A transaction leaves a row as it was, writes it anew, brings it up to   *)
(* date, or removes it with the move on its way to it detached.            *)
LeftAs(i) == row'[i] = row[i]
WrittenAnew(r, i) ==
  /\ i \in Listed(r) /\ (row[i] = None \/ Reassigned(row[i], r.list[i]))
  /\ row'[i] = Inserted(r.list[i], r.at)
BroughtUpToDate(r, i) ==
  /\ i \in Listed(r) /\ row[i] # None /\ row[i].work = r.list[i].work
  /\ row'[i] = Upserted(row[i], r.list[i], r.at)

Removed(r) == LET gone == Gone(r, Written(r)) IN IF Held(r, gone) THEN {} ELSE gone

LEMMA CommitDoes ==
  ASSUME NoneIsNothing, BoundsAreNumbers, Types, Hung, NEW p \in Readers, Commit(p)
  PROVE  LET r == reader[p] IN
         /\ Library' \in Lib /\ Sound(Library')
         /\ \A w \in Works : KeepsPin(Library, w) => KeepsPin(Library', w)
         /\ Removed(r) \in SUBSET (Ids \ Listed(r))
         /\ \A i \in Removed(r) : row'[i] = None
         /\ \A i \in Ids \ (Listed(r) \cup Removed(r)) : LeftAs(i)
         /\ \A i \in Listed(r) : WrittenAnew(r, i) \/ BroughtUpToDate(r, i)
         /\ Detached(Removed(r) \cup Others(r))
         /\ r.phase = "read" /\ reader' = [reader EXCEPT ![p] = Idle]
         /\ UNCHANGED <<now, arrVars, changes, asked, ghosts>>
<1> DEFINE r == reader[p]
           written == Written(r)
           removed == Removed(r)
<1>1. r \in Reader
  BY DEF Types
<1>2. Commits(Retire(written, removed)) /\ Detached(removed \cup Others(r))
      /\ r.phase = "read" /\ reader' = [reader EXCEPT ![p] = Idle]
      /\ UNCHANGED <<now, arrVars, changes, asked, ghosts>>
  BY DEF Commit, Removed, Others
<1>3. /\ written \in Lib /\ Sound(written)
      /\ \A w \in Works : KeepsPin(Library, w) => KeepsPin(written, w)
      /\ \A i \in Ids \ Listed(r) : written.row[i] = row[i]
      /\ \A i \in Listed(r) :
           /\ row[i] = None \/ Reassigned(row[i], r.list[i]) => written.row[i] = Inserted(r.list[i], r.at)
           /\ row[i] # None /\ row[i].work = r.list[i].work
                => written.row[i] = Upserted(row[i], r.list[i], r.at)
  BY <1>1, WrittenDoes
<1>4. removed \in SUBSET (Ids \ Listed(r))
  <2>1. DOMAIN written.row = Ids
    BY <1>3 DEF Lib, Rows
  <2> HIDE DEF written
  <2>2. Gone(r, written) \in SUBSET (Ids \ Listed(r))
    BY <2>1 DEF Gone
  <2> QED BY <2>2 DEF Removed, written
<1>5. Listed(r) \in SUBSET Ids
  BY <1>1 DEF Listed, Reader
<1> HIDE DEF written, removed, r
<1> DEFINE to == Retire(written, removed)
<1>6. to \in Lib /\ Sound(to) /\ \A w \in Works : KeepsPin(written, w) => KeepsPin(to, w)
  BY <1>3, <1>4, RetireKeeps
<1>7. (\A i \in removed : to.row[i] = None) /\ \A i \in Ids \ removed : to.row[i] = written.row[i]
  BY <1>3, <1>4, RetireDoes
<1>8. Library' = to
  <2>1. to = [row |-> to.row, pending |-> to.pending, history |-> to.history, pin |-> to.pin,
              retired |-> to.retired]
    BY <1>6 DEF Lib
  <2> HIDE DEF to
  <2> QED BY <1>2, <2>1 DEF Commits, Library, to
<1>9. row' = to.row
  BY <1>2 DEF Commits
<1> HIDE DEF to
<1>10. \A i \in Ids \ (Listed(r) \cup removed) : LeftAs(i)
  BY <1>3, <1>7, <1>9 DEF LeftAs
<1>11. ASSUME NEW i \in Listed(r) PROVE WrittenAnew(r, i) \/ BroughtUpToDate(r, i)
  <2>1. row'[i] = written.row[i]
    BY <1>4, <1>5, <1>7, <1>9
  <2> QED BY <1>3, <2>1 DEF WrittenAnew, BroughtUpToDate, Reassigned
<1> QED BY <1>2, <1>3, <1>4, <1>6, <1>7, <1>8, <1>9, <1>10, <1>11 DEF r, removed

-----------------------------------------------------------------------------
(* The types are kept.                                                     *)

(* A read that begins. *)
Begun(r, kind, of) ==
  /\ r.kind = kind /\ r.phase = "began" /\ r.at = now /\ r.from = pointed
  /\ r.of = of /\ r.moved = {} /\ r.folders = TRUE /\ r.list = [i \in Ids |-> None]

LEMMA BegunIsReader ==
  ASSUME NoneIsNothing, BoundsAreNumbers, TypeOK, NEW of \in SUBSET Ids,
         NEW kind \in {"bounded", "asked", "change", "delete"}
  PROVE  LET r == [Idle EXCEPT !.kind = kind, !.phase = "began", !.at = now,
                               !.from = pointed, !.of = of] IN
         r \in Reader /\ Begun(r, kind, of)
<1> DEFINE list == [i \in Ids |-> None]
           idle == Idle
           r == [idle EXCEPT !.kind = kind, !.phase = "began", !.at = now, !.from = pointed, !.of = of]
<1>1. idle \in Reader
  BY IdleIsReader
<1>2. idle = [kind |-> "idle", phase |-> "idle", at |-> 0, from |-> None, of |-> {}, list |-> list,
              folders |-> TRUE, moved |-> {}]
  BY DEF Idle
<1>3. now \in 0..MaxTime /\ pointed \in Arrs
  BY DEF TypeOK, BoundsAreNumbers
<1>4. r = [idle EXCEPT !.kind = kind, !.phase = "began", !.at = now, !.from = pointed, !.of = of]
  OBVIOUS
<1> HIDE DEF list, idle, r
<1>5. /\ r.kind = kind /\ r.phase = "began" /\ r.at = now /\ r.from = pointed /\ r.of = of
      /\ r.list = list /\ r.folders = TRUE /\ r.moved = {}
  BY <1>2, <1>4
<1>6. r \in Reader
  BY <1>1, <1>3, <1>4 DEF Reader
<1>7. Begun(r, kind, of)
  BY <1>5 DEF Begun, list
<1> QED BY <1>6, <1>7 DEF r, idle

LEMMA SyncBeginsDoes ==
  ASSUME NoneIsNothing, BoundsAreNumbers, Types, SyncBegins
  PROVE  /\ reader' \in [Readers -> Reader]
         /\ reader'["delivery"] = reader["delivery"]
         /\ \E kind \in {"bounded", "asked"} : Begun(reader'["sync"], kind, Ids)
         /\ UNCHANGED <<now, arrVars, rowVars, simulation, moving, changes, asked, ghosts>>
<1>1. PICK kind \in {"bounded", "asked"} :
        reader' = [reader EXCEPT !["sync"] =
                     [Idle EXCEPT !.kind = kind, !.phase = "began", !.at = now,
                                  !.from = pointed, !.of = Ids]]
  BY DEF SyncBegins
<1> DEFINE r == [Idle EXCEPT !.kind = kind, !.phase = "began", !.at = now, !.from = pointed, !.of = Ids]
<1>2. r \in Reader /\ Begun(r, kind, Ids)
  BY BegunIsReader DEF Types
<1>3. reader' = [reader EXCEPT !["sync"] = r]
  BY <1>1
<1> HIDE DEF r
<1>4. reader'["sync"] = r /\ reader'["delivery"] = reader["delivery"] /\ reader' \in [Readers -> Reader]
  BY <1>2, <1>3 DEF Types, Readers
<1> QED BY <1>2, <1>4 DEF SyncBegins

LEMMA DeliveryBeginsDoes ==
  ASSUME NoneIsNothing, BoundsAreNumbers, Types, DeliveryBegins
  PROVE  /\ reader' \in [Readers -> Reader]
         /\ reader'["sync"] = reader["sync"]
         /\ \E i \in Ids, kind \in {"change", "delete"} : Begun(reader'["delivery"], kind, {i})
         /\ UNCHANGED <<now, arrVars, rowVars, simulation, moving, changes, asked, ghosts>>
<1>1. PICK i \in Ids, kind \in {"change", "delete"} :
        reader' = [reader EXCEPT !["delivery"] =
                     [Idle EXCEPT !.kind = kind, !.phase = "began", !.at = now,
                                  !.from = pointed, !.of = {i}]]
  BY DEF DeliveryBegins
<1> DEFINE r == [Idle EXCEPT !.kind = kind, !.phase = "began", !.at = now, !.from = pointed, !.of = {i}]
<1>2. r \in Reader /\ Begun(r, kind, {i})
  BY BegunIsReader DEF Types
<1>3. reader' = [reader EXCEPT !["delivery"] = r]
  BY <1>1
<1> HIDE DEF r
<1>4. reader'["delivery"] = r /\ reader'["sync"] = reader["sync"] /\ reader' \in [Readers -> Reader]
  BY <1>2, <1>3 DEF Types, Readers
<1> QED BY <1>2, <1>4 DEF DeliveryBegins

LEMMA ReadsDoes ==
  ASSUME Types, InOrder, NEW p \in Readers, Reads(p)
  PROVE  /\ reader' \in [Readers -> Reader]
         /\ \A q \in Readers \ {p} : reader'[q] = reader[q]
         /\ LET r == reader'[p] IN
            /\ reader[p].phase = "began" /\ r.phase = "read"
            /\ r.kind = reader[p].kind /\ r.at = reader[p].at /\ r.from = reader[p].from
            /\ r.of = reader[p].of /\ r.moved = reader[p].moved
            /\ \A i \in r.of : r.list[i] = arr[r.from][i]
         /\ UNCHANGED <<now, arrVars, rowVars, simulation, moving, changes, asked, ghosts>>
<1>1. PICK folders \in BOOLEAN :
        reader' = [reader EXCEPT ![p].phase = "read", ![p].folders = folders,
                                 ![p].list = [i \in Ids |-> IF i \in reader[p].of
                                                            THEN arr[reader[p].from][i] ELSE None]]
  BY DEF Reads
<1> DEFINE list == [i \in Ids |-> IF i \in reader[p].of THEN arr[reader[p].from][i] ELSE None]
           r == [reader[p] EXCEPT !.phase = "read", !.folders = folders, !.list = list]
<1>2. reader[p] \in Reader /\ reader[p].phase = "began" /\ reader[p].from \in Arrs
  BY DEF Types, Reads, InOrder, Busy
<1>3. list \in [Ids -> Item \cup {None}]
  BY <1>2 DEF Types, Listing
<1>4. \A i \in reader[p].of : list[i] = arr[reader[p].from][i]
  BY <1>2 DEF Reader
<1>5. reader' = [reader EXCEPT ![p] = r]
  BY <1>1
<1> HIDE DEF list
<1>6. r \in Reader
  BY <1>2, <1>3 DEF Reader
<1>7. /\ r.phase = "read" /\ r.list = list /\ r.kind = reader[p].kind /\ r.at = reader[p].at
      /\ r.from = reader[p].from /\ r.of = reader[p].of /\ r.moved = reader[p].moved
  BY <1>2 DEF Reader
<1> HIDE DEF r
<1>8. reader'[p] = r /\ (\A q \in Readers \ {p} : reader'[q] = reader[q]) /\ reader' \in [Readers -> Reader]
  BY <1>5, <1>6 DEF Types
<1> QED BY <1>2, <1>4, <1>7, <1>8 DEF Reads

(* A reader that ends. *)
LEMMA EndsDoes ==
  ASSUME NoneIsNothing, BoundsAreNumbers, Types, NEW p \in Readers, reader' = [reader EXCEPT ![p] = Idle]
  PROVE  /\ reader' \in [Readers -> Reader] /\ reader'[p].phase = "idle"
         /\ \A q \in Readers \ {p} : reader'[q] = reader[q]
<1>1. reader'[p] = Idle /\ \A q \in Readers \ {p} : reader'[q] = reader[q]
  BY DEF Types
<1>2. Idle.phase = "idle"
  BY DEF Idle
<1> QED BY <1>1, <1>2, IdleIsReader DEF Types

LEMMA DeliveryFindsNoneDoes ==
  ASSUME NoneIsNothing, BoundsAreNumbers, Types, Hung, DeliveryFindsNone
  PROVE  /\ Library' \in Lib /\ Sound(Library')
         /\ \A w \in Works : KeepsPin(Library, w) => KeepsPin(Library', w)
         /\ \A i \in Ids : LeftAs(i) \/ row'[i] = None
         /\ \/ UNCHANGED <<simulation, moving>> /\ \A i \in Ids : LeftAs(i)
            \/ /\ Detached(reader["delivery"].of)
               /\ \A i \in Ids \ reader["delivery"].of : LeftAs(i)
         /\ reader["delivery"].phase = "read" /\ reader' = [reader EXCEPT !["delivery"] = Idle]
         /\ UNCHANGED <<now, arrVars, changes, asked, ghosts>>
<1> DEFINE of == reader["delivery"].of
           to == Retire(Library, of)
<1>1. Library \in Lib /\ Sound(Library) /\ of \in SUBSET Ids /\ Library.row = row
  BY LibraryIsLib DEF Types, Hung, Reader, Readers, Library
<1>2. reader["delivery"].phase = "read" /\ reader' = [reader EXCEPT !["delivery"] = Idle]
      /\ UNCHANGED <<now, arrVars, changes, asked, ghosts>>
  BY DEF DeliveryFindsNone
<1>3. CASE UNCHANGED <<rowVars, simulation, moving>>
  <2>1. Library' = Library /\ \A i \in Ids : LeftAs(i)
    BY <1>3 DEF rowVars, Library, LeftAs
  <2> QED BY <1>1, <1>2, <1>3, <2>1
<1>4. CASE Commits(to) /\ Detached(of)
  <2>1. to \in Lib /\ Sound(to) /\ \A w \in Works : KeepsPin(Library, w) => KeepsPin(to, w)
    BY <1>1, RetireKeeps
  <2>2. (\A i \in of : to.row[i] = None) /\ \A i \in Ids \ of : to.row[i] = row[i]
    BY <1>1, RetireDoes
  <2>3. Library' = to
    <3>1. to = [row |-> to.row, pending |-> to.pending, history |-> to.history, pin |-> to.pin,
                retired |-> to.retired]
      BY <2>1 DEF Lib
    <3> HIDE DEF to
    <3> QED BY <1>4, <3>1 DEF Commits, Library, to
  <2>4. row' = to.row
    BY <1>4 DEF Commits
  <2> HIDE DEF to, of
  <2>5. (\A i \in Ids : LeftAs(i) \/ row'[i] = None) /\ \A i \in Ids \ of : LeftAs(i)
    BY <2>2, <2>4 DEF LeftAs
  <2> QED BY <1>2, <1>4, <2>1, <2>3, <2>5 DEF of
<1> QED BY <1>3, <1>4 DEF DeliveryFindsNone

LEMMA LibIsTyped ==
  ASSUME Library' \in Lib
  PROVE  /\ row' \in Rows /\ pending' \in Offered /\ history' \in [Ids -> SUBSET Proposal]
         /\ pin' \in Named /\ retired' \in [Works -> Works \cup {None}]
BY DEF Library, Lib

LEMMA DetachedIsTyped ==
  ASSUME Types, NEW ids \in SUBSET Ids, Detached(ids)
  PROVE  moving' \in Move \cup {None} /\ simulation' \in Simulation \cup {None}
<1>1. moving' \in Move \cup {None}
  BY DEF Detached, Types, Move
<1>2. CASE simulation # None /\ simulation.id \in ids
  <2> DEFINE of == [simulation.of EXCEPT !.kept = FALSE]
  <2>1. simulation' = [simulation EXCEPT !.of = of] /\ simulation \in Simulation
    BY <1>2 DEF Detached, Types, TypeOK
  <2>2. of \in Proposal
    BY <2>1 DEF Simulation, Proposal
  <2> HIDE DEF of
  <2> QED BY <1>1, <2>1, <2>2 DEF Simulation
<1>3. CASE ~ (simulation # None /\ simulation.id \in ids)
  BY <1>1, <1>3 DEF Detached, Types, TypeOK
<1> QED BY <1>2, <1>3

LEMMA MoveSentDoes ==
  ASSUME NoneIsNothing, Types, Hung, NEW i \in Ids, MoveSent(i)
  PROVE  /\ row[i] # None /\ pending[i] \in Proposal
         /\ moving' \in Move /\ moving'.id = i /\ moving'.of = pending[i]
         /\ arr' \in [Arrs -> Listing]
         /\ pending' = [pending EXCEPT ![i] = None] /\ changedAt' = now
         /\ UNCHANGED <<now, pointed, row, history, pin, retired, reader, simulation, changes, pinned>>
<1>1. PICK to \in Folders \ {row[i].path} :
        /\ moving' = [id |-> i, of |-> pending[i], to |-> to, attached |-> TRUE]
        /\ arr' = [arr EXCEPT ![pointed][i].path = to]
  BY DEF MoveSent
<1>2. /\ row[i] # None /\ pending[i] # None /\ arr[pointed][i] # None
      /\ pending' = [pending EXCEPT ![i] = None] /\ changedAt' = now
      /\ UNCHANGED <<now, pointed, row, history, pin, retired, reader, simulation, changes, pinned>>
  BY DEF MoveSent
<1>3. pending[i] \in Proposal
  BY <1>2 DEF Types, TypeOK
<1>4. moving' \in Move /\ moving'.id = i /\ moving'.of = pending[i]
  BY <1>1, <1>3 DEF Move
<1>5. arr' \in [Arrs -> Listing]
  <2> DEFINE held == arr[pointed]
             item == [held[i] EXCEPT !.path = to]
             l == [held EXCEPT ![i] = item]
  <2>1. held \in Listing /\ held[i] \in Item
    BY <1>2 DEF Types, TypeOK, Listing
  <2>2. item \in Item /\ item.work = held[i].work
    BY <1>1, <2>1 DEF Item
  <2>3. arr' = [arr EXCEPT ![pointed] = l]
    BY <1>1
  <2> HIDE DEF item, held
  <2>4. l \in [Ids -> Item \cup {None}]
    BY <2>1, <2>2 DEF Listing
  <2>5. \A j \in Ids : l[j] # None => held[j] # None /\ l[j].work = held[j].work
    BY <1>2, <2>1, <2>2 DEF Listing, held
  <2> HIDE DEF l
  <2>6. l \in Listing
    BY <2>1, <2>4, <2>5 DEF Listing
  <2> QED BY <2>3, <2>6 DEF Types, TypeOK
<1> QED BY <1>1, <1>2, <1>3, <1>4, <1>5

LEMMA MoveRecordedDoes ==
  ASSUME NoneIsNothing, BoundsAreNumbers, Types, Hung, MoveRecorded
  PROVE  LET of == moving.id IN
         /\ moving # None /\ of \in Ids /\ moving.of \in Proposal
         /\ \A i \in Ids \ {of} : LeftAs(i)
         /\ row[of] = None => row'[of] = None
         /\ row[of] # None => /\ row'[of] \in Row /\ row'[of].work = row[of].work
                              /\ row'[of].movedAt = now /\ row'[of].syncedAt = row[of].syncedAt
         /\ row' \in Rows
         /\ pending' = [pending EXCEPT ![of] = None]
         /\ history' = (IF moving.attached THEN [history EXCEPT ![of] = @ \cup {moving.of}] ELSE history)
         /\ reader' \in [Readers -> Reader]
         /\ \A p \in Readers : /\ reader'[p].moved \subseteq reader[p].moved \cup {of}
                               /\ reader'[p].phase = reader[p].phase /\ reader'[p].at = reader[p].at
                               /\ reader'[p].from = reader[p].from /\ reader'[p].of = reader[p].of
                               /\ reader'[p].kind = reader[p].kind /\ reader'[p].list = reader[p].list
         /\ moving' = None /\ changedAt' = now
         /\ UNCHANGED <<now, arrVars, pin, retired, simulation, changes, asked, pinned>>
<1> DEFINE of == moving.id
<1>1. moving # None /\ of \in Ids /\ moving.of \in Proposal
  BY DEF MoveRecorded, Types, Move
<1>2. /\ row' = (IF row[of] = None THEN row
                 ELSE [row EXCEPT ![of].path = moving.to, ![of].movedAt = now])
      /\ reader' = [p \in Readers |-> IF reader[p] = Idle THEN Idle
                                      ELSE [reader[p] EXCEPT !.moved = @ \cup {of}]]
      /\ pending' = [pending EXCEPT ![of] = None]
      /\ history' = (IF moving.attached THEN [history EXCEPT ![of] = @ \cup {moving.of}] ELSE history)
      /\ moving' = None /\ changedAt' = now
      /\ UNCHANGED <<now, arrVars, pin, retired, simulation, changes, asked, pinned>>
  BY DEF MoveRecorded
<1>3. /\ row' \in Rows /\ (\A i \in Ids \ {of} : LeftAs(i))
      /\ row[of] = None => row'[of] = None
      /\ row[of] # None => /\ row'[of] \in Row /\ row'[of].work = row[of].work
                           /\ row'[of].movedAt = now /\ row'[of].syncedAt = row[of].syncedAt
  <2>1. CASE row[of] = None
    BY <1>1, <1>2, <2>1 DEF Types, TypeOK, Rows, LeftAs
  <2>2. CASE row[of] # None
    <3> DEFINE held == [row[of] EXCEPT !.path = moving.to, !.movedAt = now]
    <3>1. row[of] \in Row /\ row \in Rows /\ moving.to \in Folders /\ now \in 0..MaxTime
      BY <1>1, <2>2 DEF Types, TypeOK, Rows, Move, BoundsAreNumbers
    <3>2. held \in Row /\ held.work = row[of].work /\ held.movedAt = now /\ held.syncedAt = row[of].syncedAt
      BY <3>1 DEF Row
    <3>3. row' = [row EXCEPT ![of] = held]
      BY <1>2, <2>2
    <3> HIDE DEF held, of
    <3> QED BY <1>1, <2>2, <3>1, <3>2, <3>3 DEF Rows, LeftAs
  <2> QED BY <2>1, <2>2
<1>4. ASSUME NEW p \in Readers
      PROVE  /\ reader'[p] \in Reader
             /\ reader'[p].moved \subseteq reader[p].moved \cup {of}
             /\ reader'[p].phase = reader[p].phase /\ reader'[p].at = reader[p].at
             /\ reader'[p].from = reader[p].from /\ reader'[p].of = reader[p].of
             /\ reader'[p].kind = reader[p].kind /\ reader'[p].list = reader[p].list
  <2>1. CASE reader[p] = Idle
    BY <1>2, <2>1 DEF Types
  <2>2. CASE reader[p] # Idle
    <3>1. reader'[p] = [reader[p] EXCEPT !.moved = @ \cup {of}] /\ reader[p] \in Reader
      BY <1>2, <2>2 DEF Types
    <3> HIDE DEF of
    <3> QED BY <1>1, <3>1 DEF Reader
  <2> QED BY <2>1, <2>2
<1>5. reader' \in [Readers -> Reader]
  BY <1>2, <1>4
<1> HIDE DEF of
<1> QED BY <1>1, <1>2, <1>3, <1>4, <1>5 DEF of

LEMMA TypesKept ==
  ASSUME NoneIsNothing, BoundsAreNumbers, Inv, Next
  PROVE  Types'
<1> USE DEF Inv
<1>1. TypeOK /\ now \in 0..MaxTime
  BY DEF Types, TypeOK, BoundsAreNumbers
<1>2. CASE SyncBegins
  BY <1>2, SyncBeginsDoes DEF Types, TypeOK, arrVars, rowVars, ghosts
<1>3. CASE DeliveryBegins
  BY <1>3, DeliveryBeginsDoes DEF Types, TypeOK, arrVars, rowVars, ghosts
<1>4. ASSUME NEW p \in Readers, Reads(p) PROVE Types'
  BY <1>4, ReadsDoes DEF Types, TypeOK, arrVars, rowVars, ghosts
<1>5. ASSUME NEW p \in Readers, Fails(p) PROVE Types'
  BY <1>5, EndsDoes DEF Fails, Types, TypeOK, arrVars, rowVars, ghosts
<1>6. ASSUME NEW p \in Readers, Commit(p) PROVE Types'
  <2> DEFINE r == reader[p]
             gone == Removed(r) \cup Others(r)
  <2>1. /\ Library' \in Lib /\ Detached(gone) /\ Removed(r) \in SUBSET Ids
        /\ reader' = [reader EXCEPT ![p] = Idle]
        /\ UNCHANGED <<now, arrVars, changes, asked, ghosts>>
    BY <1>6, CommitDoes
  <2>2. gone \in SUBSET Ids
    BY <2>1 DEF Others, Listed, Types, Reader
  <2> HIDE DEF gone
  <2>3. moving' \in Move \cup {None} /\ simulation' \in Simulation \cup {None}
    BY <2>1, <2>2, DetachedIsTyped
  <2> QED BY <2>1, <2>3, LibIsTyped, EndsDoes DEF Types, TypeOK, Rows, Named, Offered, arrVars, ghosts
<1>7. CASE DeliveryFindsNone
  <2>1. /\ Library' \in Lib
        /\ UNCHANGED <<simulation, moving>> \/ Detached(reader["delivery"].of)
        /\ reader' = [reader EXCEPT !["delivery"] = Idle]
        /\ UNCHANGED <<now, arrVars, changes, asked, ghosts>>
    BY <1>7, DeliveryFindsNoneDoes
  <2>2. moving' \in Move \cup {None} /\ simulation' \in Simulation \cup {None}
    <3>1. reader["delivery"].of \in SUBSET Ids
      BY DEF Types, Reader, Readers
    <3> QED BY <2>1, <3>1, DetachedIsTyped DEF Types, TypeOK
  <2>3. reader' \in [Readers -> Reader]
    BY <2>1, EndsDoes DEF Readers
  <2> QED BY <2>1, <2>2, <2>3, LibIsTyped DEF Types, TypeOK, Rows, Named, Offered, arrVars, ghosts
<1>8. ASSUME NEW i \in Ids, SimulationReads(i) PROVE Types'
  <2>1. row[i].work \in Works
    BY <1>1, <1>8 DEF SimulationReads, TypeOK, Row
  <2>2. simulation' \in Simulation
    BY <1>8, <2>1 DEF SimulationReads, Simulation, Proposal
  <2> QED BY <1>8, <2>2 DEF SimulationReads, Types, TypeOK, arrVars, rowVars, ghosts
<1>16. CASE SimulationStores
  <2>1. simulation.of \in Proposal /\ simulation' = None
    BY <1>1, <1>16 DEF SimulationStores, TypeOK, Simulation
  <2>2. pending' \in [Ids -> Proposal \cup {None}]
    BY <1>1, <1>16, <2>1 DEF SimulationStores, TypeOK
  <2> QED BY <1>16, <2>1, <2>2 DEF SimulationStores, Types, TypeOK, arrVars, ghosts
<1>9. ASSUME NEW i \in Ids, MoveSent(i) PROVE Types'
  BY <1>1, <1>9, MoveSentDoes DEF Types, TypeOK
<1>10. ASSUME NEW i \in Ids, Pin(i) PROVE Types'
  <2>1. row[i].work \in Works
    BY <1>1, <1>10 DEF Pin, TypeOK, Row
  <2> QED BY <1>10, <2>1 DEF Pin, Types, TypeOK, arrVars
<1>11. ASSUME NEW i \in Ids, Unpin(i) PROVE Types'
  BY <1>11 DEF Unpin, Types, TypeOK, arrVars
<1>12. CASE MoveRecorded
  <2>1. /\ row' \in Rows /\ moving.id \in Ids /\ moving.of \in Proposal
        /\ pending' = [pending EXCEPT ![moving.id] = None]
        /\ history' \in {history, [history EXCEPT ![moving.id] = @ \cup {moving.of}]}
        /\ reader' \in [Readers -> Reader] /\ moving' = None /\ changedAt' = now
        /\ UNCHANGED <<now, arrVars, pin, retired, simulation, changes, asked, pinned>>
    BY <1>12, MoveRecordedDoes
  <2> QED BY <1>1, <2>1 DEF Types, TypeOK, Rows, arrVars
<1>13. ASSUME NEW a \in Arrs, Point(a) PROVE Types'
  BY <1>1, <1>13 DEF Point, Types, TypeOK
<1>14. CASE ArrChanges
  BY <1>1, <1>14 DEF ArrChanges, Types, TypeOK, rowVars
<1>15. CASE Tick
  BY <1>15 DEF Tick, Types, TypeOK, BoundsAreNumbers, arrVars, rowVars, ghosts
<1> QED BY <1>2, <1>3, <1>4, <1>5, <1>6, <1>7, <1>8, <1>9, <1>10, <1>11, <1>12, <1>13, <1>14, <1>15,
        <1>16 DEF Next

-----------------------------------------------------------------------------
(* What hangs on a row stays of its title.                                 *)

LEMMA HungStays ==
  ASSUME Hung, UNCHANGED <<row, pending, history, pin, retired, simulation, moving, pinned>>
  PROVE  Hung'
BY DEF Hung, Sound, IsOf, HangsOn, KeepsPin, Library

(* A transaction detaches the move on its way to a row it removes, and a   *)
(* simulation that read that row is of a title that did not keep it.       *)
LEMMA HungWritten ==
  ASSUME NoneIsNothing, Types, Hung, NEW gone \in SUBSET Ids, Sound(Library'), pinned' = pinned,
         \A w \in Works : KeepsPin(Library, w) => KeepsPin(Library', w),
         \A i \in Ids \ gone : row[i] # None => row'[i] # None /\ row'[i].work = row[i].work,
         Detached(gone)
  PROVE  Hung'
<1>1. Sound(Library)'
  BY DEF Sound, IsOf, HangsOn, Library
<1>2. \A w \in pinned' : KeepsPin(Library, w)'
  BY DEF Hung, Types, KeepsPin, Library
<1>3. ASSUME NEW i \in Ids \ gone, NEW of \in Proposal, HangsOn(Library, i, of)
      PROVE  HangsOn(Library, i, of)'
  BY <1>3 DEF HangsOn, Library, NoneIsNothing
<1>4. ASSUME moving' # None, moving'.attached PROVE HangsOn(Library, moving.id, moving.of)'
  <2>1. CASE moving # None /\ moving.id \in gone
    <3>1. moving \in Move /\ moving' = [moving EXCEPT !.attached = FALSE]
      BY <2>1 DEF Types, Detached
    <3>2. moving'.attached = FALSE
      BY <3>1 DEF Move
    <3> QED BY <1>4, <3>2
  <2>2. CASE ~ (moving # None /\ moving.id \in gone)
    <3>1. moving' = moving /\ moving # None /\ moving.id \in Ids \ gone /\ moving.of \in Proposal
      BY <1>4, <2>2 DEF Types, Move, Detached
    <3>2. HangsOn(Library, moving.id, moving.of)
      BY <1>4, <3>1 DEF Hung
    <3> QED BY <1>3, <3>1, <3>2 DEF HangsOn, Library
  <2> QED BY <2>1, <2>2
<1>5. ASSUME simulation' # None, simulation'.of.kept
      PROVE  HangsOn(Library, simulation.id, simulation.of)'
  <2>1. CASE simulation # None /\ simulation.id \in gone
    <3> DEFINE of == [simulation.of EXCEPT !.kept = FALSE]
    <3>1. simulation \in Simulation /\ simulation' = [simulation EXCEPT !.of = of]
      BY <2>1 DEF Types, TypeOK, Detached
    <3>2. of.kept = FALSE
      BY <3>1 DEF Simulation, Proposal
    <3> HIDE DEF of
    <3>3. simulation'.of = of
      BY <3>1 DEF Simulation
    <3> QED BY <1>5, <3>2, <3>3
  <2>2. CASE ~ (simulation # None /\ simulation.id \in gone)
    <3>1. /\ simulation' = simulation /\ simulation # None
          /\ simulation.id \in Ids \ gone /\ simulation.of \in Proposal
      BY <1>5, <2>2 DEF Types, TypeOK, Simulation, Detached
    <3>2. HangsOn(Library, simulation.id, simulation.of)
      BY <1>5, <3>1 DEF Hung
    <3> QED BY <1>3, <3>1, <3>2 DEF HangsOn, Library
  <2> QED BY <2>1, <2>2
<1> QED BY <1>1, <1>2, <1>4, <1>5 DEF Hung

LEMMA HungKept ==
  ASSUME NoneIsNothing, BoundsAreNumbers, Inv, Next
  PROVE  Hung'
<1> USE DEF Inv
<1>1. /\ \A i \in Ids : /\ pin[i] # None => row[i] # None /\ row[i].work = pin[i]
                        /\ HangsOn(Library, i, pending[i])
                        /\ \A of \in history[i] : HangsOn(Library, i, of)
      /\ \A w \in Works : retired[w] \in {w, None}
      /\ \A w \in pinned : w \in Works /\ (retired[w] = w \/ \E i \in Ids : pin[i] = w)
      /\ moving # None /\ moving.attached => HangsOn(Library, moving.id, moving.of)
      /\ simulation # None /\ simulation.of.kept => HangsOn(Library, simulation.id, simulation.of)
  BY DEF Hung, Sound, IsOf, KeepsPin, Library, Types
<1>2. /\ pin \in Named /\ pending \in Offered /\ history \in [Ids -> SUBSET Proposal]
      /\ \A i \in Ids : row[i] # None => row[i].work \in Works /\ row[i].work # None
      /\ \A i \in Ids, of \in Proposal :
           HangsOn(Library, i, of) <=> row[i] # None /\ (of.kept => row[i].work = of.work)
      /\ \A i \in Ids : HangsOn(Library, i, None)
  BY DEF Types, TypeOK, Named, Offered, Row, NoneIsNothing, HangsOn, Library
<1>3. ASSUME SyncBegins \/ DeliveryBegins \/ Tick \/ ArrChanges \/ \E p \in Readers : Reads(p) \/ Fails(p)
      PROVE  Hung'
  <2>1. UNCHANGED <<row, pending, history, pin, retired, simulation, moving, pinned>>
    BY <1>3 DEF SyncBegins, DeliveryBegins, Tick, ArrChanges, Reads, Fails, rowVars, ghosts
  <2> QED BY <2>1, HungStays
<1>4. ASSUME NEW p \in Readers, Commit(p) PROVE Hung'
  <2> DEFINE r == reader[p]
             gone == Removed(r) \cup Others(r)
  <2>1. /\ Library' \in Lib /\ Sound(Library')
        /\ \A w \in Works : KeepsPin(Library, w) => KeepsPin(Library', w)
        /\ Removed(r) \in SUBSET (Ids \ Listed(r))
        /\ \A i \in Removed(r) : row'[i] = None
        /\ \A i \in Ids \ (Listed(r) \cup Removed(r)) : LeftAs(i)
        /\ \A i \in Listed(r) : WrittenAnew(r, i) \/ BroughtUpToDate(r, i)
        /\ Detached(gone)
        /\ UNCHANGED ghosts
    BY <1>4, CommitDoes
  <2>2. r \in Reader /\ Listed(r) \in SUBSET Ids
    BY DEF Types, Listed, Reader
  <2>3. gone \in SUBSET Ids
    BY <2>1, <2>2 DEF Others
  <2> HIDE DEF r
  <2>4. ASSUME NEW i \in Ids \ gone, row[i] # None
        PROVE  row'[i] # None /\ row'[i].work = row[i].work
    <3>1. CASE i \notin Listed(r)
      BY <2>1, <2>4, <3>1 DEF LeftAs
    <3>2. CASE i \in Listed(r)
      <4>1. BroughtUpToDate(r, i)
        BY <2>1, <2>4, <3>2 DEF WrittenAnew, Others
      <4>2. r.list[i] \in Item /\ r.at \in 0..MaxTime /\ row[i] \in Row
        BY <2>2, <2>4, <3>2 DEF Listed, Reader, Types, TypeOK
      <4>3. row'[i] \in Row /\ row'[i].work = row[i].work
        BY <4>1, <4>2, UpsertedIsRow DEF BroughtUpToDate
      <4> QED BY <4>3 DEF NoneIsNothing
    <3> QED BY <3>1, <3>2
  <2> HIDE DEF gone
  <2> QED BY <2>1, <2>3, <2>4, HungWritten DEF ghosts
<1>5. CASE DeliveryFindsNone
  <2> DEFINE of == reader["delivery"].of
  <2>1. /\ Sound(Library') /\ UNCHANGED ghosts
        /\ \A w \in Works : KeepsPin(Library, w) => KeepsPin(Library', w)
        /\ \/ UNCHANGED <<simulation, moving>> /\ \A i \in Ids : LeftAs(i)
           \/ /\ Detached(of)
              /\ \A i \in Ids \ of : LeftAs(i)
    BY <1>5, DeliveryFindsNoneDoes
  <2>2. of \in SUBSET Ids
    BY DEF Types, Reader, Readers
  <2> HIDE DEF of
  <2>3. \E gone \in SUBSET Ids :
          /\ \A i \in Ids \ gone : row[i] # None => row'[i] # None /\ row'[i].work = row[i].work
          /\ Detached(gone)
    <3>1. CASE UNCHANGED <<simulation, moving>> /\ \A i \in Ids : LeftAs(i)
      <4> WITNESS {} \in SUBSET Ids
      <4> QED BY <3>1 DEF LeftAs, Detached
    <3>2. CASE /\ Detached(of)
               /\ \A i \in Ids \ of : LeftAs(i)
      BY <2>2, <3>2 DEF LeftAs
    <3> QED BY <2>1, <3>1, <3>2
  <2> QED BY <2>1, <2>3, HungWritten DEF ghosts
<1>6. ASSUME NEW i \in Ids, SimulationReads(i) PROVE Hung'
  <2>1. /\ row[i] # None /\ simulation' = [id |-> i, of |-> [work |-> row[i].work, kept |-> TRUE]]
        /\ UNCHANGED <<row, pending, history, pin, retired, moving, pinned>>
    BY <1>6 DEF SimulationReads, rowVars, ghosts
  <2> QED BY <1>1, <2>1 DEF Hung, Sound, IsOf, HangsOn, KeepsPin, Library
<1>12. CASE SimulationStores
  <2>1. /\ simulation # None /\ simulation' = None
        /\ UNCHANGED <<row, history, pin, retired, moving, pinned>>
        /\ \/ pending' = pending
           \/ /\ row[simulation.id] # None
              /\ \E proposed \in {simulation.of, None} :
                   pending' = [pending EXCEPT ![simulation.id] = proposed]
    BY <1>12 DEF SimulationStores, ghosts
  <2>2. simulation.id \in Ids /\ simulation.of \in Proposal
    BY <2>1 DEF Types, TypeOK, Simulation
  <2>3. row[simulation.id] # None => HangsOn(Library, simulation.id, simulation.of)
    BY <1>1, <1>2, <2>1, <2>2
  <2>4. ASSUME NEW i \in Ids PROVE HangsOn(Library, i, pending'[i])
    BY <1>1, <1>2, <2>1, <2>2, <2>3 DEF Offered
  <2> QED BY <1>1, <2>1, <2>4 DEF Hung, Sound, IsOf, HangsOn, KeepsPin, Library
<1>7. ASSUME NEW i \in Ids, MoveSent(i) PROVE Hung'
  <2>1. /\ row[i] # None /\ pending[i] \in Proposal
        /\ moving' \in Move /\ moving'.id = i /\ moving'.of = pending[i]
        /\ pending' = [pending EXCEPT ![i] = None]
        /\ UNCHANGED <<row, history, pin, retired, simulation, pinned>>
    BY <1>7, MoveSentDoes
  <2> QED BY <1>1, <1>2, <2>1 DEF Hung, Sound, IsOf, HangsOn, KeepsPin, Library, Offered
<1>8. ASSUME NEW i \in Ids, Pin(i) PROVE Hung'
  <2>1. /\ row[i] # None /\ pin[i] = None /\ pin' = [pin EXCEPT ![i] = row[i].work]
        /\ pending' = [pending EXCEPT ![i] = None] /\ pinned' = pinned \cup {row[i].work}
        /\ UNCHANGED <<row, history, retired, simulation, moving>>
    BY <1>8 DEF Pin
  <2>2. \A w \in pinned' : KeepsPin(Library, w)'
    BY <1>1, <1>2, <2>1 DEF KeepsPin, Library, Named, NoneIsNothing
  <2>3. \A j \in Ids : pending'[j] \in {pending[j], None}
    BY <1>2, <2>1 DEF Offered
  <2> QED BY <1>1, <1>2, <2>1, <2>2, <2>3 DEF Hung, Sound, IsOf, HangsOn, Library, Named
<1>9. ASSUME NEW i \in Ids, Unpin(i) PROVE Hung'
  <2>1. /\ pin' = [pin EXCEPT ![i] = None]
        /\ pending' = [pending EXCEPT ![i] = None] /\ pinned' = pinned \ {pin[i]}
        /\ UNCHANGED <<row, history, retired, simulation, moving>>
    BY <1>9 DEF Unpin
  <2>2. \A w \in pinned' : KeepsPin(Library, w)'
    BY <1>1, <1>2, <2>1 DEF KeepsPin, Library, Named
  <2>3. \A j \in Ids : pending'[j] \in {pending[j], None}
    BY <1>2, <2>1 DEF Offered
  <2> QED BY <1>1, <1>2, <2>1, <2>2, <2>3 DEF Hung, Sound, IsOf, HangsOn, Library, Named
<1>10. CASE MoveRecorded
  <2> DEFINE of == moving.id
  <2>1. /\ moving # None /\ of \in Ids /\ moving.of \in Proposal
        /\ \A i \in Ids \ {of} : LeftAs(i)
        /\ row[of] # None => row'[of] \in Row /\ row'[of].work = row[of].work
        /\ pending' = [pending EXCEPT ![of] = None]
        /\ history' = (IF moving.attached THEN [history EXCEPT ![of] = @ \cup {moving.of}] ELSE history)
        /\ moving' = None /\ UNCHANGED <<pin, retired, simulation, pinned>>
    BY <1>10, MoveRecordedDoes
  <2>2. \A i \in Ids : row[i] # None => row'[i] # None /\ row'[i].work = row[i].work
    BY <2>1 DEF LeftAs, NoneIsNothing
  <2> HIDE DEF of
  <2>3. ASSUME NEW i \in Ids
        PROVE  \/ history'[i] = history[i]
               \/ i = of /\ moving.attached /\ history'[i] = history[i] \cup {moving.of}
    <3>1. CASE moving.attached
      BY <1>2, <2>1, <3>1
    <3>2. CASE ~ moving.attached
      BY <2>1, <3>2
    <3> QED BY <3>1, <3>2
  <2>4. \A i \in Ids : pending'[i] \in {pending[i], None}
    BY <1>2, <2>1 DEF Offered
  <2>5. \A i \in Ids : \A p \in history'[i] : HangsOn(Library, i, p)'
    BY <1>1, <2>1, <2>2, <2>3 DEF of, HangsOn, Library
  <2>6. Sound(Library)'
    BY <1>1, <2>1, <2>2, <2>4, <2>5 DEF Sound, IsOf, HangsOn, Library
  <2>7. \A w \in pinned' : KeepsPin(Library, w)'
    BY <1>1, <2>1 DEF KeepsPin, Library
  <2>8. simulation' # None /\ simulation'.of.kept => HangsOn(Library, simulation.id, simulation.of)'
    <3>1. simulation # None => simulation.id \in Ids
      BY DEF Types, TypeOK, Simulation
    <3> QED BY <1>1, <2>1, <2>2, <3>1 DEF HangsOn, Library
  <2> QED BY <2>1, <2>6, <2>7, <2>8 DEF Hung
<1>11. ASSUME NEW a \in Arrs, Point(a) PROVE Hung'
  <2>1. pending' = [i \in Ids |-> None] /\ UNCHANGED <<row, history, pin, retired, simulation, moving, pinned>>
    BY <1>11 DEF Point
  <2> QED BY <1>1, <2>1 DEF Hung, Sound, IsOf, HangsOn, KeepsPin, Library
<1> QED BY <1>3, <1>4, <1>5, <1>6, <1>7, <1>8, <1>9, <1>10, <1>11, <1>12 DEF Next

-----------------------------------------------------------------------------
(* No time is ahead of the clock.                                          *)

LEMMA BroughtIsRow ==
  ASSUME Types, NEW r \in Reader, NEW i \in Ids, BroughtUpToDate(r, i)
  PROVE  /\ row[i] \in Row /\ r.list[i] \in Item /\ r.at \in 0..MaxTime
         /\ row'[i] \in Row /\ row'[i].work = row[i].work /\ row'[i].movedAt = row[i].movedAt
         /\ PathStands(row[i], r.at) => row'[i].path = row[i].path
         /\ \/ row'[i] = row[i] /\ row[i].syncedAt > r.at
            \/ /\ row'[i].tags = r.list[i].tags
               /\ ~ PathStands(row[i], r.at) => row'[i].path = r.list[i].path
         /\ row'[i] = row[i] \/ row'[i].syncedAt = r.at
<1>1. row[i] \in Row /\ r.list[i] \in Item /\ r.at \in 0..MaxTime /\ row[i].work = r.list[i].work
      /\ row'[i] = Upserted(row[i], r.list[i], r.at)
  BY DEF BroughtUpToDate, Listed, Reader, Types, TypeOK
<1> QED BY <1>1, UpsertedIsRow

LEMMA InOrderStays ==
  ASSUME InOrder, UNCHANGED <<now, row, reader, changedAt>>
  PROVE  InOrder'
BY DEF InOrder, Busy

LEMMA InOrderKept ==
  ASSUME NoneIsNothing, BoundsAreNumbers, Inv, Next
  PROVE  InOrder'
<1> USE DEF Inv
<1>1. /\ now \in Nat /\ changedAt \in Nat /\ changedAt <= now
      /\ \A i \in Ids : row[i] # None =>
           /\ row[i].syncedAt \in Nat /\ row[i].movedAt \in Nat
           /\ row[i].syncedAt <= now /\ row[i].movedAt <= changedAt
      /\ \A p \in Readers : reader[p].at \in Nat
  BY DEF InOrder, Types, TypeOK, Row, Reader, BoundsAreNumbers
<1>2. ASSUME NEW p \in Readers, Begun(reader'[p], reader'[p].kind, reader'[p].of),
             \A q \in Readers \ {p} : reader'[q] = reader[q],
             p = "sync" => reader'[p].of = Ids /\ reader'[p].kind \in {"bounded", "asked"},
             UNCHANGED <<now, row, pointed, changedAt>>
      PROVE  InOrder'
  BY <1>1, <1>2 DEF InOrder, Busy, Begun, Types, TypeOK, Readers
<1>3. CASE SyncBegins
  <2>1. /\ reader'["delivery"] = reader["delivery"]
        /\ \E kind \in {"bounded", "asked"} : Begun(reader'["sync"], kind, Ids)
        /\ UNCHANGED <<now, row, pointed, changedAt>>
    BY <1>3, SyncBeginsDoes DEF rowVars, arrVars, ghosts
  <2>2. /\ reader'["sync"].of = Ids /\ reader'["sync"].kind \in {"bounded", "asked"}
        /\ Begun(reader'["sync"], reader'["sync"].kind, reader'["sync"].of)
    BY <2>1 DEF Begun
  <2>3. \A q \in Readers \ {"sync"} : reader'[q] = reader[q]
    BY <2>1 DEF Readers
  <2>4. "sync" \in Readers
    BY DEF Readers
  <2> QED BY <1>2, <2>1, <2>2, <2>3, <2>4
<1>4. CASE DeliveryBegins
  <2>1. /\ reader'["sync"] = reader["sync"]
        /\ \E i \in Ids, kind \in {"change", "delete"} : Begun(reader'["delivery"], kind, {i})
        /\ UNCHANGED <<now, row, pointed, changedAt>>
    BY <1>4, DeliveryBeginsDoes DEF rowVars, arrVars, ghosts
  <2>2. Begun(reader'["delivery"], reader'["delivery"].kind, reader'["delivery"].of)
    BY <2>1 DEF Begun
  <2>3. \A q \in Readers \ {"delivery"} : reader'[q] = reader[q]
    BY <2>1 DEF Readers
  <2>4. "delivery" \in Readers /\ "delivery" # "sync"
    BY DEF Readers
  <2> QED BY <1>2, <2>1, <2>2, <2>3, <2>4
<1>5. ASSUME NEW p \in Readers, Reads(p) PROVE InOrder'
  <2>1. /\ \A q \in Readers \ {p} : reader'[q] = reader[q]
        /\ reader[p].phase = "began"
        /\ reader'[p].kind = reader[p].kind /\ reader'[p].at = reader[p].at
        /\ reader'[p].from = reader[p].from /\ reader'[p].of = reader[p].of
        /\ reader'[p].moved = reader[p].moved
        /\ UNCHANGED <<now, row, changedAt>>
    BY <1>5, ReadsDoes DEF rowVars, ghosts
  <2> QED BY <2>1 DEF InOrder, Busy, Readers
<1>6. ASSUME NEW p \in Readers, reader'[p].phase = "idle", \A q \in Readers \ {p} : reader'[q] = reader[q],
             UNCHANGED <<now, changedAt>>,
             \A i \in Ids : \/ row'[i] = row[i] \/ row'[i] = None
                            \/ row'[i].movedAt = 0 /\ row'[i].syncedAt <= now
                            \/ row[i] # None /\ row'[i].movedAt = row[i].movedAt /\ row'[i].syncedAt <= now
      PROVE  InOrder'
  <2>1. \A i \in Ids : row'[i] # None =>
          /\ row'[i].syncedAt <= now /\ row'[i].movedAt <= changedAt
          /\ row'[i].movedAt = 0 \/ (row[i] # None /\ row'[i].movedAt = row[i].movedAt)
    BY <1>1, <1>6
  <2>2. \A q \in Readers : reader'[q].moved \in SUBSET Ids
    BY TypesKept DEF Types, Reader
  <2> QED BY <1>1, <1>6, <2>1, <2>2 DEF InOrder, Busy, Readers
<1>7. ASSUME NEW p \in Readers, Fails(p) PROVE InOrder'
  <2>1. /\ reader' = [reader EXCEPT ![p] = Idle] /\ UNCHANGED <<now, row, changedAt>>
    BY <1>7 DEF Fails, rowVars, ghosts
  <2>2. reader'[p].phase = "idle" /\ \A q \in Readers \ {p} : reader'[q] = reader[q]
    BY <2>1, EndsDoes
  <2> QED BY <1>6, <2>1, <2>2
<1>8. ASSUME NEW p \in Readers, Commit(p) PROVE InOrder'
  <2> DEFINE r == reader[p]
  <2>1. /\ \A i \in Removed(r) : row'[i] = None
        /\ \A i \in Ids \ (Listed(r) \cup Removed(r)) : LeftAs(i)
        /\ \A i \in Listed(r) : WrittenAnew(r, i) \/ BroughtUpToDate(r, i)
        /\ r.phase = "read" /\ reader' = [reader EXCEPT ![p] = Idle]
        /\ UNCHANGED <<now, arrVars, changes, asked, ghosts>>
    BY <1>8, CommitDoes
  <2>2. r \in Reader /\ r.at <= now
    BY <2>1 DEF Types, InOrder, Busy
  <2>3. reader'[p].phase = "idle" /\ \A q \in Readers \ {p} : reader'[q] = reader[q]
    BY <2>1, EndsDoes
  <2> HIDE DEF r
  <2>4. ASSUME NEW i \in Ids
        PROVE  \/ row'[i] = row[i] \/ row'[i] = None
               \/ row'[i].movedAt = 0 /\ row'[i].syncedAt <= now
               \/ row[i] # None /\ row'[i].movedAt = row[i].movedAt /\ row'[i].syncedAt <= now
    <3>1. CASE i \in Removed(r)
      BY <2>1, <3>1
    <3>2. CASE i \notin Listed(r) /\ i \notin Removed(r)
      BY <2>1, <3>2 DEF LeftAs
    <3>3. CASE i \in Listed(r) /\ WrittenAnew(r, i)
      BY <2>2, <3>3 DEF WrittenAnew, Inserted
    <3>4. CASE i \in Listed(r) /\ BroughtUpToDate(r, i)
      <4>1. /\ row[i] # None /\ row'[i].movedAt = row[i].movedAt
            /\ row'[i] = row[i] \/ row'[i].syncedAt = r.at \/ row'[i].syncedAt = row[i].syncedAt
        BY <2>2, <3>4, BroughtIsRow DEF BroughtUpToDate
      <4> QED BY <1>1, <2>2, <4>1
    <3> QED BY <2>1, <3>1, <3>2, <3>3, <3>4
  <2>5. UNCHANGED <<now, changedAt>>
    BY <2>1 DEF ghosts
  <2> QED BY <1>6, <2>3, <2>4, <2>5
<1>9. CASE DeliveryFindsNone
  <2>1. /\ \A i \in Ids : LeftAs(i) \/ row'[i] = None
        /\ reader' = [reader EXCEPT !["delivery"] = Idle]
        /\ UNCHANGED <<now, arrVars, changes, asked, ghosts>>
    BY <1>9, DeliveryFindsNoneDoes
  <2>2. "delivery" \in Readers
    BY DEF Readers
  <2>3. reader'["delivery"].phase = "idle" /\ \A q \in Readers \ {"delivery"} : reader'[q] = reader[q]
    BY <2>1, <2>2, EndsDoes
  <2>4. UNCHANGED <<now, changedAt>>
    BY <2>1 DEF ghosts
  <2> QED BY <1>6, <2>1, <2>2, <2>3, <2>4 DEF LeftAs
<1>10. CASE SimulationStores \/ \E i \in Ids : SimulationReads(i) \/ Pin(i) \/ Unpin(i)
  <2>1. UNCHANGED <<now, row, reader, changedAt>>
    BY <1>10 DEF SimulationStores, SimulationReads, Pin, Unpin, ghosts, rowVars
  <2> QED BY <2>1, InOrderStays
<1>11. ASSUME UNCHANGED <<now, row, reader>>, changedAt' = now PROVE InOrder'
  BY <1>1, <1>11 DEF InOrder, Busy
<1>12. CASE ArrChanges \/ (\E i \in Ids : MoveSent(i)) \/ \E a \in Arrs : Point(a)
  <2>1. UNCHANGED <<now, row, reader>> /\ changedAt' = now
    BY <1>12 DEF ArrChanges, MoveSent, Point, rowVars
  <2> QED BY <1>11, <2>1
<1>13. CASE MoveRecorded
  <2> DEFINE of == moving.id
  <2>1. /\ of \in Ids
        /\ \A i \in Ids \ {of} : LeftAs(i)
        /\ row[of] = None => row'[of] = None
        /\ row[of] # None => row'[of].movedAt = now /\ row'[of].syncedAt = row[of].syncedAt
        /\ \A p \in Readers : /\ reader'[p].moved \subseteq reader[p].moved \cup {of}
                              /\ reader'[p].phase = reader[p].phase /\ reader'[p].at = reader[p].at
                              /\ reader'[p].from = reader[p].from /\ reader'[p].of = reader[p].of
                              /\ reader'[p].kind = reader[p].kind
        /\ changedAt' = now /\ now' = now
    BY <1>13, MoveRecordedDoes
  <2> HIDE DEF of
  <2>2. \A i \in Ids : row'[i] # None =>
          /\ row[i] # None /\ row'[i].syncedAt = row[i].syncedAt
          /\ row'[i].movedAt = now \/ (i # of /\ row'[i].movedAt = row[i].movedAt)
    BY <2>1 DEF LeftAs
  <2>3. \A i \in Ids : row'[i] # None => row'[i].syncedAt <= now /\ row'[i].movedAt <= now
    BY <1>1, <2>2
  <2>4. ASSUME NEW p \in Readers, Busy(p)'
        PROVE  /\ reader'[p].at <= now /\ reader'[p].from \in Arrs
               /\ \A i \in reader'[p].moved :
                    row'[i] # None => row'[i].movedAt = 0 \/ row'[i].movedAt >= reader'[p].at
    <3>1. Busy(p) /\ reader[p].at <= now /\ reader[p].from \in Arrs /\ reader[p].moved \in SUBSET Ids
      BY <2>1, <2>4 DEF Busy, InOrder, Types, Reader
    <3>2. \A i \in reader[p].moved : row[i] # None => row[i].movedAt = 0 \/ row[i].movedAt >= reader[p].at
      BY <3>1 DEF InOrder
    <3>3. ASSUME NEW i \in reader'[p].moved, row'[i] # None
          PROVE  row'[i].movedAt = 0 \/ row'[i].movedAt >= reader'[p].at
      <4>1. i \in Ids /\ (i = of \/ i \in reader[p].moved)
        BY <2>1, <3>1
      <4> QED BY <1>1, <2>1, <2>2, <3>1, <3>2, <3>3, <4>1
    <3> QED BY <2>1, <3>1, <3>3
  <2>5. Busy("sync")' => reader'["sync"].of = Ids /\ reader'["sync"].kind \in {"bounded", "asked"}
    BY <2>1 DEF Busy, InOrder, Readers
  <2>6. changedAt' <= now' /\ now' = now
    BY <1>1, <2>1
  <2>7. \A i \in Ids : row'[i] # None => row'[i].movedAt <= changedAt'
    BY <2>1, <2>3
  <2> QED BY <2>3, <2>4, <2>5, <2>6, <2>7 DEF InOrder
<1>14. CASE Tick
  BY <1>1, <1>14 DEF Tick, InOrder, Busy, rowVars, ghosts
<1> QED BY <1>3, <1>4, <1>5, <1>7, <1>8, <1>9, <1>10, <1>12, <1>13, <1>14 DEF Next

-----------------------------------------------------------------------------
(* What was read or written since the last change is what the Arr holds.   *)

LEMMA ListedIsTold ==
  ASSUME NoneIsNothing, BoundsAreNumbers, Inv,
         NEW r \in Reader, Current(r), r.phase = "read", r.at > changedAt,
         NEW i \in Listed(r), WrittenAnew(r, i) \/ BroughtUpToDate(r, i)
  PROVE  row'[i] # None /\ Told(row'[i]) = r.list[i] /\ r.list[i] = arr[pointed][i]
<1>1. i \in Ids /\ i \in r.of /\ r.list[i] \in Item /\ r.list[i] # None /\ r.at \in Nat /\ changedAt \in Nat
  BY DEF Listed, Reader, Inv, Types
<1>2. r.list[i] = arr[pointed][i]
  BY <1>1 DEF Current
<1>3. r.list[i] = [work |-> r.list[i].work, tags |-> r.list[i].tags, path |-> r.list[i].path]
  BY <1>1 DEF Item
<1>4. CASE WrittenAnew(r, i)
  <2>1. row'[i] = Inserted(r.list[i], r.at)
    BY <1>4 DEF WrittenAnew
  <2>2. Told(row'[i]) = r.list[i]
    BY <1>3, <2>1 DEF Told, Inserted
  <2>3. row'[i] # None
    <3>1. Inserted(r.list[i], r.at) \in Row
      BY <1>1 DEF Inserted, Item, Row, Reader, BoundsAreNumbers
    <3> QED BY <2>1, <3>1 DEF NoneIsNothing
  <2> QED BY <1>2, <2>2, <2>3
<1>5. CASE BroughtUpToDate(r, i)
  <2>1. /\ row[i] # None /\ row[i] \in Row /\ row[i].work = r.list[i].work
        /\ row[i].movedAt \in Nat /\ row[i].movedAt <= changedAt
    BY <1>1, <1>5, BroughtIsRow DEF Inv, InOrder, Row, BroughtUpToDate
  <2>2. ~ PathStands(row[i], r.at)
    BY <1>1, <2>1 DEF PathStands
  <2>3. /\ row'[i] \in Row /\ row'[i].work = row[i].work
        /\ \/ row'[i] = row[i] /\ row[i].syncedAt > r.at
           \/ row'[i].tags = r.list[i].tags /\ row'[i].path = r.list[i].path
    BY <1>1, <1>5, <2>2, BroughtIsRow DEF Inv
  <2>4. CASE row'[i] = row[i] /\ row[i].syncedAt > r.at
    <3>1. row[i].syncedAt > changedAt
      BY <1>1, <2>1, <2>4 DEF Row
    <3>2. arr[pointed][i] = Told(row[i])
      BY <1>1, <2>1, <3>1 DEF Inv, Fresh
    <3> QED BY <1>2, <2>1, <2>4, <3>2 DEF Told
  <2>5. row'[i] # None
    BY <2>3 DEF NoneIsNothing
  <2>6. CASE row'[i].tags = r.list[i].tags /\ row'[i].path = r.list[i].path
    BY <1>2, <1>3, <2>1, <2>3, <2>5, <2>6 DEF Told
  <2> QED BY <2>3, <2>4, <2>6
<1> QED BY <1>4, <1>5

LEMMA FreshStays ==
  ASSUME Fresh, UNCHANGED <<arr, pointed, row, changedAt>>,
         NEW p \in Readers, \A q \in Readers \ {p} : reader'[q] = reader[q], Current(reader[p])'
  PROVE  Fresh'
BY DEF Fresh, Current

LEMMA FreshKept ==
  ASSUME NoneIsNothing, BoundsAreNumbers, Inv, Next
  PROVE  Fresh'
<1> USE DEF Inv
<1>1. /\ now \in Nat /\ changedAt \in Nat
      /\ \A i \in Ids : row[i] # None => row[i].syncedAt \in Nat /\ row[i].syncedAt <= now
      /\ \A p \in Readers : reader[p].at \in Nat /\ (reader[p].phase # "idle" => reader[p].at <= now)
  BY DEF InOrder, Busy, Types, TypeOK, Row, Reader, BoundsAreNumbers
<1>2. "sync" \in Readers /\ "delivery" \in Readers
  BY DEF Readers
<1>3. CASE SyncBegins
  <2>1. /\ reader'["delivery"] = reader["delivery"]
        /\ \E kind \in {"bounded", "asked"} : Begun(reader'["sync"], kind, Ids)
        /\ UNCHANGED <<arr, pointed, row, changedAt>>
    BY <1>3, SyncBeginsDoes DEF rowVars, arrVars, ghosts
  <2>2. Current(reader["sync"])'
    BY <2>1 DEF Begun, Current
  <2>3. \A q \in Readers \ {"sync"} : reader'[q] = reader[q]
    BY <2>1 DEF Readers
  <2> QED BY <1>2, <2>1, <2>2, <2>3, FreshStays
<1>4. CASE DeliveryBegins
  <2>1. /\ reader'["sync"] = reader["sync"]
        /\ \E i \in Ids, kind \in {"change", "delete"} : Begun(reader'["delivery"], kind, {i})
        /\ UNCHANGED <<arr, pointed, row, changedAt>>
    BY <1>4, DeliveryBeginsDoes DEF rowVars, arrVars, ghosts
  <2>2. Current(reader["delivery"])'
    BY <2>1 DEF Begun, Current
  <2>3. \A q \in Readers \ {"delivery"} : reader'[q] = reader[q]
    BY <2>1 DEF Readers
  <2> QED BY <1>2, <2>1, <2>2, <2>3, FreshStays
<1>5. ASSUME NEW p \in Readers, Reads(p) PROVE Fresh'
  <2>1. /\ \A q \in Readers \ {p} : reader'[q] = reader[q]
        /\ reader[p].phase = "began" /\ reader'[p].at = reader[p].at /\ reader'[p].from = reader[p].from
        /\ \A i \in reader'[p].of : reader'[p].list[i] = arr[reader'[p].from][i]
        /\ UNCHANGED <<arr, pointed, row, changedAt>>
    BY <1>5, ReadsDoes DEF rowVars, arrVars, ghosts
  <2>2. Current(reader[p])'
    BY <2>1 DEF Fresh, Current
  <2> QED BY <2>1, <2>2, FreshStays
<1>6. ASSUME NEW p \in Readers, Fails(p) PROVE Fresh'
  <2>1. reader' = [reader EXCEPT ![p] = Idle] /\ UNCHANGED <<arr, pointed, row, changedAt>>
    BY <1>6 DEF Fails, arrVars, rowVars, ghosts
  <2>2. reader'[p].phase = "idle" /\ \A q \in Readers \ {p} : reader'[q] = reader[q]
    BY <2>1, EndsDoes
  <2>3. Current(reader[p])'
    BY <2>2 DEF Current
  <2> QED BY <2>1, <2>2, <2>3, FreshStays
<1>7. ASSUME NEW p \in Readers, reader' = [reader EXCEPT ![p] = Idle],
             UNCHANGED <<arr, pointed, changedAt>>,
             \A i \in Ids : row'[i] # None /\ row'[i].syncedAt > changedAt =>
               row'[i] = row[i] \/ Told(row'[i]) = arr[pointed][i]
      PROVE  Fresh'
  <2>1. reader'[p].phase = "idle" /\ \A q \in Readers \ {p} : reader'[q] = reader[q]
    BY <1>7, EndsDoes
  <2>2. \A q \in Readers : Current(reader[q])'
    BY <1>7, <2>1 DEF Fresh, Current
  <2>3. \A i \in Ids : row'[i] # None /\ row'[i].syncedAt > changedAt => arr[pointed][i] = Told(row'[i])
    BY <1>7 DEF Fresh
  <2> QED BY <1>7, <2>2, <2>3 DEF Fresh, Told
<1>8. ASSUME NEW p \in Readers, Commit(p) PROVE Fresh'
  <2> DEFINE r == reader[p]
  <2>1. /\ \A i \in Removed(r) : row'[i] = None
        /\ \A i \in Ids \ (Listed(r) \cup Removed(r)) : LeftAs(i)
        /\ \A i \in Listed(r) : WrittenAnew(r, i) \/ BroughtUpToDate(r, i)
        /\ r.phase = "read" /\ reader' = [reader EXCEPT ![p] = Idle]
        /\ UNCHANGED <<now, arrVars, changes, asked, ghosts>>
    BY <1>8, CommitDoes
  <2>2. r \in Reader /\ Current(r)
    BY DEF Types, Fresh
  <2> HIDE DEF r
  <2>3. ASSUME NEW i \in Ids, row'[i] # None, row'[i].syncedAt > changedAt
        PROVE  row'[i] = row[i] \/ Told(row'[i]) = arr[pointed][i]
    <3>1. CASE i \notin Listed(r)
      BY <2>1, <2>3, <3>1 DEF LeftAs
    <3>2. CASE i \in Listed(r)
      <4>1. row'[i] = row[i] \/ row'[i].syncedAt = r.at
        <5>1. CASE WrittenAnew(r, i)
          BY <5>1 DEF WrittenAnew, Inserted
        <5>2. CASE BroughtUpToDate(r, i)
          BY <2>2, <5>2, BroughtIsRow
        <5> QED BY <2>1, <3>2, <5>1, <5>2
      <4>2. CASE r.at > changedAt
        BY <2>1, <2>2, <3>2, <4>2, ListedIsTold
      <4> QED BY <2>3, <4>1, <4>2
    <3> QED BY <3>1, <3>2
  <2>4. UNCHANGED <<arr, pointed, changedAt>>
    BY <2>1 DEF arrVars, ghosts
  <2> QED BY <1>7, <2>1, <2>3, <2>4
<1>9. CASE DeliveryFindsNone
  <2>1. /\ \A i \in Ids : LeftAs(i) \/ row'[i] = None
        /\ reader' = [reader EXCEPT !["delivery"] = Idle]
        /\ UNCHANGED <<now, arrVars, changes, asked, ghosts>>
    BY <1>9, DeliveryFindsNoneDoes
  <2>2. UNCHANGED <<arr, pointed, changedAt>>
    BY <2>1 DEF arrVars, ghosts
  <2> QED BY <1>2, <1>7, <2>1, <2>2 DEF LeftAs
<1>10. CASE Tick \/ SimulationStores \/ \E i \in Ids : SimulationReads(i) \/ Pin(i) \/ Unpin(i)
  <2>1. UNCHANGED <<arr, pointed, row, reader, changedAt>>
    BY <1>10 DEF Tick, SimulationStores, SimulationReads, Pin, Unpin, arrVars, rowVars, ghosts
  <2> QED BY <2>1 DEF Fresh, Current
<1>11. ASSUME changedAt' = now,
              \A i \in Ids : row'[i] # None => row[i] # None /\ row'[i].syncedAt = row[i].syncedAt,
              \A p \in Readers : reader'[p].at = reader[p].at /\ reader'[p].phase = reader[p].phase
       PROVE  Fresh'
  BY <1>1, <1>11 DEF Fresh, Current
<1>12. CASE ArrChanges \/ (\E i \in Ids : MoveSent(i)) \/ \E a \in Arrs : Point(a)
  <2>1. UNCHANGED <<row, reader>> /\ changedAt' = now
    BY <1>12 DEF ArrChanges, MoveSent, Point, rowVars
  <2> QED BY <1>11, <2>1
<1>13. CASE MoveRecorded
  <2> DEFINE of == moving.id
  <2>1. /\ of \in Ids
        /\ \A i \in Ids \ {of} : LeftAs(i)
        /\ row[of] = None => row'[of] = None
        /\ row[of] # None => row'[of].syncedAt = row[of].syncedAt
        /\ \A p \in Readers : reader'[p].phase = reader[p].phase /\ reader'[p].at = reader[p].at
        /\ changedAt' = now
    BY <1>13, MoveRecordedDoes
  <2> HIDE DEF of
  <2>2. \A i \in Ids : row'[i] # None => row[i] # None /\ row'[i].syncedAt = row[i].syncedAt
    BY <2>1 DEF LeftAs
  <2> QED BY <1>11, <2>1, <2>2
<1> QED BY <1>3, <1>4, <1>5, <1>6, <1>8, <1>9, <1>10, <1>12, <1>13 DEF Next

-----------------------------------------------------------------------------

LEMMA InvHolds ==
  ASSUME NoneIsNothing, BoundsAreNumbers
  PROVE  Spec => []Inv
<1>1. Init => Inv
  <2> SUFFICES ASSUME Init PROVE Inv
    OBVIOUS
  <2>1. Idle \in Reader /\ Idle.phase = "idle"
    BY IdleIsReader DEF Idle
  <2>2. /\ row = [i \in Ids |-> None] /\ pending = [i \in Ids |-> None] /\ history = [i \in Ids |-> {}]
        /\ pin = [i \in Ids |-> None] /\ retired = [w \in Works |-> None]
        /\ reader = [p \in Readers |-> Idle] /\ moving = None /\ simulation = None /\ now = 1 /\ changedAt = 1 /\ pinned = {}
        /\ arr \in [Arrs -> Listing] /\ pointed \in Arrs
    BY DEF Init
  <2>3. \A p \in Readers : reader[p].phase = "idle"
    BY <2>1, <2>2
  <2>4. Types
    BY <2>1, <2>2 DEF Types, TypeOK, BoundsAreNumbers
  <2>5. Hung
    BY <2>2 DEF Hung, Sound, IsOf, HangsOn, Library
  <2>6. InOrder
    BY <2>2, <2>3 DEF InOrder, Busy, Readers
  <2>7. Fresh
    BY <2>2, <2>3 DEF Fresh, Current
  <2> QED BY <2>4, <2>5, <2>6, <2>7 DEF Inv
<1>2. Inv /\ [Next]_vars => Inv'
  <2> SUFFICES ASSUME Inv, [Next]_vars PROVE Inv'
    OBVIOUS
  <2>1. CASE Next
    BY <2>1, TypesKept, HungKept, InOrderKept, FreshKept DEF Inv
  <2>2. CASE UNCHANGED vars
    BY <2>2 DEF vars, arrVars, rowVars, ghosts, Inv, Types, TypeOK, Hung, Sound, IsOf, HangsOn, KeepsPin,
                Library, InOrder, Busy, Fresh, Current
  <2> QED BY <2>1, <2>2
<1> QED BY <1>1, <1>2, PTL DEF Spec

(* Whatever is kept by a row's id is of the title the row is of, however   *)
(* ids were handed out again and whoever wrote the rows (sync.rs           *)
(* retire_media, restore_overrides).                                       *)
THEOREM HangsByTitle ==
  ASSUME NoneIsNothing, BoundsAreNumbers
  PROVE  Spec => []RowsKeepTheirTitles
<1>1. Inv => RowsKeepTheirTitles
  BY DEF Inv, Types, TypeOK, Hung, Sound, IsOf, HangsOn, KeepsPin, Library, RowsKeepTheirTitles,
         ExceptionsFollowTheirTitles, WhatHangsIsOfTheTitle
<1> QED BY <1>1, InvHolds, PTL

(* Only a reader's own end writes what it read. *)
LEMMA WrittenByItsEnd ==
  ASSUME NoneIsNothing, BoundsAreNumbers, Inv, Next, NEW p \in Readers, Wrote(p)
  PROVE  Commit(p) \/ (p = "delivery" /\ DeliveryFindsNone)
<1> USE DEF Inv
<1>1. reader[p].phase = "read" /\ reader'[p].phase = "idle" /\ reader'[p] # reader[p]
  BY DEF Wrote
<1>2. CASE SyncBegins
  <2>1. Idle.phase = "idle"
    BY DEF Idle
  <2>2. p # "sync"
    BY <1>1, <1>2, <2>1 DEF SyncBegins
  <2> QED BY <1>1, <1>2, <2>2, SyncBeginsDoes DEF Readers
<1>3. CASE DeliveryBegins
  <2>1. Idle.phase = "idle"
    BY DEF Idle
  <2>2. p # "delivery"
    BY <1>1, <1>3, <2>1 DEF DeliveryBegins
  <2> QED BY <1>1, <1>3, <2>2, DeliveryBeginsDoes DEF Readers
<1>4. ASSUME NEW q \in Readers, Reads(q) \/ Fails(q) PROVE FALSE
  <2>1. reader[q].phase = "began"
    BY <1>4 DEF Reads, Fails
  <2>2. p # q
    BY <1>1, <2>1
  <2>3. reader'[p] = reader[p]
    BY <1>4, <2>2, ReadsDoes, EndsDoes DEF Fails
  <2> QED BY <1>1, <2>3
<1>5. ASSUME NEW q \in Readers, Commit(q) PROVE q = p
  <2>1. reader' = [reader EXCEPT ![q] = Idle]
    BY <1>5 DEF Commit
  <2> QED BY <1>1, <2>1, EndsDoes
<1>6. CASE DeliveryFindsNone
  <2>1. reader' = [reader EXCEPT !["delivery"] = Idle]
    BY <1>6 DEF DeliveryFindsNone
  <2>2. "delivery" \in Readers
    BY DEF Readers
  <2> QED BY <1>1, <1>6, <2>1, <2>2, EndsDoes
<1>7. CASE MoveRecorded
  BY <1>1, <1>7, MoveRecordedDoes
<1>8. CASE Tick \/ ArrChanges \/ SimulationStores
            \/ (\E i \in Ids : SimulationReads(i) \/ MoveSent(i) \/ Pin(i) \/ Unpin(i))
           \/ \E a \in Arrs : Point(a)
  <2>1. reader' = reader
    BY <1>8 DEF Tick, ArrChanges, SimulationStores, SimulationReads, MoveSent, Pin, Unpin, Point
  <2> QED BY <1>1, <2>1
<1> QED BY <1>2, <1>3, <1>4, <1>5, <1>6, <1>7, <1>8 DEF Next

(* A path recorded by a move is not put back by a read that began before   *)
(* the move was recorded (sync.rs upsert_media, moved_at).                 *)
THEOREM MovedPathsStand ==
  ASSUME NoneIsNothing, BoundsAreNumbers
  PROVE  Spec => MovedPathStands
<1>1. ASSUME Inv, Next PROVE MovedPathStays
  <2> SUFFICES ASSUME NEW p \in Readers, Wrote(p), NEW i \in reader[p].moved,
                      row[i] # None, row[i].movedAt # 0
               PROVE  row'[i] = None \/ row'[i].work # row[i].work \/ row'[i].path = row[i].path
    BY DEF MovedPathStays
  <2>1. reader[p] \in Reader /\ i \in Ids /\ row[i].movedAt >= reader[p].at
    BY <1>1 DEF Inv, Types, Reader, InOrder, Busy, Wrote
  <2>2. CASE DeliveryFindsNone
    BY <1>1, <2>1, <2>2, DeliveryFindsNoneDoes DEF Inv, LeftAs
  <2>3. CASE Commit(p)
    <3>1. \/ row'[i] = None \/ LeftAs(i)
          \/ WrittenAnew(reader[p], i) \/ BroughtUpToDate(reader[p], i)
      BY <1>1, <2>1, <2>3, CommitDoes DEF Inv
    <3>2. CASE WrittenAnew(reader[p], i)
      BY <3>2 DEF WrittenAnew, Reassigned, Inserted
    <3>3. CASE BroughtUpToDate(reader[p], i)
      <4>1. PathStands(row[i], reader[p].at)
        BY <2>1 DEF PathStands
      <4> QED BY <1>1, <2>1, <3>3, <4>1, BroughtIsRow DEF Inv
    <3> QED BY <3>1, <3>2, <3>3 DEF LeftAs
  <2> QED BY <1>1, <2>2, <2>3, WrittenByItsEnd
<1>2. UNCHANGED vars => MovedPathStays
  BY DEF vars, MovedPathStays, Wrote
<1>3. Inv /\ [Next]_vars => [MovedPathStays]_vars
  BY <1>1, <1>2
<1> QED BY <1>3, InvHolds, PTL DEF Spec, MovedPathStands

(* One synchronisation that began in a later second than the last change   *)
(* makes the rows what the Arr holds, whatever was wrong in them (sync.rs  *)
(* do_sync).                                                               *)
THEOREM QuietSyncsHeal ==
  ASSUME NoneIsNothing, BoundsAreNumbers
  PROVE  Spec => QuietSyncHeals
<1>1. ASSUME Inv, Next PROVE Heals
  <2> DEFINE r == reader["sync"]
  <2> SUFFICES ASSUME Wrote("sync"), r.at > changedAt, Listed(r) # {}, r.folders,
                      ~ Held(r, Gone(r, Written(r))), NEW i \in DOMAIN row
               PROVE  IF arr[pointed][i] = None THEN row'[i] = None
                      ELSE row'[i] # None /\ Told(row'[i]) = arr[pointed][i]
    BY DEF Heals, Told
  <2>1. "sync" \in Readers /\ i \in Ids
    BY <1>1 DEF Readers, Inv, Types, TypeOK
  <2>2. Commit("sync")
    BY <1>1, <2>1, WrittenByItsEnd
  <2>3. /\ r \in Reader /\ r.phase = "read" /\ Current(r) /\ r.of = Ids /\ r.kind \in {"bounded", "asked"}
        /\ r.at \in Nat /\ changedAt \in Nat
    BY <1>1, <2>1 DEF Inv, Types, Fresh, InOrder, Busy, Wrote, Reader
  <2>4. r.list[i] = arr[pointed][i]
    BY <2>1, <2>3 DEF Current
  <2>5. /\ \A k \in Removed(r) : row'[k] = None
        /\ \A k \in Ids \ (Listed(r) \cup Removed(r)) : LeftAs(k)
        /\ \A k \in Listed(r) : WrittenAnew(r, k) \/ BroughtUpToDate(r, k)
    BY <1>1, <2>1, <2>2, CommitDoes DEF Inv
  <2>6. CASE arr[pointed][i] # None
    <3>1. i \in Listed(r)
      BY <2>1, <2>3, <2>4, <2>6 DEF Listed
    <3> HIDE DEF r
    <3>2. row'[i] # None /\ Told(row'[i]) = arr[pointed][i]
      BY <1>1, <2>3, <2>5, <3>1, ListedIsTold
    <3> QED BY <2>6, <3>2
  <2>7. CASE arr[pointed][i] = None
    <3> DEFINE written == Written(r)
    <3>1. i \notin Listed(r)
      BY <2>4, <2>7 DEF Listed
    <3>2. written \in Lib /\ written.row[i] = row[i]
      BY <1>1, <2>1, <2>3, <3>1, WrittenDoes DEF Inv
    <3>3. Removed(r) = Gone(r, written)
      BY DEF Removed
    <3> HIDE DEF written, r
    <3>4. Gone(r, written) = {k \in DOMAIN written.row \ Listed(r) :
                               written.row[k] # None /\ written.row[k].syncedAt < r.at}
      BY <2>3 DEF Gone
    <3>5. CASE row[i] = None
      BY <2>1, <2>5, <2>7, <3>1, <3>5 DEF LeftAs
    <3>6. CASE row[i] # None
      <4>1. row[i] \in Row /\ row[i].syncedAt \in Nat
        BY <1>1, <2>1, <3>6 DEF Inv, Types, TypeOK, Row
      <4>2. Told(row[i]) \in Item
        BY <4>1 DEF Told, Row, Item
      <4>3. ~ row[i].syncedAt > changedAt
        BY <1>1, <2>1, <2>7, <3>6, <4>2 DEF Inv, Fresh, NoneIsNothing
      <4>4. row[i].syncedAt < r.at
        BY <2>3, <4>1, <4>3
      <4>5. i \in Removed(r)
        BY <2>1, <3>1, <3>2, <3>3, <3>4, <3>6, <4>4 DEF Lib, Rows
      <4> QED BY <2>5, <2>7, <4>5
    <3> QED BY <2>7, <3>5, <3>6
  <2> QED BY <2>6, <2>7
<1>2. UNCHANGED vars => Heals
  BY DEF vars, Heals, Wrote
<1>3. Inv /\ [Next]_vars => [Heals]_vars
  BY <1>1, <1>2
<1> QED BY <1>3, InvHolds, PTL DEF Spec, QuietSyncHeals

-----------------------------------------------------------------------------
(* The simulations that are stored: the module Proposals, with variables   *)
(* of its own. The orders of the runs under way differ and are those this  *)
(* process gave (OrdersGiven); a run past its load is above every stored   *)
(* order it has not been told of (AboveWhatItRead) and shares none         *)
(* (OwnOrder).                                                             *)

CONSTANTS Media, Runs, LibraryPasses, MaxClock, MaxOrder, MaxEdits, MaxRestarts

VARIABLES clock, lastOrder, said, routed, offered, run, born, edits, restarts

P == INSTANCE Proposals

Decisions == [order : Nat, seen : Nat]

RunRecord ==
  [phase : {"idle", "asked", "loaded", "stored"}, whole : BOOLEAN, media : SUBSET Media,
   order : Nat, seen : Nat, since : SUBSET Media]

Numbers ==
  /\ clock \in Nat /\ lastOrder \in Nat /\ edits \in Nat
  /\ routed \in [Media -> Decisions \cup {None}]
  /\ run \in [Runs -> RunRecord]

(* The stored orders are bounded, so that one of them is the largest.      *)
OrdersBounded == \E k \in Nat : \A m \in Media : routed[m] # None => routed[m].order <= k

UnderWay(r) == run[r].phase \in {"asked", "loaded"}

OrdersGiven ==
  /\ \A r \in Runs : UnderWay(r) => run[r].order <= lastOrder
  /\ \A r, q \in Runs : UnderWay(r) /\ UnderWay(q) /\ r # q => run[r].order # run[q].order

OwnOrder ==
  \A r \in Runs, m \in Media :
    run[r].phase = "loaded" /\ run[r].media # {} /\ routed[m] # None
    => routed[m].order # run[r].order

AboveWhatItRead ==
  \A r \in Runs : \A m \in run[r].media \ run[r].since :
    run[r].phase = "loaded" /\ routed[m] # None => routed[m].order < run[r].order

(* What is offered for a title is the decision stored for it, or nothing.  *)
OfferedIsShown ==
  \A m \in Media : offered[m] = {} \/ (routed[m] # None /\ offered[m] = {routed[m]})

ProposalsInv ==
  Numbers /\ OrdersBounded /\ OrdersGiven /\ OwnOrder /\ AboveWhatItRead
  /\ DOMAIN offered = Media /\ OfferedIsShown

ProposalsAssumed == P!OrdersAreNumbers /\ P!NoneIsNoDecision

(* Numbers with an upper bound have a largest one.                         *)
LEMMA SomeLargest ==
  ASSUME NEW S \in SUBSET Nat, S # {}, NEW k \in Nat, \A x \in S : x <= k
  PROVE  \E x \in S : \A y \in S : y <= x
<1> DEFINE T == {n \in Nat : \A x \in S : x <= n}
<1>1. PICK n \in T : \A y \in T : ~ (<<y, n>> \in OpToRel(<, Nat))
  BY NatLessThanWellFounded, WFMin
<1>2. \A y \in T : ~ (y < n)
  <2> SUFFICES ASSUME NEW y \in T PROVE ~ (y < n)
    OBVIOUS
  <2>1. ~ (<<y, n>> \in OpToRel(<, Nat))
    BY <1>1
  <2> QED BY <2>1 DEF OpToRel
<1>3. CASE n \in S
  BY <1>3
<1>4. CASE n \notin S
  <2>1. PICK x \in S : TRUE
    OBVIOUS
  <2>2. \A y \in S : y <= n - 1 /\ n - 1 \in Nat
    BY <1>4
  <2>3. n - 1 \in T
    BY <2>1, <2>2
  <2> QED BY <1>2, <2>3
<1> QED BY <1>3, <1>4

LEMMA LargestIs ==
  ASSUME NEW S \in SUBSET Nat, \E x \in S : \A y \in S : y <= x
  PROVE  P!Max(S) \in S /\ \A y \in S : y <= P!Max(S)
<1>1. \E x \in S : \A y \in S : x >= y
  OBVIOUS
<1> QED BY <1>1 DEF P!Max

LEMMA LargerOf ==
  ASSUME NEW x \in Nat, NEW y \in Nat
  PROVE  P!Max({x, y}) \in Nat /\ P!Max({x, y}) >= x /\ P!Max({x, y}) >= y
         /\ P!Max({x, y}) \in {x, y}
<1> DEFINE S == {x, y}
<1>1. S \in SUBSET Nat /\ \E u \in S : \A v \in S : v <= u
  OBVIOUS
<1>2. P!Max(S) \in S /\ \A v \in S : v <= P!Max(S)
  <2> HIDE DEF S
  <2> QED BY <1>1, LargestIs
<1> QED BY <1>2

LEMMA FloorIsAbove ==
  ASSUME Numbers, OrdersBounded
  PROVE  /\ P!Floor \in Nat
         /\ \A m \in Media : routed[m] # None => routed[m].order <= P!Floor
<1> DEFINE S == {0} \cup {routed[m].order : m \in {n \in Media : routed[n] # None}}
<1>1. \A m \in Media : routed[m] # None => routed[m].order \in Nat
  BY DEF Numbers, Decisions
<1>2. S \in SUBSET Nat /\ 0 \in S
  BY <1>1
<1>3. PICK k \in Nat : \A m \in Media : routed[m] # None => routed[m].order <= k
  BY DEF OrdersBounded
<1>4. \A x \in S : x <= k
  BY <1>3
<1>5. \A m \in Media : routed[m] # None => routed[m].order \in S
  OBVIOUS
<1> HIDE DEF S
<1>6. \E x \in S : \A y \in S : y <= x
  BY <1>2, <1>3, <1>4, SomeLargest
<1>7. P!Max(S) \in S /\ \A y \in S : y <= P!Max(S)
  BY <1>2, <1>6, LargestIs
<1>8. P!Floor = P!Max(S)
  BY DEF P!Floor, S
<1> QED BY <1>2, <1>5, <1>7, <1>8

(* An order given is past the last of this process.                        *)
LEMMA LoadOrderIsNew ==
  ASSUME Numbers, NEW last \in Nat
  PROVE  P!LoadOrder(last) \in Nat /\ P!LoadOrder(last) > last
<1>1. clock \in Nat /\ last + 1 \in Nat
  BY DEF Numbers
<1>2. P!Max({clock, last + 1}) \in Nat /\ P!Max({clock, last + 1}) >= last + 1
  BY <1>1, LargerOf
<1> QED BY <1>2 DEF P!LoadOrder

(* The order of a load is above every stored one; it is the run's, or new. *)
LEMMA AboveStoredIs ==
  ASSUME Numbers, OrdersBounded, NEW order \in Nat
  PROVE  /\ P!AboveStored(order) \in Nat
         /\ P!AboveStored(order) = order \/ P!AboveStored(order) > lastOrder
         /\ \A m \in Media : routed[m] # None => routed[m].order < P!AboveStored(order)
<1>1. /\ P!Floor \in Nat
      /\ \A m \in Media : routed[m] # None => routed[m].order <= P!Floor
  BY FloorIsAbove
<1>2. \A m \in Media : routed[m] # None => routed[m].order \in Nat
  BY DEF Numbers, Decisions
<1>3. CASE P!Floor < order
  BY <1>1, <1>2, <1>3 DEF P!AboveStored
<1>4. CASE ~ (P!Floor < order)
  <2> DEFINE last == P!Max({lastOrder, P!Floor})
  <2>1. lastOrder \in Nat
    BY DEF Numbers
  <2>2. last \in Nat /\ last >= lastOrder /\ last >= P!Floor
    BY <1>1, <2>1, LargerOf
  <2>3. P!AboveStored(order) = P!LoadOrder(last)
    BY <1>4 DEF P!AboveStored
  <2> HIDE DEF last
  <2>4. P!LoadOrder(last) \in Nat /\ P!LoadOrder(last) > last
    BY <2>2, LoadOrderIsNew
  <2> QED BY <1>1, <1>2, <2>1, <2>2, <2>3, <2>4
<1> QED BY <1>3, <1>4

LEMMA IdleIsARun ==
  /\ P!Idle \in RunRecord
  /\ P!Idle = [phase |-> "idle", whole |-> FALSE, media |-> {}, order |-> 0, seen |-> 0,
               since |-> {}]
BY DEF P!Idle, RunRecord

LEMMA InitProposalsInv == P!Init => ProposalsInv
<1> SUFFICES ASSUME P!Init PROVE ProposalsInv
  OBVIOUS
<1>1. \A r \in Runs : run[r].phase = "idle" /\ run[r] \in RunRecord
  BY IdleIsARun DEF P!Init
<1>2. Numbers
  BY <1>1 DEF P!Init, Numbers
<1>3. OrdersBounded
  <2>1. \A m \in Media : routed[m] = None
    BY DEF P!Init
  <2>2. \A m \in Media : routed[m] # None => routed[m].order <= 0
    BY <2>1
  <2> QED BY <2>2 DEF OrdersBounded
<1>4. OrdersGiven /\ OwnOrder /\ AboveWhatItRead
  BY <1>1 DEF OrdersGiven, UnderWay, OwnOrder, AboveWhatItRead
<1>5. DOMAIN offered = Media /\ OfferedIsShown
  BY DEF P!Init, OfferedIsShown
<1> QED BY <1>2, <1>3, <1>4, <1>5 DEF ProposalsInv

(* A step of one run which leaves what is stored as it is.                 *)
LEMMA OneRun ==
  ASSUME ProposalsInv, NEW r \in Runs, NEW new \in RunRecord,
         run' = [run EXCEPT ![r] = new], UNCHANGED <<clock, routed, offered, edits>>,
         lastOrder' \in Nat, lastOrder' >= lastOrder,
         new.phase \in {"asked", "loaded"}
         => /\ new.order <= lastOrder'
            /\ \A q \in Runs : q # r /\ UnderWay(q) => run[q].order # new.order,
         new.phase = "loaded" /\ new.media # {}
         => \A m \in Media : routed[m] # None => routed[m].order < new.order
  PROVE  ProposalsInv'
<1>1. Numbers /\ DOMAIN run = Runs /\ lastOrder \in Nat
  BY DEF ProposalsInv, Numbers
<1>2. run'[r] = new /\ \A q \in Runs : q # r => run'[q] = run[q]
  BY <1>1
<1>3. run' \in [Runs -> RunRecord]
  BY <1>1 DEF Numbers
<1>4. Numbers' /\ OrdersBounded' /\ DOMAIN offered' = Media /\ OfferedIsShown'
  BY <1>1, <1>3 DEF ProposalsInv, Numbers, OrdersBounded, OfferedIsShown
<1>5. \A q \in Runs : run[q].order \in Nat /\ run'[q].order \in Nat
  BY <1>1, <1>3 DEF Numbers, RunRecord
<1>6. OrdersGiven'
  <2>1. ASSUME NEW q \in Runs, UnderWay(q)' PROVE run'[q].order <= lastOrder'
    <3>1. CASE q = r
      BY <1>2, <2>1, <3>1 DEF UnderWay
    <3>2. CASE q # r
      <4>1. UnderWay(q) /\ run'[q].order = run[q].order
        BY <1>2, <2>1, <3>2 DEF UnderWay
      <4>2. run[q].order <= lastOrder
        BY <4>1 DEF ProposalsInv, OrdersGiven
      <4> QED BY <1>1, <1>5, <4>1, <4>2
    <3> QED BY <3>1, <3>2
  <2>2. ASSUME NEW q \in Runs, NEW u \in Runs, UnderWay(q)', UnderWay(u)', q # u
        PROVE  run'[q].order # run'[u].order
    <3>1. CASE q # r /\ u # r
      BY <1>2, <2>2, <3>1 DEF UnderWay, ProposalsInv, OrdersGiven
    <3>2. CASE q = r
      BY <1>2, <2>2, <3>2 DEF UnderWay
    <3>3. CASE u = r
      BY <1>2, <2>2, <3>3 DEF UnderWay
    <3> QED BY <3>1, <3>2, <3>3
  <2> QED BY <2>1, <2>2 DEF OrdersGiven
<1>7. \A m \in Media : routed[m] # None => routed[m].order \in Nat
  BY <1>1 DEF Numbers, Decisions
<1>8. OwnOrder'
  <2> SUFFICES ASSUME NEW q \in Runs, NEW m \in Media, run'[q].phase = "loaded",
                      run'[q].media # {}, routed[m] # None
               PROVE  routed[m].order # run'[q].order
    BY DEF OwnOrder
  <2>1. CASE q = r
    <3>1. routed[m].order < new.order /\ run'[q].order = new.order
      BY <1>2, <2>1
    <3> QED BY <1>5, <1>7, <3>1
  <2>2. CASE q # r
    BY <1>2, <2>2 DEF ProposalsInv, OwnOrder
  <2> QED BY <2>1, <2>2
<1>9. AboveWhatItRead'
  <2> SUFFICES ASSUME NEW q \in Runs, NEW m \in run'[q].media \ run'[q].since,
                      run'[q].phase = "loaded", routed[m] # None
               PROVE  routed[m].order < run'[q].order
    BY DEF AboveWhatItRead
  <2>1. m \in Media
    BY <1>3 DEF RunRecord
  <2>2. CASE q = r
    BY <1>2, <2>1, <2>2
  <2>3. CASE q # r
    BY <1>2, <2>3 DEF ProposalsInv, AboveWhatItRead
  <2> QED BY <2>2, <2>3
<1> QED BY <1>4, <1>6, <1>8, <1>9 DEF ProposalsInv

LEMMA AskedSteps ==
  ASSUME ProposalsInv, NEW r \in Runs, NEW whole \in BOOLEAN, NEW media \in SUBSET Media,
         P!Asked(r, whole, media)
  PROVE  ProposalsInv'
<1> DEFINE order == P!LoadOrder(lastOrder)
           new == [P!Idle EXCEPT !.phase = "asked", !.whole = whole, !.media = media,
                                 !.order = order]
<1>1. lastOrder \in Nat /\ Numbers
  BY DEF ProposalsInv, Numbers
<1>2. order \in Nat /\ order > lastOrder
  BY <1>1, LoadOrderIsNew
<1>3. /\ run' = [run EXCEPT ![r] = new] /\ lastOrder' = order
      /\ UNCHANGED <<clock, routed, offered, edits>>
  BY DEF P!Asked, P!stored
<1> HIDE DEF order
<1>4. new \in RunRecord /\ new.phase = "asked" /\ new.order = order
  BY <1>2, IdleIsARun DEF RunRecord
<1>5. \A q \in Runs : UnderWay(q) => run[q].order # order
  <2> SUFFICES ASSUME NEW q \in Runs, UnderWay(q) PROVE run[q].order # order
    OBVIOUS
  <2>1. run[q].order <= lastOrder /\ run[q].order \in Nat
    BY DEF ProposalsInv, OrdersGiven, Numbers, RunRecord
  <2> QED BY <1>1, <1>2, <2>1
<1>6. lastOrder' \in Nat /\ lastOrder' >= lastOrder /\ new.order <= lastOrder'
  BY <1>1, <1>2, <1>3, <1>4
<1>7. \A q \in Runs : q # r /\ UnderWay(q) => run[q].order # new.order
  BY <1>4, <1>5
<1>8. ~ (new.phase = "loaded")
  BY <1>4
<1> HIDE DEF new
<1> QED BY <1>3, <1>4, <1>6, <1>7, <1>8, OneRun

LEMMA LoadsSteps ==
  ASSUME ProposalsInv, NEW r \in Runs, P!Loads(r)
  PROVE  ProposalsInv'
<1> DEFINE there == {m \in run[r].media : said[m] # None}
           order == IF run[r].whole \/ there # {} THEN P!AboveStored(run[r].order)
                    ELSE run[r].order
           new == [run[r] EXCEPT !.phase = "loaded", !.media = there, !.order = order,
                                 !.seen = edits]
<1>1. Numbers /\ OrdersBounded /\ lastOrder \in Nat /\ edits \in Nat
  BY DEF ProposalsInv, Numbers
<1>2. run[r] \in RunRecord /\ run[r].order \in Nat /\ run[r].media \in SUBSET Media
  BY <1>1 DEF Numbers, RunRecord
<1>3. /\ P!AboveStored(run[r].order) \in Nat
      /\ P!AboveStored(run[r].order) = run[r].order \/ P!AboveStored(run[r].order) > lastOrder
      /\ \A m \in Media : routed[m] # None => routed[m].order < P!AboveStored(run[r].order)
  BY <1>1, <1>2, AboveStoredIs
<1>4. /\ order \in Nat /\ (order = run[r].order \/ order > lastOrder)
      /\ there # {} => \A m \in Media : routed[m] # None => routed[m].order < order
  BY <1>2, <1>3
<1>5. /\ run[r].phase = "asked"
      /\ run' = [run EXCEPT ![r].phase = "loaded", ![r].media = there, ![r].order = order,
                            ![r].seen = edits]
      /\ lastOrder' = P!Max({lastOrder, order})
      /\ UNCHANGED <<clock, routed, offered, edits>>
  BY DEF P!Loads, P!stored
<1>6. there \in SUBSET Media
  BY <1>2
<1> HIDE DEF there, order
<1>7. run' = [run EXCEPT ![r] = new]
  BY <1>1, <1>5 DEF Numbers
<1>8. /\ new \in RunRecord /\ new.phase = "loaded" /\ new.media = there /\ new.order = order
  BY <1>1, <1>2, <1>4, <1>6 DEF RunRecord
<1>9. lastOrder' \in Nat /\ lastOrder' >= lastOrder /\ order <= lastOrder'
  <2>1. P!Max({lastOrder, order}) \in Nat /\ P!Max({lastOrder, order}) >= lastOrder
        /\ P!Max({lastOrder, order}) >= order
    BY <1>1, <1>4, LargerOf
  <2> QED BY <1>1, <1>4, <1>5, <2>1
<1>10. \A q \in Runs : q # r /\ UnderWay(q) => run[q].order # order
  <2> SUFFICES ASSUME NEW q \in Runs, q # r, UnderWay(q) PROVE run[q].order # order
    OBVIOUS
  <2>1. run[q].order <= lastOrder /\ run[q].order \in Nat /\ run[q].order # run[r].order
    BY <1>5 DEF ProposalsInv, OrdersGiven, Numbers, RunRecord, UnderWay
  <2> QED BY <1>1, <1>4, <2>1
<1> HIDE DEF new
<1> QED BY <1>4, <1>5, <1>7, <1>8, <1>9, <1>10, OneRun

LEMMA FailsSteps ==
  ASSUME ProposalsInv, NEW r \in Runs, P!Fails(r)
  PROVE  ProposalsInv'
<1>1. /\ run' = [run EXCEPT ![r] = P!Idle]
      /\ UNCHANGED <<clock, routed, offered, edits, lastOrder>>
  BY DEF P!Fails, P!stored
<1>2. lastOrder' \in Nat /\ lastOrder' >= lastOrder
  BY <1>1 DEF ProposalsInv, Numbers
<1>3. P!Idle.phase = "idle"
  BY IdleIsARun
<1> QED BY <1>1, <1>2, <1>3, IdleIsARun, OneRun

(* A run that stores: each title it stores takes its decision, and every   *)
(* other run under way is told of it.                                      *)
LEMMA StoresDoes ==
  ASSUME ProposalsInv, NEW r \in Runs, P!Stores(r)
  PROVE  /\ run[r].phase = "loaded" /\ run[r] \in RunRecord
         /\ P!Decision(r) \in Decisions /\ P!Decision(r).order = run[r].order
         /\ UNCHANGED <<clock, lastOrder, edits>>
         /\ run'[r] = [P!Idle EXCEPT !.phase = "stored"]
         /\ \A q \in Runs \ {r} :
              run'[q] = [run[q] EXCEPT !.since = run[q].since \cup
                                         IF run[q].phase = "loaded" THEN P!Stored(r) ELSE {}]
         /\ DOMAIN run' = Runs /\ DOMAIN routed' = Media /\ DOMAIN offered' = Media
         /\ P!Stored(r) \in SUBSET run[r].media
         /\ \A m \in Media :
              routed'[m] = IF m \in P!Stored(r) THEN P!Decision(r) ELSE routed[m]
         /\ \A m \in Media :
              \/ offered'[m] = offered[m]
                 /\ ~ (routed'[m] # None /\ routed'[m].order = run[r].order)
              \/ offered'[m] = {}
              \/ m \in run[r].media /\ offered'[m] = {P!Decision(r)}
                 /\ routed'[m] # None /\ routed'[m].order = run[r].order
<1>1. run[r] \in RunRecord /\ run[r].order \in Nat /\ run[r].seen \in Nat
  BY DEF ProposalsInv, Numbers, RunRecord
<1>2. P!Decision(r) \in Decisions /\ P!Decision(r).order = run[r].order
  BY <1>1 DEF P!Decision, Decisions
<1>3. /\ run[r].phase = "loaded" /\ UNCHANGED <<clock, lastOrder, edits>>
      /\ routed' = [m \in Media |-> IF m \in P!Stored(r) THEN P!Decision(r) ELSE routed[m]]
      /\ run' = [q \in Runs |->
                   IF q = r THEN [P!Idle EXCEPT !.phase = "stored"]
                   ELSE [run[q] EXCEPT !.since = @ \cup IF run[q].phase = "loaded"
                                                        THEN P!Stored(r) ELSE {}]]
  BY DEF P!Stores
<1>4. PICK moves \in SUBSET run[r].media :
        offered' = [m \in Media |-> IF m \notin P!Ours(r, routed') THEN offered[m]
                                    ELSE IF m \in moves THEN {P!Decision(r)} ELSE {}]
  BY DEF P!Stores
<1>5. P!Ours(r, routed') = {m \in Media : routed'[m] # None /\ routed'[m].order = run[r].order}
  BY DEF P!Ours
<1>6. P!Stored(r) \in SUBSET run[r].media
  BY DEF P!Stored
<1>7. run'[r] = [P!Idle EXCEPT !.phase = "stored"] /\ DOMAIN run' = Runs
  BY <1>3
<1>8. \A q \in Runs \ {r} :
        run'[q] = [run[q] EXCEPT !.since = run[q].since \cup
                                   IF run[q].phase = "loaded" THEN P!Stored(r) ELSE {}]
  BY <1>3
<1>9. ASSUME NEW m \in Media
      PROVE  \/ offered'[m] = offered[m]
                /\ ~ (routed'[m] # None /\ routed'[m].order = run[r].order)
             \/ offered'[m] = {}
             \/ m \in run[r].media /\ offered'[m] = {P!Decision(r)}
                /\ routed'[m] # None /\ routed'[m].order = run[r].order
  BY <1>4, <1>5
<1>10. DOMAIN offered' = Media
  BY <1>4
<1>11. DOMAIN routed' = Media /\ \A m \in Media :
              routed'[m] = IF m \in P!Stored(r) THEN P!Decision(r) ELSE routed[m]
  BY <1>3
<1> QED BY <1>1, <1>2, <1>3, <1>6, <1>7, <1>8, <1>9, <1>10, <1>11

LEMMA StoresSteps ==
  ASSUME ProposalsAssumed, ProposalsInv, NEW r \in Runs, P!Stores(r)
  PROVE  ProposalsInv'
<1> DEFINE stores == P!Stored(r)
           d == P!Decision(r)
<1>1. /\ run[r].phase = "loaded" /\ run[r] \in RunRecord
      /\ d \in Decisions /\ d.order = run[r].order
      /\ UNCHANGED <<clock, lastOrder, edits>>
      /\ run'[r] = [P!Idle EXCEPT !.phase = "stored"]
  BY StoresDoes
<1>2. \A q \in Runs \ {r} :
        run'[q] = [run[q] EXCEPT !.since = run[q].since \cup
                                   IF run[q].phase = "loaded" THEN stores ELSE {}]
  BY StoresDoes
<1>3. /\ DOMAIN run' = Runs /\ DOMAIN routed' = Media /\ DOMAIN offered' = Media
      /\ stores \in SUBSET run[r].media
      /\ \A m \in Media : routed'[m] = IF m \in stores THEN d ELSE routed[m]
  BY StoresDoes
<1>4. d # None
  BY <1>1 DEF ProposalsAssumed, P!NoneIsNoDecision, Decisions
<1>5. Numbers /\ run \in [Runs -> RunRecord]
  BY DEF ProposalsInv, Numbers
<1>6. \A m \in Media : m \in stores => run[r].media # {}
  BY <1>3
<1>7. \A m \in Media :
        \/ offered'[m] = offered[m] /\ ~ (routed'[m] # None /\ routed'[m].order = run[r].order)
        \/ offered'[m] = {}
        \/ m \in run[r].media /\ offered'[m] = {d}
           /\ routed'[m] # None /\ routed'[m].order = run[r].order
  BY StoresDoes
<1> HIDE DEF stores, d
<1>8. run'[r] \in RunRecord /\ run'[r].phase = "stored"
  BY <1>1, IdleIsARun DEF RunRecord
<1>9. ASSUME NEW q \in Runs, q # r
      PROVE  /\ run'[q] \in RunRecord /\ run'[q].phase = run[q].phase
             /\ run'[q].order = run[q].order /\ run'[q].media = run[q].media
             /\ run[q].phase = "loaded" => run'[q].since = run[q].since \cup stores
  <2>1. run[q] \in RunRecord /\ stores \in SUBSET Media
    BY <1>1, <1>3, <1>5 DEF RunRecord
  <2> DEFINE told == IF run[q].phase = "loaded" THEN stores ELSE {}
  <2>2. run'[q] = [run[q] EXCEPT !.since = run[q].since \cup told]
    BY <1>2, <1>9
  <2>3. told \in SUBSET Media /\ (run[q].phase = "loaded" => told = stores)
    BY <2>1
  <2> HIDE DEF told
  <2> QED BY <2>1, <2>2, <2>3 DEF RunRecord
<1>10. run' \in [Runs -> RunRecord]
  <2>1. \A q \in Runs : run'[q] \in RunRecord
    BY <1>8, <1>9
  <2>2. run' = [q \in Runs |-> run'[q]]
    <3>1. run' = [q \in Runs |->
                   IF q = r THEN [P!Idle EXCEPT !.phase = "stored"]
                   ELSE [run[q] EXCEPT !.since = @ \cup IF run[q].phase = "loaded"
                                                        THEN P!Stored(r) ELSE {}]]
      BY DEF P!Stores
    <3> QED BY <3>1
  <2> QED BY <2>1, <2>2
<1>11. routed' \in [Media -> Decisions \cup {None}]
  <2>1. \A m \in Media : routed'[m] \in Decisions \cup {None}
    BY <1>1, <1>3, <1>5 DEF Numbers
  <2>2. routed' = [m \in Media |-> routed'[m]]
    <3>1. routed' = [m \in Media |-> IF m \in P!Stored(r) THEN P!Decision(r) ELSE routed[m]]
      BY DEF P!Stores
    <3> QED BY <3>1
  <2> QED BY <2>1, <2>2
<1>12. Numbers'
  BY <1>1, <1>5, <1>10, <1>11 DEF Numbers
<1>13. OrdersBounded'
  <2>1. PICK k \in Nat : \A m \in Media : routed[m] # None => routed[m].order <= k
    BY DEF ProposalsInv, OrdersBounded
  <2>2. d.order \in Nat
    BY <1>1 DEF Decisions
  <2>3. \A m \in Media : routed[m] # None => routed[m].order \in Nat
    BY <1>5 DEF Numbers, Decisions
  <2>4. k + d.order \in Nat
    BY <2>2
  <2>5. \A m \in Media : routed'[m] # None => routed'[m].order <= k + d.order
    BY <1>3, <2>1, <2>2, <2>3
  <2> QED BY <2>4, <2>5 DEF OrdersBounded
<1>14. OrdersGiven'
  <2>1. \A q \in Runs : UnderWay(q)' => q # r /\ UnderWay(q) /\ run'[q].order = run[q].order
    BY <1>8, <1>9 DEF UnderWay
  <2>2. ASSUME NEW q \in Runs, UnderWay(q)' PROVE run'[q].order <= lastOrder'
    BY <1>1, <2>1, <2>2 DEF ProposalsInv, OrdersGiven
  <2>3. ASSUME NEW q \in Runs, NEW u \in Runs, UnderWay(q)', UnderWay(u)', q # u
        PROVE  run'[q].order # run'[u].order
    BY <2>1, <2>3 DEF ProposalsInv, OrdersGiven
  <2> QED BY <2>2, <2>3 DEF OrdersGiven
<1>15. ASSUME NEW q \in Runs, run'[q].phase = "loaded"
       PROVE  q # r /\ run[q].phase = "loaded" /\ run'[q].order = run[q].order
              /\ run'[q].media = run[q].media /\ run'[q].since = run[q].since \cup stores
              /\ d.order # run[q].order
  <2>1. q # r
    BY <1>8, <1>15
  <2>2. run[r].order # run[q].order
    BY <1>1, <1>9, <1>15, <2>1 DEF UnderWay, ProposalsInv, OrdersGiven
  <2> QED BY <1>1, <1>9, <1>15, <2>1, <2>2
<1>16. OwnOrder'
  <2> SUFFICES ASSUME NEW q \in Runs, NEW m \in Media, run'[q].phase = "loaded",
                      run'[q].media # {}, routed'[m] # None
               PROVE  routed'[m].order # run'[q].order
    BY DEF OwnOrder
  <2>1. CASE m \in stores
    BY <1>3, <1>15, <2>1
  <2>2. CASE m \notin stores
    <3>1. routed'[m] = routed[m]
      BY <1>3, <2>2
    <3> QED BY <1>15, <3>1 DEF ProposalsInv, OwnOrder
  <2> QED BY <2>1, <2>2
<1>17. AboveWhatItRead'
  <2> SUFFICES ASSUME NEW q \in Runs, NEW m \in run'[q].media \ run'[q].since,
                      run'[q].phase = "loaded", routed'[m] # None
               PROVE  routed'[m].order < run'[q].order
    BY DEF AboveWhatItRead
  <2>1. m \in run[q].media \ run[q].since /\ m \notin stores /\ m \in Media
    BY <1>5, <1>15 DEF RunRecord
  <2>2. routed'[m] = routed[m]
    BY <1>3, <2>1
  <2> QED BY <1>15, <2>1, <2>2 DEF ProposalsInv, AboveWhatItRead
<1>18. OfferedIsShown'
  <2> SUFFICES ASSUME NEW m \in Media, offered'[m] # {}
               PROVE  routed'[m] # None /\ offered'[m] = {routed'[m]}
    BY DEF OfferedIsShown
  <2>1. CASE offered'[m] = offered[m] /\ ~ (routed'[m] # None /\ routed'[m].order = run[r].order)
    <3>1. m \notin stores
      BY <1>1, <1>3, <1>4, <2>1
    <3>2. routed'[m] = routed[m]
      BY <1>3, <3>1
    <3> QED BY <2>1, <3>2 DEF ProposalsInv, OfferedIsShown
  <2>2. CASE m \in run[r].media /\ offered'[m] = {d}
             /\ routed'[m] # None /\ routed'[m].order = run[r].order
    <3>1. m \in stores
      <4> SUFFICES ASSUME m \notin stores PROVE FALSE
        OBVIOUS
      <4>1. routed'[m] = routed[m]
        BY <1>3
      <4> QED BY <1>1, <2>2, <4>1 DEF ProposalsInv, OwnOrder
    <3> QED BY <1>3, <2>2, <3>1
  <2> QED BY <1>7, <2>1, <2>2
<1> QED BY <1>3, <1>12, <1>13, <1>14, <1>16, <1>17, <1>18 DEF ProposalsInv

(* A row that goes takes its decision and its proposals along. *)
LEMMA RetireSteps ==
  ASSUME ProposalsInv, NEW m \in Media, NEW reassigned \in BOOLEAN, P!Retire(m, reassigned)
  PROVE  ProposalsInv'
<1>1. /\ edits' = edits + 1 /\ routed' = [routed EXCEPT ![m] = None]
      /\ offered' = [offered EXCEPT ![m] = {}] /\ clock' = clock /\ lastOrder' = lastOrder
      /\ run' = run
  BY DEF P!Retire
<1>2. DOMAIN routed = Media /\ DOMAIN offered = Media
  BY DEF ProposalsInv, Numbers
<1>3. /\ routed'[m] = None /\ offered'[m] = {}
      /\ \A n \in Media : n # m => routed'[n] = routed[n] /\ offered'[n] = offered[n]
  BY <1>1, <1>2
<1>4. Numbers'
  BY <1>1 DEF ProposalsInv, Numbers
<1>5. OrdersBounded'
  BY <1>3 DEF ProposalsInv, OrdersBounded
<1>6. OrdersGiven'
  BY <1>1 DEF ProposalsInv, OrdersGiven, UnderWay
<1>7. OwnOrder'
  BY <1>1, <1>3 DEF ProposalsInv, OwnOrder
<1>8. AboveWhatItRead'
  <2> SUFFICES ASSUME NEW r \in Runs, NEW n \in run[r].media \ run[r].since,
                      run[r].phase = "loaded", routed'[n] # None
               PROVE  routed'[n].order < run[r].order
    BY <1>1 DEF AboveWhatItRead
  <2>1. n \in Media
    BY DEF ProposalsInv, Numbers, RunRecord
  <2>2. n # m /\ routed'[n] = routed[n]
    BY <1>3, <2>1
  <2> QED BY <2>1, <2>2 DEF ProposalsInv, AboveWhatItRead
<1>9. OfferedIsShown' /\ DOMAIN offered' = Media
  <2>1. DOMAIN offered' = Media
    BY <1>1, <1>2
  <2>2. OfferedIsShown'
    BY <1>3 DEF ProposalsInv, OfferedIsShown
  <2> QED BY <2>1, <2>2
<1> QED BY <1>4, <1>5, <1>6, <1>7, <1>8, <1>9 DEF ProposalsInv

(* A restart leaves no run under way, on the rows it finds.                *)
LEMMA RestartSteps ==
  ASSUME ProposalsAssumed, ProposalsInv, P!Restart
  PROVE  ProposalsInv'
<1>1. /\ lastOrder' = 0 /\ run' = [r \in Runs |-> P!Idle] /\ edits' = edits
      /\ clock' \in 0..clock
  BY DEF P!Restart
<1>2. clock' \in Nat /\ lastOrder' \in Nat /\ edits' \in Nat
  BY <1>1 DEF ProposalsInv, Numbers
<1>3. \A r \in Runs : run'[r].phase = "idle" /\ run'[r] \in RunRecord
  BY <1>1, IdleIsARun
<1>4. run' \in [Runs -> RunRecord]
  BY <1>1, IdleIsARun
<1>5. OrdersGiven' /\ OwnOrder' /\ AboveWhatItRead'
  BY <1>3 DEF OrdersGiven, UnderWay, OwnOrder, AboveWhatItRead
<1>6. CASE UNCHANGED <<routed, offered>>
  <2>1. Numbers'
    BY <1>2, <1>4, <1>6 DEF ProposalsInv, Numbers
  <2>2. OrdersBounded'
    BY <1>6 DEF ProposalsInv, OrdersBounded
  <2>3. OfferedIsShown' /\ DOMAIN offered' = Media
    BY <1>6 DEF ProposalsInv, OfferedIsShown
  <2> QED BY <1>5, <2>1, <2>2, <2>3 DEF ProposalsInv
<1>7. CASE routed' = P!Archived.routed /\ offered' = P!Archived.offered
  <2> DEFINE ahead == [order |-> MaxOrder + 1, seen |-> 0]
  <2>1. /\ routed' = [m \in Media |-> ahead]
        /\ offered' = [m \in Media |-> {ahead}]
    BY <1>7 DEF P!Archived
  <2>2. ahead \in Decisions /\ ahead.order = MaxOrder + 1 /\ MaxOrder + 1 \in Nat
    BY DEF ProposalsAssumed, P!OrdersAreNumbers, Decisions
  <2>3. ahead # None
    BY <2>2 DEF ProposalsAssumed, P!NoneIsNoDecision, Decisions
  <2> HIDE DEF ahead
  <2>4. Numbers'
    BY <1>2, <1>4, <2>1, <2>2 DEF Numbers
  <2>5. \A m \in Media : routed'[m] # None => routed'[m].order <= MaxOrder + 1
    BY <2>1, <2>2
  <2>6. OrdersBounded'
    BY <2>2, <2>5 DEF OrdersBounded
  <2>7. OfferedIsShown' /\ DOMAIN offered' = Media
    BY <2>1, <2>3 DEF OfferedIsShown
  <2> QED BY <1>5, <2>4, <2>6, <2>7 DEF ProposalsInv
<1> QED BY <1>6, <1>7 DEF P!Restart, P!stored

LEMMA NextProposalsInv ==
  ProposalsAssumed /\ ProposalsInv /\ [P!Next]_P!vars => ProposalsInv'
<1> SUFFICES ASSUME ProposalsAssumed, ProposalsInv, [P!Next]_P!vars
             PROVE  ProposalsInv'
  OBVIOUS
<1>1. ASSUME NEW r \in Runs, P!Asked(r, TRUE, Media) PROVE ProposalsInv'
  BY <1>1, AskedSteps
<1>2. ASSUME NEW r \in Runs, NEW m \in Media, P!Asked(r, FALSE, {m}) PROVE ProposalsInv'
  <2>1. {m} \in SUBSET Media
    OBVIOUS
  <2> QED BY <1>2, <2>1, AskedSteps
<1>3. ASSUME NEW r \in Runs, P!Loads(r) PROVE ProposalsInv'
  BY <1>3, LoadsSteps
<1>4. ASSUME NEW r \in Runs, P!Stores(r) PROVE ProposalsInv'
  BY <1>4, StoresSteps
<1>5. ASSUME NEW r \in Runs, P!Fails(r) PROVE ProposalsInv'
  BY <1>5, FailsSteps
<1>6. ASSUME clock' \in Nat, edits' \in Nat, UNCHANGED <<lastOrder, routed, offered, run>>
      PROVE  ProposalsInv'
  <2>1. Numbers'
    BY <1>6 DEF ProposalsInv, Numbers
  <2>2. OrdersBounded' /\ OrdersGiven' /\ OwnOrder' /\ AboveWhatItRead'
    BY <1>6 DEF ProposalsInv, OrdersBounded, OrdersGiven, UnderWay, OwnOrder, AboveWhatItRead
  <2>3. OfferedIsShown' /\ DOMAIN offered' = Media
    BY <1>6 DEF ProposalsInv, OfferedIsShown
  <2> QED BY <2>1, <2>2, <2>3 DEF ProposalsInv
<1>7. clock \in Nat /\ edits \in Nat
  BY DEF ProposalsInv, Numbers
<1>8. ASSUME NEW m \in Media, P!Edit(m) PROVE ProposalsInv'
  BY <1>6, <1>7, <1>8 DEF P!Edit
<1>9. ASSUME NEW m \in Media, P!Settled(m) PROVE ProposalsInv'
  <2>1. /\ offered' = [offered EXCEPT ![m] = {}]
        /\ UNCHANGED <<clock, lastOrder, routed, run, edits>>
    BY <1>9 DEF P!Settled
  <2>2. Numbers'
    BY <2>1 DEF ProposalsInv, Numbers
  <2>3. OrdersBounded' /\ OrdersGiven' /\ OwnOrder' /\ AboveWhatItRead'
    BY <2>1 DEF ProposalsInv, OrdersBounded, OrdersGiven, UnderWay, OwnOrder, AboveWhatItRead
  <2>4. DOMAIN offered' = Media /\ OfferedIsShown'
    BY <2>1 DEF ProposalsInv, OfferedIsShown
  <2> QED BY <2>2, <2>3, <2>4 DEF ProposalsInv
<1>10. ASSUME NEW m \in Media, NEW reassigned \in BOOLEAN, P!Retire(m, reassigned)
       PROVE  ProposalsInv'
  BY <1>10, RetireSteps
<1>11. CASE P!ClockRuns
  BY <1>6, <1>7, <1>11 DEF P!ClockRuns, P!stored
<1>12. CASE P!Restart
  BY <1>12, RestartSteps
<1>13. CASE UNCHANGED P!vars
  BY <1>6, <1>7, <1>13 DEF P!vars, P!stored
<1> QED BY <1>1, <1>2, <1>3, <1>4, <1>5, <1>8, <1>9, <1>10, <1>11, <1>12, <1>13 DEF P!Next

LEMMA ProposalsInvariant == ProposalsAssumed => (P!Spec => []ProposalsInv)
<1> SUFFICES ASSUME ProposalsAssumed PROVE P!Spec => []ProposalsInv
  OBVIOUS
<1>1. P!Init => ProposalsInv
  BY InitProposalsInv
<1>2. ProposalsInv /\ [P!Next]_P!vars => ProposalsInv'
  BY NextProposalsInv
<1> QED BY <1>1, <1>2, PTL DEF P!Spec

LEMMA OneElement == \A x : P!Cardinality({x}) = 1
<1>1. \A S : P!Cardinality(S) = Cardinality(S)
  BY Zenon DEF P!Cardinality, Cardinality
<1> QED BY <1>1, FS_Singleton

(* Whatever the order in which simulations load and store, restarts and    *)
(* archives of a later clock, what is offered for a title is one proposal, *)
(* the decision the library shows for it (routing.rs store_run).           *)
THEOREM OfferedAsShown == ProposalsAssumed => (P!Spec => []P!OneProposalOfTheRunShown)
<1> SUFFICES ASSUME ProposalsAssumed PROVE P!Spec => []P!OneProposalOfTheRunShown
  OBVIOUS
<1>1. ProposalsInv => P!OneProposalOfTheRunShown
  <2> SUFFICES ASSUME ProposalsInv, NEW m \in Media, offered[m] # {}
               PROVE  /\ routed[m] # None /\ P!Cardinality(offered[m]) = 1
                      /\ \A d \in offered[m] : d = routed[m]
    BY DEF P!OneProposalOfTheRunShown
  <2>1. routed[m] # None /\ offered[m] = {routed[m]}
    BY DEF ProposalsInv, OfferedIsShown
  <2> QED BY <2>1, OneElement
<1> QED BY <1>1, ProposalsInvariant, PTL

LEMMA StoresAllItRead ==
  ASSUME ProposalsInv, [P!Next]_P!vars
  PROVE  P!StoresWhatItRead
<1> SUFFICES ASSUME NEW r \in Runs, run[r].phase = "loaded", run'[r].phase = "stored",
                    NEW m \in run[r].media \ run[r].since, said[m] # None
             PROVE  routed'[m] = P!Decision(r)
  BY DEF P!StoresWhatItRead
<1>1. DOMAIN run = Runs /\ run \in [Runs -> RunRecord] /\ m \in Media
  BY DEF ProposalsInv, Numbers, RunRecord
<1>2. P!Idle.phase = "idle"
  BY IdleIsARun
<1>3. P!Stores(r)
  <2>1. ASSUME NEW q \in Runs, NEW whole, NEW media, P!Asked(q, whole, media) PROVE FALSE
    <3>1. run'[r] = run[r] \/ run'[r].phase = "asked"
      BY <1>1, <2>1, IdleIsARun DEF P!Asked
    <3> QED BY <3>1
  <2>2. ASSUME NEW q \in Runs, P!Loads(q) PROVE FALSE
    <3>1. run[q].phase = "asked" /\ q # r
      BY <2>2 DEF P!Loads
    <3>2. run'[r] = run[r]
      BY <1>1, <2>2, <3>1 DEF P!Loads
    <3> QED BY <3>2
  <2>3. ASSUME NEW q \in Runs, P!Fails(q) PROVE FALSE
    <3>1. run'[r] = run[r] \/ run'[r] = P!Idle
      BY <1>1, <2>3 DEF P!Fails
    <3> QED BY <1>2, <3>1
  <2>4. ASSUME NEW q \in Runs, P!Stores(q), q # r PROVE FALSE
    <3> DEFINE told == run[r].since \cup IF run[r].phase = "loaded" THEN P!Stored(q) ELSE {}
    <3>1. run'[r] = [run[r] EXCEPT !.since = told]
      BY <2>4 DEF P!Stores
    <3> HIDE DEF told
    <3>2. run'[r].phase = run[r].phase
      BY <1>1, <3>1 DEF RunRecord
    <3> QED BY <3>2
  <2>5. ASSUME P!Restart PROVE FALSE
    BY <1>2, <2>5 DEF P!Restart
  <2>6. ASSUME run' = run PROVE FALSE
    BY <2>6
  <2>7. ASSUME NEW n \in Media, P!Edit(n) \/ P!Settled(n) \/ \E re \in BOOLEAN : P!Retire(n, re)
        PROVE  FALSE
    BY <2>6, <2>7 DEF P!Edit, P!Settled, P!Retire
  <2>8. ASSUME P!ClockRuns PROVE FALSE
    BY <2>6, <2>8 DEF P!ClockRuns
  <2>9. ASSUME UNCHANGED P!vars PROVE FALSE
    BY <2>6, <2>9 DEF P!vars
  <2> QED BY <2>1, <2>2, <2>3, <2>4, <2>5, <2>7, <2>8, <2>9 DEF P!Next
<1>4. m \in P!Stored(r)
  <2>1. routed[m] = None \/ routed[m].order < run[r].order
    BY DEF ProposalsInv, AboveWhatItRead
  <2>2. run[r].order \in Nat /\ (routed[m] # None => routed[m].order \in Nat)
    BY <1>1 DEF ProposalsInv, Numbers, RunRecord, Decisions
  <2>3. routed[m] = None \/ run[r].order > routed[m].order
    BY <2>1, <2>2
  <2> QED BY <2>3 DEF P!Stored
<1> QED BY <1>1, <1>3, <1>4, StoresDoes

(* A run stores every title it read whose row is still there, unless       *)
(* another run stored it meanwhile: no clock set back, restart or archive  *)
(* leaves it with an order under the stored ones (above_stored).           *)
THEOREM ReadIsStored == ProposalsAssumed => (P!Spec => P!RunAloneIsStored)
<1> SUFFICES ASSUME ProposalsAssumed PROVE P!Spec => P!RunAloneIsStored
  OBVIOUS
<1>1. ProposalsInv /\ [P!Next]_P!vars => [P!StoresWhatItRead]_P!vars
  BY StoresAllItRead
<1> QED BY <1>1, ProposalsInvariant, PTL DEF P!Spec, P!RunAloneIsStored
=============================================================================
