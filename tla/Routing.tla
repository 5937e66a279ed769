------------------------------- MODULE Routing -------------------------------
(***************************************************************************)
(* Where titles go: one pass over the library of an instance               *)
(* (services/routing.rs: evaluate_pass, route, destination) under the rule *)
(* engine (services/rule_engine/mod.rs), the proposals it leaves, and the  *)
(* target an apply works out again, one title at a time, once the free     *)
(* space has changed and other titles have moved.                          *)
(*                                                                         *)
(* What a condition asks of a title is Conditions'; here a title has       *)
(* genres, a language and a size.                                          *)
(* Folders are numbered in the order of their paths.                       *)
(***************************************************************************)
EXTENDS Conditions, FiniteSets, SequencesExt, FiniteSetsExt

CONSTANTS
  Library,     \* the titles, in the library's order
  RuleBooks,   \* the rules there may be, as the database returns them
  Answers,     \* what a source may have answered of a title
  Folders, Volumes, VolumeOf,
  Categories, DefaultCategory,
  Mappings,    \* the folders each category may have been given
  Sizes, FreeSpaces,
  None,
  MaxChanges

FoldersAreNumbered == Folders \subseteq Nat \ {0}
FinitelyManyFolders == IsFiniteSet(Folders)
EachOnAVolume == VolumeOf \in [Folders -> Volumes]
SizesAreNumbers == Unknown \notin Int /\ FreeSpaces \cup Sizes \subseteq Int
MapsToFolders == Mappings \subseteq [Categories -> SUBSET Folders]
FoldersOfOneCategory ==
  \A sets \in Mappings : \A c, d \in Categories : c # d => sets[c] \cap sets[d] = {}

VARIABLES
  rules, media, sets, free, override,
  proposed,  \* the target of each pending proposal
  pass,      \* the pass under way, with what it loaded
  asProposed,\* ghost: nothing a target is read from has changed since the proposals but free space
  changes

vars == <<rules, media, sets, free, override, proposed, pass, asProposed, changes>>

Titles == ToSet(Library)
LibraryIsInOrder == Library \in Seq(Titles)
NoPass == [at |-> 0]

-----------------------------------------------------------------------------
(* What a title carries (resolve_metadata): the first source in the order  *)
(* with a value keeps each field; the Arr's English comes last.            *)
FirstKnown(values, nothing) ==
  IF \A i \in DOMAIN values : values[i] = nothing THEN nothing
  ELSE SelectSeq(values, LAMBDA v : v # nothing)[1]

Genres(m) == FirstKnown([i \in DOMAIN m.answers |-> m.answers[i].genres], {})

ArrsEnglish(a) == a.arr /\ a.language = "en"
Language(m) ==
  LET said == [i \in DOMAIN m.answers |->
                 IF ArrsEnglish(m.answers[i]) THEN None ELSE m.answers[i].language]
      last == [i \in DOMAIN m.answers |->
                 IF ArrsEnglish(m.answers[i]) THEN "en" ELSE None]
  IN FirstKnown(said \o last, None)

Carried ==
  [folder : Folders \cup {None}, size : Sizes, answers : Answers, kind : {"movie"}]

(* What the conditions read of a title, in the form Conditions gives it.   *)
Reading(m) ==
  [known |-> \E i \in DOMAIN m.answers : m.answers[i].genres # {} \/ m.answers[i].language # None,
   values |-> [genre |-> Genres(m), language |-> {Language(m)} \ {None}],
   number |-> [size |-> m.size]]

(* tried_before, and Prepared: the enabled rules in order. *)
TriedBefore(r, s) ==
  \/ r.priority < s.priority
  \/ r.priority = s.priority /\ r.name < s.name
  \/ r.priority = s.priority /\ r.name = s.name /\ r.id < s.id
Prepared(book) ==
  SortSeq(SelectSeq(book, LAMBDA r : r.enabled), TriedBefore)

(* evaluate_prepared: an exception, or the first rule to hold. *)
Applies(r, m) == m.kind \in r.kinds
Matches(book, m) ==
  SelectSeq(Prepared(book), LAMBDA r : Applies(r, m) /\ Fires(r, Reading(m)))
Category(ctx, t) ==
  IF ctx.override[t] # None THEN ctx.override[t]
  ELSE IF Matches(ctx.rules, ctx.media[t]) = <<>> THEN DefaultCategory
  ELSE Head(Matches(ctx.rules, ctx.media[t])).category

RulesNameCategories ==
  /\ DefaultCategory \in Categories
  /\ \A book \in RuleBooks, m \in Carried :
       Matches(book, m) # <<>> => Head(Matches(book, m)).category \in Categories

-----------------------------------------------------------------------------
(* destination: the folder its proposal names, else the one with the most  *)
(* room, a room not known coming last, and the first path on a tie.        *)
Room(ctx, planned, f) == IF ctx.free[f] = Unknown THEN Unknown ELSE ctx.free[f] - planned[f]
Roomier(ctx, planned, f, g) ==
  LET rf == Room(ctx, planned, f)
      rg == Room(ctx, planned, g)
  IN \/ rg = Unknown /\ rf # Unknown
     \/ rf # Unknown /\ rg # Unknown /\ rf > rg
     \/ rf = rg /\ f < g

(* Mutant: the roomiest folder, whatever was proposed. *)
DestinationNow(ctx, t, set, planned) ==
  CHOOSE f \in set : \A g \in set \ {f} : Roomier(ctx, planned, f, g)

Destination(ctx, t, set, planned) ==
  IF ctx.proposed[t] \in set THEN ctx.proposed[t]
  ELSE CHOOSE f \in set : \A g \in set \ {f} : Roomier(ctx, planned, f, g)

(* route *)
Route(ctx, t, planned) ==
  LET set == ctx.sets[Category(ctx, t)] IN
  CASE set = {} -> [action |-> "skip", target |-> None]
    [] ctx.media[t].folder \in set -> [action |-> "none", target |-> ctx.media[t].folder]
    [] OTHER -> [action |-> "move", target |-> Destination(ctx, t, set, planned)]

(* load_context, in one snapshot. *)
Context ==
  [rules |-> rules, media |-> media, sets |-> sets, free |-> free, override |-> override,
   proposed |-> proposed]

NothingPlanned == [f \in Folders |-> 0]

Begins ==
  /\ pass = NoPass
  /\ pass' = [at |-> 1, ctx |-> Context, planned |-> NothingPlanned, sent |-> {},
              verdict |-> [t \in Titles |-> [action |-> "skip", target |-> None]]]
  /\ UNCHANGED <<rules, media, sets, free, override, proposed, asProposed, changes>>

(* Equal free space is one filesystem, where a move consumes nothing. *)
FreeOf(ctx, f) == IF f \in Folders THEN ctx.free[f] ELSE Unknown
SameFilesystem(ctx, to, from) == FreeOf(ctx, to) # Unknown /\ FreeOf(ctx, to) = FreeOf(ctx, from)

Evaluates ==
  /\ pass # NoPass /\ pass.at <= Len(Library)
  /\ LET t == Library[pass.at]
         r == Route(pass.ctx, t, pass.planned)
         m == pass.ctx.media[t]
         there == r.action = "move" /\ ~ SameFilesystem(pass.ctx, r.target, m.folder)
         more == [pass.planned EXCEPT ![r.target] = @ + m.size]
     IN pass' = [pass EXCEPT
          !.at = @ + 1,
          !.verdict[t] = r,
          !.sent = IF r.action = "move" THEN @ \cup {r.target} ELSE @,
          !.planned = IF there THEN more ELSE @]
  /\ UNCHANGED <<rules, media, sets, free, override, proposed, asProposed, changes>>

Evaluated == pass # NoPass /\ pass.at > Len(Library)

(* store_run: what the pass decided replaces what it read. *)
Stores ==
  /\ Evaluated
  /\ proposed' = [t \in Titles |->
       IF pass.verdict[t].action = "move" THEN pass.verdict[t].target ELSE None]
  /\ asProposed' = (Context.rules = pass.ctx.rules /\ media = pass.ctx.media
                    /\ sets = pass.ctx.sets /\ override = pass.ctx.override)
  /\ pass' = NoPass
  /\ UNCHANGED <<rules, media, sets, free, override, changes>>

-----------------------------------------------------------------------------
(* Mutant: each folder is looked at alone. *)
FitsAlone(f) == pass.planned[f] <= pass.ctx.free[f]

(* The forecast of a pass: whether what each folder receives fits, folders *)
(* with equal free space being one volume, which must fit their sum.       *)
Forecast == {f \in pass.sent : pass.ctx.free[f] # Unknown}
Fits(f) ==
  FoldSet(LAMBDA g, sum : sum + pass.planned[g], 0,
          {g \in Forecast : pass.ctx.free[g] = pass.ctx.free[f]}) <= pass.ctx.free[f]

(* An apply works out where it would send a title now, no other move       *)
(* counted (revalidated_targets): a proposal that says otherwise is stale, *)
(* skipped and retired.                                                    *)
TargetNow(t) == Route(Context, t, NothingPlanned)
Stale(t) == TargetNow(t) # [action |-> "move", target |-> proposed[t]]

Moves(t) ==
  /\ proposed[t] # None
  /\ \/ ~Stale(t) /\ media' = [media EXCEPT ![t].folder = proposed[t]]
     \/ Stale(t) /\ UNCHANGED media
  /\ proposed' = [proposed EXCEPT ![t] = None]
  /\ UNCHANGED <<rules, sets, free, override, pass, asProposed, changes>>

(* What changes between the proposals and the apply. *)
Change == changes < MaxChanges /\ changes' = changes + 1

Measured ==
  /\ Change
  /\ \E v \in Volumes, n \in FreeSpaces \cup {Unknown} :
       free' = [f \in Folders |-> IF VolumeOf[f] = v THEN n ELSE free[f]]
  /\ UNCHANGED <<rules, media, sets, override, proposed, pass, asProposed>>

Remapped ==
  /\ Change
  /\ \E f \in Folders, c \in Categories \cup {None} :
       sets' = [d \in Categories |-> IF d = c THEN sets[d] \cup {f} ELSE sets[d] \ {f}]
  /\ asProposed' = FALSE
  /\ UNCHANGED <<rules, media, free, override, proposed, pass>>

Pinned(t) ==
  /\ Change
  /\ \E c \in Categories \cup {None} : override' = [override EXCEPT ![t] = c]
  /\ asProposed' = FALSE
  /\ UNCHANGED <<rules, media, sets, free, proposed, pass>>

Init ==
  /\ rules \in RuleBooks
  /\ media \in [Titles -> {m \in Carried : m.folder = None}]
  /\ sets \in Mappings
  /\ \E on \in [Volumes -> FreeSpaces] : free = [f \in Folders |-> on[VolumeOf[f]]]
  /\ override = [t \in Titles |-> None]
  /\ proposed = [t \in Titles |-> None]
  /\ pass = NoPass
  /\ asProposed = FALSE
  /\ changes = 0

Next ==
  \/ Begins \/ Evaluates \/ Stores
  \/ \E t \in Titles : Moves(t) \/ Pinned(t)
  \/ Measured \/ Remapped

Spec == Init /\ [][Next]_vars

-----------------------------------------------------------------------------
TypeOK ==
  /\ sets \in [Categories -> SUBSET Folders]
  /\ free \in [Folders -> FreeSpaces \cup {Unknown}]
  /\ override \in [Titles -> Categories \cup {None}]
  /\ proposed \in [Titles -> Folders \cup {None}]

(* What an apply works out for a title alone is what the pass proposed for *)
(* it among others, however the free space has changed since and whichever *)
(* of the others have moved (destination).                                 *)
GoesWhereProposed ==
  asProposed =>
    \A t \in Titles : proposed[t] # None => TargetNow(t) = [action |-> "move", target |-> proposed[t]]

(* When the forecast says every folder fits, no volume is sent more than   *)
(* it has free, two folders of one volume included, as long as no two      *)
(* volumes have the same free space (evaluate_pass, capacity).             *)
FreeOn(v) == {pass.ctx.free[f] : f \in {g \in Folders : VolumeOf[g] = v}}
SentTo(v) ==
  {t \in Titles : /\ pass.verdict[t].action = "move" /\ VolumeOf[pass.verdict[t].target] = v
                  /\ pass.ctx.media[t].folder \in Folders =>
                       VolumeOf[pass.ctx.media[t].folder] # v}
ForecastHolds ==
  Evaluated
  /\ (\A v, w \in Volumes : v # w => FreeOn(v) \cap FreeOn(w) \subseteq {Unknown})
  /\ (\A f \in Forecast : Fits(f))
  => \A v \in Volumes : Unknown \notin FreeOn(v) =>
       \A n \in FreeOn(v) :
         FoldSet(LAMBDA t, sum : sum + pass.ctx.media[t].size, 0, SentTo(v)) <= n
=============================================================================
