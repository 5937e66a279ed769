-------------------------- MODULE ReferencesProofs --------------------------
(***************************************************************************)
(* NamesExist holds of References for any names, folders, titles, bundles  *)
(* and bounds: no step of any writer, in either of its two steps, leaves a *)
(* name behind.                                                            *)
(* Then of Enrichment, of Routing and of Validation, each with variables   *)
(* of its own: an enrichment pass accounts for every work it considered    *)
(* and records no miss of a broken source, a title goes where its proposal *)
(* said, and what the editor refuses as contradicting itself never fires.  *)
(***************************************************************************)
EXTENDS References, FiniteSets, Sequences, FiniteSetTheorems, WellFoundedInduction, TLAPS

(* What the steps rest on: NamesExist, the tables being functions, and a   *)
(* template in hand making every category its rules name.                  *)
TablesNamed ==
  /\ mapping \in [Folders -> categories \cup {None}]
  /\ pin \in [Titles -> categories \cup {None}]
  /\ retired \in [Titles -> categories \cup {None}]
RulesNamed == \A r \in rules : r.target \in categories
RestNamed == fallback \in categories /\ expected \subseteq categories
TemplateMakes ==
  request # None /\ request.kind = "template" =>
    \A d \in request.adds : d.target \in request.makes
IInv == RestNamed /\ RulesNamed /\ TablesNamed /\ TemplateMakes

(* The invariant is what NamesExist says.                                  *)
LEMMA InvariantImplies == IInv => NamesExist
BY DEF IInv, RestNamed, RulesNamed, TablesNamed, NamesExist

(* It holds of a fresh installation, which has its one category.           *)
LEMMA InvariantBegins == Init => IInv
BY DEF Init, IInv, RestNamed, RulesNamed, TablesNamed, TemplateMakes

(* Rules inserted name what the drafts name, beside the rules kept.        *)
LEMMA InsertedAreNamed ==
  ASSUME NEW kept, NEW drafts, NEW ofTemplate,
         \A r \in kept : r.target \in categories',
         \A d \in drafts : d.target \in categories',
         Insert(kept, drafts, ofTemplate)
  PROVE RulesNamed'
<1>1. PICK id \in [drafts -> (born + 1)..born'] :
        rules' = kept \cup
          {[id |-> id[d], target |-> d.target, scope |-> d.scope, on |-> d.on,
            template |-> ofTemplate] : d \in drafts}
  BY DEF Insert
<1> QED BY <1>1 DEF RulesNamed

(* A request begun changes no table, and only a template's makes anything. *)
LEMMA BegunKeeps ==
  ASSUME IInv, NEW r, Begun(r),
         r = None \/ r.kind # "template" \/ \A d \in r.adds : d.target \in r.makes
  PROVE IInv'
BY DEF Begun, folders, titles, IInv, RestNamed, RulesNamed, TablesNamed, TemplateMakes

-----------------------------------------------------------------------------
(* Each writer of one step keeps the invariant.                            *)
LEMMA CategoriesKeep ==
  ASSUME IInv, NEW c \in Names, NEW n \in Names,
         Create(c) \/ SetFallback(c) \/ Rename(c, n) \/ Remove(c)
  PROVE IInv'
<1> USE DEF IInv, RestNamed, RulesNamed, TablesNamed, TemplateMakes
<1>1. CASE Create(c)
  BY <1>1 DEF Create, folders, titles
<1>2. CASE SetFallback(c)
  BY <1>2 DEF SetFallback, folders, titles
<1>3. CASE Rename(c, n)
  <2>1. /\ categories' = (categories \ {c}) \cup {n} /\ request' = request
        /\ fallback' = IF fallback = c THEN n ELSE fallback
        /\ expected' = {IF e = c THEN n ELSE e : e \in expected}
        /\ mapping' = [f \in Folders |-> IF mapping[f] = c THEN n ELSE mapping[f]]
        /\ pin' = [t \in Titles |-> IF pin[t] = c THEN n ELSE pin[t]]
        /\ retired' = [t \in Titles |-> IF retired[t] = c THEN n ELSE retired[t]]
    BY <1>3 DEF Rename
  <2>2. RulesNamed'
    <3>1. rules' = {[r EXCEPT !.target = IF @ = c THEN n ELSE @] : r \in rules}
      BY <1>3 DEF Rename
    <3>2. ASSUME NEW r \in rules
          PROVE [r EXCEPT !.target = IF @ = c THEN n ELSE @].target \in categories'
      BY <2>1
    <3> QED BY <3>1, <3>2
  <2>3. RestNamed' BY <2>1
  <2>4. TablesNamed' BY <2>1
  <2> QED BY <2>1, <2>2, <2>3, <2>4
<1>4. CASE Remove(c)
  BY <1>4 DEF Remove, Unused, folders
<1> QED BY <1>1, <1>2, <1>3, <1>4

LEMMA FoldersKeep ==
  ASSUME IInv, NEW f \in Folders, NEW c \in Names \cup {None},
         MapFolder(f, c) \/ Declare(f) \/ FolderListed(f) \/ FolderGone(f)
  PROVE IInv'
BY DEF IInv, RestNamed, RulesNamed, TablesNamed, TemplateMakes, MapFolder, Declare, FolderListed,
       FolderGone, titles

LEMMA PinKeeps ==
  ASSUME IInv, NEW t \in Titles, NEW c, Pin(t, c)
  PROVE IInv'
BY DEF Pin, folders, IInv, RestNamed, RulesNamed, TablesNamed, TemplateMakes

LEMMA TitlesKeep ==
  ASSUME IInv, NEW t \in Titles, Unpin(t) \/ Retire(t) \/ Return(t)
  PROVE IInv'
<1> USE DEF IInv, RestNamed, RulesNamed, TablesNamed, TemplateMakes
<1>1. CASE Unpin(t) BY <1>1 DEF Unpin, folders
<1>2. CASE Retire(t) BY <1>2 DEF Retire, folders
<1>3. CASE Return(t) BY <1>3 DEF Return, folders
<1> QED BY <1>1, <1>2, <1>3

LEMMA InstancesKeep ==
  ASSUME IInv, NEW i \in Instances, RemoveInstance(i)
  PROVE IInv'
<1> USE DEF IInv, RestNamed, RulesNamed, TablesNamed, TemplateMakes
<1>1. ASSUME NEW r \in rules
      PROVE [r EXCEPT !.scope = @ \ {i}, !.on = @ /\ r.scope # {i}].target \in categories
  OBVIOUS
<1>2. RulesNamed' BY <1>1 DEF RemoveInstance
<1> QED BY <1>2 DEF RemoveInstance

LEMMA TestsKeep ==
  ASSUME IInv, NEW e, NEW c, SetExpected(e, c) \/ DeleteCase(e)
  PROVE IInv'
BY DEF IInv, RestNamed, RulesNamed, TablesNamed, TemplateMakes, SetExpected, DeleteCase, folders,
       titles

LEMMA DeleteRuleKeeps ==
  ASSUME IInv, NEW r, DeleteRule(r)
  PROVE IInv'
BY DEF IInv, RestNamed, RulesNamed, TablesNamed, TemplateMakes, DeleteRule, folders, titles

-----------------------------------------------------------------------------
(* The first step of a request writes nothing; a template makes the        *)
(* category its rule names.                                                *)
LEMMA JudgesKeep ==
  ASSUME IInv, NEW r, NEW d, NEW c, NEW bundle, NEW create, NEW replace, NEW config,
         \/ JudgeRule(d) \/ JudgeCopy(r) \/ JudgeEdit(r, d) \/ JudgeTemplate(c, replace)
         \/ JudgeRules(bundle, create, replace) \/ JudgeConfig(config) \/ JudgeCase(c)
         \/ Drop
  PROVE IInv'
<1>1. ASSUME NEW e, JudgeRule(e) PROVE IInv'
  BY <1>1, BegunKeeps DEF JudgeRule, Blank
<1>2. CASE JudgeCopy(r) BY <1>1, <1>2 DEF JudgeCopy
<1>3. CASE JudgeEdit(r, d)
  <2> DEFINE edit == [Blank EXCEPT !.kind = "edit", !.of = r.id, !.adds = {d}]
  <2>1. Begun(edit) BY <1>3 DEF JudgeEdit
  <2>2. edit.kind = "edit" BY DEF Blank
  <2> HIDE DEF edit
  <2> QED BY <2>1, <2>2, BegunKeeps
<1>4. CASE JudgeTemplate(c, replace)
  <2> DEFINE adds == {[target |-> c, scope |-> {}, on |-> TRUE]}
             template == [Blank EXCEPT !.kind = "template", !.replace = replace, !.makes = {c},
                                       !.adds = adds]
  <2>1. Begun(template) BY <1>4 DEF JudgeTemplate
  <2>2. \A e \in adds : e.target = c OBVIOUS
  <2> HIDE DEF adds
  <2>3. template.adds = adds /\ template.makes = {c} BY DEF Blank
  <2> HIDE DEF template
  <2>4. \A e \in template.adds : e.target \in template.makes BY <2>2, <2>3
  <2> QED BY <2>1, <2>4, BegunKeeps
<1>5. CASE JudgeRules(bundle, create, replace) BY <1>5, BegunKeeps DEF JudgeRules, Blank
<1>6. CASE JudgeConfig(config) BY <1>6, BegunKeeps DEF JudgeConfig, Blank
<1>7. CASE JudgeCase(c) BY <1>7, BegunKeeps DEF JudgeCase, Blank
<1>8. CASE Drop
  BY <1>8 DEF Drop, folders, titles, IInv, RestNamed, RulesNamed, TablesNamed, TemplateMakes
<1> QED BY <1>1, <1>2, <1>3, <1>4, <1>5, <1>6, <1>7, <1>8

(* The second step inserts what names a category there is under the lock,  *)
(* or one it makes itself.                                                 *)
LEMMA RuleWritesKeep ==
  ASSUME IInv, WriteRule \/ WriteEdit \/ WriteTemplate \/ WriteRules
  PROVE IInv'
<1> USE DEF IInv
<1>1. CASE WriteRule
  <2>1. RulesNamed' BY <1>1, InsertedAreNamed DEF WriteRule, RulesNamed
  <2> QED BY <1>1, <2>1
          DEF WriteRule, Write, named, RestNamed, TablesNamed, TemplateMakes
<1>2. CASE WriteEdit
  <2>1. PICK r \in rules, d \in request.adds :
          /\ d.target \in categories
          /\ rules' = (rules \ {r}) \cup
               {[r EXCEPT !.target = d.target, !.scope = d.scope, !.on = d.on]}
    BY <1>2 DEF WriteEdit
  <2>2. [r EXCEPT !.target = d.target, !.scope = d.scope, !.on = d.on].target \in categories
        \/ [r EXCEPT !.target = d.target, !.scope = d.scope, !.on = d.on].target = r.target
    BY <2>1
  <2>3. RulesNamed' BY <1>2, <2>1, <2>2 DEF WriteEdit, named, RulesNamed
  <2> QED BY <1>2, <2>3 DEF WriteEdit, Write, named, RestNamed, TablesNamed, TemplateMakes
<1>3. CASE WriteTemplate
  <2>1. /\ categories' = categories \cup request.makes
        /\ \A d \in request.adds : d.target \in request.makes
    BY <1>3 DEF WriteTemplate, Write, TemplateMakes
  <2>2. PICK kept \in SUBSET rules : Insert(kept, request.adds, TRUE)
    BY <1>3 DEF WriteTemplate
  <2>3. \A d \in request.adds : d.target \in categories' BY <2>1
  <2>4. \A r \in kept : r.target \in categories' BY <2>1 DEF RulesNamed
  <2>5. RulesNamed' BY <2>2, <2>3, <2>4, InsertedAreNamed
  <2> QED BY <1>3, <2>1, <2>5
          DEF WriteTemplate, Write, named, RestNamed, TablesNamed, TemplateMakes
<1>4. CASE WriteRules
  <2>1. categories' = categories \cup request.makes BY <1>4 DEF WriteRules
  <2>2. PICK kept \in SUBSET rules, adds \in {request.adds} \cup Appended(request.adds) :
          Insert(kept, {d \in adds : d.target \in categories'}, FALSE)
    BY <1>4 DEF WriteRules
  <2> DEFINE drafts == {d \in adds : d.target \in categories'}
  <2>3. \A d \in drafts : d.target \in categories' OBVIOUS
  <2>4. \A r \in kept : r.target \in categories' BY <2>1 DEF RulesNamed
  <2>5. Insert(kept, drafts, FALSE) BY <2>2
  <2> HIDE DEF drafts
  <2>6. RulesNamed' BY <2>3, <2>4, <2>5, InsertedAreNamed
  <2> QED BY <1>4, <2>1, <2>6
          DEF WriteRules, Write, named, RestNamed, TablesNamed, TemplateMakes
<1> QED BY <1>1, <1>2, <1>3, <1>4

LEMMA ConfigKeeps ==
  ASSUME IInv, WriteConfig
  PROVE IInv'
<1> USE DEF IInv
<1>1. /\ categories' = categories \cup request.config.categories
      /\ request' = None /\ retired' = retired
      /\ ConfigFolders(request.config.folders) /\ ConfigPins(request.config.pins) /\ ConfigRules
  BY DEF WriteConfig, Write
<1>2. RulesNamed'
  <2>1. ASSUME NEW d \in ScopedHere({e \in request.adds : e.target \in categories'})
        PROVE d.target \in categories'
    <3>1. PICK e \in {e \in request.adds : e.target \in categories'} :
            d = [e EXCEPT !.scope = @ \cap instances]
      BY DEF ScopedHere
    <3> QED BY <3>1
  <2>2. PICK kept \in SUBSET rules,
             adds \in SUBSET ScopedHere({d \in request.adds : d.target \in categories'}) :
          Insert(kept, adds, FALSE)
    BY <1>1 DEF ConfigRules, Appended
  <2> QED BY <1>1, <2>1, <2>2, InsertedAreNamed DEF RulesNamed
<1>3. RestNamed' BY <1>1 DEF WriteConfig, RestNamed
<1>4. mapping' \in [Folders -> categories' \cup {None}]
  <2> DEFINE Reached(m) == IF m.declared THEN InstanceOf[m.folder] \in instances
                           ELSE origin[m.folder] # None
             Of(f) == {m \in request.config.folders : m.folder = f /\ Reached(m)}
             MappedOf(f) == {m \in Of(f) : m.category \in categories'}
  <2>1. mapping' = [f \in Folders |->
          IF MappedOf(f) = {} THEN mapping[f] ELSE (CHOOSE m \in MappedOf(f) : TRUE).category]
    BY <1>1 DEF ConfigFolders
  <2>2. ASSUME NEW f \in Folders, MappedOf(f) # {}
        PROVE (CHOOSE m \in MappedOf(f) : TRUE).category \in categories'
    <3>1. (CHOOSE m \in MappedOf(f) : TRUE) \in MappedOf(f) BY <2>2
    <3> QED BY <3>1
  <2>3. \A f \in Folders : mapping[f] \in categories' \cup {None} BY <1>1 DEF TablesNamed
  <2> HIDE DEF MappedOf
  <2> QED BY <2>1, <2>2, <2>3
<1>5. pin' \in [Titles -> categories' \cup {None}]
  <2> DEFINE Of(t) ==
        {p \in request.config.pins : p.title = t /\ t \in here /\ p.category \in categories'}
  <2>1. pin' = [t \in Titles |->
          IF Of(t) = {} THEN pin[t] ELSE (CHOOSE p \in Of(t) : TRUE).category]
    BY <1>1 DEF ConfigPins
  <2>2. ASSUME NEW t \in Titles, Of(t) # {}
        PROVE (CHOOSE p \in Of(t) : TRUE).category \in categories'
    <3>1. (CHOOSE p \in Of(t) : TRUE) \in Of(t) BY <2>2
    <3> QED BY <3>1
  <2>3. \A t \in Titles : pin[t] \in categories' \cup {None} BY <1>1 DEF TablesNamed
  <2> HIDE DEF Of
  <2> QED BY <2>1, <2>2, <2>3
<1>6. retired' \in [Titles -> categories' \cup {None}] BY <1>1 DEF TablesNamed
<1> QED BY <1>1, <1>2, <1>3, <1>4, <1>5, <1>6 DEF TablesNamed, TemplateMakes

LEMMA CaseKeeps ==
  ASSUME IInv, WriteCase
  PROVE IInv'
BY DEF WriteCase, Write, folders, titles, IInv, RestNamed, RulesNamed, TablesNamed, TemplateMakes

-----------------------------------------------------------------------------
(* Every step keeps the invariant.                                         *)
LEMMA InvariantKept == IInv /\ [Next]_vars => IInv'
<1> SUFFICES ASSUME IInv, [Next]_vars PROVE IInv' OBVIOUS
<1>1. CASE UNCHANGED vars
  BY <1>1 DEF vars, folders, titles, IInv, RestNamed, RulesNamed, TablesNamed, TemplateMakes
<1>2. CASE \E c \in Names : Create(c) \/ SetFallback(c) \/ Remove(c)
  BY <1>2, CategoriesKeep
<1>3. CASE \E c, n \in Names : Rename(c, n) \/ SetExpected(c, n)
  BY <1>3, CategoriesKeep, TestsKeep
<1>4. CASE \E f \in Folders :
             \/ \E c \in Names \cup {None} : MapFolder(f, c)
             \/ Declare(f) \/ FolderListed(f) \/ FolderGone(f)
  BY <1>4, FoldersKeep
<1>5. CASE \E t \in Titles :
             \/ \E c \in Names : Pin(t, c)
             \/ \E f \in Folders : Keep(t, f)
             \/ Unpin(t) \/ Retire(t) \/ Return(t)
  <2>1. PICK t \in Titles :
             \/ \E c \in Names : Pin(t, c)
             \/ \E f \in Folders : Keep(t, f)
             \/ Unpin(t) \/ Retire(t) \/ Return(t)
    BY <1>5
  <2>2. CASE \E c \in Names : Pin(t, c) BY <2>2, PinKeeps
  <2>3. CASE \E f \in Folders : Keep(t, f)
    <3>1. PICK f \in Folders : Pin(t, mapping[f]) BY <2>3 DEF Keep
    <3> QED BY <3>1, PinKeeps
  <2>4. CASE Unpin(t) \/ Retire(t) \/ Return(t) BY <2>4, TitlesKeep
  <2> QED BY <2>1, <2>2, <2>3, <2>4
<1>6. CASE \E i \in Instances : RemoveInstance(i)
  BY <1>6, InstancesKeep
<1>7. CASE \E r \in rules :
             \/ DeleteRule(r) \/ JudgeCopy(r)
             \/ \E d \in Sent : JudgeEdit(r, d)
  BY <1>7, DeleteRuleKeeps, JudgesKeep
<1>8. CASE \E c \in Names : DeleteCase(c) \/ JudgeCase(c)
  BY <1>8, TestsKeep, JudgesKeep
<1>9. CASE \/ \E d \in Sent : JudgeRule(d)
           \/ \E c \in Names, replace \in BOOLEAN : JudgeTemplate(c, replace)
           \/ \E bundle \in RuleBundles, create, replace \in BOOLEAN :
                JudgeRules(bundle, create, replace)
           \/ \E config \in Configs : JudgeConfig(config)
           \/ Drop
  BY <1>9, JudgesKeep
<1>10. CASE WriteRule \/ WriteEdit \/ WriteTemplate \/ WriteRules \/ WriteConfig \/ WriteCase
  BY <1>10, RuleWritesKeep, ConfigKeeps, CaseKeeps
<1> QED BY <1>1, <1>2, <1>3, <1>4, <1>5, <1>6, <1>7, <1>8, <1>9, <1>10 DEF Next

(* What names a category names one there is, for any names, folders and    *)
(* titles, whatever two requests judged before the lock write behind it    *)
(* (categories.rs ensure_exists, move_references, remove).                 *)
THEOREM NamesAlwaysExist == Spec => []NamesExist
<1>1. IInv /\ UNCHANGED vars => IInv' BY InvariantKept
<1> QED BY InvariantBegins, InvariantKept, InvariantImplies, PTL DEF Spec

-----------------------------------------------------------------------------
(* What the rules read of a title besides: the passes that ask a source of *)
(* metadata, the module Enrichment, with variables of its own. A work a    *)
(* pass considered is in one place until it is counted.                    *)

CONSTANTS Works, Slice, Limit, BreakerLimit, Concurrency, MaxDay, MaxPasses, MaxAsked

VARIABLES
  kind, day, row, record, pass, open, breaker, closed, held, report, alone, passes, asked, missed,
  reserved, sent

E == INSTANCE Enrichment

EnrichmentAssumed == E!SomeOfEach /\ E!FiniteLibrary

PassRecord ==
  [stage : {"off", "searching", "fetching", "over"}, queue : SUBSET Works, left : SUBSET Works,
   granted : Nat, sent : Nat, day : Nat]
BreakerRecord == [failures : Nat, unanswered : Nat, answered : BOOLEAN]
ReportRecord ==
  [considered : Int, enriched : Int, failed : Int, skipped : Int, deferred : Int]
AloneRecord == [phase : {"off", "paced", "out"}, work : Works \cup {None}, day : Nat]

EnrichmentTypes ==
  /\ day \in Nat
  /\ record \in [Works -> {"unknown", "none", "found", "empty", "answer"}]
  /\ pass \in PassRecord
  /\ open \in [Works -> {"no", "paced", "out"}]
  /\ breaker \in BreakerRecord
  /\ report \in ReportRecord
  /\ alone \in AloneRecord
  /\ held \in SUBSET Works

Opened == {w \in Works : open[w] # "no"}

(* A work a pass has in hand is left for a later slice, in the queue, out, *)
(* or a refusal held back.                                                 *)
OnePlace ==
  /\ pass.left \cap (pass.queue \cup Opened) = {}
  /\ pass.queue \cap Opened = {}
  /\ held \cap (pass.left \cup pass.queue \cup Opened) = {}
  /\ pass.stage # "fetching" => pass.left = {}
  /\ pass.stage \in {"off", "over"} => pass.queue = {} /\ Opened = {}

(* A search is of a work unidentified, a fetch of one that is not; and so  *)
(* is the one asked about alone.                                           *)
AsksOfEach ==
  /\ pass.stage = "searching" =>
       \A w \in pass.queue \cup Opened \cup held : record[w] = "unknown"
  /\ pass.stage = "fetching" =>
       \A w \in pass.left \cup pass.queue \cup Opened : record[w] # "unknown"
  /\ alone.phase # "off" => alone.work \in Works /\ record[alone.work] # "unknown"

(* Misses are written down by a source that answered, or at the end by one *)
(* that is not broken.                                                     *)
MissesAreSaid ==
  missed # {} => breaker.answered \/ (pass.stage = "over" /\ ~ E!Refused)

Total(r) == r.enriched + r.failed + r.skipped + r.deferred
InHand ==
  Cardinality(pass.left) + Cardinality(pass.queue) + Cardinality(Opened)
  + Cardinality(E!HeldFetches)
Balanced ==
  /\ pass.stage = "fetching" => report.considered = Total(report) + InHand
  /\ pass.stage = "over" => report.considered = Total(report)

EnrichmentInv == EnrichmentTypes /\ OnePlace /\ AsksOfEach /\ MissesAreSaid /\ Balanced

-----------------------------------------------------------------------------
LEMMA CountedAlike == \A S : E!Cardinality(S) = Cardinality(S)
BY Zenon DEF E!Cardinality, Cardinality

LEMMA FinitelyMany ==
  ASSUME EnrichmentAssumed, NEW S \in SUBSET Works
  PROVE  IsFiniteSet(S) /\ Cardinality(S) \in Nat
<1>1. E!IsFiniteSet(Works) <=> IsFiniteSet(Works)
  BY Zenon DEF E!IsFiniteSet, IsFiniteSet
<1>2. IsFiniteSet(Works)
  BY <1>1 DEF EnrichmentAssumed, E!FiniteLibrary
<1> QED BY <1>2, FS_Subset, FS_CardinalityType

LEMMA OneLess ==
  ASSUME EnrichmentAssumed, NEW S \in SUBSET Works, NEW w \in S
  PROVE  Cardinality(S) = Cardinality(S \ {w}) + 1
<1>1. IsFiniteSet(S) /\ Cardinality(S) \in Nat
  BY FinitelyMany
<1>2. Cardinality(S \ {w}) = Cardinality(S) - 1
  BY <1>1, FS_RemoveElement, Zenon
<1> QED BY <1>1, <1>2

LEMMA OneMore ==
  ASSUME EnrichmentAssumed, NEW S \in SUBSET Works, NEW w \in Works, w \notin S
  PROVE  Cardinality(S \cup {w}) = Cardinality(S) + 1
BY FinitelyMany, FS_AddElement

LEMMA SplitInTwo ==
  ASSUME EnrichmentAssumed, NEW S \in SUBSET Works, NEW T
  PROVE  Cardinality(S) = Cardinality(S \cap T) + Cardinality(S \ T)
<1>1. IsFiniteSet(S) /\ Cardinality(S) \in Nat /\ Cardinality(S \cap T) \in Nat
  <2>1. S \cap T \in SUBSET Works
    OBVIOUS
  <2> QED BY <2>1, FinitelyMany
<1>2. Cardinality(S \ T) = Cardinality(S) - Cardinality(S \cap T)
  BY <1>1, FS_Difference, Zenon
<1> QED BY <1>1, <1>2

(* Counted counts each work once.                                          *)
LEMMA CountsEach ==
  ASSUME EnrichmentAssumed, NEW r \in ReportRecord, NEW F \in SUBSET Works, NEW S
  PROVE  /\ E!Counted(r, F, S) \in ReportRecord
         /\ E!Counted(r, F, S).considered = r.considered
         /\ Total(E!Counted(r, F, S)) = Total(r) + Cardinality(F)
<1> DEFINE a == Cardinality(F \cap S)
           b == Cardinality(F \ S)
<1>1. a \in Nat /\ b \in Nat /\ Cardinality(F) = a + b
  <2>1. F \cap S \in SUBSET Works /\ F \ S \in SUBSET Works
    OBVIOUS
  <2> QED BY <2>1, FinitelyMany, SplitInTwo
<1>2. E!Counted(r, F, S) = [r EXCEPT !.enriched = @ + a, !.failed = @ + b]
  BY CountedAlike DEF E!Counted
<1> DEFINE q == E!Counted(r, F, S)
<1>3. /\ q \in ReportRecord /\ q.considered = r.considered
      /\ q.enriched = r.enriched + a /\ q.failed = r.failed + b
      /\ q.skipped = r.skipped /\ q.deferred = r.deferred
  <2> HIDE DEF a, b
  <2>1. r.enriched + a \in Int /\ r.failed + b \in Int
    BY <1>1 DEF ReportRecord
  <2>2. q = [[r EXCEPT !.enriched = r.enriched + a] EXCEPT !.failed = r.failed + b]
    BY <1>2 DEF ReportRecord
  <2> HIDE DEF q
  <2> QED BY <2>1, <2>2 DEF ReportRecord
<1>4. r.enriched \in Int /\ r.failed \in Int /\ r.skipped \in Int /\ r.deferred \in Int
  BY DEF ReportRecord
<1> HIDE DEF a, b, q
<1>5. Total(q) = Total(r) + Cardinality(F)
  BY <1>1, <1>3, <1>4 DEF Total
<1> QED BY <1>3, <1>5 DEF q

LEMMA OffIsARecord ==
  /\ E!Off \in PassRecord /\ E!Off.stage = "off" /\ E!Off.queue = {} /\ E!Off.left = {}
  /\ E!Unbroken \in BreakerRecord /\ ~ E!Unbroken.answered
  /\ E!NoReport \in ReportRecord /\ Total(E!NoReport) = 0 /\ E!NoReport.considered = 0
  /\ E!NotAsking \in AloneRecord /\ E!NotAsking.phase = "off"
BY DEF E!Off, PassRecord, E!Unbroken, BreakerRecord, E!NoReport, ReportRecord, Total, E!NotAsking,
       AloneRecord

LEMMA LeastOfTwo ==
  ASSUME NEW x \in Int, NEW y \in Int
  PROVE  E!Min({x, y}) \in {x, y}
<1>1. \E z \in {x, y} : \A u \in {x, y} : z <= u
  OBVIOUS
<1> QED BY <1>1 DEF E!Min

(* The breaker has an answer once a title was told.                        *)
LEMMA RecordsAnswers ==
  ASSUME EnrichmentAssumed, EnrichmentTypes, NEW outcome
  PROVE  /\ E!Recorded(outcome) \in BreakerRecord
         /\ E!Recorded(outcome).answered <=> breaker.answered \/ outcome = "said"
<1> DEFINE more == E!Min({breaker.unanswered + 1, BreakerLimit})
           down == E!Min({breaker.failures + 1, BreakerLimit})
<1>1. breaker \in BreakerRecord /\ BreakerLimit \in Nat
  BY DEF EnrichmentTypes, EnrichmentAssumed, E!SomeOfEach
<1>2. breaker.unanswered + 1 \in Nat /\ breaker.failures + 1 \in Nat
  BY <1>1 DEF BreakerRecord
<1>3. more \in Nat /\ down \in Nat
  BY <1>1, <1>2, LeastOfTwo
<1>4. E!Recorded(outcome) =
        CASE outcome = "said" -> [breaker EXCEPT !.answered = TRUE, !.failures = 0]
          [] outcome \in {"refused", "unreadable"} ->
               [breaker EXCEPT !.failures = 0, !.unanswered = more]
          [] outcome = "down" -> [breaker EXCEPT !.failures = down]
          [] OTHER -> [breaker EXCEPT !.failures = 0]
  BY <1>1 DEF E!Recorded, BreakerRecord
<1> HIDE DEF more, down
<1>5. CASE outcome = "said"
  <2> DEFINE told == [breaker EXCEPT !.answered = TRUE]
  <2>1. E!Recorded(outcome) = [told EXCEPT !.failures = 0]
    BY <1>4, <1>5
  <2>2. told \in BreakerRecord /\ told.answered = TRUE
    BY <1>1 DEF BreakerRecord
  <2> HIDE DEF told
  <2> QED BY <1>5, <2>1, <2>2 DEF BreakerRecord
<1>6. CASE outcome \in {"refused", "unreadable"}
  <2> DEFINE up == [breaker EXCEPT !.failures = 0]
  <2>1. E!Recorded(outcome) = [up EXCEPT !.unanswered = more]
    BY <1>4, <1>6
  <2>2. up \in BreakerRecord /\ up.answered = breaker.answered
    BY <1>1 DEF BreakerRecord
  <2> HIDE DEF up
  <2> QED BY <1>3, <1>6, <2>1, <2>2 DEF BreakerRecord
<1>7. CASE outcome = "down"
  <2>1. E!Recorded(outcome) = [breaker EXCEPT !.failures = down]
    BY <1>4, <1>7
  <2> QED BY <1>1, <1>3, <1>7, <2>1 DEF BreakerRecord
<1>8. CASE outcome \notin {"said", "refused", "unreadable", "down"}
  <2>1. E!Recorded(outcome) = [breaker EXCEPT !.failures = 0]
    BY <1>8 DEF E!Recorded
  <2> QED BY <1>1, <1>8, <2>1 DEF BreakerRecord
<1> QED BY <1>5, <1>6, <1>7, <1>8

LEMMA ReportPlus ==
  ASSUME NEW r \in ReportRecord, NEW n \in Int
  PROVE  /\ [r EXCEPT !.deferred = @ + n] \in ReportRecord
         /\ [r EXCEPT !.deferred = @ + n].considered = r.considered
         /\ Total([r EXCEPT !.deferred = @ + n]) = Total(r) + n
         /\ [r EXCEPT !.skipped = @ + n] \in ReportRecord
         /\ [r EXCEPT !.skipped = @ + n].considered = r.considered
         /\ Total([r EXCEPT !.skipped = @ + n]) = Total(r) + n
         /\ [r EXCEPT !.failed = @ + n] \in ReportRecord
         /\ [r EXCEPT !.failed = @ + n].considered = r.considered
         /\ Total([r EXCEPT !.failed = @ + n]) = Total(r) + n
<1> DEFINE d == r.deferred + n
           s == r.skipped + n
           f == r.failed + n
<1>1. /\ r.considered \in Int /\ r.enriched \in Int /\ r.failed \in Int /\ r.skipped \in Int
      /\ r.deferred \in Int
  BY DEF ReportRecord
<1>2. d \in Int /\ s \in Int /\ f \in Int
  BY <1>1
<1>3. ASSUME NEW x \in ReportRecord, x = [r EXCEPT !.deferred = d]
      PROVE  x.considered = r.considered /\ Total(x) = Total(r) + n
  <2>1. /\ x.enriched = r.enriched /\ x.failed = r.failed /\ x.skipped = r.skipped
        /\ x.deferred = d /\ x.considered = r.considered
    BY <1>3 DEF ReportRecord
  <2> QED BY <1>1, <2>1 DEF Total
<1>4. ASSUME NEW x \in ReportRecord, x = [r EXCEPT !.skipped = s]
      PROVE  x.considered = r.considered /\ Total(x) = Total(r) + n
  <2>1. /\ x.enriched = r.enriched /\ x.failed = r.failed /\ x.skipped = s
        /\ x.deferred = r.deferred /\ x.considered = r.considered
    BY <1>4 DEF ReportRecord
  <2> QED BY <1>1, <2>1 DEF Total
<1>5. ASSUME NEW x \in ReportRecord, x = [r EXCEPT !.failed = f]
      PROVE  x.considered = r.considered /\ Total(x) = Total(r) + n
  <2>1. /\ x.enriched = r.enriched /\ x.failed = f /\ x.skipped = r.skipped
        /\ x.deferred = r.deferred /\ x.considered = r.considered
    BY <1>5 DEF ReportRecord
  <2> QED BY <1>1, <2>1 DEF Total
<1>6. /\ [r EXCEPT !.deferred = @ + n] = [r EXCEPT !.deferred = d]
      /\ [r EXCEPT !.skipped = @ + n] = [r EXCEPT !.skipped = s]
      /\ [r EXCEPT !.failed = @ + n] = [r EXCEPT !.failed = f]
  BY DEF ReportRecord
<1> HIDE DEF d, s, f
<1>7. /\ [r EXCEPT !.deferred = d] \in ReportRecord
      /\ [r EXCEPT !.skipped = s] \in ReportRecord
      /\ [r EXCEPT !.failed = f] \in ReportRecord
  BY <1>2 DEF ReportRecord
<1> QED BY <1>3, <1>4, <1>5, <1>6, <1>7

LEMMA ReportPlusOne ==
  ASSUME NEW r \in ReportRecord
  PROVE  /\ [r EXCEPT !.deferred = @ + 1] \in ReportRecord
         /\ [r EXCEPT !.deferred = @ + 1].considered = r.considered
         /\ Total([r EXCEPT !.deferred = @ + 1]) = Total(r) + 1
         /\ [r EXCEPT !.skipped = @ + 1] \in ReportRecord
         /\ [r EXCEPT !.skipped = @ + 1].considered = r.considered
         /\ Total([r EXCEPT !.skipped = @ + 1]) = Total(r) + 1
<1> DEFINE n == 1
<1>1. n \in Int
  OBVIOUS
<1> HIDE DEF n
<1>2. /\ [r EXCEPT !.deferred = @ + n] \in ReportRecord
      /\ [r EXCEPT !.deferred = @ + n].considered = r.considered
      /\ Total([r EXCEPT !.deferred = @ + n]) = Total(r) + n
      /\ [r EXCEPT !.skipped = @ + n] \in ReportRecord
      /\ [r EXCEPT !.skipped = @ + n].considered = r.considered
      /\ Total([r EXCEPT !.skipped = @ + n]) = Total(r) + n
  BY <1>1, ReportPlus, Zenon
<1> USE DEF n
<1> QED BY <1>2, Zenon

LEMMA InitEnrichmentInv == EnrichmentAssumed /\ E!Init => EnrichmentInv
<1> SUFFICES ASSUME E!Init PROVE EnrichmentInv
  OBVIOUS
<1>1. EnrichmentTypes
  BY OffIsARecord DEF E!Init, EnrichmentTypes
<1>2. Opened = {} /\ pass = E!Off
  BY DEF E!Init, Opened
<1> QED BY <1>1, <1>2, OffIsARecord
        DEF EnrichmentInv, OnePlace, AsksOfEach, MissesAreSaid, Balanced, E!Init

(* What a pass reads and does is not touched. *)
LEMMA CalmSteps ==
  ASSUME EnrichmentAssumed, EnrichmentInv,
         E!Midnight \/ E!GivesUp \/ E!SendsAlone \/ E!AnswersAlone
         \/ (\E w \in Works : E!AsksAlone(w)) \/ UNCHANGED E!vars
  PROVE  EnrichmentInv'
<1>1. /\ EnrichmentTypes /\ OnePlace /\ AsksOfEach /\ MissesAreSaid /\ Balanced
      /\ day \in Nat /\ alone \in AloneRecord
  BY DEF EnrichmentInv, EnrichmentTypes
<1>2. SUFFICES
        /\ UNCHANGED <<pass, open, breaker, held, report, missed>>
        /\ day' \in Nat /\ alone' \in AloneRecord
        /\ record' \in [Works -> {"unknown", "none", "found", "empty", "answer"}]
        /\ \A w \in Works : record'[w] = "unknown" <=> record[w] = "unknown"
        /\ alone'.phase # "off" => alone'.work \in Works /\ record'[alone'.work] # "unknown"
  <2>1. /\ Opened' = Opened /\ E!HeldFetches' = E!HeldFetches
        /\ pass.left \cup pass.queue \cup Opened \cup held \subseteq Works
    BY <1>1, <1>2 DEF Opened, E!HeldFetches, EnrichmentTypes, PassRecord
  <2>2. EnrichmentTypes'
    BY <1>1, <1>2 DEF EnrichmentTypes
  <2>3. OnePlace'
    BY <1>1, <1>2, <2>1 DEF OnePlace
  <2>4. AsksOfEach'
    BY <1>1, <1>2, <2>1 DEF AsksOfEach
  <2>5. MissesAreSaid'
    BY <1>1, <1>2 DEF MissesAreSaid, E!Refused
  <2>6. Balanced'
    BY <1>1, <1>2, <2>1 DEF Balanced, InHand
  <2> QED BY <2>2, <2>3, <2>4, <2>5, <2>6 DEF EnrichmentInv
<1>3. CASE E!Midnight \/ UNCHANGED E!vars
  BY <1>1, <1>3
     DEF E!Midnight, E!vars, E!stage, E!bounds, E!count, EnrichmentTypes, AsksOfEach
<1>4. CASE E!GivesUp
  BY <1>1, <1>4, OffIsARecord DEF E!GivesUp, E!stage, E!bounds, EnrichmentTypes, AsksOfEach
<1>5. CASE E!SendsAlone
  BY <1>1, <1>5 DEF E!SendsAlone, E!stage, E!bounds, E!count, EnrichmentTypes, AsksOfEach,
     AloneRecord
<1>6. CASE \E w \in Works : E!AsksAlone(w)
  <2>1. PICK w \in Works : E!AsksAlone(w)
    BY <1>6
  <2>2. /\ record[w] = "found" /\ alone.phase = "off"
        /\ alone' \in {alone, [phase |-> "paced", work |-> w, day |-> day]}
        /\ UNCHANGED <<day, record, pass, open, breaker, held, report, missed>>
    BY <2>1 DEF E!AsksAlone, E!stage, E!NotAsking
  <2> QED BY <1>1, <2>2 DEF EnrichmentTypes, AloneRecord
<1>7. CASE E!AnswersAlone
  <2>1. /\ alone.phase = "out" /\ alone' = E!NotAsking
        /\ UNCHANGED <<day, pass, open, breaker, held, report, missed>>
        /\ record' = record \/ \E answer \in {"answer", "empty"} :
                                 record' = [record EXCEPT ![alone.work] = answer]
    BY <1>7 DEF E!AnswersAlone, E!stage, E!bounds
  <2>2. alone.work \in Works /\ record[alone.work] # "unknown"
    BY <1>1, <2>1 DEF AsksOfEach
  <2> QED BY <1>1, <2>1, <2>2, OffIsARecord DEF EnrichmentTypes
<1> QED BY <1>3, <1>4, <1>5, <1>6, <1>7

(* A pass fetches what is pending, or leaves it for another day. *)
LEMMA FetchesPending ==
  ASSUME EnrichmentAssumed, EnrichmentTypes, NEW heldBack \in BOOLEAN,
         E!Fetches(E!Pending, heldBack), day' \in Nat,
         E!HeldFetches' = {}, Opened' = {}
  PROVE  /\ pass' \in PassRecord /\ pass'.stage = "fetching" /\ pass'.queue = {}
         /\ pass'.left \subseteq E!Pending /\ report' \in ReportRecord
         /\ Balanced'
<1> DEFINE n == Cardinality(E!Pending)
           later == IF heldBack THEN n ELSE 0
           left == IF heldBack THEN {} ELSE E!Pending
<1>1. E!Pending \in SUBSET Works /\ n \in Nat
  <2>1. E!Pending \in SUBSET Works
    BY DEF E!Pending
  <2> QED BY <2>1, FinitelyMany
<1>2. /\ pass' = [[E!Off EXCEPT !.stage = "fetching"] EXCEPT !.left = left]
      /\ report' = [[E!NoReport EXCEPT !.considered = n] EXCEPT !.deferred = later]
  BY CountedAlike DEF E!Fetches
<1>3. later \in Nat /\ left \in SUBSET Works /\ n = later + Cardinality(left)
  BY <1>1, FS_EmptySet
<1>4. Cardinality({}) = 0
  BY FS_EmptySet
<1>5. left \subseteq E!Pending
  OBVIOUS
<1> HIDE DEF n, later, left
<1>6. /\ pass' \in PassRecord /\ pass'.stage = "fetching" /\ pass'.queue = {} /\ pass'.left = left
  BY <1>2, <1>3 DEF E!Off, PassRecord
<1>7. /\ report' \in ReportRecord /\ report'.considered = n /\ report'.enriched = 0
      /\ report'.failed = 0 /\ report'.skipped = 0 /\ report'.deferred = later
  <2> DEFINE counted == [E!NoReport EXCEPT !.considered = n]
  <2>1. /\ counted \in ReportRecord /\ counted.considered = n /\ counted.enriched = 0
        /\ counted.failed = 0 /\ counted.skipped = 0
    BY <1>1 DEF E!NoReport, ReportRecord
  <2>2. report' = [counted EXCEPT !.deferred = later]
    BY <1>2
  <2> HIDE DEF counted
  <2> QED BY <1>3, <2>1, <2>2 DEF ReportRecord
<1>8. Cardinality(left) \in Nat
  BY <1>3, FinitelyMany
<1>9. Balanced'
  <2>1. InHand' = Cardinality(left)
    BY <1>4, <1>6, <1>8 DEF InHand
  <2>2. Total(report)' = later
    BY <1>3, <1>7 DEF Total
  <2> QED BY <1>3, <1>6, <1>7, <2>1, <2>2 DEF Balanced
<1> QED BY <1>5, <1>6, <1>7, <1>9

LEMMA BeginsSteps ==
  ASSUME EnrichmentAssumed, EnrichmentInv, E!Begins
  PROVE  EnrichmentInv'
<1>1. /\ EnrichmentTypes /\ OnePlace /\ AsksOfEach /\ pass.stage = "off" /\ day \in Nat
      /\ breaker' = E!Unbroken /\ held' = {} /\ missed' = {}
      /\ UNCHANGED <<day, record, open, alone>>
  BY DEF EnrichmentInv, EnrichmentTypes, E!Begins, E!count
<1>2. Opened' = {} /\ Opened = {} /\ E!HeldFetches' = {} /\ MissesAreSaid'
  BY <1>1 DEF OnePlace, Opened, E!HeldFetches, MissesAreSaid
<1>3. CASE kind = "hold" /\ ~ E!HeldToday
  <2> DEFINE r == [[E!Off EXCEPT !.stage = "searching"] EXCEPT !.queue = E!Unidentified]
  <2>1. pass' = r /\ report' = E!NoReport
    BY <1>3 DEF E!Begins
  <2>2. /\ pass' \in PassRecord /\ pass'.stage = "searching" /\ pass'.queue = E!Unidentified
        /\ pass'.left = {}
    BY <2>1 DEF E!Off, PassRecord, E!Unidentified
  <2>3. EnrichmentTypes'
    BY <1>1, <2>1, <2>2, OffIsARecord DEF EnrichmentTypes
  <2>4. OnePlace' /\ AsksOfEach'
    BY <1>1, <1>2, <2>2 DEF OnePlace, AsksOfEach, E!Unidentified
  <2>5. Balanced'
    BY <2>2 DEF Balanced
  <2> QED BY <1>2, <2>3, <2>4, <2>5 DEF EnrichmentInv
<1>4. CASE ~ (kind = "hold" /\ ~ E!HeldToday)
  <2>1. E!Fetches(E!Pending, E!HeldToday) /\ E!HeldToday \in BOOLEAN
    BY <1>4 DEF E!Begins, E!HeldToday
  <2>2. /\ pass' \in PassRecord /\ pass'.stage = "fetching" /\ pass'.queue = {}
        /\ pass'.left \subseteq E!Pending /\ report' \in ReportRecord /\ Balanced'
    BY <1>1, <1>2, <2>1, FetchesPending
  <2>3. EnrichmentTypes'
    BY <1>1, <2>2, OffIsARecord DEF EnrichmentTypes
  <2>4. OnePlace' /\ AsksOfEach'
    BY <1>1, <1>2, <2>2 DEF OnePlace, AsksOfEach, E!Pending
  <2> QED BY <1>2, <2>2, <2>3, <2>4 DEF EnrichmentInv
<1> QED BY <1>3, <1>4

LEMMA SearchEndsSteps ==
  ASSUME EnrichmentAssumed, EnrichmentInv, E!SearchEnds
  PROVE  EnrichmentInv'
<1>1. /\ EnrichmentTypes /\ OnePlace /\ AsksOfEach /\ MissesAreSaid /\ day \in Nat
      /\ pass.stage = "searching" /\ E!Settled /\ E!Fetches(E!Pending, FALSE)
      /\ UNCHANGED <<day, record, open, breaker, held, missed, alone>>
  BY DEF EnrichmentInv, EnrichmentTypes, E!SearchEnds, E!count, E!stage
<1>2. /\ Opened' = {} /\ E!HeldFetches' = {}
      /\ \A w \in held : record[w] = "unknown"
  BY <1>1 DEF E!Settled, Opened, E!HeldFetches, AsksOfEach
<1>3. /\ pass' \in PassRecord /\ pass'.stage = "fetching" /\ pass'.queue = {}
      /\ pass'.left \subseteq E!Pending /\ report' \in ReportRecord /\ Balanced'
  BY <1>1, <1>2, FetchesPending
<1>4. EnrichmentTypes'
  BY <1>1, <1>3 DEF EnrichmentTypes
<1>5. OnePlace' /\ AsksOfEach'
  BY <1>1, <1>2, <1>3 DEF OnePlace, AsksOfEach, E!Pending
<1>6. MissesAreSaid'
  BY <1>1 DEF MissesAreSaid
<1> QED BY <1>3, <1>4, <1>5, <1>6 DEF EnrichmentInv

(* What is counted of a pass, in numbers. *)
LEMMA InHandCounts ==
  ASSUME EnrichmentAssumed, EnrichmentTypes
  PROVE  /\ Cardinality(pass.left) \in Nat /\ Cardinality(pass.queue) \in Nat
         /\ Cardinality(Opened) \in Nat /\ Cardinality(E!HeldFetches) \in Nat
         /\ pass.left \in SUBSET Works /\ pass.queue \in SUBSET Works
         /\ Opened \in SUBSET Works /\ E!HeldFetches \in SUBSET Works
         /\ Total(report) \in Int /\ report.considered \in Int
<1>1. /\ pass.left \in SUBSET Works /\ pass.queue \in SUBSET Works
      /\ Opened \in SUBSET Works /\ E!HeldFetches \in SUBSET Works
  BY DEF EnrichmentTypes, PassRecord, Opened, E!HeldFetches
<1>2. Total(report) \in Int /\ report.considered \in Int
  BY DEF EnrichmentTypes, ReportRecord, Total
<1> QED BY <1>1, <1>2, FinitelyMany

(* A slice leaves what is left: asked about, or put off. *)
LEMMA SliceSteps ==
  ASSUME EnrichmentAssumed, EnrichmentInv, E!TakesASlice
  PROVE  EnrichmentInv'
<1>1. /\ EnrichmentTypes /\ OnePlace /\ AsksOfEach /\ MissesAreSaid /\ Balanced
      /\ day \in Nat /\ pass \in PassRecord
  BY DEF EnrichmentInv, EnrichmentTypes
<1>2. PICK slice \in SUBSET pass.left : \E granted : \E asking \in E!kSubset(granted, slice) :
        /\ pass' = [pass EXCEPT !.left = @ \ slice, !.queue = asking, !.granted = granted,
                                !.sent = 0, !.day = day]
        /\ report' = [report EXCEPT !.deferred = @ + (E!Cardinality(slice) - granted)]
  BY Zenon DEF E!TakesASlice
<1>3. PICK granted, asking :
        /\ asking \in E!kSubset(granted, slice)
        /\ pass' = [pass EXCEPT !.left = @ \ slice, !.queue = asking, !.granted = granted,
                                !.sent = 0, !.day = day]
        /\ report' = [report EXCEPT !.deferred = @ + (E!Cardinality(slice) - granted)]
  BY <1>2
<1>4. /\ pass.stage = "fetching" /\ pass.queue = {}
      /\ UNCHANGED <<day, record, open, breaker, held, missed, alone>>
  BY DEF E!TakesASlice, E!stage, E!bounds
<1>5. slice \in SUBSET pass.left
  OBVIOUS
<1>6. /\ asking \subseteq slice /\ granted = Cardinality(asking) /\ granted \in Nat
      /\ E!Cardinality(slice) = Cardinality(slice) /\ Cardinality(slice) \in Nat
      /\ slice \in SUBSET Works
  <2>1. slice \in SUBSET Works
    BY <1>1, <1>5 DEF PassRecord
  <2>2. asking \subseteq slice /\ E!Cardinality(asking) = granted
    BY <1>3 DEF E!kSubset
  <2>3. asking \in SUBSET Works
    BY <2>1, <2>2
  <2> QED BY <2>1, <2>2, <2>3, CountedAlike, FinitelyMany
<1>7. /\ pass' \in PassRecord /\ pass'.stage = "fetching" /\ pass'.left = pass.left \ slice
      /\ pass'.queue = asking
  <2> DEFINE x == [pass EXCEPT !.left = @ \ slice]
             y == [x EXCEPT !.queue = asking]
             z == [y EXCEPT !.granted = granted]
             u == [z EXCEPT !.sent = 0]
  <2>1. pass' = [u EXCEPT !.day = day]
    BY <1>3
  <2>2. x \in PassRecord /\ x.stage = "fetching" /\ x.left = pass.left \ slice
    BY <1>1, <1>4 DEF PassRecord
  <2> HIDE DEF x
  <2>3. y \in PassRecord /\ y.stage = "fetching" /\ y.left = x.left /\ y.queue = asking
    BY <1>6, <2>2 DEF PassRecord
  <2> HIDE DEF y
  <2>4. z \in PassRecord /\ z.stage = "fetching" /\ z.left = y.left /\ z.queue = asking
    BY <1>6, <2>3 DEF PassRecord
  <2> HIDE DEF z
  <2>5. u \in PassRecord /\ u.stage = "fetching" /\ u.left = z.left /\ u.queue = asking
    BY <2>4 DEF PassRecord
  <2> HIDE DEF u
  <2> QED BY <1>1, <2>1, <2>2, <2>3, <2>4, <2>5 DEF PassRecord
<1>8. /\ report' \in ReportRecord /\ report'.considered = report.considered
      /\ Total(report') = Total(report) + (Cardinality(slice) - Cardinality(asking))
  <2> DEFINE n == Cardinality(slice) - Cardinality(asking)
  <2>1. n \in Int /\ report \in ReportRecord
    BY <1>1, <1>6 DEF EnrichmentTypes
  <2>2. report' = [report EXCEPT !.deferred = @ + n]
    BY <1>3, <1>6
  <2> HIDE DEF n
  <2>3. /\ report' \in ReportRecord /\ report'.considered = report.considered
        /\ Total(report') = Total(report) + n
    BY <2>1, <2>2, ReportPlus
  <2> QED BY <2>3 DEF n
<1>9. Opened' = Opened /\ E!HeldFetches' = E!HeldFetches
  BY <1>4 DEF Opened, E!HeldFetches
<1>10. EnrichmentTypes'
  BY <1>1, <1>4, <1>7, <1>8 DEF EnrichmentTypes
<1>11. OnePlace' /\ AsksOfEach' /\ MissesAreSaid'
  <2>1. pass'.left \subseteq pass.left /\ pass'.queue \subseteq pass.left
        /\ pass'.left \cap pass'.queue = {}
    BY <1>6, <1>7, <1>5
  <2> QED BY <1>1, <1>4, <1>7, <1>9, <2>1 DEF OnePlace, AsksOfEach, MissesAreSaid
<1>12. Balanced'
  <2>1. Cardinality(pass.left) = Cardinality(slice) + Cardinality(pass.left \ slice)
    <3>1. pass.left \cap slice = slice
      BY <1>5
    <3> QED BY <1>1, <3>1, SplitInTwo, InHandCounts
  <2>2. Cardinality(pass.queue) = 0
    BY <1>4, FS_EmptySet
  <2>3. report.considered = Total(report) + Cardinality(pass.left) + Cardinality(pass.queue)
                            + Cardinality(Opened) + Cardinality(E!HeldFetches)
    BY <1>1, <1>4, InHandCounts DEF Balanced, InHand
  <2>4. InHand' = Cardinality(pass.left \ slice) + Cardinality(asking) + Cardinality(Opened)
                  + Cardinality(E!HeldFetches)
    BY <1>7, <1>9 DEF InHand
  <2>5. Total(report)' = Total(report')
    BY DEF Total
  <2>6. Cardinality(pass.left \ slice) \in Nat /\ Cardinality(asking) \in Nat
    <3>1. pass.left \ slice \in SUBSET Works
      BY <1>1 DEF PassRecord
    <3> QED BY <1>6, <3>1, FinitelyMany
  <2>7. report'.considered = Total(report') + InHand'
    BY <1>1, <1>6, <1>8, <2>1, <2>2, <2>3, <2>4, <2>6, InHandCounts
  <2> QED BY <1>7, <2>5, <2>7 DEF Balanced
<1> QED BY <1>10, <1>11, <1>12 DEF EnrichmentInv

(* A request leaves the queue: out, or skipped or put off. *)
LEMMA StartsSteps ==
  ASSUME EnrichmentAssumed, EnrichmentInv, NEW w \in Works, E!Starts(w)
  PROVE  EnrichmentInv'
<1>1. /\ EnrichmentTypes /\ OnePlace /\ AsksOfEach /\ MissesAreSaid /\ Balanced
      /\ day \in Nat /\ pass \in PassRecord /\ report \in ReportRecord
  BY DEF EnrichmentInv, EnrichmentTypes
<1>2. /\ w \in pass.queue /\ pass' = [pass EXCEPT !.queue = @ \ {w}]
      /\ UNCHANGED <<day, record, breaker, held, missed, alone>>
  BY DEF E!Starts, E!stage, E!bounds, E!count
<1>3. /\ pass' \in PassRecord /\ pass'.stage = pass.stage /\ pass'.left = pass.left
      /\ pass'.queue = pass.queue \ {w}
  BY <1>1, <1>2 DEF PassRecord
<1>4. pass.stage \in {"searching", "fetching"} /\ w \notin Opened
  BY <1>1, <1>2 DEF OnePlace, PassRecord
<1>5. Cardinality(pass.queue) = Cardinality(pass.queue \ {w}) + 1
      /\ Cardinality(pass.queue \ {w}) \in Nat
  BY <1>1, <1>2, InHandCounts, OneLess, FinitelyMany
<1>6. E!HeldFetches' = E!HeldFetches /\ Total(report)' = Total(report')
  BY <1>2 DEF E!HeldFetches, Total
<1>7. CASE E!Broken \/ closed
  <2>1. open' = open /\ Opened' = Opened
    BY <1>7 DEF E!Starts, Opened
  <2>2. /\ report' \in ReportRecord /\ report'.considered = report.considered
        /\ pass.stage = "fetching" => Total(report') = Total(report) + 1
    <3>1. CASE pass.stage = "searching"
      BY <1>1, <1>7, <3>1 DEF E!Starts
    <3>2. CASE pass.stage # "searching" /\ E!Broken
      <4>1. report' = [report EXCEPT !.skipped = @ + 1]
        BY <1>7, <3>2 DEF E!Starts
      <4> QED BY <1>1, <4>1, ReportPlusOne
    <3>3. CASE pass.stage # "searching" /\ ~ E!Broken
      <4>1. report' = [report EXCEPT !.deferred = @ + 1]
        BY <1>7, <3>3 DEF E!Starts
      <4> QED BY <1>1, <4>1, ReportPlusOne
    <3> QED BY <3>1, <3>2, <3>3
  <2>3. EnrichmentTypes'
    BY <1>1, <1>2, <1>3, <2>1, <2>2 DEF EnrichmentTypes
  <2>4. OnePlace' /\ AsksOfEach' /\ MissesAreSaid'
    BY <1>1, <1>2, <1>3, <1>4, <2>1 DEF OnePlace, AsksOfEach, MissesAreSaid
  <2>5. Balanced'
    <3>1. pass.stage = "fetching" => InHand = InHand' + 1 /\ InHand' \in Int
      BY <1>1, <1>3, <1>5, <1>6, <2>1, InHandCounts DEF InHand
    <3> QED BY <1>1, <1>3, <1>4, <1>6, <2>2, <3>1, InHandCounts DEF Balanced
  <2> QED BY <2>3, <2>4, <2>5 DEF EnrichmentInv
<1>8. CASE ~ (E!Broken \/ closed)
  <2>1. open' = [open EXCEPT ![w] = "paced"] /\ report' = report
    BY <1>8 DEF E!Starts
  <2>2. Opened' = Opened \cup {w}
    BY <1>1, <2>1 DEF Opened, EnrichmentTypes
  <2>3. EnrichmentTypes'
    BY <1>1, <1>2, <1>3, <2>1 DEF EnrichmentTypes
  <2>4. OnePlace' /\ AsksOfEach' /\ MissesAreSaid'
    BY <1>1, <1>2, <1>3, <1>4, <2>2 DEF OnePlace, AsksOfEach, MissesAreSaid
  <2>5. Balanced'
    <3>1. Cardinality(Opened \cup {w}) = Cardinality(Opened) + 1
      BY <1>1, <1>4, InHandCounts, OneMore
    <3>2. InHand' = InHand
      BY <1>1, <1>3, <1>5, <1>6, <2>2, <3>1, InHandCounts DEF InHand
    <3> QED BY <1>1, <1>3, <1>6, <2>1, <3>2 DEF Balanced
  <2> QED BY <2>3, <2>4, <2>5 DEF EnrichmentInv
<1> QED BY <1>7, <1>8

LEMMA SendsSteps ==
  ASSUME EnrichmentAssumed, EnrichmentInv, NEW w \in Works, E!Sends(w)
  PROVE  EnrichmentInv'
<1>1. /\ EnrichmentTypes /\ OnePlace /\ AsksOfEach /\ MissesAreSaid /\ Balanced
      /\ day \in Nat /\ pass \in PassRecord
  BY DEF EnrichmentInv, EnrichmentTypes
<1>2. /\ open[w] = "paced" /\ open' = [open EXCEPT ![w] = "out"]
      /\ pass' = [pass EXCEPT !.sent = @ + 1]
      /\ UNCHANGED <<day, record, breaker, held, missed, alone, report>>
  BY DEF E!Sends, E!stage, E!bounds, E!count
<1>3. /\ pass' \in PassRecord /\ pass'.stage = pass.stage /\ pass'.left = pass.left
      /\ pass'.queue = pass.queue
  BY <1>1, <1>2 DEF PassRecord
<1>4. Opened' = Opened /\ E!HeldFetches' = E!HeldFetches /\ Total(report)' = Total(report)
  BY <1>1, <1>2 DEF Opened, E!HeldFetches, EnrichmentTypes, Total
<1>5. EnrichmentTypes'
  BY <1>1, <1>2, <1>3 DEF EnrichmentTypes
<1>6. OnePlace' /\ AsksOfEach' /\ MissesAreSaid'
  BY <1>1, <1>2, <1>3, <1>4 DEF OnePlace, AsksOfEach, MissesAreSaid, E!Refused
<1>7. Balanced'
  BY <1>1, <1>2, <1>3, <1>4 DEF Balanced, InHand
<1> QED BY <1>5, <1>6, <1>7 DEF EnrichmentInv

LEMMA RefusesTheDaySteps ==
  ASSUME EnrichmentAssumed, EnrichmentInv, NEW w \in Works, E!RefusesTheDay(w)
  PROVE  EnrichmentInv'
<1>1. /\ EnrichmentTypes /\ OnePlace /\ AsksOfEach /\ MissesAreSaid /\ Balanced
      /\ day \in Nat /\ pass \in PassRecord /\ report \in ReportRecord
  BY DEF EnrichmentInv, EnrichmentTypes
<1>2. /\ open[w] = "out" /\ open' = [open EXCEPT ![w] = "no"]
      /\ report' = IF pass.stage = "fetching" THEN [report EXCEPT !.deferred = @ + 1] ELSE report
      /\ UNCHANGED <<day, record, breaker, held, missed, alone, pass>>
  BY DEF E!RefusesTheDay, E!bounds, E!count
<1>3. w \in Opened /\ Opened' = Opened \ {w} /\ pass.stage # "over"
  BY <1>1, <1>2 DEF Opened, EnrichmentTypes, OnePlace
<1>4. E!HeldFetches' = E!HeldFetches /\ Total(report)' = Total(report')
  BY <1>2 DEF E!HeldFetches, Total
<1>5. /\ report' \in ReportRecord /\ report'.considered = report.considered
      /\ pass.stage = "fetching" => Total(report') = Total(report) + 1
  BY <1>1, <1>2, ReportPlusOne
<1>6. EnrichmentTypes'
  BY <1>1, <1>2, <1>5 DEF EnrichmentTypes
<1>7. OnePlace' /\ AsksOfEach' /\ MissesAreSaid'
  BY <1>1, <1>2, <1>3 DEF OnePlace, AsksOfEach, MissesAreSaid, E!Refused
<1>8. Balanced'
  <2>1. Cardinality(Opened) = Cardinality(Opened \ {w}) + 1
    BY <1>1, <1>3, InHandCounts, OneLess
  <2>2. Cardinality(Opened \ {w}) \in Nat
    <3>1. Opened \ {w} \in SUBSET Works
      BY DEF Opened
    <3> QED BY <3>1, FinitelyMany
  <2>3. InHand = InHand' + 1 /\ InHand' \in Int
    BY <1>1, <1>2, <1>3, <1>4, <2>1, <2>2, InHandCounts DEF InHand
  <2> QED BY <1>1, <1>2, <1>3, <1>4, <1>5, <2>3, InHandCounts DEF Balanced
<1> QED BY <1>6, <1>7, <1>8 DEF EnrichmentInv

(* The end of a slice, of a pass, or of the process. *)
LEMMA EndsSteps ==
  ASSUME EnrichmentAssumed, EnrichmentInv, E!SliceEnds \/ E!PassOver
  PROVE  EnrichmentInv'
<1>1. /\ EnrichmentTypes /\ OnePlace /\ AsksOfEach /\ MissesAreSaid /\ Balanced
      /\ day \in Nat /\ pass \in PassRecord
  BY DEF EnrichmentInv, EnrichmentTypes
<1>2. CASE E!SliceEnds
  <2>1. /\ pass' = [pass EXCEPT !.granted = 0, !.sent = 0]
        /\ UNCHANGED <<day, record, open, breaker, held, missed, alone, report>>
    BY <1>2 DEF E!SliceEnds, E!stage, E!bounds
  <2>2. /\ pass' \in PassRecord /\ pass'.stage = pass.stage /\ pass'.left = pass.left
        /\ pass'.queue = pass.queue
    BY <1>1, <2>1 DEF PassRecord
  <2>3. Opened' = Opened /\ E!HeldFetches' = E!HeldFetches /\ Total(report)' = Total(report)
    BY <2>1 DEF Opened, E!HeldFetches, Total
  <2>4. EnrichmentTypes'
    BY <1>1, <2>1, <2>2 DEF EnrichmentTypes
  <2>5. OnePlace' /\ AsksOfEach' /\ MissesAreSaid'
    BY <1>1, <2>1, <2>2, <2>3 DEF OnePlace, AsksOfEach, MissesAreSaid, E!Refused
  <2>6. Balanced'
    BY <1>1, <2>1, <2>2, <2>3 DEF Balanced, InHand
  <2> QED BY <2>4, <2>5, <2>6 DEF EnrichmentInv
<1>3. CASE E!PassOver
  <2>1. /\ pass' = E!Off /\ open' = [v \in Works |-> "no"] /\ breaker' = E!Unbroken
        /\ held' = {} /\ missed' = {} /\ report' = E!NoReport
        /\ UNCHANGED <<day, record, alone>>
    BY <1>3 DEF E!PassOver, E!bounds, E!count
  <2>2. Opened' = {}
    BY <2>1 DEF Opened
  <2>3. EnrichmentTypes'
    BY <1>1, <2>1, OffIsARecord DEF EnrichmentTypes
  <2> QED BY <1>1, <2>1, <2>2, <2>3, OffIsARecord
          DEF EnrichmentInv, OnePlace, AsksOfEach, MissesAreSaid, Balanced
<1> QED BY <1>2, <1>3

(* What is written down of a refusal was found, and stays out of searches. *)
LEMMA MissesKeep ==
  ASSUME EnrichmentTypes, NEW S
  PROVE  /\ E!Misses(S, record) \in [Works -> {"unknown", "none", "found", "empty", "answer"}]
         /\ \A w \in Works : w \notin S => E!Misses(S, record)[w] = record[w]
         /\ \A w \in Works : E!Misses(S, record)[w] = "unknown" => record[w] = "unknown"
BY DEF EnrichmentTypes, E!Misses

LEMMA FinishesSteps ==
  ASSUME EnrichmentAssumed, EnrichmentInv, E!Finishes
  PROVE  EnrichmentInv'
<1>1. /\ EnrichmentTypes /\ OnePlace /\ AsksOfEach /\ MissesAreSaid /\ Balanced
      /\ day \in Nat /\ pass \in PassRecord /\ report \in ReportRecord
  BY DEF EnrichmentInv, EnrichmentTypes
<1>2. /\ pass.stage = "fetching" /\ pass.queue = {} /\ pass.left = {} /\ Opened = {}
      /\ pass' = [E!Off EXCEPT !.stage = "over"] /\ held' = {}
      /\ UNCHANGED <<day, open, breaker, alone>>
  BY DEF E!Finishes, E!Settled, Opened, E!bounds
<1>3. /\ pass' \in PassRecord /\ pass'.stage = "over" /\ pass'.queue = {} /\ pass'.left = {}
      /\ Opened' = {}
  BY <1>2, OffIsARecord DEF E!Off, PassRecord, Opened
<1>4. E!HeldFetches \in SUBSET Works /\ Cardinality(E!HeldFetches) \in Int
      /\ Total(report)' = Total(report')
  BY <1>1, InHandCounts DEF Total
<1>5. report.considered = Total(report) + Cardinality(E!HeldFetches)
  <2>1. Cardinality({}) = 0
    BY FS_EmptySet
  <2> QED BY <1>1, <1>2, <2>1, InHandCounts DEF Balanced, InHand
<1>6. /\ report' \in ReportRecord /\ report'.considered = report.considered
      /\ Total(report') = Total(report) + Cardinality(E!HeldFetches)
      /\ record' \in [Works -> {"unknown", "none", "found", "empty", "answer"}]
      /\ \A w \in Works : record'[w] = "unknown" => record[w] = "unknown"
      /\ missed' # {} /\ E!Refused => missed # {}
  <2>1. CASE E!Refused
    <3>1. report' = [report EXCEPT !.failed = @ + Cardinality(E!HeldFetches)]
          /\ record' = record /\ missed' = missed
      BY <2>1, CountedAlike DEF E!Finishes, E!Dropped
    <3> QED BY <1>1, <1>4, <3>1, ReportPlus DEF EnrichmentTypes
  <2>2. CASE ~ E!Refused
    <3>1. PICK stored \in SUBSET held :
            /\ record' = E!Misses(stored, record)
            /\ report' = E!Counted(report, E!HeldFetches, stored)
      BY <2>2 DEF E!Finishes
    <3>2. /\ report' \in ReportRecord /\ report'.considered = report.considered
          /\ Total(report') = Total(report) + Cardinality(E!HeldFetches)
      BY <1>1, <1>4, <3>1, CountsEach
    <3> QED BY <1>1, <2>2, <3>1, <3>2, MissesKeep
  <2> QED BY <2>1, <2>2
<1>7. EnrichmentTypes'
  BY <1>1, <1>2, <1>3, <1>6 DEF EnrichmentTypes
<1>8. OnePlace'
  BY <1>2, <1>3 DEF OnePlace
<1>9. AsksOfEach'
  BY <1>1, <1>2, <1>3, <1>6 DEF AsksOfEach
<1>10. MissesAreSaid'
  BY <1>1, <1>2, <1>3, <1>6 DEF MissesAreSaid, E!Refused
<1>11. Balanced'
  BY <1>3, <1>4, <1>5, <1>6 DEF Balanced
<1> QED BY <1>7, <1>8, <1>9, <1>10, <1>11 DEF EnrichmentInv

(* An answer: what was held back is counted as it is written down, what is *)
(* held back now is counted later.                                         *)
LEMMA AnswersSteps ==
  ASSUME EnrichmentAssumed, EnrichmentInv, NEW w \in Works, NEW outcome, E!Answers(w, outcome)
  PROVE  EnrichmentInv'
<1> DEFINE told == E!Recorded(outcome).answered
           fetching == pass.stage = "fetching"
           flushed == IF told THEN held ELSE {}
<1>1. /\ EnrichmentTypes /\ OnePlace /\ AsksOfEach /\ MissesAreSaid /\ Balanced
      /\ day \in Nat /\ pass \in PassRecord /\ report \in ReportRecord /\ held \in SUBSET Works
  BY DEF EnrichmentInv, EnrichmentTypes
<1>2. /\ open[w] = "out" /\ open' = [open EXCEPT ![w] = "no"] /\ breaker' = E!Recorded(outcome)
      /\ UNCHANGED <<day, pass, alone>>
  BY DEF E!Answers, E!bounds, E!count
<1>3. PICK stored \in SUBSET (held \cup {w}) :
        LET misses == flushed \cup
                        (IF outcome = "refused" /\ ~ E!HoldsBack(outcome) THEN {w} ELSE {})
            written == E!Misses(misses \cap stored, record)
        IN /\ held' = IF E!HoldsBack(outcome) THEN held \cup {w} ELSE held \ flushed
           /\ missed' = missed \cup (misses \cap stored)
           /\ record' = IF outcome = "said" /\ w \in stored
                        THEN [written EXCEPT ![w] = IF fetching THEN "answer" ELSE "found"]
                        ELSE written
           /\ report' =
                IF ~ fetching THEN report
                ELSE E!Counted(E!Counted(report, flushed \cap E!HeldFetches, stored),
                               IF outcome \in {"said", "refused"} /\ w \notin held' THEN {w}
                               ELSE IF outcome = "refused" THEN {} ELSE {w},
                               IF outcome \in {"said", "refused"} THEN stored ELSE {})
  BY Zenon DEF E!Answers
<1> DEFINE misses == flushed \cup
                       (IF outcome = "refused" /\ ~ E!HoldsBack(outcome) THEN {w} ELSE {})
           S == misses \cap stored
<1>4. /\ breaker' \in BreakerRecord /\ breaker'.answered = told
      /\ told <=> breaker.answered \/ outcome = "said"
      /\ E!HoldsBack(outcome) <=> outcome = "refused" /\ ~ told
  BY <1>1, <1>2, RecordsAnswers DEF E!HoldsBack
<1>5. w \in Opened /\ Opened' = Opened \ {w} /\ pass.stage \in {"searching", "fetching"}
      /\ w \notin held /\ w \notin pass.queue /\ w \notin pass.left
  BY <1>1, <1>2 DEF Opened, EnrichmentTypes, OnePlace, PassRecord
<1>6. held' = (IF outcome = "refused" /\ ~ told THEN held \cup {w} ELSE held \ flushed)
      /\ held' \in SUBSET Works
  BY <1>1, <1>3, <1>4
<1>7. /\ record' \in [Works -> {"unknown", "none", "found", "empty", "answer"}]
      /\ \A v \in Works : v \notin S \cup {w} => record'[v] = record[v]
      /\ \A v \in Works : record'[v] = "unknown" => record[v] = "unknown"
      /\ outcome # "said" /\ w \notin S => record'[w] = record[w]
  <2> DEFINE written == E!Misses(S, record)
  <2>1. /\ written \in [Works -> {"unknown", "none", "found", "empty", "answer"}]
        /\ \A v \in Works : v \notin S => written[v] = record[v]
        /\ \A v \in Works : written[v] = "unknown" => record[v] = "unknown"
    BY <1>1, MissesKeep
  <2>2. record' = IF outcome = "said" /\ w \in stored
                  THEN [written EXCEPT ![w] = IF fetching THEN "answer" ELSE "found"]
                  ELSE written
    BY <1>3
  <2> HIDE DEF written, S, fetching
  <2> QED BY <2>1, <2>2
<1>8. S \subseteq flushed \cup {w} /\ (w \in S => told /\ outcome = "refused")
  BY <1>4, <1>5
<1>9. missed' = missed \cup S /\ (S # {} => told)
  BY <1>3, <1>4
<1> DEFINE X == IF outcome \in {"said", "refused"} /\ w \notin held' THEN {w}
                ELSE IF outcome = "refused" THEN {} ELSE {w}
           F == flushed \cap E!HeldFetches
<1>10. X = IF outcome = "refused" /\ ~ told THEN {} ELSE {w}
  BY <1>4, <1>5, <1>6
<1>11. /\ report' \in ReportRecord /\ report'.considered = report.considered
       /\ fetching => Total(report') = Total(report) + Cardinality(F) + Cardinality(X)
  <2>1. CASE ~ fetching
    BY <1>1, <1>3, <2>1
  <2>2. CASE fetching
    <3> DEFINE once == E!Counted(report, F, stored)
               kept == IF outcome \in {"said", "refused"} THEN stored ELSE {}
    <3>1. report' = E!Counted(once, X, kept)
      BY <1>3, <2>2
    <3>2. F \in SUBSET Works /\ X \in SUBSET Works
      <4> HIDE DEF X
      <4>1. X \subseteq {w}
        BY <1>10
      <4> QED BY <1>1, <4>1 DEF E!HeldFetches
    <3> HIDE DEF F, X, kept
    <3>3. once \in ReportRecord /\ once.considered = report.considered
          /\ Total(once) = Total(report) + Cardinality(F)
      BY <1>1, <3>2, CountsEach
    <3> HIDE DEF once
    <3>4. report' \in ReportRecord /\ report'.considered = once.considered
          /\ Total(report') = Total(once) + Cardinality(X)
      BY <3>1, <3>2, <3>3, CountsEach
    <3> QED BY <3>3, <3>4
  <2> QED BY <2>1, <2>2
<1> HIDE DEF X
<1>12. EnrichmentTypes'
  BY <1>1, <1>2, <1>4, <1>6, <1>7, <1>11 DEF EnrichmentTypes
<1>13. OnePlace'
  <2>1. held' \subseteq held \cup {w}
    BY <1>6
  <2> QED BY <1>1, <1>2, <1>5, <2>1 DEF OnePlace
<1>14. AsksOfEach'
  <2>1. pass.stage = "searching" =>
          \A v \in pass.queue \cup Opened' \cup held' : record'[v] = "unknown"
    <3> SUFFICES ASSUME pass.stage = "searching",
                        NEW v \in pass.queue \cup Opened' \cup held'
                 PROVE  record'[v] = "unknown"
      OBVIOUS
    <3>1. v \in Works /\ record[v] = "unknown"
      BY <1>1, <1>5, <1>6 DEF AsksOfEach, PassRecord, Opened
    <3>2. CASE v = w
      <4>1. outcome = "refused" /\ ~ told
        BY <1>5, <1>6, <3>2
      <4> QED BY <1>7, <1>8, <3>1, <3>2, <4>1
    <3>3. CASE v # w
      <4>1. v \notin flushed
        BY <1>1, <1>5, <1>6, <3>3 DEF OnePlace
      <4> QED BY <1>7, <1>8, <3>1, <3>3, <4>1
    <3> QED BY <3>2, <3>3
  <2>2. pass.stage = "fetching" =>
          \A v \in pass.left \cup pass.queue \cup Opened' : record'[v] # "unknown"
    <3> SUFFICES ASSUME pass.stage = "fetching",
                        NEW v \in pass.left \cup pass.queue \cup Opened'
                 PROVE  record'[v] # "unknown"
      OBVIOUS
    <3>1. v \in Works /\ record[v] # "unknown"
      BY <1>1, <1>5 DEF AsksOfEach, PassRecord, Opened
    <3> QED BY <1>7, <3>1
  <2> QED BY <1>1, <1>2, <1>7, <2>1, <2>2 DEF AsksOfEach
<1>15. MissesAreSaid'
  BY <1>1, <1>2, <1>4, <1>5, <1>9 DEF MissesAreSaid
<1>16. Balanced'
  <2>1. CASE ~ fetching
    BY <1>2, <1>5, <2>1 DEF Balanced
  <2>2. CASE fetching
    <3>1. Cardinality(Opened) = Cardinality(Opened') + 1 /\ Cardinality(Opened') \in Nat
      <4>1. Opened \ {w} \in SUBSET Works
        BY DEF Opened
      <4> QED BY <1>1, <1>5, <4>1, InHandCounts, OneLess, FinitelyMany
    <3>2. E!HeldFetches' = {v \in held' : record'[v] # "unknown"}
      BY DEF E!HeldFetches
    <3>3. Cardinality(F) + Cardinality(X) + Cardinality(E!HeldFetches')
            = Cardinality(E!HeldFetches) + 1
          /\ Cardinality(E!HeldFetches') \in Nat /\ Cardinality(F) \in Nat /\ Cardinality(X) \in Nat
      <4>1. Cardinality({}) = 0 /\ Cardinality({w}) = 1
        BY FS_EmptySet, FS_Singleton
      <4>2. CASE outcome = "refused" /\ ~ told
        <5>1. F = {} /\ X = {}
          BY <1>10, <4>2
        <5>2. E!HeldFetches' = E!HeldFetches \cup {w} /\ w \notin E!HeldFetches
          <6>1. S = {}
            BY <1>4, <4>2
          <6>2. \A v \in Works : record'[v] = record[v]
            BY <1>7, <4>2, <6>1
          <6>3. record[w] # "unknown"
            BY <1>1, <1>5, <2>2 DEF AsksOfEach
          <6> QED BY <1>1, <1>5, <1>6, <3>2, <4>2, <6>2, <6>3 DEF E!HeldFetches
        <5>3. Cardinality(E!HeldFetches \cup {w}) = Cardinality(E!HeldFetches) + 1
          BY <1>1, <5>2, InHandCounts, OneMore
        <5> HIDE DEF F
        <5> QED BY <1>1, <4>1, <5>1, <5>2, <5>3, InHandCounts
      <4>3. CASE told
        <5>1. F = E!HeldFetches /\ X = {w}
          BY <1>10, <4>3 DEF E!HeldFetches
        <5>2. E!HeldFetches' = {}
          BY <1>6, <3>2, <4>3
        <5> HIDE DEF F
        <5> QED BY <1>1, <4>1, <5>1, <5>2, InHandCounts
      <4>4. CASE ~ told /\ outcome # "refused"
        <5>1. F = {} /\ X = {w}
          BY <1>10, <4>4
        <5>2. E!HeldFetches' = E!HeldFetches
          <6>1. S = {} /\ held' = held /\ outcome # "said"
            BY <1>4, <1>6, <4>4
          <6>2. \A v \in Works : record'[v] = record[v]
            BY <1>7, <6>1
          <6> QED BY <1>1, <3>2, <6>1, <6>2 DEF E!HeldFetches
        <5> HIDE DEF F
        <5> QED BY <1>1, <4>1, <5>1, <5>2, InHandCounts
      <4> QED BY <4>2, <4>3, <4>4
    <3> HIDE DEF F
    <3>4. InHand' = Cardinality(pass.left) + Cardinality(pass.queue) + Cardinality(Opened')
                    + Cardinality(E!HeldFetches')
      BY <1>2 DEF InHand
    <3>5. report.considered = Total(report) + InHand
      BY <1>1, <2>2 DEF Balanced
    <3>6. InHand = Cardinality(pass.left) + Cardinality(pass.queue) + Cardinality(Opened)
                   + Cardinality(E!HeldFetches)
      BY DEF InHand
    <3>7. report'.considered = Total(report') + InHand'
      <4>1. Cardinality(pass.left) \in Nat /\ Cardinality(pass.queue) \in Nat
            /\ Cardinality(E!HeldFetches) \in Nat /\ Total(report) \in Int
        BY <1>1, InHandCounts
      <4>2. Total(report') = Total(report) + Cardinality(F) + Cardinality(X)
            /\ report'.considered = report.considered
        BY <1>11, <2>2
      <4> QED BY <3>1, <3>3, <3>4, <3>5, <3>6, <4>1, <4>2
    <3>8. Total(report)' = Total(report')
      BY DEF Total
    <3> QED BY <1>2, <2>2, <3>7, <3>8 DEF Balanced
  <2> QED BY <2>1, <2>2
<1> QED BY <1>12, <1>13, <1>14, <1>15, <1>16 DEF EnrichmentInv

LEMMA NextEnrichmentInv ==
  EnrichmentAssumed /\ EnrichmentInv /\ [E!Next]_E!vars => EnrichmentInv'
<1> SUFFICES ASSUME EnrichmentAssumed, EnrichmentInv, [E!Next]_E!vars PROVE EnrichmentInv'
  OBVIOUS
<1>1. ASSUME NEW w \in Works,
             \/ E!Starts(w) \/ E!Sends(w) \/ E!RefusesTheDay(w) \/ E!AsksAlone(w)
             \/ \E outcome \in E!Outcomes : E!Answers(w, outcome)
      PROVE  EnrichmentInv'
  <2>1. CASE E!Starts(w)
    BY <2>1, StartsSteps
  <2>2. CASE E!Sends(w)
    BY <2>2, SendsSteps
  <2>3. CASE E!RefusesTheDay(w)
    BY <2>3, RefusesTheDaySteps
  <2>4. CASE E!AsksAlone(w)
    BY <2>4, CalmSteps
  <2>5. CASE \E outcome \in E!Outcomes : E!Answers(w, outcome)
    BY <2>5, AnswersSteps
  <2> QED BY <1>1, <2>1, <2>2, <2>3, <2>4, <2>5
<1>2. CASE E!Midnight \/ E!GivesUp \/ E!SendsAlone \/ E!AnswersAlone \/ UNCHANGED E!vars
  BY <1>2, CalmSteps
<1>3. CASE E!Begins
  BY <1>3, BeginsSteps
<1>4. CASE E!TakesASlice
  BY <1>4, SliceSteps
<1>5. CASE E!SearchEnds
  BY <1>5, SearchEndsSteps
<1>6. CASE E!SliceEnds \/ E!PassOver
  BY <1>6, EndsSteps
<1>7. CASE E!Finishes
  BY <1>7, FinishesSteps
<1> QED BY <1>1, <1>2, <1>3, <1>4, <1>5, <1>6, <1>7 DEF E!Next

LEMMA EnrichmentInvariant == EnrichmentAssumed => (E!Spec => []EnrichmentInv)
<1> SUFFICES ASSUME EnrichmentAssumed PROVE E!Spec => []EnrichmentInv
  OBVIOUS
<1>1. E!Init => EnrichmentInv
  BY InitEnrichmentInv
<1>2. EnrichmentInv /\ [E!Next]_E!vars => EnrichmentInv'
  BY NextEnrichmentInv
<1> QED BY <1>1, <1>2, PTL DEF E!Spec

(* A source that answers nothing has no miss written down, and each work a *)
(* pass considered is counted once (enrichment.rs Held, finish).           *)
THEOREM EachWorkIsCounted == EnrichmentAssumed => (E!Spec => []E!PassesAreAccounted)
<1>1. EnrichmentAssumed /\ EnrichmentInv => E!PassesAreAccounted
  <2> SUFFICES ASSUME EnrichmentInv PROVE E!PassesAreAccounted
    OBVIOUS
  <2>1. E!NoMissOfABrokenSource
    BY DEF EnrichmentInv, MissesAreSaid, E!NoMissOfABrokenSource, E!Refused
  <2>2. E!ReportAccountsForAll
    BY DEF EnrichmentInv, Balanced, Total, E!ReportAccountsForAll
  <2> QED BY <2>1, <2>2 DEF E!PassesAreAccounted
<1>2. EnrichmentAssumed => (E!Spec => []EnrichmentInv)
  BY EnrichmentInvariant
<1> SUFFICES ASSUME EnrichmentAssumed PROVE E!Spec => []E!PassesAreAccounted
  OBVIOUS
<1>3. EnrichmentInv => E!PassesAreAccounted
  BY <1>1
<1> QED BY <1>2, <1>3, PTL

-----------------------------------------------------------------------------
(* What the rules decide: the module Routing, with variables of its own. A *)
(* proposal is of a folder its title's category has, and stays so while    *)
(* nothing but the free space and the other titles change.                 *)

CONSTANTS
  Unknown, NoValue, Library, RuleBooks, Answers, Places, Volumes, VolumeOf, Categories,
  DefaultCategory, Mappings, Sizes, FreeSpaces, MaxNews

VARIABLES books, media, sets, free, override, proposed, lap, asProposed, news

R == INSTANCE Routing WITH
  Blank <- NoValue, Folders <- Places, MaxChanges <- MaxNews,
  rules <- books, pass <- lap, changes <- news

RoutingAssumed ==
  /\ R!LibraryIsInOrder /\ R!FoldersAreNumbered /\ R!FinitelyManyFolders
  /\ R!EachOnAVolume /\ R!SizesAreNumbers /\ R!MapsToFolders /\ R!RulesNameCategories

CategoryOf(book, m, pinned) ==
  IF pinned # None THEN pinned
  ELSE IF R!Matches(book, m) = <<>> THEN DefaultCategory
  ELSE Head(R!Matches(book, m)).category

Verdict == [action : {"skip", "none", "move"}, target : Places \cup {None}]
ContextRecord ==
  [rules : RuleBooks, media : [R!Titles -> R!Carried], sets : [Categories -> SUBSET Places],
   free : [Places -> FreeSpaces \cup {Unknown}],
   override : [R!Titles -> Categories \cup {None}],
   proposed : [R!Titles -> Places \cup {None}]]
LapRecord ==
  [at : Nat \ {0}, ctx : ContextRecord, planned : [Places -> Int], sent : SUBSET Places,
   verdict : [R!Titles -> Verdict]]

RoutingTypes ==
  /\ R!Context \in ContextRecord
  /\ lap # R!NoPass => lap \in LapRecord

(* A folder the title's category has, where the title is not.              *)
Elsewhere(ctx, t, f) ==
  LET set == ctx.sets[CategoryOf(ctx.rules, ctx.media[t], ctx.override[t])] IN
  f \in set /\ ctx.media[t].folder \notin set

ProposedElsewhere ==
  asProposed => \A t \in R!Titles : proposed[t] # None => Elsewhere(R!Context, t, proposed[t])
DecidedElsewhere ==
  lap # R!NoPass =>
    \A t \in R!Titles : lap.verdict[t].action = "move"
                        => Elsewhere(lap.ctx, t, lap.verdict[t].target)

RoutingInv == RoutingTypes /\ ProposedElsewhere /\ DecidedElsewhere

-----------------------------------------------------------------------------
(* Of two folders one is roomier, and no two are each roomier than the     *)
(* other.                                                                  *)
LEMMA RoomierOrders ==
  ASSUME RoutingAssumed, NEW ctx \in ContextRecord, NEW planned \in [Places -> Int],
         NEW f \in Places, NEW g \in Places, NEW h \in Places
  PROVE  /\ ~ R!Roomier(ctx, planned, f, f)
         /\ f # g => R!Roomier(ctx, planned, f, g) \/ R!Roomier(ctx, planned, g, f)
         /\ R!Roomier(ctx, planned, f, g) /\ R!Roomier(ctx, planned, g, h)
              => R!Roomier(ctx, planned, f, h)
<1> DEFINE room(x) == R!Room(ctx, planned, x)
<1>1. Places \subseteq Nat /\ Unknown \notin Int /\ FreeSpaces \subseteq Int
  BY DEF RoutingAssumed, R!FoldersAreNumbered, R!SizesAreNumbers
<1>2. ASSUME NEW x \in Places PROVE room(x) \in Int \cup {Unknown}
  <2>1. ctx.free[x] \in FreeSpaces \cup {Unknown} /\ planned[x] \in Int
    BY DEF ContextRecord
  <2>2. ctx.free[x] = Unknown => room(x) = Unknown
    BY DEF R!Room
  <2>3. ctx.free[x] # Unknown => room(x) = ctx.free[x] - planned[x]
    BY DEF R!Room
  <2>4. ctx.free[x] # Unknown => ctx.free[x] - planned[x] \in Int
    <3> DEFINE n == ctx.free[x]
               m == planned[x]
    <3>1. n \in FreeSpaces \cup {Unknown} /\ m \in Int
      BY <2>1
    <3> HIDE DEF n, m
    <3>2. n # Unknown => n \in Int
      BY <1>1, <3>1, Zenon
    <3>3. n # Unknown => n - m \in Int
      BY <3>1, <3>2
    <3> QED BY <3>3 DEF n, m
  <2>5. CASE ctx.free[x] = Unknown
    BY <2>2, <2>5, Zenon
  <2>6. CASE ctx.free[x] # Unknown
    <3>1. room(x) \in Int
      BY <2>3, <2>4, <2>6, Zenon
    <3> QED BY <3>1, Zenon
  <2> QED BY <2>5, <2>6, Zenon
<1>3. ASSUME NEW x \in Places, NEW y \in Places
      PROVE  R!Roomier(ctx, planned, x, y) <=>
               \/ room(y) = Unknown /\ room(x) # Unknown
               \/ room(x) # Unknown /\ room(y) # Unknown /\ room(x) > room(y)
               \/ room(x) = room(y) /\ x < y
  BY DEF R!Roomier
<1> DEFINE rf == room(f)
           rg == room(g)
           rh == room(h)
<1>4. /\ rf \in Int \cup {Unknown} /\ rg \in Int \cup {Unknown} /\ rh \in Int \cup {Unknown}
      /\ f \in Nat /\ g \in Nat /\ h \in Nat
  BY <1>1, <1>2
<1>5. /\ R!Roomier(ctx, planned, f, f) <=>
           \/ rf = Unknown /\ rf # Unknown
           \/ rf # Unknown /\ rf # Unknown /\ rf > rf
           \/ rf = rf /\ f < f
      /\ R!Roomier(ctx, planned, f, g) <=>
           \/ rg = Unknown /\ rf # Unknown
           \/ rf # Unknown /\ rg # Unknown /\ rf > rg
           \/ rf = rg /\ f < g
      /\ R!Roomier(ctx, planned, g, f) <=>
           \/ rf = Unknown /\ rg # Unknown
           \/ rg # Unknown /\ rf # Unknown /\ rg > rf
           \/ rg = rf /\ g < f
      /\ R!Roomier(ctx, planned, g, h) <=>
           \/ rh = Unknown /\ rg # Unknown
           \/ rg # Unknown /\ rh # Unknown /\ rg > rh
           \/ rg = rh /\ g < h
      /\ R!Roomier(ctx, planned, f, h) <=>
           \/ rh = Unknown /\ rf # Unknown
           \/ rf # Unknown /\ rh # Unknown /\ rf > rh
           \/ rf = rh /\ f < h
  BY <1>3
<1> HIDE DEF rf, rg, rh, room
<1>6. ~ R!Roomier(ctx, planned, f, f)
  BY <1>1, <1>4, <1>5
<1>7. f # g => R!Roomier(ctx, planned, f, g) \/ R!Roomier(ctx, planned, g, f)
  BY <1>1, <1>4, <1>5
<1>8. R!Roomier(ctx, planned, f, g) /\ R!Roomier(ctx, planned, g, h)
        => R!Roomier(ctx, planned, f, h)
  BY <1>1, <1>4, <1>5
<1> QED BY <1>6, <1>7, <1>8

(* One of finitely many folders is roomier than the others: the one fewest *)
(* are roomier than.                                                       *)
LEMMA SomeRoomiest ==
  ASSUME RoutingAssumed, NEW ctx \in ContextRecord, NEW planned \in [Places -> Int],
         NEW set \in SUBSET Places, set # {}
  PROVE  \E f \in set : \A g \in set \ {f} : R!Roomier(ctx, planned, f, g)
<1> DEFINE Above(f) == {g \in set : R!Roomier(ctx, planned, g, f)}
           T == {n \in Nat : \E f \in set : n = Cardinality(Above(f))}
<1>1. IsFiniteSet(set)
  <2>1. R!IsFiniteSet(Places) <=> IsFiniteSet(Places)
    BY Zenon DEF R!IsFiniteSet, IsFiniteSet
  <2> QED BY <2>1, FS_Subset DEF RoutingAssumed, R!FinitelyManyFolders
<1>2. \A f \in set : IsFiniteSet(Above(f)) /\ Cardinality(Above(f)) \in Nat
  BY <1>1, FS_Subset, FS_CardinalityType
<1>3. T \in SUBSET Nat /\ T # {}
  BY <1>2
<1>4. PICK n \in T : \A y \in T : ~ (<<y, n>> \in OpToRel(<, Nat))
  <2> HIDE DEF T
  <2> QED BY <1>3, NatLessThanWellFounded, WFMin
<1>5. \A y \in T : ~ (y < n)
  <2> SUFFICES ASSUME NEW y \in T PROVE ~ (y < n)
    OBVIOUS
  <2>1. ~ (<<y, n>> \in OpToRel(<, Nat))
    BY <1>4
  <2> QED BY <2>1 DEF OpToRel
<1>6. PICK f \in set : n = Cardinality(Above(f))
  OBVIOUS
<1>7. \A g \in set : ~ R!Roomier(ctx, planned, g, f)
  <2> SUFFICES ASSUME NEW g \in set, R!Roomier(ctx, planned, g, f) PROVE FALSE
    OBVIOUS
  <2>1. Above(g) \subseteq Above(f)
    <3> SUFFICES ASSUME NEW h \in set, R!Roomier(ctx, planned, h, g)
                 PROVE  R!Roomier(ctx, planned, h, f)
      OBVIOUS
    <3> QED BY RoomierOrders
  <2>2. g \in Above(f) /\ g \notin Above(g)
    BY RoomierOrders
  <2>3. Cardinality(Above(g)) <= Cardinality(Above(f)) /\ Cardinality(Above(g)) # Cardinality(Above(f))
    <3> HIDE DEF Above
    <3> QED BY <1>2, <2>1, <2>2, FS_Subset
  <2>4. Cardinality(Above(g)) \in T
    BY <1>2
  <2> HIDE DEF T, Above
  <2> QED BY <1>2, <1>5, <1>6, <2>3, <2>4
<1> QED BY <1>7, RoomierOrders

(* A category there is has folders there are. *)
LEMMA FoldersOfCategory ==
  ASSUME RoutingAssumed, NEW ctx \in ContextRecord, NEW t \in R!Titles
  PROVE  /\ R!Category(ctx, t) = CategoryOf(ctx.rules, ctx.media[t], ctx.override[t])
         /\ ctx.sets[R!Category(ctx, t)] \in SUBSET Places
<1>1. R!Category(ctx, t) = CategoryOf(ctx.rules, ctx.media[t], ctx.override[t])
  BY Zenon DEF R!Category, CategoryOf
<1>2. /\ ctx.rules \in RuleBooks /\ ctx.media[t] \in R!Carried
      /\ ctx.override[t] \in Categories \cup {None}
  BY DEF ContextRecord
<1>3. /\ DefaultCategory \in Categories
      /\ R!Matches(ctx.rules, ctx.media[t]) # <<>>
           => Head(R!Matches(ctx.rules, ctx.media[t])).category \in Categories
  BY <1>2 DEF RoutingAssumed, R!RulesNameCategories
<1>4. CategoryOf(ctx.rules, ctx.media[t], ctx.override[t]) \in Categories
  BY <1>2, <1>3 DEF CategoryOf
<1> QED BY <1>1, <1>4 DEF ContextRecord

(* A title is moved to a folder of its category, the one proposed if it is *)
(* still one.                                                              *)
LEMMA RoutesElsewhere ==
  ASSUME RoutingAssumed, NEW ctx \in ContextRecord, NEW planned \in [Places -> Int],
         NEW t \in R!Titles
  PROVE  /\ R!Route(ctx, t, planned) \in Verdict
         /\ R!Route(ctx, t, planned).action = "move"
              => Elsewhere(ctx, t, R!Route(ctx, t, planned).target)
                 /\ R!Route(ctx, t, planned).target \in Places
         /\ Elsewhere(ctx, t, ctx.proposed[t])
              => R!Route(ctx, t, planned) = [action |-> "move", target |-> ctx.proposed[t]]
<1> DEFINE set == ctx.sets[R!Category(ctx, t)]
<1>1. set \in SUBSET Places /\ set = ctx.sets[CategoryOf(ctx.rules, ctx.media[t], ctx.override[t])]
  BY FoldersOfCategory
<1>2. R!Route(ctx, t, planned) =
        CASE set = {} -> [action |-> "skip", target |-> None]
          [] ctx.media[t].folder \in set -> [action |-> "none", target |-> ctx.media[t].folder]
          [] OTHER -> [action |-> "move", target |-> R!Destination(ctx, t, set, planned)]
  BY DEF R!Route
<1>3. \A f : Elsewhere(ctx, t, f) <=> f \in set /\ ctx.media[t].folder \notin set
  BY <1>1, Zenon DEF Elsewhere
<1> HIDE DEF set
<1>4. set # {} => R!Destination(ctx, t, set, planned) \in set
  <2> SUFFICES ASSUME set # {} PROVE R!Destination(ctx, t, set, planned) \in set
    OBVIOUS
  <2>1. \E f \in set : \A g \in set \ {f} : R!Roomier(ctx, planned, f, g)
    BY <1>1, SomeRoomiest
  <2> QED BY <2>1 DEF R!Destination
<1>5. ctx.proposed[t] \in set => R!Destination(ctx, t, set, planned) = ctx.proposed[t]
  BY DEF R!Destination
<1>6. CASE set = {}
  <2>1. R!Route(ctx, t, planned) = [action |-> "skip", target |-> None]
    BY <1>2, <1>6
  <2> QED BY <1>3, <1>6, <2>1 DEF Verdict
<1>7. CASE ctx.media[t].folder \in set
  <2>1. R!Route(ctx, t, planned) = [action |-> "none", target |-> ctx.media[t].folder]
    BY <1>2, <1>7
  <2> QED BY <1>1, <1>3, <1>7, <2>1 DEF Verdict
<1>8. CASE set # {} /\ ctx.media[t].folder \notin set
  <2>1. R!Route(ctx, t, planned) =
          [action |-> "move", target |-> R!Destination(ctx, t, set, planned)]
    BY <1>2, <1>8
  <2> QED BY <1>1, <1>3, <1>4, <1>5, <1>8, <2>1 DEF Verdict
<1> QED BY <1>6, <1>7, <1>8

-----------------------------------------------------------------------------
LEMMA InitRoutingInv == RoutingAssumed /\ R!Init => RoutingInv
<1> SUFFICES ASSUME RoutingAssumed, R!Init PROVE RoutingInv
  OBVIOUS
<1>1. media \in [R!Titles -> R!Carried]
  BY DEF R!Init, R!Carried
<1>2. sets \in [Categories -> SUBSET Places]
  BY DEF R!Init, RoutingAssumed, R!MapsToFolders
<1>3. free \in [Places -> FreeSpaces \cup {Unknown}]
  <2>1. PICK on \in [Volumes -> FreeSpaces] : free = [f \in Places |-> on[VolumeOf[f]]]
    BY DEF R!Init
  <2>2. \A f \in Places : VolumeOf[f] \in Volumes
    BY DEF RoutingAssumed, R!EachOnAVolume
  <2> QED BY <2>1, <2>2
<1>4. R!Context \in ContextRecord
  BY <1>1, <1>2, <1>3 DEF R!Init, R!Context, ContextRecord
<1> QED BY <1>4 DEF R!Init, RoutingInv, RoutingTypes, ProposedElsewhere, DecidedElsewhere

(* The pass. *)
LEMMA LapSteps ==
  ASSUME RoutingAssumed, RoutingInv, R!Begins \/ R!Evaluates \/ R!Stores
  PROVE  RoutingInv'
<1>1. /\ R!Context \in ContextRecord /\ ProposedElsewhere /\ DecidedElsewhere
      /\ lap # R!NoPass => lap \in LapRecord
  BY DEF RoutingInv, RoutingTypes
<1>2. CASE R!Begins
  <2> DEFINE begun == [at |-> 1, ctx |-> R!Context, planned |-> R!NothingPlanned, sent |-> {},
                       verdict |-> [t \in R!Titles |-> [action |-> "skip", target |-> None]]]
  <2>1. lap' = begun /\ R!Context' = R!Context /\ proposed' = proposed /\ asProposed' = asProposed
    BY <1>2 DEF R!Begins, R!Context
  <2>2. begun \in LapRecord /\ \A t \in R!Titles : begun.verdict[t].action # "move"
    BY <1>1 DEF LapRecord, R!NothingPlanned, Verdict
  <2> HIDE DEF begun
  <2>3. RoutingTypes' /\ DecidedElsewhere'
    BY <1>1, <2>1, <2>2 DEF RoutingTypes, DecidedElsewhere
  <2>4. ProposedElsewhere'
    BY <1>1, <2>1 DEF ProposedElsewhere, Elsewhere
  <2> QED BY <2>3, <2>4 DEF RoutingInv
<1>3. CASE R!Evaluates
  <2> DEFINE u == Library[lap.at]
             r == R!Route(lap.ctx, u, lap.planned)
             there == r.action = "move"
                      /\ ~ R!SameFilesystem(lap.ctx, r.target, lap.ctx.media[u].folder)
             sent1 == IF r.action = "move" THEN lap.sent \cup {r.target} ELSE lap.sent
             more == [lap.planned EXCEPT ![r.target] = @ + lap.ctx.media[u].size]
             planned1 == IF there THEN more ELSE lap.planned
  <2>1. /\ lap # R!NoPass /\ lap \in LapRecord /\ lap.at <= Len(Library)
        /\ R!Context' = R!Context /\ proposed' = proposed /\ asProposed' = asProposed
    BY <1>1, <1>3 DEF R!Evaluates, R!Context
  <2>2. lap' = [lap EXCEPT
          !.at = @ + 1,
          !.verdict[u] = r,
          !.sent = IF r.action = "move" THEN @ \cup {r.target} ELSE @,
          !.planned = IF there THEN more ELSE @]
    BY <1>3, Zenon DEF R!Evaluates
  <2>3. u \in R!Titles
    <3>1. lap.at \in DOMAIN Library
      BY <2>1 DEF LapRecord, RoutingAssumed, R!LibraryIsInOrder
    <3> QED BY <3>1 DEF R!Titles, R!ToSet
  <2>4. /\ r \in Verdict
        /\ r.action = "move" => Elsewhere(lap.ctx, u, r.target) /\ r.target \in Places
    <3>1. lap.ctx \in ContextRecord /\ lap.planned \in [Places -> Int]
      BY <2>1 DEF LapRecord
    <3> QED BY <2>3, <3>1, RoutesElsewhere
  <2>5. sent1 \in SUBSET Places /\ planned1 \in [Places -> Int]
    <3>1. lap.ctx.media[u].size \in Int
      BY <2>1, <2>3 DEF LapRecord, ContextRecord, R!Carried, RoutingAssumed, R!SizesAreNumbers
    <3> DEFINE size == lap.ctx.media[u].size
    <3>2. lap.planned \in [Places -> Int] /\ lap.sent \in SUBSET Places
      BY <2>1 DEF LapRecord
    <3>3. there => r.action = "move"
      OBVIOUS
    <3> HIDE DEF r, size, there
    <3>4. ASSUME there PROVE [lap.planned EXCEPT ![r.target] = @ + size] \in [Places -> Int]
      <4>1. r.target \in Places /\ size \in Int /\ lap.planned[r.target] + size \in Int
        BY <2>4, <3>1, <3>2, <3>3, <3>4 DEF size
      <4> QED BY <3>2, <4>1
    <3>5. planned1 = IF there THEN [lap.planned EXCEPT ![r.target] = @ + size] ELSE lap.planned
      BY DEF size
    <3> HIDE DEF planned1
    <3> QED BY <2>4, <3>2, <3>4, <3>5
  <2> HIDE DEF r, there, more, sent1, planned1
  <2>6. /\ lap' \in LapRecord /\ lap'.ctx = lap.ctx
        /\ lap'.verdict = [lap.verdict EXCEPT ![u] = r]
    <3> DEFINE x == [lap EXCEPT !.at = lap.at + 1]
               y == [x EXCEPT !.verdict = [lap.verdict EXCEPT ![u] = r]]
               z == [y EXCEPT !.sent = sent1]
    <3>1. lap' = [z EXCEPT !.planned = planned1]
      <4>1. lap' = [lap EXCEPT !.at = lap.at + 1, !.verdict = [lap.verdict EXCEPT ![u] = r],
                               !.sent = sent1, !.planned = planned1]
        BY <2>2, Zenon DEF sent1, planned1
      <4> QED BY <2>1, <4>1 DEF LapRecord
    <3>2. x \in LapRecord /\ x.ctx = lap.ctx
      BY <2>1 DEF LapRecord
    <3>3. [lap.verdict EXCEPT ![u] = r] \in [R!Titles -> Verdict]
      BY <2>1, <2>4 DEF LapRecord
    <3> HIDE DEF x
    <3>4. y \in LapRecord /\ y.ctx = x.ctx /\ y.verdict = [lap.verdict EXCEPT ![u] = r]
      BY <3>2, <3>3 DEF LapRecord
    <3> HIDE DEF y
    <3>5. z \in LapRecord /\ z.ctx = y.ctx /\ z.verdict = y.verdict
      BY <2>5, <3>4 DEF LapRecord
    <3> HIDE DEF z
    <3>6. lap' \in LapRecord /\ lap'.ctx = z.ctx /\ lap'.verdict = z.verdict
      BY <2>5, <3>1, <3>5 DEF LapRecord
    <3> QED BY <3>2, <3>4, <3>5, <3>6
  <2>7. \A t \in R!Titles :
          lap'.verdict[t].action = "move" => Elsewhere(lap.ctx, t, lap'.verdict[t].target)
    <3>1. \A t \in R!Titles : lap'.verdict[t] = IF t = u THEN r ELSE lap.verdict[t]
      BY <2>1, <2>6 DEF LapRecord
    <3> QED BY <1>1, <2>1, <2>4, <3>1 DEF DecidedElsewhere
  <2>8. DecidedElsewhere'
    BY <2>6, <2>7 DEF DecidedElsewhere, Elsewhere
  <2>9. RoutingTypes' /\ ProposedElsewhere'
    BY <1>1, <2>1, <2>6 DEF RoutingTypes, ProposedElsewhere, Elsewhere
  <2> QED BY <2>8, <2>9 DEF RoutingInv
<1>4. CASE R!Stores
  <2>1. /\ lap # R!NoPass /\ lap \in LapRecord /\ lap' = R!NoPass
        /\ proposed' = [t \in R!Titles |->
             IF lap.verdict[t].action = "move" THEN lap.verdict[t].target ELSE None]
        /\ asProposed' => /\ books = lap.ctx.rules /\ media = lap.ctx.media
                          /\ sets = lap.ctx.sets /\ override = lap.ctx.override
        /\ UNCHANGED <<books, media, sets, free, override>>
    BY <1>1, <1>4 DEF R!Stores, R!Evaluated, R!Context
  <2>2. proposed' \in [R!Titles -> Places \cup {None}]
    BY <2>1 DEF LapRecord, Verdict
  <2>3. R!Context' \in ContextRecord
    BY <1>1, <2>1, <2>2 DEF R!Context, ContextRecord
  <2>4. ProposedElsewhere'
    <3> SUFFICES ASSUME asProposed', NEW t \in R!Titles, proposed'[t] # None
                 PROVE  Elsewhere(R!Context', t, proposed'[t])
      BY DEF ProposedElsewhere, Elsewhere
    <3>1. lap.verdict[t].action = "move" /\ proposed'[t] = lap.verdict[t].target
      BY <2>1
    <3>2. Elsewhere(lap.ctx, t, proposed'[t])
      BY <1>1, <2>1, <3>1 DEF DecidedElsewhere
    <3>3. /\ R!Context'.rules = lap.ctx.rules /\ R!Context'.media = lap.ctx.media
          /\ R!Context'.sets = lap.ctx.sets /\ R!Context'.override = lap.ctx.override
      BY <2>1 DEF R!Context
    <3> QED BY <3>2, <3>3, Zenon DEF Elsewhere
  <2> QED BY <2>1, <2>3, <2>4 DEF RoutingInv, RoutingTypes, DecidedElsewhere
<1> QED BY <1>2, <1>3, <1>4

(* What an apply works out, and what changes in between. *)
LEMMA ContextSteps ==
  ASSUME RoutingAssumed, RoutingInv,
         (\E t \in R!Titles : R!Moves(t) \/ R!Pinned(t)) \/ R!Measured \/ R!Remapped
  PROVE  RoutingInv'
<1>1. /\ R!Context \in ContextRecord /\ ProposedElsewhere /\ DecidedElsewhere
      /\ lap # R!NoPass => lap \in LapRecord
  BY DEF RoutingInv, RoutingTypes
<1>2. /\ books \in RuleBooks /\ media \in [R!Titles -> R!Carried]
      /\ sets \in [Categories -> SUBSET Places] /\ free \in [Places -> FreeSpaces \cup {Unknown}]
      /\ override \in [R!Titles -> Categories \cup {None}]
      /\ proposed \in [R!Titles -> Places \cup {None}]
  BY <1>1 DEF R!Context, ContextRecord
<1>3. ASSUME lap' = lap PROVE DecidedElsewhere' /\ (lap' # R!NoPass => lap' \in LapRecord)
  BY <1>1, <1>3 DEF DecidedElsewhere, Elsewhere
<1>4. ASSUME NEW t \in R!Titles, R!Moves(t) PROVE RoutingInv'
  <2> DEFINE target == proposed[t]
  <2>1. /\ proposed[t] # None
        /\ media' = [media EXCEPT ![t].folder = target] \/ media' = media
        /\ proposed' = [proposed EXCEPT ![t] = None]
        /\ UNCHANGED <<books, sets, free, override, lap, asProposed>>
    BY <1>4 DEF R!Moves
  <2>2. target \in Places
    BY <1>2, <2>1
  <2> HIDE DEF target
  <2>3. /\ media' \in [R!Titles -> R!Carried] /\ proposed' \in [R!Titles -> Places \cup {None}]
        /\ \A s \in R!Titles \ {t} : media'[s] = media[s] /\ proposed'[s] = proposed[s]
        /\ proposed'[t] = None
    <3>1. [media[t] EXCEPT !.folder = target] \in R!Carried
      BY <1>2, <2>2 DEF R!Carried
    <3>2. media' = [media EXCEPT ![t] = [media[t] EXCEPT !.folder = target]] \/ media' = media
      BY <1>2, <2>1
    <3> DEFINE moved == [media[t] EXCEPT !.folder = target]
    <3> HIDE DEF moved
    <3>3. (media' = [media EXCEPT ![t] = moved] \/ media' = media) /\ moved \in R!Carried
      BY <3>1, <3>2 DEF moved
    <3> QED BY <1>2, <2>1, <3>3
  <2>4. R!Context' \in ContextRecord
    BY <1>2, <2>1, <2>3 DEF R!Context, ContextRecord
  <2>5. ProposedElsewhere'
    <3> SUFFICES ASSUME asProposed', NEW s \in R!Titles, proposed'[s] # None
                 PROVE  Elsewhere(R!Context', s, proposed'[s])
      BY DEF ProposedElsewhere, Elsewhere
    <3>1. s # t /\ proposed'[s] = proposed[s] /\ media'[s] = media[s]
      BY <2>3
    <3>2. Elsewhere(R!Context, s, proposed[s])
      BY <1>1, <2>1, <3>1 DEF ProposedElsewhere
    <3>3. /\ R!Context'.rules = R!Context.rules /\ R!Context'.sets = R!Context.sets
          /\ R!Context'.override = R!Context.override
          /\ R!Context'.media[s] = R!Context.media[s]
      BY <2>1, <3>1 DEF R!Context
    <3> QED BY <3>1, <3>2, <3>3, Zenon DEF Elsewhere
  <2> QED BY <1>3, <2>1, <2>4, <2>5 DEF RoutingInv, RoutingTypes
<1>5. ASSUME NEW t \in R!Titles, R!Pinned(t) PROVE RoutingInv'
  <2>1. /\ override' \in [R!Titles -> Categories \cup {None}] /\ ~ asProposed'
        /\ UNCHANGED <<books, media, sets, free, proposed, lap>>
    BY <1>2, <1>5 DEF R!Pinned
  <2>2. R!Context' \in ContextRecord
    BY <1>2, <2>1 DEF R!Context, ContextRecord
  <2> QED BY <1>3, <2>1, <2>2 DEF RoutingInv, RoutingTypes, ProposedElsewhere
<1>6. CASE R!Measured
  <2>1. /\ free' \in [Places -> FreeSpaces \cup {Unknown}]
        /\ UNCHANGED <<books, media, sets, override, proposed, lap, asProposed>>
    BY <1>2, <1>6 DEF R!Measured
  <2>2. R!Context' \in ContextRecord
    BY <1>2, <2>1 DEF R!Context, ContextRecord
  <2>3. ProposedElsewhere'
    <3>1. /\ R!Context'.rules = R!Context.rules /\ R!Context'.sets = R!Context.sets
          /\ R!Context'.override = R!Context.override /\ R!Context'.media = R!Context.media
      BY <2>1 DEF R!Context
    <3> QED BY <1>1, <2>1, <3>1, Zenon DEF ProposedElsewhere, Elsewhere
  <2> QED BY <1>3, <2>1, <2>2, <2>3 DEF RoutingInv, RoutingTypes
<1>7. CASE R!Remapped
  <2>1. /\ sets' \in [Categories -> SUBSET Places] /\ ~ asProposed'
        /\ UNCHANGED <<books, media, free, override, proposed, lap>>
    BY <1>2, <1>7 DEF R!Remapped
  <2>2. R!Context' \in ContextRecord
    BY <1>2, <2>1 DEF R!Context, ContextRecord
  <2> QED BY <1>3, <2>1, <2>2 DEF RoutingInv, RoutingTypes, ProposedElsewhere
<1> QED BY <1>4, <1>5, <1>6, <1>7

LEMMA NextRoutingInv == RoutingAssumed /\ RoutingInv /\ [R!Next]_(R!vars) => RoutingInv'
<1> SUFFICES ASSUME RoutingAssumed, RoutingInv, [R!Next]_(R!vars) PROVE RoutingInv'
  OBVIOUS
<1>1. CASE R!Begins \/ R!Evaluates \/ R!Stores
  BY <1>1, LapSteps
<1>2. CASE (\E t \in R!Titles : R!Moves(t) \/ R!Pinned(t)) \/ R!Measured \/ R!Remapped
  BY <1>2, ContextSteps
<1>3. CASE UNCHANGED R!vars
  BY <1>3 DEF R!vars, RoutingInv, RoutingTypes, ProposedElsewhere, DecidedElsewhere,
     Elsewhere, R!Context
<1> QED BY <1>1, <1>2, <1>3 DEF R!Next

LEMMA RoutingInvariant == RoutingAssumed => (R!Spec => []RoutingInv)
<1> SUFFICES ASSUME RoutingAssumed PROVE R!Spec => []RoutingInv
  OBVIOUS
<1>1. R!Init => RoutingInv
  BY InitRoutingInv
<1>2. RoutingInv /\ [R!Next]_(R!vars) => RoutingInv'
  BY NextRoutingInv
<1> QED BY <1>1, <1>2, PTL DEF R!Spec

(* What an apply works out for one title alone is what the pass proposed   *)
(* for it among all the others, however the free space has changed since   *)
(* and whichever of the others have moved (destination,                    *)
(* revalidated_targets).                                                   *)
THEOREM GoesAsProposed == RoutingAssumed => (R!Spec => []R!GoesWhereProposed)
<1>1. RoutingAssumed /\ RoutingInv => R!GoesWhereProposed
  <2> SUFFICES ASSUME RoutingAssumed, RoutingInv, asProposed,
                      NEW t \in R!Titles, proposed[t] # None
               PROVE  R!TargetNow(t) = [action |-> "move", target |-> proposed[t]]
    BY DEF R!GoesWhereProposed
  <2>1. Elsewhere(R!Context, t, R!Context.proposed[t]) /\ R!Context.proposed[t] = proposed[t]
    BY DEF RoutingInv, ProposedElsewhere, R!Context
  <2>2. R!Context \in ContextRecord /\ R!NothingPlanned \in [Places -> Int]
    BY DEF RoutingInv, RoutingTypes, R!NothingPlanned
  <2> QED BY <2>1, <2>2, RoutesElsewhere DEF R!TargetNow
<1>2. RoutingAssumed => (R!Spec => []RoutingInv)
  BY RoutingInvariant
<1> SUFFICES ASSUME RoutingAssumed PROVE R!Spec => []R!GoesWhereProposed
  OBVIOUS
<1>3. RoutingInv => R!GoesWhereProposed
  BY <1>1
<1> QED BY <1>2, <1>3, PTL
-----------------------------------------------------------------------------
(* What the editor refuses: the module Validation. Two conditions that     *)
(* contradict each other never hold together, and what a condition's       *)
(* exclusion vetoes wholly never fires.                                    *)

CONSTANTS Written, Considered, MetadataFields, MaxConditions, MaxExclusions

VARIABLE draft

V == INSTANCE Validation WITH Blank <- NoValue, Asked <- Written, Titles <- Considered

ValidationAssumed ==
  V!AnsweredIsKnown /\ V!OperandsOfKind /\ V!AnswersOfKind /\ V!LanguageIsAnswered

Draft == [mode : {"all", "any"}, conditions : Seq(Written), exclusions : Seq(Written)]

DraftOK == draft \in Draft
Plain(c) == V!Listed(c) => NoValue \notin c.values

(* Of two conditions, one of which contradicts the other, one does not     *)
(* hold.                                                                   *)
LEMMA ContradictionsApart ==
  ASSUME ValidationAssumed, NEW a \in Written, NEW b \in Written, Plain(a), Plain(b),
         V!OneWay(a, b), NEW t \in Considered, V!Holds(a, t), V!Holds(b, t)
  PROVE  FALSE
<1>1. CASE a.kind = "flag" /\ b.kind = "flag" /\ a.field = b.field /\ a.expected # b.expected
  BY <1>1 DEF V!Holds
<1>2. CASE a.kind \in {"metadata", "languageKnown"} /\ b.kind = a.kind /\ a.expected # b.expected
  BY <1>2 DEF V!Holds
<1>3. CASE /\ a.kind = "any" /\ a.field = "language"
           /\ b.kind = "languageKnown" /\ ~ b.expected
  <2>1. V!LanguageKnown(t)
    BY <1>3 DEF V!Holds, V!ContainsAny, V!LanguageKnown
  <2>2. V!LanguageKnown(t) = b.expected
    BY <1>3 DEF V!Holds
  <2> QED BY <1>3, <2>1, <2>2
<1>4. CASE a.kind = "metadata" /\ ~ a.expected /\ V!NeedsMetadata(b)
  <2>1. ~ t.known
    BY <1>4 DEF V!Holds
  <2>2. /\ \A f \in MetadataFields \cap DOMAIN t.values : t.values[f] = {}
        /\ \A f \in MetadataFields \cap DOMAIN t.number : t.number[f] = Unknown
    BY <2>1 DEF ValidationAssumed, V!AnsweredIsKnown
  <2>3. CASE b.kind \in {"any", "all", "score"} /\ b.field \in MetadataFields
    <3>1. V!Listed(b) => t.values[b.field] = {}
      BY <2>2, <2>3 DEF ValidationAssumed, V!AnswersOfKind
    <3>2. V!Ranged(b) => t.number[b.field] = Unknown
      BY <2>2, <2>3 DEF ValidationAssumed, V!AnswersOfKind
    <3> QED
      BY <2>3, <3>1, <3>2
      DEF V!Holds, V!Listed, V!Ranged, V!ContainsAny, V!ContainsAll, V!Scored, V!InRange
  <2>4. CASE b.kind = "languageKnown" /\ b.expected
    <3>1. t.values["language"] = {}
      BY <2>2 DEF ValidationAssumed, V!AnswersOfKind, V!LanguageIsAnswered
    <3>2. ~ V!LanguageKnown(t)
      BY <3>1 DEF V!LanguageKnown
    <3>3. V!LanguageKnown(t) = b.expected
      BY <2>4 DEF V!Holds
    <3> QED BY <2>4, <3>2, <3>3
  <2> QED BY <1>4, <2>3, <2>4 DEF V!NeedsMetadata
<1>5. CASE /\ a.kind = "any" /\ b.kind = "none" /\ a.field = b.field
           /\ IF a.field = "language" THEN a.values # {} /\ a.values \subseteq b.values
              ELSE V!ForbidsAll(b, a)
  <2>1. V!ContainsAny(a, t) /\ ~ V!ContainsAny(b, t)
    BY <1>5 DEF V!Holds
  <2>2. V!Wanted(a) \subseteq V!Wanted(b)
    BY <1>5 DEF V!ForbidsAll, V!Wanted
  <2> QED BY <1>5, <2>1, <2>2 DEF V!ContainsAny
<1>6. CASE a.kind = "all" /\ b.kind = "none" /\ a.field = b.field /\ V!Overlaps(a, b)
  <2>1. V!ContainsAll(a, t) /\ ~ V!ContainsAny(b, t)
    BY <1>6 DEF V!Holds
  <2>2. PICK v : v \in V!Wanted(a) /\ v \in V!Wanted(b)
    BY <1>6 DEF V!Overlaps, V!Wanted, Plain, V!Listed
  <2> QED BY <1>6, <2>1, <2>2 DEF V!ContainsAny, V!ContainsAll
<1>7. CASE V!Ranged(a) /\ b.kind = a.kind /\ a.field = b.field /\ V!Apart(a, b)
  <2>1. V!InRange(a, t) /\ V!InRange(b, t) /\ V!Ranged(b)
    BY <1>7 DEF V!Holds, V!Ranged, V!Scored
  <2>2. PICK l \in {a.min, b.min} \ {Unknown}, h \in {a.max, b.max} \ {Unknown} : l > h
    BY <1>7 DEF V!Apart
  <2> DEFINE n == t.number[a.field]
  <2>3. l \in Int /\ h \in Int
    BY <1>7, <2>1 DEF ValidationAssumed, V!OperandsOfKind
  <2>4. n \in Int
    BY <1>7, <2>1 DEF ValidationAssumed, V!AnswersOfKind, V!InRange
  <2>5. n >= l /\ n <= h
    BY <1>7, <2>1 DEF V!InRange
  <2> HIDE DEF n
  <2> QED BY <2>2, <2>3, <2>4, <2>5
<1>8. CASE a.kind = "folder" /\ b.kind = "folder" /\ a.folder # b.folder
  BY <1>8 DEF V!Holds
<1> QED BY <1>1, <1>2, <1>3, <1>4, <1>5, <1>6, <1>7, <1>8 DEF V!OneWay

(* What an exclusion vetoes wholly it vetoes where the condition holds.    *)
LEMMA VetoedWhereItHolds ==
  ASSUME ValidationAssumed, NEW e \in Written, NEW c \in Written, V!VetoesAll(e, c),
         NEW t \in Considered, V!Holds(c, t)
  PROVE  V!Holds(e, t)
<1>1. CASE c.kind \in {"folder", "inside"} /\ e.kind = "inside" /\ V!Within(c.folder, e.folder)
  <2>1. /\ c.folder \in Seq(STRING) /\ e.folder \in Seq(STRING) /\ t.folder \in Seq(STRING)
    BY <1>1 DEF ValidationAssumed, V!OperandsOfKind, V!AnswersOfKind
  <2>2. V!Within(t.folder, c.folder)
    BY <1>1, <2>1 DEF V!Holds, V!Within
  <2> DEFINE m == Len(c.folder)
             n == Len(e.folder)
  <2>3. m \in Nat /\ n \in Nat /\ n <= m
    BY <1>1, <2>1 DEF V!Within
  <2>4. m <= Len(t.folder) /\ Len(t.folder) \in Nat /\ n <= Len(t.folder)
    BY <2>1, <2>2, <2>3 DEF V!Within
  <2>5. /\ \A i \in 1..n : c.folder[i] = e.folder[i]
        /\ \A i \in 1..m : t.folder[i] = c.folder[i]
    BY <1>1, <2>2 DEF V!Within
  <2> HIDE DEF m, n
  <2>6. \A i \in 1..n : t.folder[i] = e.folder[i]
    BY <2>3, <2>5
  <2>7. V!Within(t.folder, e.folder)
    BY <2>4, <2>6 DEF V!Within, n
  <2> QED BY <1>1, <2>7 DEF V!Holds
<1>2. CASE V!OneField(e, c) /\ V!VetoesValues(e, c)
  <2>1. c.kind \in {"any", "all"} /\ e.kind \in {"any", "all"} /\ c.field = e.field
    BY <1>2 DEF V!OneField, V!Quantified
  <2>2. CASE c.kind = "any" /\ e.kind = "any" /\ V!Wanted(c) # {} /\ V!Wanted(c) \subseteq V!Wanted(e)
    BY <2>1, <2>2 DEF V!Holds, V!ContainsAny
  <2>3. CASE c.kind = "all" /\ e.kind = "any" /\ V!Wanted(c) \cap V!Wanted(e) # {}
    <3>1. V!Wanted(c) \subseteq t.values[c.field]
      BY <2>3 DEF V!Holds, V!ContainsAll
    <3>2. V!ContainsAny(e, t)
      BY <2>1, <2>3, <3>1 DEF V!ContainsAny
    <3> QED BY <2>3, <3>2 DEF V!Holds
  <2>4. CASE c.kind = "all" /\ e.kind = "all" /\ V!Wanted(e) # {} /\ V!Wanted(e) \subseteq V!Wanted(c)
    <3>1. V!Wanted(c) \subseteq t.values[c.field]
      BY <2>4 DEF V!Holds, V!ContainsAll
    <3>2. V!ContainsAll(e, t)
      BY <2>1, <2>4, <3>1 DEF V!ContainsAll
    <3> QED BY <2>4, <3>2 DEF V!Holds
  <2>5. CASE /\ c.kind = "any" /\ e.kind = "all" /\ V!Wanted(c) = V!Wanted(e)
             /\ \E v \in V!Wanted(c) : V!Wanted(c) = {v}
    <3>1. V!Wanted(c) \cap t.values[c.field] # {}
      BY <2>5 DEF V!Holds, V!ContainsAny
    <3>2. V!ContainsAll(e, t)
      BY <2>1, <2>5, <3>1 DEF V!ContainsAll
    <3> QED BY <2>5, <3>2 DEF V!Holds
  <2> QED BY <1>2, <2>2, <2>3, <2>4, <2>5 DEF V!VetoesValues
<1>3. CASE e = c
  BY <1>3
<1> QED BY <1>1, <1>2, <1>3 DEF V!VetoesAll

LEMMA DraftsNeverFire ==
  ASSUME ValidationAssumed, NEW d \in Draft
  PROVE  V!RefusedNeverFires(d)
<1> SUFFICES ASSUME V!NoBlank(d), V!Contradiction(d) \/ V!ExclusionConflict(d),
                    NEW t \in Considered, V!Fires(d, t)
             PROVE  FALSE
  BY DEF V!RefusedNeverFires
<1>1. /\ d.conditions \in Seq(Written) /\ d.exclusions \in Seq(Written)
      /\ \A i \in DOMAIN d.conditions : d.conditions[i] \in Written /\ Plain(d.conditions[i])
      /\ \A i \in DOMAIN d.exclusions : d.exclusions[i] \in Written
  <2>1. d.conditions \in Seq(Written) /\ d.exclusions \in Seq(Written)
    BY DEF Draft
  <2>2. /\ \A i \in DOMAIN d.conditions : d.conditions[i] \in Written
        /\ \A i \in DOMAIN d.exclusions : d.exclusions[i] \in Written
    BY <2>1
  <2> QED BY <2>1, <2>2 DEF V!NoBlank, Plain
<1>2. V!RuleHolds(d, t) /\ ~ V!Vetoed(d, t)
  BY DEF V!Fires
<1>3. CASE V!Contradiction(d)
  <2>1. PICK i \in DOMAIN d.conditions, j \in DOMAIN d.conditions :
          V!Contradicts(d.conditions[i], d.conditions[j])
    BY <1>3 DEF V!Contradiction
  <2>2. V!Holds(d.conditions[i], t) /\ V!Holds(d.conditions[j], t)
    BY <1>2, <1>3, <2>1 DEF V!Contradiction, V!RuleHolds
  <2> QED BY <1>1, <2>1, <2>2, ContradictionsApart DEF V!Contradicts
<1>4. CASE V!ExclusionConflict(d)
  <2>1. PICK e \in DOMAIN d.exclusions, i \in DOMAIN d.conditions :
          V!VetoesAll(d.exclusions[e], d.conditions[i])
    BY <1>4 DEF V!ExclusionConflict
  <2>2. V!Holds(d.conditions[i], t)
    <3>1. CASE d.mode = "all"
      BY <1>2, <2>1, <3>1 DEF V!RuleHolds
    <3>2. CASE Len(d.conditions) = 1
      <4>1. DOMAIN d.conditions = {1}
        BY <1>1, <3>2
      <4> QED BY <1>2, <2>1, <4>1 DEF V!RuleHolds
    <3> QED BY <1>4, <3>1, <3>2 DEF V!ExclusionConflict
  <2>3. V!Holds(d.exclusions[e], t)
    BY <1>1, <2>1, <2>2, VetoedWhereItHolds
  <2> QED BY <1>2, <2>1, <2>3 DEF V!Vetoed
<1> QED BY <1>3, <1>4

(* A condition that is an exclusion too.                                   *)
LEMMA ExcludedIsRefused ==
  ASSUME NEW d \in Draft, d.mode = "all",
         NEW i \in DOMAIN d.conditions, NEW e \in DOMAIN d.exclusions,
         d.conditions[i] = d.exclusions[e]
  PROVE  V!Refused(d)
<1> DEFINE c == d.conditions[i]
<1>1. CASE V!Quantified(c)
  <2>1. V!Wanted(c) = {} => V!Refused(d)
    BY <1>1 DEF V!Refused, V!Faulty, V!Empty, V!Listed, V!Quantified
  <2>2. V!Wanted(c) # {} => V!VetoesAll(c, c)
    <3> HIDE DEF c
    <3> QED BY <1>1 DEF V!VetoesAll, V!OneField, V!VetoesValues, V!Quantified
  <2>3. V!VetoesAll(c, c) => V!Refused(d)
    BY DEF V!Refused, V!ExclusionConflict
  <2> QED BY <2>1, <2>2, <2>3
<1>2. CASE ~ V!Quantified(c)
  <2>1. V!VetoesAll(c, c)
    BY <1>2 DEF V!VetoesAll, V!OneField
  <2> QED BY <2>1 DEF V!Refused, V!ExclusionConflict
<1> QED BY <1>1, <1>2

LEMMA DraftTyped == V!Spec => []DraftOK
<1>1. V!Init => DraftOK
  <2>1. << >> \in Seq(Written)
    OBVIOUS
  <2> QED BY <2>1 DEF V!Init, V!NewDraft, Draft, DraftOK
<1>2. DraftOK /\ [V!Next]_draft => DraftOK'
  <2> SUFFICES ASSUME draft \in Draft, [V!Next]_draft PROVE draft' \in Draft
    BY DEF DraftOK
  <2>1. \A c \in Written :
          Append(draft.conditions, c) \in Seq(Written) /\ Append(draft.exclusions, c) \in Seq(Written)
    BY DEF Draft
  <2>2. ASSUME NEW c \in Written, V!AddsCondition(c) \/ V!AddsExclusion(c) PROVE draft' \in Draft
    BY <2>1, <2>2 DEF V!AddsCondition, V!AddsExclusion, Draft
  <2>3. CASE V!SwitchesMode
    BY <2>3 DEF V!SwitchesMode, Draft
  <2>4. CASE V!Saves
    BY <2>4 DEF V!Saves, V!NewDraft, Draft
  <2> QED BY <2>2, <2>3, <2>4 DEF V!Next
<1> QED BY <1>1, <1>2, PTL DEF V!Spec

(* Whatever is written in the editor, one condition at a time, only a rule *)
(* that fires for no title is refused as contradicting itself or as vetoed *)
(* by its own exclusion (validation.rs contradicts, vetoes_all).           *)
THEOREM RefusesWhatNeverFires ==
  ValidationAssumed => (V!Spec => []V!RefusedNeverFires(draft))
<1> SUFFICES ASSUME ValidationAssumed PROVE V!Spec => []V!RefusedNeverFires(draft)
  OBVIOUS
<1>1. DraftOK => V!RefusedNeverFires(draft)
  BY DraftsNeverFire DEF DraftOK
<1> QED BY <1>1, DraftTyped, PTL

(* A rule of which every condition must hold and one is an exclusion too   *)
(* is refused (validate_rule).                                             *)
Excluded(d) == V!ToSet(d.conditions) \cap V!ToSet(d.exclusions) # {}
THEOREM RefusesItsOwnExclusion ==
  V!Spec => [](draft.mode = "all" /\ Excluded(draft) => V!Refused(draft))
<1>1. DraftOK => (draft.mode = "all" /\ Excluded(draft) => V!Refused(draft))
  <2> SUFFICES ASSUME draft \in Draft, draft.mode = "all", Excluded(draft) PROVE V!Refused(draft)
    BY DEF DraftOK
  <2>1. PICK i \in DOMAIN draft.conditions, e \in DOMAIN draft.exclusions :
          draft.conditions[i] = draft.exclusions[e]
    BY DEF Excluded, V!ToSet
  <2> QED BY <2>1, ExcludedIsRefused
<1> QED BY <1>1, DraftTyped, PTL
=============================================================================
