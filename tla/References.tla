----------------------------- MODULE References -----------------------------
(***************************************************************************)
(* What names a category: the fallback, rules, folders, exceptions,        *)
(* exceptions waiting for their title and rule tests. A category is named  *)
(* by its name, with no foreign key, so every writer keeps the names true: *)
(* most under one write lock; those that judge a rule, a bundle or a case  *)
(* first read outside it and check again inside.                           *)
(*                                                                         *)
(* Rules also name instances, which go with what they hold.                *)
(***************************************************************************)
EXTENDS Naturals, FiniteSets

CONSTANTS
  Names,         \* the names a category may have
  Standard,      \* the category of a fresh installation, its fallback
  Instances, Folders, Titles,
  InstanceOf,    \* the instance of each folder and title
  Sent,          \* drafts of rules the editor sends
  RuleBundles,   \* what `POST /rules/import` is sent: sets of drafts, naming instances by scope
  Configs,       \* what `POST /config/import` is sent
  MaxRules,      \* MAX_RULES
  MaxBorn,       \* rules made in all
  MaxChanges,    \* changes committed in all
  None

Drafts == [target: Names, scope: SUBSET Instances, on: BOOLEAN]
Rule == [id: 1..MaxBorn, target: Names, scope: SUBSET Instances, on: BOOLEAN, template: BOOLEAN]
Config ==
  [fallback: Names \cup {None}, categories: SUBSET Names,
   folders: SUBSET [folder: Folders, category: Names \cup {None}, declared: BOOLEAN],
   pins: SUBSET [title: Titles, category: Names], rules: SUBSET Drafts, replace: BOOLEAN,
   tests: SUBSET [expects: Names, instance: Instances]]
Kinds == {"rule", "edit", "template", "rules", "config", "case"}
Request ==
  [kind: Kinds, of: 0..MaxBorn, adds: SUBSET Drafts, makes: SUBSET Names, replace: BOOLEAN,
   config: Config \cup {None}, expects: Names \cup {None}]

ASSUME NamesAssumption == Standard \in Names /\ None \notin Names
ASSUME SentAssumption == Sent \subseteq Drafts
ASSUME BundlesAssumption == RuleBundles \subseteq SUBSET Drafts /\ Configs \subseteq Config
ASSUME BoundsAssumption == MaxRules \in Nat /\ MaxBorn \in Nat /\ MaxChanges \in Nat
ASSUME InstanceOfAssumption == InstanceOf \in [Folders \cup Titles -> Instances]

VARIABLES
  categories,    \* names in `categories`
  fallback,      \* the setting `default_category`
  rules,         \* rows of `rules`
  born,          \* rules inserted so far: their ids
  instances,     \* rows of `instances`
  origin,        \* of each row of `root_folders`: the Arr's, or declared here; None when no row
  mapping,       \* its `category`
  here,          \* titles with a row in `media`
  pin,           \* `overrides` of each title
  retired,       \* `retired_overrides` of each title
  expected,      \* categories some row of `rule_tests` expects
  request,       \* a request that has judged what it was sent and not yet the write lock
  changes        \* changes committed so far

vars ==
  <<categories, fallback, rules, born, instances, origin, mapping, here, pin, retired, expected,
    request, changes>>
named == <<fallback, mapping, here, pin, retired, expected>>
folders == <<origin, mapping>>
titles == <<here, pin, retired>>

TypeOK ==
  /\ categories \subseteq Names /\ fallback \in Names
  /\ rules \subseteq Rule /\ born \in 0..MaxBorn
  /\ instances \subseteq Instances
  /\ origin \in [Folders -> {"arr", "declared", None}]
  /\ mapping \in [Folders -> Names \cup {None}]
  /\ here \subseteq Titles
  /\ pin \in [Titles -> Names \cup {None}] /\ retired \in [Titles -> Names \cup {None}]
  /\ expected \subseteq Names
  /\ request \in Request \cup {None}
  /\ changes \in 0..MaxChanges

Init ==
  /\ categories = {Standard} /\ fallback = Standard
  /\ rules = {} /\ born = 0 /\ instances = Instances
  /\ origin = [f \in Folders |-> None] /\ mapping = [f \in Folders |-> None]
  /\ here = {} /\ pin = [t \in Titles |-> None] /\ retired = [t \in Titles |-> None]
  /\ expected = {} /\ request = None /\ changes = 0

Changed == changes < MaxChanges /\ changes' = changes + 1

-----------------------------------------------------------------------------
(* Categories                                                              *)

(* `is_default`, sent by the owner, makes the new category the fallback.   *)
Create(c) ==
  /\ c \notin categories
  /\ categories' = categories \cup {c}
  /\ fallback' \in {fallback, c}
  /\ Changed
  /\ UNCHANGED <<rules, born, instances, folders, titles, expected, request>>

SetFallback(c) ==
  /\ c \in categories \ {fallback}
  /\ fallback' = c
  /\ Changed
  /\ UNCHANGED <<categories, rules, born, instances, folders, titles, expected, request>>

(* A name in use fails the first statement, and with it the transaction.   *)
Rename(c, n) ==
  LET Moved(x) == IF x = c THEN n ELSE x IN
  /\ c \in categories /\ n \notin categories
  /\ categories' = (categories \ {c}) \cup {n}
  /\ fallback' = Moved(fallback)
  /\ rules' = {[r EXCEPT !.target = Moved(@)] : r \in rules}
  /\ mapping' = [f \in Folders |-> Moved(mapping[f])]
  /\ pin' = [t \in Titles |-> Moved(pin[t])]
  /\ retired' = [t \in Titles |-> Moved(retired[t])]
  /\ expected' = {Moved(e) : e \in expected}
  /\ Changed
  /\ UNCHANGED <<born, instances, origin, here, request>>

Unused(c) ==
  /\ c # fallback
  /\ \A r \in rules : r.target # c
  /\ \A f \in Folders : mapping[f] # c
  /\ \A t \in Titles : pin[t] # c
  /\ c \notin expected

(* An exception waiting for its title goes with its category.              *)
Remove(c) ==
  /\ c \in categories /\ Unused(c)
  /\ categories' = categories \ {c}
  /\ retired' = [t \in Titles |-> IF retired[t] = c THEN None ELSE retired[t]]
  /\ Changed
  /\ UNCHANGED <<fallback, rules, born, instances, folders, here, pin, expected, request>>

-----------------------------------------------------------------------------
(* Folders and titles                                                      *)

(* `add_to_set` may be sent with any of them: a category already mapped on *)
(* another folder is refused only without it.                              *)
MapFolder(f, c) ==
  /\ origin[f] # None
  /\ c \in (categories \cup {None}) \ {mapping[f]}
  /\ mapping' = [mapping EXCEPT ![f] = c]
  /\ Changed
  /\ UNCHANGED <<categories, fallback, rules, born, instances, origin, titles, expected, request>>

Declare(f) ==
  /\ InstanceOf[f] \in instances /\ origin[f] = None
  /\ origin' = [origin EXCEPT ![f] = "declared"]
  /\ Changed
  /\ UNCHANGED <<categories, fallback, rules, born, instances, mapping, titles, expected, request>>

(* A sync finds the folder in the Arr: a declared one is promoted with its *)
(* category, one of before keeps it.                                       *)
FolderListed(f) ==
  /\ InstanceOf[f] \in instances /\ origin[f] # "arr"
  /\ origin' = [origin EXCEPT ![f] = "arr"]
  /\ Changed
  /\ UNCHANGED <<categories, fallback, rules, born, instances, mapping, titles, expected, request>>

(* A sync no longer finds a folder of the Arr, or a declared one is        *)
(* removed by hand.                                                        *)
FolderGone(f) ==
  /\ origin[f] # None
  /\ origin' = [origin EXCEPT ![f] = None]
  /\ mapping' = [mapping EXCEPT ![f] = None]
  /\ Changed
  /\ UNCHANGED <<categories, fallback, rules, born, instances, titles, expected, request>>

Pin(t, c) ==
  /\ t \in here /\ c \in categories \ {pin[t]}
  /\ pin' = [pin EXCEPT ![t] = c]
  /\ Changed
  /\ UNCHANGED
       <<categories, fallback, rules, born, instances, folders, here, retired, expected, request>>

(* The category of the folder the title is in, read under the pin's lock.  *)
Keep(t, f) == InstanceOf[f] = InstanceOf[t] /\ mapping[f] # None /\ Pin(t, mapping[f])

Unpin(t) ==
  /\ pin[t] # None
  /\ pin' = [pin EXCEPT ![t] = None]
  /\ Changed
  /\ UNCHANGED
       <<categories, fallback, rules, born, instances, folders, here, retired, expected, request>>

Retire(t) ==
  /\ t \in here
  /\ here' = here \ {t}
  /\ pin' = [pin EXCEPT ![t] = None]
  /\ retired' = [retired EXCEPT ![t] = IF pin[t] = None THEN @ ELSE pin[t]]
  /\ Changed
  /\ UNCHANGED <<categories, fallback, rules, born, instances, folders, expected, request>>

Return(t) ==
  /\ InstanceOf[t] \in instances /\ t \notin here
  /\ here' = here \cup {t}
  /\ pin' = [pin EXCEPT ![t] = IF retired[t] \in categories THEN retired[t] ELSE @]
  /\ retired' = [retired EXCEPT ![t] = None]
  /\ Changed
  /\ UNCHANGED <<categories, fallback, rules, born, instances, folders, expected, request>>

(* Its folders and titles go with it; a rule for it alone is switched off. *)
RemoveInstance(i) ==
  /\ i \in instances
  /\ instances' = instances \ {i}
  /\ rules' = {[r EXCEPT !.scope = @ \ {i}, !.on = @ /\ r.scope # {i}] : r \in rules}
  /\ origin' = [f \in Folders |-> IF InstanceOf[f] = i THEN None ELSE origin[f]]
  /\ mapping' = [f \in Folders |-> IF InstanceOf[f] = i THEN None ELSE mapping[f]]
  /\ here' = {t \in here : InstanceOf[t] # i}
  /\ pin' = [t \in Titles |-> IF InstanceOf[t] = i THEN None ELSE pin[t]]
  /\ retired' = [t \in Titles |-> IF InstanceOf[t] = i THEN None ELSE retired[t]]
  /\ Changed
  /\ UNCHANGED <<categories, fallback, born, expected, request>>

-----------------------------------------------------------------------------
(* Rules and rule tests, each in one statement or transaction              *)

DeleteRule(r) ==
  /\ rules' = rules \ {r}
  /\ Changed
  /\ UNCHANGED
       <<categories, fallback, born, instances, folders, titles, expected, request>>

(* Another case may expect what this one did.                              *)
SetExpected(e, c) ==
  /\ e \in expected /\ c \in categories
  /\ expected' \in {(expected \ {e}) \cup {c}, expected \cup {c}}
  /\ Changed
  /\ UNCHANGED
       <<categories, fallback, rules, born, instances, folders, titles, request>>

DeleteCase(e) ==
  /\ e \in expected
  /\ expected' = expected \ {e}
  /\ Changed
  /\ UNCHANGED
       <<categories, fallback, rules, born, instances, folders, titles, request>>

-----------------------------------------------------------------------------
(* Requests in two steps: what is judged is read before the write lock     *)

Blank ==
  [kind |-> "rule", of |-> 0, adds |-> {}, makes |-> {}, replace |-> FALSE, config |-> None,
   expects |-> None]
Begun(r) ==
  /\ request = None
  /\ request' = r
  /\ UNCHANGED
       <<categories, fallback, rules, born, instances, folders, titles, expected, changes>>

(* What the validator lets through, `known` being the categories.          *)
Judged(drafts, known) == {d \in drafts : d.target \in known /\ d.scope \subseteq instances}

(* A bundled rule is narrowed to the instances there are, and refused when *)
(* it names none of them.                                                  *)
ScopedHere(drafts) ==
  {[d EXCEPT !.scope = @ \cap instances] :
     d \in {d \in drafts : d.scope = {} \/ d.scope \cap instances # {}}}

(* create, and duplicate: a copy of a rule, switched off.                  *)
JudgeRule(d) ==
  /\ Judged({d}, categories) # {}
  /\ Begun([Blank EXCEPT !.adds = {d}])
JudgeCopy(r) == JudgeRule([target |-> r.target, scope |-> r.scope, on |-> FALSE])
JudgeEdit(r, d) ==
  /\ Judged({d}, categories) # {}
  /\ Begun([Blank EXCEPT !.kind = "edit", !.of = r.id, !.adds = {d}])

(* A template makes the category it is given.                              *)
JudgeTemplate(c, replace) ==
  Begun([Blank EXCEPT !.kind = "template", !.replace = replace, !.makes = {c},
                      !.adds = {[target |-> c, scope |-> {}, on |-> TRUE]}])

(* A replace that would keep no rule is refused here.                      *)
JudgeRules(bundle, create, replace) ==
  LET makes == IF create THEN {d.target : d \in bundle} \ categories ELSE {}
      adds == Judged(ScopedHere(bundle), categories \cup makes)
  IN /\ replace => adds # {}
     /\ Begun([Blank EXCEPT !.kind = "rules", !.adds = adds, !.makes = makes, !.replace = replace])

JudgeConfig(config) ==
  Begun([Blank EXCEPT !.kind = "config", !.config = config, !.replace = config.replace,
                      !.adds = {d \in config.rules : d.target \in categories \cup config.categories}])

(* The category asked for, or the one the rules decide today.              *)
JudgeCase(c) == Begun([Blank EXCEPT !.kind = "case", !.expects = c])

(* A caller that hangs up, or a statement refused: nothing is written.     *)
Drop ==
  /\ request # None
  /\ request' = None
  /\ UNCHANGED
       <<categories, fallback, rules, born, instances, folders, titles, expected, changes>>

-----------------------------------------------------------------------------
(* The second step, under the write lock                                   *)

(* insert_rule of each draft, by ids of their own, beside the rules kept;  *)
(* one past MAX_RULES fails the whole transaction.                         *)
Insert(kept, drafts, ofTemplate) ==
  /\ Cardinality(kept) + Cardinality(drafts) <= MaxRules
  /\ born' = born + Cardinality(drafts) /\ born' <= MaxBorn
  /\ \E id \in [drafts -> (born + 1)..born'] :
       /\ \A d, e \in drafts : id[d] = id[e] => d = e
       /\ rules' = kept \cup
            {[id |-> id[d], target |-> d.target, scope |-> d.scope, on |-> d.on,
              template |-> ofTemplate] : d \in drafts}

Write(kind) ==
  /\ request # None /\ request.kind = kind
  /\ request' = None
  /\ Changed

(* Mutant: the target is not looked for again. *)
WriteRuleAsJudged ==
  /\ Write("rule")
  /\ Insert(rules, request.adds, FALSE)
  /\ UNCHANGED <<categories, instances, origin, named>>

(* target_held *)
WriteRule ==
  /\ Write("rule")
  /\ \A d \in request.adds : d.target \in categories
  /\ Insert(rules, request.adds, FALSE)
  /\ UNCHANGED <<categories, instances, origin, named>>

WriteEdit ==
  /\ Write("edit")
  /\ \E r \in rules, d \in request.adds :
       /\ r.id = request.of
       /\ d.target \in categories
       /\ rules' = (rules \ {r}) \cup
            {[r EXCEPT !.target = d.target, !.scope = d.scope, !.on = d.on]}
  /\ UNCHANGED <<categories, born, instances, origin, named>>

(* Added once, unless it replaces what it added before; its category is    *)
(* made in the same transaction.                                           *)
WriteTemplate ==
  LET earlier == {r \in rules : r.template} IN
  /\ Write("template")
  /\ request.replace \/ earlier = {}
  /\ categories' = categories \cup request.makes
  /\ Insert(rules \ earlier, request.adds, TRUE)
  /\ UNCHANGED <<instances, origin, named>>

(* What an append leaves out: drafts a rule in place routes as, which here *)
(* is any set of those of one target and scope with it.                    *)
Appended(drafts) ==
  LET alike == {d \in drafts : \E r \in rules : r.target = d.target /\ r.scope = d.scope}
  IN {drafts \ present : present \in SUBSET alike}

(* A draft whose category went meanwhile is skipped, the rules replaced    *)
(* already deleted.                                                        *)
WriteRules ==
  /\ Write("rules")
  /\ categories' = categories \cup request.makes
  /\ \E adds \in IF request.replace THEN {request.adds} ELSE Appended(request.adds) :
       Insert(IF request.replace THEN {} ELSE rules, {d \in adds : d.target \in categories'}, FALSE)
  /\ UNCHANGED <<instances, origin, named>>

(* Everything is read again under the lock, the scopes too. A declared     *)
(* folder is declared again where its instance is; the others are mapped   *)
(* where they are.                                                         *)
ConfigFolders(asked) ==
  LET Reached(m) == IF m.declared THEN InstanceOf[m.folder] \in instances
                    ELSE origin[m.folder] # None
      Of(f) == {m \in asked : m.folder = f /\ Reached(m)}
      MappedOf(f) == {m \in Of(f) : m.category \in categories'}
  IN /\ origin' = [f \in Folders |->
          IF origin[f] = None /\ Of(f) # {} THEN "declared" ELSE origin[f]]
     /\ mapping' = [f \in Folders |->
          IF MappedOf(f) = {} THEN mapping[f] ELSE (CHOOSE m \in MappedOf(f) : TRUE).category]

ConfigPins(asked) ==
  LET Of(t) == {p \in asked : p.title = t /\ t \in here /\ p.category \in categories'}
  IN pin' = [t \in Titles |-> IF Of(t) = {} THEN pin[t] ELSE (CHOOSE p \in Of(t) : TRUE).category]

ConfigRules ==
  LET restored == ScopedHere({d \in request.adds : d.target \in categories'}) IN
  IF request.replace /\ restored # {}
    THEN Insert({}, restored, FALSE)
    ELSE \E adds \in Appended(restored) : Insert(rules, adds, FALSE)

WriteConfig ==
  LET config == request.config IN
  /\ Write("config")
  /\ categories' = categories \cup config.categories
  /\ fallback' = IF config.fallback \in categories' THEN config.fallback ELSE fallback
  /\ ConfigFolders(config.folders)
  /\ ConfigPins(config.pins)
  /\ ConfigRules
  /\ expected' = expected \cup
       {t.expects : t \in {t \in config.tests : t.expects \in categories' /\ t.instance \in instances}}
  /\ UNCHANGED <<instances, here, retired>>

WriteCase ==
  /\ Write("case")
  /\ request.expects \in categories
  /\ expected' = expected \cup {request.expects}
  /\ UNCHANGED <<categories, fallback, rules, born, instances, folders, titles>>

-----------------------------------------------------------------------------
Next ==
  \/ \E c \in Names : Create(c) \/ SetFallback(c) \/ Remove(c)
  \/ \E c, n \in Names : Rename(c, n) \/ SetExpected(c, n)
  \/ \E f \in Folders :
       \/ \E c \in Names \cup {None} : MapFolder(f, c)
       \/ Declare(f) \/ FolderListed(f) \/ FolderGone(f)
  \/ \E t \in Titles :
       \/ \E c \in Names : Pin(t, c)
       \/ \E f \in Folders : Keep(t, f)
       \/ Unpin(t) \/ Retire(t) \/ Return(t)
  \/ \E i \in Instances : RemoveInstance(i)
  \/ \E r \in rules :
       \/ DeleteRule(r) \/ JudgeCopy(r)
       \/ \E d \in Sent : JudgeEdit(r, d)
  \/ \E c \in Names : DeleteCase(c) \/ JudgeCase(c)
  \/ \E d \in Sent : JudgeRule(d)
  \/ \E c \in Names, replace \in BOOLEAN : JudgeTemplate(c, replace)
  \/ \E bundle \in RuleBundles, create, replace \in BOOLEAN : JudgeRules(bundle, create, replace)
  \/ \E config \in Configs : JudgeConfig(config)
  \/ Drop
  \/ WriteRule \/ WriteEdit \/ WriteTemplate \/ WriteRules \/ WriteConfig \/ WriteCase

Spec == Init /\ [][Next]_vars

-----------------------------------------------------------------------------
(* What names a category names one there is, whatever was renamed, removed *)
(* or imported between the check of a writer and its write                 *)
(* (categories.rs ensure_exists, move_references, remove).                 *)
NamesExist ==
  /\ fallback \in categories
  /\ \A r \in rules : r.target \in categories
  /\ \A f \in Folders : mapping[f] \in categories \cup {None}
  /\ \A t \in Titles : pin[t] \in categories \cup {None} /\ retired[t] \in categories \cup {None}
  /\ expected \subseteq categories

(* The rules are left empty by the removal of the last one, never by an    *)
(* import that replaces them (rules.rs import, config.rs import).          *)
EmptiedOnlyByHand == [][rules # {} /\ rules' = {} => request' = request]_vars

(* A rule names instances that exist (rules.rs check, instances.rs         *)
(* remove).                                                                *)
ScopesExist == \A r \in rules : r.scope \subseteq instances
=============================================================================
