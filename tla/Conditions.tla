----------------------------- MODULE Conditions -----------------------------
(***************************************************************************)
(* What a condition of a rule asks of a title                              *)
(* (services/rule_engine/mod.rs: evaluate_single_condition, hold,          *)
(* first_veto), by the family of the condition: kinds that read another    *)
(* field the same way are one family with a `field`.                       *)
(*                                                                         *)
(* Values are compared folded: two spellings of one value are that value,  *)
(* and Blank is any that folds to nothing. A title `t` is what a pass read *)
(* of it: t.known, whether a source answered; t.values, the values of each *)
(* field, none where nothing is known; t.number and t.votes, Unknown where *)
(* nothing is; t.flag; and t.folder, its root folder as the names on its   *)
(* path.                                                                   *)
(***************************************************************************)
EXTENDS Integers, Sequences

CONSTANTS Unknown, Blank

(* folded_values: the values of a condition, blanks dropped.               *)
Wanted(c) == c.values \ {Blank}

(* contains_any, contains_all, language_listed.                            *)
ContainsAny(c, t) == Wanted(c) \cap t.values[c.field] # {}
ContainsAll(c, t) == Wanted(c) # {} /\ Wanted(c) \subseteq t.values[c.field]

LanguageKnown(t) == t.values["language"] # {}

(* A number that is not known is in no range and over no threshold.        *)
InRange(c, t) ==
  /\ t.number[c.field] # Unknown
  /\ c.min # Unknown => t.number[c.field] >= c.min
  /\ c.max # Unknown => t.number[c.field] <= c.max
Over(c, t) == t.number[c.field] # Unknown /\ t.number[c.field] > c.threshold

(* A score in its range, with the votes asked for.                         *)
Scored(c, t) ==
  /\ InRange(c, t)
  /\ c.votes # Unknown => t.votes[c.field] # Unknown /\ t.votes[c.field] >= c.votes

(* paths::within, of two folders named plainly.                            *)
Within(path, folder) ==
  Len(folder) <= Len(path) /\ \A i \in 1..Len(folder) : path[i] = folder[i]

(* evaluate_single_condition. A negative condition holds for a title       *)
(* nothing is known of.                                                    *)
Holds(c, t) ==
  \/ c.kind = "any" /\ ContainsAny(c, t)
  \/ c.kind = "all" /\ ContainsAll(c, t)
  \/ c.kind = "none" /\ ~ ContainsAny(c, t)
  \/ c.kind = "languageKnown" /\ LanguageKnown(t) = c.expected
  \/ c.kind = "range" /\ InRange(c, t)
  \/ c.kind = "score" /\ Scored(c, t)
  \/ c.kind = "over" /\ Over(c, t)
  \/ c.kind = "flag" /\ t.flag[c.field] = c.expected
  \/ c.kind = "metadata" /\ t.known = c.expected
  \/ c.kind = "folder" /\ t.folder = c.folder
  \/ c.kind = "inside" /\ Within(t.folder, c.folder)

(* hold, and first_veto.                                                   *)
RuleHolds(r, t) ==
  /\ r.conditions # <<>>
  /\ \/ r.mode = "all" /\ \A i \in DOMAIN r.conditions : Holds(r.conditions[i], t)
     \/ r.mode = "any" /\ \E i \in DOMAIN r.conditions : Holds(r.conditions[i], t)
Vetoed(r, t) == \E i \in DOMAIN r.exclusions : Holds(r.exclusions[i], t)
Fires(r, t) == RuleHolds(r, t) /\ ~ Vetoed(r, t)
=============================================================================
