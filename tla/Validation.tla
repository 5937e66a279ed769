----------------------------- MODULE Validation -----------------------------
(***************************************************************************)
(* What a rule is refused for (services/rule_engine/validation.rs), and    *)
(* what the engine makes of the same rule (Conditions): a draft written    *)
(* one condition at a time, judged at every step, stored when no error is  *)
(* found (api/rules.rs: check, reject_on_error).                           *)
(*                                                                         *)
(* A list holds each value once, as the validator wants it. Left out: the  *)
(* bounds on names, lengths, numbers and votes, and the warnings, which    *)
(* keep no rule from being stored.                                         *)
(***************************************************************************)
EXTENDS Conditions, FiniteSets, SequencesExt

CONSTANTS
  Asked,           \* the conditions that may be written
  Titles,          \* the titles there may be
  MetadataFields,  \* the fields a source answers
  MaxConditions, MaxExclusions  \* MAX_CONDITIONS, of each list

AnsweredIsKnown ==
  \A t \in Titles : ~ t.known =>
    /\ \A f \in MetadataFields \cap DOMAIN t.values : t.values[f] = {}
    /\ \A f \in MetadataFields \cap DOMAIN t.number : t.number[f] = Unknown

VARIABLE draft  \* the rule as the editor has it

NewDraft == [mode |-> "all", conditions |-> <<>>, exclusions |-> <<>>]

-----------------------------------------------------------------------------
(* A condition that carries no operand, or a range nothing is in.          *)
Listed(c) == c.kind \in {"any", "all", "none"}
Ranged(c) == c.kind \in {"range", "score"}
Empty(c) ==
  \/ Listed(c) /\ Wanted(c) = {}
  \/ c.kind = "range" /\ c.min = Unknown /\ c.max = Unknown
  \/ c.kind = "score" /\ c.min = Unknown /\ c.max = Unknown /\ c.votes = Unknown
Inverted(c) == Ranged(c) /\ c.min # Unknown /\ c.max # Unknown /\ c.min > c.max

(* What a condition holds and a title answers, by the condition's kind.    *)
OperandsOfKind ==
  \A c \in Asked :
    /\ c.kind \in {"metadata", "languageKnown", "flag"} => c.expected \in BOOLEAN
    /\ Ranged(c) => c.min \in Int \cup {Unknown} /\ c.max \in Int \cup {Unknown}
    /\ c.kind \in {"folder", "inside"} => c.folder \in Seq(STRING)
AnswersOfKind ==
  \A t \in Titles :
    /\ t.known \in BOOLEAN /\ t.folder \in Seq(STRING) /\ "language" \in DOMAIN t.values
    /\ \A c \in Asked : Listed(c) => c.field \in DOMAIN t.values
    /\ \A c \in Asked : Ranged(c) =>
         c.field \in DOMAIN t.number /\ t.number[c.field] \in Int \cup {Unknown}
LanguageIsAnswered == "language" \in MetadataFields

(* overlaps compares the values as they stand, blanks included.            *)
Overlaps(a, b) == a.values \cap b.values # {}

(* Mutant: any value forbidden is enough.                                  *)
ForbidsSome(b, a) == Overlaps(a, b)

ForbidsAll(b, a) == Wanted(a) # {} /\ Wanted(a) \subseteq b.values

(* tightest: the highest lower bound above the lowest upper one.           *)
Apart(a, b) ==
  \E l \in {a.min, b.min} \ {Unknown}, h \in {a.max, b.max} \ {Unknown} : l > h

(* needs_metadata                                                          *)
NeedsMetadata(c) ==
  \/ c.kind \in {"any", "all", "score"} /\ c.field \in MetadataFields
  \/ c.kind = "languageKnown" /\ c.expected

(* contradicts, in the one order of each pair of kinds.                    *)
OneWay(a, b) ==
  \/ a.kind = "flag" /\ b.kind = "flag" /\ a.field = b.field /\ a.expected # b.expected
  \/ a.kind \in {"metadata", "languageKnown"} /\ b.kind = a.kind /\ a.expected # b.expected
  \/ /\ a.kind = "any" /\ a.field = "language"
     /\ b.kind = "languageKnown" /\ ~ b.expected
  \/ a.kind = "metadata" /\ ~ a.expected /\ NeedsMetadata(b)
  \/ /\ a.kind = "any" /\ b.kind = "none" /\ a.field = b.field
     /\ IF a.field = "language" THEN a.values # {} /\ a.values \subseteq b.values
        ELSE ForbidsAll(b, a)
  \/ a.kind = "all" /\ b.kind = "none" /\ a.field = b.field /\ Overlaps(a, b)
  \/ Ranged(a) /\ b.kind = a.kind /\ a.field = b.field /\ Apart(a, b)
  \/ a.kind = "folder" /\ b.kind = "folder" /\ a.folder # b.folder
Contradicts(a, b) == OneWay(a, b) \/ OneWay(b, a)

(* vetoes_all: any of its values, or every one, against any or every one   *)
(* of the exclusion's.                                                     *)
Quantified(c) == c.kind \in {"any", "all"}
OneField(e, c) == Quantified(c) /\ Quantified(e) /\ c.field = e.field
VetoesValues(e, c) ==
  \/ c.kind = "any" /\ e.kind = "any" /\ Wanted(c) # {} /\ Wanted(c) \subseteq Wanted(e)
  \/ c.kind = "all" /\ e.kind = "any" /\ Wanted(c) \cap Wanted(e) # {}
  \/ c.kind = "all" /\ e.kind = "all" /\ Wanted(e) # {} /\ Wanted(e) \subseteq Wanted(c)
  \/ c.kind = "any" /\ e.kind = "all" /\ Wanted(c) = Wanted(e) /\ \E v \in Wanted(c) : Wanted(c) = {v}
VetoesAll(e, c) ==
  \/ c.kind \in {"folder", "inside"} /\ e.kind = "inside" /\ Within(c.folder, e.folder)
  \/ OneField(e, c) /\ VetoesValues(e, c)
  \/ ~ OneField(e, c) /\ e = c

(* validate_rule. In `any` mode another condition may admit what one       *)
(* exclusion leaves alone.                                                 *)
Contradiction(d) ==
  /\ d.mode = "all"
  /\ \E i, j \in DOMAIN d.conditions : i < j /\ Contradicts(d.conditions[i], d.conditions[j])
ExclusionConflict(d) ==
  /\ d.mode = "all" \/ Len(d.conditions) = 1
  /\ \E e \in DOMAIN d.exclusions, i \in DOMAIN d.conditions :
       VetoesAll(d.exclusions[e], d.conditions[i])
Faulty(c) == Empty(c) \/ Inverted(c)
Refused(d) ==
  \/ d.conditions = <<>>
  \/ \E i \in DOMAIN d.conditions : Faulty(d.conditions[i])
  \/ \E i \in DOMAIN d.exclusions : Faulty(d.exclusions[i])
  \/ Contradiction(d)
  \/ ExclusionConflict(d)

-----------------------------------------------------------------------------
AddsCondition(c) ==
  /\ Len(draft.conditions) < MaxConditions
  /\ draft' = [draft EXCEPT !.conditions = Append(@, c)]
AddsExclusion(c) ==
  /\ Len(draft.exclusions) < MaxExclusions
  /\ draft' = [draft EXCEPT !.exclusions = Append(@, c)]
SwitchesMode == draft' = [draft EXCEPT !.mode = IF @ = "all" THEN "any" ELSE "all"]

(* Stored, and the editor is closed.                                       *)
Saves == ~ Refused(draft) /\ draft' = NewDraft

Init == draft = NewDraft

Next ==
  \/ \E c \in Asked : AddsCondition(c) \/ AddsExclusion(c)
  \/ SwitchesMode \/ Saves

Spec == Init /\ [][Next]_draft

-----------------------------------------------------------------------------
(* Only a rule that fires for no title is refused as contradicting itself  *)
(* or as vetoed by its own exclusion, no list holding a blank              *)
(* (contradicts, vetoes_all).                                              *)
NoBlank(d) ==
  /\ \A i \in DOMAIN d.conditions : Listed(d.conditions[i]) => Blank \notin d.conditions[i].values
  /\ \A i \in DOMAIN d.exclusions : Listed(d.exclusions[i]) => Blank \notin d.exclusions[i].values
RefusedNeverFires(d) ==
  NoBlank(d) /\ (Contradiction(d) \/ ExclusionConflict(d)) => \A t \in Titles : ~ Fires(d, t)

(* A condition beside its own negation is refused, as is one that is an    *)
(* exclusion too (validate_rule).                                          *)
Opposed == {p \in Asked \X Asked : \A t \in Titles : Holds(p[1], t) # Holds(p[2], t)}
NegationRefused(d) ==
  NoBlank(d) /\ d.mode = "all" =>
    /\ \A i, j \in DOMAIN d.conditions : <<d.conditions[i], d.conditions[j]>> \in Opposed => Refused(d)
    /\ ToSet(d.conditions) \cap ToSet(d.exclusions) # {} => Refused(d)

JudgedRight == RefusedNeverFires(draft) /\ NegationRefused(draft)
=============================================================================
