------------------------------ MODULE RuleOrder ------------------------------
(***************************************************************************)
(* The order in which rules are tried, and what writes it: rules created,  *)
(* edited and removed by hand, put in another order, imported from a       *)
(* bundle (api/rules.rs), and added from a template, which finds its place *)
(* among the rules there and moves those it would overtake                 *)
(* (services/templates.rs: place, arrange; api/templates.rs: import).      *)
(* Each write is one transaction that reads the rules it arranges.         *)
(*                                                                         *)
(* Of a rule: its name (a number, in the order of names), the titles it is *)
(* for (kind), what its conditions ask (the requester they route, or       *)
(* anything else), its priority, and the template it came from. A template *)
(* has a rule for each of its Shapes, that of requesters one for each      *)
(* requester chosen.                                                       *)
(***************************************************************************)
EXTENDS Integers, Sequences, FiniteSets, SequencesExt, FiniteSetsExt

CONSTANTS
  Catalogue, Requesters, Shapes, Askers,
  Ids, Drafts, Edits, Bundles, Chosen,
  Step, MaxPriority, MaxRules, MaxChanges, None

PrioritiesAreOrdered == Step \in Nat \ {0} /\ MaxPriority \in Nat
RequestersComeFromTheirs == Shapes[Requesters] = <<>>
EnoughIds == Ids \subseteq Nat \ {0} /\ Cardinality(Ids) >= 2 * MaxRules

VARIABLES
  rules,
  did,      \* ghost: the last request
  changes

vars == <<rules, did, changes>>

-----------------------------------------------------------------------------
(* A set as a sequence, in a strict total order of its elements.           *)
InOrder(S, Before(_, _)) ==
  [k \in 1..Cardinality(S) |-> CHOOSE x \in S : Cardinality({y \in S : Before(y, x)}) = k - 1]

(* tried_before, which is the order load_rules reads them in.              *)
TriedBefore(r, s) ==
  \/ r.priority < s.priority
  \/ r.priority = s.priority /\ r.name < s.name
  \/ r.priority = s.priority /\ r.name = s.name /\ r.id < s.id
Loaded == InOrder(rules, TriedBefore)

(* priority_after                                                          *)
After(p, steps) == Min({p + steps * Step, MaxPriority})

(* rank: a template the catalogue lacks goes last.                         *)
Rank(t) ==
  IF t \in ToSet(Catalogue) THEN CHOOSE i \in DOMAIN Catalogue : Catalogue[i] = t
  ELSE Len(Catalogue) + 1

(* Mutant: the template rules that stand before one written by hand count.  *)
BehindNothing(held) ==
  LET past == {i \in DOMAIN held : held[i].template # None}
      sorted == InOrder(past, LAMBDA i, j :
        held[i].priority < held[j].priority \/ (held[i].priority = held[j].priority /\ i < j))
  IN [k \in DOMAIN sorted |-> held[sorted[k]]]

(* place, of rules [id, priority, template]: where the rules written by    *)
(* hand end, the template rules after them, and the first that ranks after *)
(* the template.                                                           *)
Base(held) ==
  LET byHand == SelectSeq(held, LAMBDA h : h.template = None)
  IN IF byHand = <<>> THEN 0 ELSE Max({byHand[i].priority : i \in DOMAIN byHand})
Behind(held) ==
  LET past == {i \in DOMAIN held : held[i].template # None /\ held[i].priority > Base(held)}
      sorted == InOrder(past, LAMBDA i, j :
        held[i].priority < held[j].priority \/ (held[i].priority = held[j].priority /\ i < j))
  IN [k \in DOMAIN sorted |-> held[sorted[k]]]
Place(tail, rank) ==
  Min({i \in DOMAIN tail : Rank(tail[i].template) > rank} \cup {Len(tail) + 1})

(* Mutant: only the first rule overtaken moves.                            *)
OvertakenOnce(rest, last) ==
  IF rest # <<>> /\ rest[1].priority <= last THEN {<<rest[1].id, After(last, 1)>>} ELSE {}

(* The rules of `rest` the new ones overtake, each with its new priority.  *)
Overtaken(rest, last) ==
  FoldLeft(LAMBDA acc, r :
             IF acc.past \/ r.priority > acc.last THEN [acc EXCEPT !.past = TRUE]
             ELSE [acc EXCEPT !.last = After(@, 1), !.moved = @ \cup {<<r.id, After(acc.last, 1)>>}],
           [last |-> last, moved |-> {}, past |-> FALSE], rest).moved

Placed(held, rank, adding) ==
  LET tail == Behind(held)
      at == Place(tail, rank)
      last == IF at = 1 THEN Base(held) ELSE tail[at - 1].priority
  IN [new |-> [k \in 1..adding |-> After(last, k)],
      moved |-> Overtaken(SubSeq(tail, at, Len(tail)), After(last, adding))]

-----------------------------------------------------------------------------
(* slot_keys: a template's rules told apart by their kind, and their rank  *)
(* among those of that kind.                                               *)
Slot(seq, i) == <<seq[i].kind, Cardinality({j \in 1..i : seq[j].kind = seq[i].kind})>>

(* render                                                                  *)
Rendered(t, chosen) ==
  IF t = Requesters
  THEN [i \in DOMAIN chosen |-> [name |-> 1, kind |-> "both", what |-> chosen[i], priority |-> None]]
  ELSE Shapes[t]

(* arrange_replacing: a rule that replaces another takes its place, which  *)
(* a rule placed may move. Its id until it is stored is minus its index.   *)
ArrangeReplacing(t, adding) ==
  LET earlier == SelectSeq(Loaded, LAMBDA r : r.template = t)
      places(i) == {j \in DOMAIN earlier : Slot(earlier, j) = Slot(adding, i)}
      kept == {i \in DOMAIN adding : places(i) # {}}
      before(i) == earlier[CHOOSE j \in places(i) : TRUE].priority
      standing == InOrder(kept, LAMBDA i, j : i < j)
      held == SelectSeq(Loaded, LAMBDA r : r.template # t)
                \o [k \in DOMAIN standing |->
                      [id |-> - standing[k], priority |-> before(standing[k]), template |-> t]]
      p == Placed(held, Rank(t), Len(adding) - Cardinality(kept))
      pushed(i) == {m \in p.moved : m[1] = -i}
      priority(i) ==
        IF i \notin kept THEN p.new[Cardinality((1..i) \ kept)]
        ELSE Max({before(i)} \cup {m[2] : m \in pushed(i)})
  IN [removed |-> ToSet(earlier),
      moved |-> {m \in p.moved : m[1] > 0},
      added |-> [i \in DOMAIN adding |-> [adding[i] EXCEPT !.priority = priority(i)]]]

(* arrange_requesters: a requester still chosen keeps the rule that routes *)
(* them, one left out loses it, the others get one.                        *)
ArrangeRequesters(adding) ==
  LET theirs == {r \in rules : r.template = Requesters /\ r.what \in Askers}
      chosen == {adding[i].what : i \in DOMAIN adding}
      left == {r \in theirs : r.what \notin chosen}
      new == SelectSeq(adding, LAMBDA d : \A r \in theirs : r.what # d.what)
      p == Placed(SelectSeq(Loaded, LAMBDA r : r \notin left), Rank(Requesters), Len(new))
  IN [removed |-> left, moved |-> p.moved,
      added |-> [i \in DOMAIN new |-> [new[i] EXCEPT !.priority = p.new[i]]]]

-----------------------------------------------------------------------------
(* insert_rule: last, unless the request says where.                       *)
Insert(book, draft, id, t) ==
  LET last == Max({r.priority : r \in book} \cup (IF book = {} THEN {0} ELSE {}))
  IN book \cup {[id |-> id, name |-> draft.name, kind |-> draft.kind, what |-> draft.what,
                 template |-> t,
                 priority |-> IF draft.priority = None THEN After(last, 1) ELSE draft.priority]}

(* The drafts one after the other, under ids nobody chooses: here the      *)
(* lowest free, or the highest. Past the most rules there may be, the      *)
(* whole transaction is refused.                                           *)
Fresh(n) ==
  LET free == InOrder(Ids \ {r.id : r \in rules}, LAMBDA i, j : i < j)
  IN {SubSeq(free, 1, n), SubSeq(free, Len(free) - n + 1, Len(free))}
Writes(book, drafts, templates) ==
  /\ Cardinality(book) + Len(drafts) <= MaxRules
  /\ \E ids \in Fresh(Len(drafts)) :
       rules' = FoldLeftDomain(LAMBDA acc, i : Insert(acc, drafts[i], ids[i], templates[i]), book, drafts)

Request(what) == changes < MaxChanges /\ changes' = changes + 1 /\ did' = what

Create(draft) ==
  /\ Request([by |-> "hand"])
  /\ Writes(rules, <<draft>>, <<None>>)

(* An edited rule stays of its template, and where it was unless the       *)
(* request says where.                                                     *)
Update(r, draft) ==
  /\ Request([by |-> "edit", id |-> r.id])
  /\ rules' = (rules \ {r}) \cup
       {[r EXCEPT !.name = draft.name, !.kind = draft.kind, !.what = draft.what,
                  !.priority = IF draft.priority = None THEN @ ELSE draft.priority]}

Delete(r) == Request([by |-> "delete"]) /\ rules' = rules \ {r}

Reorder ==
  /\ Request([by |-> "order"])
  /\ \E order \in [1..Cardinality(rules) -> rules] :
       /\ ToSet(order) = rules
       /\ rules' = {[order[i] EXCEPT !.priority = i * Step] : i \in DOMAIN order}

(* import of a template: once, unless it replaces the first addition.      *)
AddTemplate(t, chosen, replace) ==
  /\ replace \/ \A r \in rules : r.template # t
  /\ Request([by |-> "template", template |-> t, chosen |-> chosen])
  /\ LET adding == Rendered(t, chosen)
         a == IF t = Requesters THEN ArrangeRequesters(adding) ELSE ArrangeReplacing(t, adding)
         moved(r) == {m \in a.moved : m[1] = r.id}
         book == {IF moved(r) = {} THEN r ELSE [r EXCEPT !.priority = (CHOOSE m \in moved(r) : TRUE)[2]]
                  : r \in rules \ a.removed}
     IN Writes(book, a.added, [i \in DOMAIN a.added |-> t])

(* routes_as, and appended: in the bundle's order, each after every rule   *)
(* in place, but for one a rule in place already routes as.                *)
RoutesAs(r, d) == r.name = d.name /\ r.kind = d.kind /\ r.what = d.what
Appended(book, bundle) ==
  LET before(i, j) ==
        LET p == bundle[i].priority
            q == bundle[j].priority
        IN \/ p # None /\ q = None
           \/ p # None /\ q # None /\ p < q
           \/ p = q /\ bundle[i].name < bundle[j].name
           \/ p = q /\ bundle[i].name = bundle[j].name /\ i < j
      order == InOrder(DOMAIN bundle, before)
  IN SelectSeq([k \in DOMAIN order |-> bundle[order[k]]],
               LAMBDA d : \A r \in book : ~ RoutesAs(r, d))

AppendBundle(bundle) ==
  /\ Request([by |-> "bundle", bundle |-> bundle])
  /\ LET kept == Appended(rules, bundle)
     IN Writes(rules, [i \in DOMAIN kept |-> [kept[i] EXCEPT !.priority = None]],
               [i \in DOMAIN kept |-> kept[i].template])

ReplaceBundle(bundle) ==
  /\ Request([by |-> "replace"])
  /\ Writes({}, bundle, [i \in DOMAIN bundle |-> bundle[i].template])

Init == rules = {} /\ did = None /\ changes = 0

Next ==
  \/ \E d \in Drafts : Create(d)
  \/ \E r \in rules : Delete(r) \/ \E d \in Edits : Update(r, d)
  \/ Reorder
  \/ \E t \in ToSet(Catalogue), replace \in BOOLEAN :
       \E chosen \in (IF t = Requesters THEN Chosen ELSE {<<>>}) : AddTemplate(t, chosen, replace)
  \/ \E b \in Bundles : AppendBundle(b) \/ ReplaceBundle(b)

Spec == Init /\ [][Next]_vars

-----------------------------------------------------------------------------
TypeOK ==
  /\ Cardinality(rules) <= MaxRules
  /\ \A r, s \in rules : r.id = s.id => r = s
  /\ \A r \in rules : r.priority <= MaxPriority

(* The rules a request leaves, as they were and as they are.               *)
Left == {p \in rules \X rules' : p[1].id = p[2].id}
New == {r \in rules' : \A s \in rules : s.id # r.id}
AtTheTop(r) == r.priority = MaxPriority

(* Nothing added, by hand, from a template or from a bundle, changes which *)
(* of two rules there is tried first, as long as no two meet at the        *)
(* highest priority (place: the rules overtaken move together).            *)
KeepsOrder ==
  did'.by \in {"hand", "template", "bundle", "delete"} =>
    \A p, q \in Left :
      TriedBefore(p[1], q[1]) /\ ~ (AtTheTop(p[2]) /\ AtTheTop(q[2])) => TriedBefore(p[2], q[2])

(* A template's rule goes after every rule written by hand, before the     *)
(* template rules past those that rank after its own and after the ones    *)
(* before these.                                                           *)
Between(n, t) ==
  LET byHand == {p \in Left : p[1].template = None}
      past == {p \in Left : p[1].template \notin {None, t} /\ \A q \in byHand : p[1].priority > q[1].priority}
      later == {p \in past : Rank(p[1].template) > Rank(t)}
  IN /\ \A p \in byHand : TriedBefore(p[2], n)
     /\ \A p \in later : TriedBefore(n, p[2])
     /\ \A p \in past : (\A q \in later : TriedBefore(p[1], q[1])) /\ p[1].priority > 0
                          => TriedBefore(p[2], n)

(* The rule it replaces: of its template and for the same titles, with as  *)
(* many of those tried before it as the template writes before this one.   *)
Replaced(n, t) ==
  LET i == CHOOSE k \in DOMAIN Shapes[t] : Shapes[t][k].what = n.what
      earlier == {r \in rules : r.template = t /\ r.kind = n.kind}
  IN {r \in earlier : Cardinality({s \in earlier : TriedBefore(s, r)})
                       = Cardinality({k \in 1..(i - 1) : Shapes[t][k].kind = n.kind})}
InPlaceOf(n, r) ==
  \A p \in Left : p[1].priority # r.priority => (TriedBefore(p[1], r) <=> TriedBefore(p[2], n))

PlacedAsSaid ==
  did'.by = "template" /\ (\A r \in rules' : ~ AtTheTop(r)) =>
    LET t == did'.template
        theirs == {r \in rules' : r.template = t}
    IN IF t = Requesters
       THEN /\ {r.what : r \in theirs} \cap Askers = ToSet(did'.chosen)
            /\ \A n \in New : Between(n, t)
       ELSE /\ theirs = New
            /\ \A n \in New :
                 IF Replaced(n, t) = {} THEN Between(n, t)
                 ELSE \A r \in Replaced(n, t) : InPlaceOf(n, r)

(* Rules appended come last, and the same bundle appended again adds none  *)
(* (appended).                                                             *)
AppendedOnce ==
  did'.by = "bundle" =>
    /\ Appended(rules', did'.bundle) = <<>>
    /\ \A n \in New, p \in Left : ~ AtTheTop(n) => TriedBefore(p[2], n)
=============================================================================
