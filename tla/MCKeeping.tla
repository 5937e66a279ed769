------------------------------ MODULE MCKeeping ------------------------------
(***************************************************************************)
(* Instances for TLC of what an installation keeps: the References of its  *)
(* services, the Validation of its rules and their RuleOrder, the throttle *)
(* of its sign-ins (twice: its places, its waits), their Sessions (by mode *)
(* and by what ends them) and the Copies of its archives. Each is checked  *)
(* alone: `part` says which, from the first state on, and the others stay  *)
(* as they begin.                                                          *)
(***************************************************************************)
EXTENDS MCReferences, TLC

CONSTANTS ip1, ip2, v, w, b1, q1, q2

VARIABLES
  part,
  \* SignIn
  time, signing, inFlight, shares, permits, wrong, lastWait,
  \* Copies
  archives, taken, place, files, marker, adopted, ours, run, thread, adopting, forgets, restarts,
  others, unwritten, theirs,
  \* Validation
  draft,
  \* RuleOrder
  book, lastRequest, arranged,
  \* Sessions
  now, mode, lists, password, key, keys, sessions, opened, cookie, attempts, spent, req, ended,
  given, back, asks, turned

Slots == INSTANCE SignIn WITH
  Requests <- 1..3, Clients <- {ip1, ip2}, PerClient <- 2, MaxInFlight <- 2, Checks <- 1, Allowed <- 2,
  Window <- 1, FirstWait <- 1, LongestWait <- 1, Remembered <- 2, MaxTime <- 0,
  request <- signing, failures <- wrong
Waits == INSTANCE SignIn WITH
  Requests <- 1..2, Clients <- {ip1, ip2}, PerClient <- 2, MaxInFlight <- 2, Checks <- 1, Allowed <- 2,
  Window <- 2, FirstWait <- 1, LongestWait <- 2, Remembered <- 2, MaxTime <- 4,
  request <- signing, failures <- wrong

\* Days of use, of a lifetime and of the slack of a renewal; what ends one.
Lasting == INSTANCE Sessions WITH
  Browsers <- {b1}, Requests <- {q1, q2}, Modes <- {"forms"}, Lists <- {1},
  Asked <- {"login", "use"}, Lifetime <- [forms |-> 5], Idle <- 4, Slack <- 1, LastHour <- 0,
  Recent <- 1, Flow <- 1, Kept <- 1,
  MaxTime <- 4, MaxSessions <- 2, MaxAsks <- 3, MaxChanges <- 0, changes <- turned
Ending == INSTANCE Sessions WITH
  Browsers <- {b1}, Requests <- {q1, q2}, Modes <- {"forms"}, Lists <- {1},
  Asked <- {"login", "use", "password", "end", "logout", "withdraw"},
  Lifetime <- [forms |-> 3], Idle <- 2, Slack <- 0, LastHour <- 0,
  Recent <- 1, Flow <- 1, Kept <- 1,
  MaxTime <- 1, MaxSessions <- 2, MaxAsks <- 3, MaxChanges <- 1, changes <- turned
ByKey == INSTANCE Sessions WITH
  Browsers <- {b1}, Requests <- {q1, q2}, Modes <- {"apikey"}, Lists <- {1},
  Asked <- {"key", "use", "rotate", "everywhere", "withdraw"},
  Lifetime <- [apikey |-> 3], Idle <- 2, Slack <- 0, LastHour <- 0,
  Recent <- 1, Flow <- 1, Kept <- 1,
  MaxTime <- 0, MaxSessions <- 2, MaxAsks <- 3, MaxChanges <- 2, changes <- turned
ByProvider == INSTANCE Sessions WITH
  Browsers <- {b1}, Requests <- {q1, q2}, Modes <- {"oidc"}, Lists <- {1, 2},
  Asked <- {"start", "callback", "use", "withdraw", "password"},
  Lifetime <- [oidc |-> 3], Idle <- 2, Slack <- 0, LastHour <- 0,
  Recent <- 1, Flow <- 1, Kept <- 1,
  MaxTime <- 1, MaxSessions <- 2, MaxAsks <- 3, MaxChanges <- 1, changes <- turned

\* A folder changed twice; a restart.
C == INSTANCE Copies WITH
  MaxTaken <- 2, Forms <- {"plain"}, Retention <- 1, Places <- {v, w}, Theirs <- {<<0, "plain">>, <<1, "plain">>},
  MaxRestarts <- 0, MaxChanges <- 2, changes <- others
Restarted == INSTANCE Copies WITH
  MaxTaken <- 2, Forms <- {"plain"}, Retention <- 1, Places <- {v, w}, Theirs <- {<<0, "plain">>, <<1, "plain">>},
  MaxRestarts <- 1, MaxChanges <- 1, changes <- others

-----------------------------------------------------------------------------
(* What may be asked of a title, of each family of conditions, and the     *)
(* titles it may be asked of.                                              *)
Of(family, field, values) == [kind |-> family, field |-> field, values |-> values]
Is(family, e) == [kind |-> family, field |-> "monitored", expected |-> e]
Years(min, max) == [kind |-> "range", field |-> "year", min |-> min, max |-> max]
Score(min, votes) == [kind |-> "score", field |-> "imdb", min |-> min, max |-> None, votes |-> votes]
In(family, folder) == [kind |-> family, folder |-> folder]
ConditionsAsked ==
  {Of(family, "genre", values) : family \in {"any", "all", "none"}, values \in {{"g"}, {"g", "h"}}}
  \cup {Of("none", "genre", {"h", None}), Of("all", "genre", {"g", None})}
  \cup {Of(family, "language", values) : family \in {"any", "none"}, values \in {{"en"}, {"en", "fr"}}}
  \cup {Is(family, yes) : family \in {"languageKnown", "metadata", "flag"}, yes \in BOOLEAN}
  \cup {Years(2, None), Years(None, 1), Years(2, 1), Score(1, None), Score(None, 1)}
  \cup {In("folder", <<"x">>), In("folder", <<"x", "y">>), In("inside", <<"x">>)}

Title(genres, language, year, score, votes, monitored, folder) ==
  [known |-> genres # {} \/ language # {} \/ score # None,
   values |-> [genre |-> genres, language |-> language],
   number |-> [year |-> year, imdb |-> score], votes |-> [imdb |-> votes],
   flag |-> [monitored |-> monitored], folder |-> folder]
TitlesJudged ==
  {Title(genres, language, 1, scored[1], scored[2], TRUE, <<"x">>) :
     genres \in SUBSET {"g", "h"}, language \in {{}, {"en"}, {"fr"}, {"de"}},
     scored \in {<<None, None>>, <<1, None>>, <<1, 1>>}}
  \cup {Title(genres, {}, year, None, None, monitored, folder) :
     genres \in {{}, {"g"}}, year \in {None, 1, 2}, monitored \in BOOLEAN,
     folder \in {<<"x">>, <<"x", "y">>, <<"z">>}}

E == INSTANCE Validation WITH
  Unknown <- None, Blank <- None, Asked <- ConditionsAsked, Titles <- TitlesJudged,
  MetadataFields <- {"genre", "language", "imdb"}, MaxConditions <- 2, MaxExclusions <- 1

Ruled(name, kind, what, priority) ==
  [name |-> name, kind |-> kind, what |-> what, priority |-> priority]
Bundled(name, kind, what, priority, template) ==
  [name |-> name, kind |-> kind, what |-> what, priority |-> priority, template |-> template]
O == INSTANCE RuleOrder WITH
  Catalogue <- <<"t", "requesters", "u">>, Requesters <- "requesters",
  Shapes <- [t |-> <<Ruled(1, "movie", "t1", None), Ruled(1, "movie", "t2", None)>>,
             requesters |-> <<>>, u |-> <<Ruled(2, "movie", "u1", None)>>],
  Askers <- {"p", "q"}, Ids <- 1..8,
  Drafts <- {Ruled(2, "both", "x", None), Ruled(2, "both", "x", 3)},
  Edits <- {Ruled(2, "movie", "x", 1)},
  Bundles <- {<<Bundled(2, "both", "x", 4, None), Bundled(1, "movie", "y", None, "u")>>},
  Chosen <- {<<"p">>, <<"q", "p">>},
  Step <- 2, MaxPriority <- 11, MaxRules <- 4, MaxChanges <- 4,
  rules <- book, did <- lastRequest, changes <- arranged

ASSUME
  /\ Slots!SomeOfEach /\ Waits!SomeOfEach /\ Slots!NoneIsNothing /\ Waits!NoneIsNothing
  /\ C!SomeOfEach /\ Restarted!SomeOfEach /\ C!NoneIsNothing
  /\ Lasting!Delays /\ Ending!Delays /\ ByKey!Delays /\ ByProvider!Delays
  /\ E!AnsweredIsKnown /\ E!OperandsOfKind /\ E!AnswersOfKind /\ E!LanguageIsAnswered
  /\ O!PrioritiesAreOrdered /\ O!RequestersComeFromTheirs /\ O!EnoughIds

-----------------------------------------------------------------------------

ofSignIn == <<time, signing, inFlight, shares, permits, wrong, lastWait>>
ofCopies ==
  <<archives, taken, place, files, marker, adopted, ours, run, thread, adopting, forgets, restarts,
    others, unwritten, theirs>>
ofRules == <<draft, book, lastRequest, arranged>>
ofSessions ==
  <<now, mode, lists, password, key, keys, sessions, opened, cookie, attempts, spent, req, ended,
    given, back, asks, turned>>

\* Where the others begin: any of their first states stands for all.
Asleep ==
  part \notin {"copies", "restarted"} => place = v

InitKeeping ==
  /\ part \in {"references", "places", "waits", "copies", "restarted",
              "editor", "order", "lasting", "ending", "by key", "by provider"}
  /\ Init /\ C!Init /\ E!Init /\ O!Init
  /\ IF part = "places" THEN Slots!Init ELSE Waits!Init
  /\ CASE part = "by key" -> ByKey!Init [] part = "by provider" -> ByProvider!Init
       [] OTHER -> Lasting!Init
  /\ Asleep

InSessions ==
  \/ part = "lasting" /\ Lasting!Next
  \/ part = "ending" /\ Ending!Next
  \/ part = "by key" /\ ByKey!Next
  \/ part = "by provider" /\ ByProvider!Next

NextKeeping ==
  \/ /\ part = "references" /\ Next
     /\ UNCHANGED <<part, ofSignIn, ofCopies, ofRules, ofSessions>>
  \/ /\ \/ part = "places" /\ Slots!Next
        \/ part = "waits" /\ Waits!Next
     /\ UNCHANGED <<part, vars, ofCopies, ofRules, ofSessions>>
  \/ /\ \/ part = "copies" /\ C!Next
        \/ part = "restarted" /\ Restarted!Next
     /\ UNCHANGED <<part, vars, ofSignIn, ofRules, ofSessions>>
  \/ /\ \/ part = "editor" /\ E!Next /\ UNCHANGED <<book, lastRequest, arranged>>
        \/ part = "order" /\ O!Next /\ UNCHANGED draft
     /\ UNCHANGED <<part, vars, ofSignIn, ofCopies, ofSessions>>
  \/ InSessions /\ UNCHANGED <<part, vars, ofSignIn, ofCopies, ofRules>>

SpecKeeping ==
  InitKeeping
  /\ [][NextKeeping]_<<part, vars, ofSignIn, ofCopies, ofRules, ofSessions>>

Alike == Permutations({ip1, ip2}) \cup Permutations({v, w}) \cup Permutations({q1, q2})

-----------------------------------------------------------------------------
(* The state of each part is what its code can hold.                       *)
TypesOK ==
  /\ TypeOK
  /\ part = "places" => Slots!TypeOK
  /\ part = "waits" => Waits!TypeOK
  /\ C!TypeOK /\ O!TypeOK

(* What is counted is who is inside, whoever hung up: no more passwords    *)
(* are hashed at once than permits, and every place comes back             *)
(* (accounts.rs verify).                                                   *)
PlacesAreHeld ==
  /\ part = "places" => Slots!PlacesAreHeld
  /\ part = "waits" => Waits!PlacesAreHeld

(* A wait set is no shorter than the last one of the address, until it has *)
(* been quiet for the window after it (accounts.rs failed).                *)
WaitsGrow == [][part = "waits" => Waits!NoWaitShrinks]_<<part, ofSignIn>>

(* What a copy left in the folder is on record when its lock goes back, a  *)
(* copy given up on included, unless the database refused it; of another   *)
(* database nothing is removed but by a name of this one's archives, and a *)
(* folder left unmounted stays as it is (copy.rs Left, record_once_ended,  *)
(* bring_level).                                                           *)
CopiesAreAnsweredFor ==
  [][(part \in {"copies", "restarted"}) => (C!GivenBackRecorded /\ C!LeavesTheOthers)]_<<part, ofCopies>>

(* Only a rule that fires for no title is refused as contradicting itself  *)
(* or as vetoed by its own exclusion, and a condition beside its negation  *)
(* is refused (validation.rs contradicts, vetoes_all).                     *)
JudgedRight == part = "editor" => E!JudgedRight

(* Nothing added changes which of two rules in place is tried first: a     *)
(* template's rules go behind those written by hand and among the others   *)
(* in the catalogue's order, a replacement where what it replaces was, and *)
(* a bundle last, once (templates.rs place, arrange, rules.rs appended).   *)
OrderKept ==
  [][part = "order" => O!KeepsOrder /\ O!PlacedAsSaid /\ O!AppendedOnce]_<<part, book, lastRequest, arranged>>

(* No request is let through by a session something ended, whatever        *)
(* renewed it meanwhile, by one its holder opened with a key since         *)
(* replaced, nor by one past its time (accounts.rs live_session).          *)
EndedStaysEnded ==
  [][/\ part = "lasting" => Lasting!EndedStaysEnded /\ Lasting!EndsInTime
     /\ part = "ending" => Ending!EndedStaysEnded /\ Ending!EndsInTime
     /\ part = "by key" => ByKey!EndedStaysEnded /\ ByKey!EndsInTime
     /\ part = "by provider" => ByProvider!EndedStaysEnded /\ ByProvider!EndsInTime]_<<part, ofSessions>>

(* A session used lasts as long as it says, whoever renewed it, and a      *)
(* sign-in begun beside another at the provider stays open (accounts.rs    *)
(* live_session, oidc.rs attempts_to_clear).                               *)
LastsAsSaid ==
  /\ part = "lasting" => Lasting!LastsAsSaid
  /\ part = "ending" => Ending!LastsAsSaid
  /\ part = "by key" => ByKey!LastsAsSaid
  /\ part = "by provider" => ByProvider!LastsAsSaid
=============================================================================
