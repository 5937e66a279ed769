----------------------------- MODULE MCServices -----------------------------
(***************************************************************************)
(* Instances for TLC of the services a run of moves stands on: Titles      *)
(* (with two Arrs, and instantiated besides with two folders and with two  *)
(* ids), Proposals, Unattended, Pacing, Enrichment and Routing. Each is    *)
(* checked alone: `service` says which, from the first state on, and the   *)
(* variables of the others stay asleep, those of Titles as they begin.     *)
(***************************************************************************)
EXTENDS Titles, Sequences, TLC

CONSTANTS Unknown, a, b, i, j, v, w, z

VARIABLES
  service,
  \* Proposals
  clock, lastOrder, said, routed, offered, born, run, edits, restarts,
  \* Unattended
  on, testsPass, filed, known, answering, decided, turn, unattended, heldBack, others, begun, moved,
  \* Pacing
  time, tokens, refilled, rate, backOff, caller, heldUntil, told, latest, crossed, quickened,
  \* Enrichment
  kind, day, requests, record, enriching, open, breaker, closed, refusals, report, alone, passes,
  askedOf, missed, reserved, sent,
  \* Routing
  rules, media, sets, free, override, proposed, pass, asProposed, news

Asleep == "asleep"

-----------------------------------------------------------------------------
TwoFolders == INSTANCE Titles WITH
  Arrs <- {"x"}, Ids <- {i}, Works <- {v, w}, Folders <- {a, b}, Tags <- {0}, HeldPast <- 10,
  MaxTime <- 2, MaxChanges <- 1, MaxAsked <- 1
TwoIds == INSTANCE Titles WITH
  Arrs <- {"x"}, Ids <- {i, j}, Works <- {v, w}, Folders <- {a}, Tags <- {0}, HeldPast <- 10,
  MaxTime <- 1, MaxChanges <- 1, MaxAsked <- 1
BothArrs == {"x", "y"}
OneId == {i}
BothWorks == {v, w}
OneFolder == {a}
OneTag == {0}

P == INSTANCE Proposals WITH
  Media <- {i, j}, Runs <- {v, w}, LibraryPasses <- 1,
  MaxClock <- 1, MaxOrder <- 2, MaxEdits <- 1, MaxRestarts <- 1

U == INSTANCE Unattended WITH
  Titles <- {1, 2, 3}, Instances <- {"i", "j"}, InstanceOf <- <<"i", "i", "j">>,
  Passes <- {v, w}, Cap <- 1, MaxChanges <- 1, MaxPasses <- 2,
  proposed <- decided, pass <- unattended, changes <- others

L == INSTANCE Pacing WITH
  Callers <- {v, w}, Capacity <- 1, Token <- 2, Rates <- {1, 2}, FirstRate <- 1, Fastest <- 2,
  FirstBackOff <- 1, MaxHold <- 2, Delays <- {1, 2}, Deadlines <- {0, 1}, MaxTime <- 3,
  MaxQueued <- 1

OneDay == INSTANCE Enrichment WITH
  Works <- {v, w, z}, Slice <- 2, Limit <- 2, BreakerLimit <- 2, Concurrency <- 2,
  MaxDay <- 0, MaxPasses <- 1, MaxAsked <- 1,
  row <- requests, pass <- enriching, held <- refusals, asked <- askedOf
TwoDays == INSTANCE Enrichment WITH
  Works <- {v, w}, Slice <- 2, Limit <- 2, BreakerLimit <- 1, Concurrency <- 2,
  MaxDay <- 1, MaxPasses <- 1, MaxAsked <- 1,
  row <- requests, pass <- enriching, held <- refusals, asked <- askedOf

-----------------------------------------------------------------------------
(* Rules of one priority and name, so that their ids tell them apart.      *)
Rule(id, conditions, exclusions, mode, category) ==
  [id |-> id, name |-> 1, priority |-> 1, enabled |-> TRUE, kinds |-> {"movie"},
   conditions |-> conditions, exclusions |-> exclusions, mode |-> mode, category |-> category]
English == [kind |-> "any", field |-> "language", values |-> {"en"}]
Drama == [kind |-> "any", field |-> "genre", values |-> {"drama"}]
Both == [kind |-> "all", field |-> "genre", values |-> {"drama", "crime"}]
NoDrama == [kind |-> "none", field |-> "genre", values |-> {"drama"}]
NotEnglish == [kind |-> "none", field |-> "language", values |-> {"en"}]

Dramas == Rule(1, <<Drama>>, <<English>>, "all", "c")
Crimes == Rule(2, <<Both, English>>, <<>>, "any", "d")
Others == Rule(3, <<NoDrama, NotEnglish>>, <<>>, "all", "c")

Answer(ofArr, genres, language) == [arr |-> ofArr, genres |-> genres, language |-> language]

R == INSTANCE Routing WITH
  Blank <- Unknown,
  Library <- <<"t", "u">>,
  RuleBooks <- {<<Crimes, Dramas>>, <<Others, Dramas>>},
  Answers <- {<<Answer(TRUE, {"drama"}, "en"), Answer(FALSE, {"crime"}, "fr")>>,
              <<Answer(TRUE, {}, "en"), Answer(FALSE, {"drama", "crime"}, None)>>},
  Folders <- {1, 2, 3}, Volumes <- {"v", "w"}, VolumeOf <- <<"v", "v", "w">>,
  Categories <- {"c", "d"}, DefaultCategory <- "d",
  Mappings <- {[c |-> {1, 2}, d |-> {3}]},
  Sizes <- {2}, FreeSpaces <- {1, 3}, MaxChanges <- 1, changes <- news

ASSUME
  /\ NoneIsNothing /\ BoundsAreNumbers
  /\ P!SomeLibraryPass /\ P!OrdersAreNumbers /\ P!NoneIsNoDecision
  /\ U!SomeMove /\ U!EachOfOneInstance /\ U!FiniteLibrary
  /\ L!SomeBurst /\ L!HoldsAreBounded /\ L!RatesAreNumbers /\ L!TimesAreNumbers
  /\ OneDay!SomeOfEach /\ TwoDays!SomeOfEach /\ OneDay!FiniteLibrary /\ TwoDays!FiniteLibrary
  /\ R!LibraryIsInOrder /\ R!FoldersAreNumbered /\ R!FinitelyManyFolders /\ R!EachOnAVolume
  /\ R!SizesAreNumbers /\ R!MapsToFolders /\ R!FoldersOfOneCategory /\ R!RulesNameCategories

-----------------------------------------------------------------------------
ofTitles ==
  <<now, arr, pointed, row, pending, history, pin, retired, reader, simulation, moving, changes,
    asked, changedAt, pinned>>
ofProposals == <<clock, lastOrder, said, routed, offered, born, run, edits, restarts>>
ofUnattended ==
  <<on, testsPass, filed, known, answering, decided, turn, unattended, heldBack, others, begun,
    moved>>
ofPacing ==
  <<time, tokens, refilled, rate, backOff, caller, heldUntil, told, latest, crossed, quickened>>
ofEnrichment ==
  <<kind, day, requests, record, enriching, open, breaker, closed, refusals, report, alone,
    passes, askedOf, missed, reserved, sent>>
ofRouting == <<rules, media, sets, free, override, proposed, pass, asProposed, news>>
ofAll == <<ofTitles, ofProposals, ofUnattended, ofPacing, ofEnrichment, ofRouting>>

InitTitles ==
  CASE service = "two folders" -> TwoFolders!Init
    [] service = "two ids" -> TwoIds!Init
    [] service = "two Arrs" -> Init
    [] OTHER -> Init /\ pointed = "x" /\ arr = [x \in Arrs |-> [k \in Ids |-> None]]

InitProposals ==
  IF service = "proposals" THEN P!Init
  ELSE /\ clock = Asleep /\ lastOrder = Asleep /\ said = Asleep /\ routed = Asleep
       /\ offered = Asleep /\ born = Asleep /\ run = Asleep /\ edits = Asleep /\ restarts = Asleep

InitUnattended ==
  IF service = "unattended" THEN U!Init
  ELSE /\ on = Asleep /\ testsPass = Asleep /\ filed = Asleep /\ known = Asleep
       /\ answering = Asleep /\ decided = Asleep /\ turn = Asleep /\ unattended = Asleep
       /\ heldBack = Asleep /\ others = Asleep /\ begun = Asleep /\ moved = Asleep

InitPacing ==
  IF service = "pacing" THEN L!Init
  ELSE /\ time = Asleep /\ tokens = Asleep /\ refilled = Asleep /\ rate = Asleep
       /\ backOff = Asleep /\ caller = Asleep /\ heldUntil = Asleep /\ told = Asleep
       /\ latest = Asleep /\ crossed = Asleep /\ quickened = Asleep

InitEnrichment ==
  CASE service = "one day" -> OneDay!Init
    [] service = "two days" -> TwoDays!Init
    [] OTHER ->
       /\ kind = Asleep /\ day = Asleep /\ requests = Asleep /\ record = Asleep
       /\ enriching = Asleep /\ open = Asleep /\ breaker = Asleep /\ closed = Asleep
       /\ refusals = Asleep /\ report = Asleep /\ alone = Asleep /\ passes = Asleep
       /\ askedOf = Asleep /\ missed = Asleep /\ reserved = Asleep /\ sent = Asleep

InitRouting ==
  IF service = "routing" THEN R!Init
  ELSE /\ rules = Asleep /\ media = Asleep /\ sets = Asleep /\ free = Asleep /\ override = Asleep
       /\ proposed = Asleep /\ pass = Asleep /\ asProposed = Asleep /\ news = Asleep

InitServices ==
  /\ service \in {"two folders", "two ids", "two Arrs", "proposals", "unattended", "pacing",
                  "one day", "two days", "routing"}
  /\ InitTitles /\ InitProposals /\ InitUnattended /\ InitPacing /\ InitEnrichment /\ InitRouting

NextTitles ==
  /\ \/ service = "two folders" /\ TwoFolders!Next
     \/ service = "two ids" /\ TwoIds!Next
     \/ service = "two Arrs" /\ Next
  /\ UNCHANGED <<service, ofProposals, ofUnattended, ofPacing, ofEnrichment, ofRouting>>
NextProposals ==
  /\ service = "proposals" /\ P!Next
  /\ UNCHANGED <<service, ofTitles, ofUnattended, ofPacing, ofEnrichment, ofRouting>>
NextUnattended ==
  /\ service = "unattended" /\ U!Next
  /\ UNCHANGED <<service, ofTitles, ofProposals, ofPacing, ofEnrichment, ofRouting>>
NextPacing ==
  /\ service = "pacing" /\ L!Next
  /\ UNCHANGED <<service, ofTitles, ofProposals, ofUnattended, ofEnrichment, ofRouting>>
NextEnrichment ==
  /\ \/ service = "one day" /\ OneDay!Next
     \/ service = "two days" /\ TwoDays!Next
  /\ UNCHANGED <<service, ofTitles, ofProposals, ofUnattended, ofPacing, ofRouting>>
NextRouting ==
  /\ service = "routing" /\ R!Next
  /\ UNCHANGED <<service, ofTitles, ofProposals, ofUnattended, ofPacing, ofEnrichment>>

NextServices ==
  \/ NextTitles \/ NextProposals \/ NextUnattended \/ NextPacing \/ NextEnrichment \/ NextRouting

ServicesSpec == InitServices /\ [][NextServices]_<<service, ofAll>>

Alike == Permutations({a, b}) \cup Permutations({i, j}) \cup Permutations({v, w})

-----------------------------------------------------------------------------
(* The state of each service is what its code can hold.                    *)
TypesOK ==
  /\ service = "two folders" => TwoFolders!TypeOK
  /\ service = "two ids" => TwoIds!TypeOK
  /\ service = "two Arrs" => TypeOK
  /\ service = "proposals" => P!TypeOK
  /\ service = "unattended" => U!TypeOK
  /\ service = "pacing" => L!TypeOK
  /\ service = "one day" => OneDay!TypeOK
  /\ service = "two days" => TwoDays!TypeOK
  /\ service = "routing" => R!TypeOK

(* A run stores every title it read, unless another stored it since, after *)
(* a clock set back or a restart too (routing.rs above_stored), and a      *)
(* title has one proposal at most, of the run the library shows for it,    *)
(* and none once its row went (store_run).                                 *)
RunAloneIsStored ==
  [][service = "proposals" => P!StoresWhatItRead /\ P!OneProposalOfTheRunShown']_<<service, ofProposals>>

(* Nothing moves unattended that had a file, or while switched off, when   *)
(* the pass got its turn, and one pass moves no more titles of an instance *)
(* than the cap (auto_apply.rs decide, within_cap).                        *)
MovedAsAskedAtTheTurn ==
  [][service = "unattended" => U!MovesAsAsked /\ U!MovedWithinCap']_<<service, ofUnattended>>

(* No more turns are given than the burst and what comes back with time,   *)
(* and no two at one instant, as long as no token is taken while another   *)
(* is about to be given back and the rate is not raised while requests are *)
(* queued ahead; and nothing goes out ever while a source has everything   *)
(* held back (rate_limit.rs acquire, reserve, hold, follow).               *)
PaceKept ==
  [][service = "pacing" => L!PaceKept' /\ L!DifferentInstants' /\ L!Waited]_<<service, ofPacing>>

(* A pass writes no refusal down of a source that refused everything, and  *)
(* the counts of its report make up the works it considered                *)
(* (enrichment.rs Held, finish, EnrichmentReport).                         *)
PassesAreAccounted ==
  /\ service = "one day" => OneDay!PassesAreAccounted
  /\ service = "two days" => TwoDays!PassesAreAccounted

(* An apply sends a title where its proposal said, whatever the free space *)
(* has become, and a pass whose forecast says everything fits sends no     *)
(* volume more than it has free (routing.rs destination, evaluate_pass).   *)
RoutedAsSaid == service = "routing" => R!GoesWhereProposed /\ R!ForecastHolds
=============================================================================
