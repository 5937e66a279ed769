------------------------------ MODULE Enrichment ------------------------------
(***************************************************************************)
(* One source of metadata over a day's end: the enrichment pass            *)
(* (services/enrichment.rs), the title a webhook or a refresh asks about   *)
(* alone beside it, and what the source may still be sent today            *)
(* (services/quota.rs), a count one kind of source has and a mark another. *)
(*                                                                         *)
(* The futures of a pass are polled by the loop that stores what they      *)
(* answer: an answer is recorded by the breaker and stored in one step.    *)
(* The pace of the requests is module Pacing.                              *)
(***************************************************************************)
EXTENDS Integers, FiniteSets, FiniteSetsExt

CONSTANTS
  Works,
  Slice,        \* QUOTA_SLICE
  Limit,        \* DailyQuota.limit
  BreakerLimit, \* Breaker::LIMIT
  Concurrency,
  None,
  MaxDay, MaxPasses, MaxAsked

SomeOfEach ==
  /\ Slice \in Nat \ {0} /\ Limit \in Nat \ {0}
  /\ BreakerLimit \in Nat \ {0} /\ Concurrency \in Nat \ {0}
FiniteLibrary == IsFiniteSet(Works)

VARIABLES
  kind,     \* "quota": a daily count (OMDb); "hold": a mark, and searches (Tenrai)
  day, row, \* date('now'), and the source's row of source_requests
  record,   \* what is on record of each work
  pass,     \* the pass: its stage, and what it has still to ask
  open,     \* its requests: in line for their turn, or out
  breaker, closed, held,
  report,
  alone,    \* the work asked about alone
  passes, asked,
  missed,   \* ghost: the misses this pass wrote down
  reserved, \* ghost: requests reserved each day and not given back
  sent      \* ghost: requests sent each day

count == <<day, row>>
stage == <<breaker, closed, held>>
bounds == <<passes, asked>>
vars == <<kind, count, record, pass, open, stage, report, alone, bounds, missed, reserved, sent>>

NoRow == [day |-> -1, spent |-> 0]
Off == [stage |-> "off", queue |-> {}, left |-> {}, granted |-> 0, sent |-> 0, day |-> 0]
Unbroken == [failures |-> 0, unanswered |-> 0, answered |-> FALSE]
NoReport == [considered |-> 0, enriched |-> 0, failed |-> 0, skipped |-> 0, deferred |-> 0]
NotAsking == [phase |-> "off", work |-> None, day |-> 0]

Pending == {w \in Works : record[w] = "found"}
Unidentified == {w \in Works : record[w] = "unknown"}

-----------------------------------------------------------------------------
(* quota.rs *)
Today == IF row.day = day THEN row.spent ELSE 0
Granted(wanted) == Max({Min({Limit - Today, wanted}), 0})
Reserve(wanted) ==
  /\ row' = [day |-> day, spent |-> Today + Granted(wanted)]
  /\ reserved' = [reserved EXCEPT ![day] = @ + Granted(wanted)]

(* give_back, of requests reserved on `of`. *)
GiveBack(unsent, of) ==
  /\ row' = IF row.day = day THEN [row EXCEPT !.spent = Max({@ - unsent, 0})] ELSE row
  /\ reserved' = [reserved EXCEPT ![of] = @ - unsent]

(* close_the_day: the quota exhausted, or the day held. *)
DayClosed ==
  IF kind = "quota" THEN [day |-> day, spent |-> Max({Today, Limit})] ELSE [row EXCEPT !.day = day]

HeldToday == kind = "hold" /\ row.day = day

Midnight ==
  /\ day < MaxDay
  /\ day' = day + 1
  /\ UNCHANGED <<kind, row, record, pass, open, stage, report, alone, bounds, missed, reserved, sent>>

-----------------------------------------------------------------------------
(* The pass (run_enrichment). *)
Refused == ~ breaker.answered /\ breaker.unanswered >= BreakerLimit
Broken == breaker.failures >= BreakerLimit \/ Refused

(* pending_targets, and what is left to fetch of them: nothing for a pass  *)
(* that found the source held back as it began.                            *)
Fetches(of, heldBack) ==
  /\ pass' = [Off EXCEPT !.stage = "fetching", !.left = IF heldBack THEN {} ELSE of]
  /\ report' = [NoReport EXCEPT !.considered = Cardinality(of),
                                !.deferred = IF heldBack THEN Cardinality(of) ELSE 0]

Begins ==
  /\ pass.stage = "off" /\ passes < MaxPasses
  /\ passes' = passes + 1
  /\ breaker' = Unbroken /\ closed' = FALSE /\ held' = {} /\ missed' = {}
  /\ IF kind = "hold" /\ ~ HeldToday
     THEN /\ pass' = [Off EXCEPT !.stage = "searching", !.queue = Unidentified]
          /\ report' = NoReport
     ELSE Fetches(Pending, HeldToday)
  /\ UNCHANGED <<kind, count, record, open, alone, asked, reserved, sent>>

(* A slice of the targets, as many as the quota grants: the rest wait. *)
TakesASlice ==
  /\ pass.stage = "fetching" /\ pass.queue = {} /\ pass.granted = 0 /\ pass.left # {}
  /\ \E slice \in SUBSET pass.left :
       /\ Cardinality(slice) = IF kind = "quota" THEN Min({Slice, Cardinality(pass.left)})
                               ELSE Cardinality(pass.left)
       /\ LET wanted == Cardinality(slice)
              granted == IF kind = "quota" THEN (IF closed THEN 0 ELSE Granted(wanted)) ELSE wanted
          IN /\ IF kind = "quota" /\ ~ closed THEN Reserve(wanted) ELSE UNCHANGED <<row, reserved>>
             /\ \E asking \in kSubset(granted, slice) :
                  pass' = [pass EXCEPT !.left = @ \ slice, !.queue = asking, !.granted = granted,
                                       !.sent = 0, !.day = day]
             /\ report' = [report EXCEPT !.deferred = @ + (wanted - granted)]
  /\ UNCHANGED <<kind, day, record, open, stage, alone, bounds, missed, sent>>

(* A future is polled first: nothing is sent once the breaker is open or   *)
(* the day closed.                                                         *)
Starts(w) ==
  /\ w \in pass.queue
  /\ Cardinality({v \in Works : open[v] # "no"}) < Concurrency
  /\ pass' = [pass EXCEPT !.queue = @ \ {w}]
  /\ IF Broken \/ closed
     THEN /\ report' = CASE pass.stage = "searching" -> report
                         [] pass.stage # "searching" /\ Broken -> [report EXCEPT !.skipped = @ + 1]
                         [] OTHER -> [report EXCEPT !.deferred = @ + 1]
          /\ UNCHANGED open
     ELSE open' = [open EXCEPT ![w] = "paced"] /\ UNCHANGED report
  /\ UNCHANGED <<kind, count, record, stage, alone, bounds, missed, reserved, sent>>

Sends(w) ==
  /\ open[w] = "paced"
  /\ open' = [open EXCEPT ![w] = "out"]
  /\ pass' = [pass EXCEPT !.sent = @ + 1]
  /\ sent' = [sent EXCEPT ![day] = @ + 1]
  /\ UNCHANGED <<kind, count, record, stage, report, alone, bounds, missed, reserved>>

(* Breaker::record *)
Recorded(outcome) ==
  CASE outcome = "said" -> [breaker EXCEPT !.answered = TRUE, !.failures = 0]
    [] outcome \in {"refused", "unreadable"} ->
         [breaker EXCEPT !.failures = 0, !.unanswered = Min({@ + 1, BreakerLimit})]
    [] outcome = "down" -> [breaker EXCEPT !.failures = Min({@ + 1, BreakerLimit})]
    [] OTHER -> [breaker EXCEPT !.failures = 0]

(* What is on record once a refusal of `ws` is: of the search a miss, of   *)
(* the fetch an empty answer.                                              *)
Misses(ws, to) ==
  [w \in Works |-> IF w \notin ws THEN to[w] ELSE IF to[w] = "unknown" THEN "none" ELSE "empty"]
HeldFetches == {w \in held : record[w] # "unknown"}

(* store, counted: the database may refuse it. *)
Counted(how, fetches, stored) ==
  [how EXCEPT !.enriched = @ + Cardinality(fetches \cap stored),
              !.failed = @ + Cardinality(fetches \ stored)]

(* Mutant: the refusals of searches alone are held back. *)
HoldsBackSearches(outcome) ==
  outcome = "refused" /\ ~ Recorded(outcome).answered /\ pass.stage = "searching"

(* A refusal of a source that has answered nothing yet is held back. *)
HoldsBack(outcome) == outcome = "refused" /\ ~ Recorded(outcome).answered

(* An answer: recorded, then what was held back written down once the      *)
(* source has answered anything, then stored.                              *)
Answers(w, outcome) ==
  /\ open[w] = "out" /\ outcome # "spent"
  /\ open' = [open EXCEPT ![w] = "no"]
  /\ breaker' = Recorded(outcome)
  /\ \E stored \in SUBSET (held \cup {w}) :
       LET answered == Recorded(outcome).answered
           flushed == IF answered THEN held ELSE {}
           misses == flushed \cup (IF outcome = "refused" /\ ~ HoldsBack(outcome) THEN {w} ELSE {})
           written == Misses(misses \cap stored, record)
           fetching == pass.stage = "fetching"
       IN /\ held' = IF HoldsBack(outcome) THEN held \cup {w} ELSE held \ flushed
          /\ missed' = missed \cup (misses \cap stored)
          /\ record' = IF outcome = "said" /\ w \in stored
                       THEN [written EXCEPT ![w] = IF fetching THEN "answer" ELSE "found"]
                       ELSE written
          /\ report' =
               IF ~ fetching THEN report
               ELSE Counted(Counted(report, flushed \cap HeldFetches, stored),
                            IF outcome \in {"said", "refused"} /\ w \notin held' THEN {w}
                            ELSE IF outcome = "refused" THEN {} ELSE {w},
                            IF outcome \in {"said", "refused"} THEN stored ELSE {})
  /\ UNCHANGED <<kind, count, pass, closed, alone, bounds, reserved, sent>>

(* The source has spent its day: what is left of the pass waits. *)
RefusesTheDay(w) ==
  /\ open[w] = "out"
  /\ open' = [open EXCEPT ![w] = "no"]
  /\ closed' = TRUE
  /\ report' = IF pass.stage = "fetching" THEN [report EXCEPT !.deferred = @ + 1] ELSE report
  /\ UNCHANGED <<kind, count, record, pass, breaker, held, alone, bounds, missed, reserved, sent>>

Settled == pass.queue = {} /\ \A w \in Works : open[w] = "no"

SearchEnds ==
  /\ pass.stage = "searching" /\ Settled
  /\ Fetches(Pending, FALSE)
  /\ UNCHANGED <<kind, count, record, open, stage, alone, bounds, missed, reserved, sent>>

SliceEnds ==
  /\ pass.stage = "fetching" /\ Settled /\ pass.granted > 0
  /\ IF kind = "quota" /\ ~ closed
     THEN GiveBack(pass.granted - pass.sent, pass.day)
     ELSE UNCHANGED <<row, reserved>>
  /\ pass' = [pass EXCEPT !.granted = 0, !.sent = 0]
  /\ UNCHANGED <<kind, day, record, open, stage, report, alone, bounds, missed, sent>>

(* Mutant: the refusals dropped are not counted. *)
DroppedUncounted == report

(* The refusals dropped with a source that refused everything count as failures. *)
Dropped == [report EXCEPT !.failed = @ + Cardinality(HeldFetches)]

(* finish: the refusals held are written down, or dropped when the source  *)
(* refused everything, and the day is closed.                              *)
Finishes ==
  /\ pass.stage = "fetching" /\ Settled /\ pass.granted = 0 /\ pass.left = {}
  /\ pass' = [Off EXCEPT !.stage = "over"]
  /\ IF Refused
     THEN /\ report' = Dropped
          /\ UNCHANGED <<record, missed>>
     ELSE \E stored \in SUBSET held :
            /\ record' = Misses(stored, record)
            /\ missed' = missed \cup stored
            /\ report' = Counted(report, HeldFetches, stored)
  /\ held' = {}
  /\ row' = IF closed THEN DayClosed ELSE row
  /\ UNCHANGED <<kind, day, open, breaker, closed, alone, bounds, reserved, sent>>

(* The pass ends: reported, or cut by the database or a restart.           *)
PassOver ==
  /\ pass.stage # "off"
  /\ pass' = Off /\ open' = [w \in Works |-> "no"]
  /\ breaker' = Unbroken /\ closed' = FALSE /\ held' = {} /\ missed' = {}
  /\ report' = NoReport
  /\ UNCHANGED <<kind, count, record, alone, bounds, reserved, sent>>

-----------------------------------------------------------------------------
(* A work asked about alone (ask_now), within its deadline. *)
AsksAlone(w) ==
  /\ alone = NotAsking /\ asked < MaxAsked
  /\ asked' = asked + 1
  /\ record[w] = "found" /\ ~ HeldToday
  /\ IF kind = "quota"
     THEN /\ Reserve(1)
          /\ alone' = IF Granted(1) = 0 THEN alone
                      ELSE [phase |-> "paced", work |-> w, day |-> day]
     ELSE /\ alone' = [phase |-> "paced", work |-> w, day |-> day]
          /\ UNCHANGED <<row, reserved>>
  /\ UNCHANGED <<kind, day, record, pass, open, stage, report, passes, missed, sent>>

(* Its turn is past the deadline: the request is given back. *)
GivesUp ==
  /\ alone.phase = "paced"
  /\ IF kind = "quota" THEN GiveBack(1, alone.day) ELSE UNCHANGED <<row, reserved>>
  /\ alone' = NotAsking
  /\ UNCHANGED <<kind, day, record, pass, open, stage, report, bounds, missed, sent>>

SendsAlone ==
  /\ alone.phase = "paced"
  /\ alone' = [alone EXCEPT !.phase = "out"]
  /\ sent' = [sent EXCEPT ![day] = @ + 1]
  /\ UNCHANGED <<kind, count, record, pass, open, stage, report, bounds, missed, reserved>>

(* Stored at once, whatever a pass holds back; no answer leaves what is on *)
(* record.                                                                 *)
AnswersAlone ==
  /\ alone.phase = "out"
  /\ alone' = NotAsking
  /\ \/ \E answer \in {"answer", "empty"} : record' = [record EXCEPT ![alone.work] = answer]
        /\ UNCHANGED row
     \/ UNCHANGED <<record, row>>
     \/ row' = DayClosed /\ UNCHANGED record
  /\ UNCHANGED <<kind, day, pass, open, stage, report, bounds, missed, reserved, sent>>

Init ==
  /\ kind \in {"quota", "hold"}
  /\ day = 0 /\ row = NoRow
  /\ record \in [Works -> IF kind = "quota" THEN {"found"} ELSE {"unknown", "found"}]
  /\ pass = Off /\ open = [w \in Works |-> "no"]
  /\ breaker = Unbroken /\ closed = FALSE /\ held = {}
  /\ report = NoReport
  /\ alone = NotAsking
  /\ passes = 0 /\ asked = 0
  /\ missed = {}
  /\ reserved = [d \in 0..MaxDay |-> 0] /\ sent = [d \in 0..MaxDay |-> 0]

Outcomes == {"said", "refused", "unreadable", "down", "other"}

Next ==
  \/ Midnight
  \/ Begins \/ TakesASlice \/ SearchEnds \/ SliceEnds \/ Finishes \/ PassOver
  \/ \E w \in Works :
       \/ Starts(w) \/ Sends(w) \/ RefusesTheDay(w) \/ AsksAlone(w)
       \/ \E outcome \in Outcomes : Answers(w, outcome)
  \/ GivesUp \/ SendsAlone \/ AnswersAlone

Spec == Init /\ [][Next]_vars

-----------------------------------------------------------------------------
TypeOK ==
  /\ day \in 0..MaxDay /\ row.day \in -1..MaxDay /\ row.spent \in Nat
  /\ record \in [Works -> {"unknown", "none", "found", "empty", "answer"}]
  /\ open \in [Works -> {"no", "paced", "out"}]
  /\ held \subseteq Works /\ missed \subseteq Works

(* A source that refused as many titles as the breaker allows and answered *)
(* none is broken, and says nothing of any title: this pass wrote none of  *)
(* its refusals down, however many were out at once (Held, finish).        *)
NoMissOfABrokenSource == Refused => missed = {}

(* Each work a pass considered is counted once, as enriched, failed,       *)
(* skipped or deferred, the refusals held back and those dropped included  *)
(* (EnrichmentReport).                                                     *)
ReportAccountsForAll ==
  pass.stage = "over" =>
    report.considered = report.enriched + report.failed + report.skipped + report.deferred

PassesAreAccounted == NoMissOfABrokenSource /\ ReportAccountsForAll

(* quota.rs:52 "Given back after the day they were reserved, they are      *)
(* nothing to give": today's count covers every request reserved today.    *)
CountCoversTheDay == kind = "quota" /\ row.day = day => row.spent >= reserved[day]
=============================================================================
