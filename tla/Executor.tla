------------------------------ MODULE Executor ------------------------------
(***************************************************************************)
(* The executor of Routarr: a decision to move a title from one root       *)
(* folder to another is sent to its Arr, followed to its end and settled,  *)
(* by a run that holds the "apply" lock or, when the run stopped or the    *)
(* process died first, by the sync that comes next.                        *)
(*                                                                         *)
(* Three actors share the database rows and the Arr: a run (apply, apply   *)
(* in batches, unattended apply, revert), one part of it per instance; the *)
(* sync of each instance, which refreshes the titles' rows and then        *)
(* settles the moves left "requested"; a simulation, which stores          *)
(* proposals. The Arr is external: it takes, refuses or loses a PUT, late  *)
(* perhaps, carries files in a command that may fail and put the title     *)
(* back, and has a user of its own.                                        *)
(***************************************************************************)
EXTENDS Naturals, FiniteSets, Sequences

CONSTANTS
  Instances,        \* the Arr instances
  Titles,           \* the titles of the library
  InstanceOf,       \* the instance that holds each title
  Folders,          \* root folders
  Decisions,        \* ids a simulation may give the decisions it stores
  None,             \* no decision, no folder, no title
  BatchLimit,       \* the setting batch_limit
  FileMoves,        \* the values of move_files a run may be asked with
  Slicing,          \* whether the runs are cut in batches
  MaxRuns,          \* bound: runs started
  MaxStops,         \* bound: cancels and switches of global_dry_run
  MaxHand,          \* bound: titles moved or deleted in the Arr by its user
  MaxFaults,        \* bound: crashes and failed database writes
  MaxListed         \* bound: move commands the Arr lists for one title

ASSUME ConstantsAssumption ==
  /\ InstanceOf \in [Titles -> Instances]
  /\ None \notin Titles \cup Folders \cup Decisions
  /\ BatchLimit \in Nat \ {0}
  /\ FileMoves \subseteq BOOLEAN
  /\ Slicing \subseteq BOOLEAN
  /\ {MaxRuns, MaxStops, MaxHand, MaxFaults, MaxListed} \subseteq Nat

VARIABLES
  \* The database.
  decision,   \* the rows of the table decisions
  after,      \* for each decision, those stamped with a later applied_at
  row,        \* the folder the media row of each title names
  \* The process.
  lock,       \* who holds the "apply" lock
  run,        \* the run that holds it
  part,       \* what the run does on each instance
  sync,       \* the sync of each instance
  kept,       \* titles whose moved_at is not before their sync's read_at
  sim,        \* a simulation that read its snapshot and has not stored yet
  stop,       \* a cancel of the run, or the server stopping
  dryRun,     \* the setting global_dry_run
  \* The Arr.
  arr,        \* the folder the Arr holds each title in
  commands,   \* its move commands on each title, the latest last
  puts,       \* PUTs sent and neither taken nor lost
  \* History, read by the properties alone.
  seen,       \* folders the Arr was seen to hold a requested title in
  unseen,     \* titles the Arr changed and Routarr was not told of
  overrun,    \* moves each part sent since a stop was asked
  \* Bounds.
  runs, stops, hands, faults

db     == <<decision, after, row>>
arrVars == <<arr, commands, puts>>
runVars == <<lock, run, part, stop>>
syncVars == <<sync, kept>>
history == <<seen, unseen, overrun>>
bounds == <<runs, stops, hands, faults>>
vars == <<decision, after, row, lock, run, part, sync, kept, sim, stop, dryRun,
          arr, commands, puts, seen, unseen, overrun, runs, stops, hands, faults>>

Folder == Folders \cup {None}
Statuses == {"absent", "pending", "requested", "applied", "failed", "skipped"}
Directions == {"forward", "revert"}
Owners == {"free", "run", "settle"}

DecisionRow == [status: Statuses, title: Titles \cup {None}, from: Folder,
                to: Folder, superseded: BOOLEAN, reverted: BOOLEAN]
Run == [direction: Directions, files: BOOLEAN, sliced: BOOLEAN,
        todo: SUBSET Decisions, queue: SUBSET Decisions, stopped: BOOLEAN,
        done: BOOLEAN, failed: BOOLEAN]
PartPCs == {"ready", "checked", "sent", "unanswered", "taken", "following",
            "over", "read", "failed"}
Part == [pc: PartPCs, move: Decisions \cup {None}, begun: BOOLEAN,
         held: Folder]
SyncPCs == {"idle", "begun", "read", "written", "rows", "settling", "held"}
Sync == [pc: SyncPCs, snap: [Titles -> Folder], rows: SUBSET Decisions,
         back: SUBSET Decisions, running: SUBSET Titles, ended: SUBSET Titles,
         move: Decisions \cup {None}, held: Folder]
Put == [move: Decisions, to: Folders, files: BOOLEAN]
Command == [by: Decisions, from: Folders, to: Folders,
            state: {"running", "completed", "ended"}]
Simulation == [title: Titles, from: Folders, to: Folders]

Absent == [status |-> "absent", title |-> None, from |-> None, to |-> None,
           superseded |-> FALSE, reverted |-> FALSE]
NoRun == [direction |-> "forward", files |-> FALSE, sliced |-> FALSE,
          todo |-> {}, queue |-> {}, stopped |-> FALSE, done |-> FALSE,
          failed |-> FALSE]
Ready == [pc |-> "ready", move |-> None, begun |-> FALSE, held |-> None]
NoSync == [pc |-> "idle", snap |-> [t \in Titles |-> None], rows |-> {},
           back |-> {}, running |-> {}, ended |-> {}, move |-> None,
           held |-> None]

-----------------------------------------------------------------------------
(***************************************************************************)
(* What the code asks of the rows.                                         *)
(***************************************************************************)

\* A proposal still standing.
Standing(d) == decision[d].status = "pending" /\ ~decision[d].superseded

LoadableAfterFailing(d) ==
  /\ decision[d].status \in {"pending", "failed"} /\ ~decision[d].superseded
  /\ row[decision[d].title] = decision[d].from

\* A move an apply may load: its title is where it was when it was proposed.
Loadable(d) == Standing(d) /\ row[decision[d].title] = decision[d].from

RevertibleAnyOrder(d) ==
  /\ decision[d].status = "applied"
  /\ ~decision[d].reverted

\* A move a revert may undo (the SQL condition REVERTIBLE).
Revertible(d) ==
  /\ decision[d].status = "applied"
  /\ ~decision[d].reverted
  /\ ~\E e \in after[d] : decision[e].status = "applied" /\ ~decision[e].reverted
  /\ row[decision[d].title] = decision[d].to

Movable(d, direction) ==
  IF direction = "forward" THEN Loadable(d) ELSE Revertible(d)

\* Where a move of decision d sends its title.
Target(d, direction) ==
  IF direction = "forward" THEN decision[d].to ELSE decision[d].from

\* The ids given, a superseded one replaced by the proposal standing for the
\* same move when there is one, and dropped otherwise.
CurrentProposals(ids) ==
  LET replaced == {d \in ids : decision[d].status = "pending" /\ decision[d].superseded}
      successor(d, e) == /\ Standing(e)
                         /\ decision[e].title = decision[d].title
                         /\ decision[e].from = decision[d].from
                         /\ decision[e].to = decision[d].to
  IN (ids \ replaced) \cup
     {e \in Decisions : \E d \in replaced : successor(d, e)}

InstanceOfMove(d) == InstanceOf[decision[d].title]
QueueOf(i) == {d \in run.queue : InstanceOfMove(d) = i}
TitlesOf(i) == {t \in Titles : InstanceOf[t] = i}

\* Why a run must end before its next move: a cancel or the server stopping,
\* or the global dry run.
StopReason == stop \/ dryRun

-----------------------------------------------------------------------------
(***************************************************************************)
(* What a move leaves in the database. Each operator is the table after    *)
(* one write.                                                              *)
(***************************************************************************)

\* The pending proposals among ids are superseded (retire_pending).
Retired(ids) ==
  [d \in Decisions |->
     IF d \in ids /\ decision[d].status = "pending"
     THEN [decision[d] EXCEPT !.superseded = TRUE]
     ELSE decision[d]]

\* d takes the latest applied_at of its title's decisions.
Stamped(d) ==
  [e \in Decisions |->
     IF e = d THEN {}
     ELSE IF decision[e].title = decision[d].title THEN after[e] \cup {d}
     ELSE after[e]]

\* d has no applied_at any more.
Unstamped(d) == [e \in Decisions |-> IF e = d THEN {} ELSE after[e] \ {d}]

Requested(d, direction) ==
  [decision EXCEPT
     ![d].status = "requested",
     ![d].reverted = direction = "revert" \/ decision[d].reverted]

\* The proposals standing for the title of d, settled by the move of d.
SettleProposalsSince(d, rows) ==
  [e \in Decisions |->
     IF e # d /\ rows[e].title = rows[d].title /\ rows[e].status = "pending"
     THEN [rows[e] EXCEPT !.superseded = TRUE]
     ELSE rows[e]]

Made(d, direction) ==
  LET status == IF direction = "forward" THEN "applied" ELSE "skipped"
      reverted == direction = "revert" \/ decision[d].reverted
  IN SettleProposalsSince(d,
       [decision EXCEPT ![d] = [@ EXCEPT !.status = status, !.reverted = reverted]])

\* Confirmed only while it is still requested: the status alone is written.
Confirmed(d, direction) ==
  IF decision[d].status = "requested"
  THEN SettleProposalsSince(d,
         [decision EXCEPT ![d] =
            [@ EXCEPT !.status = IF direction = "forward" THEN "applied" ELSE "skipped"]])
  ELSE decision

\* A failure is written whatever the status was.
Failed(d, direction) ==
  [decision EXCEPT ![d] =
     IF direction = "forward"
     THEN [@ EXCEPT !.status = "failed"]
     ELSE [@ EXCEPT !.status = "applied", !.reverted = FALSE]]

FailedStamps(d, direction) ==
  IF direction = "forward" THEN Unstamped(d) ELSE after

\* History: the folders of a requested decision the Arr has held its title in
\* since it was requested.
Witnessed(rows, folders) ==
  [d \in Decisions |->
     LET goal == IF rows[d].reverted THEN rows[d].from ELSE rows[d].to IN
     IF rows[d].status = "requested" /\ folders[rows[d].title] = goal
     THEN seen[d] \cup {goal}
     ELSE seen[d]]

\* History: the row of title t was written to say folder.
UnseenAfterRow(t, folder) == IF folder = arr[t] THEN unseen \ {t} ELSE unseen

\* History: an answer of the Arr about title t is in hand and not yet recorded.
AnswerInHand(t) ==
  \/ \E i \in Instances :
       part[i].pc \in {"taken", "read"} /\ decision[part[i].move].title = t
  \/ \E i \in Instances : sync[i].pc = "held" /\ decision[sync[i].move].title = t

-----------------------------------------------------------------------------
Init ==
  /\ decision = [d \in Decisions |-> Absent]
  /\ after = [d \in Decisions |-> {}]
  /\ arr \in [Titles -> Folders]
  /\ row = arr
  /\ lock = "free"
  /\ run = NoRun
  /\ part = [i \in Instances |-> Ready]
  /\ sync = [i \in Instances |-> NoSync]
  /\ kept = {}
  /\ sim = {}
  /\ stop = FALSE
  /\ dryRun = FALSE
  /\ commands = [t \in Titles |-> <<>>]
  /\ puts = {}
  /\ seen = [d \in Decisions |-> {}]
  /\ unseen = {}
  /\ overrun = [i \in Instances |-> 0]
  /\ runs = 0 /\ stops = 0 /\ hands = 0 /\ faults = 0

-----------------------------------------------------------------------------
(***************************************************************************)
(* A simulation of one title: the row is read in a snapshot, the proposal  *)
(* stored in a write transaction of its own.                               *)
(***************************************************************************)

SimulationReadGone(t, to) ==
  /\ sim = {}
  /\ sim' = {[title |-> t, from |-> row[t], to |-> to]}
  /\ UNCHANGED <<db, runVars, syncVars, dryRun, arrVars, history, bounds>>

SimulationRead(t, to) ==
  /\ sim = {}
  /\ \E d \in Decisions : decision[d].status = "absent"
  /\ row[t] # None
  /\ sim' = {[title |-> t, from |-> row[t], to |-> to]}
  /\ UNCHANGED <<db, runVars, syncVars, dryRun, arrVars, history, bounds>>

SupersededByOthers(t) == decision

\* The proposals standing for title t are superseded.
Superseded(t) == Retired({d \in Decisions : decision[d].title = t})

Proposal(s) == [status |-> "pending", title |-> s.title, from |-> s.from,
                to |-> s.to, superseded |-> FALSE, reverted |-> FALSE]

\* store_run: whatever stood for the title is superseded, and a move stored
\* when the folder found is not the one read. A title deleted since stores
\* nothing.
SimulationStored(s, d) ==
  /\ sim = {s}
  /\ decision[d].status = "absent"
  /\ sim' = {}
  /\ decision' =
       IF row[s.title] = None THEN decision
       ELSE IF s.from = s.to THEN Superseded(s.title)
       ELSE [Superseded(s.title) EXCEPT ![d] = Proposal(s)]
  /\ UNCHANGED <<after, row, runVars, syncVars, dryRun, arrVars, history, bounds>>

-----------------------------------------------------------------------------
(***************************************************************************)
(* A run: apply, apply in batches, unattended apply, revert.               *)
(***************************************************************************)

AllReady == \A i \in Instances : part[i].pc = "ready"

\* The guards passed and the "apply" lock taken. Any decision known may be
\* named, in whatever state the screen it was chosen on has left it.
StartRun(direction, files, sliced, ids) ==
  /\ lock = "free"
  /\ ~dryRun
  /\ ids # {} /\ \A d \in ids : decision[d].status # "absent"
  /\ runs < MaxRuns
  /\ lock' = "run"
  /\ run' = [NoRun EXCEPT !.direction = direction, !.files = files,
                          !.sliced = sliced, !.todo = ids]
  /\ part' = [i \in Instances |-> Ready]
  /\ stop' = FALSE
  /\ overrun' = [i \in Instances |-> 0]
  /\ runs' = runs + 1
  /\ UNCHANGED <<db, syncVars, sim, dryRun, arrVars, seen, unseen, stops, hands, faults>>

\* A slice may follow: nothing stopped the run, and the slice before it was not
\* refused whole.
MaySlice ==
  /\ lock = "run"
  /\ AllReady
  /\ run.queue = {}
  /\ run.todo # {}
  /\ ~run.stopped
  /\ run.done \/ ~run.failed

StopSlices ==
  /\ MaySlice
  /\ run.sliced /\ StopReason
  /\ run' = [run EXCEPT !.stopped = TRUE]
  /\ UNCHANGED <<db, lock, part, stop, syncVars, sim, dryRun, arrVars, history,
                 bounds>>

\* The decisions of a slice could not be loaded: the run ends there.
LoadFailed ==
  /\ MaySlice
  /\ faults < MaxFaults
  /\ faults' = faults + 1
  /\ run' = [run EXCEPT !.stopped = TRUE]
  /\ UNCHANGED <<db, lock, part, stop, syncVars, sim, dryRun, arrVars, history,
                 runs, stops, hands>>

\* The next slice is loaded, all the ids at once outside batches. The rules,
\* read again, may no longer send some of the moves of an apply where they
\* were proposed: those are retired, unless the write that retires them fails,
\* and left out either way.
LoadSlice(batch, stale, retired) ==
  LET current == IF run.direction = "forward" THEN CurrentProposals(batch) ELSE batch
      loaded == {d \in current : Movable(d, run.direction)}
  IN
  /\ MaySlice
  /\ ~(run.sliced /\ StopReason)
  /\ batch # {}
  /\ IF run.sliced /\ Cardinality(run.todo) > BatchLimit
     THEN batch \subseteq run.todo /\ Cardinality(batch) = BatchLimit
     ELSE batch = run.todo
  /\ stale \subseteq loaded
  /\ run.direction = "revert" => stale = {}
  /\ retired \in {{}, stale}
  /\ decision' = Retired(retired)
  /\ run' = [run EXCEPT !.todo = @ \ batch, !.queue = loaded \ stale,
                        !.done = FALSE, !.failed = FALSE]
  /\ part' = [i \in Instances |-> Ready]
  /\ UNCHANGED <<after, row, lock, stop, syncVars, sim, dryRun, arrVars, history,
                 bounds>>

\* Every part ended and no slice is left to try: the job closes, the lock is
\* dropped.
FinishRun ==
  /\ lock = "run"
  /\ AllReady
  /\ run.queue = {}
  /\ ~MaySlice
  /\ lock' = "free"
  /\ run' = NoRun
  /\ part' = [i \in Instances |-> Ready]
  /\ stop' = FALSE
  /\ overrun' = [i \in Instances |-> 0]
  /\ UNCHANGED <<db, syncVars, sim, dryRun, arrVars, seen, unseen, bounds>>

Cancel ==
  /\ lock = "run"
  /\ ~stop
  /\ stops < MaxStops
  /\ stops' = stops + 1
  /\ stop' = TRUE
  /\ overrun' = IF StopReason THEN overrun ELSE [i \in Instances |-> 0]
  /\ UNCHANGED <<db, lock, run, part, syncVars, sim, dryRun, arrVars, seen, unseen,
                 runs, hands, faults>>

SetDryRun(on) ==
  /\ dryRun # on
  /\ stops < MaxStops
  /\ stops' = stops + 1
  /\ dryRun' = on
  /\ overrun' = IF StopReason THEN overrun ELSE [i \in Instances |-> 0]
  /\ UNCHANGED <<db, runVars, syncVars, sim, arrVars, seen, unseen, runs, hands, faults>>

-----------------------------------------------------------------------------
(***************************************************************************)
(* The part of a run on one instance. With files every instance works at   *)
(* once, without them one after the other.                                 *)
(***************************************************************************)

\* The part of instance i takes its turn between two moves.
Turn(i) ==
  /\ lock = "run"
  /\ part[i].pc = "ready"
  /\ QueueOf(i) # {}
  /\ run.files \/ \A j \in Instances \ {i} :
       part[j].pc = "ready" /\ (part[j].begun => QueueOf(j) = {})

\* The moves left in the queue once the part of instance i stops: with files
\* the other parts go on, without them the run ends there.
QueueStopped(i) == IF run.files THEN run.queue \ QueueOf(i) ELSE {}

\* An instance missing, disabled or without an adapter: its whole batch fails
\* and nothing is sent.
FailBatch(i) ==
  /\ Turn(i)
  /\ ~part[i].begun
  /\ decision' = [d \in Decisions |->
                    IF d \in QueueOf(i) THEN Failed(d, run.direction)[d]
                    ELSE decision[d]]
  /\ after' = IF run.direction = "revert" THEN after
              ELSE [d \in Decisions |->
                      IF d \in QueueOf(i) THEN {} ELSE after[d] \ QueueOf(i)]
  /\ run' = [run EXCEPT !.queue = @ \ QueueOf(i), !.failed = TRUE]
  /\ UNCHANGED <<row, lock, part, stop, syncVars, sim, dryRun, arrVars, history,
                 bounds>>

StopPart(i) ==
  /\ Turn(i)
  /\ StopReason
  /\ run' = [run EXCEPT !.queue = QueueStopped(i), !.stopped = TRUE]
  /\ UNCHANGED <<db, lock, part, stop, syncVars, sim, dryRun, arrVars, history,
                 bounds>>

\* The move a queued decision stands for now. With files each move after the
\* first of its instance is loaded again, and its identical successor taken.
Revalidated(i, d) ==
  IF ~(run.files /\ part[i].begun) THEN {d}
  ELSE IF run.direction = "forward" THEN {e \in CurrentProposals({d}) : Loadable(e)}
  ELSE {e \in {d} : Revertible(e)}

CheckMoveStoppedOrNot(i, d, verdict) ==
  LET moves == Revalidated(i, d)
      again == run.files /\ part[i].begun
      retired == IF verdict = "retire" THEN moves ELSE {}
  IN
  /\ Turn(i)
  /\ d \in QueueOf(i)
  /\ verdict # "send" => again
  /\ verdict = "retire" => run.direction = "forward" /\ moves # {}
  /\ run' = [run EXCEPT !.queue = @ \ {d}]
  /\ part' = [part EXCEPT ![i] =
                IF verdict # "send" \/ moves = {} THEN [@ EXCEPT !.begun = TRUE]
                ELSE [@ EXCEPT !.pc = "checked", !.begun = TRUE,
                               !.move = CHOOSE e \in moves : TRUE]]
  /\ decision' = Retired(retired)
  /\ UNCHANGED <<after, row, lock, stop, syncVars, sim, dryRun, arrVars, history,
                 bounds>>

\* The next move of instance i, as it stands now: sent, retired when the rules
\* send its title elsewhere, or left when that cannot be read or written; it is
\* skipped when it is no longer a move to make.
CheckMove(i, d, verdict) ==
  LET moves == Revalidated(i, d)
      again == run.files /\ part[i].begun
      retired == IF verdict = "retire" THEN moves ELSE {}
  IN
  /\ Turn(i)
  /\ ~StopReason
  /\ d \in QueueOf(i)
  /\ verdict # "send" => again
  /\ verdict = "retire" => run.direction = "forward" /\ moves # {}
  /\ run' = [run EXCEPT !.queue = @ \ {d}]
  /\ part' = [part EXCEPT ![i] =
                IF verdict # "send" \/ moves = {} THEN [@ EXCEPT !.begun = TRUE]
                ELSE [@ EXCEPT !.pc = "checked", !.begun = TRUE,
                               !.move = CHOOSE e \in moves : TRUE]]
  /\ decision' = Retired(retired)
  /\ UNCHANGED <<after, row, lock, stop, syncVars, sim, dryRun, arrVars, history,
                 bounds>>

PutOf(d) == [move |-> d, to |-> Target(d, run.direction), files |-> run.files]

SendUnrecorded(i) ==
  LET d == part[i].move IN
  /\ part[i].pc = "checked"
  /\ puts' = puts \cup {PutOf(d)}
  /\ part' = [part EXCEPT ![i].pc = "sent"]
  /\ overrun' = IF StopReason THEN [overrun EXCEPT ![i] = @ + 1] ELSE overrun
  /\ UNCHANGED <<db, lock, run, stop, syncVars, sim, dryRun, arr, commands, seen, unseen,
                 bounds>>

\* The move is recorded as requested, in a commit of its own, then sent.
RequestMove(i) ==
  LET d == part[i].move IN
  /\ part[i].pc = "checked"
  /\ decision' = Requested(d, run.direction)
  /\ after' = IF run.direction = "forward" THEN Stamped(d) ELSE after
  /\ puts' = puts \cup {PutOf(d)}
  /\ part' = [part EXCEPT ![i].pc = "sent"]
  /\ seen' = [Witnessed(Requested(d, run.direction), arr) EXCEPT
                ![d] = IF arr[decision[d].title] = Target(d, run.direction)
                       THEN seen[d] \cup {Target(d, run.direction)}
                       ELSE seen[d] \ {Target(d, run.direction)}]
  /\ overrun' = IF StopReason THEN [overrun EXCEPT ![i] = @ + 1] ELSE overrun
  /\ UNCHANGED <<row, lock, run, stop, syncVars, sim, dryRun, arr, commands, unseen,
                 bounds>>

\* The record failed: the move is not sent and counts as failed.
RequestRefused(i) ==
  /\ part[i].pc = "checked"
  /\ faults < MaxFaults
  /\ faults' = faults + 1
  /\ part' = [part EXCEPT ![i].pc = "failed"]
  /\ UNCHANGED <<db, lock, run, stop, syncVars, sim, dryRun, arrVars, history, runs, stops, hands>>

\* The client gave up on the answer; the PUT may still reach the Arr.
AnswerTimedOut(i) ==
  /\ part[i].pc = "sent"
  /\ part' = [part EXCEPT ![i].pc = "unanswered"]
  /\ UNCHANGED <<db, lock, run, stop, syncVars, sim, dryRun, arrVars, history, bounds>>

ReadBackTrusted(i, answered) ==
  /\ part[i].pc = "unanswered"
  /\ part' = [part EXCEPT ![i].pc = IF answered THEN "taken" ELSE "failed"]
  /\ UNCHANGED <<db, lock, run, stop, syncVars, sim, dryRun, arrVars, history, bounds>>

\* The title read back after an answer that never came: in its target the move
\* counts as taken, elsewhere or unread as failed.
ReadBack(i, answered) ==
  LET d == part[i].move
      taken == answered /\ arr[decision[d].title] = Target(d, run.direction)
  IN
  /\ part[i].pc = "unanswered"
  /\ part' = [part EXCEPT ![i].pc = IF taken THEN "taken" ELSE "failed"]
  /\ UNCHANGED <<db, lock, run, stop, syncVars, sim, dryRun, arrVars, history, bounds>>

\* Titles whose row a sync under way must keep, t moved now.
Keep(t) ==
  IF sync[InstanceOf[t]].pc \in {"begun", "read"} THEN kept \cup {t} ELSE kept

\* The row of title t follows the Arr.
MoveRow(t, folder) ==
  /\ row' = [row EXCEPT ![t] = folder]
  /\ kept' = Keep(t)
  /\ unseen' = UnseenAfterRow(t, folder)

\* The part is done with its move, which ended as outcome says.
NextMove(i, outcome) ==
  /\ part' = [part EXCEPT ![i] = [Ready EXCEPT !.begun = TRUE]]
  /\ run' = IF outcome = "failed" THEN [run EXCEPT !.failed = TRUE]
            ELSE [run EXCEPT !.done = TRUE]

\* A move without files the Arr took: the decision and the title's row change
\* in one commit (record_success).
RecordSuccess(i) ==
  LET d == part[i].move IN
  /\ part[i].pc = "taken" /\ ~run.files
  /\ decision' = Made(d, run.direction)
  /\ after' = IF run.direction = "forward" THEN Stamped(d) ELSE after
  /\ IF row[decision[d].title] = None
     THEN UNCHANGED <<row, kept, unseen>>
     ELSE MoveRow(decision[d].title, Target(d, run.direction))
  /\ NextMove(i, "done")
  /\ UNCHANGED <<lock, stop, sync, sim, dryRun, arrVars, seen, overrun, bounds>>

\* A move with files the Arr took: the row follows, the decision stays requested.
RecordSent(i) ==
  LET d == part[i].move IN
  /\ part[i].pc = "taken" /\ run.files
  /\ IF row[decision[d].title] = None
     THEN UNCHANGED <<row, kept, unseen>>
     ELSE MoveRow(decision[d].title, Target(d, run.direction))
  /\ part' = [part EXCEPT ![i].pc = "following"]
  /\ UNCHANGED <<decision, after, lock, run, stop, sync, sim, dryRun, arrVars, seen,
                 overrun, bounds>>

\* The latest command moving title t to folder to, if any is listed.
LatestTo(t, to) ==
  LET listed == {n \in DOMAIN commands[t] : commands[t][n].to = to} IN
  IF listed = {} THEN "none"
  ELSE commands[t][CHOOSE n \in listed : \A m \in listed : m <= n].state

\* The commands read: one that failed fails the move, one still running leaves
\* it in the Arr's hands, else the title says.
FollowCommands(i) ==
  LET d == part[i].move
      state == LatestTo(decision[d].title, Target(d, run.direction))
  IN
  /\ part[i].pc = "following"
  /\ state # "running"
  /\ part' = [part EXCEPT ![i].pc = IF state = "ended" THEN "failed" ELSE "over"]
  /\ UNCHANGED <<db, lock, run, stop, syncVars, sim, dryRun, arrVars, history, bounds>>

\* The title read after its command, or unread and the commands polled again.
FollowTitle(i, answered) ==
  /\ part[i].pc = "over"
  /\ part' = [part EXCEPT ![i] =
                IF answered
                THEN [@ EXCEPT !.pc = "read", !.held = arr[decision[part[i].move].title]]
                ELSE [@ EXCEPT !.pc = "following"]]
  /\ UNCHANGED <<db, lock, run, stop, syncVars, sim, dryRun, arrVars, history, bounds>>

\* A stop asked, the Arr unread too long or its queue stuck: the move stays
\* requested and the run ends on this instance.
FollowStopped(i) ==
  /\ part[i].pc = "following"
  /\ run' = [run EXCEPT !.queue = QueueStopped(i), !.stopped = TRUE, !.done = TRUE]
  /\ part' = [part EXCEPT ![i] = [Ready EXCEPT !.begun = TRUE]]
  /\ UNCHANGED <<db, lock, stop, syncVars, sim, dryRun, arrVars, history, bounds>>

\* The title was read in its target (record_confirmed) or elsewhere
\* (record_failure, its row put where the Arr holds it).
RecordFollowed(i) ==
  LET d == part[i].move
      held == part[i].held
      made == held = Target(d, run.direction)
      t == decision[d].title
  IN
  /\ part[i].pc = "read"
  /\ decision' = IF made THEN Confirmed(d, run.direction) ELSE Failed(d, run.direction)
  /\ after' = IF made THEN after ELSE FailedStamps(d, run.direction)
  /\ IF made \/ held = None \/ row[t] = None
     THEN UNCHANGED <<row, kept, unseen>>
     ELSE MoveRow(t, held)
  /\ NextMove(i, IF made THEN "done" ELSE "failed")
  /\ UNCHANGED <<lock, stop, sync, sim, dryRun, arrVars, seen, overrun, bounds>>

\* A move refused, unanswered, or whose command failed (record_failure).
RecordFailure(i) ==
  LET d == part[i].move IN
  /\ part[i].pc = "failed"
  /\ decision' = Failed(d, run.direction)
  /\ after' = FailedStamps(d, run.direction)
  /\ NextMove(i, "failed")
  /\ UNCHANGED <<row, lock, stop, syncVars, sim, dryRun, arrVars, history, bounds>>

\* The record of an outcome failed: it is logged and the run goes on.
RecordLost(i) ==
  LET d == part[i].move IN
  /\ part[i].pc \in {"taken", "read", "failed"}
  /\ faults < MaxFaults
  /\ faults' = faults + 1
  /\ IF part[i].pc = "taken" /\ run.files
     THEN /\ part' = [part EXCEPT ![i].pc = "following"]
          /\ UNCHANGED run
     ELSE NextMove(i, IF \/ part[i].pc = "failed"
                         \/ /\ part[i].pc = "read"
                            /\ part[i].held # Target(d, run.direction)
                      THEN "failed" ELSE "done")
  /\ unseen' = unseen \cup {decision[d].title}
  /\ UNCHANGED <<db, lock, stop, syncVars, sim, dryRun, arrVars, seen, overrun,
                 runs, stops, hands>>

-----------------------------------------------------------------------------
(***************************************************************************)
(* The sync of one instance: the Arr is read, the rows written in one      *)
(* transaction, then the moves left requested are settled.                 *)
(***************************************************************************)

\* read_at is taken before the first request.
SyncBegin(i) ==
  /\ sync[i].pc = "idle"
  /\ sync' = [sync EXCEPT ![i].pc = "begun"]
  /\ kept' = kept \ TitlesOf(i)
  /\ UNCHANGED <<db, runVars, sim, dryRun, arrVars, history, bounds>>

SyncRead(i) ==
  /\ sync[i].pc = "begun"
  /\ sync' = [sync EXCEPT ![i].pc = "read",
                          ![i].snap = [t \in Titles |->
                             IF InstanceOf[t] = i THEN arr[t] ELSE None]]
  /\ UNCHANGED <<db, runVars, kept, sim, dryRun, arrVars, history, bounds>>

\* The Arr could not be read, or the rows could not be written.
SyncFail(i) ==
  /\ sync[i].pc \in {"begun", "read"}
  /\ sync' = [sync EXCEPT ![i] = NoSync]
  /\ kept' = kept \ TitlesOf(i)
  /\ UNCHANGED <<db, runVars, sim, dryRun, arrVars, history, bounds>>

\* The row of a listed title after the sync of its instance (upsert_media): a
\* path moved since read_at is kept.
SyncedWithoutMovedAt(t, folder) == folder
Synced(t, folder) == IF t \in kept THEN row[t] ELSE folder

\* The titles the Arr no longer lists lose their row and their proposals
\* (retire_media), unless the cleanup is skipped or held: an empty answer, most
\* of the library gone.
SyncWrite(i, cleanup) ==
  LET known == {t \in TitlesOf(i) : row[t] # None}
      gone == {t \in known : sync[i].snap[t] = None}
      retired == IF cleanup THEN gone ELSE {}
      written == [t \in Titles |->
                    IF t \in retired THEN None
                    ELSE IF t \in known \ gone THEN Synced(t, sync[i].snap[t])
                    ELSE row[t]]
  IN
  /\ sync[i].pc = "read"
  /\ cleanup => gone # {}
  /\ row' = written
  /\ decision' = Retired({d \in Decisions : decision[d].title \in retired})
  /\ unseen' = {t \in unseen : t \in TitlesOf(i) => written[t] # arr[t] \/ AnswerInHand(t)}
  /\ kept' = kept \ TitlesOf(i)
  /\ sync' = [sync EXCEPT ![i] = [NoSync EXCEPT !.pc = "written"]]
  /\ UNCHANGED <<after, runVars, sim, dryRun, arrVars, seen, overrun, bounds>>

\* The moves left requested on instance i, a title with no row any more included.
LeftRequested(i) ==
  {d \in Decisions : decision[d].status = "requested" /\ InstanceOfMove(d) = i}

\* settle_requested reads the rows before it tries the lock.
SettleRead(i) ==
  LET left == LeftRequested(i) IN
  /\ sync[i].pc = "written"
  /\ sync' = [sync EXCEPT ![i] =
                IF left = {} THEN NoSync
                ELSE [NoSync EXCEPT !.pc = "rows", !.rows = left,
                        !.back = {d \in left : decision[d].reverted}]]
  /\ UNCHANGED <<db, runVars, kept, sim, dryRun, arrVars, history, bounds>>

\* Mutant: a command that is over is taken for one that goes on.
EndedIsRunning(t) == IF commands[t] = <<>> THEN "none" ELSE "running"

\* The latest command listed for title t, whatever its destination.
LatestOf(t) ==
  IF commands[t] = <<>> THEN "none" ELSE commands[t][Len(commands[t])].state

SettleBesideARun(i) ==
  /\ sync[i].pc = "rows"
  /\ lock \in {"free", "run"}
  /\ lock' = "settle"
  /\ sync' = [sync EXCEPT ![i].pc = "settling",
                          ![i].running = {t \in TitlesOf(i) : LatestOf(t) = "running"},
                          ![i].ended = {t \in TitlesOf(i) : LatestOf(t) = "ended"}]
  /\ UNCHANGED <<db, run, part, stop, kept, sim, dryRun, arrVars, history, bounds>>

\* The lock taken and the commands read, once for every row.
SettleLock(i) ==
  /\ sync[i].pc = "rows"
  /\ lock = "free"
  /\ lock' = "settle"
  /\ sync' = [sync EXCEPT ![i].pc = "settling",
                          ![i].running = {t \in TitlesOf(i) : LatestOf(t) = "running"},
                          ![i].ended = {t \in TitlesOf(i) : LatestOf(t) = "ended"}]
  /\ UNCHANGED <<db, run, part, stop, kept, sim, dryRun, arrVars, history, bounds>>

\* The lock held by another, or the commands unread: left to the next sync.
SettleSkip(i) ==
  /\ sync[i].pc = "rows"
  /\ sync' = [sync EXCEPT ![i] = NoSync]
  /\ UNCHANGED <<db, runVars, kept, sim, dryRun, arrVars, history, bounds>>

SettleDirection(i, d) == IF d \in sync[i].back THEN "revert" ELSE "forward"

\* A row whose title has a move running is left, one whose latest command
\* failed or whose title has no row is failed, the others are read.
SettlePick(i, d) ==
  LET t == decision[d].title
      moving == t \in sync[i].running /\ row[t] # None
      undone == t \in sync[i].ended \/ row[t] = None
      left == [sync[i] EXCEPT !.rows = @ \ {d}]
  IN
  /\ sync[i].pc = "settling"
  /\ d \in sync[i].rows
  /\ IF ~moving /\ undone
     THEN /\ decision' = Failed(d, SettleDirection(i, d))
          /\ after' = FailedStamps(d, SettleDirection(i, d))
     ELSE UNCHANGED <<decision, after>>
  /\ sync' = [sync EXCEPT ![i] =
                IF moving \/ undone THEN left
                ELSE [left EXCEPT !.pc = "held", !.move = d, !.held = arr[t]]]
  /\ UNCHANGED <<row, runVars, kept, sim, dryRun, arrVars, history, bounds>>

\* The title could not be read, or the record failed.
SettleUnread(i) ==
  /\ sync[i].pc = "held"
  /\ sync' = [sync EXCEPT ![i] = [@ EXCEPT !.pc = "settling", !.move = None, !.held = None]]
  /\ UNCHANGED <<db, runVars, kept, sim, dryRun, arrVars, history, bounds>>

\* The title read in its target (record_confirmed), or elsewhere or gone
\* (record_failure, its row put where the Arr holds it).
SettleRecord(i) ==
  LET d == sync[i].move
      t == decision[d].title
      direction == SettleDirection(i, d)
      made == sync[i].held = Target(d, direction)
  IN
  /\ sync[i].pc = "held"
  /\ decision' = IF made THEN Confirmed(d, direction) ELSE Failed(d, direction)
  /\ after' = IF made THEN after ELSE FailedStamps(d, direction)
  /\ IF made \/ sync[i].held = None \/ row[t] = None
     THEN UNCHANGED <<row, unseen>>
     ELSE /\ row' = [row EXCEPT ![t] = sync[i].held]
          /\ unseen' = UnseenAfterRow(t, sync[i].held)
  /\ sync' = [sync EXCEPT ![i] = [@ EXCEPT !.pc = "settling", !.move = None, !.held = None]]
  /\ UNCHANGED <<runVars, kept, sim, dryRun, arrVars, seen, overrun, bounds>>

SettleEnd(i) ==
  /\ sync[i].pc = "settling"
  /\ sync[i].rows = {}
  /\ lock' = "free"
  /\ sync' = [sync EXCEPT ![i] = NoSync]
  /\ UNCHANGED <<db, run, part, stop, kept, sim, dryRun, arrVars, history, bounds>>

-----------------------------------------------------------------------------
(***************************************************************************)
(* The Arr (external).                                                     *)
(***************************************************************************)

\* The part of a run that waits for the answer to PUT p, if any still does.
WaitingFor(p) == {i \in Instances : part[i].pc = "sent" /\ PutOf(part[i].move) = p}

Answered(p, pc) ==
  [i \in Instances |-> IF i \in WaitingFor(p) THEN [part[i] EXCEPT !.pc = pc] ELSE part[i]]

\* The Arr holds the new path at once, and moves the files in a command.
ArrTake(p, answered) ==
  LET t == decision[p.move].title
      moved == [arr EXCEPT ![t] = p.to]
  IN
  /\ p \in puts
  /\ arr[t] # None
  /\ answered => WaitingFor(p) # {}
  /\ p.files => Len(commands[t]) < MaxListed
  /\ puts' = puts \ {p}
  /\ arr' = moved
  /\ commands' =
       IF p.files
       THEN [commands EXCEPT ![t] =
               Append(@, [by |-> p.move, from |-> arr[t], to |-> p.to, state |-> "running"])]
       ELSE commands
  /\ part' = Answered(p, IF answered THEN "taken" ELSE "unanswered")
  /\ unseen' = IF answered THEN unseen \ {t} ELSE unseen \cup {t}
  /\ seen' = Witnessed(decision, moved)
  /\ UNCHANGED <<db, lock, run, stop, syncVars, sim, dryRun, overrun, bounds>>

\* Refused, or lost on the way.
ArrDrop(p, answered) ==
  /\ p \in puts
  /\ answered => WaitingFor(p) # {}
  /\ puts' = puts \ {p}
  /\ part' = Answered(p, IF answered THEN "failed" ELSE "unanswered")
  /\ UNCHANGED <<db, lock, run, stop, syncVars, sim, dryRun, arr, commands, history, bounds>>

\* The n-th command on title t, the first one running, ends and leaves the
\* title where it is or puts it back.
CommandEnd(t, n, state, back) ==
  LET command == commands[t][n]
      moved == IF back /\ arr[t] # None THEN [arr EXCEPT ![t] = command.from] ELSE arr
  IN
  /\ command.state = "running"
  /\ \A m \in 1..(n - 1) : commands[t][m].state # "running"
  /\ commands' = [commands EXCEPT ![t] = [@ EXCEPT ![n] = [command EXCEPT !.state = state]]]
  /\ arr' = moved
  /\ unseen' = IF back THEN unseen \cup {t} ELSE unseen
  /\ seen' = Witnessed(decision, moved)
  /\ UNCHANGED <<db, runVars, syncVars, sim, dryRun, puts, overrun, bounds>>

\* A command ended some minutes ago is listed no more.
CommandForget(t) ==
  /\ commands[t] # <<>>
  /\ Head(commands[t]).state # "running"
  /\ commands' = [commands EXCEPT ![t] = Tail(@)]
  /\ UNCHANGED <<db, runVars, syncVars, sim, dryRun, arr, puts, history, bounds>>

\* The Arr's user moves a title, or deletes it.
HandMove(t, folder) ==
  LET moved == [arr EXCEPT ![t] = folder] IN
  /\ hands < MaxHand
  /\ arr[t] \notin {None, folder}
  /\ hands' = hands + 1
  /\ arr' = moved
  /\ unseen' = unseen \cup {t}
  /\ seen' = Witnessed(decision, moved)
  /\ UNCHANGED <<db, runVars, syncVars, sim, dryRun, commands, puts, overrun, runs, stops, faults>>

-----------------------------------------------------------------------------
\* The process dies: the locks, the runs, the syncs and the simulation in hand
\* are gone, the database and what was sent are not.
Crash ==
  /\ faults < MaxFaults
  /\ faults' = faults + 1
  /\ lock' = "free"
  /\ run' = NoRun
  /\ part' = [i \in Instances |-> Ready]
  /\ sync' = [i \in Instances |-> NoSync]
  /\ kept' = {}
  /\ sim' = {}
  /\ stop' = FALSE
  /\ overrun' = [i \in Instances |-> 0]
  /\ UNCHANGED <<db, dryRun, arrVars, seen, unseen, runs, stops, hands>>

Simulate ==
  \/ \E t \in Titles, to \in Folders : SimulationRead(t, to)
  \/ \E s \in sim, d \in Decisions : SimulationStored(s, d)

StartSome ==
  \E direction \in Directions, files \in FileMoves, sliced \in Slicing,
     ids \in SUBSET Decisions : StartRun(direction, files, sliced, ids)

Operator ==
  \/ StartSome
  \/ Cancel
  \/ \E on \in BOOLEAN : SetDryRun(on)

RunStep ==
  \/ StopSlices
  \/ LoadFailed
  \/ \E batch, stale, retired \in SUBSET Decisions : LoadSlice(batch, stale, retired)
  \/ FinishRun

PartStep(i) ==
  \/ FailBatch(i)
  \/ StopPart(i)
  \/ \E d \in Decisions, verdict \in {"send", "retire", "leave"} : CheckMove(i, d, verdict)
  \/ RequestMove(i)
  \/ RequestRefused(i)
  \/ AnswerTimedOut(i)
  \/ \E answered \in BOOLEAN : ReadBack(i, answered)
  \/ RecordSuccess(i)
  \/ RecordSent(i)
  \/ FollowCommands(i)
  \/ \E answered \in BOOLEAN : FollowTitle(i, answered)
  \/ FollowStopped(i)
  \/ RecordFollowed(i)
  \/ RecordFailure(i)
  \/ RecordLost(i)

SyncStep(i) ==
  \/ SyncBegin(i)
  \/ SyncRead(i)
  \/ SyncFail(i)
  \/ \E cleanup \in BOOLEAN : SyncWrite(i, cleanup)
  \/ SettleRead(i)
  \/ SettleLock(i)
  \/ SettleSkip(i)
  \/ \E d \in Decisions : SettlePick(i, d)
  \/ SettleUnread(i)
  \/ SettleRecord(i)
  \/ SettleEnd(i)

ArrStep ==
  \/ \E p \in puts, answered \in BOOLEAN : ArrTake(p, answered) \/ ArrDrop(p, answered)
  \/ \E t \in Titles, state \in {"completed", "ended"}, back \in BOOLEAN :
       \E n \in DOMAIN commands[t] : CommandEnd(t, n, state, back)
  \/ \E t \in Titles : CommandForget(t)
  \/ \E t \in Titles, folder \in Folder : HandMove(t, folder)

Next ==
  \/ Simulate
  \/ Operator
  \/ RunStep
  \/ \E i \in Instances : PartStep(i)
  \/ \E i \in Instances : SyncStep(i)
  \/ ArrStep
  \/ Crash

CommandEnds(t) ==
  \E state \in {"completed", "ended"}, back \in BOOLEAN :
    \E n \in DOMAIN commands[t] : CommandEnd(t, n, state, back)

Spec == Init /\ [][Next]_vars
-----------------------------------------------------------------------------
(***************************************************************************)
(* Fairness. A run and a sync go on by themselves, syncs are scheduled for *)
(* ever, the Arr ends its commands. The Arr answers infinitely often, and  *)
(* a sync meets the lock free infinitely often: each is retried at the     *)
(* next sync, so strong fairness on the retried step. A followed move is   *)
(* given up at last (UNREAD_ROUNDS, CEILING_ROUNDS).                       *)
(***************************************************************************)
FairSpec ==
  /\ Spec
  /\ WF_vars(RunStep)
  /\ \A i \in Instances :
       /\ WF_vars(PartStep(i))
       /\ SF_vars(FollowStopped(i))
       /\ WF_vars(SyncStep(i))
       /\ SF_vars(SyncRead(i))
       /\ SF_vars(\E cleanup \in BOOLEAN : SyncWrite(i, cleanup))
       /\ SF_vars(SettleLock(i))
       /\ SF_vars(SettleRecord(i))
  /\ \A t \in Titles : WF_vars(CommandEnds(t))

-----------------------------------------------------------------------------
(***************************************************************************)
(* Properties.                                                             *)
(***************************************************************************)

DbTyped ==
  /\ decision \in [Decisions -> DecisionRow]
  /\ after \in [Decisions -> SUBSET Decisions]
  /\ row \in [Titles -> Folder]

RunTyped ==
  /\ lock \in Owners
  /\ run \in Run
  /\ part \in [Instances -> Part]
  /\ stop \in BOOLEAN

SyncTyped ==
  /\ sync \in [Instances -> Sync]
  /\ kept \in SUBSET Titles

ArrTyped ==
  /\ arr \in [Titles -> Folder]
  /\ commands \in [Titles -> Seq(Command)]
  /\ puts \in SUBSET Put

HistoryTyped ==
  /\ seen \in [Decisions -> SUBSET Folders]
  /\ unseen \in SUBSET Titles
  /\ overrun \in [Instances -> Nat]

BoundsTyped == runs \in Nat /\ stops \in Nat /\ hands \in Nat /\ faults \in Nat

\* Every variable has its type: the shapes the rows, the runs, the syncs and the
\* Arr keep.
TypeOK ==
  /\ DbTyped
  /\ RunTyped
  /\ SyncTyped
  /\ sim \in SUBSET Simulation
  /\ dryRun \in BOOLEAN
  /\ ArrTyped
  /\ HistoryTyped
  /\ BoundsTyped

\* A title has one proposal standing at most, whatever runs, syncs and
\* simulations interleave (store_run supersedes before it stores).
OneStandingProposal ==
  \A d, e \in Decisions :
    Standing(d) /\ Standing(e) /\ decision[d].title = decision[e].title => d = e

\* What is written ahead: a PUT on its way, and a command the Arr lists, belong
\* to a decision recorded as sent, which a restart therefore finds.
WriteAhead ==
  /\ \A p \in puts : decision[p.move].status \notin {"absent", "pending"}
  /\ \A t \in Titles : \A n \in DOMAIN commands[t] :
       decision[commands[t][n].by].status \notin {"absent", "pending"}

\* A move a run has in hand stays "requested" until that run records its end:
\* no sync settles it meanwhile.
InHandIsRequested ==
  \A i \in Instances :
    part[i].pc \in {"sent", "unanswered", "taken", "following", "over", "read"} =>
      decision[part[i].move].status = "requested"

\* A move reported made was seen made: between the request and the report the
\* Arr held the title where the move was to put it.
SettledAsSeen ==
  \A d \in Decisions :
    /\ decision[d].status = "applied" => decision[d].to \in seen[d]
    /\ decision[d].status = "skipped" => decision[d].from \in seen[d]

\* The row of a title says where the Arr holds it, unless a move of it is on its
\* way or the Arr changed it unasked: a sync puts no older path back.
RowFollowsArr ==
  \A t \in Titles :
    row[t] \notin {None, arr[t]} /\ t \notin unseen =>
      \E d \in Decisions : decision[d].title = t /\ decision[d].status = "requested"

\* A revert in hand undoes the latest move of its title still in place.
RevertLatest ==
  \A i \in Instances :
    part[i].pc \in {"checked", "sent"} /\ run.direction = "revert" =>
      \A e \in after[part[i].move] :
        ~(decision[e].status = "applied" /\ ~decision[e].reverted)

\* Once a stop is asked each instance sends one move more at most, the one it
\* had checked already.
StopsBeforeNextMove == \A i \in Instances : overrun[i] <= 1

\* A move left "requested", by a stop, a crash or a lost record, is settled in
\* the end.
RequestedIsSettled ==
  \A d \in Decisions :
    decision[d].status = "requested" ~> decision[d].status # "requested"

\* follow.rs: a sync settles "the moves an apply left `requested`", and an apply
\* running "follows the moves it requested itself": a settle rewrites no
\* decision already settled.
SettlesWhatIsRequested ==
  [][\A d \in Decisions :
       lock = "settle" /\ decision[d].status \in {"applied", "failed", "skipped"} =>
         decision'[d].status = decision[d].status]_vars

\* follow.rs: a requested move "in its target with no move running is applied".
\* A settle that has not read the title fails no forward move whose title is in
\* its target, with no PUT on its way, when every command listed for it belongs
\* to another decision.
InTargetIsApplied ==
  [][\A d \in Decisions :
       LET t == decision[d].title IN
       /\ lock = "settle" /\ puts = {} /\ \A i \in Instances : sync[i].pc # "held"
       /\ decision[d].status = "requested" /\ ~decision[d].reverted
       /\ decision'[d].status = "failed"
       /\ row[t] # None
       /\ commands[t] # <<>> /\ \A n \in DOMAIN commands[t] : commands[t][n].by # d
       => arr[t] # decision[d].to]_vars
-----------------------------------------------------------------------------
(***************************************************************************)
(* The life of each decision, as MoveLifecycle tells it.                   *)
(***************************************************************************)

LifeOf(d) ==
  CASE decision[d].status = "absent" -> "none"
    [] decision[d].status = "pending" -> "proposed"
    [] decision[d].status = "requested" -> IF decision[d].reverted THEN "recalled" ELSE "sent"
    [] decision[d].status = "applied" -> "made"
    [] decision[d].status = "failed" -> "failed"
    [] decision[d].status = "skipped" -> "undone"

lives == [d \in Decisions |-> LifeOf(d)]

Life == INSTANCE MoveLifecycle WITH
  life <- lives, wire <- puts, Messages <- Put, MoveOf <- [p \in Put |-> p.move]

\* A decision is sent once at most, from the proposal it is, and called back only
\* when it was made; none failed or undone is sent again, through crashes, lost
\* answers and settles that read their rows too early; and a PUT leaves in the
\* step that records it.
LivesAsPromised == Life!Spec

=============================================================================
