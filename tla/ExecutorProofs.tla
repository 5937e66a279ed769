--------------------------- MODULE ExecutorProofs ---------------------------
(***************************************************************************)
(* The safety of the executor, for every number of instances, titles,      *)
(* folders and decisions, and for every bound: the inductive invariant Inv *)
(* and the properties it implies.                                          *)
(*                                                                         *)
(* The argument. The "apply" lock keeps runs and settling syncs apart      *)
(* (LockHeld), so a decision a run has in hand is written by nobody else;  *)
(* two parts of one run never have the same decision in hand, because each *)
(* works on the titles of its own instance (MovesKnown). The rows only     *)
(* advance: a decision stored keeps its title and its folders, none sent   *)
(* becomes a proposal again, and none superseded stands again (Advances).  *)
(*                                                                         *)
(* The second half is about what is reported of a move: each step of a     *)
(* part, a settle and a sync is said to know of the Arr what it has seen   *)
(* (SeenInv, RowInv), and the moves in hand what they were loaded with     *)
(* (LoadedInv, LatestInv, StopsInv).                                       *)
(*                                                                         *)
(* The end shows that Executor implements MoveLifecycle, from what a part  *)
(* that failed and a settle have in hand (LifeInv).                        *)
(***************************************************************************)
EXTENDS Executor, SequenceTheorems, TLAPS

-----------------------------------------------------------------------------
(* TypeOK is kept by every step. The types of a row, of a witness, of a    *)
(* command depend on what a decision in the table is: one about a title,   *)
(* from a folder to a folder (DecisionsKnown), the only kind a run, a part *)
(* and a sync ever have in hand (MovesKnown).                              *)

\* A decision stored moves a title from a folder to a folder.
DecisionsKnown ==
  \A d \in Decisions : decision[d].status # "absent" =>
    /\ decision[d].title \in Titles
    /\ decision[d].from \in Folders
    /\ decision[d].to \in Folders

Known(d) == d \in Decisions /\ decision[d].status # "absent"

\* The ids a run, a part and a sync hold are those of decisions stored, a part's
\* of its own instance.
MovesKnown ==
  /\ \A d \in run.todo \cup run.queue : Known(d)
  /\ \A i \in Instances :
       part[i].pc # "ready" =>
         Known(part[i].move) /\ InstanceOfMove(part[i].move) = i
  /\ \A i \in Instances :
       /\ \A d \in sync[i].rows : Known(d)
       /\ sync[i].pc = "held" => Known(sync[i].move)

-----------------------------------------------------------------------------
(***************************************************************************)
(* The records keep their types under the updates the actions make.        *)
(***************************************************************************)

LEMMA RowUpdates ==
  ASSUME NEW r \in DecisionRow, NEW s \in Statuses, NEW b \in BOOLEAN
  PROVE  /\ [r EXCEPT !.status = s] \in DecisionRow
         /\ [r EXCEPT !.superseded = b] \in DecisionRow
         /\ [r EXCEPT !.status = s, !.reverted = b] \in DecisionRow
BY DEF DecisionRow

LEMMA RunStopped ==
  ASSUME NEW r \in Run, NEW b \in BOOLEAN
  PROVE  [r EXCEPT !.stopped = b] \in Run
BY DEF Run

LEMMA RunDone ==
  ASSUME NEW r \in Run, NEW b \in BOOLEAN
  PROVE  [r EXCEPT !.done = b] \in Run
BY DEF Run

LEMMA RunFailed ==
  ASSUME NEW r \in Run, NEW b \in BOOLEAN
  PROVE  [r EXCEPT !.failed = b] \in Run
BY DEF Run

LEMMA RunQueue ==
  ASSUME NEW r \in Run, NEW queue \in SUBSET Decisions
  PROVE  [r EXCEPT !.queue = queue] \in Run
BY DEF Run

LEMMA RunQueueFailed ==
  ASSUME NEW r \in Run, NEW queue \in SUBSET Decisions, NEW b \in BOOLEAN
  PROVE  [r EXCEPT !.queue = queue, !.failed = b] \in Run
BY DEF Run

LEMMA RunQueueStopped ==
  ASSUME NEW r \in Run, NEW queue \in SUBSET Decisions, NEW b \in BOOLEAN
  PROVE  [r EXCEPT !.queue = queue, !.stopped = b] \in Run
BY DEF Run

LEMMA RunQueueDone ==
  ASSUME NEW r \in Run, NEW queue \in SUBSET Decisions,
         NEW b \in BOOLEAN, NEW c \in BOOLEAN
  PROVE  [r EXCEPT !.queue = queue, !.stopped = b, !.done = c] \in Run
BY DEF Run

LEMMA RunSlice ==
  ASSUME NEW r \in Run, NEW todo \in SUBSET Decisions,
         NEW queue \in SUBSET Decisions, NEW b \in BOOLEAN, NEW c \in BOOLEAN
  PROVE  [r EXCEPT !.todo = todo, !.queue = queue, !.done = b, !.failed = c] \in Run
BY DEF Run

LEMMA PartAt ==
  ASSUME NEW q \in Part, NEW pc \in PartPCs
  PROVE  [q EXCEPT !.pc = pc] \in Part
BY DEF Part

LEMMA PartBegun ==
  ASSUME NEW q \in Part, NEW b \in BOOLEAN
  PROVE  [q EXCEPT !.begun = b] \in Part
BY DEF Part

LEMMA PartHolds ==
  ASSUME NEW q \in Part, NEW pc \in PartPCs, NEW h \in Folder
  PROVE  [q EXCEPT !.pc = pc, !.held = h] \in Part
BY DEF Part

LEMMA PartTakes ==
  ASSUME NEW q \in Part, NEW pc \in PartPCs, NEW b \in BOOLEAN, NEW d \in Decisions
  PROVE  [q EXCEPT !.pc = pc, !.begun = b, !.move = d] \in Part
BY DEF Part

LEMMA SyncAt ==
  ASSUME NEW q \in Sync, NEW pc \in SyncPCs
  PROVE  [q EXCEPT !.pc = pc] \in Sync
BY DEF Sync

LEMMA SyncLeaves ==
  ASSUME NEW q \in Sync, NEW rows \in SUBSET Decisions
  PROVE  [q EXCEPT !.rows = rows] \in Sync
BY DEF Sync

LEMMA SyncSnaps ==
  ASSUME NEW q \in Sync, NEW pc \in SyncPCs, NEW snap \in [Titles -> Folder]
  PROVE  [q EXCEPT !.pc = pc, !.snap = snap] \in Sync
BY DEF Sync

LEMMA SyncTakesRows ==
  ASSUME NEW q \in Sync, NEW pc \in SyncPCs, NEW rows \in SUBSET Decisions,
         NEW back \in SUBSET Decisions
  PROVE  [q EXCEPT !.pc = pc, !.rows = rows, !.back = back] \in Sync
BY DEF Sync

LEMMA SyncReadsCommands ==
  ASSUME NEW q \in Sync, NEW pc \in SyncPCs, NEW running \in SUBSET Titles,
         NEW ended \in SUBSET Titles
  PROVE  [q EXCEPT !.pc = pc, !.running = running, !.ended = ended] \in Sync
BY DEF Sync

LEMMA SyncHolds ==
  ASSUME NEW q \in Sync, NEW pc \in SyncPCs, NEW d \in Decisions \cup {None},
         NEW h \in Folder
  PROVE  [q EXCEPT !.pc = pc, !.move = d, !.held = h] \in Sync
BY DEF Sync

LEMMA FirstRecords == NoRun \in Run /\ Ready \in Part /\ NoSync \in Sync
<1>1. NoRun \in Run
  BY DEF NoRun, Run, Directions
<1>2. Ready \in Part
  BY DEF Ready, Part, PartPCs, Folder
<1>3. NoSync \in Sync
  BY DEF NoSync, Sync, SyncPCs, Folder
<1> QED BY <1>1, <1>2, <1>3

-----------------------------------------------------------------------------
(***************************************************************************)
(* The tables after a write keep their types.                              *)
(***************************************************************************)

LEMMA RetiredType ==
  ASSUME DbTyped, NEW ids
  PROVE  Retired(ids) \in [Decisions -> DecisionRow]
<1>1. \A d \in Decisions : [decision[d] EXCEPT !.superseded = TRUE] \in DecisionRow
  BY RowUpdates DEF DbTyped, Statuses
<1> QED BY <1>1 DEF DbTyped, Retired

LEMMA RequestedType ==
  ASSUME DbTyped, NEW d \in Decisions, NEW direction
  PROVE  Requested(d, direction) \in [Decisions -> DecisionRow]
<1> DEFINE reverted == direction = "revert" \/ decision[d].reverted
<1>1. [decision[d] EXCEPT !.status = "requested", !.reverted = reverted] \in DecisionRow
  <2>1. reverted \in BOOLEAN
    OBVIOUS
  <2> QED BY <2>1, RowUpdates DEF DbTyped, Statuses
<1> QED BY <1>1 DEF DbTyped, Requested

LEMMA SettleProposalsSinceType ==
  ASSUME NEW d, NEW rows \in [Decisions -> DecisionRow]
  PROVE  SettleProposalsSince(d, rows) \in [Decisions -> DecisionRow]
<1>1. \A e \in Decisions : [rows[e] EXCEPT !.superseded = TRUE] \in DecisionRow
  BY RowUpdates DEF Statuses
<1> QED BY <1>1 DEF SettleProposalsSince

LEMMA MadeType ==
  ASSUME DbTyped, NEW d \in Decisions, NEW direction
  PROVE  Made(d, direction) \in [Decisions -> DecisionRow]
<1> DEFINE status == IF direction = "forward" THEN "applied" ELSE "skipped"
           reverted == direction = "revert" \/ decision[d].reverted
           rows == [decision EXCEPT ![d] =
                      [decision[d] EXCEPT !.status = status, !.reverted = reverted]]
<1>1. status \in Statuses /\ reverted \in BOOLEAN
  BY DEF Statuses
<1>2. [decision[d] EXCEPT !.status = status, !.reverted = reverted] \in DecisionRow
  BY <1>1, RowUpdates DEF DbTyped
<1>3. rows \in [Decisions -> DecisionRow]
  BY <1>2 DEF DbTyped
<1>4. Made(d, direction) = SettleProposalsSince(d, rows)
  BY DEF Made
<1> HIDE DEF rows
<1> QED BY <1>3, <1>4, SettleProposalsSinceType

LEMMA ConfirmedType ==
  ASSUME DbTyped, NEW d \in Decisions, NEW direction
  PROVE  Confirmed(d, direction) \in [Decisions -> DecisionRow]
<1> DEFINE status == IF direction = "forward" THEN "applied" ELSE "skipped"
           rows == [decision EXCEPT ![d] = [decision[d] EXCEPT !.status = status]]
<1>1. [decision[d] EXCEPT !.status = status] \in DecisionRow
  <2>1. status \in Statuses
    BY DEF Statuses
  <2> QED BY <2>1, RowUpdates DEF DbTyped
<1>2. rows \in [Decisions -> DecisionRow]
  BY <1>1 DEF DbTyped
<1>3. Confirmed(d, direction) =
        IF decision[d].status = "requested" THEN SettleProposalsSince(d, rows) ELSE decision
  BY DEF Confirmed
<1> HIDE DEF rows
<1> QED BY <1>2, <1>3, SettleProposalsSinceType DEF DbTyped

LEMMA FailedType ==
  ASSUME DbTyped, NEW d \in Decisions, NEW direction
  PROVE  Failed(d, direction) \in [Decisions -> DecisionRow]
<1>1. /\ [decision[d] EXCEPT !.status = "failed"] \in DecisionRow
      /\ [decision[d] EXCEPT !.status = "applied", !.reverted = FALSE] \in DecisionRow
  BY RowUpdates DEF DbTyped, Statuses
<1>2. CASE direction = "forward"
  BY <1>1, <1>2 DEF DbTyped, Failed
<1>3. CASE direction # "forward"
  BY <1>1, <1>3 DEF DbTyped, Failed
<1> QED BY <1>2, <1>3

LEMMA StampsType ==
  ASSUME DbTyped, NEW d \in Decisions, NEW direction
  PROVE  /\ Stamped(d) \in [Decisions -> SUBSET Decisions]
         /\ FailedStamps(d, direction) \in [Decisions -> SUBSET Decisions]
BY DEF DbTyped, Stamped, Unstamped, FailedStamps

\* A decision known sends its title from a folder to a folder.
LEMMA TargetType ==
  ASSUME DecisionsKnown, NEW d, Known(d), NEW direction
  PROVE  /\ Target(d, direction) \in Folders
         /\ decision[d].title \in Titles
BY DEF DecisionsKnown, Known, Target

LEMMA WitnessedType ==
  ASSUME HistoryTyped, NEW rows \in [Decisions -> DecisionRow], NEW folders,
         \A d \in Decisions : rows[d].status = "requested" =>
           rows[d].from \in Folders /\ rows[d].to \in Folders
  PROVE  Witnessed(rows, folders) \in [Decisions -> SUBSET Folders]
BY DEF HistoryTyped, Witnessed

LEMMA InitTypes == Init => TypeOK
<1> SUFFICES ASSUME Init PROVE TypeOK
  OBVIOUS
<1>1. DbTyped /\ ArrTyped
  BY DEF Init, DbTyped, ArrTyped, Absent, DecisionRow, Statuses, Folder
<1>2. RunTyped /\ SyncTyped
  BY FirstRecords DEF Init, RunTyped, SyncTyped, Owners
<1>3. HistoryTyped /\ BoundsTyped
  BY DEF Init, HistoryTyped, BoundsTyped
<1> QED BY <1>1, <1>2, <1>3 DEF Init, TypeOK

-----------------------------------------------------------------------------
(***************************************************************************)
(* TypeOK is preserved, one lemma per actor. A leaf first types what the   *)
(* action changes; the rest is as it was.                                  *)
(***************************************************************************)

LEMMA SimulationTypes ==
  ASSUME TypeOK, Simulate
  PROVE  TypeOK'
<1> USE DEF db, runVars, syncVars, arrVars, history, bounds
<1>1. ASSUME NEW t \in Titles, NEW to \in Folders, SimulationRead(t, to)
      PROVE  TypeOK'
  <2>1. (sim \in SUBSET Simulation)'
    BY <1>1 DEF SimulationRead, TypeOK, DbTyped, Folder, Simulation
  <2> QED
    BY <1>1, <2>1 DEF SimulationRead, TypeOK, DbTyped, RunTyped, SyncTyped, ArrTyped,
                      HistoryTyped, BoundsTyped
<1>2. ASSUME NEW s \in sim, NEW d \in Decisions, SimulationStored(s, d)
      PROVE  TypeOK'
  <2>1. Proposal(s) \in DecisionRow
    BY DEF TypeOK, Simulation, Proposal, DecisionRow, Statuses, Folder
  <2>2. Superseded(s.title) \in [Decisions -> DecisionRow]
    BY RetiredType DEF TypeOK, Superseded
  <2>3. DbTyped'
    BY <1>2, <2>1, <2>2 DEF SimulationStored, TypeOK, DbTyped
  <2> QED
    BY <1>2, <2>3 DEF SimulationStored, TypeOK, RunTyped, SyncTyped, ArrTyped,
                      HistoryTyped, BoundsTyped
<1> QED BY <1>1, <1>2 DEF Simulate

LEMMA OperatorTypes ==
  ASSUME TypeOK, Operator
  PROVE  TypeOK'
<1> USE DEF db, runVars, syncVars, arrVars, history, bounds
<1>1. ASSUME NEW direction \in Directions, NEW files \in FileMoves,
             NEW sliced \in Slicing, NEW ids \in SUBSET Decisions,
             StartRun(direction, files, sliced, ids)
      PROVE  TypeOK'
  <2>1. files \in BOOLEAN /\ sliced \in BOOLEAN
    BY ConstantsAssumption DEF ConstantsAssumption
  <2>2. [NoRun EXCEPT !.direction = direction, !.files = files, !.sliced = sliced,
                      !.todo = ids] \in Run
    BY <2>1 DEF NoRun, Run
  <2>3. RunTyped'
    BY <1>1, <2>2, FirstRecords DEF StartRun, TypeOK, RunTyped, Owners
  <2>4. HistoryTyped' /\ BoundsTyped'
    BY <1>1 DEF StartRun, TypeOK, HistoryTyped, BoundsTyped
  <2> QED
    BY <1>1, <2>3, <2>4 DEF StartRun, TypeOK, DbTyped, SyncTyped, ArrTyped
<1>2. CASE Cancel
  <2>1. RunTyped'
    BY <1>2 DEF Cancel, TypeOK, RunTyped
  <2>2. HistoryTyped' /\ BoundsTyped'
    BY <1>2 DEF Cancel, TypeOK, HistoryTyped, BoundsTyped
  <2> QED
    BY <1>2, <2>1, <2>2 DEF Cancel, TypeOK, DbTyped, SyncTyped, ArrTyped
<1>3. ASSUME NEW on \in BOOLEAN, SetDryRun(on)
      PROVE  TypeOK'
  <2>1. (dryRun \in BOOLEAN)'
    BY <1>3 DEF SetDryRun
  <2>2. HistoryTyped' /\ BoundsTyped'
    BY <1>3 DEF SetDryRun, TypeOK, HistoryTyped, BoundsTyped
  <2> QED
    BY <1>3, <2>1, <2>2 DEF SetDryRun, TypeOK, DbTyped, RunTyped, SyncTyped, ArrTyped
<1> QED BY <1>1, <1>2, <1>3 DEF Operator, StartSome

LEMMA RunStepTypes ==
  ASSUME TypeOK, RunStep
  PROVE  TypeOK'
<1> USE DEF db, runVars, syncVars, arrVars, history, bounds
<1>1. CASE StopSlices
  <2>1. RunTyped'
    BY <1>1, RunStopped DEF StopSlices, TypeOK, RunTyped
  <2> QED
    BY <1>1, <2>1 DEF StopSlices, TypeOK, DbTyped, SyncTyped, ArrTyped, HistoryTyped,
                      BoundsTyped
<1>2. CASE LoadFailed
  <2>1. RunTyped'
    BY <1>2, RunStopped DEF LoadFailed, TypeOK, RunTyped
  <2>2. BoundsTyped'
    BY <1>2 DEF LoadFailed, TypeOK, BoundsTyped
  <2> QED
    BY <1>2, <2>1, <2>2 DEF LoadFailed, TypeOK, DbTyped, SyncTyped, ArrTyped, HistoryTyped
<1>3. ASSUME NEW batch \in SUBSET Decisions, NEW stale \in SUBSET Decisions,
             NEW retired \in SUBSET Decisions, LoadSlice(batch, stale, retired)
      PROVE  TypeOK'
  <2>1. CurrentProposals(batch) \subseteq Decisions
    BY DEF CurrentProposals
  <2>2. PICK queue \in SUBSET Decisions :
          run' = [run EXCEPT !.todo = run.todo \ batch, !.queue = queue,
                             !.done = FALSE, !.failed = FALSE]
    <3> DEFINE current == IF run.direction = "forward" THEN CurrentProposals(batch) ELSE batch
               queue == {d \in current : Movable(d, run.direction)} \ stale
    <3>1. queue \in SUBSET Decisions
      BY <2>1
    <3>2. run' = [run EXCEPT !.todo = run.todo \ batch, !.queue = queue,
                             !.done = FALSE, !.failed = FALSE]
      BY <1>3 DEF LoadSlice
    <3> QED BY <3>1, <3>2
  <2>3. run.todo \ batch \in SUBSET Decisions
    BY DEF TypeOK, RunTyped, Run
  <2>4. RunTyped'
    <3>1. run' \in Run
      <4>1. run \in Run
        BY DEF TypeOK, RunTyped
      <4> QED BY <2>2, <2>3, <4>1, RunSlice
    <3>2. lock' = lock /\ stop' = stop /\ part' = [i \in Instances |-> Ready]
      BY <1>3 DEF LoadSlice
    <3> QED
      BY <3>1, <3>2, FirstRecords DEF TypeOK, RunTyped
  <2>5. DbTyped'
    BY <1>3, RetiredType DEF LoadSlice, TypeOK, DbTyped
  <2> QED
    BY <1>3, <2>4, <2>5 DEF LoadSlice, TypeOK, SyncTyped, ArrTyped, HistoryTyped,
                            BoundsTyped
<1>4. CASE FinishRun
  <2>1. RunTyped'
    BY <1>4, FirstRecords DEF FinishRun, TypeOK, RunTyped, Owners
  <2>2. HistoryTyped'
    BY <1>4 DEF FinishRun, TypeOK, HistoryTyped
  <2> QED
    BY <1>4, <2>1, <2>2 DEF FinishRun, TypeOK, DbTyped, SyncTyped, ArrTyped, BoundsTyped
<1> QED BY <1>1, <1>2, <1>3, <1>4 DEF RunStep

\* What a part of a run has in hand is a move known, of its own instance.
LEMMA InHand ==
  ASSUME TypeOK, DecisionsKnown, MovesKnown, NEW i \in Instances, part[i].pc # "ready"
  PROVE  /\ part[i].move \in Decisions
         /\ decision[part[i].move].status # "absent"
         /\ decision[part[i].move].title \in Titles
         /\ InstanceOfMove(part[i].move) = i
         /\ Target(part[i].move, run.direction) \in Folders
<1>1. Known(part[i].move) /\ InstanceOfMove(part[i].move) = i
  BY DEF MovesKnown
<1> QED BY <1>1, TargetType DEF Known

\* The other parts are as they were when one moves on.
LEMMA PartTyped ==
  ASSUME RunTyped, NEW i \in Instances, NEW q \in Part
  PROVE  [part EXCEPT ![i] = q] \in [Instances -> Part]
BY DEF RunTyped

LEMMA NextMoveTyped ==
  ASSUME RunTyped, NEW i \in Instances, NEW outcome, NextMove(i, outcome)
  PROVE  part' \in [Instances -> Part] /\ run' \in Run
<1>1. [Ready EXCEPT !.begun = TRUE] \in Part
  BY FirstRecords, PartBegun
<1>2. part' \in [Instances -> Part]
  BY <1>1, PartTyped DEF NextMove
<1>3. run' \in Run
  BY RunDone, RunFailed DEF NextMove, RunTyped
<1> QED BY <1>2, <1>3

LEMMA MoveRowTyped ==
  ASSUME DbTyped, SyncTyped, HistoryTyped, NEW t \in Titles, NEW folder \in Folder,
         MoveRow(t, folder)
  PROVE  /\ row' \in [Titles -> Folder]
         /\ kept' \in SUBSET Titles
         /\ unseen' \in SUBSET Titles
<1>1. row' \in [Titles -> Folder]
  BY DEF MoveRow, DbTyped
<1>2. kept' \in SUBSET Titles
  BY DEF MoveRow, Keep, SyncTyped
<1>3. unseen' \in SUBSET Titles
  BY DEF MoveRow, UnseenAfterRow, HistoryTyped
<1> QED BY <1>1, <1>2, <1>3

\* The folder every requested decision aims at is a folder.
LEMMA GoalsKnown ==
  ASSUME DecisionsKnown
  PROVE  \A d \in Decisions : decision[d].status = "requested" =>
           decision[d].from \in Folders /\ decision[d].to \in Folders
BY DEF DecisionsKnown

\* A part goes from one step to the next and touches nothing else.
LEMMA PartMovesOn ==
  ASSUME TypeOK, NEW i \in Instances, NEW q \in Part, part' = [part EXCEPT ![i] = q],
         UNCHANGED <<db, lock, run, stop, syncVars, sim, dryRun, arrVars, history>>,
         BoundsTyped'
  PROVE  TypeOK'
<1>1. RunTyped'
  BY PartTyped DEF TypeOK, RunTyped
<1> QED
  BY <1>1 DEF TypeOK, DbTyped, SyncTyped, ArrTyped, HistoryTyped, db, syncVars,
              arrVars, history

LEMMA PartBeginsTypes ==
  ASSUME TypeOK, DecisionsKnown, MovesKnown, NEW i \in Instances,
         \/ FailBatch(i)
         \/ StopPart(i)
         \/ \E d \in Decisions, verdict \in {"send", "retire", "leave"} :
              CheckMove(i, d, verdict)
  PROVE  TypeOK'
<1> USE DEF db, runVars, syncVars, arrVars, history, bounds
<1>1. run.queue \in SUBSET Decisions /\ run \in Run /\ part[i] \in Part
  BY DEF TypeOK, RunTyped, Run
<1>2. CASE FailBatch(i)
  <2>1. \A d \in Decisions : Failed(d, run.direction)[d] \in DecisionRow
    BY FailedType DEF TypeOK
  <2>2. DbTyped'
    <3>1. decision' \in [Decisions -> DecisionRow]
      BY <1>2, <2>1 DEF FailBatch, TypeOK, DbTyped
    <3>2. after' \in [Decisions -> SUBSET Decisions]
      BY <1>2 DEF FailBatch, TypeOK, DbTyped
    <3> QED BY <1>2, <3>1, <3>2 DEF FailBatch, TypeOK, DbTyped
  <2>3. RunTyped'
    <3>1. run' \in Run
      <4>1. run' = [run EXCEPT !.queue = run.queue \ QueueOf(i), !.failed = TRUE]
        BY <1>2 DEF FailBatch
      <4>2. run.queue \ QueueOf(i) \in SUBSET Decisions
        BY <1>1
      <4> QED BY <1>1, <4>1, <4>2, RunQueueFailed
    <3> QED BY <1>2, <3>1 DEF FailBatch, TypeOK, RunTyped
  <2> QED
    BY <1>2, <2>2, <2>3 DEF FailBatch, TypeOK, SyncTyped, ArrTyped, HistoryTyped,
                            BoundsTyped
<1>3. CASE StopPart(i)
  <2>1. run' \in Run
    <3>1. QueueStopped(i) \in SUBSET Decisions
      BY <1>1 DEF QueueStopped
    <3> QED BY <1>1, <1>3, <3>1, RunQueueStopped DEF StopPart
  <2>2. RunTyped'
    BY <1>3, <2>1 DEF StopPart, TypeOK, RunTyped
  <2> QED
    BY <1>3, <2>2 DEF StopPart, TypeOK, DbTyped, SyncTyped, ArrTyped, HistoryTyped,
                      BoundsTyped
<1>4. ASSUME NEW d \in Decisions, NEW verdict \in {"send", "retire", "leave"},
             CheckMove(i, d, verdict)
      PROVE  TypeOK'
  <2> DEFINE moves == Revalidated(i, d)
             move == CHOOSE e \in moves : TRUE
             ended == [part[i] EXCEPT !.begun = TRUE]
             checked == [part[i] EXCEPT !.pc = "checked", !.begun = TRUE, !.move = move]
  <2>1. moves \subseteq Decisions
    <3>1. CurrentProposals({d}) \subseteq Decisions
      BY DEF CurrentProposals
    <3>2. {e \in CurrentProposals({d}) : Loadable(e)} \subseteq Decisions
      BY <3>1
    <3>3. {e \in {d} : Revertible(e)} \subseteq Decisions
      OBVIOUS
    <3> QED BY <3>2, <3>3 DEF Revalidated
  <2>2. ended \in Part
    BY <1>1, PartBegun
  <2>3. moves # {} => checked \in Part
    <3>1. moves # {} => move \in moves
      OBVIOUS
    <3>2. moves # {} => move \in Decisions
      BY <2>1, <3>1
    <3> HIDE DEF moves, move
    <3> QED BY <1>1, <3>2, PartTakes DEF PartPCs
  <2>4. part' = [part EXCEPT ![i] = IF verdict # "send" \/ moves = {} THEN ended
                                    ELSE checked]
    BY <1>4 DEF CheckMove
  <2>5. run' \in Run
    <3>1. run' = [run EXCEPT !.queue = run.queue \ {d}]
      BY <1>4 DEF CheckMove
    <3>2. run.queue \ {d} \in SUBSET Decisions
      BY <1>1
    <3> QED BY <1>1, <3>1, <3>2, RunQueue
  <2> HIDE DEF moves, move, ended, checked
  <2>6. part' \in [Instances -> Part]
    BY <2>2, <2>3, <2>4, PartTyped DEF TypeOK
  <2>7. DbTyped'
    BY <1>4, RetiredType DEF CheckMove, TypeOK, DbTyped
  <2> QED
    BY <1>4, <2>5, <2>6, <2>7 DEF CheckMove, TypeOK, RunTyped, SyncTyped, ArrTyped,
                                  HistoryTyped, BoundsTyped
<1> QED BY <1>2, <1>3, <1>4

LEMMA PartSendsTypes ==
  ASSUME TypeOK, DecisionsKnown, MovesKnown, NEW i \in Instances,
         \/ RequestMove(i)
         \/ RequestRefused(i)
         \/ AnswerTimedOut(i)
         \/ \E answered \in BOOLEAN : ReadBack(i, answered)
  PROVE  TypeOK'
<1> USE DEF db, runVars, syncVars, arrVars, history, bounds
<1> DEFINE q(pc) == [part[i] EXCEPT !.pc = pc]
<1>1. \A pc \in PartPCs : q(pc) \in Part
  <2>1. part[i] \in Part
    BY DEF TypeOK, RunTyped
  <2> SUFFICES ASSUME NEW pc \in PartPCs PROVE q(pc) \in Part
    OBVIOUS
  <2> QED BY <2>1, PartAt
<1>2. CASE RequestMove(i)
  <2> DEFINE d == part[i].move
             rows == Requested(d, run.direction)
  <2>1. /\ d \in Decisions
        /\ decision[d].status # "absent"
        /\ decision[d].title \in Titles
        /\ Target(d, run.direction) \in Folders
    BY <1>2, InHand DEF RequestMove
  <2>2. rows \in [Decisions -> DecisionRow]
    BY <2>1, RequestedType DEF TypeOK
  <2>3. DbTyped'
    BY <1>2, <2>1, <2>2, StampsType DEF RequestMove, TypeOK, DbTyped
  <2>4. RunTyped'
    <3>1. part' = [part EXCEPT ![i] = q("sent")]
      BY <1>2 DEF RequestMove
    <3>2. "sent" \in PartPCs
      BY DEF PartPCs
    <3> HIDE DEF q
    <3>3. part' \in [Instances -> Part]
      BY <1>1, <3>1, <3>2, PartTyped DEF TypeOK
    <3> QED BY <1>2, <3>3 DEF RequestMove, TypeOK, RunTyped
  <2>5. ArrTyped'
    <3>1. PutOf(d) \in Put
      BY <2>1 DEF PutOf, Put, TypeOK, RunTyped, Run
    <3> QED BY <1>2, <3>1 DEF RequestMove, TypeOK, ArrTyped
  <2>6. HistoryTyped'
    <3>1. \A e \in Decisions : rows[e].status = "requested" =>
             rows[e].from \in Folders /\ rows[e].to \in Folders
      <4>1. \A e \in Decisions : /\ rows[e].from = decision[e].from
                                 /\ rows[e].to = decision[e].to
                                 /\ e # d => rows[e] = decision[e]
        BY <2>1 DEF Requested, TypeOK, DbTyped, DecisionRow
      <4> QED BY <2>1, <4>1 DEF DecisionsKnown
    <3>2. Witnessed(rows, arr) \in [Decisions -> SUBSET Folders]
      BY <2>2, <3>1, WitnessedType DEF TypeOK
    <3>3. seen' \in [Decisions -> SUBSET Folders]
      <4>1. seen' = [Witnessed(rows, arr) EXCEPT
                ![d] = IF arr[decision[d].title] = Target(d, run.direction)
                       THEN seen[d] \cup {Target(d, run.direction)}
                       ELSE seen[d] \ {Target(d, run.direction)}]
        BY <1>2 DEF RequestMove
      <4>2. seen[d] \in SUBSET Folders
        BY <2>1 DEF TypeOK, HistoryTyped
      <4> HIDE DEF d, rows
      <4> QED BY <2>1, <3>2, <4>1, <4>2
    <3>4. overrun' \in [Instances -> Nat]
      BY <1>2 DEF RequestMove, TypeOK, HistoryTyped
    <3> QED BY <1>2, <3>3, <3>4 DEF RequestMove, TypeOK, HistoryTyped
  <2> QED
    BY <1>2, <2>3, <2>4, <2>5, <2>6 DEF RequestMove, TypeOK, SyncTyped, BoundsTyped
<1>3. CASE RequestRefused(i)
  <2>1. part' = [part EXCEPT ![i] = q("failed")] /\ q("failed") \in Part
    BY <1>1, <1>3 DEF RequestRefused, PartPCs
  <2>2. BoundsTyped'
    BY <1>3 DEF RequestRefused, TypeOK, BoundsTyped
  <2> HIDE DEF q
  <2> QED BY <1>3, <2>1, <2>2, PartMovesOn DEF RequestRefused
<1>4. CASE AnswerTimedOut(i)
  <2>1. part' = [part EXCEPT ![i] = q("unanswered")] /\ q("unanswered") \in Part
    BY <1>1, <1>4 DEF AnswerTimedOut, PartPCs
  <2>2. BoundsTyped'
    BY <1>4 DEF AnswerTimedOut, TypeOK, BoundsTyped
  <2> HIDE DEF q
  <2> QED BY <1>4, <2>1, <2>2, PartMovesOn DEF AnswerTimedOut
<1>5. ASSUME NEW answered \in BOOLEAN, ReadBack(i, answered)
      PROVE  TypeOK'
  <2>1. PICK pc \in PartPCs : part' = [part EXCEPT ![i] = q(pc)]
    BY <1>5 DEF ReadBack, PartPCs
  <2>2. q(pc) \in Part
    BY <1>1
  <2>3. BoundsTyped'
    BY <1>5 DEF ReadBack, TypeOK, BoundsTyped
  <2> HIDE DEF q
  <2> QED BY <1>5, <2>1, <2>2, <2>3, PartMovesOn DEF ReadBack
<1> QED BY <1>2, <1>3, <1>4, <1>5

LEMMA PartFollowsTypes ==
  ASSUME TypeOK, DecisionsKnown, MovesKnown, NEW i \in Instances,
         \/ RecordSent(i)
         \/ FollowCommands(i)
         \/ \E answered \in BOOLEAN : FollowTitle(i, answered)
         \/ FollowStopped(i)
  PROVE  TypeOK'
<1> USE DEF db, runVars, syncVars, arrVars, history, bounds
<1> DEFINE q(pc) == [part[i] EXCEPT !.pc = pc]
<1>1. \A pc \in PartPCs : q(pc) \in Part
  <2>1. part[i] \in Part
    BY DEF TypeOK, RunTyped
  <2> SUFFICES ASSUME NEW pc \in PartPCs PROVE q(pc) \in Part
    OBVIOUS
  <2> QED BY <2>1, PartAt
<1>2. CASE RecordSent(i)
  <2> DEFINE t == decision[part[i].move].title
             folder == Target(part[i].move, run.direction)
  <2>1. t \in Titles /\ folder \in Folder
    BY <1>2, InHand DEF RecordSent, Folder
  <2>2. /\ row' \in [Titles -> Folder]
        /\ kept' \in SUBSET Titles
        /\ unseen' \in SUBSET Titles
    <3>1. CASE row[t] = None
      BY <1>2, <3>1 DEF RecordSent, TypeOK, DbTyped, SyncTyped, HistoryTyped
    <3>2. CASE row[t] # None
      <4>1. MoveRow(t, folder)
        BY <1>2, <3>2 DEF RecordSent
      <4> HIDE DEF t, folder
      <4> QED BY <2>1, <4>1, MoveRowTyped DEF TypeOK
    <3> QED BY <3>1, <3>2
  <2>3. part' \in [Instances -> Part]
    <3>1. part' = [part EXCEPT ![i] = q("following")] /\ q("following") \in Part
      BY <1>1, <1>2 DEF RecordSent, PartPCs
    <3> HIDE DEF q
    <3> QED BY <3>1, PartTyped DEF TypeOK
  <2> QED
    BY <1>2, <2>2, <2>3 DEF RecordSent, TypeOK, DbTyped, RunTyped, SyncTyped, ArrTyped,
                            HistoryTyped, BoundsTyped
<1>3. CASE FollowCommands(i)
  <2>1. PICK pc \in PartPCs : part' = [part EXCEPT ![i] = q(pc)]
    BY <1>3 DEF FollowCommands, PartPCs
  <2>2. q(pc) \in Part
    BY <1>1
  <2>3. BoundsTyped'
    BY <1>3 DEF FollowCommands, TypeOK, BoundsTyped
  <2> HIDE DEF q
  <2> QED BY <1>3, <2>1, <2>2, <2>3, PartMovesOn DEF FollowCommands
<1>4. ASSUME NEW answered \in BOOLEAN, FollowTitle(i, answered)
      PROVE  TypeOK'
  <2> DEFINE held == arr[decision[part[i].move].title]
             read == [part[i] EXCEPT !.pc = "read", !.held = held]
  <2>1. decision[part[i].move].title \in Titles
    BY <1>4, InHand DEF FollowTitle
  <2>2. held \in Folder /\ part[i] \in Part
    BY <2>1 DEF TypeOK, ArrTyped, RunTyped
  <2>3. read \in Part
    <3>1. "read" \in PartPCs
      BY DEF PartPCs
    <3> HIDE DEF held
    <3> QED BY <2>2, <3>1, PartHolds
  <2>4. part' = [part EXCEPT ![i] = IF answered THEN read ELSE q("following")]
    BY <1>4 DEF FollowTitle
  <2>5. q("following") \in Part
    BY <1>1 DEF PartPCs
  <2>6. BoundsTyped'
    BY <1>4 DEF FollowTitle, TypeOK, BoundsTyped
  <2> HIDE DEF q, read
  <2> QED BY <1>4, <2>3, <2>4, <2>5, <2>6, PartMovesOn DEF FollowTitle
<1>5. CASE FollowStopped(i)
  <2>1. run' \in Run
    <3>1. QueueStopped(i) \in SUBSET Decisions
      BY DEF QueueStopped, TypeOK, RunTyped, Run
    <3>2. run \in Run
      BY DEF TypeOK, RunTyped
    <3> QED BY <1>5, <3>1, <3>2, RunQueueDone DEF FollowStopped
  <2>2. part' \in [Instances -> Part]
    <3>1. [Ready EXCEPT !.begun = TRUE] \in Part
      BY FirstRecords, PartBegun
    <3> QED BY <1>5, <3>1, PartTyped DEF FollowStopped, TypeOK
  <2> QED
    BY <1>5, <2>1, <2>2 DEF FollowStopped, TypeOK, DbTyped, RunTyped, SyncTyped,
                            ArrTyped, HistoryTyped, BoundsTyped
<1> QED BY <1>2, <1>3, <1>4, <1>5

LEMMA PartRecordsTypes ==
  ASSUME TypeOK, DecisionsKnown, MovesKnown, NEW i \in Instances,
         \/ RecordSuccess(i)
         \/ RecordFollowed(i)
         \/ RecordFailure(i)
         \/ RecordLost(i)
  PROVE  TypeOK'
<1> USE DEF db, runVars, syncVars, arrVars, history, bounds
<1> DEFINE d == part[i].move
           t == decision[d].title
           folder == Target(d, run.direction)
<1>1. d \in Decisions /\ t \in Titles /\ folder \in Folder
  BY InHand DEF RecordSuccess, RecordFollowed, RecordFailure, RecordLost, Folder
<1>2. CASE RecordSuccess(i)
  <2>1. decision' \in [Decisions -> DecisionRow]
    BY <1>1, <1>2, MadeType DEF RecordSuccess, TypeOK
  <2>2. after' \in [Decisions -> SUBSET Decisions]
    BY <1>1, <1>2, StampsType DEF RecordSuccess, TypeOK, DbTyped
  <2>3. /\ row' \in [Titles -> Folder]
        /\ kept' \in SUBSET Titles
        /\ unseen' \in SUBSET Titles
    <3>1. CASE row[t] = None
      BY <1>2, <3>1 DEF RecordSuccess, TypeOK, DbTyped, SyncTyped, HistoryTyped
    <3>2. CASE row[t] # None
      <4>1. MoveRow(t, folder)
        BY <1>2, <3>2 DEF RecordSuccess
      <4> HIDE DEF t, folder
      <4> QED BY <1>1, <4>1, MoveRowTyped DEF TypeOK
    <3> QED BY <3>1, <3>2
  <2>4. part' \in [Instances -> Part] /\ run' \in Run
    BY <1>2, NextMoveTyped DEF RecordSuccess, TypeOK
  <2> QED
    BY <1>2, <2>1, <2>2, <2>3, <2>4 DEF RecordSuccess, TypeOK, DbTyped, RunTyped,
                                        SyncTyped, ArrTyped, HistoryTyped, BoundsTyped
<1>3. CASE RecordFollowed(i)
  <2> DEFINE made == part[i].held = folder
  <2>1. decision' \in [Decisions -> DecisionRow]
    <3>1. \/ decision' = Confirmed(d, run.direction)
          \/ decision' = Failed(d, run.direction)
      BY <1>3 DEF RecordFollowed
    <3> QED BY <1>1, <3>1, ConfirmedType, FailedType DEF TypeOK
  <2>2. after' \in [Decisions -> SUBSET Decisions]
    <3>1. after' = after \/ after' = FailedStamps(d, run.direction)
      BY <1>3 DEF RecordFollowed
    <3> QED BY <1>1, <3>1, StampsType DEF TypeOK, DbTyped
  <2>3. /\ row' \in [Titles -> Folder]
        /\ kept' \in SUBSET Titles
        /\ unseen' \in SUBSET Titles
    <3>1. part[i].held \in Folder
      BY DEF TypeOK, RunTyped, Part
    <3>2. \/ UNCHANGED <<row, kept, unseen>>
          \/ MoveRow(t, part[i].held)
      BY <1>3 DEF RecordFollowed
    <3>3. CASE UNCHANGED <<row, kept, unseen>>
      BY <3>3 DEF TypeOK, DbTyped, SyncTyped, HistoryTyped
    <3>4. CASE MoveRow(t, part[i].held)
      <4> HIDE DEF t
      <4> QED BY <1>1, <3>1, <3>4, MoveRowTyped DEF TypeOK
    <3> QED BY <3>2, <3>3, <3>4
  <2>4. part' \in [Instances -> Part] /\ run' \in Run
    <3>1. PICK outcome : NextMove(i, outcome)
      BY <1>3 DEF RecordFollowed
    <3> QED BY <3>1, NextMoveTyped DEF TypeOK
  <2> QED
    BY <1>3, <2>1, <2>2, <2>3, <2>4 DEF RecordFollowed, TypeOK, DbTyped, RunTyped,
                                        SyncTyped, ArrTyped, HistoryTyped, BoundsTyped
<1>4. CASE RecordFailure(i)
  <2>1. decision' \in [Decisions -> DecisionRow]
    BY <1>1, <1>4, FailedType DEF RecordFailure, TypeOK
  <2>2. after' \in [Decisions -> SUBSET Decisions]
    BY <1>1, <1>4, StampsType DEF RecordFailure, TypeOK
  <2>3. part' \in [Instances -> Part] /\ run' \in Run
    BY <1>4, NextMoveTyped DEF RecordFailure, TypeOK
  <2> QED
    BY <1>4, <2>1, <2>2, <2>3 DEF RecordFailure, TypeOK, DbTyped, RunTyped, SyncTyped,
                                  ArrTyped, HistoryTyped, BoundsTyped
<1>5. CASE RecordLost(i)
  <2>1. part' \in [Instances -> Part] /\ run' \in Run
    <3>1. CASE part[i].pc = "taken" /\ run.files
      <4> DEFINE q == [part[i] EXCEPT !.pc = "following"]
      <4>1. part[i] \in Part /\ "following" \in PartPCs
        BY DEF TypeOK, RunTyped, PartPCs
      <4>2. q \in Part
        BY <4>1, PartAt
      <4>3. part' = [part EXCEPT ![i] = q] /\ run' = run
        BY <1>5, <3>1 DEF RecordLost
      <4> HIDE DEF q
      <4> QED BY <4>2, <4>3, PartTyped DEF TypeOK, RunTyped
    <3>2. CASE ~(part[i].pc = "taken" /\ run.files)
      <4>1. PICK outcome : NextMove(i, outcome)
        BY <1>5, <3>2 DEF RecordLost
      <4> QED BY <4>1, NextMoveTyped DEF TypeOK
    <3> QED BY <3>1, <3>2
  <2>2. HistoryTyped' /\ BoundsTyped'
    BY <1>1, <1>5 DEF RecordLost, TypeOK, HistoryTyped, BoundsTyped
  <2> QED
    BY <1>5, <2>1, <2>2 DEF RecordLost, TypeOK, DbTyped, RunTyped, SyncTyped, ArrTyped
<1> QED BY <1>2, <1>3, <1>4, <1>5

LEMMA PartStepTypes ==
  ASSUME TypeOK, DecisionsKnown, MovesKnown, NEW i \in Instances, PartStep(i)
  PROVE  TypeOK'
BY PartBeginsTypes, PartSendsTypes, PartFollowsTypes, PartRecordsTypes DEF PartStep

-----------------------------------------------------------------------------
LEMMA SyncTypedAt ==
  ASSUME SyncTyped, NEW i \in Instances, NEW q \in Sync
  PROVE  [sync EXCEPT ![i] = q] \in [Instances -> Sync]
BY DEF SyncTyped

\* A sync goes from one step to the next and touches nothing else.
LEMMA SyncMovesOn ==
  ASSUME TypeOK, NEW i \in Instances, NEW q \in Sync, sync' = [sync EXCEPT ![i] = q],
         kept' \in SUBSET Titles, lock' \in Owners,
         UNCHANGED <<db, run, part, stop, sim, dryRun, arrVars, history, bounds>>
  PROVE  TypeOK'
<1>1. SyncTyped'
  BY SyncTypedAt DEF TypeOK, SyncTyped
<1> QED
  BY <1>1 DEF TypeOK, DbTyped, RunTyped, ArrTyped, HistoryTyped, BoundsTyped, db,
              arrVars, history, bounds

\* What a sync settles is a move known.
LEMMA InSettling ==
  ASSUME TypeOK, DecisionsKnown, MovesKnown, NEW i \in Instances, NEW d,
         d \in sync[i].rows \/ (sync[i].pc = "held" /\ d = sync[i].move)
  PROVE  /\ d \in Decisions
         /\ decision[d].status # "absent"
         /\ decision[d].title \in Titles
<1>1. Known(d)
  BY DEF MovesKnown
<1> QED BY <1>1, TargetType DEF Known

LEMMA SyncRefreshTypes ==
  ASSUME TypeOK, NEW i \in Instances,
         \/ SyncBegin(i)
         \/ SyncRead(i)
         \/ SyncFail(i)
         \/ \E cleanup \in BOOLEAN : SyncWrite(i, cleanup)
  PROVE  TypeOK'
<1> USE DEF db, runVars, syncVars, arrVars, history, bounds
<1>1. sync[i] \in Sync /\ kept \in SUBSET Titles /\ lock \in Owners
  BY DEF TypeOK, SyncTyped, RunTyped
<1>2. CASE SyncBegin(i)
  <2> DEFINE q == [sync[i] EXCEPT !.pc = "begun"]
  <2>1. q \in Sync
    BY <1>1, SyncAt DEF SyncPCs
  <2>2. sync' = [sync EXCEPT ![i] = q]
    BY <1>2 DEF SyncBegin
  <2>3. kept' \in SUBSET Titles
    BY <1>1, <1>2 DEF SyncBegin
  <2> HIDE DEF q
  <2> QED BY <1>1, <1>2, <2>1, <2>2, <2>3, SyncMovesOn DEF SyncBegin
<1>3. CASE SyncRead(i)
  <2> DEFINE snap == [t \in Titles |-> IF InstanceOf[t] = i THEN arr[t] ELSE None]
             q == [sync[i] EXCEPT !.pc = "read", !.snap = snap]
  <2>1. snap \in [Titles -> Folder]
    BY DEF TypeOK, ArrTyped, Folder
  <2>2. q \in Sync
    <3> HIDE DEF snap
    <3> QED BY <1>1, <2>1, SyncSnaps DEF SyncPCs
  <2>3. sync' = [sync EXCEPT ![i] = q]
    <3>1. sync' = [sync EXCEPT ![i].pc = "read", ![i].snap = snap]
      BY <1>3 DEF SyncRead
    <3>2. sync \in [Instances -> Sync]
      BY DEF TypeOK, SyncTyped
    <3> HIDE DEF snap
    <3> QED BY <3>1, <3>2
  <2> HIDE DEF q
  <2> QED BY <1>1, <1>3, <2>2, <2>3, SyncMovesOn DEF SyncRead
<1>4. CASE SyncFail(i)
  BY <1>1, <1>4, FirstRecords, SyncMovesOn DEF SyncFail
<1>5. ASSUME NEW cleanup \in BOOLEAN, SyncWrite(i, cleanup)
      PROVE  TypeOK'
  <2>1. sync' \in [Instances -> Sync]
    <3>1. [NoSync EXCEPT !.pc = "written"] \in Sync
      BY FirstRecords, SyncAt DEF SyncPCs
    <3> QED BY <1>5, <3>1, SyncTypedAt DEF SyncWrite, TypeOK
  <2>2. row' \in [Titles -> Folder]
    <3>1. sync[i].snap \in [Titles -> Folder]
      BY <1>1 DEF Sync
    <3>2. \A t \in Titles : /\ row[t] \in Folder
                            /\ None \in Folder
                            /\ Synced(t, sync[i].snap[t]) \in Folder
      BY <3>1 DEF Synced, TypeOK, DbTyped, Folder
    <3> QED BY <1>5, <3>2 DEF SyncWrite
  <2>3. decision' \in [Decisions -> DecisionRow]
    BY <1>5, RetiredType DEF SyncWrite, TypeOK
  <2>4. kept' \in SUBSET Titles /\ unseen' \in SUBSET Titles
    BY <1>1, <1>5 DEF SyncWrite, TypeOK, HistoryTyped
  <2> QED
    BY <1>5, <2>1, <2>2, <2>3, <2>4 DEF SyncWrite, TypeOK, DbTyped, RunTyped, SyncTyped,
                                        ArrTyped, HistoryTyped, BoundsTyped
<1> QED BY <1>2, <1>3, <1>4, <1>5

LEMMA SettleTypes ==
  ASSUME TypeOK, NEW i \in Instances,
         \/ SettleRead(i)
         \/ SettleLock(i)
         \/ SettleSkip(i)
         \/ SettleUnread(i)
         \/ SettleEnd(i)
  PROVE  TypeOK'
<1> USE DEF db, runVars, syncVars, arrVars, history, bounds
<1>1. sync[i] \in Sync /\ kept \in SUBSET Titles /\ lock \in Owners
  BY DEF TypeOK, SyncTyped, RunTyped
<1>2. CASE SettleRead(i)
  <2> DEFINE left == LeftRequested(i)
             back == {d \in left : decision[d].reverted}
             q == [NoSync EXCEPT !.pc = "rows", !.rows = left, !.back = back]
  <2>1. left \in SUBSET Decisions /\ back \in SUBSET Decisions
    BY DEF LeftRequested
  <2>2. q \in Sync
    <3> HIDE DEF left, back
    <3> QED BY <2>1, FirstRecords, SyncTakesRows DEF SyncPCs
  <2>3. sync' = [sync EXCEPT ![i] = IF left = {} THEN NoSync ELSE q]
    BY <1>2 DEF SettleRead
  <2> HIDE DEF left, back, q
  <2> QED BY <1>1, <1>2, <2>2, <2>3, FirstRecords, SyncMovesOn DEF SettleRead
<1>3. CASE SettleLock(i)
  <2> DEFINE running == {t \in TitlesOf(i) : LatestOf(t) = "running"}
             ended == {t \in TitlesOf(i) : LatestOf(t) = "ended"}
             q == [sync[i] EXCEPT !.pc = "settling", !.running = running, !.ended = ended]
  <2>1. running \in SUBSET Titles /\ ended \in SUBSET Titles
    BY DEF TitlesOf
  <2>2. q \in Sync
    <3> HIDE DEF running, ended
    <3> QED BY <1>1, <2>1, SyncReadsCommands DEF SyncPCs
  <2>3. sync' = [sync EXCEPT ![i] = q]
    <3>1. sync' = [sync EXCEPT ![i].pc = "settling", ![i].running = running,
                               ![i].ended = ended]
      BY <1>3 DEF SettleLock
    <3>2. sync \in [Instances -> Sync]
      BY DEF TypeOK, SyncTyped
    <3> HIDE DEF running, ended
    <3> QED BY <3>1, <3>2
  <2>4. lock' \in Owners
    BY <1>3 DEF SettleLock, Owners
  <2> HIDE DEF q
  <2> QED BY <1>1, <1>3, <2>2, <2>3, <2>4, SyncMovesOn DEF SettleLock
<1>4. CASE SettleSkip(i)
  BY <1>1, <1>4, FirstRecords, SyncMovesOn DEF SettleSkip
<1>5. CASE SettleUnread(i)
  <2> DEFINE q == [sync[i] EXCEPT !.pc = "settling", !.move = None, !.held = None]
  <2>1. q \in Sync
    BY <1>1, SyncHolds DEF SyncPCs, Folder
  <2>2. sync' = [sync EXCEPT ![i] = q]
    BY <1>5 DEF SettleUnread
  <2> HIDE DEF q
  <2> QED BY <1>1, <1>5, <2>1, <2>2, SyncMovesOn DEF SettleUnread
<1>6. CASE SettleEnd(i)
  <2>1. lock' \in Owners
    BY <1>6 DEF SettleEnd, Owners
  <2> QED BY <1>1, <1>6, <2>1, FirstRecords, SyncMovesOn DEF SettleEnd
<1> QED BY <1>2, <1>3, <1>4, <1>5, <1>6

LEMMA SettleRecordsTypes ==
  ASSUME TypeOK, DecisionsKnown, MovesKnown, NEW i \in Instances,
         SettleRecord(i) \/ \E d \in Decisions : SettlePick(i, d)
  PROVE  TypeOK'
<1> USE DEF db, runVars, syncVars, arrVars, history, bounds
<1>1. sync[i] \in Sync
  BY DEF TypeOK, SyncTyped
<1>2. CASE SettleRecord(i)
  <2> DEFINE d == sync[i].move
             t == decision[d].title
             direction == SettleDirection(i, d)
             q == [sync[i] EXCEPT !.pc = "settling", !.move = None, !.held = None]
  <2>1. d \in Decisions /\ t \in Titles
    BY <1>2, InSettling DEF SettleRecord
  <2>2. decision' \in [Decisions -> DecisionRow]
    <3>1. decision' = Confirmed(d, direction) \/ decision' = Failed(d, direction)
      BY <1>2 DEF SettleRecord
    <3> QED BY <2>1, <3>1, ConfirmedType, FailedType DEF TypeOK
  <2>3. after' \in [Decisions -> SUBSET Decisions]
    <3>1. after' = after \/ after' = FailedStamps(d, direction)
      BY <1>2 DEF SettleRecord
    <3> QED BY <2>1, <3>1, StampsType DEF TypeOK, DbTyped
  <2>4. row' \in [Titles -> Folder] /\ unseen' \in SUBSET Titles
    <3>1. sync[i].held \in Folder
      BY <1>1 DEF Sync
    <3>2. \/ UNCHANGED <<row, unseen>>
          \/ /\ row' = [row EXCEPT ![t] = sync[i].held]
             /\ unseen' = UnseenAfterRow(t, sync[i].held)
      BY <1>2 DEF SettleRecord
    <3> HIDE DEF t
    <3> QED BY <3>1, <3>2 DEF UnseenAfterRow, TypeOK, DbTyped, HistoryTyped
  <2>5. sync' \in [Instances -> Sync]
    <3>1. q \in Sync
      BY <1>1, SyncHolds DEF SyncPCs, Folder
    <3>2. sync' = [sync EXCEPT ![i] = q]
      BY <1>2 DEF SettleRecord
    <3> HIDE DEF q
    <3> QED BY <3>1, <3>2, SyncTypedAt DEF TypeOK
  <2> QED
    BY <1>2, <2>2, <2>3, <2>4, <2>5 DEF SettleRecord, TypeOK, DbTyped, RunTyped,
                                        SyncTyped, ArrTyped, HistoryTyped, BoundsTyped
<1>3. ASSUME NEW d \in Decisions, SettlePick(i, d)
      PROVE  TypeOK'
  <2> DEFINE t == decision[d].title
             direction == SettleDirection(i, d)
             left == [sync[i] EXCEPT !.rows = sync[i].rows \ {d}]
             held == [left EXCEPT !.pc = "held", !.move = d, !.held = arr[t]]
  <2>1. t \in Titles
    <3>1. d \in sync[i].rows
      BY <1>3 DEF SettlePick
    <3> QED BY <3>1 DEF MovesKnown, Known, DecisionsKnown
  <2>2. /\ decision' \in [Decisions -> DecisionRow]
        /\ after' \in [Decisions -> SUBSET Decisions]
    <3>1. \/ UNCHANGED <<decision, after>>
          \/ decision' = Failed(d, direction) /\ after' = FailedStamps(d, direction)
      BY <1>3 DEF SettlePick
    <3> QED BY <3>1, FailedType, StampsType DEF TypeOK, DbTyped
  <2>3. left \in Sync
    <3>1. sync[i].rows \ {d} \in SUBSET Decisions
      BY <1>1 DEF Sync
    <3> QED BY <1>1, <3>1, SyncLeaves
  <2>4. held \in Sync
    <3>1. arr[t] \in Folder
      BY <2>1 DEF TypeOK, ArrTyped
    <3> HIDE DEF left, t
    <3> QED BY <2>3, <3>1, SyncHolds DEF SyncPCs
  <2>5. sync' = [sync EXCEPT ![i] = left] \/ sync' = [sync EXCEPT ![i] = held]
    BY <1>3 DEF SettlePick
  <2>6. sync' \in [Instances -> Sync]
    <3> HIDE DEF left, held
    <3> QED BY <2>3, <2>4, <2>5, SyncTypedAt DEF TypeOK
  <2> QED
    BY <1>3, <2>2, <2>6 DEF SettlePick, TypeOK, DbTyped, RunTyped, SyncTyped, ArrTyped,
                            HistoryTyped, BoundsTyped
<1> QED BY <1>2, <1>3

LEMMA SyncStepTypes ==
  ASSUME TypeOK, DecisionsKnown, MovesKnown, NEW i \in Instances, SyncStep(i)
  PROVE  TypeOK'
BY SyncRefreshTypes, SettleTypes, SettleRecordsTypes DEF SyncStep

-----------------------------------------------------------------------------
\* A command appended, ended or forgotten leaves commands in the list.
LEMMA ListedCommands ==
  ASSUME NEW s \in Seq(Command)
  PROVE  /\ \A c \in Command : Append(s, c) \in Seq(Command)
         /\ \A c \in Command, n \in 1..Len(s) : [s EXCEPT ![n] = c] \in Seq(Command)
         /\ s # <<>> => Tail(s) \in Seq(Command)
         /\ \A n \in DOMAIN s : s[n] \in Command /\ n \in 1..Len(s)
<1>1. \A c \in Command : Append(s, c) \in Seq(Command)
  BY AppendProperties
<1>2. \A c \in Command, n \in 1..Len(s) : [s EXCEPT ![n] = c] \in Seq(Command)
  BY ExceptSeq
<1>3. s # <<>> => Tail(s) \in Seq(Command)
  BY HeadTailProperties
<1>4. \A n \in DOMAIN s : s[n] \in Command /\ n \in 1..Len(s)
  BY ElementOfSeq, LenProperties
<1> QED BY <1>1, <1>2, <1>3, <1>4

\* The parts that waited for an answer have it.
LEMMA AnsweredType ==
  ASSUME RunTyped, NEW p, NEW pc \in PartPCs
  PROVE  Answered(p, pc) \in [Instances -> Part]
<1>1. \A i \in Instances : part[i] \in Part
  BY DEF RunTyped
<1>2. \A i \in Instances : [part[i] EXCEPT !.pc = pc] \in Part
  BY <1>1, PartAt
<1> QED BY <1>1, <1>2 DEF Answered

\* A PUT on its way is about a title, sent to a folder.
LEMMA OnItsWay ==
  ASSUME TypeOK, DecisionsKnown, WriteAhead, NEW p \in puts
  PROVE  /\ p.move \in Decisions
         /\ p.to \in Folders
         /\ decision[p.move].title \in Titles
<1>1. p.move \in Decisions /\ p.to \in Folders
  BY DEF TypeOK, ArrTyped, Put
<1>2. decision[p.move].status # "absent"
  BY DEF WriteAhead
<1> QED BY <1>1, <1>2 DEF DecisionsKnown

LEMMA ArrStepTypes ==
  ASSUME TypeOK, DecisionsKnown, WriteAhead, ArrStep
  PROVE  TypeOK'
<1> USE DEF db, runVars, syncVars, arrVars, history, bounds
<1>1. ASSUME NEW p \in puts, NEW answered \in BOOLEAN, ArrTake(p, answered)
      PROVE  TypeOK'
  <2> DEFINE t == decision[p.move].title
             moved == [arr EXCEPT ![t] = p.to]
             command == [by |-> p.move, from |-> arr[t], to |-> p.to,
                         state |-> "running"]
  <2>1. p.move \in Decisions /\ p.to \in Folders /\ t \in Titles
    BY OnItsWay
  <2>2. moved \in [Titles -> Folder]
    BY <2>1 DEF TypeOK, ArrTyped, Folder
  <2>3. commands' \in [Titles -> Seq(Command)]
    <3>1. arr[t] \in Folders
      BY <1>1, <2>1 DEF ArrTake, TypeOK, ArrTyped, Folder
    <3>2. command \in Command
      BY <2>1, <3>1 DEF Command
    <3>3. commands[t] \in Seq(Command) /\ commands \in [Titles -> Seq(Command)]
      BY <2>1 DEF TypeOK, ArrTyped
    <3>4. \/ commands' = commands
          \/ commands' = [commands EXCEPT ![t] = Append(commands[t], command)]
      BY <1>1 DEF ArrTake
    <3> HIDE DEF t, command
    <3>5. Append(commands[t], command) \in Seq(Command)
      BY <3>2, <3>3, ListedCommands
    <3> QED BY <3>3, <3>4, <3>5
  <2>4. ArrTyped'
    BY <1>1, <2>2, <2>3 DEF ArrTake, TypeOK, ArrTyped
  <2>5. part' \in [Instances -> Part]
    <3>1. PICK pc \in PartPCs : part' = Answered(p, pc)
      BY <1>1 DEF ArrTake, PartPCs
    <3> QED BY <3>1, AnsweredType DEF TypeOK
  <2>6. HistoryTyped'
    <3>1. Witnessed(decision, moved) \in [Decisions -> SUBSET Folders]
      BY WitnessedType, GoalsKnown DEF TypeOK, DbTyped
    <3>2. seen' \in [Decisions -> SUBSET Folders]
      BY <1>1, <3>1 DEF ArrTake
    <3>3. unseen' \in SUBSET Titles
      BY <1>1, <2>1 DEF ArrTake, TypeOK, HistoryTyped
    <3> QED BY <1>1, <3>2, <3>3 DEF ArrTake, TypeOK, HistoryTyped
  <2> QED
    BY <1>1, <2>4, <2>5, <2>6 DEF ArrTake, TypeOK, DbTyped, RunTyped, SyncTyped,
                                  BoundsTyped
<1>2. ASSUME NEW p \in puts, NEW answered \in BOOLEAN, ArrDrop(p, answered)
      PROVE  TypeOK'
  <2>1. part' \in [Instances -> Part]
    <3>1. PICK pc \in PartPCs : part' = Answered(p, pc)
      BY <1>2 DEF ArrDrop, PartPCs
    <3> QED BY <3>1, AnsweredType DEF TypeOK
  <2>2. ArrTyped'
    BY <1>2 DEF ArrDrop, TypeOK, ArrTyped
  <2> QED
    BY <1>2, <2>1, <2>2 DEF ArrDrop, TypeOK, DbTyped, RunTyped, SyncTyped, HistoryTyped,
                            BoundsTyped
<1>3. ASSUME NEW t \in Titles, NEW state \in {"completed", "ended"},
             NEW back \in BOOLEAN, NEW n \in DOMAIN commands[t],
             CommandEnd(t, n, state, back)
      PROVE  TypeOK'
  <2> DEFINE command == commands[t][n]
             ended == [command EXCEPT !.state = state]
             moved == IF back /\ arr[t] # None THEN [arr EXCEPT ![t] = command.from]
                      ELSE arr
  <2>1. commands[t] \in Seq(Command) /\ commands \in [Titles -> Seq(Command)]
    BY DEF TypeOK, ArrTyped
  <2>2. command \in Command /\ n \in 1..Len(commands[t])
    BY <2>1, ListedCommands
  <2>3. ended \in Command
    <3> HIDE DEF command
    <3> QED BY <2>2 DEF Command
  <2>4. moved \in [Titles -> Folder]
    <3>1. command.from \in Folder
      BY <2>2 DEF Command, Folder
    <3> HIDE DEF command
    <3> QED BY <3>1 DEF TypeOK, ArrTyped
  <2>5. commands' \in [Titles -> Seq(Command)]
    <3>1. commands' = [commands EXCEPT ![t] = [commands[t] EXCEPT ![n] = ended]]
      BY <1>3 DEF CommandEnd
    <3> HIDE DEF ended
    <3>2. [commands[t] EXCEPT ![n] = ended] \in Seq(Command)
      BY <2>1, <2>2, <2>3, ListedCommands
    <3> QED BY <2>1, <3>1, <3>2
  <2>6. arr' = moved /\ seen' = Witnessed(decision, moved)
    BY <1>3 DEF CommandEnd
  <2> HIDE DEF moved
  <2>7. ArrTyped'
    BY <1>3, <2>4, <2>5, <2>6 DEF CommandEnd, TypeOK, ArrTyped
  <2>8. HistoryTyped'
    <3>1. seen' \in [Decisions -> SUBSET Folders]
      BY <2>6, WitnessedType, GoalsKnown DEF TypeOK, DbTyped
    <3> QED BY <1>3, <3>1 DEF CommandEnd, TypeOK, HistoryTyped
  <2> QED
    BY <1>3, <2>7, <2>8 DEF CommandEnd, TypeOK, DbTyped, RunTyped, SyncTyped, BoundsTyped
<1>4. ASSUME NEW t \in Titles, CommandForget(t)
      PROVE  TypeOK'
  <2>1. commands' \in [Titles -> Seq(Command)]
    <3>1. commands[t] \in Seq(Command) /\ commands \in [Titles -> Seq(Command)]
      BY DEF TypeOK, ArrTyped
    <3>2. commands[t] # <<>> /\ commands' = [commands EXCEPT ![t] = Tail(commands[t])]
      BY <1>4 DEF CommandForget
    <3>3. Tail(commands[t]) \in Seq(Command)
      BY <3>1, <3>2, ListedCommands
    <3> QED BY <3>1, <3>2, <3>3
  <2> QED
    BY <1>4, <2>1 DEF CommandForget, TypeOK, DbTyped, RunTyped, SyncTyped, ArrTyped,
                      HistoryTyped, BoundsTyped
<1>5. ASSUME NEW t \in Titles, NEW folder \in Folder, HandMove(t, folder)
      PROVE  TypeOK'
  <2> DEFINE moved == [arr EXCEPT ![t] = folder]
  <2>1. arr' = moved /\ seen' = Witnessed(decision, moved)
    BY <1>5 DEF HandMove
  <2>2. ArrTyped'
    BY <1>5 DEF HandMove, TypeOK, ArrTyped
  <2>3. HistoryTyped'
    <3>1. seen' \in [Decisions -> SUBSET Folders]
      BY <2>1, WitnessedType, GoalsKnown DEF TypeOK, DbTyped
    <3> QED BY <1>5, <3>1 DEF HandMove, TypeOK, HistoryTyped
  <2>4. BoundsTyped'
    BY <1>5 DEF HandMove, TypeOK, BoundsTyped
  <2> QED
    BY <1>5, <2>2, <2>3, <2>4 DEF HandMove, TypeOK, DbTyped, RunTyped, SyncTyped
<1> QED BY <1>1, <1>2, <1>3, <1>4, <1>5 DEF ArrStep

LEMMA CrashTypes ==
  ASSUME TypeOK, Crash
  PROVE  TypeOK'
<1> USE DEF db, runVars, syncVars, arrVars, history, bounds
<1>1. RunTyped' /\ SyncTyped'
  BY FirstRecords DEF Crash, RunTyped, SyncTyped, Owners
<1>2. (sim \in SUBSET Simulation)'
  BY DEF Crash
<1>3. HistoryTyped' /\ BoundsTyped'
  BY DEF Crash, TypeOK, HistoryTyped, BoundsTyped
<1> QED
  BY <1>1, <1>2, <1>3 DEF Crash, TypeOK, DbTyped, ArrTyped

LEMMA NextTypes ==
  ASSUME TypeOK, DecisionsKnown, MovesKnown, WriteAhead, [Next]_vars
  PROVE  TypeOK'
<1>1. CASE Next
  BY <1>1, SimulationTypes, OperatorTypes, RunStepTypes, PartStepTypes, SyncStepTypes,
     ArrStepTypes, CrashTypes DEF Next
<1>2. CASE UNCHANGED vars
  BY <1>2 DEF vars, TypeOK, DbTyped, RunTyped, SyncTyped, ArrTyped, HistoryTyped,
              BoundsTyped
<1> QED BY <1>1, <1>2

-----------------------------------------------------------------------------
(* The inductive invariant.                                                *)

Settling(i) == sync[i].pc \in {"settling", "held"}

\* The lock is held by the run while one of its parts has a move in hand, and by
\* the one sync that settles.
LockHeld ==
  /\ \A i \in Instances : part[i].pc # "ready" => lock = "run"
  /\ \A i \in Instances : Settling(i) => lock = "settle"
  /\ \A i, j \in Instances : Settling(i) /\ Settling(j) => i = j

SafeInv ==
  /\ DecisionsKnown
  /\ MovesKnown
  /\ LockHeld
  /\ WriteAhead
  /\ InHandIsRequested
  /\ OneStandingProposal

Inv == TypeOK /\ SafeInv

LEMMA InitInv == Init => Inv
<1> SUFFICES ASSUME Init PROVE Inv
  OBVIOUS
<1>1. DecisionsKnown /\ MovesKnown
  BY DEF Init, DecisionsKnown, MovesKnown, Known, Absent, NoRun, Ready, NoSync
<1>2. LockHeld
  BY DEF Init, LockHeld, Settling, Ready, NoSync
<1>3. WriteAhead /\ InHandIsRequested /\ OneStandingProposal
  BY DEF Init, WriteAhead, InHandIsRequested, OneStandingProposal, Standing, Absent, Ready
<1> QED BY <1>1, <1>2, <1>3, InitTypes DEF Inv, SafeInv

-----------------------------------------------------------------------------
(***************************************************************************)
(* What a step may do to the table of decisions.                           *)
(***************************************************************************)

\* A decision stored stays, about the same move, and is no proposal once sent.
Grows ==
  \A d \in Decisions : decision[d].status # "absent" =>
    /\ decision'[d].status # "absent"
    /\ decision'[d].title = decision[d].title
    /\ decision'[d].from = decision[d].from
    /\ decision'[d].to = decision[d].to
    /\ decision[d].status # "pending" => decision'[d].status # "pending"

\* The table grows by no decision, and no proposal stands that did not.
Advances ==
  /\ Grows
  /\ \A d \in Decisions :
       /\ decision[d].status = "absent" => decision'[d].status = "absent"
       /\ (decision'[d].status = "pending" /\ ~decision'[d].superseded) => Standing(d)

StaysRequested(d) ==
  decision[d].status = "requested" => decision'[d].status = "requested"

LEMMA UnchangedAdvances ==
  ASSUME decision' = decision
  PROVE  Advances /\ \A d \in Decisions : StaysRequested(d)
BY DEF Advances, Grows, StaysRequested, Standing

LEMMA RetiredAdvances ==
  ASSUME TypeOK, NEW ids, decision' = Retired(ids)
  PROVE  Advances /\ \A d \in Decisions : StaysRequested(d)
<1>1. \A d \in Decisions :
        /\ decision'[d].status = decision[d].status
        /\ decision'[d].title = decision[d].title
        /\ decision'[d].from = decision[d].from
        /\ decision'[d].to = decision[d].to
        /\ decision[d].superseded => decision'[d].superseded
  BY DEF Retired, TypeOK, DbTyped, DecisionRow
<1>2. \A d \in Decisions : ~decision'[d].superseded => ~decision[d].superseded
  BY <1>1
<1> QED BY <1>1, <1>2 DEF Advances, Grows, StaysRequested, Standing

LEMMA RequestedAdvances ==
  ASSUME TypeOK, NEW d, Known(d), NEW direction, decision' = Requested(d, direction)
  PROVE  /\ Advances
         /\ \A e \in Decisions : StaysRequested(e)
         /\ decision'[d].status = "requested"
<1>1. \A e \in Decisions : e # d => decision'[e] = decision[e]
  BY DEF Requested, TypeOK, DbTyped, Known
<1>2. /\ decision'[d].status = "requested"
      /\ decision'[d].title = decision[d].title
      /\ decision'[d].from = decision[d].from
      /\ decision'[d].to = decision[d].to
  BY DEF Requested, TypeOK, DbTyped, Known, DecisionRow
<1> QED BY <1>1, <1>2 DEF Advances, Grows, StaysRequested, Standing, Known

\* The proposals of the title of d settled, whatever d itself became.
LEMMA SettledAdvances ==
  ASSUME TypeOK, NEW d, Known(d), NEW rows \in [Decisions -> DecisionRow],
         \A e \in Decisions : e # d => rows[e] = decision[e],
         /\ rows[d].status \notin {"absent", "pending"}
         /\ rows[d].title = decision[d].title
         /\ rows[d].from = decision[d].from
         /\ rows[d].to = decision[d].to,
         decision' = SettleProposalsSince(d, rows)
  PROVE  Advances /\ \A e \in Decisions : e # d => StaysRequested(e)
<1>1. decision'[d] = rows[d]
  BY DEF SettleProposalsSince, Known
<1>2. \A e \in Decisions : e # d =>
        /\ decision'[e].status = decision[e].status
        /\ decision'[e].title = decision[e].title
        /\ decision'[e].from = decision[e].from
        /\ decision'[e].to = decision[e].to
        /\ ~decision'[e].superseded => ~decision[e].superseded
  <2> SUFFICES ASSUME NEW e \in Decisions, e # d
               PROVE  /\ decision'[e].status = decision[e].status
                      /\ decision'[e].title = decision[e].title
                      /\ decision'[e].from = decision[e].from
                      /\ decision'[e].to = decision[e].to
                      /\ ~decision'[e].superseded => ~decision[e].superseded
    OBVIOUS
  <2>1. \/ decision'[e] = decision[e]
        \/ decision'[e] = [decision[e] EXCEPT !.superseded = TRUE]
    BY DEF SettleProposalsSince
  <2>2. decision[e] \in DecisionRow
    BY DEF TypeOK, DbTyped
  <2> QED BY <2>1, <2>2 DEF DecisionRow
<1> QED BY <1>1, <1>2 DEF Advances, Grows, StaysRequested, Standing, Known

LEMMA MadeAdvances ==
  ASSUME TypeOK, NEW d, Known(d), NEW direction, decision' = Made(d, direction)
  PROVE  Advances /\ \A e \in Decisions : e # d => StaysRequested(e)
<1> DEFINE status == IF direction = "forward" THEN "applied" ELSE "skipped"
           reverted == direction = "revert" \/ decision[d].reverted
           new == [decision[d] EXCEPT !.status = status, !.reverted = reverted]
           rows == [decision EXCEPT ![d] = new]
<1>1. d \in Decisions /\ decision \in [Decisions -> DecisionRow]
  BY DEF Known, TypeOK, DbTyped
<1>2. status \in Statuses /\ reverted \in BOOLEAN /\ status \notin {"absent", "pending"}
  BY DEF Statuses
<1>3. /\ new \in DecisionRow
      /\ new.status = status
      /\ new.title = decision[d].title
      /\ new.from = decision[d].from
      /\ new.to = decision[d].to
  <2>1. decision[d] \in DecisionRow
    BY <1>1
  <2> HIDE DEF status, reverted
  <2> QED BY <1>2, <2>1 DEF DecisionRow
<1>4. decision' = SettleProposalsSince(d, rows)
  BY DEF Made
<1> HIDE DEF new, status
<1>5. rows \in [Decisions -> DecisionRow] /\ rows[d] = new
      /\ \A e \in Decisions : e # d => rows[e] = decision[e]
  BY <1>1, <1>3
<1> HIDE DEF rows
<1> QED BY <1>2, <1>3, <1>4, <1>5, SettledAdvances

LEMMA ConfirmedAdvances ==
  ASSUME TypeOK, NEW d, Known(d), NEW direction, decision' = Confirmed(d, direction)
  PROVE  Advances /\ \A e \in Decisions : e # d => StaysRequested(e)
<1> DEFINE status == IF direction = "forward" THEN "applied" ELSE "skipped"
           new == [decision[d] EXCEPT !.status = status]
           rows == [decision EXCEPT ![d] = new]
<1>1. d \in Decisions /\ decision \in [Decisions -> DecisionRow]
  BY DEF Known, TypeOK, DbTyped
<1>2. status \in Statuses /\ status \notin {"absent", "pending"}
  BY DEF Statuses
<1>3. /\ new \in DecisionRow
      /\ new.status = status
      /\ new.title = decision[d].title
      /\ new.from = decision[d].from
      /\ new.to = decision[d].to
  <2>1. decision[d] \in DecisionRow
    BY <1>1
  <2> HIDE DEF status
  <2> QED BY <1>2, <2>1 DEF DecisionRow
<1>4. decision' = SettleProposalsSince(d, rows) \/ decision' = decision
  BY DEF Confirmed
<1> HIDE DEF new, status
<1>5. rows \in [Decisions -> DecisionRow] /\ rows[d] = new
      /\ \A e \in Decisions : e # d => rows[e] = decision[e]
  BY <1>1, <1>3
<1> HIDE DEF rows
<1> QED BY <1>2, <1>3, <1>4, <1>5, SettledAdvances, UnchangedAdvances

LEMMA FailedAdvances ==
  ASSUME TypeOK, NEW d, Known(d), NEW direction, decision' = Failed(d, direction)
  PROVE  Advances /\ \A e \in Decisions : e # d => StaysRequested(e)
<1>1. \A e \in Decisions : e # d => decision'[e] = decision[e]
  BY DEF Failed, TypeOK, DbTyped, Known
<1>2. /\ decision'[d].status \in {"failed", "applied"}
      /\ decision'[d].title = decision[d].title
      /\ decision'[d].from = decision[d].from
      /\ decision'[d].to = decision[d].to
  <2>1. d \in Decisions /\ decision \in [Decisions -> DecisionRow]
    BY DEF Known, TypeOK, DbTyped
  <2>2. \/ decision'[d] = [decision[d] EXCEPT !.status = "failed"]
        \/ decision'[d] = [decision[d] EXCEPT !.status = "applied", !.reverted = FALSE]
    BY <2>1 DEF Failed
  <2> QED BY <2>1, <2>2 DEF DecisionRow
<1> QED BY <1>1, <1>2 DEF Advances, Grows, StaysRequested, Standing, Known

-----------------------------------------------------------------------------
(***************************************************************************)
(* What keeps each part of the invariant.                                  *)
(***************************************************************************)

LEMMA RowsKept ==
  ASSUME DecisionsKnown, OneStandingProposal, Advances
  PROVE  DecisionsKnown' /\ OneStandingProposal'
<1>1. DecisionsKnown'
  BY DEF DecisionsKnown, Advances, Grows
<1>2. \A d \in Decisions : Standing(d)' => Standing(d) /\ decision'[d].title = decision[d].title
  BY DEF Standing, Advances, Grows
<1>3. OneStandingProposal'
  <2> SUFFICES ASSUME NEW d \in Decisions, NEW e \in Decisions, Standing(d)', Standing(e)',
                      decision'[d].title = decision'[e].title
               PROVE  d = e
    BY DEF OneStandingProposal
  <2> QED BY <1>2 DEF OneStandingProposal
<1> QED BY <1>1, <1>3

KnownNext(d) == d \in Decisions /\ decision'[d].status # "absent"
InstanceNext(d) == InstanceOf[decision'[d].title]

LEMMA KnownKept ==
  ASSUME Grows, NEW d, Known(d)
  PROVE  KnownNext(d) /\ InstanceNext(d) = InstanceOfMove(d)
BY DEF Grows, Known, KnownNext, InstanceNext, InstanceOfMove

\* MovesKnown' in terms of the ids the next state holds.
LEMMA MovesKnownNext ==
  ASSUME \A d \in run'.todo \cup run'.queue : KnownNext(d),
         \A i \in Instances : part'[i].pc # "ready" =>
           KnownNext(part'[i].move) /\ InstanceNext(part'[i].move) = i,
         \A i \in Instances :
           /\ \A d \in sync'[i].rows : KnownNext(d)
           /\ sync'[i].pc = "held" => KnownNext(sync'[i].move)
  PROVE  MovesKnown'
BY DEF MovesKnown, Known, InstanceOfMove, KnownNext, InstanceNext

\* Nothing new on its way to the Arr, nothing new in its list.
LEMMA WriteAheadKept ==
  ASSUME TypeOK, WriteAhead, Grows, puts' \subseteq puts, commands' = commands
  PROVE  WriteAhead'
<1>1. \A p \in puts : p.move \in Decisions
  BY DEF TypeOK, ArrTyped, Put
<1>2. ASSUME NEW t \in Titles, NEW n \in DOMAIN commands[t]
      PROVE  commands[t][n].by \in Decisions
  <2>1. commands[t][n] \in Command
    <3>1. commands[t] \in Seq(Command)
      BY DEF TypeOK, ArrTyped
    <3> QED BY <3>1, ListedCommands
  <2> QED BY <2>1 DEF Command
<1>3. \A p \in puts' : decision'[p.move].status \notin {"absent", "pending"}
  BY <1>1 DEF WriteAhead, Grows
<1>4. \A t \in Titles : \A n \in DOMAIN commands'[t] :
         decision'[commands'[t][n].by].status \notin {"absent", "pending"}
  BY <1>2 DEF WriteAhead, Grows
<1> QED BY <1>3, <1>4 DEF WriteAhead

\* The moves in hand are some of those that were.
PartsGoOn ==
  \A i \in Instances :
    part'[i].pc # "ready" => part[i].pc # "ready" /\ part'[i].move = part[i].move

RunGoesOn == \A d \in run'.todo \cup run'.queue : d \in run.todo \cup run.queue

SyncsGoOn ==
  \A i \in Instances :
    /\ sync'[i].rows \subseteq sync[i].rows
    /\ sync'[i].pc \in {"settling", "held"} => Settling(i)
    /\ sync'[i].pc = "held" =>
         \/ sync'[i].move \in sync[i].rows
         \/ sync[i].pc = "held" /\ sync'[i].move = sync[i].move

LEMMA SameGoOn ==
  /\ part' = part => PartsGoOn
  /\ run' = run => RunGoesOn
  /\ sync' = sync => SyncsGoOn
BY DEF PartsGoOn, RunGoesOn, SyncsGoOn, Settling

LEMMA NoneGoOn ==
  ASSUME part' = [i \in Instances |-> Ready]
  PROVE  PartsGoOn /\ \A i \in Instances : part'[i].pc = "ready"
BY DEF PartsGoOn, Ready

LEMMA MovesKept ==
  ASSUME MovesKnown, Grows, RunGoesOn, PartsGoOn, SyncsGoOn
  PROVE  MovesKnown'
<1>1. \A d \in run'.todo \cup run'.queue : KnownNext(d)
  <2> SUFFICES ASSUME NEW d \in run'.todo \cup run'.queue PROVE KnownNext(d)
    OBVIOUS
  <2>1. Known(d)
    BY DEF MovesKnown, RunGoesOn
  <2> QED BY <2>1, KnownKept
<1>2. ASSUME NEW i \in Instances, part'[i].pc # "ready"
      PROVE  KnownNext(part'[i].move) /\ InstanceNext(part'[i].move) = i
  <2>1. Known(part[i].move) /\ InstanceOfMove(part[i].move) = i /\ part'[i].move = part[i].move
    BY <1>2 DEF MovesKnown, PartsGoOn
  <2> QED BY <2>1, KnownKept
<1>3. ASSUME NEW i \in Instances
      PROVE  /\ \A d \in sync'[i].rows : KnownNext(d)
             /\ sync'[i].pc = "held" => KnownNext(sync'[i].move)
  <2>1. \A d \in sync'[i].rows : Known(d)
    BY DEF MovesKnown, SyncsGoOn
  <2>2. sync'[i].pc = "held" => Known(sync'[i].move)
    BY DEF MovesKnown, SyncsGoOn
  <2> QED BY <2>1, <2>2, KnownKept
<1> QED BY <1>1, <1>2, <1>3, MovesKnownNext

LEMMA LockKept ==
  ASSUME LockHeld, lock' = lock, PartsGoOn, SyncsGoOn
  PROVE  LockHeld'
<1>1. \A i \in Instances : part'[i].pc # "ready" => lock' = "run"
  BY DEF LockHeld, PartsGoOn
<1>2. \A i \in Instances : sync'[i].pc \in {"settling", "held"} => Settling(i)
  BY DEF SyncsGoOn
<1> QED BY <1>1, <1>2 DEF LockHeld, Settling

\* The run holds the lock: no sync settles.
LEMMA NotSettling ==
  ASSUME LockHeld, NEW i \in Instances, part[i].pc # "ready" \/ lock = "run"
  PROVE  \A j \in Instances : ~Settling(j)
BY DEF LockHeld

\* A sync settles: the run has no move in hand.
LEMMA NothingInHand ==
  ASSUME LockHeld, NEW i \in Instances, Settling(i) \/ lock # "run"
  PROVE  \A j \in Instances : part[j].pc = "ready"
BY DEF LockHeld

InHandPCs == {"sent", "unanswered", "taken", "following", "over", "read"}

\* The moves in hand are some of those that were, and stay requested.
LEMMA InHandKept ==
  ASSUME InHandIsRequested,
         \A i \in Instances : part'[i].pc \in InHandPCs =>
           /\ part[i].pc \in InHandPCs
           /\ part'[i].move = part[i].move
           /\ StaysRequested(part[i].move)
  PROVE  InHandIsRequested'
BY DEF InHandIsRequested, InHandPCs, StaysRequested

\* No move in hand, before the step or after.
LEMMA InHandVoid ==
  ASSUME \A i \in Instances : part'[i].pc = "ready"
  PROVE  InHandIsRequested'
BY DEF InHandIsRequested

\* What the part of another instance has in hand is another decision.
LEMMA OtherInHand ==
  ASSUME MovesKnown, NEW i \in Instances, NEW j \in Instances, i # j,
         part[j].pc # "ready", NEW d, InstanceOfMove(d) = i
  PROVE  part[j].move # d /\ part[j].move \in Decisions
BY DEF MovesKnown, Known

\* A step that only goes on with what is under way.
LEMMA GoesOn ==
  ASSUME Inv, Advances, RunGoesOn, PartsGoOn, SyncsGoOn, lock' = lock,
         puts' \subseteq puts, commands' = commands,
         \A i \in Instances : part'[i].pc \in InHandPCs =>
           part[i].pc \in InHandPCs /\ StaysRequested(part[i].move)
  PROVE  SafeInv'
<1>1. DecisionsKnown' /\ OneStandingProposal'
  BY RowsKept DEF Inv, SafeInv
<1>2. MovesKnown'
  BY MovesKept DEF Inv, SafeInv, Advances
<1>3. LockHeld'
  BY LockKept DEF Inv, SafeInv
<1>4. WriteAhead'
  BY WriteAheadKept DEF Inv, SafeInv, Advances
<1>5. InHandIsRequested'
  <2>1. \A i \in Instances : part'[i].pc \in InHandPCs =>
          /\ part[i].pc \in InHandPCs
          /\ part'[i].move = part[i].move
          /\ StaysRequested(part[i].move)
    BY DEF PartsGoOn, InHandPCs
  <2> QED BY <2>1, InHandKept DEF Inv, SafeInv
<1> QED BY <1>1, <1>2, <1>3, <1>4, <1>5 DEF SafeInv

\* Every move in hand stays requested while no row of a decision changes hands.
LEMMA AllStayRequested ==
  ASSUME Inv, \A d \in Decisions : StaysRequested(d),
         \A i \in Instances : part'[i].pc \in InHandPCs => part[i].pc \in InHandPCs
  PROVE  \A i \in Instances : part'[i].pc \in InHandPCs =>
           part[i].pc \in InHandPCs /\ StaysRequested(part[i].move)
<1> SUFFICES ASSUME NEW i \in Instances, part'[i].pc \in InHandPCs
             PROVE  part[i].pc \in InHandPCs /\ StaysRequested(part[i].move)
  OBVIOUS
<1>1. part[i].pc \in InHandPCs
  OBVIOUS
<1>2. part[i].move \in Decisions
  BY <1>1 DEF Inv, SafeInv, MovesKnown, Known, InHandPCs
<1> QED BY <1>1, <1>2

-----------------------------------------------------------------------------
(***************************************************************************)
(* Every step keeps it, one lemma per actor, one step per action.          *)
(***************************************************************************)

\* A simulation stored: nothing else stands for its title any more.
LEMMA SimulationStoredSafe ==
  ASSUME Inv, NEW s \in sim, NEW d \in Decisions, SimulationStored(s, d)
  PROVE  SafeInv'
<1> USE DEF db, runVars, syncVars, arrVars, history, bounds
<1>1. /\ decision[d].status = "absent"
      /\ UNCHANGED <<lock, run, part, sync, puts, commands>>
  BY DEF SimulationStored
<1>2. RunGoesOn /\ PartsGoOn /\ SyncsGoOn
  BY <1>1, SameGoOn
<1>3. ASSUME Advances, \A e \in Decisions : StaysRequested(e)
      PROVE  SafeInv'
  BY <1>1, <1>2, <1>3, GoesOn, AllStayRequested
<1>4. CASE row[s.title] = None
  BY <1>3, <1>4, UnchangedAdvances DEF SimulationStored
<1>5. CASE row[s.title] # None /\ s.from = s.to
  BY <1>3, <1>5, RetiredAdvances DEF SimulationStored, Superseded, Inv
<1>6. CASE row[s.title] # None /\ s.from # s.to
  <2> DEFINE superseded == Superseded(s.title)
  <2>1. s.title \in Titles /\ s.from \in Folders /\ s.to \in Folders
    BY DEF Inv, TypeOK, Simulation
  <2>2. /\ decision'[d] = Proposal(s)
        /\ \A e \in Decisions : e # d => decision'[e] = superseded[e]
    BY <1>6 DEF SimulationStored, Superseded, Retired
  <2>3. \A e \in Decisions :
          /\ superseded[e].status = decision[e].status
          /\ superseded[e].title = decision[e].title
          /\ superseded[e].from = decision[e].from
          /\ superseded[e].to = decision[e].to
          /\ ~superseded[e].superseded => ~decision[e].superseded
          /\ superseded[e].status = "pending" /\ decision[e].title = s.title =>
               superseded[e].superseded
    BY DEF Superseded, Retired, Inv, TypeOK, DbTyped, DecisionRow
  <2> HIDE DEF superseded
  <2>4. Grows
    BY <1>1, <2>2, <2>3 DEF Grows
  <2>5. \A e \in Decisions : StaysRequested(e)
    BY <1>1, <2>2, <2>3 DEF StaysRequested
  <2>6. /\ decision'[d].status = "pending"
        /\ decision'[d].title = s.title
        /\ decision'[d].from = s.from
        /\ decision'[d].to = s.to
    BY <2>2 DEF Proposal
  <2>7. DecisionsKnown'
    BY <2>1, <2>2, <2>3, <2>6 DEF Inv, SafeInv, DecisionsKnown
  <2>8. OneStandingProposal'
    <3>1. \A e \in Decisions : e # d =>
            (Standing(e)' => Standing(e) /\ decision[e].title # s.title
                                         /\ decision'[e].title = decision[e].title)
      BY <2>2, <2>3 DEF Standing
    <3> QED BY <2>6, <3>1 DEF Inv, SafeInv, OneStandingProposal
  <2>9. MovesKnown'
    BY <1>2, <2>4, MovesKept DEF Inv, SafeInv
  <2>10. LockHeld'
    BY <1>1, <1>2, LockKept DEF Inv, SafeInv
  <2>11. WriteAhead'
    BY <1>1, <2>4, WriteAheadKept DEF Inv, SafeInv
  <2>12. InHandIsRequested'
    <3>1. \A i \in Instances : part'[i].pc \in InHandPCs =>
            part[i].pc \in InHandPCs /\ StaysRequested(part[i].move)
      BY <1>1, <2>5, AllStayRequested
    <3> QED BY <1>1, <3>1, InHandKept DEF Inv, SafeInv
  <2> QED BY <2>7, <2>8, <2>9, <2>10, <2>11, <2>12 DEF SafeInv
<1> QED BY <1>4, <1>5, <1>6

LEMMA SimulateSafe ==
  ASSUME Inv, Simulate
  PROVE  SafeInv'
<1> USE DEF db, runVars, syncVars, arrVars, history, bounds
<1>1. ASSUME NEW t \in Titles, NEW to \in Folders, SimulationRead(t, to)
      PROVE  SafeInv'
  <2>1. UNCHANGED <<decision, lock, run, part, sync, puts, commands>>
    BY <1>1 DEF SimulationRead
  <2> QED BY <2>1, SameGoOn, UnchangedAdvances, AllStayRequested, GoesOn
<1> QED BY <1>1, SimulationStoredSafe DEF Simulate

LEMMA OperatorSafe ==
  ASSUME Inv, Operator
  PROVE  SafeInv'
<1> USE DEF db, runVars, syncVars, arrVars, history, bounds
<1>1. ASSUME NEW direction \in Directions, NEW files \in FileMoves,
             NEW sliced \in Slicing, NEW ids \in SUBSET Decisions,
             StartRun(direction, files, sliced, ids)
      PROVE  SafeInv'
  <2>1. /\ UNCHANGED <<decision, sync, puts, commands>>
        /\ lock = "free" /\ lock' = "run"
        /\ part' = [i \in Instances |-> Ready]
        /\ \A d \in ids : decision[d].status # "absent"
    BY <1>1 DEF StartRun
  <2>2. run'.todo = ids /\ run'.queue = {}
    BY <1>1 DEF StartRun, NoRun
  <2>3. PartsGoOn /\ \A i \in Instances : part'[i].pc = "ready"
    BY <2>1, NoneGoOn
  <2>4. Advances /\ SyncsGoOn
    BY <2>1, UnchangedAdvances, SameGoOn
  <2>5. DecisionsKnown' /\ OneStandingProposal'
    BY <2>4, RowsKept DEF Inv, SafeInv
  <2>6. MovesKnown'
    <3>1. \A d \in run'.todo \cup run'.queue : KnownNext(d)
      BY <2>1, <2>2 DEF KnownNext
    <3>2. \A i \in Instances :
            /\ \A d \in sync'[i].rows : KnownNext(d)
            /\ sync'[i].pc = "held" => KnownNext(sync'[i].move)
      BY <2>1 DEF Inv, SafeInv, MovesKnown, Known, KnownNext
    <3> QED BY <2>3, <3>1, <3>2, MovesKnownNext
  <2>7. LockHeld'
    BY <2>1, <2>3 DEF Inv, SafeInv, LockHeld, Settling
  <2>8. WriteAhead'
    BY <2>1, <2>4, WriteAheadKept DEF Inv, SafeInv, Advances
  <2>9. InHandIsRequested'
    BY <2>3, InHandVoid
  <2> QED BY <2>5, <2>6, <2>7, <2>8, <2>9 DEF SafeInv
<1>2. ASSUME Cancel \/ \E on \in BOOLEAN : SetDryRun(on)
      PROVE  SafeInv'
  <2>1. UNCHANGED <<decision, lock, run, part, sync, puts, commands>>
    BY <1>2 DEF Cancel, SetDryRun
  <2> QED BY <2>1, SameGoOn, UnchangedAdvances, AllStayRequested, GoesOn
<1> QED BY <1>1, <1>2 DEF Operator, StartSome

LEMMA RunStepSafe ==
  ASSUME Inv, RunStep
  PROVE  SafeInv'
<1> USE DEF db, runVars, syncVars, arrVars, history, bounds
<1>1. ASSUME StopSlices \/ LoadFailed
      PROVE  SafeInv'
  <2>1. /\ UNCHANGED <<decision, lock, part, sync, puts, commands>>
        /\ run' = [run EXCEPT !.stopped = TRUE]
    BY <1>1 DEF StopSlices, LoadFailed
  <2>2. RunGoesOn
    BY <2>1 DEF RunGoesOn, Inv, TypeOK, RunTyped, Run
  <2> QED BY <2>1, <2>2, SameGoOn, UnchangedAdvances, AllStayRequested, GoesOn
<1>2. ASSUME NEW batch \in SUBSET Decisions, NEW stale \in SUBSET Decisions,
             NEW retired \in SUBSET Decisions, LoadSlice(batch, stale, retired)
      PROVE  SafeInv'
  <2>1. /\ UNCHANGED <<lock, sync, puts, commands>>
        /\ decision' = Retired(retired)
        /\ part' = [i \in Instances |-> Ready]
        /\ batch \subseteq run.todo
    BY <1>2 DEF LoadSlice
  <2>2. PartsGoOn /\ \A i \in Instances : part'[i].pc = "ready"
    BY <2>1, NoneGoOn
  <2>3. Advances /\ SyncsGoOn
    BY <2>1, RetiredAdvances, SameGoOn DEF Inv
  <2>4. DecisionsKnown' /\ OneStandingProposal'
    BY <2>3, RowsKept DEF Inv, SafeInv
  <2>5. MovesKnown'
    <3> DEFINE current == IF run.direction = "forward" THEN CurrentProposals(batch)
                          ELSE batch
               queue == {d \in current : Movable(d, run.direction)} \ stale
    <3>1. \A d \in run.todo : Known(d)
      BY DEF Inv, SafeInv, MovesKnown
    <3>2. \A d \in CurrentProposals(batch) : Known(d)
      BY <2>1, <3>1 DEF CurrentProposals, Standing, Known
    <3>3. \A d \in queue : Known(d)
      BY <2>1, <3>1, <3>2
    <3>4. run'.todo = run.todo \ batch /\ run'.queue = queue
      <4>1. run' = [run EXCEPT !.todo = run.todo \ batch, !.queue = queue,
                               !.done = FALSE, !.failed = FALSE]
        BY <1>2 DEF LoadSlice
      <4> HIDE DEF queue
      <4> QED BY <4>1 DEF Inv, TypeOK, RunTyped, Run
    <3> HIDE DEF queue
    <3>5. \A d \in run'.todo \cup run'.queue : KnownNext(d)
      BY <2>3, <3>1, <3>3, <3>4, KnownKept DEF Advances
    <3>6. \A i \in Instances :
            /\ \A d \in sync'[i].rows : KnownNext(d)
            /\ sync'[i].pc = "held" => KnownNext(sync'[i].move)
      BY <2>1, <2>3, KnownKept DEF Inv, SafeInv, MovesKnown, Advances
    <3> QED BY <2>2, <3>5, <3>6, MovesKnownNext
  <2>6. LockHeld'
    BY <2>1, <2>2, <2>3, LockKept DEF Inv, SafeInv
  <2>7. WriteAhead'
    BY <2>1, <2>3, WriteAheadKept DEF Inv, SafeInv, Advances
  <2>8. InHandIsRequested'
    BY <2>2, InHandVoid
  <2> QED BY <2>4, <2>5, <2>6, <2>7, <2>8 DEF SafeInv
<1>3. CASE FinishRun
  <2>1. /\ UNCHANGED <<decision, sync, puts, commands>>
        /\ lock = "run" /\ lock' = "free"
        /\ run' = NoRun
        /\ part' = [i \in Instances |-> Ready]
    BY <1>3 DEF FinishRun
  <2>2. PartsGoOn /\ \A i \in Instances : part'[i].pc = "ready"
    BY <2>1, NoneGoOn
  <2>3. Advances /\ SyncsGoOn /\ RunGoesOn
    BY <2>1, UnchangedAdvances, SameGoOn DEF RunGoesOn, NoRun
  <2>4. DecisionsKnown' /\ OneStandingProposal'
    BY <2>3, RowsKept DEF Inv, SafeInv
  <2>5. MovesKnown'
    BY <2>2, <2>3, MovesKept DEF Inv, SafeInv, Advances
  <2>6. LockHeld'
    BY <2>1, <2>2 DEF Inv, SafeInv, LockHeld, Settling
  <2>7. WriteAhead'
    BY <2>1, <2>3, WriteAheadKept DEF Inv, SafeInv, Advances
  <2>8. InHandIsRequested'
    BY <2>2, InHandVoid
  <2> QED BY <2>4, <2>5, <2>6, <2>7, <2>8 DEF SafeInv
<1> QED BY <1>1, <1>2, <1>3 DEF RunStep

\* The part of instance i goes on, the others are as they were.
PartGoesOn(i) ==
  /\ part'[i].pc # "ready" => part[i].pc # "ready" /\ part'[i].move = part[i].move
  /\ \A j \in Instances : j # i => part'[j] = part[j]

LEMMA PartGoesOnAlone ==
  ASSUME NEW i \in Instances, PartGoesOn(i)
  PROVE  PartsGoOn
BY DEF PartGoesOn, PartsGoOn

LEMMA PartAtGoesOn ==
  ASSUME Inv, NEW i \in Instances, part[i].pc # "ready", NEW pc,
         part' = [part EXCEPT ![i].pc = pc]
  PROVE  PartGoesOn(i) /\ part'[i].pc = pc
BY DEF PartGoesOn, Inv, TypeOK, RunTyped, Part

LEMMA NextMoveGoesOn ==
  ASSUME Inv, NEW i \in Instances, NEW outcome, NextMove(i, outcome)
  PROVE  PartGoesOn(i) /\ part'[i].pc = "ready" /\ RunGoesOn
<1>1. part' = [part EXCEPT ![i] = [Ready EXCEPT !.begun = TRUE]]
  BY DEF NextMove
<1>2. PartGoesOn(i) /\ part'[i].pc = "ready"
  BY <1>1 DEF PartGoesOn, Ready, Inv, TypeOK, RunTyped
<1>3. RunGoesOn
  BY DEF NextMove, RunGoesOn, Inv, TypeOK, RunTyped, Run
<1> QED BY <1>2, <1>3

\* The end of a move is written by the part that had it in hand.
LEMMA OwnMoveWritten ==
  ASSUME Inv, NEW i \in Instances, PartGoesOn(i), part'[i].pc \notin InHandPCs,
         NEW d, InstanceOfMove(d) = i,
         \A e \in Decisions : e # d => StaysRequested(e)
  PROVE  \A j \in Instances : part'[j].pc \in InHandPCs =>
           part[j].pc \in InHandPCs /\ StaysRequested(part[j].move)
<1> SUFFICES ASSUME NEW j \in Instances, part'[j].pc \in InHandPCs
             PROVE  part[j].pc \in InHandPCs /\ StaysRequested(part[j].move)
  OBVIOUS
<1>1. j # i /\ part[j].pc \in InHandPCs
  BY DEF PartGoesOn
<1>2. part[j].move # d /\ part[j].move \in Decisions
  BY <1>1, OtherInHand DEF Inv, SafeInv, InHandPCs
<1> QED BY <1>1, <1>2

LEMMA InHandOfPart ==
  ASSUME Inv, NEW i \in Instances, part[i].pc # "ready"
  PROVE  Known(part[i].move) /\ InstanceOfMove(part[i].move) = i
BY DEF Inv, SafeInv, MovesKnown

LEMMA PartBeginsSafe ==
  ASSUME Inv, NEW i \in Instances,
         \/ FailBatch(i)
         \/ StopPart(i)
         \/ \E d \in Decisions, verdict \in {"send", "retire", "leave"} :
              CheckMove(i, d, verdict)
  PROVE  SafeInv'
<1> USE DEF db, runVars, syncVars, arrVars, history, bounds
<1>1. CASE FailBatch(i)
  <2>1. /\ UNCHANGED <<lock, part, sync, puts, commands>>
        /\ part[i].pc = "ready"
    BY <1>1 DEF FailBatch, Turn
  <2>2. RunGoesOn
    BY <1>1 DEF FailBatch, RunGoesOn, Inv, TypeOK, RunTyped, Run
  <2>3. \A d \in QueueOf(i) : Known(d) /\ InstanceOfMove(d) = i
    BY DEF QueueOf, Inv, SafeInv, MovesKnown
  <2>4. \A d \in Decisions : d \notin QueueOf(i) => decision'[d] = decision[d]
    BY <1>1 DEF FailBatch
  <2>5. \A d \in QueueOf(i) :
          /\ decision'[d].status \in {"failed", "applied"}
          /\ decision'[d].title = decision[d].title
          /\ decision'[d].from = decision[d].from
          /\ decision'[d].to = decision[d].to
    <3> SUFFICES ASSUME NEW d \in QueueOf(i)
                 PROVE  /\ decision'[d].status \in {"failed", "applied"}
                        /\ decision'[d].title = decision[d].title
                        /\ decision'[d].from = decision[d].from
                        /\ decision'[d].to = decision[d].to
      OBVIOUS
    <3>1. d \in Decisions /\ decision[d] \in DecisionRow
      BY <2>3 DEF Known, Inv, TypeOK, DbTyped
    <3>2. decision'[d] = Failed(d, run.direction)[d]
      BY <1>1, <3>1 DEF FailBatch
    <3>3. \/ decision'[d] = [decision[d] EXCEPT !.status = "failed"]
          \/ decision'[d] = [decision[d] EXCEPT !.status = "applied", !.reverted = FALSE]
      BY <3>1, <3>2 DEF Failed, Inv, TypeOK, DbTyped
    <3> QED BY <3>1, <3>3 DEF DecisionRow
  <2>6. Advances
    BY <2>3, <2>4, <2>5 DEF Advances, Grows, Standing, Known
  <2>7. \A j \in Instances : part'[j].pc \in InHandPCs =>
          part[j].pc \in InHandPCs /\ StaysRequested(part[j].move)
    <3> SUFFICES ASSUME NEW j \in Instances, part[j].pc \in InHandPCs
                 PROVE  StaysRequested(part[j].move)
      BY <2>1
    <3>1. j # i /\ Known(part[j].move) /\ InstanceOfMove(part[j].move) = j
      BY <2>1, InHandOfPart DEF InHandPCs
    <3>2. part[j].move \in Decisions /\ part[j].move \notin QueueOf(i)
      BY <2>3, <3>1 DEF Known
    <3> QED BY <2>4, <3>2 DEF StaysRequested
  <2> QED BY <2>1, <2>2, <2>6, <2>7, SameGoOn, GoesOn
<1>2. CASE StopPart(i)
  <2>1. UNCHANGED <<decision, lock, part, sync, puts, commands>>
    BY <1>2 DEF StopPart
  <2>2. RunGoesOn
    <3>1. run'.todo = run.todo /\ run'.queue = QueueStopped(i)
      BY <1>2 DEF StopPart, Inv, TypeOK, RunTyped, Run
    <3> QED BY <3>1 DEF RunGoesOn, QueueStopped
  <2> QED BY <2>1, <2>2, SameGoOn, UnchangedAdvances, AllStayRequested, GoesOn
<1>3. ASSUME NEW d \in Decisions, NEW verdict \in {"send", "retire", "leave"},
             CheckMove(i, d, verdict)
      PROVE  SafeInv'
  <2> DEFINE moves == Revalidated(i, d)
             move == CHOOSE e \in moves : TRUE
  <2>1. /\ UNCHANGED <<lock, sync, puts, commands>>
        /\ lock = "run"
        /\ d \in QueueOf(i)
        /\ part[i].pc = "ready"
    BY <1>3 DEF CheckMove, Turn
  <2>2. Advances /\ \A e \in Decisions : StaysRequested(e)
    <3>1. PICK retired : decision' = Retired(retired)
      BY <1>3 DEF CheckMove
    <3> QED BY <3>1, RetiredAdvances DEF Inv
  <2>3. RunGoesOn
    <3>1. run' = [run EXCEPT !.queue = run.queue \ {d}]
      BY <1>3 DEF CheckMove
    <3> QED BY <3>1 DEF RunGoesOn, Inv, TypeOK, RunTyped, Run
  <2>4. \A e \in moves : Known(e) /\ InstanceOfMove(e) = i
    <3>1. Known(d) /\ InstanceOfMove(d) = i
      BY <2>1 DEF QueueOf, Inv, SafeInv, MovesKnown
    <3>2. \A e \in CurrentProposals({d}) : Known(e) /\ InstanceOfMove(e) = i
      <4> SUFFICES ASSUME NEW e \in CurrentProposals({d}), e # d
                   PROVE  Known(e) /\ InstanceOfMove(e) = i
        BY <3>1
      <4>1. e \in Decisions /\ Standing(e) /\ decision[e].title = decision[d].title
        BY DEF CurrentProposals
      <4> QED BY <3>1, <4>1 DEF Known, InstanceOfMove, Standing
    <3>3. \A e \in moves : e = d \/ e \in CurrentProposals({d})
      BY DEF Revalidated
    <3> QED BY <3>1, <3>2, <3>3
  <2>5. /\ \A j \in Instances : j # i => part'[j] = part[j]
        /\ part'[i].pc \in {"ready", "checked"}
        /\ part'[i].pc = "checked" =>
             Known(part'[i].move) /\ InstanceOfMove(part'[i].move) = i
    <3>1. moves # {} => Known(move) /\ InstanceOfMove(move) = i
      <4>1. moves # {} => move \in moves
        OBVIOUS
      <4> HIDE DEF move, moves
      <4> QED BY <2>4, <4>1
    <3>2. part' = [part EXCEPT ![i] =
                     IF verdict # "send" \/ moves = {}
                     THEN [part[i] EXCEPT !.begun = TRUE]
                     ELSE [part[i] EXCEPT !.pc = "checked", !.begun = TRUE, !.move = move]]
      BY <1>3 DEF CheckMove
    <3>3. part \in [Instances -> Part] /\ part[i] \in Part
      BY DEF Inv, TypeOK, RunTyped
    <3> HIDE DEF moves, move
    <3>4. CASE verdict # "send" \/ moves = {}
      <4>1. part'[i] = [part[i] EXCEPT !.begun = TRUE]
        BY <3>2, <3>3, <3>4
      <4>2. part'[i].pc = "ready"
        BY <2>1, <3>3, <4>1 DEF Part
      <4> QED BY <3>2, <3>3, <4>2
    <3>5. CASE verdict = "send" /\ moves # {}
      <4>1. part'[i] = [part[i] EXCEPT !.pc = "checked", !.begun = TRUE, !.move = move]
        BY <3>2, <3>3, <3>5
      <4>2. part'[i].pc = "checked" /\ part'[i].move = move
        BY <3>3, <4>1 DEF Part
      <4> QED BY <3>1, <3>2, <3>3, <3>5, <4>2
    <3> QED BY <3>4, <3>5
  <2>6. DecisionsKnown' /\ OneStandingProposal'
    BY <2>2, RowsKept DEF Inv, SafeInv
  <2>7. MovesKnown'
    <3>1. \A e \in run'.todo \cup run'.queue : KnownNext(e)
      BY <2>2, <2>3, KnownKept DEF RunGoesOn, Inv, SafeInv, MovesKnown, Advances
    <3>2. ASSUME NEW j \in Instances, part'[j].pc # "ready"
          PROVE  KnownNext(part'[j].move) /\ InstanceNext(part'[j].move) = j
      <4>1. Known(part'[j].move) /\ InstanceOfMove(part'[j].move) = j
        BY <2>5, <3>2, InHandOfPart
      <4> QED BY <2>2, <4>1, KnownKept DEF Advances
    <3>3. \A j \in Instances :
            /\ \A e \in sync'[j].rows : KnownNext(e)
            /\ sync'[j].pc = "held" => KnownNext(sync'[j].move)
      BY <2>1, <2>2, KnownKept DEF Inv, SafeInv, MovesKnown, Advances
    <3> QED BY <3>1, <3>2, <3>3, MovesKnownNext
  <2>8. LockHeld'
    BY <2>1 DEF Inv, SafeInv, LockHeld, Settling
  <2>9. WriteAhead'
    BY <2>1, <2>2, WriteAheadKept DEF Inv, SafeInv, Advances
  <2>10. InHandIsRequested'
    <3>1. \A j \in Instances : part'[j].pc \in InHandPCs => j # i /\ part'[j] = part[j]
      BY <2>5 DEF InHandPCs
    <3>2. \A j \in Instances : part'[j].pc \in InHandPCs => part[j].pc \in InHandPCs
      BY <3>1
    <3> QED BY <2>2, <3>1, <3>2, AllStayRequested, InHandKept DEF Inv, SafeInv
  <2> QED BY <2>6, <2>7, <2>8, <2>9, <2>10 DEF SafeInv
<1> QED BY <1>1, <1>2, <1>3

\* The request is committed before it is sent: the PUT finds its decision
\* recorded, and the part finds it requested.
LEMMA RequestMoveSafe ==
  ASSUME Inv, NEW i \in Instances, RequestMove(i)
  PROVE  SafeInv'
<1> USE DEF db, runVars, syncVars, arrVars, history, bounds
<1> DEFINE d == part[i].move
<1>1. /\ UNCHANGED <<lock, run, sync, commands>>
      /\ part[i].pc = "checked"
      /\ part' = [part EXCEPT ![i].pc = "sent"]
      /\ decision' = Requested(d, run.direction)
      /\ puts' = puts \cup {PutOf(d)}
  BY DEF RequestMove
<1>2. Known(d) /\ InstanceOfMove(d) = i
  BY <1>1, InHandOfPart
<1>3. /\ Advances
      /\ \A e \in Decisions : StaysRequested(e)
      /\ decision'[d].status = "requested"
  BY <1>1, <1>2, RequestedAdvances DEF Inv
<1>4. PartGoesOn(i) /\ PartsGoOn /\ RunGoesOn /\ SyncsGoOn
  BY <1>1, PartAtGoesOn, PartGoesOnAlone, SameGoOn
<1>5. DecisionsKnown' /\ OneStandingProposal'
  BY <1>3, RowsKept DEF Inv, SafeInv
<1>6. MovesKnown'
  BY <1>3, <1>4, MovesKept DEF Inv, SafeInv, Advances
<1>7. LockHeld'
  BY <1>1, <1>4, LockKept DEF Inv, SafeInv
<1>8. WriteAhead'
  <2>1. \A p \in puts : p.move \in Decisions
    BY DEF Inv, TypeOK, ArrTyped, Put
  <2>2. \A p \in puts' : decision'[p.move].status \notin {"absent", "pending"}
    BY <1>1, <1>3, <2>1 DEF PutOf, Inv, SafeInv, WriteAhead, Advances, Grows
  <2>3. \A t \in Titles : \A n \in DOMAIN commands'[t] :
          decision'[commands'[t][n].by].status \notin {"absent", "pending"}
    <3>1. ASSUME NEW t \in Titles, NEW n \in DOMAIN commands[t]
          PROVE  commands[t][n].by \in Decisions
      <4>1. commands[t] \in Seq(Command)
        BY DEF Inv, TypeOK, ArrTyped
      <4>2. commands[t][n] \in Command
        BY <4>1, ListedCommands
      <4> QED BY <4>2 DEF Command
    <3> QED BY <1>1, <1>3, <3>1 DEF Inv, SafeInv, WriteAhead, Advances, Grows
  <2> QED BY <2>2, <2>3 DEF WriteAhead
<1>9. InHandIsRequested'
  <2>1. ASSUME NEW j \in Instances, part'[j].pc \in InHandPCs
        PROVE  decision'[part'[j].move].status = "requested"
    <3>1. CASE j = i
      BY <1>1, <1>3, <1>4, <2>1, <3>1 DEF PartGoesOn, InHandPCs
    <3>2. CASE j # i
      <4>1. part'[j] = part[j]
        BY <1>4, <3>2 DEF PartGoesOn
      <4>2. Known(part[j].move)
        BY <2>1, <4>1, InHandOfPart DEF InHandPCs
      <4> QED
        BY <1>3, <2>1, <4>1, <4>2 DEF Inv, SafeInv, InHandIsRequested, InHandPCs,
                                      StaysRequested, Known
    <3> QED BY <3>1, <3>2
  <2> QED BY <2>1 DEF InHandIsRequested, InHandPCs
<1> QED BY <1>5, <1>6, <1>7, <1>8, <1>9 DEF SafeInv

LEMMA PartFollowsSafe ==
  ASSUME Inv, NEW i \in Instances,
         \/ RequestRefused(i)
         \/ AnswerTimedOut(i)
         \/ \E answered \in BOOLEAN : ReadBack(i, answered)
         \/ RecordSent(i)
         \/ FollowCommands(i)
         \/ \E answered \in BOOLEAN : FollowTitle(i, answered)
         \/ FollowStopped(i)
  PROVE  SafeInv'
<1> USE DEF db, runVars, syncVars, arrVars, history, bounds
<1>1. ASSUME UNCHANGED <<decision, lock, sync, puts, commands>>, RunGoesOn, PartGoesOn(i),
             part'[i].pc \in InHandPCs => part[i].pc \in InHandPCs
      PROVE  SafeInv'
  <2>1. \A j \in Instances : part'[j].pc \in InHandPCs => part[j].pc \in InHandPCs
    BY <1>1 DEF PartGoesOn
  <2> QED
    BY <1>1, <2>1, PartGoesOnAlone, SameGoOn, UnchangedAdvances, AllStayRequested, GoesOn
<1>2. CASE RequestRefused(i)
  <2>1. /\ UNCHANGED <<decision, lock, run, sync, puts, commands>>
        /\ part[i].pc = "checked"
        /\ part' = [part EXCEPT ![i].pc = "failed"]
    BY <1>2 DEF RequestRefused
  <2>2. PartGoesOn(i) /\ part'[i].pc = "failed"
    BY <2>1, PartAtGoesOn
  <2>3. RunGoesOn
    BY <2>1, SameGoOn
  <2> QED BY <1>1, <2>1, <2>2, <2>3 DEF InHandPCs
<1>3. CASE AnswerTimedOut(i)
  <2>1. /\ UNCHANGED <<decision, lock, run, sync, puts, commands>>
        /\ part[i].pc = "sent"
        /\ part' = [part EXCEPT ![i].pc = "unanswered"]
    BY <1>3 DEF AnswerTimedOut
  <2>2. PartGoesOn(i) /\ part'[i].pc = "unanswered"
    BY <2>1, PartAtGoesOn
  <2>3. RunGoesOn
    BY <2>1, SameGoOn
  <2> QED BY <1>1, <2>1, <2>2, <2>3 DEF InHandPCs
<1>4. ASSUME NEW answered \in BOOLEAN, ReadBack(i, answered)
      PROVE  SafeInv'
  <2>1. /\ UNCHANGED <<decision, lock, run, sync, puts, commands>>
        /\ part[i].pc = "unanswered"
    BY <1>4 DEF ReadBack
  <2>2. PICK pc : part' = [part EXCEPT ![i].pc = pc]
    BY <1>4 DEF ReadBack
  <2>3. PartGoesOn(i)
    BY <2>1, <2>2, PartAtGoesOn
  <2>4. RunGoesOn
    BY <2>1, SameGoOn
  <2> QED BY <1>1, <2>1, <2>3, <2>4 DEF InHandPCs
<1>5. CASE RecordSent(i)
  <2>1. /\ UNCHANGED <<decision, lock, run, sync, puts, commands>>
        /\ part[i].pc = "taken"
        /\ part' = [part EXCEPT ![i].pc = "following"]
    BY <1>5 DEF RecordSent
  <2>2. PartGoesOn(i) /\ part'[i].pc = "following"
    BY <2>1, PartAtGoesOn
  <2>3. RunGoesOn
    BY <2>1, SameGoOn
  <2> QED BY <1>1, <2>1, <2>2, <2>3 DEF InHandPCs
<1>6. CASE FollowCommands(i)
  <2>1. /\ UNCHANGED <<decision, lock, run, sync, puts, commands>>
        /\ part[i].pc = "following"
    BY <1>6 DEF FollowCommands
  <2>2. PICK pc : part' = [part EXCEPT ![i].pc = pc]
    BY <1>6 DEF FollowCommands
  <2>3. PartGoesOn(i)
    BY <2>1, <2>2, PartAtGoesOn
  <2>4. RunGoesOn
    BY <2>1, SameGoOn
  <2> QED BY <1>1, <2>1, <2>3, <2>4 DEF InHandPCs
<1>7. ASSUME NEW answered \in BOOLEAN, FollowTitle(i, answered)
      PROVE  SafeInv'
  <2> DEFINE held == arr[decision[part[i].move].title]
  <2>1. /\ UNCHANGED <<decision, lock, run, sync, puts, commands>>
        /\ part[i].pc = "over"
        /\ \/ part' = [part EXCEPT ![i] = [part[i] EXCEPT !.pc = "read", !.held = held]]
           \/ part' = [part EXCEPT ![i] = [part[i] EXCEPT !.pc = "following"]]
    BY <1>7 DEF FollowTitle
  <2> HIDE DEF held
  <2>2. PartGoesOn(i)
    BY <2>1 DEF PartGoesOn, Inv, TypeOK, RunTyped, Part
  <2> QED BY <1>1, <2>1, <2>2, SameGoOn DEF InHandPCs
<1>8. CASE FollowStopped(i)
  <2>1. /\ UNCHANGED <<decision, lock, sync, puts, commands>>
        /\ part' = [part EXCEPT ![i] = [Ready EXCEPT !.begun = TRUE]]
    BY <1>8 DEF FollowStopped
  <2>2. PartGoesOn(i) /\ part'[i].pc = "ready"
    BY <2>1 DEF PartGoesOn, Ready, Inv, TypeOK, RunTyped
  <2>3. RunGoesOn
    <3>1. run'.todo = run.todo /\ run'.queue = QueueStopped(i)
      BY <1>8 DEF FollowStopped, Inv, TypeOK, RunTyped, Run
    <3> QED BY <3>1 DEF RunGoesOn, QueueStopped
  <2> QED BY <1>1, <2>1, <2>2, <2>3 DEF InHandPCs
<1> QED BY <1>2, <1>3, <1>4, <1>5, <1>6, <1>7, <1>8

LEMMA PartRecordsSafe ==
  ASSUME Inv, NEW i \in Instances,
         \/ RecordSuccess(i)
         \/ RecordFollowed(i)
         \/ RecordFailure(i)
         \/ RecordLost(i)
  PROVE  SafeInv'
<1> USE DEF db, runVars, syncVars, arrVars, history, bounds
<1> DEFINE d == part[i].move
<1>1. Known(d) /\ InstanceOfMove(d) = i
  BY InHandOfPart DEF RecordSuccess, RecordFollowed, RecordFailure, RecordLost
<1>2. UNCHANGED <<lock, sync, puts, commands>>
  BY DEF RecordSuccess, RecordFollowed, RecordFailure, RecordLost
<1>3. ASSUME NEW outcome, NextMove(i, outcome),
             Advances, \A e \in Decisions : e # d => StaysRequested(e)
      PROVE  SafeInv'
  <2>1. PartGoesOn(i) /\ part'[i].pc = "ready" /\ RunGoesOn
    BY <1>3, NextMoveGoesOn
  <2> HIDE DEF d
  <2>2. \A j \in Instances : part'[j].pc \in InHandPCs =>
          part[j].pc \in InHandPCs /\ StaysRequested(part[j].move)
    BY <1>1, <1>3, <2>1, OwnMoveWritten DEF InHandPCs
  <2> QED BY <1>2, <1>3, <2>1, <2>2, PartGoesOnAlone, SameGoOn, GoesOn
<1>4. CASE RecordSuccess(i)
  <2>1. Advances /\ \A e \in Decisions : e # d => StaysRequested(e)
    BY <1>1, <1>4, MadeAdvances DEF RecordSuccess, Inv
  <2>2. NextMove(i, "done")
    BY <1>4 DEF RecordSuccess
  <2> QED BY <1>3, <2>1, <2>2
<1>5. CASE RecordFollowed(i)
  <2>1. \/ decision' = Confirmed(d, run.direction)
        \/ decision' = Failed(d, run.direction)
    BY <1>5 DEF RecordFollowed
  <2>2. Advances /\ \A e \in Decisions : e # d => StaysRequested(e)
    BY <1>1, <2>1, ConfirmedAdvances, FailedAdvances DEF Inv
  <2>3. PICK outcome : NextMove(i, outcome)
    BY <1>5 DEF RecordFollowed
  <2> QED BY <1>3, <2>2, <2>3
<1>6. CASE RecordFailure(i)
  <2>1. Advances /\ \A e \in Decisions : e # d => StaysRequested(e)
    BY <1>1, <1>6, FailedAdvances DEF RecordFailure, Inv
  <2>2. NextMove(i, "failed")
    BY <1>6 DEF RecordFailure
  <2> QED BY <1>3, <2>1, <2>2
<1>7. CASE RecordLost(i)
  <2>1. decision' = decision
    BY <1>7 DEF RecordLost
  <2>2. Advances /\ \A e \in Decisions : StaysRequested(e)
    BY <2>1, UnchangedAdvances
  <2>3. CASE part[i].pc = "taken" /\ run.files
    <3>1. part' = [part EXCEPT ![i].pc = "following"] /\ run' = run
      BY <1>7, <2>3 DEF RecordLost
    <3>2. PartGoesOn(i)
      BY <2>3, <3>1, PartAtGoesOn
    <3>3. \A j \in Instances : part'[j].pc \in InHandPCs => part[j].pc \in InHandPCs
      BY <2>3, <3>2 DEF PartGoesOn, InHandPCs
    <3> QED
      BY <1>2, <2>2, <3>1, <3>2, <3>3, PartGoesOnAlone, SameGoOn, AllStayRequested, GoesOn
  <2>4. CASE ~(part[i].pc = "taken" /\ run.files)
    <3>1. PICK outcome : NextMove(i, outcome)
      BY <1>7, <2>4 DEF RecordLost
    <3> QED BY <1>3, <2>2, <3>1
  <2> QED BY <2>3, <2>4
<1> QED BY <1>4, <1>5, <1>6, <1>7

LEMMA PartStepSafe ==
  ASSUME Inv, NEW i \in Instances, PartStep(i)
  PROVE  SafeInv'
BY PartBeginsSafe, RequestMoveSafe, PartFollowsSafe, PartRecordsSafe DEF PartStep

\* The sync of instance i goes on, the others are as they were.
SyncGoesOn(i) ==
  /\ sync'[i].rows \subseteq sync[i].rows
  /\ sync'[i].pc \in {"settling", "held"} => Settling(i)
  /\ sync'[i].pc = "held" =>
       \/ sync'[i].move \in sync[i].rows
       \/ sync[i].pc = "held" /\ sync'[i].move = sync[i].move
  /\ \A j \in Instances : j # i => sync'[j] = sync[j]

LEMMA SyncGoesOnAlone ==
  ASSUME NEW i \in Instances, SyncGoesOn(i)
  PROVE  SyncsGoOn
BY DEF SyncGoesOn, SyncsGoOn, Settling

LEMMA SyncRefreshSafe ==
  ASSUME Inv, NEW i \in Instances,
         \/ SyncBegin(i)
         \/ SyncRead(i)
         \/ SyncFail(i)
         \/ \E cleanup \in BOOLEAN : SyncWrite(i, cleanup)
  PROVE  SafeInv'
<1> USE DEF db, runVars, syncVars, arrVars, history, bounds
<1>1. sync \in [Instances -> Sync] /\ sync[i] \in Sync
  BY DEF Inv, TypeOK, SyncTyped
<1>2. UNCHANGED <<lock, run, part, puts, commands>>
  BY DEF SyncBegin, SyncRead, SyncFail, SyncWrite
<1>3. ASSUME SyncGoesOn(i), Advances, \A d \in Decisions : StaysRequested(d)
      PROVE  SafeInv'
  BY <1>2, <1>3, SyncGoesOnAlone, SameGoOn, AllStayRequested, GoesOn
<1>4. CASE SyncBegin(i)
  <2>1. SyncGoesOn(i)
    BY <1>1, <1>4 DEF SyncBegin, SyncGoesOn, Sync
  <2> QED BY <1>3, <1>4, <2>1, UnchangedAdvances DEF SyncBegin
<1>5. CASE SyncRead(i)
  <2> DEFINE snap == [t \in Titles |-> IF InstanceOf[t] = i THEN arr[t] ELSE None]
  <2>1. sync' = [sync EXCEPT ![i].pc = "read", ![i].snap = snap]
    BY <1>5 DEF SyncRead
  <2> HIDE DEF snap
  <2>2. SyncGoesOn(i)
    BY <1>1, <2>1 DEF SyncGoesOn, Sync
  <2> QED BY <1>3, <1>5, <2>2, UnchangedAdvances DEF SyncRead
<1>6. CASE SyncFail(i)
  <2>1. SyncGoesOn(i)
    BY <1>1, <1>6 DEF SyncFail, SyncGoesOn, NoSync
  <2> QED BY <1>3, <1>6, <2>1, UnchangedAdvances DEF SyncFail
<1>7. ASSUME NEW cleanup \in BOOLEAN, SyncWrite(i, cleanup)
      PROVE  SafeInv'
  <2>1. SyncGoesOn(i)
    <3>1. sync' = [sync EXCEPT ![i] = [NoSync EXCEPT !.pc = "written"]]
      BY <1>7 DEF SyncWrite
    <3> QED BY <1>1, <3>1 DEF SyncGoesOn, NoSync
  <2>2. PICK ids : decision' = Retired(ids)
    BY <1>7 DEF SyncWrite
  <2> QED BY <1>3, <2>1, <2>2, RetiredAdvances DEF Inv
<1> QED BY <1>4, <1>5, <1>6, <1>7

LEMMA SettleSafe ==
  ASSUME Inv, NEW i \in Instances,
         \/ SettleSkip(i)
         \/ SettleUnread(i)
         \/ SettleRecord(i)
         \/ \E d \in Decisions : SettlePick(i, d)
  PROVE  SafeInv'
<1> USE DEF db, runVars, syncVars, arrVars, history, bounds
<1>1. sync \in [Instances -> Sync] /\ sync[i] \in Sync
  BY DEF Inv, TypeOK, SyncTyped
<1>2. UNCHANGED <<lock, run, part, puts, commands>>
  <2>1. CASE SettleSkip(i)
    BY <2>1 DEF SettleSkip
  <2>2. CASE SettleUnread(i)
    BY <2>2 DEF SettleUnread
  <2>3. CASE SettleRecord(i)
    BY <2>3 DEF SettleRecord
  <2>4. ASSUME NEW d \in Decisions, SettlePick(i, d)
        PROVE  UNCHANGED <<lock, run, part, puts, commands>>
    BY <2>4 DEF SettlePick
  <2> QED BY <2>1, <2>2, <2>3, <2>4
<1>3. ASSUME SyncGoesOn(i), decision' = decision
      PROVE  SafeInv'
  BY <1>2, <1>3, SyncGoesOnAlone, SameGoOn, UnchangedAdvances, AllStayRequested, GoesOn
<1>4. ASSUME SyncGoesOn(i), Settling(i), Advances
      PROVE  SafeInv'
  <2>1. \A j \in Instances : part[j].pc = "ready"
    BY <1>4, NothingInHand DEF Inv, SafeInv
  <2>2. \A j \in Instances : part'[j].pc \in InHandPCs =>
          part[j].pc \in InHandPCs /\ StaysRequested(part[j].move)
    BY <1>2, <2>1 DEF InHandPCs
  <2> QED BY <1>2, <1>4, <2>2, SyncGoesOnAlone, SameGoOn, GoesOn
<1>5. CASE SettleSkip(i)
  <2>1. SyncGoesOn(i)
    BY <1>1, <1>5 DEF SettleSkip, SyncGoesOn, NoSync
  <2> QED BY <1>3, <1>5, <2>1 DEF SettleSkip
<1>6. CASE SettleUnread(i)
  <2>1. SyncGoesOn(i)
    <3>1. sync' = [sync EXCEPT ![i] = [sync[i] EXCEPT !.pc = "settling", !.move = None,
                                                      !.held = None]]
          /\ sync[i].pc = "held"
      BY <1>6 DEF SettleUnread
    <3> QED BY <1>1, <3>1 DEF SyncGoesOn, Settling, Sync
  <2> QED BY <1>3, <1>6, <2>1 DEF SettleUnread
<1>7. CASE SettleRecord(i)
  <2> DEFINE d == sync[i].move
  <2>1. sync[i].pc = "held" /\ Known(d)
    BY <1>7 DEF SettleRecord, Inv, SafeInv, MovesKnown
  <2>2. SyncGoesOn(i) /\ Settling(i)
    <3>1. sync' = [sync EXCEPT ![i] = [sync[i] EXCEPT !.pc = "settling", !.move = None,
                                                      !.held = None]]
      BY <1>7 DEF SettleRecord
    <3> QED BY <1>1, <2>1, <3>1 DEF SyncGoesOn, Settling, Sync
  <2>3. Advances
    <3>1. \/ decision' = Confirmed(d, SettleDirection(i, d))
          \/ decision' = Failed(d, SettleDirection(i, d))
      BY <1>7 DEF SettleRecord
    <3> QED BY <2>1, <3>1, ConfirmedAdvances, FailedAdvances DEF Inv
  <2> QED BY <1>4, <2>2, <2>3
<1>8. ASSUME NEW d \in Decisions, SettlePick(i, d)
      PROVE  SafeInv'
  <2> DEFINE t == decision[d].title
             left == [sync[i] EXCEPT !.rows = sync[i].rows \ {d}]
             held == [left EXCEPT !.pc = "held", !.move = d, !.held = arr[t]]
  <2>1. sync[i].pc = "settling" /\ d \in sync[i].rows
    BY <1>8 DEF SettlePick
  <2>2. Known(d)
    BY <2>1 DEF Inv, SafeInv, MovesKnown
  <2>3. SyncGoesOn(i) /\ Settling(i)
    <3>1. sync' = [sync EXCEPT ![i] = left] \/ sync' = [sync EXCEPT ![i] = held]
      BY <1>8 DEF SettlePick
    <3>2. left.rows \subseteq sync[i].rows /\ left.pc = "settling"
      BY <1>1, <2>1 DEF Sync
    <3>3. held.rows \subseteq sync[i].rows /\ held.pc = "held" /\ held.move = d
      <4> HIDE DEF t
      <4> QED BY <1>1, <2>1 DEF Sync
    <3> HIDE DEF left, held
    <3> QED BY <1>1, <2>1, <3>1, <3>2, <3>3 DEF SyncGoesOn, Settling
  <2>4. Advances
    <3>1. decision' = decision \/ decision' = Failed(d, SettleDirection(i, d))
      BY <1>8 DEF SettlePick
    <3> QED BY <2>2, <3>1, UnchangedAdvances, FailedAdvances DEF Inv
  <2> QED BY <1>4, <2>3, <2>4
<1> QED BY <1>5, <1>6, <1>7, <1>8

\* The rows are read, the lock taken and dropped: no decision changes.
LEMMA SettleLocksSafe ==
  ASSUME Inv, NEW i \in Instances, SettleRead(i) \/ SettleLock(i) \/ SettleEnd(i)
  PROVE  SafeInv'
<1> USE DEF db, runVars, syncVars, arrVars, history, bounds
<1>1. sync \in [Instances -> Sync] /\ sync[i] \in Sync
  BY DEF Inv, TypeOK, SyncTyped
<1>2. UNCHANGED <<decision, run, part, puts, commands>>
  BY DEF SettleRead, SettleLock, SettleEnd
<1>3. Advances
  BY <1>2, UnchangedAdvances
<1>4. DecisionsKnown' /\ OneStandingProposal'
  BY <1>3, RowsKept DEF Inv, SafeInv
<1>5. WriteAhead'
  BY <1>2, <1>3, WriteAheadKept DEF Inv, SafeInv, Advances
<1>6. InHandIsRequested'
  BY <1>2 DEF Inv, SafeInv, InHandIsRequested
<1>7. ASSUME \A j \in Instances : j # i => sync'[j] = sync[j],
             \A d \in sync'[i].rows : Known(d),
             sync'[i].pc # "held"
      PROVE  MovesKnown'
  <2>1. \A j \in Instances :
          /\ \A d \in sync'[j].rows : Known(d)
          /\ sync'[j].pc = "held" => Known(sync'[j].move)
    BY <1>7 DEF Inv, SafeInv, MovesKnown
  <2>2. \A j \in Instances :
          /\ \A d \in sync'[j].rows : KnownNext(d)
          /\ sync'[j].pc = "held" => KnownNext(sync'[j].move)
    BY <1>3, <2>1, KnownKept DEF Advances
  <2>3. \A d \in run'.todo \cup run'.queue : KnownNext(d)
    BY <1>2 DEF Inv, SafeInv, MovesKnown, Known, KnownNext
  <2>4. \A j \in Instances : part'[j].pc # "ready" =>
          KnownNext(part'[j].move) /\ InstanceNext(part'[j].move) = j
    BY <1>2 DEF Inv, SafeInv, MovesKnown, Known, KnownNext, InstanceOfMove, InstanceNext
  <2> QED BY <2>2, <2>3, <2>4, MovesKnownNext
<1>8. CASE SettleRead(i)
  <2> DEFINE left == LeftRequested(i)
             back == {d \in left : decision[d].reverted}
  <2>1. sync' = [sync EXCEPT ![i] =
                   IF left = {} THEN NoSync
                   ELSE [NoSync EXCEPT !.pc = "rows", !.rows = left, !.back = back]]
    BY <1>8 DEF SettleRead
  <2>2. \A d \in left : Known(d)
    BY DEF LeftRequested, Known
  <2> HIDE DEF left, back
  <2>3. /\ \A j \in Instances : j # i => sync'[j] = sync[j]
        /\ \A d \in sync'[i].rows : Known(d)
        /\ sync'[i].pc \in {"idle", "rows"}
    BY <1>1, <2>1, <2>2 DEF NoSync
  <2>4. MovesKnown'
    BY <1>7, <2>3
  <2>5. LockHeld'
    BY <1>2, <1>8, <2>3 DEF SettleRead, Inv, SafeInv, LockHeld, Settling
  <2> QED BY <1>4, <1>5, <1>6, <2>4, <2>5 DEF SafeInv
<1>9. CASE SettleLock(i)
  <2> DEFINE running == {t \in TitlesOf(i) : LatestOf(t) = "running"}
             ended == {t \in TitlesOf(i) : LatestOf(t) = "ended"}
  <2>1. /\ lock = "free" /\ lock' = "settle"
        /\ sync' = [sync EXCEPT ![i].pc = "settling", ![i].running = running,
                                ![i].ended = ended]
    BY <1>9 DEF SettleLock
  <2> HIDE DEF running, ended
  <2>2. /\ \A j \in Instances : j # i => sync'[j] = sync[j]
        /\ sync'[i].rows = sync[i].rows
        /\ sync'[i].pc = "settling"
    BY <1>1, <2>1 DEF Sync
  <2>3. MovesKnown'
    BY <1>7, <2>2 DEF Inv, SafeInv, MovesKnown
  <2>4. LockHeld'
    BY <1>2, <2>1, <2>2 DEF Inv, SafeInv, LockHeld, Settling
  <2> QED BY <1>4, <1>5, <1>6, <2>3, <2>4 DEF SafeInv
<1>10. CASE SettleEnd(i)
  <2>1. /\ lock' = "free" /\ Settling(i)
        /\ sync' = [sync EXCEPT ![i] = NoSync]
    BY <1>10 DEF SettleEnd, Settling
  <2>2. /\ \A j \in Instances : j # i => sync'[j] = sync[j]
        /\ sync'[i].rows = {}
        /\ sync'[i].pc = "idle"
    BY <1>1, <2>1 DEF NoSync
  <2>3. MovesKnown'
    BY <1>7, <2>2
  <2>4. LockHeld'
    <3>1. \A j \in Instances : part[j].pc = "ready"
      BY <2>1, NothingInHand DEF Inv, SafeInv
    <3>2. \A j \in Instances : j # i => ~Settling(j)
      BY <2>1 DEF Inv, SafeInv, LockHeld
    <3> QED BY <1>2, <2>2, <3>1, <3>2 DEF LockHeld, Settling
  <2> QED BY <1>4, <1>5, <1>6, <2>3, <2>4 DEF SafeInv
<1> QED BY <1>8, <1>9, <1>10

LEMMA SyncStepSafe ==
  ASSUME Inv, NEW i \in Instances, SyncStep(i)
  PROVE  SafeInv'
BY SyncRefreshSafe, SettleSafe, SettleLocksSafe DEF SyncStep

\* The commands listed belong to decisions of S.
ListedOf(s, S) == \A n \in DOMAIN s : s[n].by \in S

LEMMA ListedOfKept ==
  ASSUME NEW S, NEW s \in Seq(Command), ListedOf(s, S)
  PROVE  /\ \A c \in Command : c.by \in S => ListedOf(Append(s, c), S)
         /\ \A c \in Command, n \in 1..Len(s) : c.by \in S => ListedOf([s EXCEPT ![n] = c], S)
         /\ s # <<>> => ListedOf(Tail(s), S)
<1>1. DOMAIN s = 1..Len(s) /\ Len(s) \in Nat
  BY LenProperties
<1>2. ASSUME NEW c \in Command, c.by \in S
      PROVE  ListedOf(Append(s, c), S)
  <2>1. /\ Len(Append(s, c)) = Len(s) + 1
        /\ Append(s, c) \in Seq(Command)
        /\ \A k \in 1..Len(s) : Append(s, c)[k] = s[k]
        /\ Append(s, c)[Len(s) + 1] = c
    BY AppendProperties
  <2>2. DOMAIN Append(s, c) = 1..(Len(s) + 1)
    BY <2>1, LenProperties
  <2>3. \A k \in 1..(Len(s) + 1) : k \in 1..Len(s) \/ k = Len(s) + 1
    BY <1>1
  <2> HIDE DEF Command
  <2> QED BY <1>1, <1>2, <2>1, <2>2, <2>3 DEF ListedOf
<1>3. ASSUME NEW c \in Command, c.by \in S, NEW n \in 1..Len(s)
      PROVE  ListedOf([s EXCEPT ![n] = c], S)
  BY <1>1, <1>3 DEF ListedOf
<1>4. ASSUME s # <<>>
      PROVE  ListedOf(Tail(s), S)
  <2>1. /\ Tail(s) \in Seq(Command)
        /\ Len(Tail(s)) = Len(s) - 1
        /\ \A k \in 1..Len(Tail(s)) : Tail(s)[k] = s[k + 1]
    BY <1>4, HeadTailProperties
  <2>2. DOMAIN Tail(s) = 1..Len(Tail(s))
    BY <2>1, LenProperties
  <2>3. \A k \in 1..Len(Tail(s)) : k + 1 \in DOMAIN s
    BY <1>1, <2>1
  <2> QED BY <2>1, <2>2, <2>3 DEF ListedOf
<1> QED BY <1>2, <1>3, <1>4

Sent == {d \in Decisions : decision[d].status \notin {"absent", "pending"}}

\* WriteAhead says that what is on its way and what is listed was sent.
LEMMA WriteAheadMeans ==
  ASSUME TypeOK
  PROVE  /\ WriteAhead => \A p \in puts : p.move \in Sent
         /\ WriteAhead => \A t \in Titles : ListedOf(commands[t], Sent)
         /\ (decision' = decision /\ puts' \subseteq puts
             /\ (\A p \in puts : p.move \in Sent)
             /\ (\A t \in Titles : ListedOf(commands'[t], Sent))) => WriteAhead'
<1>1. ASSUME WriteAhead, NEW p \in puts
      PROVE  p.move \in Sent
  BY <1>1 DEF WriteAhead, Sent, TypeOK, ArrTyped, Put
<1>2. ASSUME WriteAhead, NEW t \in Titles, NEW n \in DOMAIN commands[t]
      PROVE  commands[t][n].by \in Sent
  <2>1. commands[t] \in Seq(Command)
    BY DEF TypeOK, ArrTyped
  <2>2. commands[t][n] \in Command
    BY <2>1, ListedCommands
  <2>3. commands[t][n].by \in Decisions
    BY <2>2 DEF Command
  <2> QED BY <1>2, <2>3 DEF WriteAhead, Sent
<1>3. ASSUME decision' = decision, puts' \subseteq puts, \A p \in puts : p.move \in Sent,
             \A t \in Titles : ListedOf(commands'[t], Sent)
      PROVE  WriteAhead'
  BY <1>3 DEF WriteAhead, ListedOf, Sent
<1> QED BY <1>1, <1>2, <1>3 DEF ListedOf

\* What only the Arr did: its answers, its commands, its titles.
LEMMA ArrOnly ==
  ASSUME Inv, UNCHANGED <<decision, lock, run, sync>>, PartsGoOn,
         \A i \in Instances : part'[i].pc \in InHandPCs => part[i].pc \in InHandPCs,
         puts' \subseteq puts, \A t \in Titles : ListedOf(commands'[t], Sent)
  PROVE  SafeInv'
<1>1. Advances /\ \A d \in Decisions : StaysRequested(d)
  BY UnchangedAdvances
<1>2. RunGoesOn /\ SyncsGoOn
  BY SameGoOn
<1>3. DecisionsKnown' /\ OneStandingProposal'
  BY <1>1, RowsKept DEF Inv, SafeInv
<1>4. MovesKnown'
  BY <1>1, <1>2, MovesKept DEF Inv, SafeInv, Advances
<1>5. LockHeld'
  BY <1>2, LockKept DEF Inv, SafeInv
<1>6. WriteAhead'
  BY WriteAheadMeans DEF Inv, SafeInv
<1>7. InHandIsRequested'
  <2>1. \A i \in Instances : part'[i].pc \in InHandPCs =>
          part[i].pc \in InHandPCs /\ StaysRequested(part[i].move)
    BY <1>1, AllStayRequested
  <2>2. \A i \in Instances : part'[i].pc \in InHandPCs => part'[i].move = part[i].move
    BY DEF PartsGoOn, InHandPCs
  <2> QED BY <2>1, <2>2, InHandKept DEF Inv, SafeInv
<1> QED BY <1>3, <1>4, <1>5, <1>6, <1>7 DEF SafeInv

LEMMA AnsweredGoesOn ==
  ASSUME Inv, NEW p, NEW pc, pc # "ready", part' = Answered(p, pc)
  PROVE  /\ PartsGoOn
         /\ \A i \in Instances : part'[i].pc \in InHandPCs => part[i].pc \in InHandPCs
<1>1. \A i \in Instances : part[i] \in Part
  BY DEF Inv, TypeOK, RunTyped
<1>2. \A i \in Instances :
        \/ part'[i] = part[i]
        \/ part[i].pc = "sent" /\ part'[i] = [part[i] EXCEPT !.pc = pc]
  BY DEF Answered, WaitingFor
<1>3. \A i \in Instances :
        \/ part'[i] = part[i]
        \/ part[i].pc = "sent" /\ part'[i].move = part[i].move
  BY <1>1, <1>2 DEF Part
<1> QED BY <1>3 DEF PartsGoOn, InHandPCs

LEMMA ArrStepSafe ==
  ASSUME Inv, ArrStep
  PROVE  SafeInv'
<1> USE DEF db, runVars, syncVars, arrVars, history, bounds
<1>1. /\ \A p \in puts : p.move \in Sent
      /\ \A t \in Titles : ListedOf(commands[t], Sent)
  BY WriteAheadMeans DEF Inv, SafeInv
<1>2. commands \in [Titles -> Seq(Command)]
  BY DEF Inv, TypeOK, ArrTyped
<1>3. ASSUME NEW p \in puts, NEW answered \in BOOLEAN, ArrTake(p, answered)
      PROVE  SafeInv'
  <2> DEFINE t == decision[p.move].title
             command == [by |-> p.move, from |-> arr[t], to |-> p.to,
                         state |-> "running"]
  <2>1. UNCHANGED <<decision, lock, run, sync>> /\ puts' \subseteq puts
    BY <1>3 DEF ArrTake
  <2>2. PICK pc : pc # "ready" /\ part' = Answered(p, pc)
    BY <1>3 DEF ArrTake
  <2>3. p.move \in Decisions /\ p.to \in Folders /\ t \in Titles
    BY OnItsWay DEF Inv, SafeInv
  <2>4. command \in Command /\ command.by \in Sent
    <3>1. arr[t] \in Folders
      BY <1>3, <2>3 DEF ArrTake, Inv, TypeOK, ArrTyped, Folder
    <3> QED BY <1>1, <2>3, <3>1 DEF Command
  <2>5. \/ commands' = commands
        \/ commands' = [commands EXCEPT ![t] = Append(commands[t], command)]
    BY <1>3 DEF ArrTake
  <2> HIDE DEF t, command
  <2>6. \A u \in Titles : ListedOf(commands'[u], Sent)
    <3>1. ListedOf(Append(commands[t], command), Sent)
      BY <1>1, <1>2, <2>3, <2>4, ListedOfKept
    <3> QED BY <1>1, <1>2, <2>3, <2>5, <3>1
  <2> QED BY <2>1, <2>2, <2>6, AnsweredGoesOn, ArrOnly
<1>4. ASSUME NEW p \in puts, NEW answered \in BOOLEAN, ArrDrop(p, answered)
      PROVE  SafeInv'
  <2>1. UNCHANGED <<decision, lock, run, sync, commands>> /\ puts' \subseteq puts
    BY <1>4 DEF ArrDrop
  <2>2. PICK pc : pc # "ready" /\ part' = Answered(p, pc)
    BY <1>4 DEF ArrDrop
  <2> QED BY <1>1, <2>1, <2>2, AnsweredGoesOn, ArrOnly
<1>5. ASSUME NEW t \in Titles, NEW state \in {"completed", "ended"},
             NEW back \in BOOLEAN, NEW n \in DOMAIN commands[t],
             CommandEnd(t, n, state, back)
      PROVE  SafeInv'
  <2> DEFINE command == commands[t][n]
             over == [command EXCEPT !.state = state]
  <2>1. UNCHANGED <<decision, lock, run, part, sync, puts>>
    BY <1>5 DEF CommandEnd
  <2>2. commands[t] \in Seq(Command)
    BY <1>2
  <2>3. command \in Command /\ n \in 1..Len(commands[t]) /\ command.by \in Sent
    BY <1>1, <2>2, ListedCommands DEF ListedOf
  <2>4. over \in Command /\ over.by \in Sent
    <3> HIDE DEF command
    <3> QED BY <2>3 DEF Command
  <2>5. commands' = [commands EXCEPT ![t] = [commands[t] EXCEPT ![n] = over]]
    BY <1>5 DEF CommandEnd
  <2> HIDE DEF over
  <2>6. \A u \in Titles : ListedOf(commands'[u], Sent)
    <3>1. ListedOf([commands[t] EXCEPT ![n] = over], Sent)
      BY <1>1, <2>2, <2>3, <2>4, ListedOfKept
    <3> QED BY <1>1, <1>2, <2>5, <3>1
  <2> QED BY <2>1, <2>6, SameGoOn, ArrOnly
<1>6. ASSUME NEW t \in Titles, CommandForget(t)
      PROVE  SafeInv'
  <2>1. UNCHANGED <<decision, lock, run, part, sync, puts>> /\ commands[t] # <<>>
    BY <1>6 DEF CommandForget
  <2>2. commands' = [commands EXCEPT ![t] = Tail(commands[t])]
    BY <1>6 DEF CommandForget
  <2>3. \A u \in Titles : ListedOf(commands'[u], Sent)
    <3>1. ListedOf(Tail(commands[t]), Sent)
      BY <1>1, <1>2, <2>1, ListedOfKept
    <3> QED BY <1>1, <1>2, <2>2, <3>1
  <2> QED BY <2>1, <2>3, SameGoOn, ArrOnly
<1>7. ASSUME NEW t \in Titles, NEW folder \in Folder, HandMove(t, folder)
      PROVE  SafeInv'
  <2>1. UNCHANGED <<decision, lock, run, part, sync, puts, commands>>
    BY <1>7 DEF HandMove
  <2> QED BY <1>1, <2>1, SameGoOn, ArrOnly
<1> QED BY <1>3, <1>4, <1>5, <1>6, <1>7 DEF ArrStep

LEMMA CrashSafe ==
  ASSUME Inv, Crash
  PROVE  SafeInv'
<1> USE DEF db, runVars, syncVars, arrVars, history, bounds
<1>1. /\ UNCHANGED <<decision, puts, commands>>
      /\ lock' = "free"
      /\ run' = NoRun
      /\ part' = [i \in Instances |-> Ready]
      /\ sync' = [i \in Instances |-> NoSync]
  BY DEF Crash
<1>2. PartsGoOn /\ \A i \in Instances : part'[i].pc = "ready"
  BY <1>1, NoneGoOn
<1>3. Advances
  BY <1>1, UnchangedAdvances
<1>4. RunGoesOn /\ SyncsGoOn /\ \A i \in Instances : sync'[i].pc = "idle"
  BY <1>1 DEF RunGoesOn, NoRun, SyncsGoOn, NoSync
<1>5. DecisionsKnown' /\ OneStandingProposal'
  BY <1>3, RowsKept DEF Inv, SafeInv
<1>6. MovesKnown'
  BY <1>2, <1>3, <1>4, MovesKept DEF Inv, SafeInv, Advances
<1>7. LockHeld'
  BY <1>2, <1>4 DEF LockHeld, Settling
<1>8. WriteAhead'
  BY <1>1, <1>3, WriteAheadKept DEF Inv, SafeInv, Advances
<1>9. InHandIsRequested'
  BY <1>2, InHandVoid
<1> QED BY <1>5, <1>6, <1>7, <1>8, <1>9 DEF SafeInv

LEMMA NextInv ==
  ASSUME Inv, [Next]_vars
  PROVE  Inv'
<1>1. TypeOK'
  BY NextTypes DEF Inv, SafeInv
<1>2. CASE Next
  BY <1>1, <1>2, SimulateSafe, OperatorSafe, RunStepSafe, PartStepSafe, SyncStepSafe,
     ArrStepSafe, CrashSafe DEF Next, Inv
<1>3. CASE UNCHANGED vars
  <2>1. UNCHANGED <<decision, lock, run, part, sync, puts, commands>>
    BY <1>3 DEF vars
  <2>2. SafeInv'
    BY <2>1, SameGoOn, UnchangedAdvances, AllStayRequested, GoesOn
  <2> QED BY <1>1, <2>2 DEF Inv
<1> QED BY <1>2, <1>3

-----------------------------------------------------------------------------
(***************************************************************************)
(* The theorems.                                                           *)
(***************************************************************************)

\* Inv holds in every state a behaviour of the executor reaches.
THEOREM Invariance == Spec => []Inv
<1>1. Init => Inv
  BY InitInv
<1>2. Inv /\ [Next]_vars => Inv'
  BY NextInv
<1> QED BY <1>1, <1>2, PTL DEF Spec

\* Every variable keeps its type, whatever the constants and the bounds.
THEOREM TypeCorrect == Spec => []TypeOK
<1>1. Inv => TypeOK
  BY DEF Inv
<1> QED BY <1>1, Invariance, PTL

\* No PUT leaves and no command is listed for a decision a restart would not
\* find recorded as sent (record_requested commits before the send).
THEOREM WrittenAhead == Spec => []WriteAhead
<1>1. Inv => WriteAhead
  BY DEF Inv, SafeInv
<1> QED BY <1>1, Invariance, PTL

\* No sync settles a move a run has in hand: the "apply" lock keeps them apart
\* (settle_requested, run_apply).
THEOREM SettledByTheRun == Spec => []InHandIsRequested
<1>1. Inv => InHandIsRequested
  BY DEF Inv, SafeInv
<1> QED BY <1>1, Invariance, PTL

\* No title has two proposals standing (store_run).
THEOREM StandingProposals == Spec => []OneStandingProposal
<1>1. Inv => OneStandingProposal
  BY DEF Inv, SafeInv
<1> QED BY <1>1, Invariance, PTL

-----------------------------------------------------------------------------
(***************************************************************************)
(* What a step leaves of the parts and of the run.                         *)
(***************************************************************************)

LEMMA PartGoes ==
  ASSUME Inv, NEW i \in Instances, NEW pc, part' = [part EXCEPT ![i].pc = pc]
  PROVE  /\ part'[i].pc = pc /\ part'[i].move = part[i].move
         /\ part'[i].begun = part[i].begun /\ part'[i].held = part[i].held
         /\ \A j \in Instances : j # i => part'[j] = part[j]
<1>1. part[i] \in Part /\ part \in [Instances -> Part]
  BY DEF Inv, TypeOK, RunTyped
<1>2. part'[i] = [part[i] EXCEPT !.pc = pc] /\ \A j \in Instances : j # i => part'[j] = part[j]
  BY <1>1
<1>3. part[i] = [pc |-> part[i].pc, move |-> part[i].move, begun |-> part[i].begun, held |-> part[i].held]
  BY <1>1 DEF Part
<1>4. part'[i] = [pc |-> pc, move |-> part[i].move, begun |-> part[i].begun, held |-> part[i].held]
  BY <1>2, <1>3
<1> QED BY <1>2, <1>4

\* The part is ready for its next move.
LEMMA PartNext ==
  ASSUME Inv, NEW i \in Instances, part' = [part EXCEPT ![i] = [Ready EXCEPT !.begun = TRUE]]
  PROVE  /\ part'[i].pc = "ready" /\ part'[i].begun
         /\ \A j \in Instances : j # i => part'[j] = part[j]
BY DEF Inv, TypeOK, RunTyped, Ready

LEMMA NextMoveMeans ==
  ASSUME Inv, NEW i \in Instances, NEW outcome, NextMove(i, outcome)
  PROVE  /\ part'[i].pc = "ready" /\ part'[i].begun
         /\ \A j \in Instances : j # i => part'[j] = part[j]
         /\ run'.direction = run.direction /\ run'.files = run.files /\ run'.queue = run.queue
<1>1. run'.direction = run.direction /\ run'.files = run.files /\ run'.queue = run.queue
  BY DEF NextMove, Inv, TypeOK, RunTyped, Run
<1> QED BY <1>1, PartNext DEF NextMove

LEMMA AnsweredMeans ==
  ASSUME Inv, NEW p, NEW pc, part' = Answered(p, pc)
  PROVE  \A i \in Instances :
           \/ i \notin WaitingFor(p) /\ part'[i] = part[i]
           \/ /\ i \in WaitingFor(p) /\ part'[i].pc = pc /\ part'[i].move = part[i].move
              /\ part'[i].begun = part[i].begun /\ part'[i].held = part[i].held
BY DEF Answered, Inv, TypeOK, RunTyped, Part

\* The move a part takes, and what becomes of the queue.
LEMMA CheckMoveMeans ==
  ASSUME Inv, NEW i \in Instances, NEW d \in Decisions, NEW verdict, CheckMove(i, d, verdict)
  PROVE  /\ part[i].pc = "ready" /\ d \in run.queue /\ InstanceOfMove(d) = i /\ lock = "run"
         /\ run'.direction = run.direction /\ run'.files = run.files /\ run'.queue = run.queue \ {d}
         /\ \A j \in Instances : j # i => part'[j] = part[j]
         /\ part'[i].begun
         /\ \/ part'[i].pc = "ready"
            \/ part'[i].pc = "checked" /\ part'[i].move \in Revalidated(i, d)
<1> DEFINE moves == Revalidated(i, d)
           move == CHOOSE e \in moves : TRUE
<1>1. part[i].pc = "ready" /\ d \in run.queue /\ InstanceOfMove(d) = i /\ lock = "run"
  BY DEF CheckMove, Turn, QueueOf
<1>2. run'.direction = run.direction /\ run'.files = run.files /\ run'.queue = run.queue \ {d}
  BY DEF CheckMove, Inv, TypeOK, RunTyped, Run
<1>3. part' = [part EXCEPT ![i] = IF verdict # "send" \/ moves = {} THEN [part[i] EXCEPT !.begun = TRUE]
                ELSE [part[i] EXCEPT !.pc = "checked", !.begun = TRUE, !.move = move]]
  BY DEF CheckMove
<1>4. moves # {} => move \in moves
  OBVIOUS
<1>5. part[i] \in Part /\ part \in [Instances -> Part]
  BY DEF Inv, TypeOK, RunTyped
<1> HIDE DEF moves, move
<1>6. \A j \in Instances : j # i => part'[j] = part[j]
  BY <1>3, <1>5
<1>7. CASE verdict # "send" \/ moves = {}
  <2>1. part'[i] = [part[i] EXCEPT !.begun = TRUE]
    BY <1>3, <1>5, <1>7
  <2>2. part'[i].begun /\ part'[i].pc = "ready"
    BY <1>1, <1>5, <2>1 DEF Part
  <2> QED BY <1>1, <1>2, <1>6, <2>2
<1>8. CASE ~ (verdict # "send" \/ moves = {})
  <2>1. part'[i] = [part[i] EXCEPT !.pc = "checked", !.begun = TRUE, !.move = move]
    BY <1>3, <1>5, <1>8
  <2>2. part'[i].begun /\ part'[i].pc = "checked" /\ part'[i].move = move
    BY <1>5, <2>1 DEF Part
  <2> QED BY <1>1, <1>2, <1>4, <1>6, <1>8, <2>2 DEF moves
<1> QED BY <1>7, <1>8

-----------------------------------------------------------------------------
(***************************************************************************)
(* What a write leaves of the decisions.                                   *)
(***************************************************************************)

SameMove(d) ==
  /\ decision'[d].title = decision[d].title
  /\ decision'[d].from = decision[d].from
  /\ decision'[d].to = decision[d].to

\* Superseded perhaps, and nothing else.
Stays(d) ==
  /\ SameMove(d)
  /\ decision'[d].status = decision[d].status
  /\ decision'[d].reverted = decision[d].reverted

LEMMA SameStays ==
  ASSUME decision' = decision
  PROVE  \A d \in Decisions : Stays(d)
BY DEF Stays, SameMove

LEMMA RetiredStays ==
  ASSUME Inv, NEW ids, decision' = Retired(ids)
  PROVE  \A d \in Decisions : Stays(d)
<1> SUFFICES ASSUME NEW d \in Decisions PROVE Stays(d)
  OBVIOUS
<1>1. decision[d] \in DecisionRow
  BY DEF Inv, TypeOK, DbTyped
<1>2. decision'[d] = decision[d] \/ decision'[d] = [decision[d] EXCEPT !.superseded = TRUE]
  BY DEF Retired
<1> QED BY <1>1, <1>2 DEF Stays, SameMove, DecisionRow

LEMMA RequestedMeans ==
  ASSUME Inv, NEW d \in Decisions, NEW direction, decision' = Requested(d, direction)
  PROVE  /\ \A e \in Decisions : e # d => Stays(e)
         /\ SameMove(d) /\ decision'[d].status = "requested"
         /\ decision'[d].reverted = (direction = "revert" \/ decision[d].reverted)
<1>1. decision \in [Decisions -> DecisionRow] /\ decision[d] \in DecisionRow
  BY DEF Inv, TypeOK, DbTyped
<1>2. PICK b : b = (direction = "revert" \/ decision[d].reverted)
  OBVIOUS
<1>3. decision' = [decision EXCEPT ![d].status = "requested", ![d].reverted = b]
  BY <1>2 DEF Requested
<1>4. \A e \in Decisions : e # d => Stays(e)
  BY <1>1, <1>3 DEF Stays, SameMove
<1>5. SameMove(d) /\ decision'[d].status = "requested" /\ decision'[d].reverted = b
  BY <1>1, <1>3 DEF SameMove, DecisionRow
<1> QED BY <1>2, <1>4, <1>5

LEMMA SettledSinceStays ==
  ASSUME Inv, NEW d \in Decisions, NEW rows, decision' = SettleProposalsSince(d, rows),
         \A e \in Decisions : e # d => rows[e] = decision[e]
  PROVE  decision'[d] = rows[d] /\ \A e \in Decisions : e # d => Stays(e)
<1>1. decision'[d] = rows[d]
  BY DEF SettleProposalsSince
<1>2. ASSUME NEW e \in Decisions, e # d PROVE Stays(e)
  <2>1. decision'[e] = decision[e] \/ decision'[e] = [decision[e] EXCEPT !.superseded = TRUE]
    BY <1>2 DEF SettleProposalsSince
  <2>2. decision[e] \in DecisionRow
    BY DEF Inv, TypeOK, DbTyped
  <2> QED BY <2>1, <2>2 DEF Stays, SameMove, DecisionRow
<1> QED BY <1>1, <1>2

LEMMA MadeMeans ==
  ASSUME Inv, NEW d \in Decisions, NEW direction \in Directions, decision' = Made(d, direction)
  PROVE  /\ \A e \in Decisions : e # d => Stays(e)
         /\ SameMove(d)
         /\ decision'[d].status = (IF direction = "forward" THEN "applied" ELSE "skipped")
         /\ decision'[d].reverted = (direction = "revert" \/ decision[d].reverted)
<1>1. decision \in [Decisions -> DecisionRow] /\ decision[d] \in DecisionRow
  BY DEF Inv, TypeOK, DbTyped
<1>2. PICK b : b = (direction = "revert" \/ decision[d].reverted)
  OBVIOUS
<1>3. PICK s : s = (IF direction = "forward" THEN "applied" ELSE "skipped")
  OBVIOUS
<1>4. PICK new : new = [decision[d] EXCEPT !.status = s, !.reverted = b]
  OBVIOUS
<1>5. PICK rows : rows = [decision EXCEPT ![d] = new]
  OBVIOUS
<1>6. decision' = SettleProposalsSince(d, rows)
  BY <1>2, <1>3, <1>4, <1>5 DEF Made
<1>7. rows[d] = new /\ \A e \in Decisions : e # d => rows[e] = decision[e]
  BY <1>1, <1>5
<1>8. decision'[d] = new /\ \A e \in Decisions : e # d => Stays(e)
  BY <1>6, <1>7, SettledSinceStays
<1>9. SameMove(d) /\ decision'[d].status = s /\ decision'[d].reverted = b
  BY <1>1, <1>4, <1>8 DEF SameMove, DecisionRow
<1> QED BY <1>2, <1>3, <1>8, <1>9

LEMMA ConfirmedMeans ==
  ASSUME Inv, NEW d \in Decisions, NEW direction, decision' = Confirmed(d, direction)
  PROVE  /\ \A e \in Decisions : e # d => Stays(e)
         /\ decision[d].status # "requested" => Stays(d)
         /\ SameMove(d) /\ decision'[d].reverted = decision[d].reverted
         /\ decision[d].status = "requested" =>
              decision'[d].status = (IF direction = "forward" THEN "applied" ELSE "skipped")
<1>1. decision \in [Decisions -> DecisionRow] /\ decision[d] \in DecisionRow
  BY DEF Inv, TypeOK, DbTyped
<1>2. CASE decision[d].status # "requested"
  <2>1. decision' = decision
    BY <1>2 DEF Confirmed
  <2> QED BY <1>2, <2>1, SameStays DEF Stays
<1>3. CASE decision[d].status = "requested"
  <2>1. PICK s : s = (IF direction = "forward" THEN "applied" ELSE "skipped")
    OBVIOUS
  <2>2. PICK new : new = [decision[d] EXCEPT !.status = s]
    OBVIOUS
  <2>3. PICK rows : rows = [decision EXCEPT ![d] = new]
    OBVIOUS
  <2>4. decision' = SettleProposalsSince(d, rows)
    BY <1>3, <2>1, <2>2, <2>3 DEF Confirmed
  <2>5. rows[d] = new /\ \A e \in Decisions : e # d => rows[e] = decision[e]
    BY <1>1, <2>3
  <2>6. decision'[d] = new /\ \A e \in Decisions : e # d => Stays(e)
    BY <2>4, <2>5, SettledSinceStays
  <2>7. SameMove(d) /\ decision'[d].status = s /\ decision'[d].reverted = decision[d].reverted
    BY <1>1, <2>2, <2>6 DEF SameMove, DecisionRow
  <2> QED BY <1>3, <2>1, <2>6, <2>7
<1> QED BY <1>2, <1>3

\* d is failed, a move undone is in place again.
FailedNow(d, direction) ==
  /\ SameMove(d)
  /\ IF direction = "forward"
     THEN decision'[d].status = "failed" /\ decision'[d].reverted = decision[d].reverted
     ELSE decision'[d].status = "applied" /\ ~decision'[d].reverted

LEMMA FailedRow ==
  ASSUME Inv, NEW d \in Decisions, NEW direction, decision'[d] = Failed(d, direction)[d]
  PROVE  FailedNow(d, direction)
<1>1. decision \in [Decisions -> DecisionRow] /\ decision[d] \in DecisionRow
  BY DEF Inv, TypeOK, DbTyped
<1>2. IF direction = "forward" THEN decision'[d] = [decision[d] EXCEPT !.status = "failed"]
      ELSE decision'[d] = [decision[d] EXCEPT !.status = "applied", !.reverted = FALSE]
  BY <1>1 DEF Failed
<1> QED BY <1>1, <1>2 DEF FailedNow, SameMove, DecisionRow

LEMMA FailedMeans ==
  ASSUME Inv, NEW d \in Decisions, NEW direction, decision' = Failed(d, direction)
  PROVE  FailedNow(d, direction) /\ \A e \in Decisions : e # d => Stays(e)
<1>1. \A e \in Decisions : e # d => Stays(e)
  BY DEF Failed, Stays, SameMove, Inv, TypeOK, DbTyped
<1> QED BY <1>1, FailedRow

LEMMA FailBatchMeans ==
  ASSUME Inv, NEW i \in Instances, FailBatch(i)
  PROVE  \A d \in Decisions : IF d \in QueueOf(i) THEN FailedNow(d, run.direction) ELSE Stays(d)
<1> SUFFICES ASSUME NEW d \in Decisions
             PROVE  IF d \in QueueOf(i) THEN FailedNow(d, run.direction) ELSE Stays(d)
  OBVIOUS
<1>1. decision'[d] = IF d \in QueueOf(i) THEN Failed(d, run.direction)[d] ELSE decision[d]
  BY DEF FailBatch
<1> QED BY <1>1, FailedRow DEF Stays, SameMove

\* A simulation adds a proposal, whose folders differ.
LEMMA StoredMeans ==
  ASSUME Inv, NEW s \in sim, NEW d \in Decisions, SimulationStored(s, d)
  PROVE  /\ \A e \in Decisions : e # d => Stays(e)
         /\ decision[d].status = "absent"
         /\ \/ Stays(d)
            \/ /\ decision'[d].status = "pending" /\ ~decision'[d].reverted
               /\ decision'[d].from # decision'[d].to
<1>1. decision \in [Decisions -> DecisionRow] /\ decision[d].status = "absent"
  BY DEF Inv, TypeOK, DbTyped, SimulationStored
<1>2. PICK rows : rows = Superseded(s.title)
  OBVIOUS
<1>3. \A e \in Decisions : rows[e] = decision[e] \/ rows[e] = [decision[e] EXCEPT !.superseded = TRUE]
  BY <1>2 DEF Superseded, Retired
<1>4. DOMAIN rows = Decisions
  BY <1>2 DEF Superseded, Retired
<1>5. \/ decision' = decision
      \/ decision' = rows
      \/ s.from # s.to /\ decision' = [rows EXCEPT ![d] = Proposal(s)]
  BY <1>2 DEF SimulationStored
<1>6. ASSUME NEW e \in Decisions, decision'[e] = decision[e] \/ decision'[e] = rows[e]
      PROVE  Stays(e)
  <2>1. decision[e] \in DecisionRow
    BY <1>1
  <2> QED BY <1>3, <1>6, <2>1 DEF Stays, SameMove, DecisionRow
<1>7. CASE s.from # s.to /\ decision' = [rows EXCEPT ![d] = Proposal(s)]
  <2>1. decision'[d] = Proposal(s) /\ \A e \in Decisions : e # d => decision'[e] = rows[e]
    BY <1>4, <1>7
  <2> QED BY <1>1, <1>6, <1>7, <2>1 DEF Proposal
<1> QED BY <1>1, <1>5, <1>6, <1>7

-----------------------------------------------------------------------------
(***************************************************************************)
(* A stop lets out the move each part had checked already and no more.     *)
(***************************************************************************)

StopsInv ==
  \A i \in Instances :
    overrun[i] <= 1 /\ (StopReason /\ part[i].pc = "checked" => overrun[i] = 0)

LEMMA StopsGoOn ==
  ASSUME StopsInv, overrun' = overrun, StopReason' => StopReason,
         \A i \in Instances : part'[i].pc = "checked" => part[i].pc = "checked"
  PROVE  StopsInv'
BY DEF StopsInv

LEMMA StopsAnew ==
  ASSUME overrun' = [i \in Instances |-> 0]
  PROVE  StopsInv'
BY DEF StopsInv

LEMMA StopsKept ==
  ASSUME Inv, StopsInv, [Next]_vars
  PROVE  StopsInv'
<1> USE DEF db, runVars, syncVars, arrVars, history, bounds
<1>1. ASSUME UNCHANGED <<overrun, part, stop, dryRun>> PROVE StopsInv'
  BY <1>1, StopsGoOn DEF StopReason
<1>2. ASSUME UNCHANGED <<overrun, stop, dryRun>>,
             \A i \in Instances : part'[i].pc = "checked" => part[i].pc = "checked"
      PROVE  StopsInv'
  BY <1>2, StopsGoOn DEF StopReason
<1>3. CASE Simulate
  BY <1>1, <1>3 DEF Simulate, SimulationRead, SimulationStored
<1>4. CASE Operator
  <2>1. CASE StartSome
    BY <2>1, StopsAnew DEF StartSome, StartRun
  <2>2. ASSUME Cancel \/ \E on \in BOOLEAN : SetDryRun(on) PROVE StopsInv'
    <3>1. CASE StopReason
      <4>1. overrun' = overrun /\ part' = part
        BY <2>2, <3>1 DEF Cancel, SetDryRun
      <4> QED BY <3>1, <4>1, StopsGoOn
    <3>2. CASE ~StopReason
      BY <2>2, <3>2, StopsAnew DEF Cancel, SetDryRun
    <3> QED BY <3>1, <3>2
  <2> QED BY <1>4, <2>1, <2>2 DEF Operator
<1>5. CASE RunStep
  <2>1. CASE StopSlices \/ LoadFailed
    BY <1>1, <2>1 DEF StopSlices, LoadFailed
  <2>2. CASE \E batch, stale, retired \in SUBSET Decisions : LoadSlice(batch, stale, retired)
    <3>1. UNCHANGED <<overrun, stop, dryRun>> /\ part' = [i \in Instances |-> Ready]
      BY <2>2 DEF LoadSlice
    <3> QED BY <1>2, <3>1 DEF Ready
  <2>3. CASE FinishRun
    BY <2>3, StopsAnew DEF FinishRun
  <2> QED BY <1>5, <2>1, <2>2, <2>3 DEF RunStep
<1>6. ASSUME NEW i \in Instances, PartStep(i) PROVE StopsInv'
  <2>1. CASE FailBatch(i) \/ StopPart(i)
    BY <1>1, <2>1 DEF FailBatch, StopPart
  <2>2. ASSUME NEW d \in Decisions, NEW verdict \in {"send", "retire", "leave"}, CheckMove(i, d, verdict)
        PROVE  StopsInv'
    <3>1. UNCHANGED <<overrun, stop, dryRun>> /\ ~StopReason
      BY <2>2 DEF CheckMove
    <3> QED BY <3>1 DEF StopsInv, StopReason
  <2>3. CASE RequestMove(i)
    <3>1. /\ part[i].pc = "checked" /\ UNCHANGED <<stop, dryRun>> /\ part' = [part EXCEPT ![i].pc = "sent"]
          /\ overrun' = IF StopReason THEN [overrun EXCEPT ![i] = @ + 1] ELSE overrun
      BY <2>3 DEF RequestMove
    <3>2. part'[i].pc = "sent" /\ \A j \in Instances : j # i => part'[j] = part[j]
      <4>1. part' = [part EXCEPT ![i].pc = "sent"]
        BY <3>1
      <4> QED BY <4>1, PartGoes
    <3>3. overrun \in [Instances -> Nat]
      BY DEF Inv, TypeOK, HistoryTyped
    <3> QED BY <3>1, <3>2, <3>3 DEF StopsInv, StopReason
  <2>4. ASSUME NEW pc, pc # "checked", part' = [part EXCEPT ![i].pc = pc], UNCHANGED <<overrun, stop, dryRun>>
        PROVE  StopsInv'
    <3>1. \A j \in Instances : part'[j].pc = "checked" => part[j].pc = "checked"
      BY <2>4, PartGoes
    <3> QED BY <1>2, <2>4, <3>1
  <2>5. CASE RequestRefused(i) \/ AnswerTimedOut(i) \/ RecordSent(i)
    BY <2>4, <2>5 DEF RequestRefused, AnswerTimedOut, RecordSent
  <2>6. CASE \E answered \in BOOLEAN : ReadBack(i, answered)
    <3>1. PICK pc \in {"taken", "failed"} : part' = [part EXCEPT ![i].pc = pc]
      BY <2>6 DEF ReadBack
    <3>2. UNCHANGED <<overrun, stop, dryRun>>
      BY <2>6 DEF ReadBack
    <3> QED BY <2>4, <3>1, <3>2
  <2>7. CASE FollowCommands(i)
    <3>1. PICK pc \in {"over", "failed"} : part' = [part EXCEPT ![i].pc = pc]
      BY <2>7 DEF FollowCommands
    <3>2. UNCHANGED <<overrun, stop, dryRun>>
      BY <2>7 DEF FollowCommands
    <3> QED BY <2>4, <3>1, <3>2
  <2>8. CASE \E answered \in BOOLEAN : FollowTitle(i, answered)
    <3>1. \A j \in Instances : part'[j].pc = "checked" => part[j].pc = "checked"
      BY <2>8 DEF FollowTitle, Inv, TypeOK, RunTyped, Part
    <3>2. UNCHANGED <<overrun, stop, dryRun>>
      BY <2>8 DEF FollowTitle
    <3> QED BY <1>2, <3>1, <3>2
  <2>9. ASSUME part' = [part EXCEPT ![i] = [Ready EXCEPT !.begun = TRUE]], UNCHANGED <<overrun, stop, dryRun>>
        PROVE  StopsInv'
    <3>1. \A j \in Instances : part'[j].pc = "checked" => part[j].pc = "checked"
      BY <2>9, PartNext
    <3> QED BY <1>2, <2>9, <3>1
  <2>10. CASE RecordSuccess(i) \/ FollowStopped(i) \/ RecordFollowed(i) \/ RecordFailure(i)
    BY <2>9, <2>10 DEF RecordSuccess, FollowStopped, RecordFollowed, RecordFailure, NextMove
  <2>11. CASE RecordLost(i)
    <3>1. UNCHANGED <<overrun, stop, dryRun>>
      BY <2>11 DEF RecordLost
    <3>2. \/ part' = [part EXCEPT ![i].pc = "following"]
          \/ part' = [part EXCEPT ![i] = [Ready EXCEPT !.begun = TRUE]]
      BY <2>11 DEF RecordLost, NextMove
    <3> QED BY <2>4, <2>9, <3>1, <3>2
  <2> QED BY <1>6, <2>1, <2>2, <2>3, <2>5, <2>6, <2>7, <2>8, <2>10, <2>11 DEF PartStep
<1>7. ASSUME NEW i \in Instances, SyncStep(i) PROVE StopsInv'
  <2>1. UNCHANGED <<overrun, part, stop, dryRun>>
    BY <1>7 DEF SyncStep, SyncBegin, SyncRead, SyncFail, SyncWrite, SettleRead, SettleLock,
                SettleSkip, SettlePick, SettleUnread, SettleRecord, SettleEnd
  <2> QED BY <1>1, <2>1
<1>8. CASE ArrStep
  <2>1. ASSUME NEW p \in puts, NEW answered \in BOOLEAN, ArrTake(p, answered) \/ ArrDrop(p, answered)
        PROVE  StopsInv'
    <3>1. UNCHANGED <<overrun, stop, dryRun>>
      BY <2>1 DEF ArrTake, ArrDrop
    <3>2. PICK pc \in {"taken", "failed", "unanswered"} : part' = Answered(p, pc)
      BY <2>1 DEF ArrTake, ArrDrop
    <3>3. \A j \in Instances : part'[j].pc = "checked" => part[j].pc = "checked"
      BY <3>2, AnsweredMeans
    <3> QED BY <1>2, <3>1, <3>3
  <2>2. ASSUME UNCHANGED <<overrun, part, stop, dryRun>> PROVE StopsInv'
    BY <1>1, <2>2
  <2> QED BY <1>8, <2>1, <2>2 DEF ArrStep, CommandEnd, CommandForget, HandMove
<1>9. CASE Crash
  BY <1>9, StopsAnew DEF Crash
<1>10. CASE UNCHANGED vars
  BY <1>1, <1>10 DEF vars
<1> QED BY <1>3, <1>4, <1>5, <1>6, <1>7, <1>8, <1>9, <1>10 DEF Next

-----------------------------------------------------------------------------
(***************************************************************************)
(* A revert undoes the latest move of its title: none of those after it is *)
(* in place, nor may it be again, for none of them is in this run's hands. *)
(***************************************************************************)

QueueOfRun == lock # "run" => run.queue = {}

\* The moves the run has left or in hand.
Named(d) == d \in run.queue \/ \E i \in Instances : part[i].pc # "ready" /\ part[i].move = d

InPlace(d) == decision[d].status = "applied" /\ ~decision[d].reverted

LatestInv ==
  run.direction = "revert" =>
    \A d, e \in Decisions : Named(d) /\ e \in after[d] => ~Named(e) /\ ~InPlace(e)

LEMMA NamedKnown ==
  ASSUME Inv, NEW d, Named(d)
  PROVE  d \in Decisions /\ lock # "run" => d \in run.queue
<1>1. ASSUME d \in run.queue PROVE d \in Decisions
  BY <1>1 DEF Inv, SafeInv, MovesKnown, Known
<1>2. ASSUME NEW i \in Instances, part[i].pc # "ready", part[i].move = d
      PROVE  d \in Decisions /\ lock = "run"
  BY <1>2 DEF Inv, SafeInv, MovesKnown, Known, LockHeld
<1> QED BY <1>1, <1>2 DEF Named

LEMMA NoneNamed ==
  ASSUME Inv, QueueOfRun, lock # "run"
  PROVE  \A d : ~Named(d)
BY DEF QueueOfRun, Named, Inv, SafeInv, LockHeld

LEMMA LatestGoesOn ==
  ASSUME LatestInv, run'.direction = run.direction,
         \A d \in Decisions : Named(d)' => Named(d),
         run.direction = "revert" => after' = after,
         \A d \in Decisions : InPlace(d)' => InPlace(d) \/ Named(d)
  PROVE  LatestInv'
<1> HIDE DEF Named, InPlace
<1> QED BY DEF LatestInv

LEMMA LatestVoid ==
  ASSUME \A d \in Decisions : ~Named(d)'
  PROVE  LatestInv'
<1> HIDE DEF Named, InPlace
<1> QED BY DEF LatestInv

\* The run and its parts as they were, no other move in place.
LEMMA LatestStays ==
  ASSUME LatestInv, UNCHANGED <<run, part, after>>,
         \A d \in Decisions : InPlace(d)' => InPlace(d)
  PROVE  LatestInv'
<1>1. \A d \in Decisions : Named(d)' => Named(d)
  BY DEF Named
<1> QED BY <1>1, LatestGoesOn

\* The part of instance i writes the row of a move of the run.
LEMMA LatestOfPart ==
  ASSUME QueueOfRun, LatestInv, NEW i \in Instances, PartGoesOn(i), lock' = lock,
         run'.direction = run.direction, run'.queue \subseteq run.queue,
         run.direction = "revert" => after' = after,
         \A d \in Decisions : Stays(d) \/ Named(d)
  PROVE  QueueOfRun' /\ LatestInv'
<1>1. \A d \in Decisions : Named(d)' => Named(d)
  BY DEF PartGoesOn, Named
<1>2. \A d \in Decisions : InPlace(d)' => InPlace(d) \/ Named(d)
  <2>1. \A d \in Decisions : Stays(d) => (InPlace(d)' => InPlace(d))
    BY DEF Stays, InPlace
  <2> QED BY <2>1
<1>3. QueueOfRun'
  BY DEF QueueOfRun
<1> QED BY <1>1, <1>2, <1>3, LatestGoesOn

LEMMA LatestKeptByParts ==
  ASSUME Inv, QueueOfRun, LatestInv, NEW i \in Instances, PartStep(i)
  PROVE  QueueOfRun' /\ LatestInv'
<1> USE DEF db, runVars, syncVars, arrVars, history, bounds
<1> DEFINE m == part[i].move
<1>1. part[i].pc # "ready" => m \in Decisions /\ Named(m)
  BY DEF Inv, SafeInv, MovesKnown, Known, Named
<1>2. CASE FailBatch(i)
  <2>1. part' = part /\ lock' = lock /\ run'.direction = run.direction /\ run'.queue \subseteq run.queue
    BY <1>2 DEF FailBatch, Inv, TypeOK, RunTyped, Run
  <2>2. run.direction = "revert" => after' = after
    BY <1>2 DEF FailBatch
  <2>3. \A d \in Decisions : Stays(d) \/ Named(d)
    BY <1>2, FailBatchMeans DEF QueueOf, Named
  <2> QED BY <2>1, <2>2, <2>3, LatestOfPart DEF PartGoesOn
<1>3. CASE StopPart(i)
  <2>1. UNCHANGED <<part, lock, decision, after>>
    BY <1>3 DEF StopPart
  <2>2. run'.direction = run.direction /\ run'.queue \subseteq run.queue
    BY <1>3 DEF StopPart, QueueStopped, Inv, TypeOK, RunTyped, Run
  <2> QED BY <2>1, <2>2, SameStays, LatestOfPart DEF PartGoesOn
<1>4. ASSUME NEW d \in Decisions, NEW verdict \in {"send", "retire", "leave"}, CheckMove(i, d, verdict)
      PROVE  QueueOfRun' /\ LatestInv'
  <2>1. /\ lock = "run" /\ d \in run.queue /\ run'.direction = run.direction /\ run'.queue = run.queue \ {d}
        /\ \A j \in Instances : j # i => part'[j] = part[j]
        /\ part'[i].pc = "ready" \/ part'[i].move \in Revalidated(i, d)
    BY <1>4, CheckMoveMeans
  <2>2. lock' = lock /\ after' = after
    BY <1>4 DEF CheckMove
  <2>3. \A e \in Decisions : Stays(e)
    BY <1>4, RetiredStays DEF CheckMove
  <2>4. QueueOfRun'
    BY <2>1, <2>2 DEF QueueOfRun
  <2>5. CASE run.direction = "revert"
    <3>1. Revalidated(i, d) \subseteq {d}
      BY <2>5 DEF Revalidated
    <3>2. \A e \in Decisions : Named(e)' => Named(e)
      BY <2>1, <3>1 DEF Named
    <3>3. \A e \in Decisions : InPlace(e)' => InPlace(e)
      BY <2>3 DEF InPlace, Stays
    <3> QED BY <2>1, <2>2, <2>4, <3>2, <3>3, LatestGoesOn
  <2>6. CASE run.direction # "revert"
    BY <2>1, <2>4, <2>6 DEF LatestInv
  <2> QED BY <2>5, <2>6
<1>5. ASSUME NEW pc, part[i].pc # "ready", part' = [part EXCEPT ![i].pc = pc]
      PROVE  PartGoesOn(i)
  BY <1>5, PartGoes DEF PartGoesOn
<1>6. ASSUME part' = [part EXCEPT ![i] = [Ready EXCEPT !.begun = TRUE]]
      PROVE  PartGoesOn(i)
  BY <1>6, PartNext DEF PartGoesOn
<1>7. CASE RequestMove(i)
  <2>1. /\ part[i].pc = "checked" /\ part' = [part EXCEPT ![i].pc = "sent"] /\ UNCHANGED <<lock, run>>
        /\ decision' = Requested(m, run.direction)
        /\ run.direction = "revert" => after' = after
    BY <1>7 DEF RequestMove
  <2>2. \A d \in Decisions : Stays(d) \/ Named(d)
    BY <1>1, <2>1, RequestedMeans
  <2>3. PartGoesOn(i)
    <3>1. part[i].pc # "ready"
      BY <2>1
    <3> QED BY <1>5, <2>1, <3>1
  <2> QED BY <2>1, <2>2, <2>3, LatestOfPart
<1>8. ASSUME part[i].pc # "ready", UNCHANGED <<decision, after, lock, run>>,
             \E pc : part' = [part EXCEPT ![i].pc = pc]
      PROVE  QueueOfRun' /\ LatestInv'
  BY <1>5, <1>8, SameStays, LatestOfPart
<1>9. CASE RequestRefused(i) \/ AnswerTimedOut(i) \/ RecordSent(i)
  BY <1>8, <1>9 DEF RequestRefused, AnswerTimedOut, RecordSent
<1>10. CASE \E answered \in BOOLEAN : ReadBack(i, answered)
  BY <1>8, <1>10 DEF ReadBack
<1>11. CASE FollowCommands(i)
  BY <1>8, <1>11 DEF FollowCommands
<1>12. CASE \E answered \in BOOLEAN : FollowTitle(i, answered)
  <2>1. UNCHANGED <<decision, after, lock, run>>
    BY <1>12 DEF FollowTitle
  <2>2. PartGoesOn(i)
    BY <1>12 DEF FollowTitle, PartGoesOn, Inv, TypeOK, RunTyped, Part
  <2> QED BY <2>1, <2>2, SameStays, LatestOfPart
<1>13. ASSUME part[i].pc # "ready", NEW outcome, NextMove(i, outcome), lock' = lock,
              run.direction = "revert" => after' = after,
              \A d \in Decisions : Stays(d) \/ d = m
       PROVE  QueueOfRun' /\ LatestInv'
  <2>1. PartGoesOn(i) /\ run'.direction = run.direction /\ run'.queue = run.queue
    BY <1>6, <1>13, NextMoveMeans DEF NextMove
  <2> QED BY <1>1, <1>13, <2>1, LatestOfPart
<1>14. CASE RecordSuccess(i)
  <2>1. /\ part[i].pc = "taken" /\ decision' = Made(m, run.direction) /\ NextMove(i, "done") /\ lock' = lock
        /\ run.direction = "revert" => after' = after
    BY <1>14 DEF RecordSuccess
  <2>2. run.direction \in Directions
    BY DEF Inv, TypeOK, RunTyped, Run
  <2>3. part[i].pc # "ready" /\ m \in Decisions
    BY <1>1, <2>1
  <2> QED BY <1>13, <2>1, <2>2, <2>3, MadeMeans
<1>15. CASE FollowStopped(i)
  <2>1. part[i].pc = "following" /\ PartGoesOn(i) /\ UNCHANGED <<decision, after, lock>>
    BY <1>6, <1>15 DEF FollowStopped
  <2>2. run'.direction = run.direction /\ run'.queue \subseteq run.queue
    BY <1>15 DEF FollowStopped, QueueStopped, Inv, TypeOK, RunTyped, Run
  <2> QED BY <2>1, <2>2, SameStays, LatestOfPart
<1>16. CASE RecordFollowed(i)
  <2>1. /\ part[i].pc = "read" /\ \E outcome : NextMove(i, outcome) /\ lock' = lock
        /\ decision' = Confirmed(m, run.direction) \/ decision' = Failed(m, run.direction)
        /\ run.direction = "revert" => after' = after
    BY <1>16 DEF RecordFollowed, FailedStamps
  <2>2. part[i].pc # "ready" /\ m \in Decisions
    BY <1>1, <2>1
  <2>3. \A d \in Decisions : Stays(d) \/ d = m
    BY <2>1, <2>2, ConfirmedMeans, FailedMeans
  <2> QED BY <1>13, <2>1, <2>2, <2>3
<1>17. CASE RecordFailure(i)
  <2>1. /\ part[i].pc = "failed" /\ NextMove(i, "failed") /\ lock' = lock
        /\ decision' = Failed(m, run.direction)
        /\ run.direction = "revert" => after' = after
    BY <1>17 DEF RecordFailure, FailedStamps
  <2>2. part[i].pc # "ready" /\ m \in Decisions
    BY <1>1, <2>1
  <2> QED BY <1>13, <2>1, <2>2, FailedMeans
<1>18. CASE RecordLost(i)
  <2>1. UNCHANGED <<decision, after, lock>> /\ part[i].pc # "ready"
    BY <1>18 DEF RecordLost
  <2>2. \/ part' = [part EXCEPT ![i].pc = "following"] /\ run' = run
        \/ \E outcome : NextMove(i, outcome)
    BY <1>18 DEF RecordLost
  <2> QED BY <1>8, <1>13, <2>1, <2>2, SameStays
<1> QED BY <1>2, <1>3, <1>4, <1>7, <1>9, <1>10, <1>11, <1>12, <1>14, <1>15, <1>16, <1>17, <1>18 DEF PartStep

LEMMA LatestKept ==
  ASSUME Inv, QueueOfRun, LatestInv, [Next]_vars
  PROVE  QueueOfRun' /\ LatestInv'
<1> USE DEF db, runVars, syncVars, arrVars, history, bounds
<1>1. ASSUME UNCHANGED <<lock, run, part, after>>, \A d \in Decisions : InPlace(d)' => InPlace(d)
      PROVE  QueueOfRun' /\ LatestInv'
  BY <1>1, LatestStays DEF QueueOfRun
<1>2. ASSUME \A d \in Decisions : Stays(d) PROVE \A d \in Decisions : InPlace(d)' => InPlace(d)
  BY <1>2 DEF Stays, InPlace
<1>3. ASSUME run'.queue = {}, \A i \in Instances : part'[i].pc = "ready"
      PROVE  QueueOfRun' /\ LatestInv'
  <2>1. \A d : ~Named(d)'
    BY <1>3 DEF Named
  <2> QED BY <1>3, <2>1, LatestVoid DEF QueueOfRun
<1>4. CASE Simulate
  <2>1. UNCHANGED <<lock, run, part, after>>
    BY <1>4 DEF Simulate, SimulationRead, SimulationStored
  <2>2. CASE \E t \in Titles, to \in Folders : SimulationRead(t, to)
    BY <1>1, <1>2, <2>1, <2>2, SameStays DEF SimulationRead
  <2>3. ASSUME NEW s \in sim, NEW d \in Decisions, SimulationStored(s, d)
        PROVE  \A e \in Decisions : InPlace(e)' => InPlace(e)
    BY <2>3, StoredMeans DEF Stays, InPlace
  <2> QED BY <1>1, <1>4, <2>1, <2>2, <2>3 DEF Simulate
<1>5. CASE Operator
  <2>1. CASE StartSome
    BY <1>3, <2>1 DEF StartSome, StartRun, NoRun, Ready
  <2>2. CASE Cancel \/ \E on \in BOOLEAN : SetDryRun(on)
    <3>1. UNCHANGED <<lock, run, part, after, decision>>
      BY <2>2 DEF Cancel, SetDryRun
    <3> QED BY <1>1, <1>2, <3>1, SameStays
  <2> QED BY <1>5, <2>1, <2>2 DEF Operator
<1>6. CASE RunStep
  <2>1. CASE StopSlices \/ LoadFailed
    <3>1. UNCHANGED <<lock, part, after, decision>>
      BY <2>1 DEF StopSlices, LoadFailed
    <3>2. run'.direction = run.direction /\ run'.queue = run.queue
      BY <2>1 DEF StopSlices, LoadFailed, Inv, TypeOK, RunTyped, Run
    <3>3. \A d \in Decisions : (Named(d)' => Named(d)) /\ (InPlace(d)' => InPlace(d))
      BY <3>1, <3>2 DEF Named, InPlace
    <3> QED BY <3>1, <3>2, <3>3, LatestGoesOn DEF QueueOfRun
  <2>2. ASSUME NEW batch \in SUBSET Decisions, NEW stale \in SUBSET Decisions,
               NEW retired \in SUBSET Decisions, LoadSlice(batch, stale, retired)
        PROVE  QueueOfRun' /\ LatestInv'
    <3>1. /\ lock = "run" /\ UNCHANGED <<lock, after>> /\ decision' = Retired(retired)
          /\ part' = [i \in Instances |-> Ready]
      BY <2>2 DEF LoadSlice, MaySlice
    <3>2. run'.direction = run.direction
      BY <2>2 DEF LoadSlice, Inv, TypeOK, RunTyped, Run
    <3>3. run.direction = "revert" => \A d \in run'.queue : Revertible(d)
      BY <2>2 DEF LoadSlice, Movable, Inv, TypeOK, RunTyped, Run
    <3>4. \A d \in Decisions : InPlace(d)' <=> InPlace(d)
      BY <3>1, RetiredStays DEF Stays, InPlace
    <3>5. \A d : Named(d)' <=> d \in run'.queue
      BY <3>1 DEF Named, Ready
    <3>6. \A d, e \in Decisions : Revertible(d) /\ e \in after[d] => InPlace(d) /\ ~InPlace(e)
      BY DEF Revertible, InPlace
    <3>7. LatestInv'
      <4> SUFFICES ASSUME run.direction = "revert", NEW d \in Decisions, NEW e \in Decisions, Named(d)', e \in after[d]
                   PROVE  ~Named(e)' /\ ~InPlace(e)'
        BY <3>1, <3>2 DEF LatestInv
      <4>1. Revertible(d)
        BY <3>3, <3>5
      <4>2. ~InPlace(e)
        BY <3>6, <4>1
      <4>3. ~Named(e)'
        <5>1. Named(e)' => Revertible(e)
          BY <3>3, <3>5
        <5> QED BY <4>2, <5>1 DEF Revertible, InPlace
      <4> QED BY <3>4, <4>2, <4>3
    <3> QED BY <3>1, <3>7 DEF QueueOfRun
  <2>3. CASE FinishRun
    BY <1>3, <2>3 DEF FinishRun, NoRun, Ready
  <2> QED BY <1>6, <2>1, <2>2, <2>3 DEF RunStep
<1>7. CASE \E i \in Instances : PartStep(i)
  BY <1>7, LatestKeptByParts
<1>8. ASSUME NEW i \in Instances, SyncStep(i) PROVE QueueOfRun' /\ LatestInv'
  <2>1. CASE SyncBegin(i) \/ SyncRead(i) \/ SyncFail(i) \/ SettleRead(i) \/ SettleSkip(i) \/ SettleUnread(i)
    <3>1. UNCHANGED <<lock, run, part, after, decision>>
      BY <2>1 DEF SyncBegin, SyncRead, SyncFail, SettleRead, SettleSkip, SettleUnread
    <3> QED BY <1>1, <1>2, <3>1, SameStays
  <2>2. CASE \E cleanup \in BOOLEAN : SyncWrite(i, cleanup)
    <3>1. UNCHANGED <<lock, run, part, after>> /\ \E ids : decision' = Retired(ids)
      BY <2>2 DEF SyncWrite
    <3> QED BY <1>1, <1>2, <3>1, RetiredStays
  <2>3. ASSUME lock # "run", run' = run, part' = part PROVE QueueOfRun' /\ LatestInv'
    <3>1. \A d : ~Named(d)'
      BY <2>3, NoneNamed DEF Named
    <3> QED BY <2>3, <3>1, LatestVoid DEF QueueOfRun
  <2>4. CASE SettleLock(i) \/ SettleEnd(i) \/ SettleRecord(i) \/ \E d \in Decisions : SettlePick(i, d)
    <3>1. lock # "run"
      BY <2>4 DEF SettleLock, SettleEnd, SettleRecord, SettlePick, Inv, SafeInv, LockHeld, Settling
    <3>2. run' = run /\ part' = part
      BY <2>4 DEF SettleLock, SettleEnd, SettleRecord, SettlePick
    <3> QED BY <2>3, <3>1, <3>2
  <2> QED BY <1>8, <2>1, <2>2, <2>4 DEF SyncStep
<1>9. CASE ArrStep
  <2>1. ASSUME NEW p \in puts, NEW answered \in BOOLEAN, ArrTake(p, answered) \/ ArrDrop(p, answered)
        PROVE  QueueOfRun' /\ LatestInv'
    <3>1. UNCHANGED <<lock, run, after, decision>>
      BY <2>1 DEF ArrTake, ArrDrop
    <3>2. PICK pc \in {"taken", "failed", "unanswered"} : part' = Answered(p, pc)
      BY <2>1 DEF ArrTake, ArrDrop
    <3>3. PartsGoOn
      BY <3>2, AnsweredGoesOn
    <3>4. \A d \in Decisions : (Named(d)' => Named(d)) /\ (InPlace(d)' => InPlace(d))
      BY <3>1, <3>3 DEF Named, PartsGoOn, InPlace
    <3> QED BY <3>1, <3>4, LatestGoesOn DEF QueueOfRun
  <2>2. ASSUME UNCHANGED <<lock, run, part, after, decision>> PROVE QueueOfRun' /\ LatestInv'
    BY <1>1, <1>2, <2>2, SameStays
  <2> QED BY <1>9, <2>1, <2>2 DEF ArrStep, CommandEnd, CommandForget, HandMove
<1>10. CASE Crash
  BY <1>3, <1>10 DEF Crash, NoRun, Ready
<1>11. CASE UNCHANGED vars
  <2>1. UNCHANGED <<lock, run, part, after, decision>>
    BY <1>11 DEF vars
  <2> QED BY <1>1, <1>2, <2>1, SameStays
<1> QED BY <1>4, <1>5, <1>6, <1>7, <1>8, <1>9, <1>10, <1>11 DEF Next

-----------------------------------------------------------------------------
(***************************************************************************)
(* A move not sent yet is as it was loaded: a proposal, or a move in       *)
(* place. With files the queue may name one already sent, for a part takes *)
(* the successor of the next; it is loaded again before it is taken.       *)
(***************************************************************************)

AsLoaded(d) == IF run.direction = "forward" THEN decision[d].status = "pending" ELSE InPlace(d)

AskedOnce == run.direction = "revert" \/ ~run.files
NotBegun(i) == part[i].pc = "ready" /\ ~part[i].begun

LoadedInv ==
  \A i \in Instances :
    /\ part[i].pc = "checked" => AsLoaded(part[i].move)
    /\ part[i].pc # "ready" /\ AskedOnce => part[i].move \notin run.queue
    /\ AskedOnce \/ NotBegun(i) => \A d \in QueueOf(i) : AsLoaded(d)

LEMMA LoadedVoid ==
  ASSUME run'.queue = {}, \A i \in Instances : part'[i].pc = "ready"
  PROVE  LoadedInv'
BY DEF LoadedInv, QueueOf

SameRun == run'.direction = run.direction /\ run'.files = run.files /\ run'.queue \subseteq run.queue

LEMMA StaysLoaded ==
  ASSUME NEW d, Stays(d), run'.direction = run.direction
  PROVE  (AsLoaded(d)' <=> AsLoaded(d)) /\ InstanceOfMove(d)' = InstanceOfMove(d)
BY DEF Stays, SameMove, AsLoaded, InPlace, InstanceOfMove

LEMMA LoadedGoesOn ==
  ASSUME Inv, LoadedInv, SameRun, PartsGoOn,
         \A i \in Instances : part'[i].pc = "checked" => part[i].pc = "checked" /\ Stays(part[i].move),
         \A i \in Instances : NotBegun(i)' => NotBegun(i),
         \A d \in run'.queue : SameMove(d),
         \A i \in Instances : AskedOnce \/ NotBegun(i)' => \A d \in QueueOf(i) \cap run'.queue : Stays(d)
  PROVE  LoadedInv'
<1>1. AskedOnce' <=> AskedOnce
  BY DEF AskedOnce, SameRun
<1>2. ASSUME NEW i \in Instances
      PROVE  /\ (part[i].pc = "checked" => AsLoaded(part[i].move))'
             /\ (part[i].pc # "ready" /\ AskedOnce => part[i].move \notin run.queue)'
             /\ (AskedOnce \/ NotBegun(i) => \A d \in QueueOf(i) : AsLoaded(d))'
  <2>1. (part[i].pc = "checked" => AsLoaded(part[i].move))'
    <3> SUFFICES ASSUME part'[i].pc = "checked" PROVE AsLoaded(part[i].move)'
      OBVIOUS
    <3>1. part[i].pc = "checked" /\ Stays(part[i].move) /\ part'[i].move = part[i].move
      BY DEF PartsGoOn
    <3>2. AsLoaded(part[i].move)
      BY <3>1 DEF LoadedInv
    <3> QED BY <3>1, <3>2 DEF AsLoaded, InPlace, SameRun, Stays
  <2>2. (part[i].pc # "ready" /\ AskedOnce => part[i].move \notin run.queue)'
    BY <1>1 DEF PartsGoOn, LoadedInv, SameRun
  <2>3. ASSUME AskedOnce \/ NotBegun(i)', NEW d \in QueueOf(i)' PROVE AsLoaded(d)'
    <3>1. d \in run'.queue /\ d \in run.queue /\ InstanceOf[decision'[d].title] = i
      BY DEF QueueOf, InstanceOfMove, SameRun
    <3>2. d \in QueueOf(i)
      BY <3>1 DEF QueueOf, InstanceOfMove, SameMove
    <3>3. Stays(d) /\ AsLoaded(d)
      BY <2>3, <3>1, <3>2 DEF LoadedInv
    <3> QED BY <3>3, StaysLoaded DEF SameRun
  <2> QED BY <1>1, <2>1, <2>2, <2>3
<1> QED BY <1>2 DEF LoadedInv

\* Nothing of the run changes but what the decisions stay.
LEMMA LoadedStays ==
  ASSUME Inv, LoadedInv, UNCHANGED <<run, part>>, \A d \in Decisions : Known(d) => Stays(d)
  PROVE  LoadedInv'
<1>1. /\ \A d \in run.queue : Known(d) /\ d \in Decisions
      /\ \A i \in Instances : part[i].pc # "ready" => Known(part[i].move) /\ part[i].move \in Decisions
  BY DEF Inv, SafeInv, MovesKnown, Known
<1>2. SameRun /\ PartsGoOn
  BY DEF SameRun, PartsGoOn
<1>3. \A i \in Instances : part'[i].pc = "checked" => part[i].pc = "checked" /\ Stays(part[i].move)
  BY <1>1
<1>4. \A d \in run'.queue : SameMove(d) /\ Stays(d)
  BY <1>1 DEF Stays
<1>5. \A i \in Instances : NotBegun(i)' => NotBegun(i)
  BY DEF NotBegun
<1> QED BY <1>2, <1>3, <1>4, <1>5, LoadedGoesOn

\* The part of instance i goes on with its move, or is done with it.
LEMMA LoadedOfMove ==
  ASSUME Inv, LoadedInv, SameRun, NEW i \in Instances, part[i].pc # "ready", PartGoesOn(i),
         part'[i].pc # "checked", part'[i].pc # "ready" \/ part'[i].begun,
         SameMove(part[i].move), \A d \in Decisions : d # part[i].move => Stays(d)
  PROVE  LoadedInv'
<1> DEFINE m == part[i].move
<1>1. /\ \A d \in run.queue : Known(d) /\ d \in Decisions
      /\ \A j \in Instances : part[j].pc # "ready" => part[j].move \in Decisions
      /\ m \in Decisions /\ InstanceOfMove(m) = i
  BY DEF Inv, SafeInv, MovesKnown, Known
<1>2. PartsGoOn
  BY PartGoesOnAlone
<1>3. \A j \in Instances : part'[j].pc = "checked" => part[j].pc = "checked" /\ Stays(part[j].move)
  <2> SUFFICES ASSUME NEW j \in Instances, part'[j].pc = "checked"
               PROVE  part[j].pc = "checked" /\ Stays(part[j].move)
    OBVIOUS
  <2>1. j # i /\ part'[j] = part[j]
    BY DEF PartGoesOn
  <2>2. part[j].pc = "checked" /\ part[j].move # m /\ part[j].move \in Decisions
    BY <1>1, <2>1, OtherInHand DEF Inv, SafeInv
  <2> QED BY <2>2
<1>4. \A j \in Instances : NotBegun(j)' => NotBegun(j) /\ j # i
  BY DEF NotBegun, PartGoesOn
<1>5. \A d \in run'.queue : SameMove(d)
  BY <1>1 DEF SameRun, Stays
<1>6. \A j \in Instances : AskedOnce \/ NotBegun(j)' => \A d \in QueueOf(j) \cap run'.queue : Stays(d)
  <2> SUFFICES ASSUME NEW j \in Instances, AskedOnce \/ NotBegun(j)', NEW d \in QueueOf(j)
               PROVE  Stays(d)
    OBVIOUS
  <2>1. d \in run.queue /\ d \in Decisions /\ InstanceOfMove(d) = j
    BY <1>1 DEF QueueOf
  <2>2. d # m
    BY <1>1, <1>4, <2>1 DEF LoadedInv
  <2> QED BY <2>1, <2>2
<1> QED BY <1>2, <1>3, <1>4, <1>5, <1>6, LoadedGoesOn

LEMMA LoadedKeptByParts ==
  ASSUME Inv, LoadedInv, NEW i \in Instances, PartStep(i)
  PROVE  LoadedInv'
<1> USE DEF db, runVars, syncVars, arrVars, history, bounds
<1> DEFINE m == part[i].move
<1>1. part[i].pc # "ready" => m \in Decisions
  BY DEF Inv, SafeInv, MovesKnown, Known
<1>2. \A d \in run.queue : d \in Decisions
  BY DEF Inv, SafeInv, MovesKnown, Known
<1>3. CASE FailBatch(i)
  <2>1. part' = part /\ run'.direction = run.direction /\ run'.files = run.files
        /\ run'.queue = run.queue \ QueueOf(i) /\ part[i].pc = "ready"
    BY <1>3 DEF FailBatch, Turn, Inv, TypeOK, RunTyped, Run
  <2>2. \A d \in Decisions : SameMove(d) /\ (d \notin QueueOf(i) => Stays(d))
    BY <1>3, FailBatchMeans DEF FailedNow, Stays
  <2>3. \A j \in Instances : part'[j].pc = "checked" => part[j].pc = "checked" /\ Stays(part[j].move)
    <3> SUFFICES ASSUME NEW j \in Instances, part[j].pc = "checked" PROVE Stays(part[j].move)
      BY <2>1
    <3>1. part[j].move \in Decisions /\ InstanceOfMove(part[j].move) = j /\ j # i
      BY <2>1, InHandOfPart DEF Known
    <3> QED BY <2>2, <3>1 DEF QueueOf
  <2>4. \A d \in run'.queue : SameMove(d) /\ Stays(d)
    BY <1>2, <2>1, <2>2
  <2> QED BY <2>1, <2>3, <2>4, LoadedGoesOn DEF SameRun, PartsGoOn, NotBegun
<1>4. CASE StopPart(i)
  <2>1. part' = part /\ decision' = decision
    BY <1>4 DEF StopPart
  <2>2. SameRun
    BY <1>4 DEF StopPart, QueueStopped, SameRun, Inv, TypeOK, RunTyped, Run
  <2>3. \A d \in Decisions : Stays(d) /\ SameMove(d)
    BY <2>1, SameStays DEF Stays
  <2>4. \A j \in Instances : part[j].pc = "checked" => Stays(part[j].move)
    BY <2>3, InHandOfPart DEF Known
  <2>5. \A d \in run'.queue : SameMove(d) /\ Stays(d)
    BY <1>2, <2>2, <2>3 DEF SameRun
  <2> QED BY <2>1, <2>2, <2>4, <2>5, LoadedGoesOn DEF PartsGoOn, NotBegun
<1>5. ASSUME NEW d \in Decisions, NEW verdict \in {"send", "retire", "leave"}, CheckMove(i, d, verdict)
      PROVE  LoadedInv'
  <2>1. /\ part[i].pc = "ready" /\ d \in run.queue /\ InstanceOfMove(d) = i
        /\ run'.direction = run.direction /\ run'.files = run.files /\ run'.queue = run.queue \ {d}
        /\ \A j \in Instances : j # i => part'[j] = part[j]
        /\ part'[i].begun
        /\ part'[i].pc = "ready" \/ (part'[i].pc = "checked" /\ part'[i].move \in Revalidated(i, d))
    BY <1>5, CheckMoveMeans
  <2>2. \A e \in Decisions : Stays(e)
    BY <1>5, RetiredStays DEF CheckMove
  <2>3. run.direction \in Directions
    BY DEF Inv, TypeOK, RunTyped, Run
  <2>4. \A e \in Decisions : (AsLoaded(e)' <=> AsLoaded(e)) /\ InstanceOfMove(e)' = InstanceOfMove(e)
    BY <2>1, <2>2, StaysLoaded
  <2>5. AskedOnce' <=> AskedOnce
    BY <2>1 DEF AskedOnce
  <2>6. part'[i].pc = "checked" =>
          /\ part'[i].move \in Decisions /\ AsLoaded(part'[i].move)
          /\ AskedOnce => part'[i].move = d
    <3> SUFFICES ASSUME NEW e, e \in Revalidated(i, d)
                 PROVE  e \in Decisions /\ AsLoaded(e) /\ (AskedOnce => e = d)
      BY <2>1
    <3>1. CASE ~(run.files /\ part[i].begun)
      <4>1. e = d
        BY <3>1 DEF Revalidated
      <4>2. d \in QueueOf(i) /\ (AskedOnce \/ NotBegun(i))
        BY <2>1, <3>1 DEF QueueOf, AskedOnce, NotBegun
      <4> QED BY <4>1, <4>2 DEF LoadedInv
    <3>2. CASE (run.files /\ part[i].begun) /\ run.direction = "forward"
      <4>1. e \in CurrentProposals({d}) /\ Loadable(e)
        BY <3>2 DEF Revalidated
      <4>2. e \in Decisions
        BY <4>1 DEF CurrentProposals
      <4> QED BY <3>2, <4>1, <4>2 DEF Loadable, Standing, AsLoaded, AskedOnce
    <3>3. CASE (run.files /\ part[i].begun) /\ run.direction # "forward"
      <4>1. e = d /\ Revertible(e)
        BY <3>3 DEF Revalidated
      <4> QED BY <3>3, <4>1 DEF Revertible, AsLoaded, InPlace
    <3> QED BY <3>1, <3>2, <3>3
  <2>7. ASSUME NEW j \in Instances
        PROVE  /\ part'[j].pc = "checked" => part'[j].move \in Decisions /\ AsLoaded(part[j].move)'
               /\ part'[j].pc # "ready" /\ AskedOnce => part'[j].move \notin run'.queue
    <3>1. \A e \in Decisions : AsLoaded(e) /\ e = part'[j].move => AsLoaded(part[j].move)'
      BY <2>4 DEF AsLoaded, InPlace
    <3>2. CASE j = i
      BY <2>1, <2>6, <3>1, <3>2
    <3>3. CASE j # i
      <4>1. part'[j] = part[j] /\ (part[j].pc # "ready" => part[j].move \in Decisions)
        BY <2>1, <3>3, InHandOfPart DEF Known
      <4>2. /\ part[j].pc = "checked" => AsLoaded(part[j].move)
            /\ part[j].pc # "ready" /\ AskedOnce => part[j].move \notin run.queue
        BY DEF LoadedInv
      <4> QED BY <2>1, <3>1, <4>1, <4>2
    <3> QED BY <3>2, <3>3
  <2>8. ASSUME NEW j \in Instances, AskedOnce \/ NotBegun(j)', NEW e \in QueueOf(j)' PROVE AsLoaded(e)'
    <3>1. e \in run'.queue /\ e \in run.queue /\ e \in Decisions /\ InstanceOfMove(e)' = j
      BY <1>2, <2>1 DEF QueueOf
    <3>2. e \in QueueOf(j)
      BY <2>4, <3>1 DEF QueueOf
    <3>3. NotBegun(j)' => NotBegun(j)
      BY <2>1 DEF NotBegun
    <3>4. AsLoaded(e)
      BY <2>8, <3>2, <3>3 DEF LoadedInv
    <3> QED BY <2>4, <3>1, <3>4
  <2> QED BY <2>5, <2>7, <2>8 DEF LoadedInv
<1>6. ASSUME part[i].pc # "ready", NEW pc, pc \notin {"ready", "checked"}, part' = [part EXCEPT ![i].pc = pc], run' = run,
             SameMove(m), \A d \in Decisions : d # m => Stays(d)
      PROVE  LoadedInv'
  <2>1. PartGoesOn(i) /\ part'[i].pc = pc
    BY <1>6, PartGoes DEF PartGoesOn
  <2> QED BY <1>6, <2>1, LoadedOfMove DEF SameRun
<1>7. CASE RequestMove(i)
  <2>1. part[i].pc = "checked" /\ part' = [part EXCEPT ![i].pc = "sent"] /\ run' = run
        /\ decision' = Requested(m, run.direction)
    BY <1>7 DEF RequestMove
  <2>2. m \in Decisions
    BY <1>1, <2>1
  <2>3. SameMove(m) /\ \A d \in Decisions : d # m => Stays(d)
    BY <2>1, <2>2, RequestedMeans
  <2>4. PICK pc : pc = "sent"
    OBVIOUS
  <2>5. part[i].pc # "ready" /\ part' = [part EXCEPT ![i].pc = pc] /\ pc \notin {"ready", "checked"}
    BY <2>1, <2>4
  <2> HIDE DEF m
  <2> QED BY <1>6, <2>1, <2>3, <2>5
<1>8. ASSUME part[i].pc # "ready", UNCHANGED <<decision, run>>,
             NEW pc, pc \notin {"ready", "checked"}, part' = [part EXCEPT ![i].pc = pc]
      PROVE  LoadedInv'
  <2>1. SameMove(m) /\ \A d \in Decisions : d # m => Stays(d)
    BY <1>1, <1>8, SameStays DEF Stays
  <2> QED BY <1>6, <1>8, <2>1
<1>9. CASE RequestRefused(i) \/ AnswerTimedOut(i) \/ RecordSent(i)
  <2>1. part[i].pc # "ready" /\ UNCHANGED <<decision, run>>
    BY <1>9 DEF RequestRefused, AnswerTimedOut, RecordSent
  <2>2. PICK pc \in {"failed", "unanswered", "following"} : part' = [part EXCEPT ![i].pc = pc]
    BY <1>9 DEF RequestRefused, AnswerTimedOut, RecordSent
  <2> QED BY <1>8, <2>1, <2>2
<1>10. CASE \E answered \in BOOLEAN : ReadBack(i, answered)
  <2>1. part[i].pc # "ready" /\ UNCHANGED <<decision, run>>
    BY <1>10 DEF ReadBack
  <2>2. PICK pc \in {"failed", "taken"} : part' = [part EXCEPT ![i].pc = pc]
    BY <1>10 DEF ReadBack
  <2> QED BY <1>8, <2>1, <2>2
<1>11. CASE FollowCommands(i)
  <2>1. part[i].pc # "ready" /\ UNCHANGED <<decision, run>>
    BY <1>11 DEF FollowCommands
  <2>2. PICK pc \in {"failed", "over"} : part' = [part EXCEPT ![i].pc = pc]
    BY <1>11 DEF FollowCommands
  <2> QED BY <1>8, <2>1, <2>2
<1>12. CASE \E answered \in BOOLEAN : FollowTitle(i, answered)
  <2>1. UNCHANGED <<decision, run>> /\ part[i].pc # "ready"
    BY <1>12 DEF FollowTitle
  <2>2. PartGoesOn(i) /\ part'[i].pc \in {"read", "following"}
    BY <1>12 DEF FollowTitle, PartGoesOn, Inv, TypeOK, RunTyped, Part
  <2>3. SameMove(m) /\ \A d \in Decisions : d # m => Stays(d)
    BY <1>1, <2>1, SameStays DEF Stays
  <2> QED BY <2>1, <2>2, <2>3, LoadedOfMove DEF SameRun
<1>13. ASSUME part[i].pc # "ready", NEW outcome, NextMove(i, outcome),
              SameMove(m), \A d \in Decisions : d # m => Stays(d)
       PROVE  LoadedInv'
  <2>1. SameRun /\ PartGoesOn(i) /\ part'[i].pc = "ready" /\ part'[i].begun
    BY <1>13, NextMoveMeans DEF SameRun, PartGoesOn
  <2> QED BY <1>13, <2>1, LoadedOfMove
<1>14. CASE RecordSuccess(i)
  <2>1. part[i].pc = "taken" /\ decision' = Made(m, run.direction) /\ NextMove(i, "done")
    BY <1>14 DEF RecordSuccess
  <2>2. run.direction \in Directions /\ m \in Decisions
    BY <1>1, <2>1 DEF Inv, TypeOK, RunTyped, Run
  <2>3. SameMove(m) /\ \A d \in Decisions : d # m => Stays(d)
    BY <2>1, <2>2, MadeMeans
  <2> QED BY <1>13, <2>1, <2>3
<1>15. CASE FollowStopped(i)
  <2>1. part[i].pc = "following" /\ decision' = decision /\ part' = [part EXCEPT ![i] = [Ready EXCEPT !.begun = TRUE]]
    BY <1>15 DEF FollowStopped
  <2>2. SameRun
    BY <1>15 DEF FollowStopped, QueueStopped, SameRun, Inv, TypeOK, RunTyped, Run
  <2>3. PartGoesOn(i) /\ part'[i].pc = "ready" /\ part'[i].begun
    BY <2>1, PartNext DEF PartGoesOn
  <2>4. SameMove(m) /\ \A d \in Decisions : d # m => Stays(d)
    BY <1>1, <2>1, SameStays DEF Stays
  <2> QED BY <2>1, <2>2, <2>3, <2>4, LoadedOfMove
<1>16. CASE RecordFollowed(i) \/ RecordFailure(i)
  <2>1. /\ part[i].pc # "ready" /\ \E outcome : NextMove(i, outcome)
        /\ decision' = Confirmed(m, run.direction) \/ decision' = Failed(m, run.direction)
    BY <1>16 DEF RecordFollowed, RecordFailure
  <2>2. m \in Decisions
    BY <1>1, <2>1
  <2>3. SameMove(m) /\ \A d \in Decisions : d # m => Stays(d)
    BY <2>1, <2>2, ConfirmedMeans, FailedMeans DEF FailedNow
  <2> QED BY <1>13, <2>1, <2>3
<1>17. CASE RecordLost(i)
  <2>1. decision' = decision /\ part[i].pc # "ready"
    BY <1>17 DEF RecordLost
  <2>2. SameMove(m) /\ \A d \in Decisions : d # m => Stays(d)
    BY <1>1, <2>1, SameStays DEF Stays
  <2>3. \/ part' = [part EXCEPT ![i].pc = "following"] /\ run' = run
        \/ \E outcome : NextMove(i, outcome)
    BY <1>17 DEF RecordLost
  <2> QED BY <1>6, <1>13, <2>1, <2>2, <2>3
<1> QED BY <1>3, <1>4, <1>5, <1>7, <1>9, <1>10, <1>11, <1>12, <1>14, <1>15, <1>16, <1>17 DEF PartStep

LEMMA LoadedKept ==
  ASSUME Inv, QueueOfRun, LoadedInv, [Next]_vars
  PROVE  LoadedInv'
<1> USE DEF db, runVars, syncVars, arrVars, history, bounds
<1>1. ASSUME UNCHANGED <<run, part, decision>> PROVE LoadedInv'
  BY <1>1, SameStays, LoadedStays
<1>2. ASSUME run'.queue = {}, \A i \in Instances : part'[i].pc = "ready" PROVE LoadedInv'
  BY <1>2, LoadedVoid
<1>3. CASE Simulate
  <2>1. UNCHANGED <<run, part>>
    BY <1>3 DEF Simulate, SimulationRead, SimulationStored
  <2>2. CASE \E t \in Titles, to \in Folders : SimulationRead(t, to)
    BY <1>1, <2>1, <2>2 DEF SimulationRead
  <2>3. ASSUME NEW s \in sim, NEW d \in Decisions, SimulationStored(s, d)
        PROVE  LoadedInv'
    <3>1. \A e \in Decisions : Known(e) => Stays(e)
      BY <2>3, StoredMeans DEF Known
    <3> QED BY <2>1, <3>1, LoadedStays
  <2> QED BY <1>3, <2>2, <2>3 DEF Simulate
<1>4. CASE Operator
  <2>1. CASE StartSome
    BY <1>2, <2>1 DEF StartSome, StartRun, NoRun, Ready
  <2>2. CASE Cancel \/ \E on \in BOOLEAN : SetDryRun(on)
    BY <1>1, <2>2 DEF Cancel, SetDryRun
  <2> QED BY <1>4, <2>1, <2>2 DEF Operator
<1>5. CASE RunStep
  <2>1. CASE StopSlices \/ LoadFailed
    <3>1. run.queue = {} /\ run'.queue = run.queue /\ part' = part /\ \A i \in Instances : part[i].pc = "ready"
      BY <2>1 DEF StopSlices, LoadFailed, MaySlice, AllReady, Inv, TypeOK, RunTyped, Run
    <3> QED BY <1>2, <3>1
  <2>2. ASSUME NEW batch \in SUBSET Decisions, NEW stale \in SUBSET Decisions,
               NEW retired \in SUBSET Decisions, LoadSlice(batch, stale, retired)
        PROVE  LoadedInv'
    <3>1. decision' = Retired(retired) /\ \A i \in Instances : part'[i].pc = "ready"
      BY <2>2 DEF LoadSlice, Ready
    <3>2. run'.direction = run.direction
      BY <2>2 DEF LoadSlice, Inv, TypeOK, RunTyped, Run
    <3>3. \A d \in run'.queue : Movable(d, run.direction) /\ d \in Decisions
      BY <2>2 DEF LoadSlice, CurrentProposals, Inv, TypeOK, RunTyped, Run
    <3>4. \A d \in run'.queue : AsLoaded(d)
      BY <3>3 DEF Movable, Loadable, Standing, Revertible, AsLoaded, InPlace
    <3>5. \A d \in run'.queue : AsLoaded(d)'
      BY <3>1, <3>2, <3>3, <3>4, RetiredStays, StaysLoaded
    <3>6. \A i \in Instances : \A d \in QueueOf(i)' : AsLoaded(d)'
      BY <3>5 DEF QueueOf
    <3> QED BY <3>1, <3>6 DEF LoadedInv
  <2>3. CASE FinishRun
    BY <1>2, <2>3 DEF FinishRun, NoRun, Ready
  <2> QED BY <1>5, <2>1, <2>2, <2>3 DEF RunStep
<1>6. CASE \E i \in Instances : PartStep(i)
  BY <1>6, LoadedKeptByParts
<1>7. ASSUME NEW i \in Instances, SyncStep(i) PROVE LoadedInv'
  <2>1. CASE SyncBegin(i) \/ SyncRead(i) \/ SyncFail(i) \/ SettleRead(i) \/ SettleSkip(i) \/ SettleUnread(i)
    BY <1>1, <2>1 DEF SyncBegin, SyncRead, SyncFail, SettleRead, SettleSkip, SettleUnread
  <2>2. CASE \E cleanup \in BOOLEAN : SyncWrite(i, cleanup)
    <3>1. UNCHANGED <<run, part>> /\ \E ids : decision' = Retired(ids)
      BY <2>2 DEF SyncWrite
    <3> QED BY <3>1, RetiredStays, LoadedStays
  <2>3. CASE SettleLock(i) \/ SettleEnd(i) \/ SettleRecord(i) \/ \E d \in Decisions : SettlePick(i, d)
    <3>1. lock # "run"
      BY <2>3 DEF SettleLock, SettleEnd, SettleRecord, SettlePick, Inv, SafeInv, LockHeld, Settling
    <3>2. run' = run /\ part' = part
      BY <2>3 DEF SettleLock, SettleEnd, SettleRecord, SettlePick
    <3>3. run.queue = {} /\ \A j \in Instances : part[j].pc = "ready"
      BY <3>1 DEF QueueOfRun, Inv, SafeInv, LockHeld
    <3> QED BY <1>2, <3>2, <3>3
  <2> QED BY <1>7, <2>1, <2>2, <2>3 DEF SyncStep
<1>8. CASE ArrStep
  <2>1. ASSUME NEW p \in puts, NEW answered \in BOOLEAN, ArrTake(p, answered) \/ ArrDrop(p, answered)
        PROVE  LoadedInv'
    <3>1. UNCHANGED <<run, decision>>
      BY <2>1 DEF ArrTake, ArrDrop
    <3>2. PICK pc \in {"taken", "failed", "unanswered"} : part' = Answered(p, pc)
      BY <2>1 DEF ArrTake, ArrDrop
    <3>3. PartsGoOn /\ SameRun
      BY <3>1, <3>2, AnsweredGoesOn DEF SameRun
    <3>4. \A j \in Instances : (part'[j].pc = "checked" => part[j].pc = "checked") /\ (NotBegun(j)' => NotBegun(j))
      BY <3>2, AnsweredMeans DEF NotBegun
    <3>5. \A d \in Decisions : Stays(d) /\ SameMove(d)
      BY <3>1, SameStays DEF Stays
    <3>6. \A j \in Instances : part[j].pc = "checked" => part[j].move \in Decisions
      BY InHandOfPart DEF Known
    <3>7. \A d \in run'.queue : d \in Decisions
      BY <3>1 DEF Inv, SafeInv, MovesKnown, Known
    <3>8. /\ \A j \in Instances : part'[j].pc = "checked" => part[j].pc = "checked" /\ Stays(part[j].move)
          /\ \A d \in run'.queue : SameMove(d) /\ Stays(d)
      BY <3>4, <3>5, <3>6, <3>7
    <3> QED BY <3>3, <3>4, <3>8, LoadedGoesOn
  <2>2. ASSUME UNCHANGED <<run, part, decision>> PROVE LoadedInv'
    BY <1>1, <2>2
  <2> QED BY <1>8, <2>1, <2>2 DEF ArrStep, CommandEnd, CommandForget, HandMove
<1>9. CASE Crash
  BY <1>2, <1>9 DEF Crash, NoRun, Ready
<1>10. CASE UNCHANGED vars
  BY <1>1, <1>10 DEF vars
<1> QED BY <1>3, <1>4, <1>5, <1>6, <1>7, <1>8, <1>9, <1>10 DEF Next

-----------------------------------------------------------------------------
(***************************************************************************)
(* What is reported made was seen made. A move sent is witnessed as soon   *)
(* as the Arr holds its title where it goes, one being undone was made     *)
(* before, and what a part or a sync read in hand was seen when it was     *)
(* read.                                                                   *)
(***************************************************************************)

Goal(d) == IF decision[d].reverted THEN decision[d].from ELSE decision[d].to

RowSeen(d) ==
  /\ decision[d].status # "absent" => decision[d].from # decision[d].to
  /\ decision[d].status \in {"absent", "pending"} => ~decision[d].reverted
  /\ decision[d].reverted => decision[d].to \in seen[d]
  /\ decision[d].status = "requested" /\ arr[decision[d].title] = Goal(d) => Goal(d) \in seen[d]
  /\ decision[d].status = "applied" => decision[d].to \in seen[d]
  /\ decision[d].status = "skipped" => decision[d].from \in seen[d]

Aim(i) == Target(part[i].move, run.direction)

PartSeen(i) ==
  part[i].pc # "ready" =>
    /\ run.direction = "revert" => decision[part[i].move].to \in seen[part[i].move]
    /\ part[i].pc \in InHandPCs => (decision[part[i].move].reverted <=> run.direction = "revert")
    /\ part[i].pc = "taken" \/ (part[i].pc = "read" /\ part[i].held = Aim(i)) =>
         Aim(i) \in seen[part[i].move]

SettleTarget(i) == Target(sync[i].move, SettleDirection(i, sync[i].move))

SyncSeen(i) ==
  /\ \A d \in sync[i].back :
       /\ decision[d].status \notin {"absent", "pending"}
       /\ decision[d].status = "requested" => decision[d].reverted
       /\ decision[d].to \in seen[d]
  /\ sync[i].pc = "held" /\ decision[sync[i].move].status = "requested" /\ sync[i].held = SettleTarget(i) =>
       SettleTarget(i) \in seen[sync[i].move]

SeenInv ==
  /\ \A d \in Decisions : RowSeen(d)
  /\ \A i \in Instances : PartSeen(i) /\ SyncSeen(i)

SeenGrows == \A d \in Decisions : seen[d] \subseteq seen'[d]

\* A move ended as it was seen to.
Ended(d) ==
  /\ decision[d].status # "absent" /\ SameMove(d)
  /\ decision'[d].status \in {"applied", "skipped", "failed"}
  /\ decision'[d].status = "applied" => decision[d].to \in seen[d]
  /\ decision'[d].status = "skipped" => decision[d].from \in seen[d]
  /\ decision'[d].reverted => decision[d].to \in seen[d]

Proposed(d) ==
  /\ decision[d].status = "absent"
  /\ decision'[d].status = "pending" /\ ~decision'[d].reverted
  /\ decision'[d].from # decision'[d].to

LEMMA WitnessedMeans ==
  ASSUME Inv, NEW rows, NEW folders, seen' = Witnessed(rows, folders)
  PROVE  /\ SeenGrows
         /\ \A d \in Decisions :
              LET goal == IF rows[d].reverted THEN rows[d].from ELSE rows[d].to IN
              rows[d].status = "requested" /\ folders[rows[d].title] = goal => goal \in seen'[d]
BY DEF SeenGrows, Witnessed

LEMMA RowSeenStays ==
  ASSUME NEW d \in Decisions, RowSeen(d), Stays(d), SeenGrows,
         arr' = arr \/ (decision[d].status = "requested" /\ arr'[decision[d].title] = Goal(d) => Goal(d) \in seen'[d])
  PROVE  RowSeen(d)'
BY DEF RowSeen, Stays, SameMove, SeenGrows, Goal

LEMMA RowSeenEnded ==
  ASSUME NEW d \in Decisions, RowSeen(d), Ended(d) \/ Proposed(d), SeenGrows
  PROVE  RowSeen(d)'
BY DEF RowSeen, Ended, Proposed, SameMove, SeenGrows

\* A failure is an end.
LEMMA FailedEnds ==
  ASSUME NEW d, RowSeen(d), decision[d].status # "absent", NEW direction, FailedNow(d, direction),
         direction # "forward" => decision[d].to \in seen[d]
  PROVE  Ended(d)
BY DEF RowSeen, FailedNow, Ended

LEMMA PartSeenStays ==
  ASSUME Inv, NEW i \in Instances, PartSeen(i), SeenGrows, part'[i] = part[i],
         run'.direction = run.direction, part[i].pc # "ready" => Stays(part[i].move)
  PROVE  PartSeen(i)'
<1> SUFFICES ASSUME part[i].pc # "ready" PROVE PartSeen(i)'
  BY DEF PartSeen
<1>1. PICK d : d = part[i].move
  OBVIOUS
<1>2. d \in Decisions /\ Stays(d)
  BY <1>1, InHandOfPart DEF Known
<1>3. Aim(i)' = Aim(i)
  BY <1>1, <1>2 DEF Aim, Target, Stays, SameMove
<1> QED BY <1>1, <1>2, <1>3 DEF PartSeen, Stays, SameMove, SeenGrows

\* The part of instance i goes on with its move.
LEMMA PartSeenGoes ==
  ASSUME Inv, NEW i \in Instances, PartSeen(i), SeenGrows, part[i].pc # "ready", Stays(part[i].move),
         part'[i].move = part[i].move, run'.direction = run.direction,
         part'[i].pc \in InHandPCs => part[i].pc \in InHandPCs,
         part'[i].pc = "taken" \/ (part'[i].pc = "read" /\ part'[i].held = Aim(i)) =>
           Aim(i) \in seen'[part[i].move]
  PROVE  PartSeen(i)'
<1>1. PICK d : d = part[i].move
  OBVIOUS
<1>2. d \in Decisions /\ Stays(d) /\ part'[i].move = d
  BY <1>1, InHandOfPart DEF Known
<1>3. Aim(i)' = Aim(i)
  BY <1>1, <1>2 DEF Aim, Target, Stays, SameMove
<1> QED BY <1>1, <1>2, <1>3 DEF PartSeen, Stays, SameMove, SeenGrows

\* The sync of instance i holds no more than it held.
SyncDrops(i) ==
  /\ sync'[i].back \subseteq sync[i].back
  /\ sync'[i].pc = "held" => sync'[i] = sync[i]

LEMMA SyncSeenStays ==
  ASSUME Inv, NEW i \in Instances, SyncSeen(i), SeenGrows, SyncDrops(i),
         \A d \in Decisions : Stays(d) \/ Proposed(d) \/ Ended(d)
  PROVE  SyncSeen(i)'
<1>1. ASSUME NEW d \in sync'[i].back
      PROVE  /\ decision'[d].status \notin {"absent", "pending"}
             /\ decision'[d].status = "requested" => decision'[d].reverted
             /\ decision'[d].to \in seen'[d]
  <2>1. d \in sync[i].back /\ d \in Decisions
    BY <1>1 DEF SyncDrops, Inv, TypeOK, SyncTyped, Sync
  <2> QED BY <2>1 DEF SyncSeen, Stays, SameMove, Proposed, Ended, SeenGrows
<1>2. ASSUME sync'[i].pc = "held"
      PROVE  decision'[sync'[i].move].status = "requested" /\ sync'[i].held = SettleTarget(i)' =>
               SettleTarget(i)' \in seen'[sync'[i].move]
  <2>1. sync'[i] = sync[i] /\ sync[i].pc = "held"
    BY <1>2 DEF SyncDrops
  <2>2. PICK d : d = sync[i].move
    OBVIOUS
  <2>3. Known(d)
    BY <2>1, <2>2 DEF Inv, SafeInv, MovesKnown
  <2>4. Stays(d) \/ Ended(d)
    BY <2>3 DEF Known, Proposed
  <2>5. SettleTarget(i)' = SettleTarget(i)
    BY <2>1, <2>2, <2>4 DEF SettleTarget, SettleDirection, Target, Stays, Ended, SameMove
  <2> QED BY <2>1, <2>2, <2>3, <2>4, <2>5 DEF SyncSeen, Stays, Ended, SeenGrows, Known
<1> QED BY <1>1, <1>2 DEF SyncSeen

\* The titles stay, the parts too or they are done.
LEMMA SeenStays ==
  ASSUME Inv, SeenInv, UNCHANGED <<arr, seen>>, \A d \in Decisions : Stays(d) \/ Proposed(d),
         \A i \in Instances : part'[i].pc = "ready" \/ (part'[i] = part[i] /\ run'.direction = run.direction),
         \A i \in Instances : SyncDrops(i)
  PROVE  SeenInv'
<1>1. SeenGrows
  BY DEF SeenGrows
<1>2. \A d \in Decisions : RowSeen(d)'
  BY <1>1, RowSeenStays, RowSeenEnded DEF SeenInv
<1>3. ASSUME NEW i \in Instances PROVE PartSeen(i)'
  <2>1. CASE part'[i].pc = "ready"
    BY <2>1 DEF PartSeen
  <2>2. CASE part'[i] = part[i] /\ run'.direction = run.direction
    <3>1. part[i].pc # "ready" => Stays(part[i].move)
      BY InHandOfPart DEF Known, Proposed
    <3> QED BY <1>1, <2>2, <3>1, PartSeenStays DEF SeenInv
  <2> QED BY <2>1, <2>2
<1>4. \A i \in Instances : SyncSeen(i)'
  BY <1>1, SyncSeenStays DEF SeenInv
<1> QED BY <1>2, <1>3, <1>4 DEF SeenInv

\* The part of instance i wrote some of the moves of its instance.
LEMMA SeenOfPart ==
  ASSUME Inv, SeenInv, NEW i \in Instances, UNCHANGED <<arr, seen, sync>>, run'.direction = run.direction,
         \A j \in Instances : j # i => part'[j] = part[j],
         \A d \in Decisions : Stays(d) \/ (InstanceOfMove(d) = i /\ Ended(d)),
         PartSeen(i)'
  PROVE  SeenInv'
<1>1. SeenGrows
  BY DEF SeenGrows
<1>2. \A d \in Decisions : RowSeen(d)'
  BY <1>1, RowSeenStays, RowSeenEnded DEF SeenInv
<1>3. ASSUME NEW j \in Instances PROVE PartSeen(j)'
  <2>1. CASE j # i
    <3>1. part[j].pc # "ready" => Stays(part[j].move)
      BY <2>1, InHandOfPart DEF Known
    <3> QED BY <1>1, <2>1, <3>1, PartSeenStays DEF SeenInv
  <2> QED BY <2>1
<1>4. \A j \in Instances : SyncSeen(j)'
  BY <1>1, SyncSeenStays DEF SeenInv, SyncDrops
<1> QED BY <1>2, <1>3, <1>4 DEF SeenInv

\* The sync of instance i settles, the run has nothing in hand.
LEMMA SeenOfSync ==
  ASSUME Inv, SeenInv, NEW i \in Instances, UNCHANGED <<arr, seen, part, run>>,
         \A j \in Instances : j # i => sync'[j] = sync[j],
         \A d \in Decisions : Stays(d) \/ (lock # "run" /\ Ended(d)),
         SyncSeen(i)'
  PROVE  SeenInv'
<1>1. SeenGrows
  BY DEF SeenGrows
<1>2. \A d \in Decisions : RowSeen(d)'
  BY <1>1, RowSeenStays, RowSeenEnded DEF SeenInv
<1>3. ASSUME NEW j \in Instances PROVE PartSeen(j)'
  <2>1. part[j].pc # "ready" => Stays(part[j].move)
    BY InHandOfPart DEF Known, Inv, SafeInv, LockHeld
  <2> QED BY <1>1, <2>1, PartSeenStays DEF SeenInv
<1>4. ASSUME NEW j \in Instances PROVE SyncSeen(j)'
  <2>1. CASE j # i
    BY <1>1, <2>1, SyncSeenStays DEF SeenInv, SyncDrops
  <2> QED BY <2>1
<1> QED BY <1>2, <1>3, <1>4 DEF SeenInv

\* The Arr did something to its titles.
LEMMA SeenOfArr ==
  ASSUME Inv, SeenInv, UNCHANGED <<decision, run, sync>>, seen' = Witnessed(decision, arr'),
         \A i \in Instances : part'[i] = part[i] \/ PartSeen(i)'
  PROVE  SeenInv'
<1>1. \A d \in Decisions : Stays(d)
  BY SameStays
<1>2. /\ SeenGrows
      /\ \A d \in Decisions : decision[d].status = "requested" /\ arr'[decision[d].title] = Goal(d) => Goal(d) \in seen'[d]
  BY WitnessedMeans DEF Goal
<1>3. \A d \in Decisions : RowSeen(d)'
  BY <1>1, <1>2, RowSeenStays DEF SeenInv
<1>4. ASSUME NEW i \in Instances PROVE PartSeen(i)'
  <2>1. part[i].pc # "ready" => Stays(part[i].move)
    BY <1>1, InHandOfPart DEF Known
  <2> QED BY <1>2, <2>1, PartSeenStays DEF SeenInv
<1>5. \A i \in Instances : SyncSeen(i)'
  BY <1>1, <1>2, SyncSeenStays DEF SeenInv, SyncDrops
<1> QED BY <1>3, <1>4, <1>5 DEF SeenInv

LEMMA SeenOnRequest ==
  ASSUME Inv, LoadedInv, SeenInv, NEW i \in Instances, RequestMove(i)
  PROVE  SeenInv'
<1> USE DEF db, runVars, syncVars, arrVars, history, bounds
<1>1. PICK d : d = part[i].move
  OBVIOUS
<1>2. /\ part[i].pc = "checked" /\ part' = [part EXCEPT ![i].pc = "sent"]
      /\ decision' = Requested(d, run.direction)
      /\ UNCHANGED <<run, arr, sync>>
      /\ seen' = [Witnessed(decision', arr) EXCEPT
                    ![d] = IF arr[decision[d].title] = Target(d, run.direction)
                           THEN seen[d] \cup {Target(d, run.direction)}
                           ELSE seen[d] \ {Target(d, run.direction)}]
  BY <1>1 DEF RequestMove
<1>3. d \in Decisions /\ Known(d) /\ InstanceOfMove(d) = i
  BY <1>1, <1>2, InHandOfPart DEF Known
<1>4. /\ \A e \in Decisions : e # d => Stays(e)
      /\ SameMove(d) /\ decision'[d].status = "requested"
      /\ decision'[d].reverted = (run.direction = "revert" \/ decision[d].reverted)
  BY <1>2, <1>3, RequestedMeans
<1>5. run.direction \in Directions
  BY DEF Inv, TypeOK, RunTyped, Run
<1>6. AsLoaded(d) /\ RowSeen(d) /\ decision[d].from # decision[d].to
  BY <1>1, <1>2, <1>3 DEF LoadedInv, SeenInv, RowSeen, Known
<1>7. decision'[d].reverted <=> run.direction = "revert"
  BY <1>4, <1>5, <1>6 DEF AsLoaded, RowSeen, Directions
<1>8. run.direction = "revert" => decision[d].to \in seen[d]
  BY <1>5, <1>6 DEF AsLoaded, InPlace, RowSeen, Directions
<1>9. /\ \A e \in Decisions : e # d => seen'[e] = Witnessed(decision', arr)[e]
      /\ seen'[d] = IF arr[decision[d].title] = Target(d, run.direction)
                    THEN seen[d] \cup {Target(d, run.direction)}
                    ELSE seen[d] \ {Target(d, run.direction)}
  BY <1>2, <1>3 DEF Witnessed
<1>10. \A e \in Decisions : e # d => seen[e] \subseteq seen'[e]
  BY <1>9 DEF Witnessed
<1>11. run.direction = "revert" => decision[d].to \in seen'[d]
  BY <1>6, <1>8, <1>9 DEF Target
<1>12. RowSeen(d)'
  BY <1>2, <1>4, <1>5, <1>6, <1>7, <1>9, <1>11 DEF RowSeen, SameMove, Goal, Target, Directions
<1>13. ASSUME NEW e \in Decisions, e # d PROVE RowSeen(e)'
  BY <1>2, <1>4, <1>10, <1>13 DEF SeenInv, RowSeen, Stays, SameMove, Goal
<1>14. ASSUME NEW j \in Instances PROVE PartSeen(j)'
  <2>1. CASE j = i
    <3>1. part'[i].pc = "sent" /\ part'[i].move = d
      <4>1. part' = [part EXCEPT ![i].pc = "sent"]
        BY <1>2
      <4> QED BY <1>1, <4>1, PartGoes
    <3> QED BY <1>2, <1>4, <1>7, <1>11, <2>1, <3>1 DEF PartSeen, SameMove
  <2>2. CASE j # i
    <3>1. part'[j] = part[j]
      BY <1>2, <2>2
    <3>2. SUFFICES ASSUME part[j].pc # "ready" PROVE PartSeen(j)'
      BY <3>1 DEF PartSeen
    <3>3. PICK e : e = part[j].move
      OBVIOUS
    <3>4. e \in Decisions /\ e # d
      BY <1>3, <2>2, <3>2, <3>3, InHandOfPart DEF Known
    <3>5. Stays(e) /\ seen[e] \subseteq seen'[e]
      BY <1>4, <1>10, <3>4
    <3>6. Aim(j)' = Aim(j)
      BY <1>2, <3>1, <3>3, <3>5 DEF Aim, Target, Stays, SameMove
    <3> QED BY <1>2, <3>1, <3>3, <3>5, <3>6 DEF SeenInv, PartSeen, Stays, SameMove
  <2> QED BY <2>1, <2>2
<1>15. ASSUME NEW j \in Instances PROVE SyncSeen(j)'
  <2>1. sync'[j] = sync[j] /\ sync[j].pc # "held"
    BY <1>2, NotSettling DEF Inv, SafeInv, Settling
  <2>2. ASSUME NEW e \in sync[j].back
        PROVE  /\ decision'[e].status \notin {"absent", "pending"}
               /\ decision'[e].status = "requested" => decision'[e].reverted
               /\ decision'[e].to \in seen'[e]
    <3>1. e \in Decisions
      BY DEF Inv, TypeOK, SyncTyped, Sync
    <3>2. decision[e].status \notin {"absent", "pending"} /\ decision[e].to \in seen[e]
          /\ (decision[e].status = "requested" => decision[e].reverted)
      BY DEF SeenInv, SyncSeen
    <3>3. CASE e # d
      BY <1>4, <1>10, <3>1, <3>2, <3>3 DEF Stays, SameMove
    <3>4. CASE e = d
      <4>1. run.direction = "revert"
        BY <1>5, <1>6, <3>2, <3>4 DEF AsLoaded, Directions
      <4> QED BY <1>4, <1>7, <1>11, <3>4, <4>1 DEF SameMove
    <3> QED BY <3>3, <3>4
  <2> QED BY <2>1, <2>2 DEF SyncSeen
<1> QED BY <1>12, <1>13, <1>14, <1>15 DEF SeenInv

LEMMA SeenKeptByParts ==
  ASSUME Inv, LoadedInv, LoadedInv', SeenInv, NEW i \in Instances, PartStep(i)
  PROVE  SeenInv'
<1> USE DEF db, runVars, syncVars, arrVars, history, bounds
<1> DEFINE m == part[i].move
<1>1. part[i].pc # "ready" => m \in Decisions /\ Known(m) /\ InstanceOfMove(m) = i /\ RowSeen(m)
  BY InHandOfPart DEF Known, SeenInv
<1>2. run.direction \in Directions /\ PartSeen(i)
  BY DEF Inv, TypeOK, RunTyped, Run, SeenInv
<1>4. CASE FailBatch(i)
  <2>1. /\ part' = part /\ part[i].pc = "ready" /\ ~part[i].begun /\ UNCHANGED <<arr, seen, sync>>
        /\ run'.direction = run.direction
    BY <1>4 DEF FailBatch, Turn, Inv, TypeOK, RunTyped, Run
  <2>2. ASSUME NEW d \in Decisions, d \in QueueOf(i) PROVE InstanceOfMove(d) = i /\ Ended(d)
    <3>1. Known(d) /\ InstanceOfMove(d) = i /\ RowSeen(d) /\ FailedNow(d, run.direction)
      BY <1>4, <2>2, FailBatchMeans DEF QueueOf, Inv, SafeInv, MovesKnown, SeenInv
    <3>2. AsLoaded(d)
      BY <2>1, <2>2 DEF LoadedInv, NotBegun
    <3>3. run.direction # "forward" => decision[d].to \in seen[d]
      BY <3>1, <3>2 DEF AsLoaded, InPlace, RowSeen
    <3> QED BY <3>1, <3>3, FailedEnds DEF Known
  <2>3. \A d \in Decisions : Stays(d) \/ (InstanceOfMove(d) = i /\ Ended(d))
    BY <1>4, <2>2, FailBatchMeans
  <2>4. PartSeen(i)'
    BY <2>1 DEF PartSeen
  <2> QED BY <2>1, <2>3, <2>4, SeenOfPart
<1>5. CASE StopPart(i)
  <2>1. UNCHANGED <<part, decision, arr, seen, sync>>
    BY <1>5 DEF StopPart
  <2>2. run'.direction = run.direction
    BY <1>5 DEF StopPart, Inv, TypeOK, RunTyped, Run
  <2> QED BY <2>1, <2>2, SameStays, SeenStays DEF SyncDrops
<1>6. ASSUME NEW d \in Decisions, NEW verdict \in {"send", "retire", "leave"}, CheckMove(i, d, verdict)
      PROVE  SeenInv'
  <2>1. /\ run'.direction = run.direction
        /\ \A j \in Instances : j # i => part'[j] = part[j]
        /\ part'[i].pc = "ready" \/ (part'[i].pc = "checked" /\ part'[i].move \in Revalidated(i, d))
    BY <1>6, CheckMoveMeans
  <2>2. UNCHANGED <<arr, seen, sync>> /\ \A e \in Decisions : Stays(e)
    BY <1>6, RetiredStays DEF CheckMove
  <2>3. PartSeen(i)'
    <3> SUFFICES ASSUME part'[i].pc = "checked", run.direction = "revert"
                 PROVE  decision'[part'[i].move].to \in seen[part'[i].move]
      BY <2>1, <2>2 DEF PartSeen, InHandPCs
    <3>1. PICK e : e = part'[i].move
      OBVIOUS
    <3>2. e \in Decisions
      BY <2>1, <3>1 DEF Revalidated
    <3>3. AsLoaded(part[i].move)'
      BY DEF LoadedInv
    <3>4. decision'[e].status = "applied"
      BY <2>1, <3>1, <3>3 DEF AsLoaded, InPlace
    <3>5. RowSeen(e) /\ Stays(e)
      BY <2>2, <3>2 DEF SeenInv
    <3> QED BY <3>1, <3>4, <3>5 DEF RowSeen, Stays, SameMove
  <2> QED BY <2>1, <2>2, <2>3, SeenOfPart
<1>7. CASE RequestMove(i)
  BY <1>7, SeenOnRequest
<1>8. ASSUME part[i].pc # "ready", UNCHANGED <<decision, run, sync, arr, seen>>, NEW pc, pc # "read",
             part' = [part EXCEPT ![i].pc = pc], pc \in InHandPCs => part[i].pc \in InHandPCs,
             pc = "taken" => Aim(i) \in seen[m]
      PROVE  SeenInv'
  <2>1. part'[i].pc = pc /\ part'[i].move = m /\ \A j \in Instances : j # i => part'[j] = part[j]
    BY <1>8, PartGoes
  <2>2. Stays(m) /\ SeenGrows /\ \A d \in Decisions : Stays(d)
    BY <1>1, <1>8, SameStays DEF SeenGrows
  <2>3. PartSeen(i)'
    BY <1>2, <1>8, <2>1, <2>2, PartSeenGoes
  <2> QED BY <1>8, <2>1, <2>2, <2>3, SeenOfPart
<1>9. CASE RequestRefused(i)
  <2>1. /\ part[i].pc # "ready" /\ UNCHANGED <<decision, run, sync, arr, seen>>
        /\ part' = [part EXCEPT ![i].pc = "failed"]
    BY <1>9 DEF RequestRefused
  <2> QED BY <1>8, <2>1 DEF InHandPCs
<1>10. CASE AnswerTimedOut(i)
  <2>1. /\ part[i].pc = "sent" /\ UNCHANGED <<decision, run, sync, arr, seen>>
        /\ part' = [part EXCEPT ![i].pc = "unanswered"]
    BY <1>10 DEF AnswerTimedOut
  <2> QED BY <1>8, <2>1 DEF InHandPCs
<1>11. CASE RecordSent(i)
  <2>1. /\ part[i].pc = "taken" /\ UNCHANGED <<decision, run, sync, arr, seen>>
        /\ part' = [part EXCEPT ![i].pc = "following"]
    BY <1>11 DEF RecordSent
  <2> QED BY <1>8, <2>1 DEF InHandPCs
<1>12. ASSUME NEW answered \in BOOLEAN, ReadBack(i, answered) PROVE SeenInv'
  <2>1. part[i].pc = "unanswered" /\ UNCHANGED <<decision, run, sync, arr, seen>>
    BY <1>12 DEF ReadBack
  <2>2. PICK pc \in {"failed", "taken"} :
          part' = [part EXCEPT ![i].pc = pc] /\ (pc = "taken" => arr[decision[m].title] = Target(m, run.direction))
    BY <1>12 DEF ReadBack
  <2>3. pc = "taken" => Aim(i) \in seen[m]
    <3>1. decision[m].status = "requested" /\ (decision[m].reverted <=> run.direction = "revert")
      BY <1>2, <2>1 DEF Inv, SafeInv, InHandIsRequested, PartSeen, InHandPCs
    <3>2. Goal(m) = Target(m, run.direction)
      BY <1>2, <3>1 DEF Goal, Target, Directions
    <3> QED BY <1>1, <2>1, <2>2, <3>1, <3>2 DEF RowSeen, Aim
  <2> QED BY <1>8, <2>1, <2>2, <2>3 DEF InHandPCs
<1>13. CASE FollowCommands(i)
  <2>1. part[i].pc = "following" /\ UNCHANGED <<decision, run, sync, arr, seen>>
    BY <1>13 DEF FollowCommands
  <2>2. PICK pc \in {"failed", "over"} : part' = [part EXCEPT ![i].pc = pc]
    BY <1>13 DEF FollowCommands
  <2> QED BY <1>8, <2>1, <2>2 DEF InHandPCs
<1>14. ASSUME NEW answered \in BOOLEAN, FollowTitle(i, answered) PROVE SeenInv'
  <2>1. part[i].pc = "over" /\ UNCHANGED <<decision, run, sync, arr, seen>>
    BY <1>14 DEF FollowTitle
  <2>2. /\ \A j \in Instances : j # i => part'[j] = part[j]
        /\ part'[i].move = m
        /\ part'[i].pc = "following" \/ (part'[i].pc = "read" /\ part'[i].held = arr[decision[m].title])
    BY <1>14 DEF FollowTitle, Inv, TypeOK, RunTyped, Part
  <2>3. part'[i].pc = "read" /\ part'[i].held = Aim(i) => Aim(i) \in seen[m]
    <3>1. decision[m].status = "requested" /\ (decision[m].reverted <=> run.direction = "revert")
      BY <1>2, <2>1 DEF Inv, SafeInv, InHandIsRequested, PartSeen, InHandPCs
    <3>2. Goal(m) = Target(m, run.direction)
      BY <1>2, <3>1 DEF Goal, Target, Directions
    <3> QED BY <1>1, <2>1, <2>2, <3>1, <3>2 DEF RowSeen, Aim
  <2>4. Stays(m) /\ SeenGrows /\ \A d \in Decisions : Stays(d)
    BY <1>1, <2>1, SameStays DEF SeenGrows
  <2>5. PartSeen(i)'
    BY <1>2, <2>1, <2>2, <2>3, <2>4, PartSeenGoes DEF InHandPCs
  <2> QED BY <2>1, <2>2, <2>4, <2>5, SeenOfPart
<1>15. ASSUME part[i].pc # "ready", UNCHANGED <<arr, seen, sync>>, NEW outcome, NextMove(i, outcome),
              \A d \in Decisions : d # m => Stays(d), Stays(m) \/ Ended(m)
       PROVE  SeenInv'
  <2>1. /\ part'[i].pc = "ready" /\ run'.direction = run.direction
        /\ \A j \in Instances : j # i => part'[j] = part[j]
    BY <1>15, NextMoveMeans
  <2>2. PartSeen(i)' /\ \A d \in Decisions : Stays(d) \/ (InstanceOfMove(d) = i /\ Ended(d))
    BY <1>1, <1>15, <2>1 DEF PartSeen
  <2> QED BY <1>15, <2>1, <2>2, SeenOfPart
<1>16. CASE RecordSuccess(i)
  <2>1. /\ part[i].pc = "taken" /\ decision' = Made(m, run.direction) /\ NextMove(i, "done")
        /\ UNCHANGED <<arr, seen, sync>>
    BY <1>16 DEF RecordSuccess
  <2>2. /\ \A d \in Decisions : d # m => Stays(d)
        /\ SameMove(m)
        /\ decision'[m].status = (IF run.direction = "forward" THEN "applied" ELSE "skipped")
        /\ decision'[m].reverted = (run.direction = "revert" \/ decision[m].reverted)
    BY <1>1, <1>2, <2>1, MadeMeans
  <2>3. Ended(m)
    BY <1>1, <1>2, <2>1, <2>2 DEF Ended, Known, PartSeen, RowSeen, Aim, Target, Directions
  <2> QED BY <1>15, <2>1, <2>2, <2>3
<1>17. CASE FollowStopped(i)
  <2>1. /\ part[i].pc = "following" /\ UNCHANGED <<decision, arr, seen, sync>>
        /\ part' = [part EXCEPT ![i] = [Ready EXCEPT !.begun = TRUE]]
    BY <1>17 DEF FollowStopped
  <2>2. run'.direction = run.direction
    BY <1>17 DEF FollowStopped, Inv, TypeOK, RunTyped, Run
  <2>3. part'[i].pc = "ready" /\ \A j \in Instances : j # i => part'[j] = part[j]
    BY <2>1, PartNext
  <2> QED BY <2>1, <2>2, <2>3, SameStays, SeenStays DEF SyncDrops
<1>18. ASSUME part[i].pc # "ready", decision' = Failed(m, run.direction)
       PROVE  Ended(m) /\ \A d \in Decisions : d # m => Stays(d)
  <2>1. FailedNow(m, run.direction) /\ \A d \in Decisions : d # m => Stays(d)
    BY <1>1, <1>18, FailedMeans
  <2>2. run.direction # "forward" => decision[m].to \in seen[m]
    BY <1>2, <1>18 DEF PartSeen, Directions
  <2> QED BY <1>1, <1>18, <2>1, <2>2, FailedEnds DEF Known
<1>19. CASE RecordFollowed(i)
  <2>1. /\ part[i].pc = "read" /\ UNCHANGED <<arr, seen, sync>> /\ \E outcome : NextMove(i, outcome)
        /\ IF part[i].held = Target(m, run.direction) THEN decision' = Confirmed(m, run.direction)
           ELSE decision' = Failed(m, run.direction)
    BY <1>19 DEF RecordFollowed
  <2>2. CASE part[i].held = Target(m, run.direction)
    <3>1. Aim(i) \in seen[m] /\ decision[m].status = "requested"
      BY <1>2, <2>1, <2>2 DEF PartSeen, Aim, Inv, SafeInv, InHandIsRequested
    <3>2. decision' = Confirmed(m, run.direction)
      BY <2>1, <2>2
    <3>3. /\ \A d \in Decisions : d # m => Stays(d)
          /\ SameMove(m) /\ decision'[m].reverted = decision[m].reverted
          /\ decision'[m].status = (IF run.direction = "forward" THEN "applied" ELSE "skipped")
      BY <1>1, <2>1, <3>1, <3>2, ConfirmedMeans
    <3>4. Ended(m)
      BY <1>1, <1>2, <2>1, <3>1, <3>3 DEF Ended, Known, RowSeen, Aim, Target, Directions
    <3> QED BY <1>15, <2>1, <3>3, <3>4
  <2>3. CASE part[i].held # Target(m, run.direction)
    BY <1>15, <1>18, <2>1, <2>3
  <2> QED BY <2>2, <2>3
<1>20. CASE RecordFailure(i)
  <2>1. /\ part[i].pc = "failed" /\ UNCHANGED <<arr, seen, sync>> /\ NextMove(i, "failed")
        /\ decision' = Failed(m, run.direction)
    BY <1>20 DEF RecordFailure
  <2> QED BY <1>15, <1>18, <2>1
<1>21. CASE RecordLost(i)
  <2>1. UNCHANGED <<decision, arr, seen, sync>> /\ part[i].pc # "ready"
    BY <1>21 DEF RecordLost
  <2>2. \/ part[i].pc = "taken" /\ part' = [part EXCEPT ![i].pc = "following"] /\ run' = run
        \/ \E outcome : NextMove(i, outcome)
    BY <1>21 DEF RecordLost
  <2>3. CASE part[i].pc = "taken" /\ part' = [part EXCEPT ![i].pc = "following"] /\ run' = run
    BY <1>8, <2>1, <2>3 DEF InHandPCs
  <2>4. CASE \E outcome : NextMove(i, outcome)
    BY <1>1, <1>15, <2>1, <2>4, SameStays
  <2> QED BY <2>2, <2>3, <2>4
<1> QED BY <1>4, <1>5, <1>6, <1>7, <1>9, <1>10, <1>11, <1>12, <1>13, <1>14, <1>16, <1>17, <1>19, <1>20, <1>21 DEF PartStep

LEMMA SeenKeptBySyncs ==
  ASSUME Inv, SeenInv, NEW i \in Instances, SyncStep(i)
  PROVE  SeenInv'
<1> USE DEF db, runVars, syncVars, arrVars, history, bounds
<1>1. sync[i] \in Sync /\ sync \in [Instances -> Sync]
  BY DEF Inv, TypeOK, SyncTyped
<1>2. ASSUME UNCHANGED <<part, run, arr, seen>>, NEW left, sync' = [sync EXCEPT ![i] = left],
             left.back \subseteq sync[i].back, left.pc # "held", \A d \in Decisions : Stays(d)
      PROVE  SeenInv'
  <2>1. sync'[i] = left /\ \A j \in Instances : j # i => sync'[j] = sync[j]
    BY <1>1, <1>2
  <2>2. \A j \in Instances : SyncDrops(j)
    BY <1>2, <2>1 DEF SyncDrops
  <2> QED BY <1>2, <2>2, SeenStays
<1>3. NoSync.back = {} /\ NoSync.pc = "idle"
  BY DEF NoSync
<1>4. CASE SyncBegin(i)
  <2>1. [sync[i] EXCEPT !.pc = "begun"].back = sync[i].back /\ [sync[i] EXCEPT !.pc = "begun"].pc = "begun"
    BY <1>1 DEF Sync
  <2>2. sync' = [sync EXCEPT ![i] = [sync[i] EXCEPT !.pc = "begun"]] /\ UNCHANGED <<part, run, arr, seen, decision>>
    BY <1>4 DEF SyncBegin
  <2> QED BY <1>2, <2>1, <2>2, SameStays
<1>5. CASE SyncRead(i)
  <2>1. PICK snap : sync' = [sync EXCEPT ![i] = [sync[i] EXCEPT !.pc = "read", !.snap = snap]]
    BY <1>1, <1>5 DEF SyncRead
  <2>2. PICK left : left = [sync[i] EXCEPT !.pc = "read", !.snap = snap]
    OBVIOUS
  <2>3. left.back = sync[i].back /\ left.pc = "read"
    BY <1>1, <2>2 DEF Sync
  <2>4. UNCHANGED <<part, run, arr, seen, decision>>
    BY <1>5 DEF SyncRead
  <2> QED BY <1>2, <2>1, <2>2, <2>3, <2>4, SameStays
<1>6. CASE SyncFail(i) \/ SettleSkip(i)
  BY <1>2, <1>3, <1>6, SameStays DEF SyncFail, SettleSkip
<1>7. CASE \E cleanup \in BOOLEAN : SyncWrite(i, cleanup)
  <2>1. UNCHANGED <<part, run, arr, seen>> /\ \E ids : decision' = Retired(ids)
    BY <1>7 DEF SyncWrite
  <2>2. sync' = [sync EXCEPT ![i] = [NoSync EXCEPT !.pc = "written"]]
    BY <1>7 DEF SyncWrite
  <2>3. [NoSync EXCEPT !.pc = "written"].back = {} /\ [NoSync EXCEPT !.pc = "written"].pc = "written"
    BY DEF NoSync
  <2> QED BY <1>2, <2>1, <2>2, <2>3, RetiredStays
<1>8. CASE SettleRead(i)
  <2>1. UNCHANGED <<part, run, arr, seen, decision>>
    BY <1>8 DEF SettleRead
  <2>2. /\ \A j \in Instances : j # i => sync'[j] = sync[j]
        /\ sync'[i].pc # "held" /\ sync'[i].back \subseteq {d \in LeftRequested(i) : decision[d].reverted}
    BY <1>1, <1>8 DEF SettleRead, NoSync
  <2>3. SyncSeen(i)'
    BY <2>1, <2>2 DEF SyncSeen, LeftRequested, SeenInv, RowSeen
  <2> QED BY <2>1, <2>2, <2>3, SameStays, SeenOfSync
<1>9. CASE SettleLock(i)
  <2>1. PICK running, ended : sync' = [sync EXCEPT ![i] =
            [sync[i] EXCEPT !.pc = "settling", !.running = running, !.ended = ended]]
    BY <1>1, <1>9 DEF SettleLock
  <2>2. PICK left : left = [sync[i] EXCEPT !.pc = "settling", !.running = running, !.ended = ended]
    OBVIOUS
  <2>3. left.back = sync[i].back /\ left.pc = "settling"
    BY <1>1, <2>2 DEF Sync
  <2>4. UNCHANGED <<part, run, arr, seen, decision>>
    BY <1>9 DEF SettleLock
  <2> QED BY <1>2, <2>1, <2>2, <2>3, <2>4, SameStays
<1>10. CASE SettleUnread(i)
  <2>1. PICK left : left = [sync[i] EXCEPT !.pc = "settling", !.move = None, !.held = None]
    OBVIOUS
  <2>2. left.back = sync[i].back /\ left.pc = "settling"
    BY <1>1, <2>1 DEF Sync
  <2>3. UNCHANGED <<part, run, arr, seen, decision>> /\ sync' = [sync EXCEPT ![i] = left]
    BY <1>10, <2>1 DEF SettleUnread
  <2> QED BY <1>2, <2>2, <2>3, SameStays
<1>11. CASE SettleEnd(i)
  <2>1. UNCHANGED <<part, run, arr, seen, decision>> /\ sync' = [sync EXCEPT ![i] = NoSync]
    BY <1>11 DEF SettleEnd
  <2> QED BY <1>2, <1>3, <2>1, SameStays
<1>12. ASSUME NEW d \in Decisions, Known(d), decision' = Failed(d, SettleDirection(i, d))
       PROVE  Ended(d) /\ \A e \in Decisions : e # d => Stays(e)
  <2>1. FailedNow(d, SettleDirection(i, d)) /\ \A e \in Decisions : e # d => Stays(e)
    BY <1>12, FailedMeans
  <2>2. SettleDirection(i, d) # "forward" => decision[d].to \in seen[d]
    BY DEF SettleDirection, SeenInv, SyncSeen
  <2> QED BY <1>12, <2>1, <2>2, FailedEnds DEF Known, SeenInv
<1>13. ASSUME NEW d \in Decisions, SettlePick(i, d) PROVE SeenInv'
  <2>1. sync[i].pc = "settling" /\ d \in sync[i].rows /\ UNCHANGED <<arr, seen, part, run>>
    BY <1>13 DEF SettlePick
  <2>2. lock # "run" /\ Known(d)
    BY <2>1 DEF Inv, SafeInv, LockHeld, Settling, MovesKnown
  <2>3. \A e \in Decisions : Stays(e) \/ Ended(e)
    <3>1. CASE decision' = decision
      BY <3>1, SameStays
    <3>2. CASE decision' = Failed(d, SettleDirection(i, d))
      BY <1>12, <2>2, <3>2
    <3> QED BY <1>13, <3>1, <3>2 DEF SettlePick
  <2>4. PICK left : left = [sync[i] EXCEPT !.rows = sync[i].rows \ {d}]
    OBVIOUS
  <2>5. left.back = sync[i].back /\ left.pc = "settling" /\ left \in [pc : {"settling"}, snap : {left.snap},
          rows : {left.rows}, back : {left.back}, running : {left.running}, ended : {left.ended},
          move : {left.move}, held : {left.held}]
    BY <1>1, <2>1, <2>4 DEF Sync
  <2>6. \/ sync' = [sync EXCEPT ![i] = left]
        \/ /\ decision' = decision
           /\ sync' = [sync EXCEPT ![i] = [left EXCEPT !.pc = "held", !.move = d, !.held = arr[decision[d].title]]]
    BY <1>13, <2>4 DEF SettlePick
  <2>7. \A j \in Instances : j # i => sync'[j] = sync[j]
    BY <1>1, <2>6
  <2>8. SyncSeen(i)'
    <3>1. CASE sync' = [sync EXCEPT ![i] = left]
      <4>1. SyncDrops(i) /\ SeenGrows
        BY <1>1, <2>1, <2>5, <3>1 DEF SyncDrops, SeenGrows
      <4> QED BY <2>3, <4>1, SyncSeenStays DEF SeenInv
    <3>2. CASE /\ decision' = decision
               /\ sync' = [sync EXCEPT ![i] = [left EXCEPT !.pc = "held", !.move = d, !.held = arr[decision[d].title]]]
      <4>1. /\ sync'[i].back = sync[i].back /\ sync'[i].pc = "held" /\ sync'[i].move = d
            /\ sync'[i].held = arr[decision[d].title]
        BY <1>1, <2>5, <3>2
      <4>2. RowSeen(d) /\ (d \in sync[i].back /\ decision[d].status = "requested" => decision[d].reverted)
        BY DEF SeenInv, SyncSeen
      <4>3. SettleTarget(i)' = IF d \in sync[i].back THEN decision[d].from ELSE decision[d].to
        BY <3>2, <4>1 DEF SettleTarget, SettleDirection, Target
      <4>4. /\ decision[d].status = "requested"
            /\ arr[decision[d].title] = IF d \in sync[i].back THEN decision[d].from ELSE decision[d].to
            => (IF d \in sync[i].back THEN decision[d].from ELSE decision[d].to) \in seen[d]
        BY <4>2 DEF RowSeen, Goal
      <4> QED BY <2>1, <3>2, <4>1, <4>3, <4>4 DEF SeenInv, SyncSeen
    <3> QED BY <2>6, <3>1, <3>2
  <2> QED BY <2>1, <2>2, <2>3, <2>7, <2>8, SeenOfSync
<1>14. CASE SettleRecord(i)
  <2> DEFINE d == sync[i].move
  <2>1. /\ sync[i].pc = "held" /\ UNCHANGED <<arr, seen, part, run>>
        /\ sync' = [sync EXCEPT ![i] = [sync[i] EXCEPT !.pc = "settling", !.move = None, !.held = None]]
        /\ IF sync[i].held = Target(d, SettleDirection(i, d)) THEN decision' = Confirmed(d, SettleDirection(i, d))
           ELSE decision' = Failed(d, SettleDirection(i, d))
    BY <1>14 DEF SettleRecord
  <2>2. lock # "run" /\ Known(d) /\ d \in Decisions
    BY <2>1 DEF Inv, SafeInv, LockHeld, Settling, MovesKnown, Known
  <2>3. \A e \in Decisions : Stays(e) \/ Ended(e)
    <3>1. CASE sync[i].held = Target(d, SettleDirection(i, d))
      <4>1. decision' = Confirmed(d, SettleDirection(i, d))
        BY <2>1, <3>1
      <4>2. /\ \A e \in Decisions : e # d => Stays(e)
            /\ decision[d].status # "requested" => Stays(d)
            /\ SameMove(d) /\ decision'[d].reverted = decision[d].reverted
            /\ decision[d].status = "requested" =>
                 decision'[d].status = (IF SettleDirection(i, d) = "forward" THEN "applied" ELSE "skipped")
        BY <2>2, <4>1, ConfirmedMeans
      <4>3. decision[d].status = "requested" => Target(d, SettleDirection(i, d)) \in seen[d]
        BY <2>1, <3>1 DEF SeenInv, SyncSeen, SettleTarget
      <4>4. decision[d].status = "requested" => Ended(d)
        BY <2>2, <4>2, <4>3 DEF Ended, SeenInv, RowSeen, Target
      <4> QED BY <4>2, <4>4
    <3>2. CASE sync[i].held # Target(d, SettleDirection(i, d))
      BY <1>12, <2>1, <2>2, <3>2
    <3> QED BY <3>1, <3>2
  <2>4. /\ \A j \in Instances : j # i => sync'[j] = sync[j]
        /\ sync'[i].back = sync[i].back /\ sync'[i].pc = "settling"
    BY <1>1, <2>1 DEF Sync
  <2>5. SyncDrops(i) /\ SeenGrows
    BY <2>1, <2>4 DEF SyncDrops, SeenGrows
  <2>6. SyncSeen(i)'
    BY <2>3, <2>5, SyncSeenStays DEF SeenInv
  <2> QED BY <2>1, <2>2, <2>3, <2>4, <2>6, SeenOfSync
<1> QED BY <1>4, <1>5, <1>6, <1>7, <1>8, <1>9, <1>10, <1>11, <1>13, <1>14 DEF SyncStep

LEMMA SeenKept ==
  ASSUME Inv, LoadedInv, LoadedInv', SeenInv, [Next]_vars
  PROVE  SeenInv'
<1> USE DEF db, runVars, syncVars, arrVars, history, bounds
<1>1. ASSUME UNCHANGED <<part, sync, arr, seen>>, run'.direction = run.direction,
             \A d \in Decisions : Stays(d) \/ Proposed(d)
      PROVE  SeenInv'
  BY <1>1, SeenStays DEF SyncDrops
<1>2. ASSUME UNCHANGED <<sync, arr, seen>>, \A i \in Instances : part'[i].pc = "ready",
             \A d \in Decisions : Stays(d)
      PROVE  SeenInv'
  BY <1>2, SeenStays DEF SyncDrops
<1>3. CASE Simulate
  <2>1. UNCHANGED <<run, part, sync, arr, seen>>
    BY <1>3 DEF Simulate, SimulationRead, SimulationStored
  <2>2. CASE \E t \in Titles, to \in Folders : SimulationRead(t, to)
    BY <1>1, <2>1, <2>2, SameStays DEF SimulationRead
  <2>3. ASSUME NEW s \in sim, NEW d \in Decisions, SimulationStored(s, d)
        PROVE  \A e \in Decisions : Stays(e) \/ Proposed(e)
    BY <2>3, StoredMeans DEF Proposed
  <2> QED BY <1>1, <1>3, <2>1, <2>2, <2>3 DEF Simulate
<1>4. CASE Operator
  <2>1. CASE StartSome
    BY <1>2, <2>1, SameStays DEF StartSome, StartRun, Ready
  <2>2. CASE Cancel \/ \E on \in BOOLEAN : SetDryRun(on)
    BY <1>1, <2>2, SameStays DEF Cancel, SetDryRun
  <2> QED BY <1>4, <2>1, <2>2 DEF Operator
<1>5. CASE RunStep
  <2>1. CASE StopSlices \/ LoadFailed
    <3>1. run'.direction = run.direction /\ UNCHANGED <<part, sync, arr, seen, decision>>
      BY <2>1 DEF StopSlices, LoadFailed, Inv, TypeOK, RunTyped, Run
    <3> QED BY <1>1, <3>1, SameStays
  <2>2. ASSUME NEW batch \in SUBSET Decisions, NEW stale \in SUBSET Decisions,
               NEW retired \in SUBSET Decisions, LoadSlice(batch, stale, retired)
        PROVE  SeenInv'
    <3>1. UNCHANGED <<sync, arr, seen>> /\ decision' = Retired(retired) /\ part' = [i \in Instances |-> Ready]
      BY <2>2 DEF LoadSlice
    <3> QED BY <1>2, <3>1, RetiredStays DEF Ready
  <2>3. CASE FinishRun
    BY <1>2, <2>3, SameStays DEF FinishRun, Ready
  <2> QED BY <1>5, <2>1, <2>2, <2>3 DEF RunStep
<1>6. CASE \E i \in Instances : PartStep(i)
  BY <1>6, SeenKeptByParts
<1>7. CASE \E i \in Instances : SyncStep(i)
  BY <1>7, SeenKeptBySyncs
<1>8. CASE ArrStep
  <2>1. ASSUME NEW p \in puts, NEW answered \in BOOLEAN, ArrTake(p, answered)
        PROVE  SeenInv'
    <3>1. UNCHANGED <<decision, run, sync>> /\ arr' = [arr EXCEPT ![decision[p.move].title] = p.to]
          /\ seen' = Witnessed(decision, arr')
      BY <2>1 DEF ArrTake
    <3>2. PICK pc \in {"taken", "unanswered"} : part' = Answered(p, pc)
      BY <2>1 DEF ArrTake
    <3>3. /\ SeenGrows
          /\ \A d \in Decisions : decision[d].status = "requested" /\ arr'[decision[d].title] = Goal(d) => Goal(d) \in seen'[d]
      BY <3>1, WitnessedMeans DEF Goal
    <3>4. ASSUME NEW i \in Instances, part'[i] # part[i] PROVE PartSeen(i)'
      <4>1. i \in WaitingFor(p) /\ part'[i].pc = pc /\ part'[i].move = part[i].move
        BY <3>2, <3>4, AnsweredMeans
      <4>2. PICK d : d = part[i].move
        OBVIOUS
      <4>3. part[i].pc = "sent" /\ PutOf(d) = p
        BY <4>1, <4>2 DEF WaitingFor
      <4>4. p.move = d /\ p.to = Target(d, run.direction)
        BY <4>3 DEF PutOf
      <4>5. Known(d) /\ d \in Decisions /\ decision[d].title \in Titles
        BY <4>2, <4>3, InHandOfPart DEF Known, Inv, SafeInv, DecisionsKnown
      <4>6. arr'[decision[d].title] = Target(d, run.direction)
        BY <3>1, <4>4, <4>5 DEF Inv, TypeOK, ArrTyped
      <4>7. decision[d].status = "requested" /\ (decision[d].reverted <=> run.direction = "revert")
        BY <4>2, <4>3 DEF SeenInv, PartSeen, Inv, SafeInv, InHandIsRequested, InHandPCs
      <4>8. run.direction \in Directions
        BY DEF Inv, TypeOK, RunTyped, Run
      <4>9. Target(d, run.direction) \in seen'[d]
        BY <3>3, <4>5, <4>6, <4>7, <4>8 DEF Goal, Target, Directions
      <4>10. Stays(part[i].move) /\ part[i].pc # "ready"
        BY <3>1, <4>2, <4>3, <4>5, SameStays
      <4>11. Aim(i) \in seen'[part[i].move]
        BY <4>2, <4>9 DEF Aim
      <4> QED BY <3>1, <3>3, <4>1, <4>3, <4>10, <4>11, PartSeenGoes DEF SeenInv, InHandPCs
    <3> QED BY <3>1, <3>4, SeenOfArr
  <2>2. ASSUME NEW p \in puts, NEW answered \in BOOLEAN, ArrDrop(p, answered)
        PROVE  SeenInv'
    <3>1. UNCHANGED <<decision, run, sync, arr, seen>>
      BY <2>2 DEF ArrDrop
    <3>2. PICK pc \in {"failed", "unanswered"} : part' = Answered(p, pc)
      BY <2>2 DEF ArrDrop
    <3>3. SeenGrows /\ \A d \in Decisions : Stays(d)
      BY <3>1, SameStays DEF SeenGrows
    <3>4. ASSUME NEW i \in Instances PROVE PartSeen(i)'
      <4>1. CASE part'[i] = part[i]
        <5>1. part[i].pc # "ready" => Stays(part[i].move)
          BY <3>3, InHandOfPart DEF Known
        <5> QED BY <3>1, <3>3, <4>1, <5>1, PartSeenStays DEF SeenInv
      <4>2. CASE part'[i] # part[i]
        <5>1. part[i].pc = "sent" /\ part'[i].pc = pc /\ part'[i].move = part[i].move
          BY <3>2, <4>2, AnsweredMeans DEF WaitingFor
        <5>2. Stays(part[i].move)
          BY <3>3, <5>1, InHandOfPart DEF Known
        <5> QED BY <3>1, <3>3, <5>1, <5>2, PartSeenGoes DEF SeenInv, InHandPCs
      <4> QED BY <4>1, <4>2
    <3>5. \A d \in Decisions : RowSeen(d)'
      BY <3>1, <3>3, RowSeenStays DEF SeenInv
    <3>6. \A i \in Instances : SyncSeen(i)'
      BY <3>1, <3>3, SyncSeenStays DEF SeenInv, SyncDrops
    <3> QED BY <3>4, <3>5, <3>6 DEF SeenInv
  <2>3. ASSUME UNCHANGED <<decision, run, part, sync>>, seen' = Witnessed(decision, arr')
        PROVE  SeenInv'
    BY <2>3, SeenOfArr
  <2>4. CASE \E t \in Titles : CommandForget(t)
    BY <1>1, <2>4, SameStays DEF CommandForget
  <2>5. CASE \E t \in Titles, state \in {"completed", "ended"}, back \in BOOLEAN :
               \E n \in DOMAIN commands[t] : CommandEnd(t, n, state, back)
    BY <2>3, <2>5 DEF CommandEnd
  <2>6. CASE \E t \in Titles, folder \in Folder : HandMove(t, folder)
    BY <2>3, <2>6 DEF HandMove
  <2> QED BY <1>8, <2>1, <2>2, <2>4, <2>5, <2>6 DEF ArrStep
<1>9. CASE Crash
  <2>1. UNCHANGED <<arr, seen, decision>> /\ part' = [i \in Instances |-> Ready] /\ sync' = [i \in Instances |-> NoSync]
    BY <1>9 DEF Crash
  <2>2. \A i \in Instances : part'[i].pc = "ready" /\ SyncDrops(i)
    BY <2>1 DEF Ready, NoSync, SyncDrops
  <2> QED BY <2>1, <2>2, SameStays, SeenStays
<1>10. CASE UNCHANGED vars
  <2>1. UNCHANGED <<run, part, sync, arr, seen, decision>>
    BY <1>10 DEF vars
  <2> QED BY <1>1, <2>1, SameStays
<1> QED BY <1>3, <1>4, <1>5, <1>6, <1>7, <1>8, <1>9, <1>10 DEF Next

-----------------------------------------------------------------------------
(***************************************************************************)
(* Where the row of a title may differ from the Arr. It says where the Arr *)
(* holds the title (Says), or a move of the title is requested, or the Arr *)
(* changed it unasked. A part that follows its move has moved the row; one *)
(* whose PUT was not taken leaves it to the other requests of the title;   *)
(* what is read of a title is where it is, or else was changed unasked. A  *)
(* sync writes what it read, or keeps the row moved since.                 *)
(***************************************************************************)

Says(t) == row[t] \in {None, arr[t]} \/ t \in unseen

Asks(d, t) == decision[d].title = t /\ decision[d].status = "requested"

TitleOf(i) == decision[part[i].move].title

\* The Arr took a move of title t, whose row is about to follow.
Taken(t) == \E i \in Instances : part[i].pc = "taken" /\ TitleOf(i) = t

TitleRow(t) ==
  /\ Says(t) \/ \E d \in Decisions : Asks(d, t)
  /\ arr[t] = None /\ row[t] # None => t \in unseen

PartRow(i) ==
  /\ part[i].pc \in {"following", "over", "read"} => Says(TitleOf(i))
  /\ part[i].pc = "taken" => Aim(i) = arr[TitleOf(i)] \/ TitleOf(i) \in unseen
  /\ part[i].pc = "read" => part[i].held = arr[TitleOf(i)] \/ TitleOf(i) \in unseen
  /\ part[i].pc \in {"sent", "unanswered", "failed"} =>
       Says(TitleOf(i)) \/ \E d \in Decisions : d # part[i].move /\ Asks(d, TitleOf(i))

SyncTitle(i, t) ==
  /\ sync[i].pc \in {"written", "rows", "settling", "held"} => Says(t) \/ Taken(t)
  /\ sync[i].pc \in {"begun", "read"} /\ t \in kept => Says(t) \/ Taken(t)
  /\ sync[i].pc = "read" =>
       t \in kept \/ row[t] = None \/ sync[i].snap[t] = arr[t] \/ t \in unseen \/ Taken(t)

SyncOwn(i) ==
  /\ \A d \in sync[i].rows : InstanceOfMove(d) = i
  /\ sync[i].pc = "held" =>
       LET t == decision[sync[i].move].title IN
       InstanceOf[t] = i /\ (sync[i].held = arr[t] \/ t \in unseen)

RowInv ==
  /\ \A t \in Titles : TitleRow(t)
  /\ \A i \in Instances : PartRow(i)
  /\ \A i \in Instances : SyncOwn(i) /\ \A t \in TitlesOf(i) : SyncTitle(i, t)

\* The title stays where it is, or its change is not seen.
TitleStays(t) == t \in unseen' \/ (t \notin unseen /\ row'[t] = row[t] /\ arr'[t] = arr[t])

LEMMA SaysStays ==
  ASSUME NEW t, TitleStays(t)
  PROVE  /\ Says(t) => Says(t)'
         /\ \A f : f = arr[t] \/ t \in unseen => f = arr'[t] \/ t \in unseen'
BY DEF TitleStays, Says

LEMMA InHandTitle ==
  ASSUME Inv, NEW i \in Instances, part[i].pc # "ready"
  PROVE  TitleOf(i) \in Titles /\ InstanceOf[TitleOf(i)] = i /\ part[i].move \in Decisions
<1>1. Known(part[i].move) /\ InstanceOfMove(part[i].move) = i
  BY InHandOfPart
<1> QED BY <1>1 DEF Inv, SafeInv, DecisionsKnown, Known, InstanceOfMove, TitleOf

LEMMA TitleRowStays ==
  ASSUME NEW t, TitleRow(t), TitleStays(t),
         \A d \in Decisions : Asks(d, t) => Says(t) \/ \E e \in Decisions : Asks(e, t)'
  PROVE  TitleRow(t)'
<1>1. Says(t) => Says(t)'
  BY SaysStays
<1>2. Says(t)' \/ \E e \in Decisions : Asks(e, t)'
  <2> HIDE DEF Says, Asks
  <2> QED BY <1>1 DEF TitleRow
<1> QED BY <1>2 DEF TitleRow, TitleStays

LEMMA PartRowStays ==
  ASSUME Inv, NEW i \in Instances, PartRow(i), part'[i] = part[i], run'.direction = run.direction,
         part[i].pc # "ready" =>
           /\ SameMove(part[i].move) /\ TitleStays(TitleOf(i))
           /\ \A d \in Decisions : d # part[i].move /\ Asks(d, TitleOf(i)) => Stays(d)
  PROVE  PartRow(i)'
<1> SUFFICES ASSUME part[i].pc # "ready" PROVE PartRow(i)'
  BY DEF PartRow
<1>1. PICK m, t : m = part[i].move /\ t = TitleOf(i)
  OBVIOUS
<1>2. part'[i].move = m /\ TitleOf(i)' = t /\ Aim(i)' = Aim(i)
  BY <1>1 DEF TitleOf, Aim, Target, SameMove
<1>3. /\ Says(t) => Says(t)'
      /\ \A f : f = arr[t] \/ t \in unseen => f = arr'[t] \/ t \in unseen'
  BY <1>1, SaysStays
<1>4. \A d \in Decisions : d # m /\ Asks(d, t) => Asks(d, t)'
  BY <1>1 DEF Asks, Stays, SameMove
<1>5. /\ part[i].pc \in {"following", "over", "read"} => Says(t)
      /\ part[i].pc = "taken" => Aim(i) = arr[t] \/ t \in unseen
      /\ part[i].pc = "read" => part[i].held = arr[t] \/ t \in unseen
      /\ part[i].pc \in {"sent", "unanswered", "failed"} =>
           Says(t) \/ \E d \in Decisions : d # m /\ Asks(d, t)
  BY <1>1 DEF PartRow
<1>6. /\ part'[i].pc \in {"following", "over", "read"} => Says(t)'
      /\ part'[i].pc = "taken" => Aim(i)' = arr'[t] \/ t \in unseen'
      /\ part'[i].pc = "read" => part'[i].held = arr'[t] \/ t \in unseen'
      /\ part'[i].pc \in {"sent", "unanswered", "failed"} =>
           Says(t)' \/ \E d \in Decisions : d # m /\ Asks(d, t)'
  <2> HIDE DEF Says, Asks
  <2> QED BY <1>2, <1>3, <1>4, <1>5
<1> QED BY <1>2, <1>6 DEF PartRow, Says, Asks

LEMMA SyncTitleStays ==
  ASSUME NEW i, NEW t, SyncTitle(i, t), sync'[i].pc = sync[i].pc, sync'[i].snap = sync[i].snap,
         TitleStays(t), Taken(t) => Taken(t)', t \in kept' => t \in kept, t \in kept => t \in kept'
  PROVE  SyncTitle(i, t)'
<1>1. Says(t) => Says(t)'
  BY SaysStays
<1> HIDE DEF Says, Taken
<1> QED BY <1>1 DEF SyncTitle, TitleStays

LEMMA SyncTitleSaid ==
  ASSUME NEW i, NEW t, Says(t)' \/ Taken(t)',
         sync'[i].pc = "read" => t \in kept' \/ row'[t] = None \/ t \in unseen' \/ Taken(t)'
  PROVE  SyncTitle(i, t)'
<1> HIDE DEF Says, Taken
<1> QED BY DEF SyncTitle

LEMMA SyncOwnStays ==
  ASSUME Inv, NEW i \in Instances, SyncOwn(i), sync'[i].rows \subseteq sync[i].rows,
         \A d \in Decisions : Known(d) => SameMove(d),
         sync'[i].pc = "held" =>
           /\ sync[i].pc = "held" /\ sync'[i].move = sync[i].move /\ sync'[i].held = sync[i].held
           /\ TitleStays(decision[sync[i].move].title)
  PROVE  SyncOwn(i)'
<1>1. ASSUME NEW d \in sync'[i].rows PROVE InstanceOfMove(d)' = i
  <2>1. Known(d) /\ InstanceOfMove(d) = i
    BY <1>1 DEF SyncOwn, Inv, SafeInv, MovesKnown
  <2> QED BY <2>1 DEF InstanceOfMove, SameMove, Known
<1>2. ASSUME sync'[i].pc = "held"
      PROVE  LET t == decision'[sync'[i].move].title IN
             InstanceOf[t] = i /\ (sync'[i].held = arr'[t] \/ t \in unseen')
  <2>1. PICK d : d = sync[i].move
    OBVIOUS
  <2>2. Known(d) /\ SameMove(d) /\ d = sync'[i].move
    BY <1>2, <2>1 DEF Inv, SafeInv, MovesKnown, Known
  <2> QED BY <1>2, <2>1, <2>2, SaysStays DEF SyncOwn, SameMove
<1> QED BY <1>1, <1>2 DEF SyncOwn

TakenStays == \A i \in Instances : part[i].pc = "taken" => part'[i].pc = "taken" /\ TitleOf(i)' = TitleOf(i)

LEMMA TakenGoesOn ==
  ASSUME TakenStays, NEW t, Taken(t)
  PROVE  Taken(t)'
BY DEF TakenStays, Taken

\* The titles and the syncs stay; the decisions and the parts go on.
LEMMA RowsStill ==
  ASSUME Inv, RowInv, \A t \in Titles : TitleStays(t), UNCHANGED <<kept, sync>>, TakenStays,
         \A d \in Decisions : Known(d) => SameMove(d),
         \A t \in Titles, d \in Decisions : Asks(d, t) => Says(t) \/ \E e \in Decisions : Asks(e, t)',
         \A i \in Instances : PartRow(i)'
  PROVE  RowInv'
<1>1. \A t \in Titles : TitleRow(t)'
  <2> HIDE DEF TitleRow, Asks, Says
  <2> QED BY TitleRowStays DEF RowInv
<1>2. ASSUME NEW i \in Instances, NEW t \in TitlesOf(i) PROVE SyncTitle(i, t)'
  BY <1>2, TakenGoesOn, SyncTitleStays DEF RowInv, TitlesOf
<1>3. ASSUME NEW i \in Instances PROVE SyncOwn(i)'
  <2>1. sync[i].pc = "held" => TitleStays(decision[sync[i].move].title)
    BY DEF Inv, SafeInv, MovesKnown, DecisionsKnown, Known
  <2> QED BY <2>1, SyncOwnStays DEF RowInv
<1> QED BY <1>1, <1>2, <1>3 DEF RowInv, TitlesOf

\* Nothing a row follows changed, but for parts that had nothing in hand.
LEMMA RowsSame ==
  ASSUME Inv, RowInv, UNCHANGED <<row, arr, unseen, kept, sync>>,
         \A d \in Decisions : Known(d) => SameMove(d),
         \A d \in Decisions : decision[d].status = "requested" => Stays(d),
         \A i \in Instances :
           \/ part'[i] = part[i] /\ run'.direction = run.direction
           \/ part'[i].pc = "ready" /\ part[i].pc = "ready"
  PROVE  RowInv'
<1>1. \A t : TitleStays(t)
  BY DEF TitleStays
<1>2. TakenStays
  BY InHandTitle DEF TakenStays, TitleOf, SameMove, Known, Inv, SafeInv, MovesKnown
<1>3. \A d \in Decisions : \A t : Asks(d, t) => Stays(d) /\ Asks(d, t)'
  BY DEF Asks, Stays, SameMove
<1>4. ASSUME NEW i \in Instances PROVE PartRow(i)'
  <2>1. CASE part'[i].pc = "ready"
    BY <2>1 DEF PartRow
  <2>2. CASE part'[i] = part[i] /\ run'.direction = run.direction
    <3>1. part[i].pc # "ready" => SameMove(part[i].move)
      BY InHandOfPart DEF Known
    <3> QED BY <1>1, <1>3, <2>2, <3>1, PartRowStays DEF RowInv
  <2> QED BY <2>1, <2>2
<1>5. \A t \in Titles, d \in Decisions : Asks(d, t) => Says(t) \/ \E e \in Decisions : Asks(e, t)'
  BY <1>3
<1> QED BY <1>1, <1>2, <1>4, <1>5, RowsStill

\* The part of instance i goes on, no row moved.
LEMMA RowsStillOfPart ==
  ASSUME Inv, RowInv, NEW i \in Instances, UNCHANGED <<row, arr, unseen, kept, sync>>,
         run'.direction = run.direction, \A j \in Instances : j # i => part'[j] = part[j],
         part[i].pc = "taken" => part'[i].pc = "taken" /\ part'[i].move = part[i].move,
         \A d \in Decisions : Known(d) => SameMove(d),
         \A d \in Decisions : decision[d].status = "requested" =>
           Stays(d) \/ /\ InstanceOfMove(d) = i
                       /\ Says(decision[d].title) \/ \E e \in Decisions : Asks(e, decision[d].title)',
         PartRow(i)'
  PROVE  RowInv'
<1>1. \A t : TitleStays(t)
  BY DEF TitleStays
<1>2. \A j \in Instances : part[j].pc # "ready" => part[j].move \in Decisions /\ SameMove(part[j].move)
  BY InHandOfPart DEF Known
<1>3. TakenStays
  BY <1>2 DEF TakenStays, TitleOf, SameMove
<1>4. \A d \in Decisions : \A t : Asks(d, t) /\ Stays(d) => Asks(d, t)'
  BY DEF Asks, Stays, SameMove
<1>5. ASSUME NEW j \in Instances PROVE PartRow(j)'
  <2>1. CASE j # i
    <3>1. SUFFICES ASSUME part[j].pc # "ready" PROVE PartRow(j)'
      BY <2>1 DEF PartRow
    <3>2. ASSUME NEW d \in Decisions, Asks(d, TitleOf(j)) PROVE Stays(d)
      <4>1. InstanceOfMove(d) = j /\ decision[d].status = "requested"
        BY <3>1, <3>2, InHandTitle DEF Asks, InstanceOfMove
      <4> QED BY <2>1, <4>1
    <3> QED BY <1>1, <1>2, <2>1, <3>1, <3>2, PartRowStays DEF RowInv
  <2> QED BY <2>1
<1>6. ASSUME NEW t \in Titles, NEW d \in Decisions, Asks(d, t)
      PROVE  Says(t) \/ \E e \in Decisions : Asks(e, t)'
  <2>1. decision[d].title = t /\ decision[d].status = "requested"
    BY <1>6 DEF Asks
  <2>2. CASE Stays(d)
    BY <1>4, <1>6, <2>2
  <2>3. CASE Says(decision[d].title) \/ \E e \in Decisions : Asks(e, decision[d].title)'
    <3>1. decision'[d].title = t
      BY <2>1 DEF Known, SameMove
    <3>2. Says(t) \/ \E e \in Decisions : Asks(e, decision[d].title)'
      BY <2>1, <2>3
    <3> QED BY <3>1, <3>2 DEF Asks
  <2> QED BY <2>1, <2>2, <2>3
<1> QED BY <1>1, <1>3, <1>5, <1>6, RowsStill

\* The part of instance i moved the row of its title, or lost the record of it.
LEMMA RowOfPart ==
  ASSUME Inv, RowInv, NEW i \in Instances, part[i].pc # "ready", PartGoesOn(i),
         part'[i].pc \in {"ready", "following"}, UNCHANGED <<arr, sync>>, run'.direction = run.direction,
         SameMove(part[i].move), \A d \in Decisions : d # part[i].move => Stays(d),
         \A t \in Titles : t # TitleOf(i) =>
           row'[t] = row[t] /\ (t \in unseen' <=> t \in unseen) /\ (t \in kept' <=> t \in kept),
         \E t : t = TitleOf(i) /\ Says(t)'
                /\ (arr[t] = None /\ row'[t] # None => t \in unseen')
                /\ (sync[i].pc = "read" => t \in kept' \/ row'[t] = None \/ t \in unseen')
  PROVE  RowInv'
<1>1. PICK t \in Titles : /\ t = TitleOf(i) /\ Says(t)' /\ InstanceOf[t] = i
                          /\ (arr[t] = None /\ row'[t] # None => t \in unseen')
                          /\ (sync[i].pc = "read" => t \in kept' \/ row'[t] = None \/ t \in unseen')
  BY InHandTitle
<1>2. \A u \in Titles : u # t => TitleStays(u)
  BY <1>1 DEF TitleStays
<1>3. \A d \in Decisions : SameMove(d)
  BY DEF Stays
<1>4. \A d \in Decisions : d # part[i].move => \A u : Asks(d, u) => Stays(d) /\ Asks(d, u)'
  BY DEF Asks, Stays, SameMove
<1>5. decision[part[i].move].title = t /\ part[i].move \in Decisions
  BY <1>1, InHandTitle DEF TitleOf
<1>6. ASSUME NEW u \in Titles PROVE TitleRow(u)'
  <2>1. CASE u = t
    BY <1>1, <2>1 DEF TitleRow
  <2>2. CASE u # t
    <3>1. \A d \in Decisions : Asks(d, u) => Asks(d, u)'
      BY <1>4, <1>5, <2>2 DEF Asks
    <3> HIDE DEF Asks, Says
    <3> QED BY <1>2, <2>2, <3>1, TitleRowStays DEF RowInv
  <2> QED BY <2>1, <2>2
<1>7. ASSUME NEW j \in Instances PROVE PartRow(j)'
  <2>1. CASE j = i
    <3>1. part'[i].pc = "following" => TitleOf(i)' = t
      BY <1>3, <1>5 DEF TitleOf, PartGoesOn, SameMove
    <3> QED BY <1>1, <2>1, <3>1 DEF PartRow
  <2>2. CASE j # i
    <3>1. part'[j] = part[j]
      BY <2>2 DEF PartGoesOn
    <3>2. SUFFICES ASSUME part[j].pc # "ready" PROVE PartRow(j)'
      BY <3>1 DEF PartRow
    <3>3. TitleOf(j) \in Titles /\ TitleOf(j) # t /\ part[j].move \in Decisions
      BY <1>1, <2>2, <3>2, InHandTitle
    <3>4. \A d \in Decisions : Asks(d, TitleOf(j)) => Stays(d)
      BY <1>4, <1>5, <3>3 DEF Asks
    <3> QED BY <1>2, <1>3, <3>1, <3>3, <3>4, PartRowStays DEF RowInv
  <2> QED BY <2>1, <2>2
<1>8. ASSUME NEW j \in Instances PROVE SyncOwn(j)'
  <2>1. sync[j].pc # "held"
    BY NotSettling DEF Inv, SafeInv, Settling
  <2> QED BY <1>3, <2>1, SyncOwnStays DEF RowInv
<1>9. ASSUME NEW j \in Instances, NEW u \in TitlesOf(j) PROVE SyncTitle(j, u)'
  <2>1. CASE u = t
    <3>1. j = i
      BY <1>1, <1>9, <2>1 DEF TitlesOf
    <3> QED BY <1>1, <2>1, <3>1, SyncTitleSaid
  <2>2. CASE u # t
    <3>1. u \in Titles /\ SyncTitle(j, u)
      BY <1>9 DEF TitlesOf, RowInv
    <3>2. Taken(u) => Taken(u)'
      <4> SUFFICES ASSUME NEW k \in Instances, part[k].pc = "taken", TitleOf(k) = u PROVE Taken(u)'
        BY DEF Taken
      <4>1. k # i /\ part'[k] = part[k]
        BY <1>1, <2>2 DEF PartGoesOn
      <4>2. TitleOf(k)' = u
        BY <1>3, <4>1, InHandTitle DEF TitleOf, SameMove
      <4> QED BY <4>1, <4>2 DEF Taken
    <3> QED BY <1>1, <1>2, <2>2, <3>1, <3>2, SyncTitleStays
  <2> QED BY <2>1, <2>2
<1> QED BY <1>6, <1>7, <1>8, <1>9 DEF RowInv, TitlesOf

\* The row of title t is put where the Arr holds it.
LEMMA MoveRowMeans ==
  ASSUME Inv, NEW t \in Titles, NEW folder \in Folders, MoveRow(t, folder), arr' = arr,
         folder = arr[t] \/ t \in unseen
  PROVE  /\ \A u \in Titles : u # t =>
              row'[u] = row[u] /\ (u \in unseen' <=> u \in unseen) /\ (u \in kept' <=> u \in kept)
         /\ Says(t)'
         /\ arr[t] = None => t \in unseen'
         /\ sync[InstanceOf[t]].pc = "read" => t \in kept'
<1>1. row \in [Titles -> Folder] /\ row' = [row EXCEPT ![t] = folder]
  BY DEF Inv, TypeOK, DbTyped, MoveRow
<1>2. unseen' = IF folder = arr[t] THEN unseen \ {t} ELSE unseen
  BY DEF MoveRow, UnseenAfterRow
<1>3. kept' = IF sync[InstanceOf[t]].pc \in {"begun", "read"} THEN kept \cup {t} ELSE kept
  BY DEF MoveRow, Keep
<1>4. folder # None
  BY ConstantsAssumption
<1> QED BY <1>1, <1>2, <1>3, <1>4 DEF Says

LEMMA RowsKeptByParts ==
  ASSUME Inv, LoadedInv, RowInv, NEW i \in Instances, PartStep(i)
  PROVE  RowInv'
<1> USE DEF db, runVars, syncVars, arrVars, history, bounds
<1> DEFINE m == part[i].move
<1>1. part[i].pc # "ready" => m \in Decisions /\ Known(m) /\ InstanceOfMove(m) = i /\ TitleOf(i) \in Titles
  BY InHandOfPart, InHandTitle DEF Known
<1>2. run.direction \in Directions /\ PartRow(i)
  BY DEF Inv, TypeOK, RunTyped, Run, RowInv
<1>3. TitleOf(i) = decision[m].title /\ InstanceOfMove(m) = InstanceOf[TitleOf(i)]
  BY DEF TitleOf, InstanceOfMove
<1>4. CASE FailBatch(i)
  <2>1. /\ part' = part /\ part[i].pc = "ready" /\ ~part[i].begun /\ UNCHANGED <<row, arr, unseen, kept, sync>>
        /\ run'.direction = run.direction
    BY <1>4 DEF FailBatch, Turn, Inv, TypeOK, RunTyped, Run
  <2>2. \A d \in Decisions : SameMove(d) /\ (d \notin QueueOf(i) => Stays(d))
    BY <1>4, FailBatchMeans DEF FailedNow, Stays
  <2>3. \A d \in QueueOf(i) : decision[d].status # "requested"
    BY <2>1 DEF LoadedInv, NotBegun, AsLoaded, InPlace
  <2>4. \A d \in Decisions : decision[d].status = "requested" => Stays(d)
    BY <2>2, <2>3
  <2> QED BY <2>1, <2>2, <2>4, RowsSame
<1>5. CASE StopPart(i)
  <2>1. UNCHANGED <<part, decision, row, arr, unseen, kept, sync>>
    BY <1>5 DEF StopPart
  <2>2. run'.direction = run.direction
    BY <1>5 DEF StopPart, Inv, TypeOK, RunTyped, Run
  <2>3. \A d \in Decisions : Stays(d) /\ SameMove(d)
    BY <2>1, SameStays DEF Stays
  <2>4. \A d \in Decisions : decision[d].status = "requested" => Stays(d)
    BY <2>3
  <2> QED BY <2>1, <2>2, <2>3, <2>4, RowsSame
<1>6. ASSUME NEW d \in Decisions, NEW verdict \in {"send", "retire", "leave"}, CheckMove(i, d, verdict)
      PROVE  RowInv'
  <2>1. /\ run'.direction = run.direction /\ part[i].pc = "ready"
        /\ \A j \in Instances : j # i => part'[j] = part[j]
        /\ part'[i].pc \in {"ready", "checked"}
    BY <1>6, CheckMoveMeans
  <2>2. UNCHANGED <<row, arr, unseen, kept, sync>> /\ \A e \in Decisions : Stays(e) /\ SameMove(e)
    BY <1>6, RetiredStays DEF CheckMove, Stays
  <2>3. PartRow(i)'
    BY <2>1 DEF PartRow
  <2> QED BY <2>1, <2>2, <2>3, RowsStillOfPart
<1>7. ASSUME part[i].pc = "checked"
      PROVE  Says(TitleOf(i)) \/ \E d \in Decisions : d # m /\ Asks(d, TitleOf(i))
  <2>1. AsLoaded(m) /\ TitleRow(TitleOf(i))
    BY <1>1, <1>7 DEF LoadedInv, RowInv
  <2>2. decision[m].status # "requested"
    BY <2>1 DEF AsLoaded, InPlace
  <2> QED BY <2>1, <2>2 DEF TitleRow, Asks
<1>8. CASE RequestMove(i)
  <2>1. /\ part[i].pc = "checked" /\ part' = [part EXCEPT ![i].pc = "sent"] /\ run' = run
        /\ decision' = Requested(m, run.direction) /\ UNCHANGED <<row, arr, unseen, kept, sync>>
    BY <1>8 DEF RequestMove
  <2>2. part'[i].pc = "sent" /\ part'[i].move = m /\ \A j \in Instances : j # i => part'[j] = part[j]
    <3>1. part' = [part EXCEPT ![i].pc = "sent"]
      BY <2>1
    <3> QED BY <3>1, PartGoes
  <2>3. SameMove(m) /\ decision'[m].status = "requested" /\ \A d \in Decisions : d # m => Stays(d) /\ SameMove(d)
    BY <1>1, <2>1, RequestedMeans DEF Stays
  <2>4. TitleOf(i)' = TitleOf(i)
    BY <2>2, <2>3 DEF TitleOf, SameMove
  <2>5. PICK t : t = TitleOf(i)
    OBVIOUS
  <2>6. Says(t)' \/ \E d \in Decisions : d # m /\ Asks(d, t)'
    <3>1. CASE Says(t)
      BY <2>1, <3>1 DEF Says
    <3>2. ASSUME NEW d \in Decisions, d # m, Asks(d, t) PROVE Asks(d, t)'
      BY <2>3, <3>2 DEF Asks, Stays, SameMove
    <3> QED BY <1>7, <2>1, <2>5, <3>1, <3>2
  <2>7. PartRow(i)'
    BY <2>2, <2>4, <2>5, <2>6 DEF PartRow
  <2>8. ASSUME NEW d \in Decisions, decision[d].status = "requested", ~Stays(d)
        PROVE  InstanceOfMove(d) = i /\ \E e \in Decisions : Asks(e, decision[d].title)'
    BY <1>1, <2>1, <2>3, <2>8 DEF Asks, SameMove
  <2> QED BY <1>1, <2>1, <2>2, <2>3, <2>7, <2>8, RowsStillOfPart
<1>9. ASSUME part[i].pc \notin {"ready", "taken"}, UNCHANGED <<decision, run, row, arr, unseen, kept, sync>>,
             NEW pc, part' = [part EXCEPT ![i].pc = pc], pc # "read",
             pc \in {"following", "over"} => Says(TitleOf(i)),
             pc = "taken" => Aim(i) = arr[TitleOf(i)] \/ TitleOf(i) \in unseen,
             pc \in {"sent", "unanswered", "failed"} =>
               Says(TitleOf(i)) \/ \E d \in Decisions : d # m /\ Asks(d, TitleOf(i))
      PROVE  RowInv'
  <2>1. part'[i].pc = pc /\ part'[i].move = m /\ \A j \in Instances : j # i => part'[j] = part[j]
    BY <1>9, PartGoes
  <2>2. TitleOf(i)' = TitleOf(i) /\ Aim(i)' = Aim(i)
    BY <1>9, <2>1 DEF TitleOf, Aim, Target
  <2>3. PICK t : t = TitleOf(i)
    OBVIOUS
  <2>4. (Says(t)' <=> Says(t)) /\ \A d : Asks(d, t)' <=> Asks(d, t)
    BY <1>9 DEF Says, Asks
  <2>5. PartRow(i)'
    <3>1. /\ pc \in {"following", "over"} => Says(t)
          /\ pc = "taken" => Aim(i) = arr[t] \/ t \in unseen
          /\ pc \in {"sent", "unanswered", "failed"} => Says(t) \/ \E d \in Decisions : d # m /\ Asks(d, t)
      BY <1>9, <2>3
    <3>2. /\ pc \in {"following", "over"} => Says(t)'
          /\ pc \in {"sent", "unanswered", "failed"} => Says(t)' \/ \E d \in Decisions : d # m /\ Asks(d, t)'
      <4> HIDE DEF Says, Asks
      <4> QED BY <2>4, <3>1
    <3> QED BY <1>9, <2>1, <2>2, <2>3, <3>1, <3>2 DEF PartRow
  <2>6. \A d \in Decisions : Stays(d) /\ SameMove(d)
    BY <1>9, SameStays DEF Stays
  <2> QED BY <1>9, <2>1, <2>5, <2>6, RowsStillOfPart
<1>10. CASE RequestRefused(i)
  <2>1. /\ part[i].pc = "checked" /\ UNCHANGED <<decision, run, row, arr, unseen, kept, sync>>
        /\ part' = [part EXCEPT ![i].pc = "failed"]
    BY <1>10 DEF RequestRefused
  <2>2. PICK pc : pc = "failed"
    OBVIOUS
  <2>3. part[i].pc \notin {"ready", "taken"} /\ part' = [part EXCEPT ![i].pc = pc]
    BY <2>1, <2>2
  <2>4. pc \notin {"following", "over", "read", "taken"}
    BY <2>2
  <2> HIDE DEF Says, Asks, m
  <2> QED BY <1>7, <1>9, <2>1, <2>3, <2>4
<1>11. CASE AnswerTimedOut(i)
  <2>1. /\ part[i].pc = "sent" /\ UNCHANGED <<decision, run, row, arr, unseen, kept, sync>>
        /\ part' = [part EXCEPT ![i].pc = "unanswered"]
    BY <1>11 DEF AnswerTimedOut
  <2>2. PICK pc : pc = "unanswered"
    OBVIOUS
  <2>3. part[i].pc \notin {"ready", "taken"} /\ part' = [part EXCEPT ![i].pc = pc]
    BY <2>1, <2>2
  <2>4. pc \notin {"following", "over", "read", "taken"}
    BY <2>2
  <2>5. Says(TitleOf(i)) \/ \E d \in Decisions : d # m /\ Asks(d, TitleOf(i))
    BY <1>2, <2>1 DEF PartRow
  <2> HIDE DEF Says, Asks, m
  <2> QED BY <1>9, <2>1, <2>3, <2>4, <2>5
<1>12. ASSUME NEW answered \in BOOLEAN, ReadBack(i, answered) PROVE RowInv'
  <2>1. part[i].pc = "unanswered" /\ UNCHANGED <<decision, run, row, arr, unseen, kept, sync>>
    BY <1>12 DEF ReadBack
  <2>2. PICK pc \in {"failed", "taken"} :
          part' = [part EXCEPT ![i].pc = pc] /\ (pc = "taken" => arr[decision[m].title] = Target(m, run.direction))
    BY <1>12 DEF ReadBack
  <2>3. pc = "taken" => Aim(i) = arr[TitleOf(i)]
    BY <2>2 DEF Aim, TitleOf
  <2> QED BY <1>2, <1>9, <2>1, <2>2, <2>3 DEF PartRow
<1>13. CASE FollowCommands(i)
  <2>1. part[i].pc = "following" /\ UNCHANGED <<decision, run, row, arr, unseen, kept, sync>>
    BY <1>13 DEF FollowCommands
  <2>2. PICK pc \in {"failed", "over"} : part' = [part EXCEPT ![i].pc = pc]
    BY <1>13 DEF FollowCommands
  <2> QED BY <1>2, <1>9, <2>1, <2>2 DEF PartRow
<1>14. ASSUME NEW answered \in BOOLEAN, FollowTitle(i, answered) PROVE RowInv'
  <2>1. part[i].pc = "over" /\ UNCHANGED <<decision, run, row, arr, unseen, kept, sync>>
    BY <1>14 DEF FollowTitle
  <2>2. /\ \A j \in Instances : j # i => part'[j] = part[j]
        /\ part'[i].move = m
        /\ part'[i].pc = "following" \/ (part'[i].pc = "read" /\ part'[i].held = arr[TitleOf(i)])
    BY <1>14 DEF FollowTitle, Inv, TypeOK, RunTyped, Part, TitleOf
  <2>3. TitleOf(i)' = TitleOf(i) /\ Says(TitleOf(i))
    BY <1>2, <2>1, <2>2 DEF TitleOf, PartRow
  <2>4. PartRow(i)'
    BY <2>1, <2>2, <2>3 DEF PartRow, Says
  <2>5. \A d \in Decisions : Stays(d) /\ SameMove(d)
    BY <2>1, SameStays DEF Stays
  <2> QED BY <2>1, <2>2, <2>4, <2>5, RowsStillOfPart
<1>15. ASSUME part[i].pc \notin {"ready", "taken"}, UNCHANGED <<row, arr, unseen, kept, sync>>,
              run'.direction = run.direction, part'[i].pc = "ready", \A j \in Instances : j # i => part'[j] = part[j],
              \A d \in Decisions : d # m => Stays(d), SameMove(m),
              Says(TitleOf(i)) \/ \E d \in Decisions : d # m /\ Asks(d, TitleOf(i))
       PROVE  RowInv'
  <2>1. PartRow(i)'
    BY <1>15 DEF PartRow
  <2>2. \A d \in Decisions : SameMove(d)
    BY <1>15 DEF Stays
  <2>3. ASSUME NEW d \in Decisions, ~Stays(d)
        PROVE  InstanceOfMove(d) = i /\ (Says(decision[d].title) \/ \E e \in Decisions : Asks(e, decision[d].title)')
    <3>1. d = m
      BY <1>15, <2>3
    <3>2. PICK t : t = decision[d].title
      OBVIOUS
    <3>3. t = TitleOf(i) /\ t = decision'[d].title
      BY <1>15, <3>1, <3>2 DEF TitleOf, SameMove
    <3>4. \A e \in Decisions : e # m /\ Asks(e, t) => Asks(e, t)'
      BY <1>15 DEF Asks, Stays, SameMove
    <3>5. Says(t) \/ \E e \in Decisions : e # m /\ Asks(e, t)
      BY <1>15, <3>3
    <3>6. CASE Says(t)
      BY <1>1, <1>15, <3>1, <3>2, <3>6 DEF Says
    <3>7. CASE \E e \in Decisions : e # m /\ Asks(e, t)
      <4>1. PICK e \in Decisions : Asks(e, t)'
        BY <3>4, <3>7
      <4>2. Asks(e, decision[d].title)'
        BY <3>3, <4>1 DEF Asks
      <4> QED BY <1>1, <1>15, <3>1, <4>2
    <3> QED BY <3>5, <3>6, <3>7
  <2> QED BY <1>1, <1>15, <2>1, <2>2, <2>3, RowsStillOfPart
<1>16. CASE FollowStopped(i)
  <2>1. /\ part[i].pc = "following" /\ UNCHANGED <<decision, row, arr, unseen, kept, sync>>
        /\ part' = [part EXCEPT ![i] = [Ready EXCEPT !.begun = TRUE]]
    BY <1>16 DEF FollowStopped
  <2>2. run'.direction = run.direction
    BY <1>16 DEF FollowStopped, Inv, TypeOK, RunTyped, Run
  <2>3. part'[i].pc = "ready" /\ \A j \in Instances : j # i => part'[j] = part[j]
    BY <2>1, PartNext
  <2>4. \A d \in Decisions : Stays(d) /\ SameMove(d)
    BY <2>1, SameStays DEF Stays
  <2> QED BY <1>1, <1>2, <1>15, <2>1, <2>2, <2>3, <2>4 DEF PartRow
<1>17. ASSUME part[i].pc = "failed" \/ part[i].pc = "read",
              UNCHANGED <<row, arr, unseen, kept, sync>>, NEW outcome, NextMove(i, outcome),
              decision' = Confirmed(m, run.direction) \/ decision' = Failed(m, run.direction)
       PROVE  RowInv'
  <2>1. /\ part'[i].pc = "ready" /\ run'.direction = run.direction
        /\ \A j \in Instances : j # i => part'[j] = part[j]
    BY <1>17, NextMoveMeans
  <2>2. SameMove(m) /\ \A d \in Decisions : d # m => Stays(d)
    BY <1>1, <1>17, ConfirmedMeans, FailedMeans DEF FailedNow
  <2>3. Says(TitleOf(i)) \/ \E d \in Decisions : d # m /\ Asks(d, TitleOf(i))
    BY <1>2, <1>17 DEF PartRow
  <2> QED BY <1>15, <1>17, <2>1, <2>2, <2>3
<1>18. CASE RecordFailure(i)
  <2>1. /\ part[i].pc = "failed" /\ UNCHANGED <<row, arr, unseen, kept, sync>> /\ NextMove(i, "failed")
        /\ decision' = Failed(m, run.direction)
    BY <1>18 DEF RecordFailure
  <2> QED BY <1>17, <2>1
<1>19. ASSUME part[i].pc # "ready", PartGoesOn(i), part'[i].pc \in {"ready", "following"},
              UNCHANGED <<arr, sync>>, run'.direction = run.direction, SameMove(m),
              \A d \in Decisions : d # m => Stays(d),
              NEW folder \in Folders, MoveRow(TitleOf(i), folder),
              folder = arr[TitleOf(i)] \/ TitleOf(i) \in unseen
       PROVE  RowInv'
  <2>1. PICK t \in Titles : t = TitleOf(i)
    BY <1>1, <1>19
  <2>2. InstanceOf[t] = i
    BY <1>1, <1>3, <1>19, <2>1
  <2>3. MoveRow(t, folder) /\ (folder = arr[t] \/ t \in unseen)
    BY <1>19, <2>1
  <2>4. /\ \A u \in Titles : u # t =>
             row'[u] = row[u] /\ (u \in unseen' <=> u \in unseen) /\ (u \in kept' <=> u \in kept)
        /\ Says(t)' /\ (arr[t] = None => t \in unseen') /\ (sync[i].pc = "read" => t \in kept')
    BY <1>19, <2>2, <2>3, MoveRowMeans
  <2>5. /\ \A u \in Titles : u # TitleOf(i) =>
             row'[u] = row[u] /\ (u \in unseen' <=> u \in unseen) /\ (u \in kept' <=> u \in kept)
        /\ t = TitleOf(i) /\ Says(t)'
        /\ (arr[t] = None /\ row'[t] # None => t \in unseen')
        /\ (sync[i].pc = "read" => t \in kept' \/ row'[t] = None \/ t \in unseen')
    BY <2>1, <2>4
  <2> QED BY <1>19, <2>5, RowOfPart
<1>20. ASSUME part[i].pc # "ready", PartGoesOn(i), part'[i].pc \in {"ready", "following"},
              UNCHANGED <<arr, sync, row, kept>>, run'.direction = run.direction, SameMove(m),
              \A d \in Decisions : d # m => Stays(d),
              \/ row[TitleOf(i)] = None /\ unseen' = unseen
              \/ unseen' = unseen \cup {TitleOf(i)}
       PROVE  RowInv'
  <2>1. PICK t \in Titles : t = TitleOf(i)
    BY <1>1, <1>20
  <2>2. Says(t)' /\ (arr[t] = None /\ row'[t] # None => t \in unseen') /\ (row'[t] = None \/ t \in unseen')
    BY <1>20, <2>1 DEF Says
  <2>3. \A u \in Titles : u # TitleOf(i) => (u \in unseen' <=> u \in unseen)
    BY <1>20
  <2> QED BY <1>20, <2>1, <2>2, <2>3, RowOfPart
<1>21. ASSUME part[i].pc # "ready"
       PROVE  Target(m, run.direction) \in Folders
  BY <1>1, <1>21 DEF Target, Known, Inv, SafeInv, DecisionsKnown
<1>22. CASE RecordSuccess(i)
  <2>1. /\ part[i].pc = "taken" /\ decision' = Made(m, run.direction) /\ NextMove(i, "done")
        /\ UNCHANGED <<arr, sync>>
        /\ IF row[TitleOf(i)] = None THEN UNCHANGED <<row, kept, unseen>>
           ELSE MoveRow(TitleOf(i), Target(m, run.direction))
    BY <1>22 DEF RecordSuccess, TitleOf
  <2>2. PartGoesOn(i) /\ part'[i].pc = "ready" /\ run'.direction = run.direction
    BY <2>1, NextMoveMeans DEF PartGoesOn
  <2>3. SameMove(m) /\ \A d \in Decisions : d # m => Stays(d)
    BY <1>1, <1>2, <2>1, MadeMeans
  <2>4. Target(m, run.direction) = arr[TitleOf(i)] \/ TitleOf(i) \in unseen
    BY <1>2, <2>1 DEF PartRow, Aim
  <2> QED BY <1>19, <1>20, <1>21, <2>1, <2>2, <2>3, <2>4
<1>23. CASE RecordSent(i)
  <2>1. /\ part[i].pc = "taken" /\ UNCHANGED <<decision, run, arr, sync>>
        /\ part' = [part EXCEPT ![i].pc = "following"]
        /\ IF row[TitleOf(i)] = None THEN UNCHANGED <<row, kept, unseen>>
           ELSE MoveRow(TitleOf(i), Target(m, run.direction))
    BY <1>23 DEF RecordSent, TitleOf
  <2>2. PartGoesOn(i) /\ part'[i].pc = "following" /\ run'.direction = run.direction
    <3>1. part' = [part EXCEPT ![i].pc = "following"] /\ run' = run /\ part[i].pc = "taken"
      BY <2>1
    <3> QED BY <3>1, PartGoes DEF PartGoesOn
  <2>3. SameMove(m) /\ \A d \in Decisions : d # m => Stays(d)
    BY <1>1, <2>1, SameStays DEF Stays
  <2>4. Target(m, run.direction) = arr[TitleOf(i)] \/ TitleOf(i) \in unseen
    BY <1>2, <2>1 DEF PartRow, Aim
  <2> QED BY <1>19, <1>20, <1>21, <2>1, <2>2, <2>3, <2>4
<1>24. CASE RecordFollowed(i)
  <2> DEFINE made == part[i].held = Target(m, run.direction)
  <2>1. /\ part[i].pc = "read" /\ UNCHANGED <<arr, sync>>
        /\ decision' = IF made THEN Confirmed(m, run.direction) ELSE Failed(m, run.direction)
        /\ IF made \/ part[i].held = None \/ row[TitleOf(i)] = None THEN UNCHANGED <<row, kept, unseen>>
           ELSE MoveRow(TitleOf(i), part[i].held)
        /\ NextMove(i, IF made THEN "done" ELSE "failed")
    BY <1>24 DEF RecordFollowed, TitleOf
  <2>2. \E outcome : NextMove(i, outcome)
    BY <2>1
  <2>3. decision' = Confirmed(m, run.direction) \/ decision' = Failed(m, run.direction)
    BY <2>1
  <2>4. CASE UNCHANGED <<row, kept, unseen>>
    BY <1>17, <2>1, <2>2, <2>3, <2>4
  <2>5. CASE part[i].held # None /\ MoveRow(TitleOf(i), part[i].held)
    <3>1. PartGoesOn(i) /\ part'[i].pc = "ready" /\ run'.direction = run.direction
      BY <2>1, <2>2, NextMoveMeans DEF PartGoesOn
    <3>2. SameMove(m) /\ \A d \in Decisions : d # m => Stays(d)
      BY <1>1, <2>1, <2>3, ConfirmedMeans, FailedMeans DEF FailedNow
    <3>3. part[i].held \in Folders
      BY <2>5 DEF Inv, TypeOK, RunTyped, Part, Folder
    <3>4. part[i].held = arr[TitleOf(i)] \/ TitleOf(i) \in unseen
      BY <1>2, <2>1 DEF PartRow
    <3> QED BY <1>19, <2>1, <2>5, <3>1, <3>2, <3>3, <3>4
  <2> QED BY <2>1, <2>4, <2>5
<1>25. CASE RecordLost(i)
  <2>1. /\ part[i].pc # "ready" /\ UNCHANGED <<decision, row, kept, sync, arr>>
        /\ unseen' = unseen \cup {TitleOf(i)}
    BY <1>25 DEF RecordLost, TitleOf
  <2>2. PartGoesOn(i) /\ part'[i].pc \in {"ready", "following"} /\ run'.direction = run.direction
    <3>1. CASE part' = [part EXCEPT ![i].pc = "following"] /\ run' = run
      BY <2>1, <3>1, PartGoes DEF PartGoesOn
    <3>2. CASE \E outcome : NextMove(i, outcome)
      BY <3>2, NextMoveMeans DEF PartGoesOn
    <3> QED BY <1>25, <3>1, <3>2 DEF RecordLost
  <2>3. SameMove(m) /\ \A d \in Decisions : d # m => Stays(d)
    BY <1>1, <2>1, SameStays DEF Stays
  <2> QED BY <1>20, <2>1, <2>2, <2>3
<1> QED BY <1>4, <1>5, <1>6, <1>8, <1>10, <1>11, <1>12, <1>13, <1>14, <1>16, <1>18, <1>22, <1>23, <1>24, <1>25 DEF PartStep

\* The sync of instance i goes on, and may have settled a move of its titles.
LEMMA RowsOfSync ==
  ASSUME Inv, RowInv, NEW i \in Instances, UNCHANGED <<part, arr, run>>,
         \A j \in Instances : j # i => sync'[j] = sync[j],
         \A t \in Titles : TitleStays(t) \/ /\ InstanceOf[t] = i /\ Settling(i) /\ Says(t)'
                                            /\ arr[t] = None /\ row'[t] # None => t \in unseen',
         \A t \in Titles : InstanceOf[t] # i => (t \in kept' <=> t \in kept),
         \A d \in Decisions : Known(d) => SameMove(d),
         \A d \in Decisions : decision[d].status = "requested" =>
           Stays(d) \/ (Settling(i) /\ Says(decision[d].title)),
         SyncOwn(i)', \A t \in TitlesOf(i) : SyncTitle(i, t)'
  PROVE  RowInv'
<1>1. \A d, t : Asks(d, t) /\ Stays(d) => Asks(d, t)'
  BY DEF Asks, Stays, SameMove
<1>2. ASSUME NEW t \in Titles PROVE TitleRow(t)'
  <2>1. CASE TitleStays(t)
    <3>1. \A d \in Decisions : Asks(d, t) => Says(t) \/ Asks(d, t)'
      <4> SUFFICES ASSUME NEW d \in Decisions, Asks(d, t) PROVE Says(t) \/ Asks(d, t)'
        OBVIOUS
      <4>1. decision[d].status = "requested" /\ decision[d].title = t
        BY DEF Asks
      <4>2. CASE Stays(d)
        BY <1>1, <4>2
      <4>3. CASE Says(decision[d].title)
        BY <4>1, <4>3
      <4> QED BY <4>1, <4>2, <4>3
    <3> HIDE DEF Asks, Says
    <3> QED BY <2>1, <3>1, TitleRowStays DEF RowInv
  <2>2. CASE Says(t)' /\ (arr[t] = None /\ row'[t] # None => t \in unseen')
    BY <2>2 DEF TitleRow
  <2> QED BY <2>1, <2>2
<1>3. ASSUME NEW j \in Instances PROVE PartRow(j)'
  <2>1. SUFFICES ASSUME part[j].pc # "ready" PROVE PartRow(j)'
    BY DEF PartRow
  <2>2. ~Settling(i)
    BY <2>1, NotSettling DEF Inv, SafeInv
  <2>3. SameMove(part[j].move) /\ TitleStays(TitleOf(j))
    BY <2>1, <2>2, InHandOfPart, InHandTitle DEF Known
  <2>4. \A d \in Decisions : Asks(d, TitleOf(j)) => Stays(d)
    BY <2>2 DEF Asks
  <2> QED BY <2>3, <2>4, PartRowStays DEF RowInv
<1>4. ASSUME NEW j \in Instances, j # i PROVE SyncOwn(j)'
  <2>1. sync[j].pc = "held" => TitleStays(decision[sync[j].move].title)
    <3> SUFFICES ASSUME sync[j].pc = "held" PROVE TitleStays(decision[sync[j].move].title)
      OBVIOUS
    <3>1. decision[sync[j].move].title \in Titles
      BY DEF Inv, SafeInv, MovesKnown, DecisionsKnown, Known
    <3>2. InstanceOf[decision[sync[j].move].title] = j
      BY DEF RowInv, SyncOwn
    <3> QED BY <1>4, <3>1, <3>2
  <2> QED BY <1>4, <2>1, SyncOwnStays DEF RowInv
<1>5. ASSUME NEW j \in Instances, j # i, NEW t \in TitlesOf(j) PROVE SyncTitle(j, t)'
  <2>1. t \in Titles /\ InstanceOf[t] # i /\ SyncTitle(j, t)
    BY <1>5 DEF TitlesOf, RowInv
  <2>2. Taken(t) => Taken(t)'
    BY InHandTitle, InHandOfPart DEF Taken, TitleOf, SameMove, Known
  <2> QED BY <1>5, <2>1, <2>2, SyncTitleStays
<1> QED BY <1>2, <1>3, <1>4, <1>5 DEF RowInv, TitlesOf

\* What the write of a sync leaves of a title of its instance.
LEMMA SyncWriteMeans ==
  ASSUME Inv, RowInv, NEW i \in Instances, NEW cleanup \in BOOLEAN, SyncWrite(i, cleanup)
  PROVE  /\ sync[i].pc = "read" /\ arr' = arr /\ part' = part /\ run' = run
         /\ \A j \in Instances : j # i => sync'[j] = sync[j]
         /\ sync'[i].pc = "written" /\ sync'[i].rows = {}
         /\ \A d \in Decisions : Stays(d)
         /\ \A t \in Titles : t \notin TitlesOf(i) =>
              row'[t] = row[t] /\ (t \in unseen' <=> t \in unseen) /\ (t \in kept' <=> t \in kept)
         /\ \A t \in TitlesOf(i) :
              /\ row'[t] \in {None, sync[i].snap[t]} \/ (row'[t] = row[t] /\ (t \in kept \/ row[t] = None \/ sync[i].snap[t] = None))
              /\ row'[t] \in {None, row[t]} \/ t \notin kept
         /\ \A t \in Titles : t \in unseen => t \in unseen' \/ (row'[t] = arr[t] /\ ~AnswerInHand(t))
<1> DEFINE known == {t \in TitlesOf(i) : row[t] # None}
           gone == {t \in known : sync[i].snap[t] = None}
           retired == IF cleanup THEN gone ELSE {}
           written == [t \in Titles |->
                         IF t \in retired THEN None
                         ELSE IF t \in known \ gone THEN Synced(t, sync[i].snap[t])
                         ELSE row[t]]
<1>1. /\ sync[i].pc = "read" /\ UNCHANGED <<arr, part, run>>
      /\ row' = written /\ \E ids : decision' = Retired(ids)
      /\ unseen' = {t \in unseen : t \in TitlesOf(i) => written[t] # arr[t] \/ AnswerInHand(t)}
      /\ kept' = kept \ TitlesOf(i)
      /\ sync' = [sync EXCEPT ![i] = [NoSync EXCEPT !.pc = "written"]]
  BY DEF SyncWrite, arrVars, runVars
<1>2. \A j \in Instances : j # i => sync'[j] = sync[j]
  BY <1>1 DEF Inv, TypeOK, SyncTyped
<1>3. sync'[i].pc = "written" /\ sync'[i].rows = {}
  BY <1>1 DEF Inv, TypeOK, SyncTyped, NoSync
<1>4. \A d \in Decisions : Stays(d)
  BY <1>1, RetiredStays
<1>5. \A t \in Titles : row'[t] = IF t \in retired THEN None
                                  ELSE IF t \in known \ gone THEN Synced(t, sync[i].snap[t])
                                  ELSE row[t]
  BY <1>1
<1>6. \A t \in Titles : t \notin TitlesOf(i) =>
        row'[t] = row[t] /\ (t \in unseen' <=> t \in unseen) /\ (t \in kept' <=> t \in kept)
  BY <1>1, <1>5
<1>7. ASSUME NEW t \in TitlesOf(i)
      PROVE  /\ row'[t] \in {None, sync[i].snap[t]} \/ (row'[t] = row[t] /\ (t \in kept \/ row[t] = None \/ sync[i].snap[t] = None))
             /\ row'[t] \in {None, row[t]} \/ t \notin kept
  BY <1>5 DEF Synced, TitlesOf
<1>8. \A t \in Titles : t \in unseen => t \in unseen' \/ (row'[t] = arr[t] /\ ~AnswerInHand(t))
  BY <1>1
<1> QED BY <1>1, <1>2, <1>3, <1>4, <1>6, <1>7, <1>8

LEMMA RowsOnWrite ==
  ASSUME Inv, RowInv, NEW i \in Instances, NEW cleanup \in BOOLEAN, SyncWrite(i, cleanup)
  PROVE  RowInv'
<1>1. /\ sync[i].pc = "read" /\ arr' = arr /\ part' = part /\ run' = run
      /\ \A j \in Instances : j # i => sync'[j] = sync[j]
      /\ sync'[i].pc = "written" /\ sync'[i].rows = {}
      /\ \A d \in Decisions : Stays(d)
      /\ \A t \in Titles : t \notin TitlesOf(i) =>
           row'[t] = row[t] /\ (t \in unseen' <=> t \in unseen) /\ (t \in kept' <=> t \in kept)
      /\ \A t \in TitlesOf(i) :
           /\ row'[t] \in {None, sync[i].snap[t]} \/ (row'[t] = row[t] /\ (t \in kept \/ row[t] = None \/ sync[i].snap[t] = None))
           /\ row'[t] \in {None, row[t]} \/ t \notin kept
      /\ \A t \in Titles : t \in unseen => t \in unseen' \/ (row'[t] = arr[t] /\ ~AnswerInHand(t))
  BY SyncWriteMeans
<1>2. \A t \in Titles : t \notin TitlesOf(i) => TitleStays(t)
  BY <1>1 DEF TitleStays
<1>3. \A j \in Instances : part[j].pc # "ready" => SameMove(part[j].move)
  BY <1>1, InHandOfPart DEF Known, Stays
<1>4. ASSUME NEW t \in TitlesOf(i) PROVE Says(t)' \/ Taken(t)
  <2>1. t \in Titles /\ SyncTitle(i, t) /\ TitleRow(t)
    BY DEF TitlesOf, RowInv
  <2>2. CASE t \in unseen
    BY <1>1, <2>1, <2>2 DEF Says
  <2>3. CASE t \in kept /\ Says(t) /\ t \notin unseen
    <3>1. row'[t] \in {None, row[t]}
      BY <1>1, <2>3
    <3> QED BY <1>1, <2>3, <3>1 DEF Says
  <2>4. CASE t \notin kept /\ t \notin unseen /\ row[t] = None
    <3>1. row'[t] \in {None, sync[i].snap[t]}
      BY <1>1, <2>4
    <3>2. row'[t] = None
      BY <2>1, <2>4, SyncWriteMeans DEF SyncWrite, TitlesOf
    <3> QED BY <3>2 DEF Says
  <2>5. CASE t \notin kept /\ t \notin unseen /\ sync[i].snap[t] = arr[t]
    <3>1. row[t] = None \/ arr[t] # None
      BY <2>1, <2>5 DEF TitleRow
    <3>2. row'[t] \in {None, arr[t]}
      BY <1>1, <2>5, <3>1
    <3> QED BY <1>1, <3>2 DEF Says
  <2>6. t \in kept => Says(t) \/ Taken(t)
    BY <1>1, <2>1 DEF SyncTitle
  <2>7. t \in kept \/ row[t] = None \/ sync[i].snap[t] = arr[t] \/ t \in unseen \/ Taken(t)
    BY <1>1, <2>1 DEF SyncTitle
  <2> HIDE DEF Says, Taken
  <2> QED BY <2>2, <2>3, <2>4, <2>5, <2>6, <2>7
<1>5. ASSUME NEW j \in Instances, part[j].pc \in {"taken", "read"}
      PROVE  TitleOf(j) \in unseen => TitleOf(j) \in unseen'
  <2>1. AnswerInHand(TitleOf(j))
    BY <1>5 DEF AnswerInHand, TitleOf
  <2> QED BY <1>1, <1>5, <2>1, InHandTitle
<1>6. ASSUME NEW j \in Instances, sync[j].pc = "held"
      PROVE  decision[sync[j].move].title \in unseen => decision[sync[j].move].title \in unseen'
  <2>1. AnswerInHand(decision[sync[j].move].title)
    BY <1>6 DEF AnswerInHand
  <2>2. decision[sync[j].move].title \in Titles
    BY <1>6 DEF Inv, SafeInv, MovesKnown, DecisionsKnown, Known
  <2> QED BY <1>1, <2>1, <2>2
<1>7. \A t, d : d \in Decisions /\ Asks(d, t) => Asks(d, t)' /\ Stays(d)
  BY <1>1 DEF Asks, Stays, SameMove
<1>8. ASSUME NEW t \in Titles PROVE TitleRow(t)'
  <2>1. CASE t \notin TitlesOf(i)
    <3> HIDE DEF Asks, Says
    <3> QED BY <1>2, <1>7, <2>1, TitleRowStays DEF RowInv
  <2>2. CASE t \in TitlesOf(i) /\ Says(t)'
    BY <1>1, <2>2 DEF TitleRow, Says
  <2>3. ASSUME NEW j \in Instances, part[j].pc = "taken", TitleOf(j) = t PROVE TitleRow(t)'
    <3>1. Asks(part[j].move, t) /\ part[j].move \in Decisions
      BY <2>3, InHandOfPart DEF Asks, TitleOf, Inv, SafeInv, InHandIsRequested, Known
    <3>2. Aim(j) \in Folders
      BY <2>3, InHandOfPart DEF Aim, Target, Known, Inv, SafeInv, DecisionsKnown
    <3>3. arr[t] = None => t \in unseen
      BY <2>3, <3>2, ConstantsAssumption DEF RowInv, PartRow
    <3>4. arr'[t] = None => t \in unseen'
      BY <1>1, <1>5, <2>3, <3>3
    <3>5. \E d \in Decisions : Asks(d, t)'
      BY <1>7, <3>1
    <3> QED BY <3>4, <3>5 DEF TitleRow
  <2> QED BY <1>4, <2>1, <2>2, <2>3 DEF Taken
<1>9. ASSUME NEW j \in Instances PROVE PartRow(j)'
  <2>1. SUFFICES ASSUME part[j].pc # "ready" PROVE PartRow(j)'
    BY <1>1 DEF PartRow
  <2>2. PICK t \in Titles : t = TitleOf(j) /\ InstanceOf[t] = j
    BY <2>1, InHandTitle
  <2>3. CASE j # i
    <3>1. TitleStays(t)
      BY <1>2, <2>2, <2>3 DEF TitlesOf
    <3> QED BY <1>1, <1>3, <1>7, <2>1, <2>2, <3>1, PartRowStays DEF RowInv
  <2>4. CASE j = i
    <3>1. TitleOf(j)' = t /\ Aim(j)' = Aim(j) /\ part'[j] = part[j]
      BY <1>1, <1>3, <2>1, <2>2 DEF TitleOf, Aim, Target, SameMove
    <3>2. part[j].pc # "taken" => Says(t)'
      <4>1. Taken(t) => part[j].pc = "taken"
        BY <2>2, InHandTitle DEF Taken
      <4> QED BY <1>4, <2>2, <2>4, <4>1 DEF TitlesOf
    <3>3. /\ part[j].pc = "taken" => Aim(j) = arr'[t] \/ t \in unseen'
          /\ part[j].pc = "read" => part[j].held = arr'[t] \/ t \in unseen'
      BY <1>1, <1>5, <2>2 DEF RowInv, PartRow
    <3> QED BY <3>1, <3>2, <3>3 DEF PartRow
  <2> QED BY <2>3, <2>4
<1>10. ASSUME NEW j \in Instances PROVE SyncOwn(j)'
  <2>1. CASE j = i
    BY <1>1, <2>1 DEF SyncOwn
  <2>2. CASE j # i
    <3>1. sync'[j] = sync[j] /\ SyncOwn(j)
      BY <1>1, <2>2 DEF RowInv
    <3>2. \A d \in sync'[j].rows : InstanceOfMove(d)' = j
      BY <1>1, <3>1 DEF SyncOwn, InstanceOfMove, Stays, SameMove, Inv, SafeInv, MovesKnown, Known
    <3>3. ASSUME sync[j].pc = "held"
          PROVE  LET t == decision'[sync'[j].move].title IN
                 InstanceOf[t] = j /\ (sync'[j].held = arr'[t] \/ t \in unseen')
      <4>1. decision'[sync[j].move].title = decision[sync[j].move].title
        BY <1>1, <3>3 DEF Inv, SafeInv, MovesKnown, Known, Stays, SameMove
      <4> QED BY <1>1, <1>6, <3>1, <3>3, <4>1 DEF SyncOwn
    <3> QED BY <3>1, <3>2, <3>3 DEF SyncOwn
  <2> QED BY <2>1, <2>2
<1>11. \A t : Taken(t) => Taken(t)'
  BY <1>1, <1>3 DEF Taken, TitleOf, SameMove
<1>12. ASSUME NEW j \in Instances, NEW t \in TitlesOf(j) PROVE SyncTitle(j, t)'
  <2>1. CASE j = i
    BY <1>1, <1>4, <1>11, <1>12, <2>1, SyncTitleSaid
  <2>2. CASE j # i
    <3>1. t \in Titles /\ t \notin TitlesOf(i) /\ SyncTitle(j, t)
      BY <1>12, <2>2 DEF TitlesOf, RowInv
    <3> QED BY <1>1, <1>2, <1>11, <2>2, <3>1, SyncTitleStays
  <2> QED BY <2>1, <2>2
<1> QED BY <1>8, <1>9, <1>10, <1>12 DEF RowInv, TitlesOf

LEMMA RowsKeptBySyncs ==
  ASSUME Inv, RowInv, NEW i \in Instances, SyncStep(i)
  PROVE  RowInv'
<1> USE DEF db, runVars, syncVars, arrVars, history, bounds
<1>1. sync[i] \in Sync /\ sync \in [Instances -> Sync]
  BY DEF Inv, TypeOK, SyncTyped
<1>2. /\ SyncOwn(i) /\ \A t \in TitlesOf(i) : SyncTitle(i, t)
      /\ \A t \in Titles : InstanceOf[t] # i => t \notin TitlesOf(i)
  BY DEF RowInv, TitlesOf
\* No row is written, no title is read.
<1>3. ASSUME UNCHANGED <<part, arr, run, row, unseen, decision>>, NEW left, sync' = [sync EXCEPT ![i] = left],
             left.pc # "held", \A d \in left.rows : InstanceOfMove(d) = i,
             kept' = kept \/ kept' = kept \ TitlesOf(i), \A t \in TitlesOf(i) : SyncTitle(i, t)'
      PROVE  RowInv'
  <2>1. sync'[i] = left /\ \A j \in Instances : j # i => sync'[j] = sync[j]
    BY <1>1, <1>3
  <2>2. \A t \in Titles : TitleStays(t)
    BY <1>3 DEF TitleStays
  <2>3. \A d \in Decisions : Stays(d) /\ SameMove(d)
    BY <1>3, SameStays DEF Stays
  <2>4. SyncOwn(i)'
    BY <1>3, <2>1 DEF SyncOwn, InstanceOfMove
  <2>5. \A t \in Titles : InstanceOf[t] # i => (t \in kept' <=> t \in kept)
    BY <1>2, <1>3
  <2> QED BY <1>3, <2>1, <2>2, <2>3, <2>4, <2>5, RowsOfSync
<1>4. ASSUME UNCHANGED <<part, decision>> PROVE \A t : Taken(t)' <=> Taken(t)
  BY <1>4 DEF Taken, TitleOf
<1>5. ASSUME UNCHANGED <<row, arr, unseen>> PROVE \A t : Says(t)' <=> Says(t)
  BY <1>5 DEF Says
<1>6. NoSync.rows = {} /\ NoSync.pc = "idle" /\ NoSync.back = {}
  BY DEF NoSync
<1>7. CASE SyncBegin(i)
  <2>1. PICK left : left = [sync[i] EXCEPT !.pc = "begun"]
    OBVIOUS
  <2>2. left.pc = "begun" /\ left.rows = sync[i].rows
    BY <1>1, <2>1 DEF Sync
  <2>3. UNCHANGED <<part, arr, run, row, unseen, decision>> /\ sync' = [sync EXCEPT ![i] = left]
        /\ kept' = kept \ TitlesOf(i)
    BY <1>7, <2>1 DEF SyncBegin
  <2>4. \A t \in TitlesOf(i) : SyncTitle(i, t)'
    BY <1>1, <2>2, <2>3 DEF SyncTitle
  <2> QED BY <1>2, <1>3, <2>2, <2>3, <2>4 DEF SyncOwn
<1>8. CASE SyncRead(i)
  <2>1. PICK snap : snap = [t \in Titles |-> IF InstanceOf[t] = i THEN arr[t] ELSE None]
    OBVIOUS
  <2>2. PICK left : left = [sync[i] EXCEPT !.pc = "read", !.snap = snap]
    OBVIOUS
  <2>3. left.pc = "read" /\ left.rows = sync[i].rows /\ left.snap = snap
    BY <1>1, <2>2 DEF Sync
  <2>4. /\ UNCHANGED <<part, arr, run, row, unseen, decision, kept>> /\ sync' = [sync EXCEPT ![i] = left]
        /\ sync[i].pc = "begun"
    BY <1>1, <1>8, <2>1, <2>2 DEF SyncRead
  <2>5. ASSUME NEW t \in TitlesOf(i) PROVE SyncTitle(i, t)'
    <3>1. snap[t] = arr[t] /\ SyncTitle(i, t)
      BY <1>2, <2>1, <2>5 DEF TitlesOf
    <3>2. (Says(t)' <=> Says(t)) /\ (Taken(t)' <=> Taken(t))
      BY <1>4, <1>5, <2>4
    <3>3. sync'[i] = left
      BY <1>1, <2>4
    <3> HIDE DEF Says, Taken
    <3> QED BY <2>3, <2>4, <3>1, <3>2, <3>3 DEF SyncTitle
  <2> QED BY <1>2, <1>3, <2>3, <2>4, <2>5 DEF SyncOwn
<1>9. CASE SyncFail(i) \/ SettleSkip(i)
  <2>1. /\ UNCHANGED <<part, arr, run, row, unseen, decision>> /\ sync' = [sync EXCEPT ![i] = NoSync]
        /\ kept' = kept \/ kept' = kept \ TitlesOf(i)
    BY <1>9 DEF SyncFail, SettleSkip
  <2>2. \A t \in TitlesOf(i) : SyncTitle(i, t)'
    BY <1>1, <1>6, <2>1 DEF SyncTitle
  <2> QED BY <1>3, <1>6, <2>1, <2>2
<1>10. CASE \E cleanup \in BOOLEAN : SyncWrite(i, cleanup)
  BY <1>10, RowsOnWrite
\* The sync settles, or is about to: every title of its instance is said.
<1>11. ASSUME UNCHANGED <<part, arr, run, row, unseen, decision, kept>>, NEW left, sync' = [sync EXCEPT ![i] = left],
              sync[i].pc \in {"written", "rows", "settling", "held"},
              left.pc \in {"rows", "settling", "idle"}, \A d \in left.rows : InstanceOfMove(d) = i
       PROVE  RowInv'
  <2>1. ASSUME NEW t \in TitlesOf(i) PROVE SyncTitle(i, t)'
    <3>1. Says(t) \/ Taken(t)
      BY <1>2, <1>11, <2>1 DEF SyncTitle
    <3>2. Says(t)' \/ Taken(t)'
      BY <1>4, <1>5, <1>11, <3>1
    <3>3. sync'[i].pc # "read"
      BY <1>1, <1>11
    <3> QED BY <3>2, <3>3, SyncTitleSaid
  <2> QED BY <1>3, <1>11, <2>1
<1>12. CASE SettleRead(i)
  <2>1. PICK left : /\ sync' = [sync EXCEPT ![i] = left] /\ left.pc \in {"rows", "idle"}
                    /\ left.rows \subseteq LeftRequested(i)
    <3>1. CASE LeftRequested(i) = {}
      BY <1>6, <1>12, <3>1 DEF SettleRead
    <3>2. CASE LeftRequested(i) # {}
      <4>1. PICK back : back = {d \in LeftRequested(i) : decision[d].reverted}
        OBVIOUS
      <4>2. PICK left : left = [NoSync EXCEPT !.pc = "rows", !.rows = LeftRequested(i), !.back = back]
        OBVIOUS
      <4>3. left.pc = "rows" /\ left.rows = LeftRequested(i)
        BY <4>2 DEF NoSync
      <4> QED BY <1>12, <3>2, <4>1, <4>2, <4>3 DEF SettleRead
    <3> QED BY <3>1, <3>2
  <2>2. UNCHANGED <<part, arr, run, row, unseen, decision, kept>> /\ sync[i].pc = "written"
    BY <1>12 DEF SettleRead
  <2> QED BY <1>11, <2>1, <2>2 DEF LeftRequested
<1>13. CASE SettleLock(i)
  <2>1. PICK running, ended : sync' = [sync EXCEPT ![i] =
            [sync[i] EXCEPT !.pc = "settling", !.running = running, !.ended = ended]]
    BY <1>1, <1>13 DEF SettleLock
  <2>2. PICK left : left = [sync[i] EXCEPT !.pc = "settling", !.running = running, !.ended = ended]
    OBVIOUS
  <2>3. left.pc = "settling" /\ left.rows = sync[i].rows
    BY <1>1, <2>2 DEF Sync
  <2>4. UNCHANGED <<part, arr, run, row, unseen, decision, kept>> /\ sync[i].pc = "rows"
    BY <1>13 DEF SettleLock
  <2> QED BY <1>2, <1>11, <2>1, <2>2, <2>3, <2>4 DEF SyncOwn
<1>14. CASE SettleUnread(i)
  <2>1. PICK left : left = [sync[i] EXCEPT !.pc = "settling", !.move = None, !.held = None]
    OBVIOUS
  <2>2. left.pc = "settling" /\ left.rows = sync[i].rows
    BY <1>1, <2>1 DEF Sync
  <2>3. /\ UNCHANGED <<part, arr, run, row, unseen, decision, kept>> /\ sync' = [sync EXCEPT ![i] = left]
        /\ sync[i].pc = "held"
    BY <1>14, <2>1 DEF SettleUnread
  <2> QED BY <1>2, <1>11, <2>2, <2>3 DEF SyncOwn
<1>15. CASE SettleEnd(i)
  <2>1. /\ UNCHANGED <<part, arr, run, row, unseen, decision, kept>> /\ sync' = [sync EXCEPT ![i] = NoSync]
        /\ sync[i].pc = "settling"
    BY <1>15 DEF SettleEnd
  <2> QED BY <1>6, <1>11, <2>1
<1>16. ASSUME Settling(i) PROVE \A t \in TitlesOf(i) : Says(t)
  <2>1. \A t : ~Taken(t)
    BY <1>16, NothingInHand DEF Taken, Inv, SafeInv
  <2> QED BY <1>2, <1>16, <2>1 DEF SyncTitle, Settling
<1>17. ASSUME NEW d, Known(d), InstanceOfMove(d) = i
       PROVE  decision[d].title \in TitlesOf(i) /\ d \in Decisions /\ InstanceOf[decision[d].title] = i
  BY <1>17 DEF Known, Inv, SafeInv, DecisionsKnown, InstanceOfMove, TitlesOf
<1>18. ASSUME NEW d \in Decisions, SettlePick(i, d) PROVE RowInv'
  <2>1. /\ sync[i].pc = "settling" /\ d \in sync[i].rows
        /\ UNCHANGED <<row, part, run, arr, kept, unseen>>
    BY <1>18 DEF SettlePick
  <2>2. Settling(i) /\ Known(d) /\ InstanceOfMove(d) = i
    BY <1>2, <2>1 DEF Settling, Inv, SafeInv, MovesKnown, SyncOwn
  <2>3. \A e \in Decisions : SameMove(e) /\ (e # d => Stays(e))
    BY <1>18, FailedMeans, SameStays DEF SettlePick, FailedNow, Stays
  <2>4. PICK left : left = [sync[i] EXCEPT !.rows = sync[i].rows \ {d}]
    OBVIOUS
  <2>5. left.pc = "settling" /\ left.rows = sync[i].rows \ {d}
        /\ left \in [pc : {"settling"}, snap : {left.snap},
             rows : {left.rows}, back : {left.back}, running : {left.running}, ended : {left.ended},
             move : {left.move}, held : {left.held}]
    BY <1>1, <2>1, <2>4 DEF Sync
  <2>6. \/ sync' = [sync EXCEPT ![i] = left]
        \/ sync' = [sync EXCEPT ![i] = [left EXCEPT !.pc = "held", !.move = d, !.held = arr[decision[d].title]]]
    BY <1>18, <2>4 DEF SettlePick
  <2>7. \A j \in Instances : j # i => sync'[j] = sync[j]
    BY <1>1, <2>6
  <2>8. /\ sync'[i].rows = left.rows
        /\ sync'[i].pc = "settling" \/ /\ sync'[i].pc = "held" /\ sync'[i].move = d
                                       /\ sync'[i].held = arr[decision[d].title]
    <3>1. CASE sync' = [sync EXCEPT ![i] = left]
      BY <1>1, <2>5, <3>1
    <3>2. CASE sync' = [sync EXCEPT ![i] = [left EXCEPT !.pc = "held", !.move = d, !.held = arr[decision[d].title]]]
      BY <1>1, <2>5, <3>2
    <3> QED BY <2>6, <3>1, <3>2
  <2>9. SyncOwn(i)'
    <3>1. \A e \in sync'[i].rows : InstanceOfMove(e)' = i
      <4> SUFFICES ASSUME NEW e \in sync'[i].rows PROVE InstanceOfMove(e)' = i
        OBVIOUS
      <4>1. e \in sync[i].rows
        BY <2>5, <2>8
      <4>2. e \in Decisions /\ InstanceOfMove(e) = i
        BY <1>1, <1>2, <4>1 DEF SyncOwn, Sync
      <4> QED BY <2>3, <4>2 DEF InstanceOfMove, SameMove
    <3>2. decision'[d].title = decision[d].title
      BY <2>3 DEF SameMove
    <3>3. InstanceOf[decision[d].title] = i
      BY <1>17, <2>2
    <3> QED BY <2>1, <2>8, <3>1, <3>2, <3>3 DEF SyncOwn
  <2>10. \A t \in Titles : TitleStays(t)
    BY <2>1 DEF TitleStays
  <2>11. Says(decision[d].title)
    BY <1>16, <1>17, <2>2
  <2>12. ASSUME NEW t \in TitlesOf(i) PROVE SyncTitle(i, t)'
    <3>1. Says(t)'
      BY <1>5, <1>16, <2>1, <2>2, <2>12
    <3> QED BY <2>8, <3>1, SyncTitleSaid
  <2>13. \A e \in Decisions : decision[e].status = "requested" =>
            Stays(e) \/ (Settling(i) /\ Says(decision[e].title))
    <3> HIDE DEF Says, Settling
    <3> QED BY <2>2, <2>3, <2>11
  <2> QED BY <2>1, <2>3, <2>7, <2>9, <2>10, <2>12, <2>13, RowsOfSync
<1>19. CASE SettleRecord(i)
  <2>0. PICK d, t, held : d = sync[i].move /\ t = decision[d].title /\ held = sync[i].held
    OBVIOUS
  <2> DEFINE made == held = Target(d, SettleDirection(i, d))
  <2>1. /\ sync[i].pc = "held" /\ UNCHANGED <<part, run, arr, kept>>
        /\ sync' = [sync EXCEPT ![i] = [sync[i] EXCEPT !.pc = "settling", !.move = None, !.held = None]]
        /\ decision' = IF made THEN Confirmed(d, SettleDirection(i, d)) ELSE Failed(d, SettleDirection(i, d))
        /\ IF made \/ held = None \/ row[t] = None THEN UNCHANGED <<row, unseen>>
           ELSE row' = [row EXCEPT ![t] = held] /\ unseen' = UnseenAfterRow(t, held)
    BY <1>19, <2>0 DEF SettleRecord
  <2>2. Settling(i) /\ Known(d) /\ d \in Decisions /\ t \in TitlesOf(i) /\ t \in Titles /\ InstanceOf[t] = i
        /\ (held = arr[t] \/ t \in unseen)
    BY <1>2, <1>17, <2>0, <2>1 DEF Settling, Inv, SafeInv, MovesKnown, SyncOwn, Known, InstanceOfMove, TitlesOf
  <2>3. \A e \in Decisions : SameMove(e) /\ (e # d => Stays(e))
    <3>1. decision' = Confirmed(d, SettleDirection(i, d)) \/ decision' = Failed(d, SettleDirection(i, d))
      BY <2>1
    <3> QED BY <2>2, <3>1, ConfirmedMeans, FailedMeans DEF FailedNow, Stays
  <2>4. /\ \A j \in Instances : j # i => sync'[j] = sync[j]
        /\ sync'[i].rows = sync[i].rows /\ sync'[i].pc = "settling"
    BY <1>1, <2>1 DEF Sync
  <2>5. SyncOwn(i)'
    <3>1. \A e \in sync[i].rows : e \in Decisions /\ InstanceOfMove(e) = i
      BY <1>1, <1>2 DEF SyncOwn, Sync
    <3> QED BY <2>3, <2>4, <3>1 DEF SyncOwn, InstanceOfMove, SameMove
  <2>6. Says(t)
    BY <1>16, <2>2
  <2>7. /\ \A u \in Titles : u # t => TitleStays(u)
        /\ Says(t)' /\ (arr[t] = None /\ row'[t] # None => t \in unseen')
        /\ \A u \in Titles : u # t => (Says(u) => Says(u)')
    <3>1. CASE UNCHANGED <<row, unseen>>
      <4>1. \A u \in Titles : TitleStays(u)
        BY <2>1, <3>1 DEF TitleStays
      <4>2. TitleRow(t)
        BY <2>2 DEF RowInv
      <4>3. arr[t] = None /\ row'[t] # None => t \in unseen'
        BY <3>1, <4>2 DEF TitleRow
      <4>4. \A u : Says(u)' <=> Says(u)
        BY <2>1, <3>1 DEF Says
      <4> QED BY <2>6, <4>1, <4>3, <4>4
    <3>2. CASE held # None /\ row' = [row EXCEPT ![t] = held] /\ unseen' = UnseenAfterRow(t, held)
      <4>1. row'[t] = held /\ \A u \in Titles : u # t => row'[u] = row[u] /\ (u \in unseen' <=> u \in unseen)
        BY <2>2, <3>2 DEF UnseenAfterRow, Inv, TypeOK, DbTyped
      <4>2. t \in unseen => t \in unseen' \/ held = arr[t]
        BY <3>2 DEF UnseenAfterRow
      <4>3. \A u \in Titles : u # t => TitleStays(u) /\ (Says(u) => Says(u)')
        BY <2>1, <4>1 DEF TitleStays, Says
      <4>4. Says(t)'
        BY <2>1, <2>2, <4>1, <4>2 DEF Says
      <4>5. arr[t] = None => t \in unseen'
        BY <2>2, <3>2, <4>2
      <4> QED BY <4>3, <4>4, <4>5
    <3> QED BY <2>1, <3>1, <3>2
  <2>8. ASSUME NEW u \in TitlesOf(i) PROVE SyncTitle(i, u)'
    <3>1. Says(u)'
      BY <1>16, <2>2, <2>7, <2>8 DEF TitlesOf
    <3> QED BY <2>4, <3>1, SyncTitleSaid
  <2>9. \A e \in Decisions : decision[e].status = "requested" =>
            Stays(e) \/ (Settling(i) /\ Says(decision[e].title))
    <3>1. Settling(i) /\ (Says(t) => Says(decision[d].title))
      BY <2>0, <2>2 DEF Says
    <3> HIDE DEF Says, Settling
    <3> QED BY <2>2, <2>3, <2>6, <3>1
  <2>10. \A u \in Titles : TitleStays(u) \/ /\ InstanceOf[u] = i /\ Settling(i) /\ Says(u)'
                                            /\ arr[u] = None /\ row'[u] # None => u \in unseen'
    <3> SUFFICES ASSUME NEW u \in Titles, ~TitleStays(u)
                 PROVE  /\ InstanceOf[u] = i /\ Settling(i) /\ Says(u)'
                        /\ arr[u] = None /\ row'[u] # None => u \in unseen'
      OBVIOUS
    <3>1. u = t
      BY <2>7
    <3> HIDE DEF Settling
    <3> QED BY <2>2, <2>7, <3>1
  <2> HIDE DEF made
  <2> QED BY <2>1, <2>3, <2>4, <2>5, <2>8, <2>9, <2>10, RowsOfSync
<1> QED BY <1>7, <1>8, <1>9, <1>10, <1>12, <1>13, <1>14, <1>15, <1>18, <1>19 DEF SyncStep

\* The Arr says nothing a row follows: a part that waited has no answer, or a
\* refusal.
LEMMA RowsOfArr ==
  ASSUME Inv, RowInv, UNCHANGED <<decision, row, run, sync, kept>>,
         \A t \in Titles : TitleStays(t),
         \A i \in Instances :
           \/ part'[i] = part[i]
           \/ /\ part[i].pc = "sent" /\ part'[i].pc \in {"failed", "unanswered"}
              /\ part'[i].move = part[i].move
  PROVE  RowInv'
<1>1. \A d \in Decisions : Stays(d) /\ SameMove(d)
  BY SameStays DEF Stays
<1>2. \A d, t : Asks(d, t)' <=> Asks(d, t)
  BY DEF Asks
<1>3. TakenStays
  BY DEF TakenStays, TitleOf
<1>4. ASSUME NEW i \in Instances PROVE PartRow(i)'
  <2>1. part[i].pc # "ready" => TitleStays(TitleOf(i)) /\ SameMove(part[i].move)
    BY <1>1, InHandTitle
  <2>2. CASE part'[i] = part[i]
    BY <1>1, <2>1, <2>2, PartRowStays DEF RowInv
  <2>3. CASE /\ part[i].pc = "sent" /\ part'[i].pc \in {"failed", "unanswered"}
             /\ part'[i].move = part[i].move
    <3>1. PICK m, t : m = part[i].move /\ t = TitleOf(i)
      OBVIOUS
    <3>2. part'[i].move = m /\ TitleOf(i)' = t
      BY <2>3, <3>1 DEF TitleOf
    <3>3. Says(t) => Says(t)'
      BY <2>1, <2>3, <3>1, SaysStays
    <3>4. Says(t) \/ \E d \in Decisions : d # m /\ Asks(d, t)
      BY <2>3, <3>1 DEF RowInv, PartRow
    <3>5. Says(t)' \/ \E d \in Decisions : d # m /\ Asks(d, t)'
      <4> HIDE DEF Says, Asks
      <4> QED BY <1>2, <3>3, <3>4
    <3> QED BY <2>3, <3>2, <3>5 DEF PartRow, Says, Asks
  <2> QED BY <2>2, <2>3
<1>5. \A t \in Titles, d \in Decisions : Asks(d, t) => Says(t) \/ \E e \in Decisions : Asks(e, t)'
  BY <1>2
<1> QED BY <1>1, <1>3, <1>4, <1>5, RowsStill

\* The Arr took the move of instance i and said so: the row is about to follow.
LEMMA RowsOfTaken ==
  ASSUME Inv, RowInv, NEW i \in Instances, part[i].pc = "sent", PartGoesOn(i),
         part'[i].pc = "taken", UNCHANGED <<decision, row, run, sync, kept>>,
         arr'[TitleOf(i)] = Aim(i), Aim(i) # None,
         \A u \in Titles : u # TitleOf(i) => TitleStays(u)
  PROVE  RowInv'
<1>1. PICK t \in Titles : t = TitleOf(i) /\ InstanceOf[t] = i
  BY InHandTitle
<1>2. \A d \in Decisions : Stays(d) /\ SameMove(d)
  BY SameStays DEF Stays
<1>3. \A d, u : Asks(d, u)' <=> Asks(d, u)
  BY DEF Asks
<1>4. part'[i].move = part[i].move /\ TitleOf(i)' = t /\ Aim(i)' = Aim(i)
  BY <1>1 DEF PartGoesOn, TitleOf, Aim, Target
<1>5. Taken(t)'
  BY <1>4 DEF Taken
<1>6. ASSUME NEW u \in Titles PROVE TitleRow(u)'
  <2>1. CASE u = t
    <3>1. \E d \in Decisions : Asks(d, t)'
      BY <1>1, <1>3, InHandTitle DEF Asks, TitleOf, Inv, SafeInv, InHandIsRequested
    <3>2. arr'[u] # None
      BY <1>1, <2>1
    <3> HIDE DEF Asks, Says
    <3> QED BY <2>1, <3>1, <3>2 DEF TitleRow
  <2>2. CASE u # t
    <3>1. \A d \in Decisions : Asks(d, u) => Says(u) \/ \E e \in Decisions : Asks(e, u)'
      BY <1>3
    <3> QED BY <1>1, <2>2, <3>1, TitleRowStays DEF RowInv
  <2> QED BY <2>1, <2>2
<1>7. ASSUME NEW j \in Instances PROVE PartRow(j)'
  <2>1. CASE j = i
    BY <1>1, <1>4, <2>1 DEF PartRow
  <2>2. CASE j # i
    <3>1. part'[j] = part[j]
      BY <2>2 DEF PartGoesOn
    <3>2. SUFFICES ASSUME part[j].pc # "ready" PROVE PartRow(j)'
      BY <3>1 DEF PartRow
    <3>3. TitleOf(j) \in Titles /\ TitleOf(j) # t /\ part[j].move \in Decisions
      BY <1>1, <2>2, <3>2, InHandTitle
    <3> QED BY <1>1, <1>2, <3>1, <3>3, PartRowStays DEF RowInv
  <2> QED BY <2>1, <2>2
<1>8. ASSUME NEW j \in Instances PROVE SyncOwn(j)'
  <2>1. sync[j].pc # "held"
    BY NotSettling DEF Inv, SafeInv, Settling
  <2> QED BY <1>2, <2>1, SyncOwnStays DEF RowInv
<1>9. ASSUME NEW j \in Instances, NEW u \in TitlesOf(j) PROVE SyncTitle(j, u)'
  <2>1. CASE u = t
    BY <1>5, <2>1, SyncTitleSaid
  <2>2. CASE u # t
    <3>1. u \in Titles /\ SyncTitle(j, u)
      BY <1>9 DEF TitlesOf, RowInv
    <3>2. Taken(u) => Taken(u)'
      BY <1>1, <2>2 DEF Taken, PartGoesOn, TitleOf
    <3> QED BY <1>1, <2>2, <3>1, <3>2, SyncTitleStays
  <2> QED BY <2>1, <2>2
<1> QED BY <1>6, <1>7, <1>8, <1>9 DEF RowInv, TitlesOf

LEMMA RowsFollowed ==
  ASSUME Inv, LoadedInv, RowInv, [Next]_vars
  PROVE  RowInv'
<1> USE DEF db, runVars, syncVars, arrVars, history, bounds
<1>1. ASSUME UNCHANGED <<run, part, row, arr, unseen, kept, sync>>,
             \A d \in Decisions : Known(d) => Stays(d)
      PROVE  RowInv'
  BY <1>1, RowsSame DEF Stays, Known
<1>2. ASSUME UNCHANGED <<row, arr, unseen, kept, sync>>, \A d \in Decisions : Stays(d),
             \A i \in Instances : part[i].pc = "ready" /\ part'[i].pc = "ready"
      PROVE  RowInv'
  BY <1>2, RowsSame DEF Stays
<1>3. CASE Simulate
  <2>1. UNCHANGED <<run, part, row, arr, unseen, kept, sync>>
    BY <1>3 DEF Simulate, SimulationRead, SimulationStored
  <2>2. CASE \E t \in Titles, to \in Folders : SimulationRead(t, to)
    BY <1>1, <2>1, <2>2, SameStays DEF SimulationRead
  <2>3. ASSUME NEW s \in sim, NEW d \in Decisions, SimulationStored(s, d)
        PROVE  \A e \in Decisions : Known(e) => Stays(e)
    BY <2>3, StoredMeans DEF Known
  <2> QED BY <1>1, <1>3, <2>1, <2>2, <2>3 DEF Simulate
<1>4. CASE Operator
  <2>1. CASE StartSome
    <3>1. /\ lock = "free" /\ UNCHANGED <<decision, row, arr, unseen, kept, sync>>
          /\ part' = [i \in Instances |-> Ready]
      BY <2>1 DEF StartSome, StartRun
    <3>2. \A i \in Instances : part[i].pc = "ready" /\ part'[i].pc = "ready"
      BY <3>1, NothingInHand DEF Inv, SafeInv, Ready
    <3> QED BY <1>2, <3>1, <3>2, SameStays
  <2>2. CASE Cancel \/ \E on \in BOOLEAN : SetDryRun(on)
    <3>1. UNCHANGED <<run, part, row, arr, unseen, kept, sync, decision>>
      BY <2>2 DEF Cancel, SetDryRun
    <3> QED BY <1>1, <3>1, SameStays
  <2> QED BY <1>4, <2>1, <2>2 DEF Operator
<1>5. CASE RunStep
  <2>1. UNCHANGED <<row, arr, unseen, kept, sync>> /\ AllReady
    BY <1>5 DEF RunStep, StopSlices, LoadFailed, LoadSlice, FinishRun, MaySlice
  <2>2. part' = part \/ part' = [i \in Instances |-> Ready]
    BY <1>5 DEF RunStep, StopSlices, LoadFailed, LoadSlice, FinishRun
  <2>3. \A i \in Instances : part[i].pc = "ready" /\ part'[i].pc = "ready"
    BY <2>1, <2>2 DEF AllReady, Ready
  <2>4. decision' = decision \/ \E ids : decision' = Retired(ids)
    BY <1>5 DEF RunStep, StopSlices, LoadFailed, LoadSlice, FinishRun
  <2> QED BY <1>2, <2>1, <2>3, <2>4, SameStays, RetiredStays
<1>6. CASE \E i \in Instances : PartStep(i)
  BY <1>6, RowsKeptByParts
<1>7. CASE \E i \in Instances : SyncStep(i)
  BY <1>7, RowsKeptBySyncs
<1>8. CASE ArrStep
  <2>1. ASSUME NEW p \in puts, ArrTake(p, TRUE) PROVE RowInv'
    <3>1. PICK i \in Instances : part[i].pc = "sent" /\ PutOf(part[i].move) = p
      BY <2>1 DEF ArrTake, WaitingFor
    <3>2. PICK t \in Titles : t = TitleOf(i) /\ InstanceOf[t] = i
      BY <3>1, InHandTitle
    <3>3. p.move = part[i].move /\ p.to = Aim(i) /\ p.to \in Folders /\ decision[p.move].title = t
      BY <3>1, <3>2, OnItsWay DEF PutOf, Aim, TitleOf, Inv, SafeInv
    <3>4. /\ part' = Answered(p, "taken") /\ arr' = [arr EXCEPT ![t] = p.to] /\ unseen' = unseen \ {t}
          /\ UNCHANGED <<decision, row, run, sync, kept>>
      BY <2>1, <3>3 DEF ArrTake
    <3>5. \A j \in Instances : j # i => j \notin WaitingFor(p)
      <4> SUFFICES ASSUME NEW j \in Instances, j # i, part[j].pc = "sent", PutOf(part[j].move) = p PROVE FALSE
        BY DEF WaitingFor
      <4>1. part[j].move = part[i].move
        BY <3>1 DEF PutOf
      <4> QED BY <3>1, <4>1, InHandOfPart
    <3>6. PartGoesOn(i) /\ part'[i].pc = "taken"
      BY <3>1, <3>4, <3>5, AnsweredMeans DEF PartGoesOn, WaitingFor
    <3>7. arr'[t] = Aim(i) /\ Aim(i) # None /\ \A u \in Titles : u # t => TitleStays(u)
      BY <3>3, <3>4, ConstantsAssumption DEF TitleStays, Inv, TypeOK, ArrTyped
    <3> QED BY <3>1, <3>2, <3>4, <3>6, <3>7, RowsOfTaken
  <2>2. ASSUME NEW p \in puts, ArrTake(p, FALSE) PROVE RowInv'
    <3>1. PICK t \in Titles : t = decision[p.move].title
      BY OnItsWay DEF Inv, SafeInv
    <3>2. /\ part' = Answered(p, "unanswered") /\ arr' = [arr EXCEPT ![t] = p.to] /\ unseen' = unseen \cup {t}
          /\ UNCHANGED <<decision, row, run, sync, kept>>
      BY <2>2, <3>1 DEF ArrTake
    <3>3. \A u \in Titles : TitleStays(u)
      BY <3>2 DEF TitleStays, Inv, TypeOK, ArrTyped
    <3> QED BY <3>2, <3>3, AnsweredMeans, RowsOfArr DEF WaitingFor
  <2>3. ASSUME NEW p \in puts, NEW answered \in BOOLEAN, ArrDrop(p, answered) PROVE RowInv'
    <3>1. UNCHANGED <<decision, row, run, sync, kept, arr, unseen>>
      BY <2>3 DEF ArrDrop
    <3>2. PICK pc \in {"failed", "unanswered"} : part' = Answered(p, pc)
      BY <2>3 DEF ArrDrop
    <3>3. \A u \in Titles : TitleStays(u)
      BY <3>1 DEF TitleStays
    <3> QED BY <3>1, <3>2, <3>3, AnsweredMeans, RowsOfArr DEF WaitingFor
  <2>4. ASSUME NEW t \in Titles, NEW folder, UNCHANGED <<decision, row, run, sync, kept, part>>,
               \/ UNCHANGED <<arr, unseen>>
               \/ unseen' = unseen \cup {t} /\ (arr' = arr \/ arr' = [arr EXCEPT ![t] = folder])
        PROVE  RowInv'
    <3>1. \A u \in Titles : TitleStays(u)
      BY <2>4 DEF TitleStays, Inv, TypeOK, ArrTyped
    <3> QED BY <2>4, <3>1, RowsOfArr
  <2>5. ASSUME NEW t \in Titles, NEW state, NEW back \in BOOLEAN, NEW n, CommandEnd(t, n, state, back)
        PROVE  RowInv'
    <3>1. PICK folder : folder = commands[t][n].from
      OBVIOUS
    <3> QED BY <2>4, <2>5, <3>1 DEF CommandEnd
  <2>6. CASE \E t \in Titles : CommandForget(t)
    BY <2>4, <2>6 DEF CommandForget
  <2>7. CASE \E t \in Titles, folder \in Folder : HandMove(t, folder)
    BY <2>4, <2>7 DEF HandMove
  <2> QED BY <1>8, <2>1, <2>2, <2>3, <2>5, <2>6, <2>7 DEF ArrStep
<1>9. CASE Crash
  <2>1. /\ UNCHANGED <<decision, row, arr, unseen>> /\ kept' = {}
        /\ part' = [i \in Instances |-> Ready] /\ sync' = [i \in Instances |-> NoSync]
    BY <1>9 DEF Crash
  <2>2. \A t \in Titles : TitleRow(t)'
    BY <2>1 DEF RowInv, TitleRow, Says, Asks
  <2>3. \A i \in Instances : PartRow(i)'
    BY <2>1 DEF PartRow, Ready
  <2>4. \A i \in Instances : SyncOwn(i)' /\ \A t : SyncTitle(i, t)'
    BY <2>1 DEF SyncOwn, SyncTitle, NoSync
  <2> QED BY <2>2, <2>3, <2>4 DEF RowInv, TitlesOf
<1>10. CASE UNCHANGED vars
  <2>1. UNCHANGED <<run, part, row, arr, unseen, kept, sync, decision>>
    BY <1>10 DEF vars
  <2> QED BY <1>1, <2>1, SameStays
<1> QED BY <1>3, <1>4, <1>5, <1>6, <1>7, <1>8, <1>9, <1>10 DEF Next

-----------------------------------------------------------------------------
(***************************************************************************)
(* The theorems.                                                           *)
(***************************************************************************)

LEMMA InitMoves == Init => StopsInv /\ QueueOfRun /\ LatestInv /\ LoadedInv /\ SeenInv /\ RowInv
<1> SUFFICES ASSUME Init PROVE StopsInv /\ QueueOfRun /\ LatestInv /\ LoadedInv /\ SeenInv /\ RowInv
  OBVIOUS
<1>1. /\ \A i \in Instances : part[i] = Ready /\ sync[i] = NoSync /\ overrun[i] = 0
      /\ \A d \in Decisions : decision[d] = Absent
      /\ run = NoRun /\ kept = {} /\ row = arr
  BY DEF Init
<1>2. StopsInv
  BY <1>1 DEF StopsInv
<1>3. QueueOfRun /\ LatestInv
  BY <1>1 DEF QueueOfRun, LatestInv, NoRun
<1>4. LoadedInv
  BY <1>1 DEF LoadedInv, NoRun, Ready, QueueOf
<1>5. SeenInv
  BY <1>1 DEF SeenInv, RowSeen, PartSeen, SyncSeen, Ready, NoSync, Absent
<1>6. RowInv
  <2>1. arr \in [Titles -> Folders]
    BY DEF Init
  <2>2. \A t \in Titles : TitleRow(t)
    BY <1>1, <2>1, ConstantsAssumption DEF TitleRow, Says
  <2>3. \A i \in Instances : PartRow(i)
    BY <1>1 DEF PartRow, Ready
  <2>4. \A i \in Instances : SyncOwn(i) /\ \A t : SyncTitle(i, t)
    BY <1>1 DEF SyncOwn, SyncTitle, NoSync
  <2> QED BY <2>2, <2>3, <2>4 DEF RowInv
<1> QED BY <1>2, <1>3, <1>4, <1>5, <1>6

\* A cancel, the server stopping or the global dry run lets each instance send
\* the one move it had checked and no other (stop_reason in move_instance).
THEOREM StopsLetOneOut == Spec => []StopsBeforeNextMove
<1>1. Init => StopsInv
  BY InitMoves
<1>2. Inv /\ StopsInv /\ [Next]_vars => StopsInv'
  BY StopsKept
<1>3. StopsInv => StopsBeforeNextMove
  BY DEF StopsInv, StopsBeforeNextMove
<1> QED BY <1>1, <1>2, <1>3, Invariance, PTL DEF Spec

\* A revert undoes no move while a later one of its title stands: what is loaded
\* is the latest, and nothing puts a later one in place before it is sent
\* (REVERTIBLE, revalidated).
THEOREM RevertsTheLatest == Spec => []RevertLatest
<1>1. Init => QueueOfRun /\ LatestInv
  BY InitMoves
<1>2. Inv /\ QueueOfRun /\ LatestInv /\ [Next]_vars => QueueOfRun' /\ LatestInv'
  BY LatestKept
<1>3. Inv /\ LatestInv => RevertLatest
  <2> SUFFICES ASSUME Inv, LatestInv, NEW i \in Instances, part[i].pc \in {"checked", "sent"},
                      run.direction = "revert", NEW e \in after[part[i].move]
               PROVE  ~InPlace(e)
    BY DEF RevertLatest, InPlace
  <2>1. part[i].move \in Decisions /\ Named(part[i].move)
    BY InHandOfPart DEF Known, Named
  <2>2. e \in Decisions
    BY <2>1 DEF Inv, TypeOK, DbTyped
  <2> QED BY <2>1, <2>2 DEF LatestInv
<1> QED BY <1>1, <1>2, <1>3, Invariance, PTL DEF Spec

\* A run or a sync reports no move made that the Arr was not seen to have made
\* since it was requested: forwards in its target, backwards where it came from
\* (record_success, record_sent, record_confirmed).
THEOREM ReportsWhatWasSeen == Spec => []SettledAsSeen
<1>1. Init => LoadedInv /\ QueueOfRun /\ SeenInv
  BY InitMoves
<1>2. Init => LatestInv
  BY InitMoves
<1>3. Inv /\ QueueOfRun /\ LatestInv /\ [Next]_vars => QueueOfRun' /\ LatestInv'
  BY LatestKept
<1>4. Inv /\ QueueOfRun /\ LoadedInv /\ [Next]_vars => LoadedInv'
  BY LoadedKept
<1>5. Inv /\ LoadedInv /\ LoadedInv' /\ SeenInv /\ [Next]_vars => SeenInv'
  BY SeenKept
<1>6. SeenInv => SettledAsSeen
  BY DEF SeenInv, RowSeen, SettledAsSeen
<1> QED BY <1>1, <1>2, <1>3, <1>4, <1>5, <1>6, Invariance, PTL DEF Spec

\* The row of a title names the folder the Arr holds it in, unless a move of the
\* title is requested or the Arr changed it by itself: no sync puts back what it
\* read before a move (upsert_media, moved_at).
THEOREM RowsFollow == Spec => []RowFollowsArr
<1>1. Init => LoadedInv /\ QueueOfRun /\ LatestInv /\ RowInv
  BY InitMoves
<1>2. Inv /\ QueueOfRun /\ LatestInv /\ [Next]_vars => QueueOfRun' /\ LatestInv'
  BY LatestKept
<1>3. Inv /\ QueueOfRun /\ LoadedInv /\ [Next]_vars => LoadedInv'
  BY LoadedKept
<1>4. Inv /\ LoadedInv /\ RowInv /\ [Next]_vars => RowInv'
  BY RowsFollowed
<1>5. RowInv => RowFollowsArr
  BY DEF RowInv, TitleRow, Says, Asks, RowFollowsArr
<1> QED BY <1>1, <1>2, <1>3, <1>4, <1>5, Invariance, PTL DEF Spec

-----------------------------------------------------------------------------
(***************************************************************************)
(* Executor implements MoveLifecycle. Nothing of a decision changes but    *)
(* what a step of its life changes: a part that failed its move left it as *)
(* it was loaded or as it sent it, and a settle has in hand moves of its   *)
(* own instance, sent already.                                             *)
(***************************************************************************)

Open(d) == decision[d].status \in {"absent", "pending"}

Underway(d) ==
  decision[d].status = "requested" /\ (decision[d].reverted <=> run.direction = "revert")

FailedAsLeft(i) ==
  part[i].pc = "failed" => AsLoaded(part[i].move) \/ Underway(part[i].move)

SettlesSent(i) ==
  /\ \A d \in sync[i].rows \cup sync[i].back : ~Open(d) /\ InstanceOfMove(d) = i
  /\ \A d \in sync[i].back : decision[d].status # "failed"
  /\ sync[i].pc = "held" => ~Open(sync[i].move) /\ InstanceOfMove(sync[i].move) = i

LifeInv == \A i \in Instances : FailedAsLeft(i) /\ SettlesSent(i)

LifeStep == [Life!Next]_<<lives, puts>>

\* Sent already and written again, failed by no settle that undoes it.
Turned(d) ==
  /\ SameMove(d)
  /\ decision'[d].status \notin {"absent", "pending"}
  /\ decision'[d].status = "failed" => \A j \in Instances : d \notin sync[j].back

\* The life of a decision, by its row.
LEMMA LifeMeans ==
  ASSUME NEW d
  PROVE  /\ decision[d].status = "absent" => LifeOf(d) = "none"
         /\ decision[d].status = "pending" => LifeOf(d) = "proposed"
         /\ decision[d].status = "requested" /\ ~decision[d].reverted => LifeOf(d) = "sent"
         /\ decision[d].status = "requested" /\ decision[d].reverted => LifeOf(d) = "recalled"
         /\ decision[d].status = "applied" => LifeOf(d) = "made"
         /\ decision[d].status = "failed" => LifeOf(d) = "failed"
         /\ decision[d].status = "skipped" => LifeOf(d) = "undone"
BY DEF LifeOf

LEMMA LifeMeansNext ==
  ASSUME NEW d
  PROVE  /\ decision'[d].status = "pending" => LifeOf(d)' = "proposed"
         /\ decision'[d].status = "requested" /\ ~decision'[d].reverted => LifeOf(d)' = "sent"
         /\ decision'[d].status = "requested" /\ decision'[d].reverted => LifeOf(d)' = "recalled"
         /\ decision'[d].status = "applied" => LifeOf(d)' = "made"
         /\ decision'[d].status = "failed" => LifeOf(d)' = "failed"
         /\ decision'[d].status = "skipped" => LifeOf(d)' = "undone"
BY DEF LifeOf

LEMMA OutcomesMean ==
  /\ Life!Outcomes("sent") = {"made", "failed"}
  /\ Life!Outcomes("recalled") = {"undone", "made", "failed"}
  /\ Life!Outcomes("made") = {"made", "failed"}
  /\ Life!Outcomes("undone") = {"made", "failed"}
BY DEF Life!Outcomes

LEMMA LifeStays ==
  ASSUME NEW d, Stays(d)
  PROVE  LifeOf(d)' = LifeOf(d)
BY DEF Stays, LifeOf

LEMMA OneLives ==
  ASSUME NEW e \in Decisions, \A d \in Decisions : d # e => Stays(d)
  PROVE  lives' = [lives EXCEPT ![e] = LifeOf(e)']
<1>1. \A d \in Decisions : d # e => LifeOf(d)' = LifeOf(d)
  BY LifeStays
<1> HIDE DEF LifeOf
<1> QED BY <1>1 DEF lives

LEMMA LifeStill ==
  ASSUME \A d \in Decisions : Stays(d), puts' = puts
  PROVE  LifeStep
<1>1. \A d \in Decisions : LifeOf(d)' = LifeOf(d)
  BY LifeStays
<1>2. lives' = lives
  BY <1>1 DEF lives
<1> QED BY <1>2 DEF LifeStep

\* The Arr took a PUT, or it was lost.
LEMMA LifeArrives ==
  ASSUME Inv, decision' = decision, NEW p \in puts, puts' = puts \ {p}
  PROVE  LifeStep
<1>1. p \in Put
  BY DEF Inv, TypeOK, ArrTyped
<1>2. lives' = lives
  BY DEF lives, LifeOf
<1>3. Life!Arrive(p)
  BY <1>2 DEF Life!Arrive
<1> QED BY <1>1, <1>3 DEF LifeStep, Life!Next

LEMMA LifeProposes ==
  ASSUME NEW e \in Decisions, Proposed(e), \A d \in Decisions : d # e => Stays(d), puts' = puts
  PROVE  LifeStep
<1>1. LifeOf(e) = "none" /\ LifeOf(e)' = "proposed"
  BY DEF Proposed, LifeOf
<1>2. lives' = [lives EXCEPT ![e] = "proposed"]
  BY <1>1, OneLives
<1>3. lives[e] = "none"
  BY <1>1 DEF lives
<1>4. Life!Propose(e)
  BY <1>2, <1>3 DEF Life!Propose
<1> QED BY <1>4 DEF LifeStep, Life!Next

\* One decision ends, as its life lets it or as it had.
LEMMA LifeSettles ==
  ASSUME NEW e \in Decisions, \A d \in Decisions : d # e => Stays(d), puts' = puts,
         LifeOf(e)' \in Life!Outcomes(LifeOf(e)) \/ LifeOf(e)' = LifeOf(e)
  PROVE  LifeStep
<1>1. PICK state : state = LifeOf(e)'
  OBVIOUS
<1>2. lives' = [lives EXCEPT ![e] = state] /\ lives[e] = LifeOf(e)
  BY <1>1, OneLives DEF lives
<1> HIDE DEF LifeOf
<1>3. CASE LifeOf(e)' = LifeOf(e)
  <2>1. DOMAIN lives = Decisions /\ lives = [d \in Decisions |-> lives[d]]
    BY DEF lives
  <2>2. lives' = lives
    BY <1>1, <1>2, <1>3, <2>1
  <2> QED BY <2>2 DEF LifeStep
<1>4. CASE LifeOf(e)' \in Life!Outcomes(LifeOf(e))
  <2>1. state \in {"made", "failed", "undone"}
    BY <1>1, <1>4 DEF Life!Outcomes
  <2>2. Life!Settle(e, state)
    BY <1>1, <1>2, <1>4 DEF Life!Settle
  <2> QED BY <2>1, <2>2 DEF LifeStep, Life!Next, Life!States
<1> QED BY <1>3, <1>4

\* Proposals failed before they were sent.
LEMMA LifeGivesUp ==
  ASSUME NEW ds \in SUBSET Decisions, \A d \in Decisions \ ds : Stays(d), puts' = puts,
         \A d \in ds : decision[d].status = "pending" /\ decision'[d].status = "failed"
  PROVE  LifeStep
<1>1. \A d \in Decisions \ ds : LifeOf(d)' = LifeOf(d)
  BY LifeStays
<1>2. \A d \in ds : LifeOf(d) = "proposed" /\ LifeOf(d)' = "failed"
  BY DEF LifeOf
<1> HIDE DEF LifeOf
<1>3. lives' = [d \in Decisions |-> IF d \in ds THEN "failed" ELSE lives[d]]
  BY <1>1, <1>2 DEF lives
<1>4. \A d \in ds : lives[d] = "proposed"
  BY <1>2 DEF lives
<1>5. Life!GiveUp(ds)
  BY <1>3, <1>4 DEF Life!GiveUp
<1> QED BY <1>5 DEF LifeStep, Life!Next

\* The syncs go on with what they have, or drop it.
LEMMA SettlesKept ==
  ASSUME LifeInv, \A d \in Decisions : Stays(d) \/ Proposed(d) \/ Turned(d), SyncsGoOn, Inv,
         \A i \in Instances : sync'[i].back \subseteq sync[i].back
  PROVE  \A i \in Instances : SettlesSent(i)'
<1> SUFFICES ASSUME NEW i \in Instances PROVE SettlesSent(i)'
  OBVIOUS
<1>1. sync[i] \in Sync
  BY DEF Inv, TypeOK, SyncTyped
<1>2. /\ \A d \in sync[i].rows \cup sync[i].back : ~Open(d) /\ InstanceOfMove(d) = i /\ d \in Decisions
      /\ \A d \in sync[i].back : decision[d].status # "failed"
      /\ sync[i].pc = "held" =>
           ~Open(sync[i].move) /\ InstanceOfMove(sync[i].move) = i /\ sync[i].move \in Decisions
  BY <1>1 DEF LifeInv, SettlesSent, Sync, Inv, SafeInv, MovesKnown, Known
<1>3. ASSUME NEW d \in Decisions, ~Open(d), InstanceOfMove(d) = i
      PROVE  ~Open(d)' /\ InstanceOfMove(d)' = i
  BY <1>3 DEF Stays, Proposed, Turned, SameMove, Open, InstanceOfMove
<1>4. ASSUME NEW d \in sync'[i].back PROVE decision'[d].status # "failed"
  <2>1. d \in sync[i].back /\ d \in Decisions /\ ~Open(d) /\ decision[d].status # "failed"
    BY <1>2
  <2> QED BY <2>1 DEF Stays, Proposed, Turned, Open
<1>5. \A d \in sync'[i].rows \cup sync'[i].back : ~Open(d)' /\ InstanceOfMove(d)' = i
  BY <1>2, <1>3 DEF SyncsGoOn
<1>6. sync'[i].pc = "held" => ~Open(sync[i].move)' /\ InstanceOfMove(sync[i].move)' = i
  BY <1>2, <1>3 DEF SyncsGoOn
<1> QED BY <1>4, <1>5, <1>6 DEF SettlesSent, Open, InstanceOfMove

\* No part has failed a move that it had not.
LEMMA FailedKept ==
  ASSUME Inv, LifeInv, run'.direction = run.direction,
         \A j \in Instances : part'[j].pc = "failed" =>
           \/ part'[j] = part[j] /\ Stays(part[j].move)
           \/ AsLoaded(part[j].move)' \/ Underway(part[j].move)'
  PROVE  \A j \in Instances : FailedAsLeft(j)'
<1> SUFFICES ASSUME NEW j \in Instances, part'[j].pc = "failed"
             PROVE  AsLoaded(part[j].move)' \/ Underway(part[j].move)'
  BY DEF FailedAsLeft
<1>1. CASE AsLoaded(part[j].move)' \/ Underway(part[j].move)'
  BY <1>1 DEF AsLoaded, InPlace, Underway
<1>2. CASE part'[j] = part[j] /\ Stays(part[j].move)
  <2>1. AsLoaded(part[j].move) \/ Underway(part[j].move)
    BY <1>2 DEF LifeInv, FailedAsLeft
  <2> QED BY <1>2, <2>1 DEF AsLoaded, InPlace, Underway, Stays
<1> QED BY <1>1, <1>2

\* The part of instance i writes decisions of its instance.
LEMMA LifeOfPart ==
  ASSUME Inv, LifeInv, NEW i \in Instances, sync' = sync, run'.direction = run.direction,
         \A j \in Instances : j # i => part'[j] = part[j],
         \A d \in Decisions : Stays(d) \/ (InstanceOfMove(d) = i /\ Turned(d)),
         part'[i].pc = "failed" => AsLoaded(part[i].move)' \/ Underway(part[i].move)'
  PROVE  LifeInv'
<1>1. \A j \in Instances : SettlesSent(j)'
  BY SettlesKept, SameGoOn
<1>2. ASSUME NEW j \in Instances, part'[j].pc = "failed"
      PROVE  \/ part'[j] = part[j] /\ Stays(part[j].move)
             \/ AsLoaded(part[j].move)' \/ Underway(part[j].move)'
  <2>1. CASE j = i
    BY <1>2, <2>1
  <2>2. CASE j # i
    <3>1. part'[j] = part[j] /\ part[j].pc # "ready"
      BY <1>2, <2>2
    <3>2. part[j].move \in Decisions /\ InstanceOfMove(part[j].move) = j
      BY <3>1, InHandOfPart DEF Known
    <3> QED BY <2>2, <3>1, <3>2
  <2> QED BY <2>1, <2>2
<1>3. \A j \in Instances : FailedAsLeft(j)'
  BY <1>2, FailedKept
<1> QED BY <1>1, <1>3 DEF LifeInv

\* The runs and their parts go on as they were, or are gone.
LEMMA LifeGoesOn ==
  ASSUME Inv, LifeInv, SyncsGoOn, \A i \in Instances : sync'[i].back \subseteq sync[i].back,
         \A d \in Decisions : Stays(d) \/ Proposed(d) \/ Turned(d),
         \/ \A j \in Instances : part'[j].pc = "ready"
         \/ /\ run'.direction = run.direction /\ part' = part
            /\ \A d \in Decisions : Stays(d) \/ Proposed(d)
  PROVE  LifeInv'
<1>1. \A j \in Instances : SettlesSent(j)'
  BY SettlesKept
<1>2. CASE \A j \in Instances : part'[j].pc = "ready"
  BY <1>1, <1>2 DEF LifeInv, FailedAsLeft
<1>3. CASE /\ run'.direction = run.direction /\ part' = part
           /\ \A d \in Decisions : Stays(d) \/ Proposed(d)
  <2>1. \A j \in Instances : part'[j].pc = "failed" => part'[j] = part[j] /\ Stays(part[j].move)
    <3> SUFFICES ASSUME NEW j \in Instances, part'[j].pc = "failed" PROVE Stays(part[j].move)
      BY <1>3
    <3>1. Known(part[j].move)
      BY <1>3, InHandOfPart
    <3> QED BY <1>3, <3>1 DEF Known, Proposed
  <2> QED BY <1>1, <1>3, <2>1, FailedKept DEF LifeInv
<1> QED BY <1>2, <1>3


\* A move sent and not ended is the run's, in the run's direction.
LEMMA SentUnderway ==
  ASSUME Inv, SeenInv, NEW i \in Instances, part[i].pc \in InHandPCs
  PROVE  Underway(part[i].move)
BY DEF Inv, SafeInv, InHandIsRequested, SeenInv, PartSeen, InHandPCs, Underway

\* What a run fails, no settle that undoes it has in its rows.
LEMMA FailedInNoBack ==
  ASSUME SeenInv, NEW d \in Decisions, run.direction = "forward", AsLoaded(d) \/ Underway(d)
  PROVE  \A j \in Instances : d \notin sync[j].back
BY DEF SeenInv, SyncSeen, AsLoaded, Underway

\* A move underway ends made, or undone.
LEMMA MadeLives ==
  ASSUME Inv, NEW d \in Decisions, Underway(d), \A e \in Decisions : e # d => Stays(e), SameMove(d), puts' = puts,
         decision'[d].status = (IF run.direction = "forward" THEN "applied" ELSE "skipped")
  PROVE  LifeStep /\ Turned(d)
<1>1. run.direction \in Directions
  BY DEF Inv, TypeOK, RunTyped, Run
<1>2. Turned(d)
  BY DEF Turned
<1>3. LifeOf(d)' \in Life!Outcomes(LifeOf(d))
  <2>1. CASE run.direction = "forward"
    <3>1. LifeOf(d) = "sent" /\ LifeOf(d)' = "made"
      BY <2>1, LifeMeans, LifeMeansNext DEF Underway
    <3> QED BY <3>1, OutcomesMean
  <2>2. CASE run.direction = "revert"
    <3>1. LifeOf(d) = "recalled" /\ LifeOf(d)' = "undone"
      BY <2>2, LifeMeans, LifeMeansNext DEF Underway
    <3> QED BY <3>1, OutcomesMean
  <2> QED BY <1>1, <2>1, <2>2 DEF Directions
<1> QED BY <1>2, <1>3, LifeSettles

\* A move fails, sent or not.
LEMMA FailedLives ==
  ASSUME Inv, SeenInv, NEW d \in Decisions, AsLoaded(d) \/ Underway(d), decision' = Failed(d, run.direction), puts' = puts
  PROVE  LifeStep /\ Turned(d) /\ \A e \in Decisions : e # d => Stays(e)
<1>1. FailedNow(d, run.direction) /\ \A e \in Decisions : e # d => Stays(e)
  BY FailedMeans
<1>2. run.direction \in Directions
  BY DEF Inv, TypeOK, RunTyped, Run
<1>3. Turned(d)
  BY <1>1, <1>2, FailedInNoBack DEF Turned, FailedNow, Directions
<1>4. CASE run.direction = "forward" /\ AsLoaded(d)
  <2>1. decision[d].status = "pending" /\ decision'[d].status = "failed"
    BY <1>1, <1>4 DEF AsLoaded, FailedNow
  <2>2. PICK ds : ds = {d}
    OBVIOUS
  <2>3. /\ ds \in SUBSET Decisions /\ \A e \in Decisions \ ds : Stays(e)
        /\ \A e \in ds : decision[e].status = "pending" /\ decision'[e].status = "failed"
    BY <1>1, <2>1, <2>2
  <2>4. LifeStep
    BY <2>3, LifeGivesUp
  <2> QED BY <1>1, <1>3, <2>4
<1>5. CASE run.direction = "forward" /\ Underway(d)
  <2>1. LifeOf(d) = "sent" /\ LifeOf(d)' = "failed"
    BY <1>1, <1>5, LifeMeans, LifeMeansNext DEF Underway, FailedNow
  <2>2. LifeOf(d)' \in Life!Outcomes(LifeOf(d))
    BY <2>1, OutcomesMean
  <2> QED BY <1>1, <1>3, <2>2, LifeSettles
<1>6. CASE run.direction = "revert"
  <2>1. LifeOf(d) \in {"made", "recalled"} /\ LifeOf(d)' = "made"
    BY <1>1, <1>6, LifeMeans, LifeMeansNext DEF AsLoaded, InPlace, Underway, FailedNow
  <2>2. LifeOf(d)' \in Life!Outcomes(LifeOf(d))
    BY <2>1, OutcomesMean
  <2> QED BY <1>1, <1>3, <2>2, LifeSettles
<1> QED BY <1>2, <1>4, <1>5, <1>6 DEF Directions

\* A move loaded is recorded and sent, once.
LEMMA RequestLives ==
  ASSUME Inv, SeenInv, NEW d \in Decisions, Known(d), AsLoaded(d),
         decision' = Requested(d, run.direction), puts' = puts \cup {PutOf(d)}
  PROVE  LifeStep /\ Turned(d) /\ \A e \in Decisions : e # d => Stays(e)
<1>1. /\ \A e \in Decisions : e # d => Stays(e)
      /\ SameMove(d) /\ decision'[d].status = "requested"
      /\ decision'[d].reverted = (run.direction = "revert" \/ decision[d].reverted)
  BY RequestedMeans
<1>2. run.direction \in Directions /\ run.files \in BOOLEAN
  BY DEF Inv, TypeOK, RunTyped, Run
<1>3. Turned(d)
  BY <1>1 DEF Turned
<1>4. PICK p : p = PutOf(d)
  OBVIOUS
<1>5. p \in Put /\ p.move = d
  BY <1>2, <1>4, TargetType DEF PutOf, Put, Inv, SafeInv
<1>6. lives' = [lives EXCEPT ![d] = LifeOf(d)'] /\ lives[d] = LifeOf(d)
  BY <1>1, OneLives DEF lives
<1>7. CASE run.direction = "forward"
  <2>1. decision[d].status = "pending" /\ ~decision[d].reverted
    BY <1>7 DEF AsLoaded, SeenInv, RowSeen
  <2>2. LifeOf(d) = "proposed" /\ LifeOf(d)' = "sent"
    BY <1>1, <1>7, <2>1, LifeMeans, LifeMeansNext
  <2>3. Life!Send(d, p)
    BY <1>4, <1>5, <1>6, <2>2 DEF Life!Send
  <2> QED BY <1>1, <1>3, <1>5, <2>3 DEF LifeStep, Life!Next
<1>8. CASE run.direction = "revert"
  <2>1. LifeOf(d) = "made" /\ LifeOf(d)' = "recalled"
    BY <1>1, <1>8, LifeMeans, LifeMeansNext DEF AsLoaded, InPlace
  <2>2. Life!Recall(d, p)
    BY <1>4, <1>5, <1>6, <2>1 DEF Life!Recall
  <2> QED BY <1>1, <1>3, <1>5, <2>2 DEF LifeStep, Life!Next
<1> QED BY <1>2, <1>7, <1>8 DEF Directions

LEMMA LifeKeptByParts ==
  ASSUME Inv, TypeOK', LoadedInv, SeenInv, LifeInv, NEW i \in Instances, PartStep(i)
  PROVE  LifeStep /\ LifeInv'
<1> USE DEF db, runVars, syncVars, arrVars, history, bounds
<1> DEFINE m == part[i].move
<1>1. part[i].pc # "ready" => m \in Decisions /\ Known(m) /\ InstanceOfMove(m) = i
  BY InHandOfPart DEF Known
<1>2. run.direction \in Directions
  BY DEF Inv, TypeOK, RunTyped, Run
<1>3. CASE FailBatch(i)
  <2>1. /\ UNCHANGED <<part, sync, puts>> /\ run'.direction = run.direction
        /\ part[i].pc = "ready" /\ ~part[i].begun
    BY <1>3 DEF FailBatch, Turn, Inv, TypeOK, RunTyped, Run
  <2>2. ASSUME NEW d \in QueueOf(i)
        PROVE  d \in Decisions /\ InstanceOfMove(d) = i /\ AsLoaded(d) /\ FailedNow(d, run.direction)
    <3>1. Known(d) /\ InstanceOfMove(d) = i
      BY DEF QueueOf, Inv, SafeInv, MovesKnown
    <3>2. AsLoaded(d)
      BY <2>1 DEF LoadedInv, NotBegun
    <3> QED BY <1>3, <3>1, <3>2, FailBatchMeans DEF Known
  <2>3. \A d \in Decisions \ QueueOf(i) : Stays(d)
    BY <1>3, FailBatchMeans
  <2>4. \A d \in QueueOf(i) : Turned(d)
    BY <1>2, <2>2, FailedInNoBack DEF Turned, FailedNow, Directions
  <2>5. LifeInv'
    BY <2>1, <2>2, <2>3, <2>4, LifeOfPart
  <2>6. CASE run.direction = "forward"
    <3>1. \A d \in QueueOf(i) : decision[d].status = "pending" /\ decision'[d].status = "failed"
      BY <2>2, <2>6 DEF AsLoaded, FailedNow
    <3>2. QueueOf(i) \in SUBSET Decisions
      BY <2>2
    <3> QED BY <2>1, <2>3, <2>5, <3>1, <3>2, LifeGivesUp
  <2>7. CASE run.direction = "revert"
    <3>1. ASSUME NEW d \in QueueOf(i) PROVE Stays(d)
      <4>1. AsLoaded(d) /\ FailedNow(d, run.direction) /\ d \in Decisions
        BY <2>2
      <4>2. decision[d].reverted \in BOOLEAN /\ decision'[d].reverted \in BOOLEAN
        BY <4>1 DEF Inv, TypeOK, DbTyped, DecisionRow
      <4>3. /\ SameMove(d) /\ decision[d].status = "applied" /\ ~decision[d].reverted
            /\ decision'[d].status = "applied" /\ ~decision'[d].reverted
        BY <2>7, <4>1 DEF AsLoaded, InPlace, FailedNow
      <4> QED BY <4>2, <4>3 DEF Stays
    <3> QED BY <2>1, <2>3, <2>5, <3>1, LifeStill
  <2> QED BY <1>2, <2>6, <2>7 DEF Directions
<1>4. CASE StopPart(i)
  <2>1. UNCHANGED <<part, decision, sync, puts>>
    BY <1>4 DEF StopPart
  <2>2. run'.direction = run.direction
    BY <1>4 DEF StopPart, Inv, TypeOK, RunTyped, Run
  <2> QED BY <2>1, <2>2, SameStays, SameGoOn, LifeStill, LifeGoesOn
<1>5. ASSUME NEW d \in Decisions, NEW verdict \in {"send", "retire", "leave"}, CheckMove(i, d, verdict)
      PROVE  LifeStep /\ LifeInv'
  <2>1. /\ run'.direction = run.direction
        /\ \A j \in Instances : j # i => part'[j] = part[j]
        /\ part'[i].pc \in {"ready", "checked"}
    BY <1>5, CheckMoveMeans
  <2>2. UNCHANGED <<sync, puts>> /\ \A e \in Decisions : Stays(e)
    BY <1>5, RetiredStays DEF CheckMove
  <2> QED BY <2>1, <2>2, LifeStill, LifeOfPart
<1>6. CASE RequestMove(i)
  <2>1. /\ part[i].pc = "checked" /\ decision' = Requested(m, run.direction)
        /\ part' = [part EXCEPT ![i].pc = "sent"] /\ puts' = puts \cup {PutOf(m)} /\ UNCHANGED <<run, sync>>
    BY <1>6 DEF RequestMove
  <2>2. AsLoaded(m)
    BY <2>1 DEF LoadedInv
  <2>3. LifeStep /\ Turned(m) /\ \A d \in Decisions : d # m => Stays(d)
    BY <1>1, <2>1, <2>2, RequestLives
  <2>4. part'[i].pc = "sent" /\ \A j \in Instances : j # i => part'[j] = part[j]
    BY <2>1, PartGoes
  <2>5. LifeInv'
    BY <1>1, <2>1, <2>3, <2>4, LifeOfPart
  <2> QED BY <2>3, <2>5
<1>7. ASSUME part[i].pc # "ready", UNCHANGED <<decision, run, sync, puts>>, NEW pc,
             part' = [part EXCEPT ![i].pc = pc], pc = "failed" => AsLoaded(m) \/ Underway(m)
      PROVE  LifeStep /\ LifeInv'
  <2>1. part'[i].pc = pc /\ part'[i].move = m /\ \A j \in Instances : j # i => part'[j] = part[j]
    BY <1>7, PartGoes
  <2>2. pc = "failed" => AsLoaded(part[i].move)' \/ Underway(part[i].move)'
    BY <1>7, <2>1 DEF AsLoaded, InPlace, Underway
  <2> QED BY <1>7, <2>1, <2>2, SameStays, LifeStill, LifeOfPart
<1>8. CASE RequestRefused(i)
  <2>1. /\ part[i].pc = "checked" /\ UNCHANGED <<decision, run, sync, puts>>
        /\ part' = [part EXCEPT ![i].pc = "failed"]
    BY <1>8 DEF RequestRefused
  <2>2. AsLoaded(m)
    BY <2>1 DEF LoadedInv
  <2> QED BY <1>7, <2>1, <2>2
<1>9. ASSUME part[i].pc \in InHandPCs, UNCHANGED <<decision, run, sync, puts>>, NEW pc,
             part' = [part EXCEPT ![i].pc = pc]
      PROVE  LifeStep /\ LifeInv'
  BY <1>7, <1>9, SentUnderway DEF InHandPCs
<1>10. CASE AnswerTimedOut(i) \/ RecordSent(i) \/ FollowCommands(i) \/ \E answered \in BOOLEAN : ReadBack(i, answered)
  <2>1. part[i].pc \in InHandPCs /\ UNCHANGED <<decision, run, sync, puts>>
    BY <1>10 DEF AnswerTimedOut, RecordSent, FollowCommands, ReadBack, InHandPCs
  <2>2. \E pc : part' = [part EXCEPT ![i].pc = pc]
    BY <1>10 DEF AnswerTimedOut, RecordSent, FollowCommands, ReadBack
  <2> QED BY <1>9, <2>1, <2>2
<1>11. ASSUME UNCHANGED <<decision, sync, puts>>, run'.direction = run.direction, part'[i].pc # "failed",
              \A j \in Instances : j # i => part'[j] = part[j]
       PROVE  LifeStep /\ LifeInv'
  BY <1>11, SameStays, LifeStill, LifeOfPart
<1>12. CASE \E answered \in BOOLEAN : FollowTitle(i, answered)
  <2>1. UNCHANGED <<decision, run, sync, puts>>
    BY <1>12 DEF FollowTitle
  <2>2. part'[i].pc \in {"read", "following"} /\ \A j \in Instances : j # i => part'[j] = part[j]
    BY <1>12 DEF FollowTitle, Inv, TypeOK, RunTyped, Part
  <2> QED BY <1>11, <2>1, <2>2
<1>13. CASE FollowStopped(i)
  <2>1. UNCHANGED <<decision, sync, puts>> /\ part' = [part EXCEPT ![i] = [Ready EXCEPT !.begun = TRUE]]
    BY <1>13 DEF FollowStopped
  <2>2. run'.direction = run.direction
    BY <1>13 DEF FollowStopped, Inv, TypeOK, RunTyped, Run
  <2> QED BY <1>11, <2>1, <2>2, PartNext
<1>14. ASSUME part[i].pc # "ready", UNCHANGED <<sync, puts>>, NEW outcome, NextMove(i, outcome),
              \A d \in Decisions : d # m => Stays(d), Turned(m), LifeStep
       PROVE  LifeInv'
  <2>1. /\ part'[i].pc = "ready" /\ run'.direction = run.direction
        /\ \A j \in Instances : j # i => part'[j] = part[j]
    BY <1>14, NextMoveMeans
  <2> QED BY <1>1, <1>14, <2>1, LifeOfPart
<1>15. CASE RecordSuccess(i)
  <2>1. /\ part[i].pc = "taken" /\ decision' = Made(m, run.direction) /\ NextMove(i, "done")
        /\ UNCHANGED <<sync, puts>>
    BY <1>15 DEF RecordSuccess
  <2>2. /\ \A d \in Decisions : d # m => Stays(d)
        /\ SameMove(m)
        /\ decision'[m].status = (IF run.direction = "forward" THEN "applied" ELSE "skipped")
    BY <1>1, <1>2, <2>1, MadeMeans
  <2>3. Underway(m)
    BY <2>1, SentUnderway DEF InHandPCs
  <2> QED BY <1>1, <1>14, <2>1, <2>2, <2>3, MadeLives
<1>16. CASE RecordFollowed(i)
  <2>1. /\ part[i].pc = "read" /\ UNCHANGED <<sync, puts>> /\ \E outcome : NextMove(i, outcome)
        /\ decision' = Confirmed(m, run.direction) \/ decision' = Failed(m, run.direction)
    BY <1>16 DEF RecordFollowed
  <2>2. Underway(m)
    BY <2>1, SentUnderway DEF InHandPCs
  <2>3. CASE decision' = Confirmed(m, run.direction)
    <3>1. decision[m].status = "requested"
      BY <2>2 DEF Underway
    <3>2. /\ \A d \in Decisions : d # m => Stays(d)
          /\ SameMove(m)
          /\ decision'[m].status = (IF run.direction = "forward" THEN "applied" ELSE "skipped")
      BY <1>1, <2>1, <2>3, <3>1, ConfirmedMeans
    <3> QED BY <1>1, <1>14, <2>1, <2>2, <3>2, MadeLives
  <2>4. CASE decision' = Failed(m, run.direction)
    BY <1>1, <1>14, <2>1, <2>2, <2>4, FailedLives
  <2> QED BY <2>1, <2>3, <2>4
<1>17. CASE RecordFailure(i)
  <2>1. /\ part[i].pc = "failed" /\ UNCHANGED <<sync, puts>> /\ NextMove(i, "failed")
        /\ decision' = Failed(m, run.direction)
    BY <1>17 DEF RecordFailure
  <2>2. AsLoaded(m) \/ Underway(m)
    BY <2>1 DEF LifeInv, FailedAsLeft
  <2> QED BY <1>1, <1>14, <2>1, <2>2, FailedLives
<1>18. CASE RecordLost(i)
  <2>1. UNCHANGED <<decision, sync, puts>>
    BY <1>18 DEF RecordLost
  <2>2. \/ part[i].pc = "taken" /\ part' = [part EXCEPT ![i].pc = "following"] /\ run' = run
        \/ \E outcome : NextMove(i, outcome)
    BY <1>18 DEF RecordLost
  <2>3. CASE part[i].pc = "taken" /\ part' = [part EXCEPT ![i].pc = "following"] /\ run' = run
    BY <1>9, <2>1, <2>3 DEF InHandPCs
  <2>4. CASE \E outcome : NextMove(i, outcome)
    BY <1>11, <2>1, <2>4, NextMoveMeans
  <2> QED BY <2>2, <2>3, <2>4
<1> QED BY <1>3, <1>4, <1>5, <1>6, <1>8, <1>10, <1>12, <1>13, <1>15, <1>16, <1>17, <1>18 DEF PartStep


\* A settle writes a decision of its own instance, sent already.
LEMMA SettleLives ==
  ASSUME Inv, SeenInv, LifeInv, NEW i \in Instances, NEW d \in Decisions, ~Open(d), InstanceOfMove(d) = i, puts' = puts,
         \/ decision' = Failed(d, SettleDirection(i, d))
         \/ decision' = Confirmed(d, SettleDirection(i, d))
  PROVE  LifeStep /\ \A e \in Decisions : Stays(e) \/ Turned(e)
<1> DEFINE direction == SettleDirection(i, d)
<1>1. /\ direction \in Directions
      /\ direction = "revert" => d \in sync[i].back /\ decision[d].status # "failed"
      /\ direction = "forward" => d \notin sync[i].back
  BY DEF SettleDirection, Directions, LifeInv, SettlesSent
<1>2. /\ decision[d].status \in Statuses /\ decision[d].reverted \in BOOLEAN
      /\ d \in sync[i].back /\ decision[d].status = "requested" => decision[d].reverted
  BY DEF Inv, TypeOK, DbTyped, DecisionRow, SeenInv, SyncSeen
<1>3. \A j \in Instances : j # i => d \notin sync[j].back
  BY DEF LifeInv, SettlesSent
<1>4. CASE decision' = Failed(d, direction)
  <2>1. FailedNow(d, direction) /\ \A e \in Decisions : e # d => Stays(e)
    BY <1>4, FailedMeans
  <2>2. Turned(d)
    BY <1>1, <1>3, <2>1 DEF Turned, FailedNow, Directions
  <2>3. CASE direction = "forward"
    <3>1. LifeOf(d)' = "failed"
      BY <2>1, <2>3, LifeMeansNext DEF FailedNow
    <3>2. LifeOf(d) \in {"sent", "recalled", "made", "undone", "failed"}
      BY <1>2, LifeMeans DEF Open, Statuses
    <3>3. LifeOf(d)' \in Life!Outcomes(LifeOf(d)) \/ LifeOf(d)' = LifeOf(d)
      BY <3>1, <3>2, OutcomesMean
    <3> QED BY <2>1, <2>2, <3>3, LifeSettles
  <2>4. CASE direction = "revert"
    <3>1. LifeOf(d)' = "made"
      BY <2>1, <2>4, LifeMeansNext DEF FailedNow
    <3>2. LifeOf(d) \in {"recalled", "made", "undone"}
      BY <1>1, <1>2, <2>4, LifeMeans DEF Open, Statuses
    <3>3. LifeOf(d)' \in Life!Outcomes(LifeOf(d)) \/ LifeOf(d)' = LifeOf(d)
      BY <3>1, <3>2, OutcomesMean
    <3> QED BY <2>1, <2>2, <3>3, LifeSettles
  <2> QED BY <1>1, <2>3, <2>4 DEF Directions
<1>5. CASE decision' = Confirmed(d, direction)
  <2>1. /\ \A e \in Decisions : e # d => Stays(e)
        /\ decision[d].status # "requested" => Stays(d)
        /\ SameMove(d) /\ decision'[d].reverted = decision[d].reverted
        /\ decision[d].status = "requested" =>
             decision'[d].status = (IF direction = "forward" THEN "applied" ELSE "skipped")
    BY <1>5, ConfirmedMeans
  <2>2. CASE decision[d].status # "requested"
    BY <2>1, <2>2, LifeStill
  <2>3. CASE decision[d].status = "requested"
    <3>1. Turned(d)
      BY <2>1, <2>3 DEF Turned
    <3>2. CASE direction = "forward"
      <4>1. LifeOf(d) \in {"sent", "recalled"} /\ LifeOf(d)' = "made"
        BY <1>2, <2>1, <2>3, <3>2, LifeMeans, LifeMeansNext
      <4>2. LifeOf(d)' \in Life!Outcomes(LifeOf(d))
        BY <4>1, OutcomesMean
      <4> QED BY <2>1, <3>1, <4>2, LifeSettles
    <3>3. CASE direction = "revert"
      <4>1. LifeOf(d) = "recalled" /\ LifeOf(d)' = "undone"
        BY <1>1, <1>2, <2>1, <2>3, <3>3, LifeMeans, LifeMeansNext
      <4>2. LifeOf(d)' \in Life!Outcomes(LifeOf(d))
        BY <4>1, OutcomesMean
      <4> QED BY <2>1, <3>1, <4>2, LifeSettles
    <3> QED BY <1>1, <3>2, <3>3 DEF Directions
  <2> QED BY <2>2, <2>3
<1> QED BY <1>4, <1>5

LEMMA LifeKeptBySyncs ==
  ASSUME Inv, SeenInv, LifeInv, NEW i \in Instances, SyncStep(i)
  PROVE  LifeStep /\ LifeInv'
<1> USE DEF db, runVars, syncVars, arrVars, history, bounds
<1>1. sync[i] \in Sync /\ sync \in [Instances -> Sync]
  BY DEF Inv, TypeOK, SyncTyped
<1>2. ASSUME UNCHANGED <<part, run, puts>>, NEW left, sync' = [sync EXCEPT ![i] = left],
             left.back \subseteq sync[i].back, left.rows \subseteq sync[i].rows,
             left.pc \notin {"settling", "held"}, \A d \in Decisions : Stays(d)
      PROVE  LifeStep /\ LifeInv'
  <2>1. sync'[i] = left /\ \A j \in Instances : j # i => sync'[j] = sync[j]
    BY <1>1, <1>2
  <2>2. SyncsGoOn /\ \A j \in Instances : sync'[j].back \subseteq sync[j].back
    BY <1>2, <2>1 DEF SyncsGoOn, Settling
  <2> QED BY <1>2, <2>2, LifeStill, LifeGoesOn
<1>3. NoSync.back = {} /\ NoSync.rows = {} /\ NoSync.pc = "idle"
  BY DEF NoSync
<1>4. CASE SyncBegin(i)
  <2>1. PICK left : left = [sync[i] EXCEPT !.pc = "begun"]
    OBVIOUS
  <2>2. left.back = sync[i].back /\ left.rows = sync[i].rows /\ left.pc = "begun"
    BY <1>1, <2>1 DEF Sync
  <2>3. sync' = [sync EXCEPT ![i] = left] /\ UNCHANGED <<part, run, puts, decision>>
    BY <1>4, <2>1 DEF SyncBegin
  <2> QED BY <1>2, <2>2, <2>3, SameStays
<1>5. CASE SyncRead(i)
  <2>1. PICK snap : sync' = [sync EXCEPT ![i] = [sync[i] EXCEPT !.pc = "read", !.snap = snap]]
    BY <1>1, <1>5 DEF SyncRead
  <2>2. PICK left : left = [sync[i] EXCEPT !.pc = "read", !.snap = snap]
    OBVIOUS
  <2>3. left.back = sync[i].back /\ left.rows = sync[i].rows /\ left.pc = "read"
    BY <1>1, <2>2 DEF Sync
  <2>4. UNCHANGED <<part, run, puts, decision>>
    BY <1>5 DEF SyncRead
  <2> QED BY <1>2, <2>1, <2>2, <2>3, <2>4, SameStays
<1>6. CASE SyncFail(i) \/ SettleSkip(i) \/ SettleEnd(i)
  <2>1. UNCHANGED <<part, run, puts, decision>> /\ sync' = [sync EXCEPT ![i] = NoSync]
    BY <1>6 DEF SyncFail, SettleSkip, SettleEnd
  <2> QED BY <1>2, <1>3, <2>1, SameStays
<1>7. CASE \E cleanup \in BOOLEAN : SyncWrite(i, cleanup)
  <2>1. UNCHANGED <<part, run, puts>> /\ \E ids : decision' = Retired(ids)
    BY <1>7 DEF SyncWrite
  <2>2. PICK left : left = [NoSync EXCEPT !.pc = "written"]
    OBVIOUS
  <2>3. sync' = [sync EXCEPT ![i] = left]
    BY <1>7, <2>2 DEF SyncWrite
  <2>4. left.back = {} /\ left.rows = {} /\ left.pc = "written"
    BY <2>2 DEF NoSync
  <2> QED BY <1>2, <2>1, <2>3, <2>4, RetiredStays
<1>8. CASE SettleRead(i)
  <2>1. UNCHANGED <<part, run, puts, decision>>
    BY <1>8 DEF SettleRead
  <2>2. /\ \A j \in Instances : j # i => sync'[j] = sync[j]
        /\ sync'[i].pc # "held" /\ sync'[i].rows \subseteq LeftRequested(i) /\ sync'[i].back \subseteq LeftRequested(i)
    BY <1>1, <1>8 DEF SettleRead, NoSync
  <2>3. ASSUME NEW j \in Instances PROVE FailedAsLeft(j)' /\ SettlesSent(j)'
    <3>1. FailedAsLeft(j)'
      BY <2>1 DEF LifeInv, FailedAsLeft, AsLoaded, InPlace, Underway
    <3>2. CASE j = i
      BY <2>1, <2>2, <3>1, <3>2 DEF SettlesSent, LeftRequested, Open, InstanceOfMove
    <3>3. CASE j # i
      BY <2>1, <2>2, <3>1, <3>3 DEF LifeInv, SettlesSent, Open, InstanceOfMove
    <3> QED BY <3>2, <3>3
  <2> QED BY <2>1, <2>3, SameStays, LifeStill DEF LifeInv
<1>9. ASSUME puts' = puts, part' = part, run' = run, \A j \in Instances : part[j].pc = "ready", LifeStep,
             \A d \in Decisions : Stays(d) \/ Turned(d), SyncsGoOn,
             \A j \in Instances : sync'[j].back \subseteq sync[j].back
      PROVE  LifeStep /\ LifeInv'
  BY <1>9, LifeGoesOn
<1>10. ASSUME \A j \in Instances : j # i => sync'[j] = sync[j], sync'[i].back = sync[i].back,
              sync'[i].rows \subseteq sync[i].rows, Settling(i),
              sync'[i].pc = "held" => sync'[i].move \in sync[i].rows
       PROVE  SyncsGoOn /\ \A j \in Instances : sync'[j].back \subseteq sync[j].back
  BY <1>10 DEF SyncsGoOn, Settling
<1>11. CASE SettleLock(i)
  <2>1. PICK running, ended : sync' = [sync EXCEPT ![i] =
            [sync[i] EXCEPT !.pc = "settling", !.running = running, !.ended = ended]]
    BY <1>1, <1>11 DEF SettleLock
  <2>2. PICK left : left = [sync[i] EXCEPT !.pc = "settling", !.running = running, !.ended = ended]
    OBVIOUS
  <2>3. left.back = sync[i].back /\ left.rows = sync[i].rows /\ left.pc = "settling"
    BY <1>1, <2>2 DEF Sync
  <2>4. UNCHANGED <<part, run, puts, decision>>
    BY <1>11 DEF SettleLock
  <2>5. sync'[i] = left /\ \A j \in Instances : j # i => sync'[j] = sync[j]
    BY <1>1, <2>1, <2>2
  <2>6. ASSUME NEW j \in Instances PROVE FailedAsLeft(j)' /\ SettlesSent(j)'
    <3>1. FailedAsLeft(j)'
      BY <2>4 DEF LifeInv, FailedAsLeft, AsLoaded, InPlace, Underway
    <3>2. CASE j = i
      BY <2>3, <2>4, <2>5, <3>1, <3>2 DEF LifeInv, SettlesSent, Open, InstanceOfMove
    <3>3. CASE j # i
      BY <2>4, <2>5, <3>1, <3>3 DEF LifeInv, SettlesSent, Open, InstanceOfMove
    <3> QED BY <3>2, <3>3
  <2> QED BY <2>4, <2>6, SameStays, LifeStill DEF LifeInv
<1>12. CASE SettleUnread(i)
  <2>1. PICK left : left = [sync[i] EXCEPT !.pc = "settling", !.move = None, !.held = None]
    OBVIOUS
  <2>2. left.back = sync[i].back /\ left.rows = sync[i].rows /\ left.pc = "settling"
    BY <1>1, <2>1 DEF Sync
  <2>3. UNCHANGED <<part, run, puts, decision>> /\ sync' = [sync EXCEPT ![i] = left] /\ Settling(i)
    BY <1>12, <2>1 DEF SettleUnread, Settling
  <2>4. sync'[i] = left /\ \A j \in Instances : j # i => sync'[j] = sync[j]
    BY <1>1, <2>3
  <2>5. SyncsGoOn /\ \A j \in Instances : sync'[j].back \subseteq sync[j].back
    BY <1>10, <2>2, <2>3, <2>4
  <2> QED BY <2>3, <2>5, SameStays, LifeStill, LifeGoesOn
<1>13. ASSUME NEW d \in Decisions, SettlePick(i, d) PROVE LifeStep /\ LifeInv'
  <2>1. sync[i].pc = "settling" /\ d \in sync[i].rows /\ UNCHANGED <<puts, part, run>> /\ Settling(i)
    BY <1>13 DEF SettlePick, Settling
  <2>2. ~Open(d) /\ InstanceOfMove(d) = i /\ \A j \in Instances : part[j].pc = "ready"
    BY <2>1, NothingInHand DEF LifeInv, SettlesSent, Inv, SafeInv
  <2>3. LifeStep /\ \A e \in Decisions : Stays(e) \/ Turned(e)
    <3>1. CASE decision' = decision
      BY <2>1, <3>1, SameStays, LifeStill
    <3>2. CASE decision' = Failed(d, SettleDirection(i, d))
      BY <2>1, <2>2, <3>2, SettleLives
    <3> QED BY <1>13, <3>1, <3>2 DEF SettlePick
  <2>4. PICK left : left = [sync[i] EXCEPT !.rows = sync[i].rows \ {d}]
    OBVIOUS
  <2>5. left.back = sync[i].back /\ left.pc = "settling" /\ left.rows = sync[i].rows \ {d} /\ left \in Sync
    BY <1>1, <2>1, <2>4 DEF Sync
  <2>6. PICK held : \/ sync' = [sync EXCEPT ![i] = left]
                    \/ sync' = [sync EXCEPT ![i] = [left EXCEPT !.pc = "held", !.move = d, !.held = held]]
    BY <1>13, <2>4 DEF SettlePick
  <2>7. /\ \A j \in Instances : j # i => sync'[j] = sync[j]
        /\ sync'[i].back = sync[i].back /\ sync'[i].rows \subseteq sync[i].rows
        /\ sync'[i].pc = "held" => sync'[i].move = d
    <3>1. CASE sync' = [sync EXCEPT ![i] = left]
      BY <1>1, <2>1, <2>5, <3>1
    <3>2. CASE sync' = [sync EXCEPT ![i] = [left EXCEPT !.pc = "held", !.move = d, !.held = held]]
      <4>1. PICK taken : taken = [left EXCEPT !.pc = "held", !.move = d, !.held = held]
        OBVIOUS
      <4>2. taken.back = left.back /\ taken.rows = left.rows /\ taken.move = d
        BY <2>5, <4>1 DEF Sync
      <4>3. sync'[i] = taken /\ \A j \in Instances : j # i => sync'[j] = sync[j]
        BY <1>1, <3>2, <4>1
      <4> QED BY <2>5, <4>2, <4>3
    <3> QED BY <2>6, <3>1, <3>2
  <2> QED BY <1>9, <1>10, <2>1, <2>2, <2>3, <2>7
<1>14. CASE SettleRecord(i)
  <2>1. PICK d : d = sync[i].move
    OBVIOUS
  <2>2. /\ sync[i].pc = "held" /\ UNCHANGED <<puts, part, run>> /\ Settling(i)
        /\ sync' = [sync EXCEPT ![i] = [sync[i] EXCEPT !.pc = "settling", !.move = None, !.held = None]]
        /\ \/ decision' = Confirmed(d, SettleDirection(i, d))
           \/ decision' = Failed(d, SettleDirection(i, d))
    BY <1>14, <2>1 DEF SettleRecord, Settling
  <2>3. ~Open(d) /\ InstanceOfMove(d) = i /\ d \in Decisions /\ \A j \in Instances : part[j].pc = "ready"
    BY <2>1, <2>2, NothingInHand DEF LifeInv, SettlesSent, Inv, SafeInv, MovesKnown, Known
  <2>4. LifeStep /\ \A e \in Decisions : Stays(e) \/ Turned(e)
    BY <2>2, <2>3, SettleLives
  <2>5. /\ \A j \in Instances : j # i => sync'[j] = sync[j]
        /\ sync'[i].back = sync[i].back /\ sync'[i].rows = sync[i].rows /\ sync'[i].pc = "settling"
    BY <1>1, <2>2 DEF Sync
  <2> QED BY <1>9, <1>10, <2>2, <2>3, <2>4, <2>5
<1> QED BY <1>4, <1>5, <1>6, <1>7, <1>8, <1>11, <1>12, <1>13, <1>14 DEF SyncStep

\* Every step of the executor is a step of the lives, or none.
LEMMA LifeKept ==
  ASSUME Inv, TypeOK', LoadedInv, SeenInv, LifeInv, [Next]_vars
  PROVE  LifeStep /\ LifeInv'
<1> USE DEF db, runVars, syncVars, arrVars, history, bounds
<1>1. ASSUME UNCHANGED <<sync, puts, part>>, run'.direction = run.direction, \A d \in Decisions : Stays(d)
      PROVE  LifeStep /\ LifeInv'
  BY <1>1, SameGoOn, LifeStill, LifeGoesOn
<1>2. ASSUME puts' = puts, \A j \in Instances : part'[j].pc = "ready", \A d \in Decisions : Stays(d),
             sync' = sync \/ sync' = [j \in Instances |-> NoSync]
      PROVE  LifeStep /\ LifeInv'
  <2>1. SyncsGoOn /\ \A j \in Instances : sync'[j].back \subseteq sync[j].back
    BY <1>2, SameGoOn DEF SyncsGoOn, NoSync
  <2> QED BY <1>2, <2>1, LifeStill, LifeGoesOn
<1>3. CASE Simulate
  <2>1. UNCHANGED <<run, part, sync, puts>>
    BY <1>3 DEF Simulate, SimulationRead, SimulationStored
  <2>2. CASE \E t \in Titles, to \in Folders : SimulationRead(t, to)
    BY <1>1, <2>1, <2>2, SameStays DEF SimulationRead
  <2>3. ASSUME NEW s \in sim, NEW d \in Decisions, SimulationStored(s, d)
        PROVE  LifeStep /\ LifeInv'
    <3>1. (\A e \in Decisions : e # d => Stays(e)) /\ (Stays(d) \/ Proposed(d))
      BY <2>3, StoredMeans DEF Proposed
    <3>2. LifeStep
      BY <2>1, <3>1, LifeProposes, LifeStill
    <3> QED BY <2>1, <3>1, <3>2, SameGoOn, LifeGoesOn
  <2> QED BY <1>3, <2>2, <2>3 DEF Simulate
<1>4. CASE Operator
  <2>1. CASE StartSome
    BY <1>2, <2>1, SameStays DEF StartSome, StartRun, Ready
  <2>2. CASE Cancel \/ \E on \in BOOLEAN : SetDryRun(on)
    BY <1>1, <2>2, SameStays DEF Cancel, SetDryRun
  <2> QED BY <1>4, <2>1, <2>2 DEF Operator
<1>5. CASE RunStep
  <2>1. CASE StopSlices \/ LoadFailed
    <3>1. run'.direction = run.direction /\ UNCHANGED <<part, sync, puts, decision>>
      BY <2>1 DEF StopSlices, LoadFailed, Inv, TypeOK, RunTyped, Run
    <3> QED BY <1>1, <3>1, SameStays
  <2>2. ASSUME NEW batch \in SUBSET Decisions, NEW stale \in SUBSET Decisions,
               NEW retired \in SUBSET Decisions, LoadSlice(batch, stale, retired)
        PROVE  LifeStep /\ LifeInv'
    <3>1. UNCHANGED <<sync, puts>> /\ decision' = Retired(retired) /\ part' = [i \in Instances |-> Ready]
      BY <2>2 DEF LoadSlice
    <3> QED BY <1>2, <3>1, RetiredStays DEF Ready
  <2>3. CASE FinishRun
    BY <1>2, <2>3, SameStays DEF FinishRun, Ready
  <2> QED BY <1>5, <2>1, <2>2, <2>3 DEF RunStep
<1>6. CASE \E i \in Instances : PartStep(i)
  BY <1>6, LifeKeptByParts
<1>7. CASE \E i \in Instances : SyncStep(i)
  BY <1>7, LifeKeptBySyncs
<1>8. CASE ArrStep
  <2>1. ASSUME NEW p \in puts, NEW answered \in BOOLEAN, ArrTake(p, answered) \/ ArrDrop(p, answered)
        PROVE  LifeStep /\ LifeInv'
    <3>1. UNCHANGED <<run, decision, sync>> /\ puts' = puts \ {p}
      BY <2>1 DEF ArrTake, ArrDrop
    <3>2. PICK pc \in {"taken", "failed", "unanswered"} : part' = Answered(p, pc)
      BY <2>1 DEF ArrTake, ArrDrop
    <3>3. ASSUME NEW j \in Instances, part'[j].pc = "failed"
          PROVE  \/ part'[j] = part[j] /\ Stays(part[j].move)
                 \/ AsLoaded(part[j].move)' \/ Underway(part[j].move)'
      <4>1. CASE j \notin WaitingFor(p)
        <5>1. part'[j] = part[j]
          BY <3>2, <4>1, AnsweredMeans
        <5>2. part[j].move \in Decisions
          BY <3>3, <5>1, InHandOfPart DEF Known
        <5> QED BY <3>1, <5>1, <5>2, SameStays
      <4>2. CASE j \in WaitingFor(p)
        <5>1. part'[j].move = part[j].move
          BY <3>2, <4>2, AnsweredMeans
        <5>2. Underway(part[j].move)
          BY <4>2, SentUnderway DEF WaitingFor, InHandPCs
        <5> QED BY <3>1, <5>1, <5>2 DEF Underway
      <4> QED BY <4>1, <4>2
    <3>4. \A j \in Instances : FailedAsLeft(j)'
      BY <3>1, <3>3, FailedKept
    <3>5. \A j \in Instances : SettlesSent(j)'
      BY <3>1, SameStays, SameGoOn, SettlesKept
    <3> QED BY <3>1, <3>4, <3>5, LifeArrives DEF LifeInv
  <2>2. ASSUME UNCHANGED <<run, part, sync, puts, decision>> PROVE LifeStep /\ LifeInv'
    BY <1>1, <2>2, SameStays
  <2> QED BY <1>8, <2>1, <2>2 DEF ArrStep, CommandEnd, CommandForget, HandMove
<1>9. CASE Crash
  BY <1>2, <1>9, SameStays DEF Crash, Ready
<1>10. CASE UNCHANGED vars
  BY <1>1, <1>10, SameStays DEF vars
<1> QED BY <1>3, <1>4, <1>5, <1>6, <1>7, <1>8, <1>9, <1>10 DEF Next

LEMMA LifeInit == Init => Life!Init /\ LifeInv
<1> SUFFICES ASSUME Init PROVE Life!Init /\ LifeInv
  OBVIOUS
<1>1. /\ \A i \in Instances : part[i] = Ready /\ sync[i] = NoSync
      /\ \A d \in Decisions : decision[d] = Absent
      /\ puts = {}
  BY DEF Init
<1>2. \A d \in Decisions : LifeOf(d) = "none"
  BY <1>1, LifeMeans DEF Absent
<1>3. Life!Init
  BY <1>1, <1>2 DEF Life!Init, lives
<1>4. LifeInv
  BY <1>1 DEF LifeInv, FailedAsLeft, SettlesSent, Ready, NoSync
<1> QED BY <1>3, <1>4

\* A decision is sent once at most, from the proposal it is, and called back only
\* when it was made; what failed or was undone is never sent again, and a PUT
\* leaves in the step that records it, through crashes, lost answers and settles
\* that read their rows too early (record_requested, load_candidates, REVERTIBLE).
THEOREM ImplementsLifecycle == Spec => LivesAsPromised
<1>1. Init => QueueOfRun /\ LatestInv /\ LoadedInv /\ SeenInv
  BY InitMoves
<1>2. Inv /\ QueueOfRun /\ LatestInv /\ [Next]_vars => QueueOfRun' /\ LatestInv'
  BY LatestKept
<1>3. Inv /\ QueueOfRun /\ LoadedInv /\ [Next]_vars => LoadedInv'
  BY LoadedKept
<1>4. Inv /\ LoadedInv /\ LoadedInv' /\ SeenInv /\ [Next]_vars => SeenInv'
  BY SeenKept
<1>5. Init => Life!Init /\ LifeInv
  BY LifeInit
<1>6. Inv /\ Inv' /\ LoadedInv /\ SeenInv /\ LifeInv /\ [Next]_vars => LifeInv' /\ [Life!Next]_<<lives, puts>>
  BY LifeKept DEF Inv, LifeStep
<1> QED BY <1>1, <1>2, <1>3, <1>4, <1>5, <1>6, Invariance, PTL DEF Spec, LivesAsPromised, Life!Spec
=============================================================================
