------------------------------ MODULE MCTasks --------------------------------
(***************************************************************************)
(* Instances for TLC of the tasks that must end: the locks they wait for   *)
(* (JobLocks, whose names are this module's own), their rows (JobRows),    *)
(* the moves an apply left requested (Executor), the deliveries of an      *)
(* Arr's webhook (Deliveries), the work after a sync (AfterSync) and the   *)
(* notifications (Notifications). Each is checked alone: `task` says       *)
(* which, and the variables of the others stay as they begin.              *)
(***************************************************************************)
EXTENDS JobLocks, Sequences

CONSTANTS a, b, p, q, i

VARIABLES
  task,
  \* Executor
  decision, after, row, lock, run, part, sync, kept, sim, stop, dryRun, arr, commands, puts,
  seen, unseen, overrun, runs, stops, hands, faults,
  \* Deliveries
  held, rows, instance, delivery, waiting, hooked, syncing, fullSync, events, switches, missed,
  shadowed,
  \* Notifications
  said, attempts, turns, address, secrets, sending, received, edited,
  \* AfterSync
  auto, syncer, write, chain, pass, loaded, errors, asked, flips, restarts,
  \* JobRows
  jobRow, handle, told, retries, cancels, up, refusals, stopped

X == INSTANCE Executor WITH
  Instances <- {i}, Titles <- {p}, InstanceOf <- [t \in {p} |-> i], Folders <- {a, b},
  Decisions <- {q}, BatchLimit <- 1, FileMoves <- BOOLEAN, Slicing <- {FALSE},
  MaxRuns <- 1, MaxStops <- 0, MaxHand <- 0, MaxFaults <- 1, MaxListed <- 1

D == INSTANCE Deliveries WITH
  Titles <- {a}, Deliveries <- {p, q}, MaxWaiting <- 1, MaxEvents <- 2, MaxSwitches <- 1,
  line <- waiting, sync <- fullSync

N == INSTANCE Notifications WITH
  Events <- {p, q}, MaxPending <- 2, Retries <- 1, Addresses <- {a, b}, MaxEdits <- 2

A == INSTANCE AfterSync WITH
  Syncers <- {"tick", "asker"}, Tick <- "tick", MaxErrors <- 1, MaxPasses <- 1,
  MaxSwitches <- 1, MaxRestarts <- 1,
  sync <- syncer, lock <- pass, passes <- asked, switches <- flips

J == INSTANCE JobRows WITH
  Jobs <- {p}, Outcomes <- {"success", "cancelled", "failed"}, MaxRefusals <- 2,
  MaxRestarts <- 1,
  row <- jobRow, holder <- handle, restarts <- stopped

ASSUME
  /\ D!SomeoneWaits /\ D!NoneHoldsNothing
  /\ N!SomePending /\ N!SomeRetries
  /\ A!TheTickSyncs
  /\ J!FailedIsAnOutcome

-----------------------------------------------------------------------------
ofLocks == <<permits, queue, ahead, given, running>>
ofExecutor ==
  <<decision, after, row, lock, run, part, sync, kept, sim, stop, dryRun, arr, commands, puts,
    seen, unseen, overrun, runs, stops, hands, faults>>
ofDeliveries ==
  <<held, rows, instance, delivery, waiting, hooked, syncing, fullSync, events, switches, missed,
    shadowed>>
ofNotifications == <<said, attempts, turns, address, secrets, sending, received, edited>>
ofAfterSync ==
  <<auto, syncer, write, chain, pass, loaded, errors, asked, flips, restarts>>
ofRows == <<jobRow, handle, told, retries, cancels, up, refusals, stopped>>
ofAll == <<task, ofLocks, ofExecutor, ofDeliveries, ofNotifications, ofAfterSync, ofRows>>

(* The tasks that do not run begin in one state. *)
InitTasks ==
  /\ task \in {"locks", "executor", "deliveries", "notifications", "after a sync", "rows"}
  /\ Init
  /\ X!Init /\ (task # "executor" => arr[p] = a)
  /\ D!Init /\ (task # "deliveries" => held = {})
  /\ N!Init /\ (task # "notifications" => address = a)
  /\ A!Init /\ (task # "after a sync" => auto)
  /\ J!Init

(* A step of one module, which leaves the others alone. *)
InLocks(step) ==
  /\ task = "locks" /\ step
  /\ UNCHANGED <<task, ofExecutor, ofDeliveries, ofNotifications, ofAfterSync, ofRows>>
InExecutor(step) ==
  /\ task = "executor" /\ step
  /\ UNCHANGED <<task, ofLocks, ofDeliveries, ofNotifications, ofAfterSync, ofRows>>
InDeliveries(step) ==
  /\ task = "deliveries" /\ step
  /\ UNCHANGED <<task, ofLocks, ofExecutor, ofNotifications, ofAfterSync, ofRows>>
InNotifications(step) ==
  /\ task = "notifications" /\ step
  /\ UNCHANGED <<task, ofLocks, ofExecutor, ofDeliveries, ofAfterSync, ofRows>>
InAfterSync(step) ==
  /\ task = "after a sync" /\ step
  /\ UNCHANGED <<task, ofLocks, ofExecutor, ofDeliveries, ofNotifications, ofRows>>
InRows(step) ==
  /\ task = "rows" /\ step
  /\ UNCHANGED <<task, ofLocks, ofExecutor, ofDeliveries, ofNotifications, ofAfterSync>>

NextTasks ==
  \/ InLocks(Next) \/ InExecutor(X!Next) \/ InDeliveries(D!Next)
  \/ InNotifications(N!Next) \/ InAfterSync(A!Next) \/ InRows(J!Next)

(* The fairness of each module for the task that runs: one task does in a  *)
(* behaviour, so that the conditions of several can be one.                *)
Fair ==
  /\ WF_ofAll(\/ InExecutor(X!RunStep)
              \/ InDeliveries(D!DeliveryStep(p))
              \/ InNotifications(N!EventStep(p))
              \/ InAfterSync(A!TickSyncs)
              \/ InRows(J!TaskSteps))
  /\ WF_ofAll(\/ InExecutor(X!PartStep(i))
              \/ InDeliveries(D!DeliveryStep(q))
              \/ InNotifications(N!EventStep(q))
              \/ InAfterSync(A!ChainSteps)
              \/ InRows(J!Recovers))
  /\ WF_ofAll(\/ InExecutor(X!SyncStep(i))
              \/ InDeliveries(D!SyncEnds)
              \/ InNotifications(N!AttemptEnds)
              \/ InAfterSync(A!Answers))
  /\ WF_ofAll(\/ InExecutor(X!CommandEnds(p))
              \/ InDeliveries(D!RemovalEnds))
  /\ SF_ofExecutor(InExecutor(X!FollowStopped(i)))
  /\ SF_ofExecutor(InExecutor(X!SyncRead(i)))
  /\ SF_ofExecutor(InExecutor(\E cleanup \in BOOLEAN : X!SyncWrite(i, cleanup)))
  /\ SF_ofExecutor(InExecutor(X!SettleLock(i)))
  /\ SF_ofExecutor(InExecutor(X!SettleRecord(i)))

FairTasks == InitTasks /\ [][NextTasks]_ofAll /\ Fair

-----------------------------------------------------------------------------
(* The state of each is what its code can hold. *)
TypesOK ==
  /\ TypeOK
  /\ D!TypeOK /\ N!TypeOK /\ A!TypeOK /\ J!TypeOK

(* A move left requested is settled in the end (executor/follow.rs). *)
RequestedIsSettled == X!RequestedIsSettled

(* Once its deliveries are over the rows are the titles the Arr has, but   *)
(* for events dropped and deletions left to a sync (api/webhook.rs).  *)
QuietRowsAreTheArrs == D!QuietRowsAreTheArrs

(* A delivery ends, whatever locks it waits for (api/webhook.rs). *)
DeliveryEnds == D!DeliveryEnds

(* An event being tried again is not overtaken (services/notify.rs). *)
NoneOvertakesARetry == N!NoneOvertakesARetry

(* Every event is delivered or given up (services/notify.rs). *)
EveryEventEnds == N!EveryEventEnds

(* What a sync wrote reaches proposals in the end (jobs/scheduler.rs). *)
EverySyncFollowed == A!EverySyncFollowed

(* A job that told its outcome does not stay running (jobs/registry.rs). *)
JobRowEnds == J!JobRowEnds
=============================================================================
