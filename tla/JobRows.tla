------------------------------ MODULE JobRows --------------------------------
(***************************************************************************)
(* The rows of the Tasks screen (jobs/registry.rs: start, stop, cancel,    *)
(* settle, fail, record_outcome, Drop of JobHandle, recover_orphans): a    *)
(* database that refuses a write now and then, a task that panics, a       *)
(* restart between an outcome and its row.                                 *)
(***************************************************************************)
EXTENDS Naturals

CONSTANTS
  Jobs,
  Outcomes,    \* what a holder may tell: success, cancelled, failed
  None,
  MaxRefusals, \* writes the database refuses
  MaxRestarts

Failed == "failed"

FailedIsAnOutcome == Failed \in Outcomes

VARIABLES
  row,     \* jobs.status
  holder,  \* the handle: "none", "live", "settling", "dropped", "gone"
  told,    \* ghost: the outcome the holder told
  retries, \* writes of record_outcome's task still to try
  cancels, \* the registry's cancel flags: the jobs that read one, and whether set
  up,      \* between a start and the stop that ends it
  refusals, restarts

vars == <<row, holder, told, retries, cancels, up, refusals, restarts>>

Running == "running"
NoFlag == "no flag"

Refuses == refusals < MaxRefusals /\ refusals' = refusals + 1

-----------------------------------------------------------------------------
Start(j) ==
  /\ up /\ holder[j] = "none"
  /\ \/ /\ row' = [row EXCEPT ![j] = Running]
        /\ holder' = [holder EXCEPT ![j] = "live"]
        /\ UNCHANGED refusals
     \/ /\ Refuses
        /\ holder' = [holder EXCEPT ![j] = "gone"]
        /\ UNCHANGED row
  /\ UNCHANGED <<told, retries, cancels, up, restarts>>

(* A run that moves titles reads a flag, and a caller may set it. *)
ReadsStop(j) ==
  /\ holder[j] = "live" /\ cancels[j] = NoFlag
  /\ cancels' = [cancels EXCEPT ![j] = "clear"]
  /\ UNCHANGED <<row, holder, told, retries, up, refusals, restarts>>
Cancel(j) ==
  /\ cancels[j] = "clear"
  /\ cancels' = [cancels EXCEPT ![j] = "set"]
  /\ UNCHANGED <<row, holder, told, retries, up, refusals, restarts>>

ForgetsCancel(j) == cancels' = [cancels EXCEPT ![j] = NoFlag]

(* settle and fail: the handle is marked first, then its row written. *)
Tells(j) ==
  /\ holder[j] = "live"
  /\ \E o \in Outcomes :
       /\ o = "cancelled" => cancels[j] = "set"
       /\ told' = [told EXCEPT ![j] = o]
  /\ holder' = [holder EXCEPT ![j] = "settling"]
  /\ ForgetsCancel(j)
  /\ UNCHANGED <<row, retries, up, refusals, restarts>>

Written(j) == row' = [row EXCEPT ![j] = told[j]]

(* Mutant: one more write, not two. *)
WritesTriedTwice(j) ==
  /\ holder[j] = "settling"
  /\ holder' = [holder EXCEPT ![j] = "gone"]
  /\ \/ Written(j) /\ UNCHANGED <<retries, refusals>>
     \/ /\ Refuses
        /\ retries' = [retries EXCEPT ![j] = 1]
        /\ UNCHANGED row
  /\ UNCHANGED <<told, cancels, up, restarts>>

(* record_outcome: one write, then two more on a task of its own. *)
Writes(j) ==
  /\ holder[j] = "settling"
  /\ holder' = [holder EXCEPT ![j] = "gone"]
  /\ \/ Written(j) /\ UNCHANGED <<retries, refusals>>
     \/ /\ Refuses
        /\ retries' = [retries EXCEPT ![j] = 2]
        /\ UNCHANGED row
  /\ UNCHANGED <<told, cancels, up, restarts>>

Retries(j) ==
  /\ retries[j] > 0
  /\ \/ /\ Written(j)
        /\ retries' = [retries EXCEPT ![j] = 0]
        /\ UNCHANGED refusals
     \/ /\ Refuses
        /\ retries' = [retries EXCEPT ![j] = @ - 1]
        /\ UNCHANGED row
  /\ UNCHANGED <<holder, told, cancels, up, restarts>>

(* A handle dropped untold, a panic of its task included. *)
Drops(j) ==
  /\ holder[j] = "live"
  /\ holder' = [holder EXCEPT ![j] = "dropped"]
  /\ ForgetsCancel(j)
  /\ UNCHANGED <<row, told, retries, up, refusals, restarts>>

(* The task of the drop writes once, over a row still running. *)
Buries(j) ==
  /\ holder[j] = "dropped"
  /\ holder' = [holder EXCEPT ![j] = "gone"]
  /\ \/ /\ row' = [row EXCEPT ![j] = IF @ = Running THEN Failed ELSE @]
        /\ UNCHANGED refusals
     \/ Refuses /\ UNCHANGED row
  /\ UNCHANGED <<told, retries, cancels, up, restarts>>

-----------------------------------------------------------------------------
(* The process ends with whatever its tasks had left to write. *)
Stops ==
  /\ up /\ restarts < MaxRestarts
  /\ restarts' = restarts + 1
  /\ up' = FALSE
  /\ holder' = [j \in Jobs |-> IF holder[j] = "none" THEN "none" ELSE "gone"]
  /\ retries' = [j \in Jobs |-> 0]
  /\ cancels' = [j \in Jobs |-> NoFlag]
  /\ UNCHANGED <<row, told, refusals>>

(* prepare: recover_orphans, without which nothing is served. *)
Recovers ==
  /\ ~ up
  /\ up' = TRUE
  /\ row' = [j \in Jobs |-> IF row[j] = Running THEN Failed ELSE row[j]]
  /\ UNCHANGED <<holder, told, retries, cancels, refusals, restarts>>

Init ==
  /\ row = [j \in Jobs |-> None]
  /\ holder = [j \in Jobs |-> "none"]
  /\ told = [j \in Jobs |-> None]
  /\ retries = [j \in Jobs |-> 0]
  /\ cancels = [j \in Jobs |-> NoFlag]
  /\ up = TRUE
  /\ refusals = 0 /\ restarts = 0

TaskSteps == \E j \in Jobs : Writes(j) \/ Retries(j) \/ Buries(j)

Next ==
  \/ \E j \in Jobs : Start(j) \/ ReadsStop(j) \/ Cancel(j) \/ Tells(j) \/ Drops(j)
  \/ TaskSteps
  \/ Stops \/ Recovers

FairSpec == Init /\ [][Next]_vars /\ WF_vars(TaskSteps) /\ WF_vars(Recovers)

-----------------------------------------------------------------------------
TypeOK ==
  /\ row \in [Jobs -> Outcomes \cup {Running, None}]
  /\ holder \in [Jobs -> {"none", "live", "settling", "dropped", "gone"}]
  /\ told \in [Jobs -> Outcomes \cup {None}]
  /\ retries \in [Jobs -> 0..2]
  /\ cancels \in [Jobs -> {NoFlag, "clear", "set"}]
  /\ up \in BOOLEAN

(* A job that told its outcome does not stay running: refused twice, the   *)
(* write is tried a third time, and a restart in between fails the row.    *)
JobRowEnds == \A j \in Jobs : told[j] # None ~> row[j] # Running
=============================================================================
