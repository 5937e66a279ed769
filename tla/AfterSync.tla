------------------------------ MODULE AfterSync ------------------------------
(***************************************************************************)
(* What follows a full sync (jobs/scheduler.rs: follow_sync,               *)
(* spawn_post_sync, reap, reap_within, tick): the rule tests, the          *)
(* enrichment, the simulation and the automatic moves, as one chain for    *)
(* which there is one slot. A sync that ends beside a running chain starts *)
(* none: the next sync is to pick up what it wrote.                        *)
(*                                                                         *)
(* One write of one sync is followed: it is unread until a simulation of   *)
(* the whole library that loaded it has stored its proposals.              *)
(***************************************************************************)
EXTENDS Naturals

CONSTANTS
  Syncers,   \* the scheduler's tick, and whoever asks for a sync
  Tick,      \* the one of them that comes back for ever
  MaxErrors, \* syncs and simulations that fail
  MaxPasses, \* stored simulations asked for from the interface
  MaxSwitches, MaxRestarts

TheTickSyncs == Tick \in Syncers

VARIABLES
  auto,     \* auto_simulate_enabled
  sync,     \* what each syncer is at
  write,    \* the write followed: "none", "unread" or "read"
  chain,    \* the slot: where the chain it holds is
  lock,     \* who holds FULL_SIMULATION
  loaded,   \* whether each simulation under way loaded the write
  errors, passes, switches, restarts

vars == <<auto, sync, write, chain, lock, loaded, errors, passes, switches, restarts>>

Phases == {"tests", "enriching", "waiting", "holding", "loaded", "applying"}
Over == {"empty", "finished", "panicked"}
Free == "free"

Bounds == <<errors, passes, switches, restarts>>

Errs ==
  /\ errors < MaxErrors
  /\ errors' = errors + 1
  /\ UNCHANGED <<passes, switches, restarts>>

-----------------------------------------------------------------------------
Starts(s) ==
  /\ sync[s] = "idle"
  /\ sync' = [sync EXCEPT ![s] = "reading"]
  /\ UNCHANGED <<auto, write, chain, lock, loaded, Bounds>>

(* What a sync writes is followed, or is not. *)
Written == write' \in {write} \cup (IF write = "none" THEN {"unread"} ELSE {})

Ends(s) ==
  /\ sync[s] = "reading"
  /\ Written
  /\ sync' = [sync EXCEPT ![s] = "written"]
  /\ UNCHANGED <<auto, chain, lock, loaded, Bounds>>

(* A sync that fails may have written, and nothing follows it. *)
Fails(s) ==
  /\ sync[s] = "reading"
  /\ Errs
  /\ Written
  /\ sync' = [sync EXCEPT ![s] = "idle"]
  /\ UNCHANGED <<auto, chain, lock, loaded>>

(* Mutant: a finished chain is not reaped, and keeps its slot. *)
FollowUnreaped(s) ==
  /\ sync[s] = "written"
  /\ sync' = [sync EXCEPT ![s] = "idle"]
  /\ chain' = IF chain = "empty" THEN "tests" ELSE chain
  /\ UNCHANGED <<auto, write, lock, loaded, Bounds>>

(* follow_sync, the slot locked: a finished chain is reaped, a running one *)
(* left to run.                                                            *)
Follow(s) ==
  /\ sync[s] = "written"
  /\ sync' = [sync EXCEPT ![s] = "idle"]
  /\ chain' = IF chain \in Over THEN "tests" ELSE chain
  /\ UNCHANGED <<auto, write, lock, loaded, Bounds>>

-----------------------------------------------------------------------------
(* The chain. An error of the tests or of the enrichment is logged only. *)
ChainGoes(from, to) ==
  /\ chain = from
  /\ chain' = to
  /\ UNCHANGED <<auto, sync, write, Bounds>>

Tested == ChainGoes("tests", "enriching") /\ UNCHANGED <<lock, loaded>>
Enriched ==
  /\ ChainGoes("enriching", IF auto THEN "waiting" ELSE "finished")
  /\ UNCHANGED <<lock, loaded>>
TakesPass ==
  /\ lock = Free
  /\ lock' = "chain"
  /\ ChainGoes("waiting", "holding")
  /\ UNCHANGED loaded
(* SIMULATION_WAIT passes while another holds it. *)
SkipsPass ==
  /\ lock \notin {Free, "chain"}
  /\ ChainGoes("waiting", "finished")
  /\ UNCHANGED <<lock, loaded>>

Loads(who) == loaded' = [loaded EXCEPT ![who] = write # "none"]
Stores(who) ==
  /\ write' = IF loaded[who] THEN "read" ELSE write
  /\ loaded' = [loaded EXCEPT ![who] = FALSE]
  /\ lock' = Free

ChainLoads ==
  /\ ChainGoes("holding", "loaded")
  /\ Loads("chain")
  /\ UNCHANGED lock
ChainStores ==
  /\ chain = "loaded"
  /\ chain' = "applying"
  /\ Stores("chain")
  /\ UNCHANGED <<auto, sync, Bounds>>
Applied == ChainGoes("applying", "finished") /\ UNCHANGED <<lock, loaded>>

(* Mutant: a chain that fails leaves the lock taken. *)
ChainFailsHolding ==
  /\ chain \in Phases
  /\ Errs
  /\ chain' \in {"panicked"} \cup (IF chain \in {"holding", "loaded"} THEN {"finished"} ELSE {})
  /\ loaded' = [loaded EXCEPT !["chain"] = FALSE]
  /\ UNCHANGED <<auto, sync, write, lock>>

(* A simulation that fails ends the chain, as a panic anywhere in it does: *)
(* the lock goes with the task.                                            *)
ChainFails ==
  /\ chain \in Phases
  /\ Errs
  /\ chain' \in {"panicked"} \cup (IF chain \in {"holding", "loaded"} THEN {"finished"} ELSE {})
  /\ lock' = IF lock = "chain" THEN Free ELSE lock
  /\ loaded' = [loaded EXCEPT !["chain"] = FALSE]
  /\ UNCHANGED <<auto, sync, write>>

-----------------------------------------------------------------------------
(* A stored simulation asked for, of the library or of a part of it, which *)
(* is refused rather than kept waiting (api/simulation.rs simulate).       *)
Asks ==
  /\ lock = Free /\ chain # "waiting"
  /\ passes < MaxPasses
  /\ passes' = passes + 1
  /\ lock' = "asked"
  /\ \E whole \in BOOLEAN : loaded' = [loaded EXCEPT !["asked"] = whole /\ write # "none"]
  /\ UNCHANGED <<auto, sync, write, chain, errors, switches, restarts>>

Answers ==
  /\ lock = "asked"
  /\ Stores("asked")
  /\ UNCHANGED <<auto, sync, chain, Bounds>>

AnswersError ==
  /\ lock = "asked"
  /\ Errs
  /\ lock' = Free
  /\ loaded' = [loaded EXCEPT !["asked"] = FALSE]
  /\ UNCHANGED <<auto, sync, write, chain>>

Switch ==
  /\ switches < MaxSwitches
  /\ switches' = switches + 1
  /\ auto' = ~ auto
  /\ UNCHANGED <<sync, write, chain, lock, loaded, errors, passes, restarts>>

(* A stop waits for the chain, then aborts it: what memory held is gone.   *)
Restart ==
  /\ restarts < MaxRestarts
  /\ restarts' = restarts + 1
  /\ sync' = [s \in Syncers |-> "idle"]
  /\ chain' = "empty"
  /\ lock' = Free
  /\ loaded' = [w \in {"chain", "asked"} |-> FALSE]
  /\ UNCHANGED <<auto, write, errors, passes, switches>>

Init ==
  /\ auto \in BOOLEAN
  /\ sync = [s \in Syncers |-> "idle"]
  /\ write = "none"
  /\ chain = "empty"
  /\ lock = Free
  /\ loaded = [w \in {"chain", "asked"} |-> FALSE]
  /\ errors = 0 /\ passes = 0 /\ switches = 0 /\ restarts = 0

Syncs == \E s \in Syncers : Starts(s) \/ Ends(s) \/ Fails(s) \/ Follow(s)
ChainSteps ==
  \/ Tested \/ Enriched \/ TakesPass \/ SkipsPass \/ ChainLoads \/ ChainStores \/ Applied

Next ==
  \/ Syncs
  \/ ChainSteps \/ ChainFails
  \/ Asks \/ Answers \/ AnswersError
  \/ Switch \/ Restart

(* The tick comes back after every wait, and tasks the runtime polls end.  *)
TickSyncs == Starts(Tick) \/ Ends(Tick) \/ Follow(Tick)
FairSpec ==
  /\ Init /\ [][Next]_vars
  /\ WF_vars(TickSyncs) /\ WF_vars(ChainSteps) /\ WF_vars(Answers)

-----------------------------------------------------------------------------
TypeOK ==
  /\ auto \in BOOLEAN
  /\ sync \in [Syncers -> {"idle", "reading", "written"}]
  /\ write \in {"none", "unread", "read"}
  /\ chain \in Phases \cup Over
  /\ lock \in {Free, "chain", "asked"}
  /\ (lock = "chain") = (chain \in {"holding", "loaded"})
  /\ loaded \in [{"chain", "asked"} -> BOOLEAN]

(* What a sync wrote reaches proposals in the end, unless simulations are  *)
(* switched off: a chain already past its load, skipped, failed, panicked  *)
(* or lost in a restart leaves it to the next one, and never for ever.     *)
EverySyncFollowed == write = "unread" ~> (write = "read" \/ ~ auto)
=============================================================================
