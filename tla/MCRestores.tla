----------------------------- MODULE MCRestores -----------------------------
(***************************************************************************)
(* Two instances of Restore for one run of TLC, each with variables of its *)
(* own: one of what the running server stages, the names of this module,   *)
(* and one where `routarr restore` stages as well, where an archive of     *)
(* another installation may be rejected, and where the server goes on.     *)
(* Each is checked alone: `staged` says which, and the other stays as it   *)
(* begins.                                                                 *)
(***************************************************************************)
EXTENDS MCRestore

VARIABLES
  staged,
  files1, files2, files3, files4, note1, pc1, task1, discarding1, deleting1, changing1,
  served1, word1, stale1, copies1, crashes1, rejects1, words1

\* Neither carries a key; only the first opens with the one in place.
Keyless == {bare, foreign}

Anywhere == INSTANCE Restore WITH
  Archives <- Keyless, KeyOf <- [a \in Keyless |-> IF a = bare THEN home ELSE other],
  ArrSealed <- Keyless,
  ApiKeyMode <- TRUE, Offline <- TRUE, MaxRejects <- 1, MaxWords <- 0,
  live <- files1, kept <- files2, staging <- files3, pending <- files4, note <- note1,
  pc <- pc1, task <- task1, discarding <- discarding1, deleting <- deleting1,
  changing <- changing1, served <- served1, word <- word1, stale <- stale1,
  copies <- copies1, crashes <- crashes1, rejects <- rejects1, words <- words1

ofAnywhere ==
  <<files1, files2, files3, files4, note1, pc1, task1, discarding1, deleting1, changing1,
    served1, word1, stale1, copies1, crashes1, rejects1, words1>>

(* The one that sleeps begins on a host that never started. *)
InitRestores ==
  /\ staged \in {"by the server", "anywhere"}
  /\ Init /\ (staged = "anywhere" => copies = 0)
  /\ Anywhere!Init /\ (staged = "by the server" => copies1 = 0)

NextRestores ==
  \/ staged = "by the server" /\ Next /\ UNCHANGED <<staged, ofAnywhere>>
  \/ staged = "anywhere" /\ Anywhere!Next /\ UNCHANGED <<staged, vars>>

(* The fairness of FairSpec, for the second.                               *)
InAnywhere(step) == staged = "anywhere" /\ step /\ UNCHANGED <<staged, vars>>

FairRestores ==
  /\ InitRestores /\ [][NextRestores]_<<staged, vars, ofAnywhere>>
  /\ SF_ofAnywhere(InAnywhere(Anywhere!SweepLeftovers))
  /\ WF_ofAnywhere(InAnywhere(Anywhere!Start))
  /\ WF_ofAnywhere(InAnywhere(Anywhere!StageStep))
  /\ WF_ofAnywhere(InAnywhere(Anywhere!DiscardNext))

-----------------------------------------------------------------------------
(* The state of each is what its files can be.                             *)
TypesOK == TypeOK /\ Anywhere!TypeOK

(* A database set aside leaves its place empty only until some start       *)
(* (backup/mod.rs apply_pending_restore).                                             *)
PlaceFilled ==
  (staged = "anywhere" /\ ~Anywhere!Exists(files1.db)) ~> Anywhere!Exists(files1.db)
=============================================================================
