----------------------------- MODULE MCArchives ------------------------------
(***************************************************************************)
(* Instances of Archives for TLC: one archive of before a migration among  *)
(* others, deleted and pruned by another count, or conversions that fail   *)
(* (Failing, on the same variables). `regime` says which.                  *)
(***************************************************************************)
EXTENDS Archives, TLC

CONSTANTS v, w

VARIABLE regime

OwnPreOwn == <<"own", "pre", "own">>

Failing == INSTANCE Archives WITH Keeps <- {1}, MaxDeleted <- 0, MaxFailures <- 1

ASSUME SomeOfEach /\ NoneIsNothing /\ Failing!SomeOfEach

InitArchives == regime \in {"deleted and pruned", "failing"} /\ Init /\ (regime = "failing" => keep = 1)

NextArchives ==
  /\ \/ regime = "deleted and pruned" /\ Next
     \/ regime = "failing" /\ Failing!Next
  /\ UNCHANGED regime

SpecArchives == InitArchives /\ [][NextArchives]_<<regime, vars>>

Alike == Permutations({v, w})
=============================================================================
