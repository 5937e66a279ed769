----------------------------- MODULE MCExecutor -----------------------------
(***************************************************************************)
(* Instances of Executor for TLC. Decision ids and folders are             *)
(* interchangeable, and so are the titles of one Arr.                      *)
(***************************************************************************)
EXTENDS Executor, TLC

CONSTANT i1

OneArr == [t \in Titles |-> i1]

Never == {FALSE}
Always == {TRUE}
EitherWay == BOOLEAN

(* Bound: a run more, or something that stops one.                         *)
RunsAndStops == runs + stops <= 3

Alike == Permutations(Decisions) \cup Permutations(Folders)
AlikeTitles == Alike \cup Permutations(Titles)
=============================================================================
