----------------------------- MODULE MCRestore -----------------------------
(***************************************************************************)
(* Instances of Restore for TLC: an archive of another installation, with  *)
(* its keys, one of this installation that carries no master key (taken    *)
(* while ROUTARR_SECRET_KEY held it), and one of the other installation    *)
(* that carries none either.                                               *)
(***************************************************************************)
EXTENDS Restore

CONSTANTS whole, bare, foreign, home, other, fresh

OnlyWhole == {whole}
Some == {whole, bare}
Every == {whole, bare, foreign}
ThreeKeys == {home, other, fresh}
SealedBy == [a \in Archives |-> IF a = bare THEN home ELSE other]
=============================================================================
