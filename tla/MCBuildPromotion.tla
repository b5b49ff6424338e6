-------------------------- MODULE MCBuildPromotion --------------------------
(* Finite instances of BuildPromotion. *)
EXTENDS BuildPromotion, TLC

\* The edits are only compared with each other.
EditSymmetry == Permutations(Edits)
=============================================================================
