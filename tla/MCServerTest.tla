---------------------------- MODULE MCServerTest ----------------------------
(* ServerTest with two runs in one or two checkouts.                         *)
EXTENDS ServerTest, TLC

\* Reviewed, and ways of not being so.
SomePacks ==
  {Reviewed} \cup {[Reviewed EXCEPT !.mods = kind] : kind \in {"unlocked", "other", "compat"}}
             \cup {[Reviewed EXCEPT !.config = "jdt"], [Reviewed EXCEPT !.code = "other"],
                   [Reviewed EXCEPT !.data = "seal"]}

SomeDrafts == {Reviewed, [Reviewed EXCEPT !.config = "tuned"]}

Symmetry == Permutations(Runs) \cup Permutations(Checkouts)
=============================================================================
