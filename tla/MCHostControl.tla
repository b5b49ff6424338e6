--------------------------- MODULE MCHostControl ---------------------------
(* Finite instances of HostControl: three revisions, the third of which has
   another quest corpus. *)
EXTENDS HostControl

CONSTANTS r1, r2, r3

ThreeReleases == {r1, r2, r3}
TwoCorpora    == [r \in ThreeReleases |-> IF r = r3 THEN "new" ELSE "old"]

\* r1 and r2 are alike, so HEAD need not begin at r2 as well: of two behaviours
\* that differ by the exchange of r1 and r2 one is checked.
InitUpToExchange     == Init /\ head \in {r1, r3}
FairSpecUpToExchange == InitUpToExchange /\ [][Next]_vars /\ Fairness
=============================================================================
