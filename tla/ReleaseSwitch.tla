--------------------------- MODULE ReleaseSwitch ---------------------------
(***************************************************************************)
(* What a protected quest update promises the players: the server offers   *)
(* one release or the other, never anything between them; what players     *)
(* have earned is part of the server's data at every moment; and a switch  *)
(* that is begun ends by committing the candidate or by going back to the  *)
(* prior release, in both cases with that progress.                        *)
(***************************************************************************)
EXTENDS Naturals

CONSTANTS Prior, Candidate, MaxProgress

VARIABLES
  mode,      \* "serving", "draining" (begun, players may still be in), "switching"
  release,   \* the release the server goes back to if it stopped now
  progress   \* the progress its data would have then

vars == <<mode, release, progress>>

TypeOK == /\ mode \in {"serving", "draining", "switching"}
          /\ release \in {Prior, Candidate}
          /\ progress \in 0..MaxProgress

Init == mode = "serving" /\ release = Prior /\ progress = 0

\* A player earns one unit of progress, never behind the closed switch.
Play == /\ mode # "switching" /\ progress < MaxProgress
        /\ progress' = progress + 1 /\ UNCHANGED <<mode, release>>

\* The switch is announced; from then on the prior release can be restored.
Begin == /\ mode = "serving" /\ release = Prior
         /\ mode' = "draining" /\ UNCHANGED <<release, progress>>

\* The first change of the protected data.
Enter == mode = "draining" /\ mode' = "switching" /\ UNCHANGED <<release, progress>>

Commit == /\ mode = "switching" 
          /\ mode' = "serving" /\ release' = Candidate /\ UNCHANGED progress

Abort == /\ mode # "serving"
         /\ mode' = "serving" /\ UNCHANGED <<release, progress>>

Next == Play \/ Begin \/ Enter \/ Commit \/ Abort

Spec == Init /\ [][Next]_vars
=============================================================================
