------------------------- MODULE MCReleasePromotion -------------------------
(* ReleasePromotion with a pack of two files of its own, the Signal mod, a     *)
(* server-only mod and a client mod with a CurseForge project.                 *)
EXTENDS ReleasePromotion, TLC

CONSTANTS options, shadow, signal, spark, jei

SomeSides == (signal :> "both") @@ (spark :> "server") @@ (jei :> "client")
\* The pack carries a file where the installer puts jei.
SomePaths == (options :> 1) @@ (shadow :> 2) @@ (signal :> 3) @@ (spark :> 4) @@ (jei :> 2)

\* Every defect that changes what the archive of a sound commit carries.
SomeDefects ==
  [archive \in Archives |->
     {d \in Defects(archive) : d = Sound \/ Contents(archive, d, Tree("none")) # Contents(archive, Sound, Tree("none"))}]

\* The build of another pack, and one with a single other archive.
SomeReplacements ==
  {[Nominal EXCEPT !["modrinth"] = [kind |-> "altered", item |-> options],
                   !["curseforge"] = [kind |-> "altered", item |-> options]],
   [Nominal EXCEPT !["prism"] = [kind |-> "altered", item |-> "bootstrap"]]}
=============================================================================
