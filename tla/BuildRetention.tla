--------------------------- MODULE BuildRetention ---------------------------
(***************************************************************************)
(* The retention store of QuestBuildTransaction, seen from one target over *)
(* many builds. Nothing is unlinked: an artifact that is done with moves   *)
(* to the store, and a later build of the same target claims a retained    *)
(* file and replaces it by the file it authors. The store may hold         *)
(* MaxRetained files of a target, or every further build of it is refused. *)
(***************************************************************************)
EXTENDS Naturals

CONSTANTS
  MaxRetained,  \* _MAX_RETAINED_FILES_PER_TARGET: 2 in the code
  WritesFail    \* a file may fail to be written, or to replace the claimed
                \* one, as on a full disk

ASSUME RetentionBounds == MaxRetained \in Nat /\ MaxRetained >= 2 /\ WritesFail \in BOOLEAN

VARIABLES
  public,  \* whether the target's public file is there
  kept,    \* how many retained files the store holds for the target
  place,   \* where each artifact of the last build is
  op,      \* what the running build does with the target
  role,    \* the artifact that is being authored
  pc
vars == <<public, kept, place, op, role, pc>>

Exists == public = "present"

Roles == {"stage", "recovery", "claimed", "delete"}
Leftover == {"authoring", "beside"}

\* Every variable keeps its type.
RTypeOK == /\ public \in {"present", "absent"} /\ kept \in Nat
           /\ place \in [Roles -> {"none"} \union Leftover]
           /\ op \in {"replace", "create", "delete"} /\ role \in {"stage", "recovery"}
           /\ pc \in {"idle", "claim", "write", "retire", "publish", "promote",
                      "validate", "clean"}

Init == /\ public \in {"present", "absent"} /\ kept = 0 /\ place = [r \in Roles |-> "none"]
        /\ op = "replace" /\ role = "stage" /\ pc = "idle"

Put(r, p) == place' = [place EXCEPT ![r] = p]

\* The files a build wants are authored in the owner's authoring directory; a
\* new file needs a recovery copy too.
Begin ==
  /\ pc = "idle" /\ \A r \in Roles : place[r] # "beside"
  /\ \/ /\ \A r \in Roles : place[r] # "authoring"
        /\ op' = (IF Exists THEN "replace" ELSE "create")
        /\ role' = "stage" /\ pc' = "claim"
     \/ Exists /\ kept < MaxRetained /\ op' = "delete" /\ pc' = "promote" /\ UNCHANGED role
  /\ UNCHANGED <<public, kept, place>>

\* _claim_retained_file: one retained file moves to the authoring directory. The
\* listing, its authentication or the rename may fail, with nothing moved, and
\* fails when the store is over its bound.
\* (Mutants: a retained file stays; only the stage claims one.)
ClaimNone == UNCHANGED <<kept, place>> /\ pc' = "write"

TakeOne == kept' = kept - 1 /\ Put("claimed", "authoring")

ClaimForStage == IF kept = 0 \/ role = "recovery" THEN ClaimNone
                 ELSE TakeOne /\ pc' = "write"

Claim == \/ pc' = "clean" /\ UNCHANGED <<kept, place>>
         \/ kept = 0 /\ ClaimNone
         \/ kept \in 1..MaxRetained /\ TakeOne /\ pc' \in {"write", "clean"}

ClaimRetained == pc = "claim" /\ Claim /\ UNCHANGED <<public, op, role>>

Write == /\ pc = "write" /\ Put(role, "authoring")
         /\ \/ pc' = "retire"
            \/ WritesFail /\ pc' = "clean"
         /\ UNCHANGED <<public, kept, op, role>>

\* os.replace puts the authored file over the claimed one.
Retire == /\ pc = "retire"
          /\ \/ Put("claimed", "none") /\ pc' = "publish"
             \/ WritesFail /\ UNCHANGED place /\ pc' = "clean"
          /\ UNCHANGED <<public, kept, op, role>>

\* A no-replace rename to a private name beside the target, or its failure.
Publish ==
  /\ pc = "publish"
  /\ \/ /\ Put(role, "beside")
        /\ IF op = "create" /\ role = "stage"
           THEN role' = "recovery" /\ pc' = "claim"
           ELSE pc' = "promote" /\ UNCHANGED role
     \/ pc' = "clean" /\ UNCHANGED <<place, role>>
  /\ UNCHANGED <<public, kept, op>>

\* The target's rename, or an error before it. A replaced file is at the stage
\* name afterwards.
Promote ==
  /\ pc = "promote"
  /\ \/ /\ pc' = "validate"
        /\ \/ op = "replace" /\ UNCHANGED <<place, public>>
           \/ op = "create" /\ Put("stage", "none") /\ public' = "present"
           \/ op = "delete" /\ Put("delete", "beside") /\ public' = "absent"
     \/ pc' = "clean" /\ UNCHANGED <<place, public>>
  /\ UNCHANGED <<kept, op, role>>

\* The checks after it pass, or the rename is reversed; a replaced target's
\* stage then holds the new file.
Validate ==
  /\ pc = "validate" /\ pc' = "clean"
  /\ \/ UNCHANGED <<place, public>>
     \/ op = "create" /\ Put("stage", "beside") /\ public' = "absent"
     \/ op = "delete" /\ Put("delete", "none") /\ public' = "present"
  /\ UNCHANGED <<kept, op, role>>

Own == IF op = "delete" THEN {"delete"} ELSE Roles \ {"delete"}

\* _cleanup_private_artifact of every artifact of this build; one that cannot
\* be moved is reported and stays.
Clean == /\ pc = "clean"
         /\ \E r \in Own : /\ place[r] \in Leftover /\ Put(r, "none")
                           /\ kept' = kept + 1
         /\ UNCHANGED <<public, op, role, pc>>

End == /\ pc = "clean" /\ pc' = "idle"
       /\ UNCHANGED <<public, kept, place, op, role>>

Crash == /\ pc # "idle" /\ pc' = "idle" /\ UNCHANGED <<public, kept, place, op, role>>

\* The operator resolves a reported artifact, which blocks the next build: it
\* goes away, or a file set aside for deletion goes back.
Resolve(r) == /\ pc = "idle" /\ place[r] \in Leftover /\ Put(r, "none")
              /\ \/ UNCHANGED public
                 \/ r = "delete" /\ public' = "present"
              /\ UNCHANGED <<kept, op, role, pc>>

Next == \/ Begin \/ ClaimRetained \/ Write \/ Retire \/ Publish \/ Promote \/ Validate
        \/ Clean \/ End \/ Crash \/ \E r \in Roles : Resolve(r)

Spec == Init /\ [][Next]_vars

-----------------------------------------------------------------------------
(* What the store promises.                                                *)

\* The store never holds more of a target than the bound: one file more, and
\* every build of the target is refused from then on.
RetentionBounded == kept <= MaxRetained

\* A target that is there and has nothing unresolved can be deleted by the next
\* build: the deletion is not refused for want of a place to retain the file.
Deletable == pc = "idle" /\ Exists /\ (\A r \in Roles : place[r] = "none")
               => kept < MaxRetained
=============================================================================
