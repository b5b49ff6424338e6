--------------------------- MODULE BuildPromotion ---------------------------
(***************************************************************************)
(* QuestBuildTransaction.promote_bytes of tools/afterlight_quests: a build *)
(* replaces, creates and deletes several quest files, each by one atomic   *)
(* rename, while somebody edits the same files; when a step fails, what    *)
(* was promoted is taken back.                                             *)
(*                                                                         *)
(* Every file keeps its own private names next to it: the stage, which     *)
(* becomes the backup of a replaced file, the recovery copy of a created   *)
(* file, and the name a deleted file is set aside under.                   *)
(***************************************************************************)
EXTENDS Naturals

CONSTANTS
  N,              \* the targets 1..N, in the order they are promoted
  Edits,          \* what an editor may write, each once: bounds the edits
  MaxErrors,      \* bound on failing system calls
  MaxInterrupts,  \* bound on interrupts between a rename and its record
  Corrections     \* how often a reversal is corrected: 8 in the code

ASSUME PromotionBounds ==
  N \in Nat \ {0} /\ MaxErrors \in Nat /\ MaxInterrupts \in Nat /\ Corrections \in Nat

VARIABLES
  plan,       \* "write", "delete" or "keep": a target the build only reads
  file,       \* what each name of each target holds
  stored,     \* the artifacts moved to the retention store
  frozen,     \* the public files the build started from
  original,   \* the public files promote_bytes found
  expects,    \* what an artifact must hold; Nothing for one that is not present
  keep,       \* the artifacts marked retain
  phase,      \* the phase of each target's commit record
  pc, cur,    \* the next step, and the target it is about
  art,        \* the artifact that is being cleaned up
  seen,       \* what a check has read at the public and the private name, and,
              \* once a reversal was corrected, at the public name again
  want,       \* what a reversal must make public
  tries,      \* the corrections made so far
  rolling,    \* the error handler of promote_bytes runs
  reported,   \* the targets reported as unresolved
  warned,     \* an error or a warning is reported about a rollback or a cleanup
  outcome,    \* how the promotion ended
  left,       \* history: what the editor last left public
  used,       \* history: the edits so far
  faults      \* history: errors and interrupts so far

planVars  == <<plan, frozen, original>>
diskVars  == <<file, stored>>
artVars   == <<expects, keep>>
localVars == <<art, seen, want, tries>>
endVars   == <<reported, warned, outcome>>
editVars  == <<left, used>>
vars == <<planVars, diskVars, artVars, phase, pc, cur, localVars, rolling, endVars,
          editVars, faults>>

-----------------------------------------------------------------------------
Nothing  == "nothing"
Targets  == 1..N
Private  == {"stage", "recovery", "delete"}
Names    == {"public"} \union Private
Content  == {Nothing, "original", "new", "copy"} \union Edits
Untouched == "untouched"

\* An editor's contents are not the build's own.
ASSUME EditsAreNew == Edits \intersect {Nothing, "original", "new", "copy", Untouched} = {}

Phases == {"none", "pending", "promoted", "rollback-moved", "reverse-swapped",
           "correction-swapped", "rolled-back", "unresolved"}

Steps == {"author", "preflight", "swap", "read", "compare", "check", "validate",
          "recheck", "rollback", "unswap", "unread", "uncompare", "correct",
          "coread", "cocompare", "unmove", "unmoved", "uncreate", "uncreated",
          "clean", "clean-move", "clean-verify", "done"}

\* The targets, the files next to them, and the control.
TargetsOK ==
  /\ plan \in [Targets -> {"write", "delete", "keep"}]
  /\ frozen \in [Targets -> Content] /\ original \in [Targets -> Content]
  /\ phase \in [Targets -> Phases]
  /\ left \in [Targets -> Content \union {Untouched}] /\ used \subseteq Edits

ArtifactsOK ==
  /\ file \in [Targets \X Names -> Content]
  /\ expects \in [Targets \X Private -> Content]
  /\ stored \subseteq Targets \X Private /\ keep \subseteq Targets \X Private
  /\ art \in Targets \X Private

ControlOK ==
  /\ pc \in Steps /\ cur \in 0..N
  /\ seen \in [public: Content, private: Content, again: Content] /\ want \in Content
  /\ tries \in 0..Corrections /\ rolling \in BOOLEAN
  /\ reported \subseteq Targets /\ warned \in BOOLEAN
  /\ outcome \in {"running", "committed", "failed", "unresolved"}
  /\ faults \in [errors: 0..MaxErrors, interrupts: 0..MaxInterrupts]

PTypeOK == TargetsOK /\ ArtifactsOK /\ ControlOK

\* Writes are promoted before deletions. A file the build writes may be new.
Init ==
  /\ plan \in [Targets -> {"write", "delete", "keep"}]
  /\ \A t, u \in Targets : plan[t] = "delete" /\ plan[u] = "write" => u < t
  /\ frozen \in [Targets -> {Nothing, "original"}]
  /\ \A t \in Targets : plan[t] # "write" => frozen[t] = "original"
  /\ file = [a \in Targets \X Names |-> IF a[2] = "public" THEN frozen[a[1]] ELSE Nothing]
  /\ stored = {} /\ keep = {} /\ original = frozen
  /\ expects = [a \in Targets \X Private |-> Nothing]
  /\ phase = [t \in Targets |-> "none"]
  /\ pc = "author" /\ cur = 1 /\ art = <<1, "stage">>
  /\ seen = [public |-> Nothing, private |-> Nothing, again |-> Nothing]
  /\ want = Nothing /\ tries = 0
  /\ rolling = FALSE /\ reported = {} /\ warned = FALSE /\ outcome = "running"
  /\ left = [t \in Targets |-> Untouched] /\ used = {}
  /\ faults = [errors |-> 0, interrupts |-> 0]

-----------------------------------------------------------------------------
(* Renames, errors and where they lead.                                    *)

Public(t) == file[<<t, "public">>]

\* What a promoted target's public name holds.
Wanted(t) == CASE plan[t] = "write" -> "new"
               [] plan[t] = "delete" -> Nothing
               [] OTHER -> frozen[t]

Operation(t) == IF plan[t] = "delete" THEN "delete"
                ELSE IF original[t] = Nothing THEN "create" ELSE "replace"

\* The private name of an operation's rename.
Aside(t)  == IF plan[t] = "delete" THEN "delete" ELSE "stage"

Exchange(t) == file' = [file EXCEPT ![<<t, "public">>] = file[<<t, Aside(t)>>],
                                    ![<<t, Aside(t)>>] = file[<<t, "public">>]]
Rename(t, from, to) == file' = [file EXCEPT ![<<t, to>>] = file[<<t, from>>],
                                            ![<<t, from>>] = Nothing]

CountError == /\ faults.errors < MaxErrors
              /\ faults' = [faults EXCEPT !.errors = @ + 1]

\* The next step of the same target; of the next one, or of another pass over
\* them.
Goto(step)        == pc' = step /\ UNCHANGED <<cur, rolling>>

Pass(step, after) == /\ pc' = (IF cur = N THEN after ELSE step)
                     /\ cur' = (IF cur = N THEN 1 ELSE cur + 1) /\ UNCHANGED rolling

\* An error ends the promotion and starts the rollback at the last record; one
\* record's failure lets the rollback go on to the record before it.
Resume == /\ pc' = "rollback" /\ rolling' = TRUE
          /\ cur' = IF rolling THEN cur - 1 ELSE N

SetPhase(p) == phase' = [phase EXCEPT ![cur] = p]

\* The target cannot be proven restored: it is reported, its artifacts are kept.
\* (Mutant: they are cleaned up.)
GiveUpBackup == /\ SetPhase("unresolved") /\ reported' = reported \union {cur}
                /\ UNCHANGED keep /\ Resume

GiveUp ==
  /\ SetPhase("unresolved") /\ reported' = reported \union {cur}
  /\ keep' = keep \union {<<cur, n>> : n \in {m \in Private : file[<<cur, m>>] # Nothing}}
  /\ Resume

-----------------------------------------------------------------------------
(* Preparation: read the targets, author the private files, check.         *)

\* The loops over writes and deletions; a new file gets a recovery copy too.
Author ==
  /\ pc = "author"
  /\ original' = [original EXCEPT ![cur] = Public(cur)]
  /\ \/ /\ plan[cur] = "write"
        /\ LET copy == IF Public(cur) = Nothing THEN "copy" ELSE Nothing IN
           /\ file' = [file EXCEPT ![<<cur, "stage">>] = "new", ![<<cur, "recovery">>] = copy]
           /\ expects' = [expects EXCEPT ![<<cur, "stage">>] = "new", ![<<cur, "recovery">>] = copy]
        /\ Pass("author", "preflight")
     \/ /\ plan[cur] = "delete" /\ UNCHANGED <<file, expects>>
        /\ IF Public(cur) = Nothing THEN Resume ELSE Pass("author", "preflight")
     \/ /\ plan[cur] = "keep" /\ UNCHANGED <<file, expects>> /\ Pass("author", "preflight")
  /\ UNCHANGED <<plan, stored, frozen, keep, phase, localVars, endVars, editVars, faults>>

\* assert_matches reads one file after the other: before the promotion, after
\* it, and after the build's own validation.
ExpectedPublic(t) == IF pc = "preflight" THEN frozen[t] ELSE Wanted(t)

AssertMatches ==
  /\ pc \in {"preflight", "check", "recheck"}
  /\ IF Public(cur) # ExpectedPublic(cur) THEN Resume
     ELSE Pass(pc, CASE pc = "preflight" -> "swap" [] pc = "check" -> "validate"
                     [] OTHER -> "clean")
  /\ UNCHANGED <<planVars, diskVars, artVars, phase, localVars, endVars, editVars, faults>>

\* post_validate, which may find the promoted corpus wrong.
PostValidate ==
  /\ pc = "validate"
  /\ \/ Goto("recheck") /\ UNCHANGED faults
     \/ Resume /\ CountError
  /\ UNCHANGED <<planVars, diskVars, artVars, phase, localVars, endVars, editVars>>

-----------------------------------------------------------------------------
(* Promotion of one target.                                                *)

\* The rename needs something to exchange or to set aside, or a free name.
Renamable(t) == (Public(t) = Nothing) = (Operation(t) = "create")

RenameTarget(t) ==
  CASE Operation(t) = "replace" -> Exchange(t)
    [] Operation(t) = "create"  -> Rename(t, "stage", "public")
    [] OTHER                    -> Rename(t, "public", "delete")

\* What is expected at the private name after it.
ExpectAside(t) == expects' = [expects EXCEPT ![<<t, Aside(t)>>] =
                                IF Operation(t) = "create" THEN Nothing ELSE original[t]]

Promote ==
  /\ pc = "swap"
  /\ \/ /\ plan[cur] = "keep" /\ Pass("swap", "check") /\ UNCHANGED <<file, expects, phase>>
     \/ /\ plan[cur] # "keep" /\ Renamable(cur)
        /\ RenameTarget(cur) /\ ExpectAside(cur) /\ SetPhase("promoted") /\ Goto("read")
     \/ /\ plan[cur] # "keep" /\ ~Renamable(cur)
        /\ SetPhase("pending") /\ Resume /\ UNCHANGED <<file, expects>>
  /\ UNCHANGED <<planVars, stored, keep, localVars, endVars, editVars, faults>>

\* An interrupt after the rename, before the record says so.
Interrupt ==
  /\ pc = "swap" /\ plan[cur] # "keep" /\ Renamable(cur)
  /\ faults.interrupts < MaxInterrupts
  /\ faults' = [faults EXCEPT !.interrupts = @ + 1]
  /\ RenameTarget(cur) /\ SetPhase("pending") /\ Resume
  /\ UNCHANGED <<planVars, stored, artVars, localVars, endVars, editVars>>

ReadAside ==
  /\ pc = "read"
  /\ seen' = [seen EXCEPT !.private = file[<<cur, Aside(cur)>>]]
  /\ Goto("compare")
  /\ UNCHANGED <<planVars, diskVars, artVars, phase, art, want, tries, endVars, editVars, faults>>

\* Both names hold what they should; the create looks at the public one only.
Promoted(t) == /\ Public(t) = Wanted(t)
               /\ Operation(t) # "create" => seen.private = original[t]

\* A target that changed under the rename is given back at once; a created one
\* is reported.
Compare ==
  /\ pc = "compare"
  /\ \/ /\ Promoted(cur) /\ Pass("swap", "check") /\ UNCHANGED <<want, reported, keep, expects>>
     \/ /\ ~Promoted(cur) /\ Operation(cur) # "create"
        /\ want' = seen.private
        /\ expects' = IF seen.private = Nothing THEN expects
                      ELSE [expects EXCEPT ![<<cur, Aside(cur)>>] = seen.private]
        /\ Goto(IF Operation(cur) = "replace" THEN "unswap" ELSE "unmove")
        /\ UNCHANGED <<reported, keep>>
     \/ /\ ~Promoted(cur) /\ Operation(cur) = "create"
        /\ reported' = reported \union {cur} /\ keep' = keep \union {<<cur, "recovery">>}
        /\ Resume /\ UNCHANGED <<want, expects>>
  /\ UNCHANGED <<planVars, diskVars, phase, art, seen, tries, warned, outcome, editVars, faults>>

\* A system call fails while private files are authored, at the rename, and at
\* the sync and the reads behind it.
StepFails ==
  /\ CountError
  /\ \/ /\ pc = "author" /\ plan[cur] # "keep"
        /\ \E done \in {{}, {"stage"}, {"stage", "recovery"}} :
             /\ done # {} => plan[cur] = "write"
             /\ "recovery" \in done => Public(cur) = Nothing
             /\ LET Done(f) == [a \in DOMAIN f |->
                      IF a[1] = cur /\ a[2] \in done
                      THEN (IF a[2] = "stage" THEN "new" ELSE "copy") ELSE f[a]] IN
                file' = Done(file) /\ expects' = Done(expects)
        /\ UNCHANGED phase
     \/ pc = "swap" /\ plan[cur] # "keep" /\ SetPhase("pending") /\ UNCHANGED <<file, expects>>
     \/ pc \in {"read", "compare"} /\ UNCHANGED <<file, expects, phase>>
  /\ Resume
  /\ UNCHANGED <<planVars, stored, keep, localVars, endVars, editVars>>

-----------------------------------------------------------------------------
(* Rollback: the records in reverse order, one restored after the other.   *)

\* A record in doubt after a reported failure is left to the operator.
\* (Mutant: the first reported target ends the rollback.)
HandledAtFirst(t) == reported # {} \/ phase[t] \in {"none", "pending", "rolled-back"}

Handled(t) == t \in reported \/ phase[t] \in {"none", "pending", "rolled-back"}

Rollback ==
  /\ pc = "rollback"
  /\ \/ cur = 0 /\ pc' = "clean" /\ cur' = 1 /\ UNCHANGED <<rolling, want>>
     \/ cur # 0 /\ Handled(cur) /\ Resume /\ UNCHANGED want
     \/ /\ cur # 0 /\ ~Handled(cur)
        /\ want' = original[cur]
        /\ Goto(CASE Operation(cur) = "replace" -> "unswap"
                  [] Operation(cur) = "delete"  -> "unmove"
                  [] OTHER                      -> "uncreate")
  /\ UNCHANGED <<planVars, diskVars, artVars, phase, art, seen, tries, endVars, editVars, faults>>

\* The record is restored; a sync that failed on the way is a warning, or the
\* error that starts the rollback.
Restored ==
  /\ SetPhase("rolled-back") /\ Resume
  /\ \/ UNCHANGED <<warned, faults>>
     \/ warned' = (warned \/ rolling) /\ CountError

\* _restore_exchange: exchange the two names again, first to restore and then
\* to take a wrong reversal back.
Unswap ==
  /\ pc \in {"unswap", "correct"}
  /\ IF Public(cur) # Nothing /\ file[<<cur, "stage">>] # Nothing
     THEN /\ Exchange(cur) /\ UNCHANGED <<reported, keep>>
          /\ SetPhase(IF pc = "unswap" THEN "reverse-swapped" ELSE "correction-swapped")
          /\ expects' = IF pc = "unswap" THEN [expects EXCEPT ![<<cur, "stage">>] = "new"]
                        ELSE expects
          /\ Goto(IF pc = "unswap" THEN "unread" ELSE "coread")
     ELSE GiveUp /\ UNCHANGED <<file, expects>>
  /\ UNCHANGED <<planVars, stored, localVars, warned, outcome, editVars, faults>>

Unread ==
  /\ pc \in {"unread", "coread"}
  /\ seen' = IF pc = "unread" THEN [seen EXCEPT !.public = Public(cur)]
                              ELSE [seen EXCEPT !.again = Public(cur)]
  /\ Goto(IF pc = "unread" THEN "uncompare" ELSE "cocompare")
  /\ UNCHANGED <<planVars, diskVars, artVars, phase, art, want, tries, endVars, editVars, faults>>

\* One more correction of what was observed, if there is something to exchange.
Correctable(public, private) == /\ public # Nothing /\ private # Nothing
                                /\ tries < Corrections

TryCorrection(public, private) ==
  IF Correctable(public, private)
  THEN /\ seen' = [public |-> public, private |-> private, again |-> Nothing]
       /\ tries' = tries + 1 /\ Goto("correct") /\ UNCHANGED <<phase, reported, keep>>
  ELSE GiveUp /\ UNCHANGED <<seen, tries>>

Uncompare ==
  /\ pc = "uncompare"
  /\ \/ /\ want # Nothing /\ seen.public = want /\ file[<<cur, "stage">>] = "new"
        /\ Restored /\ UNCHANGED <<seen, tries, reported, keep>>
     \/ /\ ~(want # Nothing /\ seen.public = want /\ file[<<cur, "stage">>] = "new")
        /\ TryCorrection(seen.public, file[<<cur, "stage">>])
        /\ UNCHANGED <<warned, faults>>
  /\ UNCHANGED <<planVars, diskVars, expects, art, want, outcome, editVars>>

\* The correction is proven when both names hold the other's observed file.
Cocompare ==
  /\ pc = "cocompare"
  /\ LET private == file[<<cur, "stage">>] IN
     IF /\ seen.again # Nothing /\ private # Nothing
        /\ seen.private = seen.again /\ seen.public = private
     THEN GiveUp /\ UNCHANGED <<seen, tries>>
     ELSE TryCorrection(seen.again, private)
  /\ UNCHANGED <<planVars, diskVars, expects, art, want, warned, outcome, editVars, faults>>

\* _restore_moved_name: a private name becomes public again, unless that is taken.
MovedName == IF Operation(cur) = "delete" THEN "delete" ELSE "stage"

Unmove ==
  /\ pc = "unmove"
  /\ IF Public(cur) = Nothing /\ file[<<cur, MovedName>>] # Nothing
     THEN /\ Rename(cur, MovedName, "public") /\ SetPhase("rolled-back")
          /\ expects' = [expects EXCEPT ![<<cur, MovedName>>] = Nothing]
          /\ Goto("unmoved") /\ UNCHANGED <<reported, keep>>
     ELSE GiveUp /\ UNCHANGED <<file, expects>>
  /\ UNCHANGED <<planVars, stored, localVars, warned, outcome, editVars, faults>>

\* A created file that was edited is never restored: it is reported. When the
\* sync or the read fails, the record stays rolled back and that is a warning.
Unmoved ==
  /\ pc = "unmoved"
  /\ LET proven == want # Nothing /\ Public(cur) = want /\ Operation(cur) # "create" IN
     \/ proven /\ Resume /\ UNCHANGED <<phase, reported, keep, warned, faults>>
     \/ ~proven /\ GiveUp /\ UNCHANGED <<warned, faults>>
     \/ Resume /\ CountError /\ warned' = (warned \/ rolling)
        /\ UNCHANGED <<phase, reported, keep>>
  /\ UNCHANGED <<planVars, diskVars, expects, localVars, outcome, editVars>>

\* A created file goes back to its stage name.
Uncreate ==
  /\ pc = "uncreate"
  /\ IF Public(cur) # Nothing
     THEN /\ Rename(cur, "public", "stage") /\ SetPhase("rollback-moved")
          /\ expects' = [expects EXCEPT ![<<cur, "stage">>] = "new"]
          /\ Goto("uncreated") /\ UNCHANGED <<reported, keep>>
     ELSE GiveUp /\ UNCHANGED <<file, expects>>
  /\ UNCHANGED <<planVars, stored, localVars, warned, outcome, editVars, faults>>

Uncreated ==
  /\ pc = "uncreated"
  /\ \/ file[<<cur, "stage">>] = "new" /\ Restored /\ UNCHANGED <<want, expects>>
     \/ /\ file[<<cur, "stage">>] # "new"
        /\ want' = file[<<cur, "stage">>]
        /\ expects' = [expects EXCEPT ![<<cur, "stage">>] = file[<<cur, "stage">>]]
        /\ Goto("unmove") /\ UNCHANGED <<phase, warned, faults>>
  /\ UNCHANGED <<planVars, diskVars, keep, art, seen, tries, reported, outcome, editVars>>

\* A system call of a reversal fails.
ReversalFails ==
  /\ pc \in {"unswap", "unread", "uncompare", "correct", "coread", "cocompare",
             "unmove", "uncreate", "uncreated"}
  /\ CountError /\ GiveUp
  /\ UNCHANGED <<planVars, diskVars, expects, localVars, warned, outcome, editVars>>

-----------------------------------------------------------------------------
(* Cleanup: every artifact that is present and not marked retain moves to  *)
(* the retention store; nothing is ever unlinked.                          *)

Pending == {a \in Targets \X Private : expects[a] # Nothing /\ a \notin keep}

\* How promote_bytes ends.
End == outcome' = IF ~rolling THEN "committed"
                  ELSE IF reported # {} \/ warned THEN "unresolved" ELSE "failed"

\* One artifact is inspected: gone, changed, or as it was left. (Mutant: what
\* it holds is not looked at.)
SettleBlindly(a) == IF file[a] = Nothing THEN "gone" ELSE "owned"

Settle(a) == IF file[a] = Nothing THEN "gone"
             ELSE IF file[a] # expects[a] THEN "lost" ELSE "owned"

CleanArtifact ==
  /\ pc = "clean" /\ Pending # {}
  /\ \E a \in Pending :
       \/ /\ Settle(a) = "gone" /\ expects' = [expects EXCEPT ![a] = Nothing]
          /\ UNCHANGED <<keep, warned, art, pc>>
       \/ /\ Settle(a) = "lost" /\ keep' = keep \union {a} /\ warned' = TRUE
          /\ UNCHANGED <<expects, art, pc>>
       \/ /\ Settle(a) = "owned" /\ art' = a /\ pc' = "clean-move"
          /\ UNCHANGED <<expects, keep, warned>>
  /\ UNCHANGED <<planVars, diskVars, phase, cur, seen, want, tries, rolling, reported,
                 outcome, editVars, faults>>

\* _unlink_artifact: a no-replace rename; it may fail, and then all stays.
MoveToStore ==
  /\ pc = "clean-move"
  /\ keep' = keep \union {art}
  /\ \/ stored' = stored \union {art} /\ pc' = "clean-verify" /\ UNCHANGED <<warned, faults>>
     \/ CountError /\ warned' = TRUE /\ pc' = "clean" /\ UNCHANGED stored
  /\ UNCHANGED <<planVars, file, expects, phase, cur, localVars, rolling, reported,
                 outcome, editVars>>

\* (Mutant: the moved artifact is not read again.)
VerifiedBlindly(a) == TRUE

Verified(a) == file[a] = expects[a]

VerifyStored ==
  /\ pc = "clean-verify" /\ pc' = "clean"
  /\ \/ warned' = (warned \/ ~Verified(art)) /\ UNCHANGED faults
     \/ warned' = TRUE /\ CountError
  /\ UNCHANGED <<planVars, diskVars, artVars, phase, cur, localVars, rolling, reported,
                 outcome, editVars>>

Finish ==
  /\ pc = "clean" /\ Pending = {} /\ pc' = "done" /\ End
  /\ UNCHANGED <<planVars, diskVars, artVars, phase, cur, localVars, rolling, reported,
                 warned, editVars, faults>>

-----------------------------------------------------------------------------
(* Somebody edits the quest files with their own tools, at any moment.     *)

stepVars == <<planVars, stored, artVars, phase, pc, cur, localVars, rolling, endVars, faults>>

\* Saves a file, or creates it again.
Edit(t) ==
  /\ \E e \in Edits \ used :
       /\ file' = [file EXCEPT ![<<t, "public">>] = e]
       /\ left' = [left EXCEPT ![t] = e] /\ used' = used \union {e}
  /\ UNCHANGED stepVars

Remove(t) ==
  /\ Public(t) # Nothing
  /\ \E e \in Edits \ used : used' = used \union {e}
  /\ file' = [file EXCEPT ![<<t, "public">>] = Nothing]
  /\ left' = [left EXCEPT ![t] = Nothing]
  /\ UNCHANGED stepVars

\* Writes through a descriptor opened before the build moved the file aside.
Unsettled(a) == a \notin stored \/ (pc = "clean-verify" /\ a = art)

EditMoved(t) ==
  /\ LET a == <<t, Aside(t)>> IN
     /\ phase[t] \notin {"none", "pending"} /\ file[a] # Nothing /\ Unsettled(a)
     /\ \E e \in Edits \ used :
          /\ file' = [file EXCEPT ![a] = e] /\ used' = used \union {e}
          /\ left' = IF file[a] = left[t] THEN [left EXCEPT ![t] = e] ELSE left
  /\ UNCHANGED stepVars

Editor == pc # "done" /\ \E t \in Targets : Edit(t) \/ Remove(t) \/ EditMoved(t)

Build == \/ Author \/ AssertMatches \/ PostValidate \/ Promote \/ Interrupt \/ ReadAside
         \/ Compare \/ StepFails \/ Rollback \/ Unswap \/ Unread \/ Uncompare \/ Cocompare
         \/ Unmove \/ Unmoved \/ Uncreate \/ Uncreated \/ ReversalFails
         \/ CleanArtifact \/ MoveToStore \/ VerifyStored \/ Finish

Next == Build \/ Editor
Spec == Init /\ [][Next]_vars

-----------------------------------------------------------------------------
(* What the promotion promises.                                            *)

Told == outcome = "unresolved" \/ warned

\* What the editor last left that is not as the build found or left it: a saved
\* edit, or the removal of a file the build does not delete.
Changed(t) == \/ left[t] \in Edits
              \/ left[t] = Nothing /\ frozen[t] # Nothing /\ plan[t] # "delete"

\* No edit is lost silently: when promote_bytes returns, every file is as the
\* editor left it, and no edit is at a private name, unless the build reports it.
\* (An interrupt between a rename and its record leaves the reversal without a
\* trace of the rename.)
NoEditHidden ==
  pc = "done" /\ faults.interrupts = 0
    => \/ Told
       \/ \A t \in Targets :
            /\ Changed(t) => Public(t) = left[t]
            /\ \A n \in Private : file[<<t, n>>] \notin Edits

\* All or nothing: a file nobody removed or saved has its new content in all
\* targets after a commit, and its old one in all of them after a failure that
\* does not report the file.  (An interrupt between a rename and its record
\* can tear its file out of either: see InterruptedIsVisible.)
AllOrNothing ==
  /\ faults.interrupts = 0 /\ outcome = "committed" =>
       \A t \in Targets : left[t] = Untouched => Public(t) \in {Wanted(t)} \union Edits
  /\ faults.interrupts = 0 /\ outcome \in {"failed", "unresolved"} =>
       \A t \in Targets \ reported :
         left[t] = Untouched => Public(t) \in {frozen[t]} \union Edits

\* Whatever moment the process dies at: while one untouched target is promoted
\* and another is not, an artifact stands next to a target, and freeze refuses
\* the next build.
PromotedOf == {t \in Targets : plan[t] # "keep" /\ left[t] = Untouched
                               /\ Public(t) = Wanted(t)}
PriorOf    == {t \in Targets : plan[t] # "keep" /\ left[t] = Untouched
                               /\ Public(t) = frozen[t]}

Visible == \E a \in Targets \X Private : file[a] # Nothing /\ a \notin stored

TornIsVisible == faults.interrupts = 0 /\ PromotedOf # {} /\ PriorOf # {} => Visible

\* The same after an interrupt between a rename and its record, of which the
\* rollback knows nothing, except for a created file: nothing tells that from a
\* file that was there before.
InterruptedIsVisible ==
  {t \in PromotedOf : frozen[t] # Nothing} # {} /\ PriorOf # {} => Visible
=============================================================================
