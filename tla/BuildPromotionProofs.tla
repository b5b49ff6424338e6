------------------------ MODULE BuildPromotionProofs ------------------------
(***************************************************************************)
(* The promotion of a quest build: for every number of targets, edits,     *)
(* errors, interrupts and corrections, no edit is lost silently, a         *)
(* promotion is all or nothing, and a torn one can be seen.                *)
(*                                                                         *)
(* PInv has one row per target (Row): the phase of its record says what    *)
(* its names hold and where the editor's last contents are.  The target a  *)
(* step is about has the row of that step (Stepped).  Ahead says how far   *)
(* each pass over the targets is, and Clearing what the cleanup has moved. *)
(* A step disturbs the row of one target; the frames below carry the rows  *)
(* of the others.                                                          *)
(***************************************************************************)
EXTENDS BuildPromotion, TLAPS

-----------------------------------------------------------------------------
(* The invariant: what is true of one target.                              *)

\* The private names of a target, and what its files may hold: the editor's
\* contents are all different, and only the file set aside can be edited.
Shaped(t) ==
  /\ plan[t] # "write" => frozen[t] = "original"
  /\ frozen[t] \in {Nothing, "original"} /\ original[t] \in {frozen[t], Nothing} \union used
  /\ file[<<t, "recovery">>] \in {Nothing, "copy"}
  /\ plan[t] # "write" => file[<<t, "stage">>] = Nothing /\ file[<<t, "recovery">>] = Nothing
  /\ plan[t] # "delete" => file[<<t, "delete">>] = Nothing
  /\ left[t] \in {Nothing, Untouched} \union used
  /\ \A n \in Names : file[<<t, n>>] \in Edits =>
       file[<<t, n>>] \in used /\ \A m \in Names \ {n} : file[<<t, m>>] # file[<<t, n>>]

\* Where the editor's last contents are.
Tracked(t) == Changed(t) => Public(t) = left[t]
Located(t) == Changed(t) => \/ Public(t) = left[t]
                            \/ left[t] \in Edits /\ file[<<t, Aside(t)>>] = left[t]

\* A target whose public name the build has not renamed.
Unrenamed(t) ==
  /\ phase[t] \in {"none", "pending"}
  /\ file[<<t, "delete">>] = Nothing /\ file[<<t, "stage">>] \in {Nothing, "new"}
  /\ \A n \in Private : expects[<<t, n>>] \in {Nothing, file[<<t, n>>]}
  /\ Public(t) = IF left[t] = Untouched THEN frozen[t] ELSE left[t]
  /\ original[t] # frozen[t] => left[t] # Untouched

\* An interrupt came between the rename and its record.
Interrupted(t) ==
  /\ phase[t] = "pending" /\ faults.interrupts > 0
  /\ expects[<<t, "stage">>] \in {Nothing, "new"} /\ expects[<<t, "delete">>] = Nothing
  /\ expects[<<t, "recovery">>] \in {Nothing, "copy"}
  /\ left[t] = Untouched /\ frozen[t] # Nothing => file[<<t, Aside(t)>>] = "original"

\* What the build found is what it started from, or an edit that is gone.
Checked(t) ==
  \/ original[t] = frozen[t]
  \/ /\ frozen[t] = Nothing /\ original[t] \in used /\ left[t] # Untouched
     /\ \A n \in Names : file[<<t, n>>] # original[t]

\* Something stands next to a target that was renamed.
Anchored(t) ==
  /\ Operation(t) = "replace" => file[<<t, "stage">>] # Nothing
  /\ Operation(t) = "create"  => file[<<t, "recovery">>] = "copy"
  /\ Operation(t) = "delete" /\ left[t] = Untouched /\ Public(t) = Nothing
       => file[<<t, "delete">>] # Nothing

\* What is expected of the private names that no rename of the target uses.
Listed(t) == /\ expects[<<t, "recovery">>] \in {Nothing, "copy"}
             /\ \A n \in {"stage", "delete"} \ {Aside(t)} : expects[<<t, n>>] = Nothing

\* A renamed target.
Renamed(t) ==
  /\ phase[t] = "promoted" /\ plan[t] # "keep"
  /\ Checked(t) /\ Anchored(t) /\ Located(t) /\ Listed(t)
  /\ Operation(t) = "create" => file[<<t, "stage">>] = Nothing
  /\ left[t] = Untouched =>
       /\ Public(t) = Wanted(t)
       /\ Operation(t) # "create" => file[<<t, Aside(t)>>] \in {"original"} \union Edits

\* What its artifacts are expected to hold until it is compared.
Expecting(t) ==
  \A n \in Private : IF n = Aside(t) /\ Operation(t) # "create"
                     THEN expects[<<t, n>>] = original[t]
                     ELSE expects[<<t, n>>] \in {Nothing, "new", "copy"}

\* ... that was compared with what was expected.
Proven(t) == Renamed(t) /\ Tracked(t) /\ original[t] = frozen[t]

\* No edit hides in a private name that the cleanup takes for its own, or does
\* not know of.
Watched(t) == /\ \A n \in Private : expects[<<t, n>>] \notin Edits
              /\ \A n \in {"stage", "delete"} :
                   file[<<t, n>>] # Nothing => expects[<<t, n>>] # Nothing

\* A replaced target whose names were exchanged again; a created one that was
\* moved back to its stage.
Reversed(t) ==
  /\ plan[t] = "write" /\ Checked(t) /\ Anchored(t) /\ Located(t) /\ Listed(t)
  /\ expects[<<t, "stage">>] = "new" /\ Watched(t)
  /\ Operation(t) = "replace" /\ left[t] = Untouched => Public(t) \in {"original"} \union Edits
  /\ Operation(t) = "create" =>
       /\ file[<<t, "stage">>] # Nothing
       /\ left[t] = Untouched =>
            Public(t) = Nothing /\ file[<<t, "stage">>] \in {"new"} \union Edits

\* A target that is restored.
Back(t) ==
  /\ phase[t] = "rolled-back" /\ Checked(t) /\ Anchored(t) /\ Tracked(t) /\ Watched(t)
  /\ left[t] = Untouched => Public(t) \in {frozen[t]} \union Edits

\* A target that is left to the operator.
Reported(t) ==
  /\ Anchored(t)
  /\ \A n \in Private : file[<<t, n>>] # Nothing => <<t, n>> \in keep \ stored

\* A target that no step is about.
Settled(t) == IF t \in reported THEN Reported(t)
              ELSE Unrenamed(t) \/ Interrupted(t) \/ Renamed(t) \/ Back(t)

\* The target of a step.
Stepped(t) ==
  /\ plan[t] # "keep" /\ t \notin reported
  /\ pc \in {"read", "compare"} => Renamed(t) /\ Expecting(t)
  /\ pc = "compare" /\ Operation(t) # "create" /\ seen.private = original[t] =>
       Tracked(t) /\ original[t] = frozen[t]
  /\ pc = "unswap" => Renamed(t) /\ Operation(t) = "replace"
  /\ pc \in {"unread", "uncompare"} =>
       Reversed(t) /\ Operation(t) = "replace" /\ phase[t] = "reverse-swapped"
  /\ pc \in {"correct", "coread", "cocompare"} =>
       /\ Anchored(t) /\ Operation(t) = "replace"
       /\ phase[t] \in {"reverse-swapped", "correction-swapped"}
  /\ pc = "unmove" =>
       \/ Renamed(t) /\ Operation(t) = "delete"
       \/ /\ Operation(t) = "create" /\ phase[t] = "rollback-moved"
          /\ Checked(t) /\ Anchored(t) /\ Located(t) /\ Listed(t)
          /\ left[t] = Untouched => Public(t) = Nothing /\ file[<<t, "stage">>] \in Edits
  /\ pc = "unmoved" => Back(t) /\ Operation(t) \in {"create", "delete"}
  /\ pc = "uncreate" => Renamed(t) /\ Operation(t) = "create"
  /\ pc = "uncreated" => Reversed(t) /\ Operation(t) = "create" /\ phase[t] = "rollback-moved"

Active == pc \in {"read", "compare", "unswap", "unread", "uncompare", "correct", "coread",
                  "cocompare", "unmove", "unmoved", "uncreate", "uncreated"}

Row(t) == Shaped(t) /\ IF Active /\ t = cur THEN Stepped(t) ELSE Settled(t)

-----------------------------------------------------------------------------
(* The invariant: where the passes over the targets are.                   *)

Forward  == {"author", "preflight", "swap", "read", "compare", "check", "validate", "recheck"}
Cleaning == {"clean", "clean-move", "clean-verify", "done"}

\* Before its private files are authored, before it is renamed, and behind the
\* pass that renames and compares.
Blank(t)  == /\ original[t] = frozen[t]
             /\ \A n \in Private : file[<<t, n>>] = Nothing /\ expects[<<t, n>>] = Nothing
Ready(t)  == /\ phase[t] = "none"
             /\ plan[t] = "write" => /\ file[<<t, "stage">>] = "new"
                                     /\ original[t] = Nothing => file[<<t, "recovery">>] = "copy"
Passed(t) == IF plan[t] = "keep" THEN phase[t] = "none" ELSE Proven(t) /\ Watched(t)

\* What the pass has done to a target.
Ahead(t) ==
  /\ pc = "author" => /\ phase[t] = "none"
                      /\ t < cur => Ready(t)
                      /\ t >= cur => Blank(t)
  /\ pc = "preflight" => Ready(t) /\ (t < cur => Checked(t))
  /\ ~rolling /\ (pc = "swap" \/ Active) => /\ t < cur => Passed(t)
                                            /\ t > cur => Ready(t) /\ Checked(t)
  /\ pc = "swap" /\ t = cur => Ready(t) /\ Checked(t)
  /\ ~rolling /\ pc \in {"check", "validate", "recheck"} \union Cleaning => Passed(t)
  /\ rolling /\ (pc = "rollback" \/ Active) /\ t > cur => phase[t] # "promoted" \/ t \in reported
  /\ rolling /\ pc \in Cleaning => phase[t] # "promoted" \/ t \in reported

\* The control and what is kept until the cleanup.
Control ==
  /\ cur = 0 => pc = "rollback"
  /\ pc \in Forward => ~rolling
  /\ pc \in {"rollback", "uncreate", "uncreated"} => rolling
  /\ ~rolling => reported = {} /\ faults.interrupts = 0
  /\ outcome # "running" => pc = "done"
  /\ pc \notin Cleaning => stored = {} /\ \A a \in keep : a[1] \in reported

\* What the cleanup has done.
Clearing ==
  /\ pc \in {"clean-move", "clean-verify"} =>
       /\ file[art] # Nothing /\ expects[art] # Nothing /\ art[1] \notin reported
       /\ phase[art[1]] \in {"none", "pending"} => file[art] = expects[art]
  /\ pc = "clean-move" => art \notin keep
  /\ pc = "clean-verify" => art \in stored
  /\ \A a \in stored : /\ a \in keep /\ a[1] \notin reported
                       /\ phase[a[1]] \in {"none", "pending"} => file[a] = expects[a]
  /\ ~warned => \A a \in keep :
       \/ a[1] \in reported
       \/ a \in stored /\ (file[a] \notin Edits \/ (pc = "clean-verify" /\ art = a))
  /\ pc = "done" => /\ Pending = {}
                    /\ outcome = IF ~rolling THEN "committed"
                                 ELSE IF reported # {} \/ warned THEN "unresolved" ELSE "failed"

Rows  == \A t \in Targets : Row(t) /\ Ahead(t)
PInv  == PTypeOK /\ Rows /\ Control /\ Clearing

-----------------------------------------------------------------------------
(* Frames: a target whose names and records a step leaves alone keeps what *)
(* is true of it.                                                          *)

SameFiles(t) == /\ UNCHANGED <<plan, frozen>> /\ left'[t] = left[t]
                /\ \A n \in Names : file'[<<t, n>>] = file[<<t, n>>]
                /\ used \subseteq used'

SameRow(t) == /\ SameFiles(t) /\ original'[t] = original[t] /\ phase'[t] = phase[t]
              /\ \A n \in Private : expects'[<<t, n>>] = expects[<<t, n>>]
              /\ faults.interrupts > 0 => faults'.interrupts > 0

\* The four names, and the target of a private name.
LEMMA TheNames ==
  /\ "public" \in Names /\ "stage" \in Names /\ "recovery" \in Names /\ "delete" \in Names
  /\ Private = {"stage", "recovery", "delete"} /\ Private \subseteq Names
  /\ "public" \notin Private
BY DEF Names, Private

\* The name a rename uses is private.
LEMMA AsidePrivate == ASSUME NEW t PROVE Aside(t) \in Private
BY DEF Aside, Private

\* What the operation of a target tells of it.
LEMMA OperationOf ==
  ASSUME TargetsOK, NEW t \in Targets
  PROVE  /\ Operation(t) \in {"replace", "create", "delete"}
         /\ Operation(t) = "delete" <=> plan[t] = "delete"
         /\ Operation(t) = "create" => original[t] = Nothing
         /\ Operation(t) = "replace" => original[t] # Nothing
         /\ Operation(t) # "delete" /\ plan[t] # "keep" => plan[t] = "write" /\ Aside(t) = "stage"
         /\ Operation(t) = "delete" => Aside(t) = "delete"
<1>1. plan[t] \in {"write", "delete", "keep"}
  BY DEF TargetsOK
<1>2. CASE plan[t] = "delete"
  BY <1>2 DEF Operation, Aside
<1>3. CASE plan[t] # "delete" /\ original[t] = Nothing
  BY <1>1, <1>3 DEF Operation, Aside
<1>4. CASE plan[t] # "delete" /\ original[t] # Nothing
  BY <1>1, <1>4 DEF Operation, Aside
<1> QED
  BY <1>2, <1>3, <1>4

\* The operators of one target's records do not change with the other targets.
LEMMA SameOperation ==
  ASSUME NEW t \in Targets, plan' = plan, original'[t] = original[t]
  PROVE  Operation(t)' = Operation(t) /\ Aside(t)' = Aside(t)
BY DEF Operation, Aside

\* Each part of a row is about one target's names and records only.
LEMMA KeepsShape ==
  ASSUME NEW t \in Targets, SameRow(t), Shaped(t) PROVE Shaped(t)'
BY TheNames DEF Shaped, SameRow, SameFiles

\* What was found of it.
LEMMA KeepsChecked ==
  ASSUME NEW t \in Targets, SameRow(t), Checked(t) PROVE Checked(t)'
BY TheNames DEF Checked, SameRow, SameFiles

\* Where the editor's last contents are.
LEMMA KeepsTracked ==
  ASSUME NEW t \in Targets, SameRow(t) PROVE Tracked(t)' = Tracked(t) /\ Located(t)' = Located(t)
BY TheNames, AsidePrivate DEF Tracked, Located, Changed, Public, SameRow, SameFiles, Aside

\* What stands next to it.
LEMMA KeepsAnchored ==
  ASSUME NEW t \in Targets, SameRow(t) PROVE Anchored(t)' = Anchored(t)
BY TheNames, SameOperation DEF Anchored, Public, SameRow, SameFiles

\* What is expected next to it.
LEMMA KeepsExpecting ==
  ASSUME NEW t \in Targets, SameRow(t) PROVE Expecting(t)' = Expecting(t) /\ Listed(t)' = Listed(t)
<1>1. Aside(t)' = Aside(t) /\ Operation(t)' = Operation(t)
  BY SameOperation DEF SameRow, SameFiles
<1> QED
  BY <1>1, TheNames DEF Expecting, Listed, SameRow, SameFiles

\* A renamed target.
LEMMA KeepsRenamed ==
  ASSUME NEW t \in Targets, SameRow(t), Renamed(t) PROVE Renamed(t)'
BY TheNames, SameOperation, KeepsChecked, KeepsTracked, KeepsAnchored, KeepsExpecting,
   AsidePrivate
   DEF Renamed, Public, Wanted, SameRow, SameFiles

\* What the cleanup knows of it.
LEMMA KeepsWatched ==
  ASSUME NEW t \in Targets, SameRow(t) PROVE Watched(t)' = Watched(t)
BY TheNames DEF Watched, SameRow, SameFiles

\* A restored target.
LEMMA KeepsBack ==
  ASSUME NEW t \in Targets, SameRow(t), Back(t) PROVE Back(t)'
BY TheNames, KeepsChecked, KeepsTracked, KeepsAnchored, KeepsWatched
   DEF Back, Public, SameRow, SameFiles

\* A target that was exchanged again.
LEMMA KeepsReversed ==
  ASSUME NEW t \in Targets, SameRow(t), Reversed(t) PROVE Reversed(t)'
BY TheNames, SameOperation, KeepsChecked, KeepsTracked, KeepsAnchored, KeepsWatched,
   KeepsExpecting
   DEF Reversed, Public, SameRow, SameFiles

\* A target that was not renamed.
LEMMA KeepsUnrenamed ==
  ASSUME NEW t \in Targets, SameRow(t), Unrenamed(t) PROVE Unrenamed(t)'
BY TheNames DEF Unrenamed, Public, SameRow, SameFiles

\* A target whose rename was interrupted.
LEMMA KeepsInterrupted ==
  ASSUME NEW t \in Targets, SameRow(t), Interrupted(t) PROVE Interrupted(t)'
BY TheNames, AsidePrivate DEF Interrupted, Aside, SameRow, SameFiles

\* A target that no step is about.
LEMMA KeepsSettled ==
  ASSUME NEW t \in Targets, SameRow(t), Settled(t), (t \in reported) <=> (t \in reported'),
         t \in reported =>
           \A n \in Private : <<t, n>> \in keep \ stored => <<t, n>> \in keep' \ stored'
  PROVE  Settled(t)'
<1>1. CASE t \in reported
  <2>1. Reported(t)
    BY <1>1 DEF Settled
  <2>2. Reported(t)'
    BY <2>1, <1>1, KeepsAnchored, TheNames DEF Reported, SameRow, SameFiles
  <2> QED
    BY <2>2, <1>1 DEF Settled
<1>2. CASE t \notin reported
  BY <1>2, KeepsUnrenamed, KeepsInterrupted, KeepsRenamed, KeepsBack DEF Settled
<1> QED
  BY <1>1, <1>2

\* A target that the promotion has not come to.
LEMMA KeepsReady ==
  ASSUME NEW t \in Targets, SameRow(t) PROVE Ready(t)' = Ready(t) /\ Blank(t)' = Blank(t)
BY TheNames DEF Ready, Blank, SameRow, SameFiles

\* A target that was compared.
LEMMA KeepsPassed ==
  ASSUME NEW t \in Targets, SameRow(t), Passed(t) PROVE Passed(t)'
BY KeepsRenamed, KeepsTracked, KeepsWatched DEF Passed, Proven, SameRow, SameFiles

-----------------------------------------------------------------------------
(* What the steps do to the files.                                         *)

\* The exchange of two names of a target.
LEMMA Exchanged ==
  ASSUME PTypeOK, NEW t \in Targets, Exchange(t)
  PROVE  /\ file' \in [Targets \X Names -> Content]
         /\ file'[<<t, "public">>] = file[<<t, Aside(t)>>]
         /\ file'[<<t, Aside(t)>>] = file[<<t, "public">>]
         /\ \A n \in Names \ {"public", Aside(t)} : file'[<<t, n>>] = file[<<t, n>>]
         /\ \A u \in Targets \ {t} : \A n \in Names : file'[<<u, n>>] = file[<<u, n>>]
BY DEF Exchange, PTypeOK, ArtifactsOK, Aside, Names, Private

\* The rename of a file to a free name.
LEMMA Moved ==
  ASSUME PTypeOK, NEW t \in Targets, NEW from \in Names, NEW to \in Names, from # to,
         Rename(t, from, to)
  PROVE  /\ file' \in [Targets \X Names -> Content]
         /\ file'[<<t, to>>] = file[<<t, from>>] /\ file'[<<t, from>>] = Nothing
         /\ \A n \in Names \ {from, to} : file'[<<t, n>>] = file[<<t, n>>]
         /\ \A u \in Targets \ {t} : \A n \in Names : file'[<<u, n>>] = file[<<u, n>>]
BY DEF Rename, PTypeOK, ArtifactsOK, Content

-----------------------------------------------------------------------------
(* What the steps do to the control and to the records.                    *)

\* A failing system call is counted.
LEMMA Erred ==
  ASSUME ControlOK, CountError
  PROVE  /\ faults' \in [errors: 0..MaxErrors, interrupts: 0..MaxInterrupts]
         /\ faults'.interrupts = faults.interrupts
BY PromotionBounds DEF ControlOK, CountError

\* On to the next target, or to the next pass.
LEMMA Passing ==
  ASSUME ControlOK, cur # 0, NEW step \in Steps, NEW after \in Steps, Pass(step, after)
  PROVE  /\ pc' \in Steps /\ cur' \in 1..N /\ cur \in 1..N /\ rolling' = rolling
         /\ \/ cur = N /\ pc' = after /\ cur' = 1
            \/ cur < N /\ pc' = step /\ cur' = cur + 1
BY PromotionBounds DEF ControlOK, Pass

\* On to the rollback.
LEMMA Resuming ==
  ASSUME ControlOK, cur # 0, Resume
  PROVE  /\ pc' = "rollback" /\ pc' \in Steps /\ rolling' = TRUE /\ cur' \in 0..N /\ cur \in 1..N
         /\ cur' = IF rolling THEN cur - 1 ELSE N
BY PromotionBounds DEF ControlOK, Resume, Steps

\* The record of one target goes on.
LEMMA PhaseIsSet ==
  ASSUME TargetsOK, NEW p \in Phases, cur \in Targets, SetPhase(p)
  PROVE  /\ phase' \in [Targets -> Phases] /\ phase'[cur] = p
         /\ \A t \in Targets \ {cur} : phase'[t] = phase[t]
BY DEF TargetsOK, SetPhase

\* A target is reported, and all that stands next to it is kept.
LEMMA GivenUp ==
  ASSUME TargetsOK, ArtifactsOK, ControlOK, cur \in Targets, GiveUp
  PROVE  /\ phase' \in [Targets -> Phases] /\ phase'[cur] = "unresolved"
         /\ \A t \in Targets \ {cur} : phase'[t] = phase[t]
         /\ reported' = reported \union {cur} /\ reported' \subseteq Targets
         /\ keep \subseteq keep' /\ keep' \subseteq Targets \X Private
         /\ \A n \in Private : file[<<cur, n>>] # Nothing => <<cur, n>> \in keep'
         /\ \A a \in keep' : a \in keep \/ a[1] = cur
         /\ Resume
<1>1. "unresolved" \in Phases
  BY DEF Phases
<1>2. SetPhase("unresolved") /\ Resume /\ reported' = reported \union {cur}
  BY DEF GiveUp
<1>3. keep' = keep \union {<<cur, n>> : n \in {m \in Private : file[<<cur, m>>] # Nothing}}
  BY DEF GiveUp
<1>4. reported' \subseteq Targets
  BY <1>2 DEF ControlOK
<1>5. keep \subseteq keep' /\ keep' \subseteq Targets \X Private
  BY <1>3 DEF ArtifactsOK
<1>6. \A n \in Private : file[<<cur, n>>] # Nothing => <<cur, n>> \in keep'
  BY <1>3
<1>7. ASSUME NEW a \in keep', a \notin keep PROVE a[1] = cur
  <2>1. PICK n \in Private : a = <<cur, n>>
    BY <1>3, <1>7
  <2> QED
    BY <2>1
<1> QED
  BY <1>1, <1>2, <1>4, <1>5, <1>6, <1>7, PhaseIsSet

\* What is expected of one artifact.
LEMMA Expected ==
  ASSUME ArtifactsOK, NEW a \in Targets \X Private, NEW v \in Content,
         expects' = [expects EXCEPT ![a] = v]
  PROVE  /\ expects' \in [Targets \X Private -> Content] /\ expects'[a] = v
         /\ \A b \in (Targets \X Private) \ {a} : expects'[b] = expects[b]
BY DEF ArtifactsOK

-----------------------------------------------------------------------------
(* A target that a step is not about.                                      *)

\* (t is not the target of the step before nor after it.)
Same(t) == /\ SameRow(t) /\ (t \in reported <=> t \in reported')
           /\ \A n \in Private : <<t, n>> \in keep \ stored => <<t, n>> \in keep' \ stored'

\* It keeps its row.
LEMMA Bystander ==
  ASSUME NEW t \in Targets, Row(t), Same(t), ~(Active /\ t = cur), ~(Active' /\ t = cur')
  PROVE  Row(t)'
BY KeepsShape, KeepsSettled DEF Row, Same

-----------------------------------------------------------------------------
(* Where the passes are, for the three ways the control goes on.           *)

\* The types of what the passes count with.
LEMMA Numbers ==
  ASSUME ControlOK, NEW t \in Targets
  PROVE  cur \in 0..N /\ cur \in Nat /\ N \in Nat /\ t \in Nat /\ t \in 1..N /\ rolling \in BOOLEAN
<1>1. cur \in 0..N /\ rolling \in BOOLEAN
  BY DEF ControlOK
<1> QED
  BY <1>1, PromotionBounds DEF Targets

\* On to another step about the same target.
LEMMA AheadGoto ==
  ASSUME NEW t \in Targets, ControlOK, Ahead(t), t # cur => Same(t),
         (pc = "swap" /\ ~rolling) \/ Active \/ (pc = "rollback" /\ rolling),
         Active', cur' = cur, rolling' = rolling
  PROVE  Ahead(t)'
<1>1. cur \in Nat /\ t \in Nat /\ t \in 1..N /\ rolling \in BOOLEAN
  BY Numbers
<1>2. CASE t = cur
  BY <1>1, <1>2 DEF Ahead, Active, Cleaning
<1>3. CASE t # cur
  <2>1. Passed(t) => Passed(t)'
    BY <1>3, KeepsPassed DEF Same
  <2>2. Ready(t) /\ Checked(t) => Ready(t)' /\ Checked(t)'
    BY <1>3, KeepsReady, KeepsChecked DEF Same
  <2>3. phase'[t] = phase[t] /\ (t \in reported <=> t \in reported')
    BY <1>3 DEF Same, SameRow
  <2> QED
    BY <1>1, <1>3, <2>1, <2>2, <2>3 DEF Ahead, Active, Cleaning
<1> QED
  BY <1>2, <1>3

\* On to the rollback of the record before, or of the last one.
LEMMA AheadResume ==
  ASSUME NEW t \in Targets, ControlOK, Ahead(t), t # cur => Same(t),
         cur # 0, Resume, rolling => pc = "rollback" \/ Active,
         rolling /\ t = cur => phase'[t] # "promoted" \/ t \in reported'
  PROVE  Ahead(t)'
<1>1. cur \in Nat /\ t \in Nat /\ t \in 1..N /\ rolling \in BOOLEAN
  BY Numbers
<1>2. /\ pc' = "rollback" /\ rolling' = TRUE
      /\ cur' = IF rolling THEN cur - 1 ELSE N
  BY Resuming
<1>3. t # cur => phase'[t] = phase[t] /\ (t \in reported <=> t \in reported')
  BY DEF Same, SameRow
<1> QED
  BY <1>1, <1>2, <1>3, PromotionBounds DEF Ahead, Active, Cleaning

\* On to the renaming of the next target, or to the second check.
LEMMA AheadPass ==
  ASSUME NEW t \in Targets, ControlOK, Ahead(t), t # cur => Same(t),
         cur # 0, ~rolling, pc \in {"swap", "compare"}, Pass("swap", "check"),
         t = cur => Passed(t)'
  PROVE  Ahead(t)'
<1>1. "swap" \in Steps /\ "check" \in Steps
  BY DEF Steps
<1> QED
  BY <1>1, Passing, KeepsReady, KeepsChecked, KeepsPassed
     DEF Ahead, Same, SameRow, Active, ControlOK, Targets, Cleaning

\* Before the cleanup nothing is stored.
LEMMA NotYet ==
  ASSUME Control', pc' \notin Cleaning PROVE Clearing'
BY DEF Control, Clearing, Cleaning

-----------------------------------------------------------------------------
(* The steps that only read.                                               *)

\* The target of a step, but for the end of the rollback.
LEMMA CurTarget == ASSUME ControlOK, cur # 0 PROVE cur \in Targets
BY PromotionBounds DEF ControlOK, Targets

\* All rows, from the one the step is about and the others.
LEMMA AllRows ==
  ASSUME Rows, Active' => cur' = cur,
         \A t \in Targets \ {cur} : Same(t),
         \A t \in Targets : t = cur => Row(t)',
         \A t \in Targets : Ahead(t)'
  PROVE  Rows'
<1>1. ASSUME NEW t \in Targets, t # cur PROVE Row(t)'
  <2>1. Row(t) /\ Same(t) /\ ~(Active /\ t = cur) /\ ~(Active' /\ t = cur')
    BY <1>1 DEF Rows
  <2> QED
    BY <2>1, Bystander
<1> QED
  BY <1>1 DEF Rows

\* Nothing of any target changes.
Untouching == UNCHANGED <<planVars, diskVars, artVars, phase, editVars, reported>>
              /\ (faults.interrupts > 0 => faults'.interrupts > 0)

\* So every row is kept.
LEMMA AllSame ==
  ASSUME Untouching, NEW t \in Targets PROVE Same(t)
BY DEF Untouching, Same, SameRow, SameFiles, planVars, diskVars, artVars, editVars

\* An error before any rename of the target starts the rollback.
LEMMA ResumeUntouched ==
  ASSUME PInv, cur # 0, pc \notin Cleaning, ~Active, Resume, Untouching,
         UNCHANGED <<localVars, warned, outcome>>,
         faults' \in [errors: 0..MaxErrors, interrupts: 0..MaxInterrupts],
         rolling => pc = "rollback" /\ (phase[cur] # "promoted" \/ cur \in reported)
  PROVE  PInv'
<1>1. TargetsOK /\ ArtifactsOK /\ ControlOK /\ Rows /\ Control /\ Clearing
  BY DEF PInv, PTypeOK
<1>2. pc' = "rollback" /\ rolling' = TRUE /\ cur' \in 0..N
  BY <1>1, Resuming
<1>3. TargetsOK' /\ ArtifactsOK' /\ ControlOK'
  BY <1>1, <1>2 DEF Untouching, TargetsOK, ArtifactsOK, ControlOK, planVars, diskVars,
     artVars, localVars, endVars, editVars, Steps
<1>4. ASSUME NEW t \in Targets PROVE Row(t)'
  BY <1>1, <1>2, AllSame, Bystander DEF Rows, Active
<1>5. ASSUME NEW t \in Targets PROVE Ahead(t)'
  <2>1. Ahead(t) /\ Same(t)
    BY <1>1, AllSame DEF Rows
  <2>2. rolling /\ t = cur => phase'[t] # "promoted" \/ t \in reported'
    BY DEF Untouching
  <2> QED
    BY <1>1, <2>1, <2>2, AheadResume
<1>6. Control'
  BY <1>1, <1>2 DEF Control, Untouching, Forward, Cleaning, diskVars, artVars
<1> QED
  BY <1>2, <1>3, <1>4, <1>5, <1>6, NotYet DEF PInv, PTypeOK, Rows, Cleaning

\* A target that is still as the build started from passes the check.
LEMMA CheckedNow ==
  ASSUME TargetsOK, NEW t \in Targets, Shaped(t), Settled(t), Ready(t), reported = {},
         Public(t) = frozen[t]
  PROVE  Checked(t)
<1>1. Unrenamed(t)
  BY DEF Settled, Ready, Interrupted, Renamed, Back
<1> QED
  BY <1>1, EditsAreNew, TheNames DEF TargetsOK, Shaped, Unrenamed, Checked, Names, Public

\* A check of what is public goes on to the next target, or back.
LEMMA AssertMatchesStep == ASSUME PInv, AssertMatches PROVE PInv'
<1>1. TargetsOK /\ ArtifactsOK /\ ControlOK /\ Rows /\ Control /\ Clearing
  BY DEF PInv, PTypeOK
<1>2. Untouching /\ UNCHANGED <<localVars, endVars, faults>>
  BY DEF AssertMatches, Untouching, endVars
<1>3. cur # 0 /\ cur \in Targets /\ ~rolling /\ ~Active /\ pc \notin {"rollback", "swap", "author"}
      /\ pc \notin Cleaning /\ reported = {}
  BY <1>1, CurTarget DEF AssertMatches, Control, Forward, Active, Cleaning
<1>4. \/ Resume
      \/ /\ Public(cur) = ExpectedPublic(cur)
         /\ \/ pc = "preflight" /\ Pass("preflight", "swap")
            \/ pc = "check" /\ Pass("check", "validate")
            \/ pc = "recheck" /\ Pass("recheck", "clean")
  BY DEF AssertMatches
<1>5. CASE Resume
  <2>1. faults' = faults
    BY <1>2
  <2> QED
    BY <1>1, <1>2, <1>3, <1>5, <2>1, ResumeUntouched DEF ControlOK, endVars
<1>6. ASSUME NEW step \in {"preflight", "check", "recheck"}, pc = step,
             NEW after \in {"swap", "validate", "clean"}, Pass(step, after),
             (step = "preflight") = (after = "swap"), (step = "recheck") = (after = "clean"),
             Public(cur) = ExpectedPublic(cur)
      PROVE  PInv'
  <2>1. /\ rolling' = rolling /\ cur' \in 1..N
        /\ \/ cur = N /\ pc' = after /\ cur' = 1
           \/ cur < N /\ pc' = step /\ cur' = cur + 1
    <3>1. step \in Steps /\ after \in Steps
      BY <1>6 DEF Steps
    <3> QED
      BY <1>1, <1>3, <1>6, <3>1, Passing
  <2>2. TargetsOK' /\ ArtifactsOK' /\ ControlOK'
    BY <1>1, <1>2, <1>6, <2>1 DEF Untouching, TargetsOK, ArtifactsOK, ControlOK, planVars,
       diskVars, artVars, localVars, endVars, editVars, Steps
  <2>3. ASSUME NEW t \in Targets PROVE Row(t)'
    BY <1>1, <1>2, <1>3, <2>1, <1>6, AllSame, Bystander DEF Rows, Active
  <2>4. ASSUME NEW t \in Targets PROVE Ahead(t)'
    <3>1. Ahead(t) /\ Same(t) /\ phase'[t] = phase[t]
      BY <1>1, <1>2, AllSame DEF Rows, Same, SameRow
    <3>2. Ready(t) => Ready(t)'
      BY <3>1, KeepsReady DEF Same
    <3>3. (Checked(t) => Checked(t)') /\ (Passed(t) => Passed(t)')
      BY <3>1, KeepsChecked, KeepsPassed DEF Same
    <3>4. pc = "preflight" /\ t = cur => Checked(t)
      <4>1. pc = "preflight" /\ t = cur => Row(t) /\ Ready(t) /\ Public(t) = frozen[t]
        BY <1>1, <1>6, <3>1 DEF Rows, Ahead, ExpectedPublic
      <4> QED
        BY <1>1, <1>3, <4>1, CheckedNow DEF Row
    <3> QED
      BY <1>1, <1>3, <1>6, <2>1, <3>1, <3>2, <3>3, <3>4, Numbers DEF Ahead, Active, Cleaning
  <2>5. Control'
    BY <1>1, <1>2, <1>3, <1>6, <2>1
    DEF Control, Untouching, Forward, Cleaning, diskVars, artVars,
       endVars
  <2>6. Clearing'
    BY <1>1, <1>2, <1>3, <1>6, <2>1
    DEF Control, Clearing, Untouching, Cleaning, diskVars, artVars, endVars
  <2> QED
    BY <2>2, <2>3, <2>4, <2>5, <2>6 DEF PInv, PTypeOK, Rows
<1> QED
  BY <1>4, <1>5, <1>6

\* The build's own validation.
LEMMA PostValidateStep == ASSUME PInv, PostValidate PROVE PInv'
<1>1. TargetsOK /\ ArtifactsOK /\ ControlOK /\ Rows /\ Control /\ Clearing
  BY DEF PInv, PTypeOK
<1>2. cur # 0 /\ ~rolling /\ ~Active /\ pc = "validate" /\ pc \notin Cleaning
  BY <1>1 DEF PostValidate, Control, Forward, Active, Cleaning
<1>3. CASE Resume /\ CountError
  <2>1. Untouching /\ UNCHANGED <<localVars, warned, outcome>>
    BY <1>1, <1>3, Erred DEF PostValidate, Untouching, endVars
  <2> QED
    BY <1>1, <1>2, <1>3, <2>1, Erred, ResumeUntouched
<1>4. CASE Goto("recheck") /\ UNCHANGED faults
  <2>1. /\ Untouching /\ UNCHANGED <<localVars, endVars, faults>>
        /\ pc' = "recheck" /\ cur' = cur /\ rolling' = rolling
    BY <1>4 DEF PostValidate, Untouching, endVars, Goto
  <2>2. TargetsOK' /\ ArtifactsOK' /\ ControlOK'
    BY <1>1, <2>1 DEF Untouching, TargetsOK, ArtifactsOK, ControlOK, planVars, diskVars,
       artVars, localVars, endVars, editVars, Steps
  <2>3. ASSUME NEW t \in Targets PROVE Row(t)' /\ Ahead(t)'
    <3>1. Row(t) /\ Ahead(t) /\ Same(t) /\ ~Active'
      BY <1>1, <2>1, AllSame DEF Rows, Active
    <3>2. Passed(t) => Passed(t)'
      BY <3>1, KeepsPassed DEF Same
    <3> QED
      BY <1>2, <2>1, <3>1, <3>2, Bystander DEF Ahead, Active, Cleaning
  <2>4. Control'
    BY <1>1, <1>2, <2>1 DEF Control, Untouching, Forward, Cleaning, diskVars, artVars, endVars
  <2> QED
    BY <2>1, <2>2, <2>3, <2>4, NotYet DEF PInv, PTypeOK, Rows, Cleaning
<1> QED
  BY <1>3, <1>4 DEF PostValidate

\* The rollback finds the record of a renamed target, or goes on.
LEMMA RollbackStep == ASSUME PInv, Rollback PROVE PInv'
<1>1. TargetsOK /\ ArtifactsOK /\ ControlOK /\ Rows /\ Control /\ Clearing
  BY DEF PInv, PTypeOK
<1>2. Untouching /\ UNCHANGED <<art, seen, tries, endVars, faults>> /\ want' \in Content
  <2>1. Untouching /\ UNCHANGED <<art, seen, tries, endVars, faults>>
    BY DEF Rollback, Untouching, endVars
  <2>2. cur # 0 => original[cur] \in Content
    BY <1>1, CurTarget DEF TargetsOK
  <2>3. want' = want \/ (cur # 0 /\ want' = original[cur])
    BY DEF Rollback
  <2> QED
    BY <1>1, <2>1, <2>2, <2>3 DEF ControlOK
<1>3. pc = "rollback" /\ rolling /\ ~Active
  BY <1>1 DEF Rollback, Control, Active
<1>4. CASE cur = 0 /\ pc' = "clean" /\ cur' = 1 /\ UNCHANGED <<rolling, want>>
  <2>1. TargetsOK' /\ ArtifactsOK' /\ ControlOK'
    BY <1>1, <1>2, <1>4, PromotionBounds
    DEF Untouching, TargetsOK, ArtifactsOK, ControlOK, planVars, diskVars,
       artVars, localVars, endVars, editVars, Steps
  <2>2. ASSUME NEW t \in Targets PROVE Row(t)' /\ Ahead(t)'
    <3>1. /\ Row(t) /\ Ahead(t) /\ Same(t) /\ ~Active' /\ phase'[t] = phase[t]
          /\ (t \in reported) <=> (t \in reported')
      BY <1>1, <1>2, <1>4, AllSame DEF Rows, Active, Same, SameRow
    <3> QED
      BY <1>1, <1>3, <1>4, <3>1, Bystander, Numbers DEF Ahead, Active, Cleaning
  <2>3. Control'
    BY <1>1, <1>2, <1>3, <1>4 DEF Control, Untouching, Forward, Cleaning, diskVars, artVars,
       endVars
  <2>4. Clearing'
    BY <1>1, <1>2, <1>3, <1>4 DEF Control, Clearing, Untouching, Cleaning, diskVars, artVars,
       endVars
  <2> QED
    BY <2>1, <2>2, <2>3, <2>4 DEF PInv, PTypeOK, Rows
<1>5. CASE cur # 0 /\ Handled(cur) /\ Resume /\ UNCHANGED want
  <2>1. phase[cur] # "promoted" \/ cur \in reported
    BY <1>5 DEF Handled
  <2> QED
    BY <1>1, <1>2, <1>3, <1>5, <2>1, ResumeUntouched DEF ControlOK, Cleaning, localVars, endVars
<1>6. CASE /\ cur # 0 /\ ~Handled(cur)
           /\ Goto(CASE Operation(cur) = "replace" -> "unswap"
                    [] Operation(cur) = "delete"  -> "unmove"
                    [] OTHER                      -> "uncreate")
  <2>1. /\ cur' = cur /\ rolling' = rolling /\ Active' /\ cur \in Targets
        /\ pc' = CASE Operation(cur) = "replace" -> "unswap"
                   [] Operation(cur) = "delete"  -> "unmove"
                   [] OTHER                      -> "uncreate"
    BY <1>1, <1>6, CurTarget DEF Goto, Active
  <2>2. TargetsOK' /\ ArtifactsOK' /\ ControlOK'
    BY <1>1, <1>2, <2>1 DEF Untouching, TargetsOK, ArtifactsOK, ControlOK, planVars, diskVars,
       artVars, localVars, endVars, editVars, Steps
  <2>3. ASSUME NEW t \in Targets, t = cur PROVE Row(t)'
    <3>1. t \notin reported /\ phase[t] \notin {"none", "pending", "rolled-back"}
      BY <1>6, <2>3 DEF Handled
    <3>2. Shaped(t) /\ Renamed(t) /\ Same(t)
      BY <1>1, <1>2, <1>3, <3>1, AllSame DEF Rows, Row, Settled, Unrenamed, Interrupted, Back
    <3>3. Shaped(t)' /\ Renamed(t)' /\ Operation(t)' = Operation(t) /\ plan' = plan
      BY <3>2, KeepsShape, KeepsRenamed, SameOperation DEF Same, SameRow, SameFiles
    <3>4. t \notin reported' /\ plan[t] # "keep"
      BY <1>2, <3>1, <3>2 DEF Untouching, Renamed
    <3>5. Stepped(t)'
      BY <2>1, <2>3, <3>3, <3>4 DEF Stepped, Operation
    <3> QED
      BY <2>1, <2>3, <3>3, <3>5 DEF Row
  <2>4. ASSUME NEW t \in Targets PROVE Ahead(t)'
    BY <1>1, <1>2, <1>3, <2>1, AllSame, AheadGoto DEF Rows
  <2>5. Control'
    BY <1>1, <1>2, <1>3, <1>6, <2>1
    DEF Control, Untouching, Forward, Cleaning, diskVars, artVars, endVars
  <2>6. Rows'
    BY <1>1, <1>2, <2>1, <2>3, <2>4, AllSame, AllRows
  <2> QED
    BY <2>1, <2>2, <2>5, <2>6, NotYet DEF PInv, PTypeOK, Cleaning
<1> QED
  BY <1>4, <1>5, <1>6 DEF Rollback

-----------------------------------------------------------------------------
(* The steps about one target: what must be shown of it, when the next     *)
(* step is about it too, and when the rollback goes on.                    *)

\* On to the next step of a target, or to the first.
LEMMA StepOn ==
  ASSUME PInv, (pc = "swap" /\ ~rolling) \/ Active, Active', cur' = cur, rolling' = rolling,
         TargetsOK', ArtifactsOK', ControlOK',
         \A t \in Targets \ {cur} : Same(t),
         \A t \in Targets : t = cur => Shaped(t)' /\ Stepped(t)',
         UNCHANGED <<stored, keep, reported, outcome>>,
         faults'.interrupts = faults.interrupts,
         pc' \in {"uncreate", "uncreated"} => rolling, pc' \in {"read", "compare"} => ~rolling
  PROVE  PInv'
<1>1. ControlOK /\ Rows /\ Control
  BY DEF PInv, PTypeOK
<1>2. ASSUME NEW t \in Targets, t = cur PROVE Row(t)'
  BY <1>2 DEF Row
<1>3. ASSUME NEW t \in Targets PROVE Ahead(t)'
  <2>1. Ahead(t) /\ (t # cur => Same(t))
    BY <1>1 DEF Rows
  <2> QED
    BY <1>1, <2>1, AheadGoto
<1>4. Rows'
  BY <1>1, <1>2, <1>3, AllRows
<1>5. /\ pc' \notin Cleaning /\ pc \notin Cleaning /\ pc # "done"
      /\ pc' \notin Forward \ {"read", "compare"}
  BY DEF Cleaning, Active, Forward
<1>6. Control'
  <2>1. pc' \in Forward => ~rolling'
    BY <1>5
  <2> QED
    BY <1>1, <1>5, <2>1 DEF Control, Active
<1> QED
  BY <1>4, <1>5, <1>6, NotYet DEF PInv, PTypeOK

\* A target is done or given up: back to the record before it.
LEMMA StepBack ==
  ASSUME PInv, (pc \in {"author", "swap"} /\ ~rolling) \/ Active, Resume,
         TargetsOK', ArtifactsOK', ControlOK',
         \A t \in Targets \ {cur} : Same(t),
         \A t \in Targets : t = cur => Shaped(t)' /\ Settled(t)',
         rolling => phase'[cur] # "promoted" \/ cur \in reported',
         UNCHANGED <<stored, outcome>>, reported \subseteq reported',
         \A a \in keep' : a \in keep \/ (a[1] = cur /\ cur \in reported')
  PROVE  PInv'
<1>1. ControlOK /\ Rows /\ Control
  BY DEF PInv, PTypeOK
<1>2. cur # 0 /\ pc \notin Cleaning /\ pc # "done"
  BY <1>1 DEF Control, Active, Cleaning
<1>3. pc' = "rollback" /\ rolling' = TRUE /\ ~Active'
  BY <1>1, <1>2, Resuming DEF Active
<1>4. ASSUME NEW t \in Targets, t = cur PROVE Row(t)'
  BY <1>3, <1>4 DEF Row
<1>5. ASSUME NEW t \in Targets PROVE Ahead(t)'
  <2>1. Ahead(t) /\ (t # cur => Same(t))
    BY <1>1 DEF Rows
  <2>2. rolling => pc = "rollback" \/ Active
    BY <1>1
  <2> QED
    BY <1>1, <1>2, <2>1, <2>2, AheadResume
<1>6. Rows'
  BY <1>1, <1>3, <1>4, <1>5, AllRows
<1>7. Control'
  BY <1>1, <1>2, <1>3 DEF Control, Cleaning, Forward
<1> QED
  BY <1>3, <1>6, <1>7, NotYet DEF PInv, PTypeOK, Cleaning

\* The last of the target's steps: on to the next target.
LEMMA StepPass ==
  ASSUME PInv, pc \in {"swap", "compare"}, ~rolling, Pass("swap", "check"),
         UNCHANGED <<planVars, diskVars, artVars, phase, art, tries, endVars, editVars, faults>>,
         seen' = seen, want' = want,
         \A t \in Targets : t = cur => Passed(t)
  PROVE  PInv'
<1>1. TargetsOK /\ ArtifactsOK /\ ControlOK /\ Rows /\ Control /\ Clearing
  BY DEF PInv, PTypeOK
<1>2. cur # 0 /\ pc \notin Cleaning /\ pc # "done" /\ cur \in Targets
  BY <1>1, CurTarget DEF Control, Cleaning
<1>3. Untouching
  BY DEF Untouching, endVars
<1>4. pc' \in {"swap", "check"} /\ rolling' = rolling /\ cur' \in 1..N /\ ~Active'
  <2>1. "swap" \in Steps /\ "check" \in Steps
    BY DEF Steps
  <2>2. pc' \in {"swap", "check"} /\ rolling' = rolling /\ cur' \in 1..N
    BY <1>1, <1>2, <2>1, Passing
  <2> QED
    BY <2>2 DEF Active
<1>5. TargetsOK' /\ ArtifactsOK' /\ ControlOK'
  BY <1>1, <1>4, PromotionBounds
  DEF TargetsOK, ArtifactsOK, ControlOK, planVars, diskVars, artVars, endVars,
     editVars, Steps
<1>6. ASSUME NEW t \in Targets PROVE Row(t)'
  <2>1. Row(t) /\ Same(t)
    BY <1>1, <1>3, AllSame DEF Rows
  <2>2. CASE ~(Active /\ t = cur)
    BY <1>4, <2>1, <2>2, Bystander
  <2>3. CASE Active /\ t = cur
    <3>1. Shaped(t)'
      BY <2>1, KeepsShape DEF Row, Same
    <3>2. t \notin reported
      BY <1>1 DEF Control
    <3>3. Renamed(t)
      BY <2>1, <2>3 DEF Row, Stepped, Active
    <3> QED
      BY <1>4, <2>1, <3>1, <3>2, <3>3, KeepsRenamed DEF Row, Settled, Same
  <2> QED
    BY <2>2, <2>3
<1>7. ASSUME NEW t \in Targets PROVE Ahead(t)'
  <2>1. Ahead(t) /\ Same(t)
    BY <1>1, <1>3, AllSame DEF Rows
  <2>2. t = cur => Passed(t)'
    BY <2>1, KeepsPassed DEF Same
  <2> QED
    BY <1>1, <1>2, <2>1, <2>2, AheadPass
<1>8. Control'
  BY <1>1, <1>2, <1>4 DEF Control, Cleaning, Forward, diskVars, artVars, endVars
<1> QED
  BY <1>4, <1>5, <1>6, <1>7, <1>8, NotYet DEF PInv, PTypeOK, Rows, Cleaning

\* The private name is read after the rename.
LEMMA ReadAsideStep == ASSUME PInv, ReadAside PROVE PInv'
<1>1. TargetsOK /\ ArtifactsOK /\ ControlOK /\ Rows /\ Control
  BY DEF PInv, PTypeOK
<1>2. /\ pc = "read" /\ Active /\ pc' = "compare" /\ Active' /\ cur' = cur /\ rolling' = rolling
      /\ Untouching /\ UNCHANGED <<art, want, tries, endVars, faults>>
      /\ seen' = [seen EXCEPT !.private = file[<<cur, Aside(cur)>>]]
  BY DEF ReadAside, Goto, Active, Untouching, endVars
<1>3. cur \in Targets
  BY <1>1, <1>2, CurTarget DEF Control
<1>4. file[<<cur, Aside(cur)>>] \in Content
  BY <1>1, <1>3, AsidePrivate, TheNames DEF ArtifactsOK
<1>5. seen' \in [public: Content, private: Content, again: Content]
      /\ seen'.private = file[<<cur, Aside(cur)>>]
  BY <1>1, <1>2, <1>4 DEF ControlOK
<1>6. TargetsOK' /\ ArtifactsOK' /\ ControlOK'
  BY <1>1, <1>2, <1>5 DEF Untouching, TargetsOK, ArtifactsOK, ControlOK, planVars, diskVars,
     artVars, endVars, editVars, Steps
<1>7. ASSUME NEW t \in Targets, t = cur PROVE Shaped(t)' /\ Stepped(t)'
  <2>1. /\ Shaped(t) /\ Renamed(t) /\ Expecting(t) /\ plan[t] # "keep" /\ t \notin reported
        /\ Same(t)
    BY <1>1, <1>2, <1>7, AllSame DEF Rows, Row, Stepped
  <2>2. /\ Shaped(t)' /\ Renamed(t)' /\ Expecting(t)' /\ Operation(t)' = Operation(t)
        /\ Tracked(t)' = Tracked(t)
    BY <2>1, KeepsShape, KeepsRenamed, KeepsExpecting, SameOperation, KeepsTracked
    DEF Same, SameRow, SameFiles
  <2>3. Operation(t) # "create" /\ file[<<t, Aside(t)>>] = original[t] =>
          Tracked(t) /\ original[t] = frozen[t]
    BY <1>1, <2>1, EditsAreNew, TheNames
    DEF Shaped, Renamed, Checked, Located, Tracked, Changed, Operation, Aside, TargetsOK,
       Names, Private, Wanted, Public
  <2> QED
    BY <1>2, <1>5, <1>7, <2>1, <2>2, <2>3 DEF Stepped, Untouching, planVars
<1> QED
  BY <1>1, <1>2, <1>3, <1>6, <1>7, AllSame, StepOn
     DEF Untouching, diskVars, artVars, endVars, Control, Forward

\* The public name is read after a reversal.
LEMMA UnreadStep == ASSUME PInv, Unread PROVE PInv'
<1>1. TargetsOK /\ ArtifactsOK /\ ControlOK /\ Rows /\ Control
  BY DEF PInv, PTypeOK
<1>2. /\ Active /\ Active' /\ cur' = cur /\ rolling' = rolling
      /\ (pc = "unread" /\ pc' = "uncompare") \/ (pc = "coread" /\ pc' = "cocompare")
      /\ Untouching /\ UNCHANGED <<art, want, tries, endVars, faults>>
  BY DEF Unread, Goto, Active, Untouching, endVars
<1>3. cur \in Targets
  BY <1>1, <1>2, CurTarget DEF Control
<1>4. Public(cur) \in Content
  BY <1>1, <1>3, TheNames DEF ArtifactsOK, Public
<1>5. seen' \in [public: Content, private: Content, again: Content]
  BY <1>1, <1>4 DEF ControlOK, Unread
<1>6. TargetsOK' /\ ArtifactsOK' /\ ControlOK'
  BY <1>1, <1>2, <1>5 DEF Untouching, TargetsOK, ArtifactsOK, ControlOK, planVars, diskVars,
     artVars, endVars, editVars, Steps
<1>7. ASSUME NEW t \in Targets, t = cur PROVE Shaped(t)' /\ Stepped(t)'
  <2>1. Shaped(t) /\ Stepped(t) /\ plan[t] # "keep" /\ t \notin reported /\ Same(t)
    BY <1>1, <1>2, <1>7, AllSame DEF Rows, Row, Stepped
  <2>2. /\ Shaped(t)' /\ Operation(t)' = Operation(t) /\ phase'[t] = phase[t]
        /\ (Reversed(t) => Reversed(t)') /\ Anchored(t)' = Anchored(t)
    BY <2>1, KeepsShape, KeepsReversed, SameOperation, KeepsAnchored
    DEF Same, SameRow, SameFiles
  <2> QED
    BY <1>2, <1>7, <2>1, <2>2 DEF Stepped, Untouching, planVars
<1> QED
  BY <1>2, <1>3, <1>6, <1>7, AllSame, StepOn DEF Untouching, diskVars, artVars, endVars

-----------------------------------------------------------------------------
(* The preparation.                                                        *)

\* The target whose private files are next to be authored.
LEMMA NextAuthored ==
  ASSUME PInv, pc = "author", NEW t \in Targets, t = cur
  PROVE  /\ Shaped(t) /\ Unrenamed(t) /\ Blank(t) /\ phase[t] = "none" /\ t \notin reported
         /\ ~rolling /\ reported = {} /\ keep = {} /\ stored = {} /\ outcome = "running"
<1>1. TargetsOK /\ ArtifactsOK /\ ControlOK /\ Rows /\ Control
  BY DEF PInv, PTypeOK
<1>2. /\ ~rolling /\ reported = {} /\ stored = {} /\ outcome = "running"
      /\ \A a \in keep : a[1] \in reported
  BY <1>1 DEF Control, Forward, Cleaning
<1>3. Row(t) /\ Ahead(t) /\ ~Active
  BY <1>1 DEF Rows, Active
<1>4. Blank(t) /\ phase[t] = "none"
  BY <1>1, <1>3, Numbers DEF Ahead
<1> QED
  BY <1>1, <1>2, <1>3, <1>4 DEF Row, Settled, Interrupted, Renamed, Back

\* What the authoring leaves of its target.
LEMMA Authored ==
  ASSUME TargetsOK, ArtifactsOK, NEW t \in Targets,
         Shaped(t), Unrenamed(t), Blank(t), phase[t] = "none",
         UNCHANGED <<plan, frozen, phase, left, used>>,
         original'[t] \in {Public(t), original[t]},
         \A n \in {"public", "delete"} : file'[<<t, n>>] = file[<<t, n>>],
         expects'[<<t, "delete">>] = expects[<<t, "delete">>],
         \A n \in {"stage", "recovery"} :
            expects'[<<t, n>>] = file'[<<t, n>>] \/ expects'[<<t, n>>] = Nothing,
         file'[<<t, "stage">>] \in {Nothing, "new"}, file'[<<t, "recovery">>] \in {Nothing, "copy"},
         plan[t] # "write" => file'[<<t, "stage">>] = Nothing /\ file'[<<t, "recovery">>] = Nothing
  PROVE  Shaped(t)' /\ Unrenamed(t)'
<1>1. \A n \in Private : file[<<t, n>>] = Nothing /\ expects[<<t, n>>] = Nothing
  BY DEF Blank
<1>2. Public(t) \in {frozen[t], Nothing} \union used
  BY EditsAreNew DEF Unrenamed, Shaped, TargetsOK
<1>3. Public(t) # frozen[t] => left[t] # Untouched
  BY DEF Unrenamed
<1>4. Shaped(t)'
  BY <1>1, <1>2, EditsAreNew, TheNames DEF Shaped, Names, TargetsOK, Public
<1>5. Unrenamed(t)'
  BY <1>1, <1>3, TheNames DEF Unrenamed, Blank, Public
<1> QED
  BY <1>4, <1>5

\* The private files of a target are authored.
LEMMA AuthorStep == ASSUME PInv, Author PROVE PInv'
<1>1. TargetsOK /\ ArtifactsOK /\ ControlOK /\ Rows /\ Control
  BY DEF PInv, PTypeOK
<1>2. /\ pc = "author" /\ ~Active /\ pc \notin Cleaning
      /\ UNCHANGED <<plan, stored, frozen, keep, phase, localVars, endVars, editVars, faults>>
      /\ original' = [original EXCEPT ![cur] = Public(cur)]
  BY DEF Author, Active, Cleaning
<1>3. cur \in Targets /\ cur # 0
  BY <1>1, <1>2, CurTarget DEF Control
<1>4. Public(cur) \in Content /\ <<cur, "stage">> \in Targets \X Private
      /\ <<cur, "recovery">> \in Targets \X Private
  BY <1>1, <1>3, TheNames DEF ArtifactsOK, Public
<1>5. TargetsOK' /\ original'[cur] = Public(cur)
      /\ \A t \in Targets \ {cur} : original'[t] = original[t]
  BY <1>1, <1>2, <1>3, <1>4 DEF TargetsOK, editVars
<1>6. /\ file' \in [Targets \X Names -> Content] /\ expects' \in [Targets \X Private -> Content]
      /\ \A t \in Targets \ {cur} : /\ \A n \in Names : file'[<<t, n>>] = file[<<t, n>>]
                                    /\ \A n \in Private : expects'[<<t, n>>] = expects[<<t, n>>]
      /\ \A n \in {"public", "delete"} : file'[<<cur, n>>] = file[<<cur, n>>]
      /\ expects'[<<cur, "delete">>] = expects[<<cur, "delete">>]
      /\ IF plan[cur] = "write"
         THEN /\ file'[<<cur, "stage">>] = "new" /\ expects'[<<cur, "stage">>] = "new"
              /\ expects'[<<cur, "recovery">>] = file'[<<cur, "recovery">>]
              /\ file'[<<cur, "recovery">>] = IF Public(cur) = Nothing THEN "copy" ELSE Nothing
         ELSE UNCHANGED <<file, expects>>
  <2>1. CASE plan[cur] # "write"
    <3>1. UNCHANGED <<file, expects>>
      BY <2>1 DEF Author
    <3> QED
      BY <1>1, <2>1, <3>1 DEF ArtifactsOK
  <2>2. CASE plan[cur] = "write"
    <3>1. PICK copy \in {"copy", Nothing} :
             /\ copy = IF Public(cur) = Nothing THEN "copy" ELSE Nothing
             /\ file' = [file EXCEPT ![<<cur, "stage">>] = "new", ![<<cur, "recovery">>] = copy]
             /\ expects' = [expects EXCEPT ![<<cur, "stage">>] = "new",
                                            ![<<cur, "recovery">>] = copy]
      BY <2>2 DEF Author
    <3>2. copy \in Content /\ "new" \in Content
      BY DEF Content
    <3>3. /\ file' \in [Targets \X Names -> Content]
          /\ \A t \in Targets \ {cur} : \A n \in Names : file'[<<t, n>>] = file[<<t, n>>]
          /\ \A n \in {"public", "delete"} : file'[<<cur, n>>] = file[<<cur, n>>]
          /\ file'[<<cur, "stage">>] = "new" /\ file'[<<cur, "recovery">>] = copy
      BY <1>1, <1>3, <3>1, <3>2, TheNames DEF ArtifactsOK
    <3>4. /\ expects' \in [Targets \X Private -> Content]
          /\ \A t \in Targets \ {cur} : \A n \in Private : expects'[<<t, n>>] = expects[<<t, n>>]
          /\ expects'[<<cur, "delete">>] = expects[<<cur, "delete">>]
          /\ expects'[<<cur, "stage">>] = "new" /\ expects'[<<cur, "recovery">>] = copy
      BY <1>1, <1>3, <1>4, <3>1, <3>2, TheNames DEF ArtifactsOK
    <3> QED
      BY <2>2, <3>1, <3>3, <3>4
  <2> QED
    BY <2>1, <2>2
<1>7. ArtifactsOK'
  BY <1>1, <1>2, <1>6 DEF ArtifactsOK, localVars
<1>8. ASSUME NEW t \in Targets, t # cur PROVE Same(t)
  BY <1>2, <1>5, <1>6, <1>8 DEF Same, SameRow, SameFiles, endVars, editVars
<1>9. ASSUME NEW t \in Targets, t = cur
      PROVE  /\ Shaped(t)' /\ Settled(t)' /\ phase[t] = "none" /\ ~rolling /\ phase' = phase
             /\ plan[t] # "delete" \/ Public(t) # Nothing => Ready(t)'
  <2>1. /\ Shaped(t) /\ Unrenamed(t) /\ Blank(t) /\ phase[t] = "none" /\ t \notin reported
        /\ ~rolling
    BY <1>2, <1>9, NextAuthored
  <2>2. Shaped(t)' /\ Unrenamed(t)'
    <3>1. plan[t] # "write" => file'[<<t, "stage">>] = Nothing /\ file'[<<t, "recovery">>] = Nothing
      BY <1>6, <1>9, <2>1, TheNames DEF Shaped
    <3>2. plan[t] # "write" =>
            expects'[<<t, "stage">>] = Nothing /\ expects'[<<t, "recovery">>] = Nothing
      BY <1>6, <1>9, <2>1, TheNames DEF Blank
    <3> QED
      BY <1>1, <1>2, <1>5, <1>6, <1>9, <2>1, <3>1, <3>2, Authored DEF editVars
  <2>3. Ready(t)'
    BY <1>2, <1>5, <1>6, <1>9, <2>1 DEF Ready
  <2> QED
    BY <1>2, <2>1, <2>2, <2>3 DEF Settled, endVars
<1>10. CASE Resume
  <2>1. ControlOK'
    BY <1>1, <1>2, <1>3, <1>10, Resuming DEF ControlOK, localVars, endVars
  <2> QED
    BY <1>1, <1>2, <1>3, <1>5, <1>7, <1>8, <1>9, <1>10, <2>1, StepBack DEF endVars
<1>11. CASE Pass("author", "preflight")
  <2>1. /\ rolling' = rolling /\ cur' \in 1..N
        /\ \/ cur = N /\ pc' = "preflight" /\ cur' = 1
           \/ cur < N /\ pc' = "author" /\ cur' = cur + 1
    <3>1. "author" \in Steps /\ "preflight" \in Steps
      BY DEF Steps
    <3> QED
      BY <1>1, <1>3, <1>11, <3>1, Passing
  <2>2. ControlOK' /\ ~Active' /\ pc' \notin Cleaning
    BY <1>1, <1>2, <2>1 DEF ControlOK, localVars, endVars, Active, Cleaning, Steps
  <2>3. ASSUME NEW t \in Targets PROVE Row(t)'
    <3>1. t # cur => Row(t)'
      BY <1>1, <1>2, <1>8, <2>2, Bystander DEF Rows
    <3>2. t = cur => Row(t)'
      BY <1>9, <2>2 DEF Row
    <3> QED
      BY <3>1, <3>2
  <2>4. ASSUME NEW t \in Targets PROVE Ahead(t)'
    <3>1. /\ Ahead(t) /\ (t # cur => Same(t))
          /\ (t # cur => phase'[t] = phase[t] /\ (Ready(t) => Ready(t)') /\ (Blank(t) => Blank(t)'))
      BY <1>1, <1>8, KeepsReady DEF Rows, Same, SameRow
    <3>2. t = cur => Ready(t)' /\ phase'[t] = "none"
      <4>1. pc' # "rollback"
        BY <2>1
      <4>2. t = cur => plan[t] # "delete" \/ Public(t) # Nothing
        BY <4>1 DEF Author, Resume
      <4> QED
        BY <1>9, <4>2
    <3> QED
      BY <1>1, <1>2, <1>9, <2>1, <3>1, <3>2, Numbers DEF Ahead, Active, Cleaning
  <2>5. Control'
    BY <1>1, <1>2, <2>1, <2>2 DEF Control, Cleaning, Forward, endVars
  <2> QED
    BY <1>5, <1>7, <2>2, <2>3, <2>4, <2>5, NotYet DEF PInv, PTypeOK, Rows
<1> QED
  BY <1>10, <1>11 DEF Author

-----------------------------------------------------------------------------
(* The renames of the promotion.                                           *)

\* The target whose turn it is.
LEMMA NextRenamed ==
  ASSUME PInv, pc = "swap", NEW t \in Targets, t = cur
  PROVE  /\ Shaped(t) /\ Unrenamed(t) /\ Ready(t) /\ Checked(t) /\ phase[t] = "none"
         /\ t \notin reported /\ ~rolling /\ ~Active
<1>1. ControlOK /\ Rows /\ Control
  BY DEF PInv, PTypeOK
<1>2. ~rolling /\ reported = {} /\ ~Active
  BY <1>1 DEF Control, Forward, Active
<1>3. Row(t) /\ Ahead(t)
  BY <1>1 DEF Rows
<1>4. Ready(t) /\ Checked(t) /\ phase[t] = "none"
  BY <1>3 DEF Ahead, Ready
<1> QED
  BY <1>2, <1>3, <1>4 DEF Row, Settled, Interrupted, Renamed, Back

\* The names after the rename of a target.
LEMMA RenamedNames ==
  ASSUME PTypeOK, NEW t \in Targets, plan[t] # "keep", RenameTarget(t)
  PROVE  /\ file' \in [Targets \X Names -> Content]
         /\ \A u \in Targets \ {t} : \A n \in Names : file'[<<u, n>>] = file[<<u, n>>]
         /\ file'[<<t, "recovery">>] = file[<<t, "recovery">>]
         /\ Operation(t) = "replace" =>
              /\ file'[<<t, "public">>] = file[<<t, "stage">>]
              /\ file'[<<t, "stage">>] = file[<<t, "public">>]
              /\ file'[<<t, "delete">>] = file[<<t, "delete">>]
         /\ Operation(t) = "create" =>
              /\ file'[<<t, "public">>] = file[<<t, "stage">>]
              /\ file'[<<t, "stage">>] = Nothing
              /\ file'[<<t, "delete">>] = file[<<t, "delete">>]
         /\ Operation(t) = "delete" =>
              /\ file'[<<t, "public">>] = Nothing
              /\ file'[<<t, "delete">>] = file[<<t, "public">>]
              /\ file'[<<t, "stage">>] = file[<<t, "stage">>]
<1>1. CASE Operation(t) = "replace"
  <2>1. Exchange(t) /\ Aside(t) = "stage"
    BY <1>1 DEF RenameTarget, Operation, Aside
  <2> QED
    BY <1>1, <2>1, Exchanged, TheNames
<1>2. CASE Operation(t) = "create"
  <2>1. Rename(t, "stage", "public")
    BY <1>2 DEF RenameTarget
  <2>2. /\ file' \in [Targets \X Names -> Content]
        /\ file'[<<t, "public">>] = file[<<t, "stage">>] /\ file'[<<t, "stage">>] = Nothing
        /\ \A n \in Names \ {"stage", "public"} : file'[<<t, n>>] = file[<<t, n>>]
        /\ \A u \in Targets \ {t} : \A n \in Names : file'[<<u, n>>] = file[<<u, n>>]
    BY <2>1, Moved, TheNames
  <2> QED
    BY <1>2, <2>2, TheNames
<1>3. CASE Operation(t) = "delete"
  <2>1. Rename(t, "public", "delete")
    BY <1>3 DEF RenameTarget
  <2>2. /\ file' \in [Targets \X Names -> Content]
        /\ file'[<<t, "delete">>] = file[<<t, "public">>] /\ file'[<<t, "public">>] = Nothing
        /\ \A n \in Names \ {"public", "delete"} : file'[<<t, n>>] = file[<<t, n>>]
        /\ \A u \in Targets \ {t} : \A n \in Names : file'[<<u, n>>] = file[<<u, n>>]
    BY <2>1, Moved, TheNames
  <2> QED
    BY <1>3, <2>2, TheNames
<1> QED
  BY <1>1, <1>2, <1>3 DEF Operation

\* A renamed target before its record is written: nothing of the editor's is
\* gone, and what the build found is set aside.
LEMMA Taken ==
  ASSUME PTypeOK, NEW t \in Targets, plan[t] # "keep", Renamable(t), RenameTarget(t),
         Shaped(t), Unrenamed(t), Ready(t), Checked(t),
         UNCHANGED <<plan, frozen, original, left, used>>
  PROVE  /\ Shaped(t)' /\ Checked(t)' /\ Anchored(t)' /\ Located(t)'
         /\ Operation(t)' = Operation(t)
         /\ Operation(t) = "create" => file'[<<t, "stage">>] = Nothing
         /\ left[t] = Untouched => /\ Public(t)' = Wanted(t)'
                                   /\ Operation(t) # "create" => file'[<<t, Aside(t)>>] = "original"
                                   /\ frozen[t] # Nothing => file'[<<t, Aside(t)>>] = "original"
<1>1. TargetsOK
  BY DEF PTypeOK
<1>2. /\ Operation(t)' = Operation(t) /\ Aside(t)' = Aside(t) /\ Wanted(t)' = Wanted(t)
      /\ Changed(t)' = Changed(t)
  BY DEF Operation, Aside, Wanted, Changed
<1>3. Public(t) \in {frozen[t], left[t]} /\ (left[t] = Untouched => Public(t) = frozen[t])
      /\ (left[t] # Untouched => Public(t) = left[t]) /\ file[<<t, "delete">>] = Nothing
  BY DEF Unrenamed
<1>4. CASE Operation(t) = "replace"
  <2>0. /\ file'[<<t, "public">>] = file[<<t, "stage">>]
        /\ file'[<<t, "stage">>] = file[<<t, "public">>]
        /\ file'[<<t, "delete">>] = file[<<t, "delete">>]
        /\ file'[<<t, "recovery">>] = file[<<t, "recovery">>]
    BY <1>4, RenamedNames
  <2>1. /\ plan[t] = "write" /\ original[t] # Nothing /\ Public(t) # Nothing
        /\ file[<<t, "stage">>] = "new" /\ Aside(t) = "stage"
    BY <1>1, <1>4 DEF Operation, Renamable, Ready, TargetsOK, Aside
  <2>2. Shaped(t)'
    BY <1>1, <1>3, <1>4, <2>1, <2>0, EditsAreNew, TheNames DEF Shaped, Names, Public
  <2>3. Checked(t)' /\ Anchored(t)'
    BY <1>1, <1>2, <1>3, <1>4, <2>1, <2>0, EditsAreNew, TheNames
    DEF Checked, Anchored, Names, Public
  <2>4. Located(t)'
    BY <1>1, <1>2, <1>3, <1>4, <2>0, <2>1, EditsAreNew
    DEF Located, Changed, Public, Nothing, Untouched
  <2>5. left[t] = Untouched => Public(t)' = Wanted(t)' /\ file'[<<t, Aside(t)>>] = "original"
    BY <1>2, <1>3, <1>4, <2>0, <2>1 DEF Public, Wanted, Shaped
  <2> QED
    BY <1>2, <1>4, <2>2, <2>3, <2>4, <2>5
<1>5. CASE Operation(t) = "create"
  <2>0. /\ file'[<<t, "public">>] = file[<<t, "stage">>] /\ file'[<<t, "stage">>] = Nothing
        /\ file'[<<t, "delete">>] = file[<<t, "delete">>]
        /\ file'[<<t, "recovery">>] = file[<<t, "recovery">>]
    BY <1>5, RenamedNames
  <2>1. /\ plan[t] = "write" /\ original[t] = Nothing /\ Public(t) = Nothing /\ frozen[t] = Nothing
        /\ file[<<t, "stage">>] = "new" /\ file[<<t, "recovery">>] = "copy" /\ Aside(t) = "stage"
    <3>1. plan[t] = "write" /\ original[t] = Nothing
      BY <1>1, <1>5, OperationOf
    <3>2. frozen[t] = Nothing
      BY <1>1, <3>1, EditsAreNew DEF Checked, TargetsOK
    <3> QED
      BY <1>5, <3>1, <3>2 DEF Renamable, Ready, Aside
  <2>2. Shaped(t)'
    BY <1>1, <1>3, <1>5, <2>1, <2>0, EditsAreNew, TheNames DEF Shaped, Names, Public
  <2>3. Checked(t)' /\ Anchored(t)'
    BY <1>1, <1>2, <1>3, <1>5, <2>0, <2>1 DEF Checked, Anchored
  <2>4. Located(t)'
    BY <1>1, <1>2, <1>3, <1>5, <2>1, EditsAreNew, RenamedNames DEF Located, Changed, Public
  <2>5. left[t] = Untouched => Public(t)' = Wanted(t)'
    BY <1>2, <1>3, <1>5, <2>0, <2>1 DEF Public, Wanted, Shaped
  <2> QED
    BY <1>2, <1>5, <2>1, <2>2, <2>3, <2>4, <2>5, <2>0
<1>6. CASE Operation(t) = "delete"
  <2>0. /\ file'[<<t, "public">>] = Nothing /\ file'[<<t, "delete">>] = file[<<t, "public">>]
        /\ file'[<<t, "stage">>] = file[<<t, "stage">>]
        /\ file'[<<t, "recovery">>] = file[<<t, "recovery">>]
    BY <1>6, RenamedNames
  <2>1. plan[t] = "delete" /\ Public(t) # Nothing /\ frozen[t] = "original" /\ Aside(t) = "delete"
    BY <1>1, <1>6 DEF Operation, Renamable, TargetsOK, Aside, Shaped
  <2>2. Shaped(t)'
    BY <1>1, <1>3, <1>6, <2>1, <2>0, EditsAreNew, TheNames DEF Shaped, Names, Public
  <2>3. Checked(t)' /\ Anchored(t)'
    BY <1>1, <1>2, <1>3, <1>6, <2>0, <2>1 DEF Checked, Anchored, Public, Nothing
  <2>4. Located(t)'
    BY <1>1, <1>2, <1>3, <2>0, <2>1, EditsAreNew DEF Located, Changed, Public
  <2>5. left[t] = Untouched => Public(t)' = Wanted(t)' /\ file'[<<t, Aside(t)>>] = "original"
    BY <1>2, <1>3, <1>6, <2>0, <2>1 DEF Public, Wanted, Shaped
  <2> QED
    BY <1>2, <1>6, <2>2, <2>3, <2>4, <2>5
<1> QED
  BY <1>4, <1>5, <1>6 DEF Operation

\* A rename that failed: the record says that it was begun.
LEMMA NotRenamed ==
  ASSUME PInv, pc = "swap", plan[cur] # "keep", SetPhase("pending"), Resume,
         UNCHANGED <<planVars, diskVars, artVars, localVars, endVars, editVars>>,
         faults' \in [errors: 0..MaxErrors, interrupts: 0..MaxInterrupts],
         faults'.interrupts = faults.interrupts
  PROVE  PInv'
<1>1. TargetsOK /\ ArtifactsOK /\ ControlOK /\ Rows /\ Control
  BY DEF PInv, PTypeOK
<1>2. ~rolling /\ cur # 0 /\ cur \in Targets
  BY <1>1, CurTarget DEF Control, Forward
<1>3. /\ phase' \in [Targets -> Phases] /\ phase'[cur] = "pending"
      /\ \A t \in Targets \ {cur} : phase'[t] = phase[t]
  BY <1>1, <1>2, PhaseIsSet DEF Phases
<1>4. TargetsOK' /\ ArtifactsOK' /\ ControlOK'
  <2>1. pc' \in Steps /\ cur' \in 0..N /\ rolling' \in BOOLEAN
    BY <1>1, <1>2, Resuming
  <2> QED
    BY <1>1, <1>3, <2>1 DEF TargetsOK, ArtifactsOK, ControlOK, planVars, diskVars, artVars,
       localVars, endVars, editVars
<1>5. ASSUME NEW t \in Targets \ {cur} PROVE Same(t)
  BY <1>3 DEF Same, SameRow, SameFiles, planVars, diskVars, artVars, endVars, editVars
<1>6. ASSUME NEW t \in Targets, t = cur PROVE Shaped(t)' /\ Settled(t)'
  <2>1. Shaped(t) /\ Unrenamed(t) /\ t \notin reported
    BY <1>6, NextRenamed
  <2>2. Shaped(t)'
    BY <2>1 DEF Shaped, planVars, diskVars, editVars
  <2>3. Unrenamed(t)'
    BY <1>3, <1>6, <2>1 DEF Unrenamed, Public, planVars, diskVars, artVars, editVars
  <2> QED
    BY <2>1, <2>2, <2>3 DEF Settled, endVars
<1> QED
  BY <1>1, <1>2, <1>4, <1>5, <1>6, StepBack DEF diskVars, artVars, endVars

\* A target is renamed, or its rename fails.
LEMMA PromoteStep == ASSUME PInv, Promote PROVE PInv'
<1>1. TargetsOK /\ ArtifactsOK /\ ControlOK /\ Rows /\ Control /\ PTypeOK
  BY DEF PInv, PTypeOK
<1>2. /\ pc = "swap" /\ cur # 0 /\ cur \in Targets
      /\ UNCHANGED <<plan, frozen, original, stored, keep, art, seen, want, tries, reported,
                     warned, outcome, left, used, faults>>
  BY <1>1, CurTarget DEF Promote, Control, planVars, localVars, endVars, editVars
<1>3. ~rolling
  BY <1>1, <1>2 DEF Control, Forward
<1>4. CASE plan[cur] = "keep" /\ Pass("swap", "check") /\ UNCHANGED <<file, expects, phase>>
  <2>1. ASSUME NEW t \in Targets, t = cur PROVE Passed(t)
    BY <1>2, <1>4, <2>1, NextRenamed DEF Passed
  <2> QED
    BY <1>2, <1>3, <1>4, <2>1, StepPass DEF planVars, diskVars, artVars, endVars, editVars
<1>5. CASE /\ plan[cur] # "keep" /\ Renamable(cur) /\ RenameTarget(cur) /\ ExpectAside(cur)
           /\ SetPhase("promoted") /\ Goto("read")
  <2>1. /\ phase' \in [Targets -> Phases] /\ phase'[cur] = "promoted"
        /\ \A t \in Targets \ {cur} : phase'[t] = phase[t]
    BY <1>1, <1>2, <1>5, PhaseIsSet DEF Phases
  <2>2. /\ file' \in [Targets \X Names -> Content]
        /\ \A t \in Targets \ {cur} : \A n \in Names : file'[<<t, n>>] = file[<<t, n>>]
    BY <1>1, <1>2, <1>5, RenamedNames
  <2>3. /\ expects' \in [Targets \X Private -> Content]
        /\ \A t \in Targets \ {cur} : \A n \in Private : expects'[<<t, n>>] = expects[<<t, n>>]
    <3>1. PICK v \in Content : expects' = [expects EXCEPT ![<<cur, Aside(cur)>>] = v]
      BY <1>1, <1>2, <1>5 DEF ExpectAside, TargetsOK, Content
    <3>2. <<cur, Aside(cur)>> \in Targets \X Private
      BY <1>2, AsidePrivate
    <3> QED
      BY <1>1, <3>1, <3>2, Expected
  <2>4. pc' = "read" /\ cur' = cur /\ rolling' = rolling /\ Active'
    BY <1>5 DEF Goto, Active
  <2>5. TargetsOK' /\ ArtifactsOK' /\ ControlOK'
    BY <1>1, <1>2, <2>1, <2>2, <2>3, <2>4 DEF TargetsOK, ArtifactsOK, ControlOK, Steps
  <2>6. ASSUME NEW t \in Targets \ {cur} PROVE Same(t)
    BY <1>2, <2>1, <2>2, <2>3 DEF Same, SameRow, SameFiles
  <2>7. ASSUME NEW t \in Targets, t = cur PROVE Shaped(t)' /\ Stepped(t)'
    <3>1. /\ Shaped(t) /\ Unrenamed(t) /\ Ready(t) /\ Checked(t) /\ phase[t] = "none"
          /\ t \notin reported
      BY <1>2, <2>7, NextRenamed
    <3>2. /\ Shaped(t)' /\ Checked(t)' /\ Anchored(t)' /\ Located(t)'
          /\ Operation(t)' = Operation(t)
          /\ Operation(t) = "create" => file'[<<t, "stage">>] = Nothing
          /\ left[t] = Untouched => /\ Public(t)' = Wanted(t)'
                                    /\ Operation(t) # "create" => file'[<<t, Aside(t)>>] = "original"
      BY <1>1, <1>2, <1>5, <2>7, <3>1, Taken
    <3>3. Expecting(t)' /\ Listed(t)'
      <4>1. /\ \A n \in Private : expects[<<t, n>>] \in {Nothing, "new", "copy"}
            /\ expects[<<t, "recovery">>] \in {Nothing, "copy"}
            /\ expects[<<t, "delete">>] = Nothing
            /\ plan[t] # "write" => expects[<<t, "stage">>] = Nothing
        BY <3>1, TheNames DEF Shaped, Unrenamed
      <4>2. expects' = [expects EXCEPT ![<<t, Aside(t)>>] =
                          IF Operation(t) = "create" THEN Nothing ELSE original[t]]
        BY <1>5, <2>7 DEF ExpectAside
      <4>3. \A n \in Private : <<t, n>> \in Targets \X Private
        BY <2>7
      <4>4. \A n \in Private : expects'[<<t, n>>] =
              IF n = Aside(t) THEN (IF Operation(t) = "create" THEN Nothing ELSE original[t])
              ELSE expects[<<t, n>>]
        BY <1>1, <4>2, <4>3 DEF ArtifactsOK
      <4>5. Aside(t) \in {"stage", "delete"} /\ (Aside(t) = "delete" <=> plan[t] = "delete")
            /\ Aside(t)' = Aside(t)
        BY <1>2 DEF Aside
      <4>6. Expecting(t)'
        <5>1. Operation(t)' = Operation(t)
          BY <3>2
        <5> QED
          BY <1>2, <4>1, <4>4, <4>5, <5>1 DEF Expecting
      <4>7. Listed(t)'
        BY <4>1, <4>4, <4>5, TheNames DEF Listed
      <4> QED
        BY <4>6, <4>7
    <3>4. Renamed(t)'
      BY <1>2, <1>5, <2>1, <2>7, <3>2, <3>3, SameOperation DEF Renamed
    <3> QED
      BY <1>2, <1>5, <2>4, <2>7, <3>1, <3>2, <3>3, <3>4 DEF Stepped
  <2> QED
    BY <1>2, <1>3, <2>4, <2>5, <2>6, <2>7, StepOn
<1>6. CASE /\ plan[cur] # "keep" /\ SetPhase("pending") /\ Resume /\ UNCHANGED <<file, expects>>
  BY <1>1, <1>2, <1>3, <1>6, NotRenamed
     DEF ControlOK, localVars, endVars, planVars, editVars, diskVars, artVars
<1> QED
  BY <1>4, <1>5, <1>6 DEF Promote

\* A target is renamed and its record does not say so.
LEMMA InterruptStep == ASSUME PInv, Interrupt PROVE PInv'
<1>1. TargetsOK /\ ArtifactsOK /\ ControlOK /\ Rows /\ Control /\ PTypeOK
  BY DEF PInv, PTypeOK
<1>2. /\ pc = "swap" /\ cur # 0 /\ cur \in Targets /\ plan[cur] # "keep" /\ Renamable(cur)
      /\ RenameTarget(cur) /\ SetPhase("pending") /\ Resume
      /\ UNCHANGED <<plan, frozen, original, stored, keep, expects, localVars, reported,
                     warned, outcome, left, used>>
  BY <1>1, CurTarget DEF Interrupt, Control, planVars, artVars, endVars, editVars
<1>3. ~rolling
  BY <1>1, <1>2 DEF Control, Forward
<1>4. faults' \in [errors: 0..MaxErrors, interrupts: 0..MaxInterrupts] /\ faults'.interrupts > 0
  BY <1>1, PromotionBounds DEF Interrupt, ControlOK
<1>5. /\ phase' \in [Targets -> Phases] /\ phase'[cur] = "pending"
      /\ \A t \in Targets \ {cur} : phase'[t] = phase[t]
  BY <1>1, <1>2, PhaseIsSet DEF Phases
<1>6. /\ file' \in [Targets \X Names -> Content]
      /\ \A t \in Targets \ {cur} : \A n \in Names : file'[<<t, n>>] = file[<<t, n>>]
  BY <1>1, <1>2, RenamedNames
<1>7. pc' = "rollback" /\ rolling' = TRUE /\ cur' \in 0..N
  BY <1>1, <1>2, Resuming
<1>8. TargetsOK' /\ ArtifactsOK' /\ ControlOK'
  BY <1>1, <1>2, <1>4, <1>5, <1>6, <1>7
  DEF TargetsOK, ArtifactsOK, ControlOK, Steps, localVars
<1>9. ASSUME NEW t \in Targets \ {cur} PROVE Same(t)
  BY <1>2, <1>4, <1>5, <1>6 DEF Same, SameRow, SameFiles
<1>10. ASSUME NEW t \in Targets, t = cur PROVE Shaped(t)' /\ Settled(t)'
  <2>1. /\ Shaped(t) /\ Unrenamed(t) /\ Ready(t) /\ Checked(t) /\ phase[t] = "none"
        /\ t \notin reported
    BY <1>2, <1>10, NextRenamed
  <2>2. /\ Shaped(t)'
        /\ left[t] = Untouched /\ frozen[t] # Nothing => file'[<<t, Aside(t)>>] = "original"
    BY <1>1, <1>2, <1>10, <2>1, Taken
  <2>3. \A n \in Private : expects[<<t, n>>] \in {Nothing, file[<<t, n>>]}
    BY <2>1 DEF Unrenamed
  <2>4. Aside(t)' = Aside(t)
    BY <1>2 DEF Aside
  <2>5. Interrupted(t)'
    BY <1>2, <1>4, <1>5, <1>10, <2>1, <2>2, <2>3, <2>4, TheNames
    DEF Interrupted, Shaped, Unrenamed
  <2> QED
    BY <1>2, <2>1, <2>2, <2>5 DEF Settled
<1> QED
  BY <1>1, <1>2, <1>3, <1>8, <1>9, <1>10, StepBack

\* A target that compares as expected is done.
LEMMA Compared ==
  ASSUME PInv, pc = "compare", NEW t \in Targets, t = cur, Promoted(t)
  PROVE  Passed(t)
<1>1. TargetsOK /\ Rows /\ Active
  BY DEF PInv, PTypeOK, Active
<1>2. Shaped(t) /\ Stepped(t) /\ Renamed(t) /\ Expecting(t) /\ plan[t] # "keep"
  BY <1>1 DEF Rows, Row, Stepped
<1>3. Public(t) = Wanted(t) /\ (Operation(t) # "create" => seen.private = original[t])
  BY DEF Promoted
<1>4. CASE Operation(t) = "create"
  <2>1. /\ plan[t] = "write" /\ original[t] = Nothing /\ Public(t) = "new" /\ Aside(t) = "stage"
        /\ file[<<t, "stage">>] = Nothing
    BY <1>1, <1>2, <1>3, <1>4, OperationOf DEF Renamed, Wanted
  <2>2. original[t] = frozen[t]
    BY <1>1, <1>2, <2>1, EditsAreNew DEF Renamed, Checked, TargetsOK
  <2>3. Tracked(t)
    BY <1>2, <2>1, EditsAreNew DEF Renamed, Located, Tracked, Changed, Nothing
  <2>4. Watched(t)
    BY <1>2, <1>4, <2>1, EditsAreNew, TheNames DEF Watched, Expecting, Shaped
  <2> QED
    BY <1>2, <2>2, <2>3, <2>4 DEF Passed, Proven
<1>5. CASE Operation(t) # "create"
  <2>1. Tracked(t) /\ original[t] = frozen[t]
    BY <1>2, <1>3, <1>5 DEF Stepped
  <2>2. Watched(t)
    <3>1. original[t] = "original"
      BY <1>1, <1>2, <1>5, <2>1, OperationOf DEF Shaped
    <3>2. Aside(t) \in {"stage", "delete"} /\ (Aside(t) = "delete" <=> plan[t] = "delete")
      BY DEF Aside
    <3> QED
      BY <1>2, <1>5, <3>1, <3>2, EditsAreNew, TheNames DEF Watched, Expecting, Shaped, Nothing
  <2> QED
    BY <1>2, <2>1, <2>2 DEF Passed, Proven
<1> QED
  BY <1>4, <1>5

\* A renamed target is compared, and given back when it was edited.
LEMMA CompareStep == ASSUME PInv, Compare PROVE PInv'
<1>1. TargetsOK /\ ArtifactsOK /\ ControlOK /\ Rows /\ Control /\ PTypeOK
  BY DEF PInv, PTypeOK
<1>2. /\ pc = "compare" /\ Active /\ cur # 0 /\ cur \in Targets
      /\ UNCHANGED <<plan, frozen, original, file, stored, phase, art, seen, tries, warned,
                     outcome, left, used, faults>>
  BY <1>1, CurTarget DEF Compare, Control, planVars, diskVars, editVars, Active
<1>3. ~rolling
  BY <1>1, <1>2 DEF Control, Forward
<1>4. ASSUME NEW t \in Targets, t = cur
      PROVE  Shaped(t) /\ Renamed(t) /\ plan[t] # "keep" /\ t \notin reported
  BY <1>1, <1>2, <1>4 DEF Rows, Row, Stepped
<1>5. CASE Promoted(cur) /\ Pass("swap", "check") /\ UNCHANGED <<want, reported, keep, expects>>
  <2>1. ASSUME NEW t \in Targets, t = cur PROVE Passed(t)
    BY <1>2, <1>5, <2>1, Compared
  <2> QED
    BY <1>2, <1>3, <1>5, <2>1, StepPass DEF planVars, diskVars, artVars, endVars, editVars
<1>6. CASE /\ Operation(cur) # "create" /\ want' = seen.private
           /\ expects' = IF seen.private = Nothing THEN expects
                         ELSE [expects EXCEPT ![<<cur, Aside(cur)>>] = seen.private]
           /\ Goto(IF Operation(cur) = "replace" THEN "unswap" ELSE "unmove")
           /\ UNCHANGED <<reported, keep>>
  <2>1. /\ pc' = (IF Operation(cur) = "replace" THEN "unswap" ELSE "unmove") /\ Active'
        /\ cur' = cur /\ rolling' = rolling
    BY <1>6 DEF Goto, Active
  <2>2. seen.private \in Content
    BY <1>1 DEF ControlOK
  <2>3. /\ expects' \in [Targets \X Private -> Content]
        /\ \A t \in Targets \ {cur} : \A n \in Private : expects'[<<t, n>>] = expects[<<t, n>>]
    <3>1. <<cur, Aside(cur)>> \in Targets \X Private
      BY <1>2, AsidePrivate
    <3> QED
      BY <1>1, <1>6, <2>2, <3>1, Expected DEF ArtifactsOK
  <2>4. TargetsOK' /\ ArtifactsOK' /\ ControlOK'
    BY <1>1, <1>2, <1>6, <2>1, <2>2, <2>3 DEF TargetsOK, ArtifactsOK, ControlOK, Steps
  <2>5. ASSUME NEW t \in Targets \ {cur} PROVE Same(t)
    BY <1>2, <1>6, <2>3 DEF Same, SameRow, SameFiles
  <2>6. ASSUME NEW t \in Targets, t = cur PROVE Shaped(t)' /\ Stepped(t)'
    <3>1. Shaped(t)'
      BY <1>2, <1>4, <2>6 DEF Shaped
    <3>2. Operation(t)' = Operation(t) /\ Operation(t) \in {"replace", "delete"}
      BY <1>1, <1>2, <1>6, <2>6, OperationOf, SameOperation
    <3>3. Listed(t)'
      <4>1. \A n \in Private \ {Aside(t)} : expects'[<<t, n>>] = expects[<<t, n>>]
        BY <1>1, <1>2, <1>6, <2>2, <2>6, Expected, AsidePrivate
      <4>2. Aside(t)' = Aside(t) /\ Aside(t) # "recovery"
        BY <1>2 DEF Aside
      <4>3. Listed(t)
        BY <1>4, <2>6 DEF Renamed
      <4>4. expects'[<<t, "recovery">>] = expects[<<t, "recovery">>]
        BY <4>1, <4>2, TheNames
      <4>5. \A n \in {"stage", "delete"} \ {Aside(t)} : expects'[<<t, n>>] = expects[<<t, n>>]
        BY <4>1, TheNames
      <4> QED
        BY <4>2, <4>3, <4>4, <4>5 DEF Listed
    <3>4. Renamed(t)'
      BY <1>1, <1>2, <1>4, <1>6, <2>6, <3>2, <3>3
      DEF Renamed, Checked, Anchored, Located, Changed, Public, Wanted, Aside
    <3> QED
      BY <1>2, <1>4, <1>6, <2>1, <2>6, <3>1, <3>2, <3>4 DEF Stepped
  <2> QED
    BY <1>2, <1>6, <2>1, <2>4, <2>5, <2>6, StepOn
<1>7. CASE /\ Operation(cur) = "create"
           /\ reported' = reported \union {cur} /\ keep' = keep \union {<<cur, "recovery">>}
           /\ Resume /\ UNCHANGED <<want, expects>>
  <2>1. pc' = "rollback" /\ rolling' = TRUE /\ cur' \in 0..N
    BY <1>1, <1>2, <1>7, Resuming
  <2>2. TargetsOK' /\ ArtifactsOK' /\ ControlOK'
    BY <1>1, <1>2, <1>7, <2>1, TheNames DEF TargetsOK, ArtifactsOK, ControlOK, Steps
  <2>3. ASSUME NEW t \in Targets \ {cur} PROVE Same(t)
    BY <1>2, <1>7 DEF Same, SameRow, SameFiles
  <2>4. ASSUME NEW t \in Targets, t = cur PROVE Shaped(t)' /\ Settled(t)'
    <3>1. Shaped(t)'
      BY <1>2, <1>4, <2>4 DEF Shaped
    <3>2. Anchored(t)'
      BY <1>2, <1>4, <2>4 DEF Renamed, Anchored, Public, Operation
    <3>3. \A n \in Private : file'[<<t, n>>] # Nothing => n = "recovery"
      BY <1>1, <1>2, <1>4, <1>7, <2>4, OperationOf, TheNames DEF Renamed, Shaped
    <3>4. stored' = {}
      BY <1>1, <1>2 DEF Control, Cleaning
    <3>5. Reported(t)'
      BY <1>7, <2>4, <3>2, <3>3, <3>4 DEF Reported
    <3> QED
      BY <1>7, <2>4, <3>1, <3>5 DEF Settled
  <2> QED
    BY <1>2, <1>3, <1>7, <2>2, <2>3, <2>4, StepBack
<1> QED
  BY <1>5, <1>6, <1>7 DEF Compare

\* What a failing system call leaves of the file whose private names were
\* being authored.
LEMMA AuthoringFails ==
  ASSUME PInv, pc = "author", StepFails PROVE PInv'
<1>1. TargetsOK /\ ArtifactsOK /\ ControlOK /\ Rows /\ Control
  BY DEF PInv, PTypeOK
<1>2. /\ plan[cur] # "keep" /\ cur # 0 /\ cur \in Targets /\ Resume /\ CountError
      /\ UNCHANGED <<plan, frozen, original, stored, keep, phase, localVars, reported, warned,
                     outcome, left, used>>
  BY <1>1, CurTarget DEF StepFails, Control, planVars, endVars, editVars
<1>3. ~rolling /\ pc' = "rollback" /\ rolling' = TRUE /\ cur' \in 0..N
  BY <1>1, <1>2, Resuming DEF Control, Forward
<1>4. faults' \in [errors: 0..MaxErrors, interrupts: 0..MaxInterrupts]
      /\ faults'.interrupts = faults.interrupts
  BY <1>1, <1>2, Erred
<1>5. PICK done \in {{}, {"stage"}, {"stage", "recovery"}} :
        /\ done # {} => plan[cur] = "write"
        /\ "recovery" \in done => Public(cur) = Nothing
        /\ file' = [a \in DOMAIN file |->
             IF a[1] = cur /\ a[2] \in done
             THEN (IF a[2] = "stage" THEN "new" ELSE "copy") ELSE file[a]]
        /\ expects' = [a \in DOMAIN expects |->
             IF a[1] = cur /\ a[2] \in done
             THEN (IF a[2] = "stage" THEN "new" ELSE "copy") ELSE expects[a]]
  BY DEF StepFails
<1>6. /\ file' \in [Targets \X Names -> Content]
      /\ \A t \in Targets : \A n \in Names : file'[<<t, n>>] =
           IF t = cur /\ n \in done THEN (IF n = "stage" THEN "new" ELSE "copy") ELSE file[<<t, n>>]
  BY <1>1, <1>5 DEF ArtifactsOK, Content
<1>7. /\ expects' \in [Targets \X Private -> Content]
      /\ \A t \in Targets : \A n \in Private : expects'[<<t, n>>] =
           IF t = cur /\ n \in done THEN (IF n = "stage" THEN "new" ELSE "copy")
                                     ELSE expects[<<t, n>>]
  BY <1>1, <1>5 DEF ArtifactsOK, Content
<1>8. TargetsOK' /\ ArtifactsOK' /\ ControlOK'
  BY <1>1, <1>2, <1>3, <1>4, <1>6, <1>7 DEF TargetsOK, ArtifactsOK, ControlOK, Steps, localVars
<1>9. ASSUME NEW t \in Targets \ {cur} PROVE Same(t)
  BY <1>2, <1>4, <1>6, <1>7, TheNames DEF Same, SameRow, SameFiles
<1>10. ASSUME NEW t \in Targets, t = cur PROVE Shaped(t)' /\ Settled(t)'
  <2>1. Shaped(t) /\ Unrenamed(t) /\ Blank(t) /\ phase[t] = "none" /\ t \notin reported
    BY <1>10, NextAuthored
  <2>2. \A n \in Private : file[<<t, n>>] = Nothing /\ expects[<<t, n>>] = Nothing
    BY <2>1 DEF Blank
  <2>3. /\ \A n \in {"public", "delete"} : file'[<<t, n>>] = file[<<t, n>>]
        /\ expects'[<<t, "delete">>] = expects[<<t, "delete">>]
        /\ \A n \in {"stage", "recovery"} : expects'[<<t, n>>] = file'[<<t, n>>]
        /\ file'[<<t, "stage">>] \in {Nothing, "new"}
        /\ file'[<<t, "recovery">>] \in {Nothing, "copy"}
        /\ plan[t] # "write" =>
             file'[<<t, "stage">>] = Nothing /\ file'[<<t, "recovery">>] = Nothing
    BY <1>5, <1>6, <1>7, <1>10, <2>2, TheNames
  <2>4. Shaped(t)' /\ Unrenamed(t)'
    BY <1>1, <1>2, <2>1, <2>3, Authored
  <2> QED
    BY <1>2, <2>1, <2>4 DEF Settled
<1> QED
  BY <1>1, <1>2, <1>3, <1>8, <1>9, <1>10, StepBack

\* A system call of the promotion fails.
LEMMA StepFailsStep == ASSUME PInv, StepFails PROVE PInv'
<1>1. TargetsOK /\ ArtifactsOK /\ ControlOK /\ Rows /\ Control
  BY DEF PInv, PTypeOK
<1>2. faults' \in [errors: 0..MaxErrors, interrupts: 0..MaxInterrupts]
      /\ faults'.interrupts = faults.interrupts
  BY <1>1, Erred DEF StepFails
<1>3. CASE pc = "author"
  BY <1>3, AuthoringFails
<1>4. CASE pc = "swap" /\ plan[cur] # "keep" /\ SetPhase("pending") /\ UNCHANGED <<file, expects>>
  BY <1>2, <1>4, NotRenamed DEF StepFails, diskVars, artVars
<1>5. CASE pc \in {"read", "compare"} /\ UNCHANGED <<file, expects, phase>>
  <2>1. /\ cur # 0 /\ cur \in Targets /\ Active /\ Resume /\ ~rolling
        /\ Untouching /\ UNCHANGED <<localVars, endVars>>
    BY <1>1, <1>2, <1>5, CurTarget
    DEF StepFails, Control, Active, Forward, Untouching, diskVars,
       artVars, endVars
  <2>2. pc' = "rollback" /\ rolling' = TRUE /\ cur' \in 0..N
    BY <1>1, <2>1, Resuming
  <2>3. TargetsOK' /\ ArtifactsOK' /\ ControlOK'
    BY <1>1, <1>2, <2>1, <2>2 DEF Untouching, TargetsOK, ArtifactsOK, ControlOK, planVars,
       diskVars, artVars, localVars, endVars, editVars, Steps
  <2>4. ASSUME NEW t \in Targets PROVE Same(t)
    BY <2>1, AllSame
  <2>5. ASSUME NEW t \in Targets, t = cur PROVE Shaped(t)' /\ Settled(t)'
    <3>1. Shaped(t) /\ Renamed(t) /\ t \notin reported
      BY <1>1, <1>5, <2>1, <2>5 DEF Rows, Row, Stepped
    <3> QED
      BY <2>1, <2>4, <3>1, KeepsShape, KeepsRenamed DEF Settled, Same, Untouching
  <2> QED
    BY <1>1, <2>1, <2>3, <2>4, <2>5, StepBack DEF Untouching, diskVars, artVars, endVars
<1> QED
  BY <1>3, <1>4, <1>5 DEF StepFails

-----------------------------------------------------------------------------
(* The rollback.                                                           *)

\* What stands next to the target of a step, whatever the step.
LEMMA ActiveTarget ==
  ASSUME PInv, Active
  PROVE  /\ cur # 0 /\ cur \in Targets /\ pc \notin Cleaning /\ stored = {}
         /\ Shaped(cur) /\ Stepped(cur) /\ Anchored(cur)
         /\ cur \notin reported /\ plan[cur] # "keep"
<1>1. ControlOK /\ Rows /\ Control
  BY DEF PInv, PTypeOK
<1>2. cur # 0 /\ cur \in Targets /\ pc \notin Cleaning /\ stored = {}
  BY <1>1, CurTarget DEF Control, Active, Cleaning
<1>3. Shaped(cur) /\ Stepped(cur)
  BY <1>1, <1>2 DEF Rows, Row
<1> QED
  BY <1>2, <1>3 DEF Stepped, Active, Renamed, Reversed, Back

\* A target that cannot be proven restored keeps all that is next to it.
LEMMA GiveUpStep ==
  ASSUME PInv, Active, GiveUp,
         UNCHANGED <<planVars, diskVars, expects, art, outcome, editVars>>,
         seen' \in [public: Content, private: Content, again: Content], want' \in Content,
         tries' \in 0..Corrections, warned' \in BOOLEAN,
         faults' \in [errors: 0..MaxErrors, interrupts: 0..MaxInterrupts],
         faults'.interrupts = faults.interrupts
  PROVE  PInv'
<1>1. TargetsOK /\ ArtifactsOK /\ ControlOK /\ Rows /\ Control
  BY DEF PInv, PTypeOK
<1>2. cur # 0 /\ cur \in Targets /\ stored = {} /\ Shaped(cur) /\ Anchored(cur)
  BY ActiveTarget
<1>3. /\ phase' \in [Targets -> Phases] /\ phase'[cur] = "unresolved"
      /\ \A t \in Targets \ {cur} : phase'[t] = phase[t]
      /\ reported' = reported \union {cur} /\ reported' \subseteq Targets
      /\ keep \subseteq keep' /\ keep' \subseteq Targets \X Private
      /\ \A n \in Private : file[<<cur, n>>] # Nothing => <<cur, n>> \in keep'
      /\ \A a \in keep' : a \in keep \/ a[1] = cur
      /\ Resume
  BY <1>1, <1>2, GivenUp
<1>4. pc' = "rollback" /\ pc' \in Steps /\ rolling' = TRUE /\ cur' \in 0..N
  BY <1>1, <1>2, <1>3, Resuming
<1>5. TargetsOK' /\ ArtifactsOK' /\ ControlOK'
  BY <1>1, <1>3, <1>4 DEF TargetsOK, ArtifactsOK, ControlOK, planVars, diskVars, editVars
<1>6. ASSUME NEW t \in Targets \ {cur} PROVE Same(t)
  BY <1>3 DEF Same, SameRow, SameFiles, planVars, diskVars, editVars
<1>7. ASSUME NEW t \in Targets, t = cur PROVE Shaped(t)' /\ Settled(t)'
  <2>1. Shaped(t)'
    BY <1>2, <1>7 DEF Shaped, planVars, diskVars, editVars
  <2>2. Anchored(t)'
    BY <1>2, <1>7 DEF Anchored, Public, Operation, planVars, diskVars, editVars
  <2>3. Reported(t)' /\ t \in reported'
    BY <1>2, <1>3, <1>7, <2>2 DEF Reported, diskVars
  <2> QED
    BY <2>1, <2>3 DEF Settled
<1>8. cur \in reported' /\ UNCHANGED <<stored, outcome>>
  BY <1>3 DEF diskVars
<1> QED
  BY <1>3, <1>5, <1>6, <1>7, <1>8, StepBack

\* A target that is proven restored.
LEMMA RestoredStep ==
  ASSUME PInv, Active, Restored,
         UNCHANGED <<planVars, diskVars, artVars, art, reported, outcome, editVars>>,
         seen' \in [public: Content, private: Content, again: Content], want' \in Content,
         tries' \in 0..Corrections,
         Checked(cur), Tracked(cur), Watched(cur),
         left[cur] = Untouched => Public(cur) \in {frozen[cur]} \union Edits
  PROVE  PInv'
<1>1. TargetsOK /\ ArtifactsOK /\ ControlOK /\ Rows /\ Control
  BY DEF PInv, PTypeOK
<1>2. cur # 0 /\ cur \in Targets /\ cur \notin reported /\ Shaped(cur) /\ Anchored(cur)
  BY ActiveTarget
<1>3. Resume /\ /\ phase' \in [Targets -> Phases] /\ phase'[cur] = "rolled-back"
                /\ \A t \in Targets \ {cur} : phase'[t] = phase[t]
  BY <1>1, <1>2, PhaseIsSet DEF Restored, Phases
<1>4. /\ faults' \in [errors: 0..MaxErrors, interrupts: 0..MaxInterrupts] /\ warned' \in BOOLEAN
      /\ faults'.interrupts = faults.interrupts
  BY <1>1, Erred DEF Restored, ControlOK
<1>5. pc' \in Steps /\ rolling' = TRUE /\ cur' \in 0..N
  BY <1>1, <1>2, <1>3, Resuming
<1>6. TargetsOK' /\ ArtifactsOK' /\ ControlOK'
  BY <1>1, <1>3, <1>4, <1>5 DEF TargetsOK, ArtifactsOK, ControlOK, planVars, diskVars,
     artVars, editVars
<1>7. ASSUME NEW t \in Targets \ {cur} PROVE Same(t)
  BY <1>3, <1>4 DEF Same, SameRow, SameFiles, planVars, diskVars, artVars, editVars
<1>8. ASSUME NEW t \in Targets, t = cur PROVE Shaped(t)' /\ Settled(t)'
  <2>1. Shaped(t)'
    BY <1>2, <1>8 DEF Shaped, planVars, diskVars, editVars
  <2>2. Anchored(t)' /\ Checked(t)' /\ Tracked(t)' /\ Watched(t)'
    BY <1>2, <1>8 DEF Anchored, Checked, Tracked, Watched, Changed, Public, Operation,
       planVars, diskVars, artVars, editVars
  <2>3. Back(t)'
    BY <1>3, <1>8, <2>2 DEF Back, Public, planVars, diskVars, editVars
  <2> QED
    BY <1>2, <1>8, <2>1, <2>3 DEF Settled
<1> QED
  BY <1>1, <1>3, <1>6, <1>7, <1>8, StepBack DEF diskVars, artVars

\* A system call of a reversal fails.
LEMMA ReversalFailsStep == ASSUME PInv, ReversalFails PROVE PInv'
<1>1. ControlOK /\ Active /\ GiveUp
  BY DEF PInv, PTypeOK, ReversalFails, Active
<1>2. /\ faults' \in [errors: 0..MaxErrors, interrupts: 0..MaxInterrupts]
      /\ faults'.interrupts = faults.interrupts
  BY <1>1, Erred DEF ReversalFails
<1> QED
  BY <1>1, <1>2, GiveUpStep DEF ReversalFails, ControlOK, localVars

\* Two names are exchanged again, or the target is given up.
LEMMA UnswapStep == ASSUME PInv, Unswap PROVE PInv'
<1>1. TargetsOK /\ ArtifactsOK /\ ControlOK /\ Rows /\ Control /\ PTypeOK
  BY DEF PInv, PTypeOK
<1>2. /\ pc \in {"unswap", "correct"} /\ Active
      /\ UNCHANGED <<plan, frozen, original, stored, art, seen, want, tries, warned, outcome,
                     left, used, faults>>
  BY DEF Unswap, Active, planVars, localVars, editVars
<1>3. /\ cur # 0 /\ cur \in Targets /\ Shaped(cur) /\ Stepped(cur) /\ Anchored(cur)
      /\ cur \notin reported /\ plan[cur] # "keep"
  BY <1>2, ActiveTarget
<1>4. CASE GiveUp /\ UNCHANGED <<file, expects>>
  BY <1>1, <1>2, <1>4, GiveUpStep DEF ControlOK, planVars, diskVars, editVars
<1>5. CASE /\ Public(cur) # Nothing /\ file[<<cur, "stage">>] # Nothing
           /\ Exchange(cur) /\ UNCHANGED <<reported, keep>>
           /\ SetPhase(IF pc = "unswap" THEN "reverse-swapped" ELSE "correction-swapped")
           /\ expects' = IF pc = "unswap" THEN [expects EXCEPT ![<<cur, "stage">>] = "new"] ELSE expects
           /\ Goto(IF pc = "unswap" THEN "unread" ELSE "coread")
  <2>1. /\ phase' \in [Targets -> Phases]
        /\ phase'[cur] = IF pc = "unswap" THEN "reverse-swapped" ELSE "correction-swapped"
        /\ \A t \in Targets \ {cur} : phase'[t] = phase[t]
    BY <1>1, <1>3, <1>5, PhaseIsSet DEF Phases
  <2>2. Operation(cur) = "replace" /\ Aside(cur) = "stage" /\ plan[cur] = "write"
    BY <1>1, <1>2, <1>3, OperationOf DEF Stepped
  <2>3. /\ file' \in [Targets \X Names -> Content]
        /\ \A t \in Targets \ {cur} : \A n \in Names : file'[<<t, n>>] = file[<<t, n>>]
        /\ file'[<<cur, "public">>] = file[<<cur, "stage">>]
        /\ file'[<<cur, "stage">>] = file[<<cur, "public">>]
        /\ file'[<<cur, "recovery">>] = file[<<cur, "recovery">>]
        /\ file'[<<cur, "delete">>] = file[<<cur, "delete">>]
    BY <1>1, <1>3, <1>5, <2>2, Exchanged, TheNames
  <2>4. /\ expects' \in [Targets \X Private -> Content]
        /\ \A t \in Targets \ {cur} : \A n \in Private : expects'[<<t, n>>] = expects[<<t, n>>]
        /\ expects'[<<cur, "recovery">>] = expects[<<cur, "recovery">>]
        /\ expects'[<<cur, "delete">>] = expects[<<cur, "delete">>]
        /\ pc = "unswap" => expects'[<<cur, "stage">>] = "new"
    <3>1. <<cur, "stage">> \in Targets \X Private /\ "new" \in Content
      BY <1>3, TheNames DEF Content
    <3>2. CASE pc = "unswap"
      BY <1>1, <1>3, <1>5, <3>1, <3>2, Expected, TheNames
    <3>3. CASE pc # "unswap"
      BY <1>1, <1>5, <3>3 DEF ArtifactsOK
    <3> QED
      BY <3>2, <3>3
  <2>5. /\ cur' = cur /\ rolling' = rolling /\ Active'
        /\ pc' = IF pc = "unswap" THEN "unread" ELSE "coread"
    BY <1>5 DEF Goto, Active
  <2>6. TargetsOK' /\ ArtifactsOK' /\ ControlOK'
    BY <1>1, <1>2, <1>5, <2>1, <2>3, <2>4, <2>5 DEF TargetsOK, ArtifactsOK, ControlOK, Steps
  <2>7. ASSUME NEW t \in Targets \ {cur} PROVE Same(t)
    BY <1>2, <1>5, <2>1, <2>3, <2>4 DEF Same, SameRow, SameFiles
  <2>8. ASSUME NEW t \in Targets, t = cur PROVE Shaped(t)' /\ Stepped(t)'
    <3>1. Operation(t)' = Operation(t) /\ Aside(t)' = Aside(t)
      BY <1>2, SameOperation
    <3>0. /\ file'[<<t, "public">>] = file[<<t, "stage">>]
          /\ file'[<<t, "stage">>] = file[<<t, "public">>]
          /\ file'[<<t, "delete">>] = file[<<t, "delete">>]
          /\ file'[<<t, "recovery">>] = file[<<t, "recovery">>]
          /\ Shaped(t) /\ plan[t] = "write" /\ plan'[t] = plan[t] /\ frozen'[t] = frozen[t]
          /\ original'[t] = original[t] /\ left'[t] = left[t] /\ used' = used
      BY <1>2, <1>3, <2>2, <2>3, <2>8
    <3>2. Shaped(t)'
      BY <3>0, TheNames DEF Shaped, Names
    <3>3. Anchored(t)'
      BY <1>5, <2>2, <2>3, <2>8, <3>1 DEF Anchored, Public
    <3>4. pc = "unswap" => Reversed(t)'
      <4>1. SUFFICES ASSUME pc = "unswap" PROVE Reversed(t)'
        OBVIOUS
      <4>2. Renamed(t)
        BY <1>3, <2>8, <4>1 DEF Stepped
      <4>3. Checked(t)'
        BY <1>2, <2>3, <2>8, <4>2, TheNames DEF Renamed, Checked, Names
      <4>4. Located(t)'
        BY <1>2, <1>5, <2>2, <2>3, <2>8, <3>1, <4>2 DEF Renamed, Located, Changed, Public
      <4>5. Listed(t)'
        BY <2>2, <2>4, <2>8, <3>1, <4>2 DEF Renamed, Listed
      <4>6. Watched(t)'
        <5>1. \A n \in Private : expects'[<<t, n>>] \notin Edits
          BY <2>2, <2>4, <2>8, <4>1, <4>2, EditsAreNew, TheNames DEF Renamed, Listed
        <5>2. expects'[<<t, "stage">>] # Nothing
          BY <2>4, <2>8, <4>1 DEF Nothing
        <5>3. file'[<<t, "delete">>] = Nothing
          BY <3>0 DEF Shaped
        <5> QED
          BY <5>1, <5>2, <5>3 DEF Watched
      <4>7. left[t] = Untouched => Public(t)' \in {"original"} \union Edits
        BY <2>2, <2>3, <2>8, <4>2 DEF Renamed, Public
      <4> QED
        BY <1>2, <2>2, <2>4, <2>8, <3>1, <3>3, <4>1, <4>3, <4>4, <4>5, <4>6, <4>7 DEF Reversed
    <3> QED
      BY <1>2, <1>3, <1>5, <2>1, <2>2, <2>5, <2>8, <3>1, <3>2, <3>3, <3>4 DEF Stepped
  <2> QED
    BY <1>2, <1>5, <2>5, <2>6, <2>7, <2>8, StepOn
<1> QED
  BY <1>4, <1>5 DEF Unswap

\* One more correction, or none is possible.
LEMMA TryCorrectionStep ==
  ASSUME PInv, pc \in {"uncompare", "cocompare"},
         NEW public \in Content, NEW private \in Content, TryCorrection(public, private),
         UNCHANGED <<planVars, diskVars, expects, art, want, warned, outcome, editVars, faults>>
  PROVE  PInv'
<1>1. TargetsOK /\ ArtifactsOK /\ ControlOK /\ Rows /\ Control
  BY DEF PInv, PTypeOK
<1>2. /\ Active /\ cur # 0 /\ cur \in Targets /\ Shaped(cur) /\ Stepped(cur) /\ Anchored(cur)
      /\ cur \notin reported /\ plan[cur] # "keep"
  BY ActiveTarget DEF Active
<1>3. CASE GiveUp /\ UNCHANGED <<seen, tries>>
  BY <1>1, <1>2, <1>3, GiveUpStep DEF ControlOK
<1>4. CASE /\ Correctable(public, private)
           /\ seen' = [public |-> public, private |-> private, again |-> Nothing]
           /\ tries' = tries + 1 /\ Goto("correct") /\ UNCHANGED <<phase, reported, keep>>
  <2>1. tries' \in 0..Corrections
    BY <1>1, <1>4, PromotionBounds DEF Correctable, ControlOK
  <2>2. seen' \in [public: Content, private: Content, again: Content]
    BY <1>4 DEF Content
  <2>3. pc' = "correct" /\ cur' = cur /\ rolling' = rolling /\ Active'
    BY <1>4 DEF Goto, Active
  <2>4. TargetsOK' /\ ArtifactsOK' /\ ControlOK'
    BY <1>1, <1>4, <2>1, <2>2, <2>3 DEF TargetsOK, ArtifactsOK, ControlOK, Steps, planVars,
       diskVars, editVars
  <2>5. ASSUME NEW t \in Targets PROVE Same(t)
    BY <1>4 DEF Same, SameRow, SameFiles, planVars, diskVars, editVars
  <2>6. ASSUME NEW t \in Targets, t = cur PROVE Shaped(t)' /\ Stepped(t)'
    <3>1. SameRow(t) /\ Shaped(t)' /\ Anchored(t)' /\ Operation(t)' = Operation(t)
      BY <1>2, <2>5, <2>6, KeepsShape, KeepsAnchored, SameOperation DEF Same, SameRow, SameFiles
    <3>2. Operation(t) = "replace" /\ phase[t] \in {"reverse-swapped", "correction-swapped"}
      BY <1>2, <2>6 DEF Stepped
    <3> QED
      BY <1>2, <1>4, <2>3, <2>6, <3>1, <3>2 DEF Stepped, planVars
  <2> QED
    BY <1>2, <1>4, <2>3, <2>4, <2>5, <2>6, StepOn DEF diskVars
<1> QED
  BY <1>3, <1>4 DEF TryCorrection

\* A reversed target is restored, corrected or given up.
LEMMA UncompareStep == ASSUME PInv, Uncompare PROVE PInv'
<1>1. TargetsOK /\ ArtifactsOK /\ ControlOK
  BY DEF PInv, PTypeOK
<1>2. /\ pc = "uncompare" /\ Active
      /\ UNCHANGED <<planVars, diskVars, expects, art, want, outcome, editVars>>
  BY DEF Uncompare, Active
<1>3. cur \in Targets /\ Shaped(cur) /\ Stepped(cur)
  BY <1>2, ActiveTarget
<1>4. CASE /\ file[<<cur, "stage">>] = "new" /\ Restored
           /\ UNCHANGED <<seen, tries, reported, keep>>
  <2>1. Reversed(cur) /\ Operation(cur) = "replace" /\ plan[cur] = "write" /\ Aside(cur) = "stage"
    BY <1>1, <1>2, <1>3, OperationOf DEF Stepped, Reversed
  <2>2. Checked(cur) /\ Watched(cur)
    BY <2>1 DEF Reversed
  <2>3. Tracked(cur)
    BY <1>4, <2>1, EditsAreNew DEF Reversed, Located, Tracked
  <2>4. left[cur] = Untouched => Public(cur) \in {frozen[cur]} \union Edits
    <3>1. left[cur] = Untouched => frozen[cur] = "original"
      BY <1>1, <1>3, <2>1, <2>2, OperationOf DEF Checked, Shaped
    <3> QED
      BY <2>1, <3>1 DEF Reversed
  <2> QED
    BY <1>1, <1>2, <1>4, <2>2, <2>3, <2>4, RestoredStep DEF ControlOK, artVars
<1>5. CASE TryCorrection(seen.public, file[<<cur, "stage">>]) /\ UNCHANGED <<warned, faults>>
  <2>1. seen.public \in Content /\ file[<<cur, "stage">>] \in Content
    BY <1>1, <1>3, TheNames DEF ControlOK, ArtifactsOK
  <2> QED
    BY <1>2, <1>5, <2>1, TryCorrectionStep
<1> QED
  BY <1>4, <1>5 DEF Uncompare

\* A corrected target is given up, or corrected once more.
LEMMA CocompareStep == ASSUME PInv, Cocompare PROVE PInv'
<1>1. TargetsOK /\ ArtifactsOK /\ ControlOK
  BY DEF PInv, PTypeOK
<1>2. /\ pc = "cocompare" /\ Active
      /\ UNCHANGED <<planVars, diskVars, expects, art, want, warned, outcome, editVars, faults>>
  BY DEF Cocompare, Active
<1>3. cur \in Targets
  BY <1>2, ActiveTarget
<1>4. CASE GiveUp /\ UNCHANGED <<seen, tries>>
  BY <1>1, <1>2, <1>4, GiveUpStep DEF ControlOK
<1>5. CASE TryCorrection(seen.again, file[<<cur, "stage">>])
  <2>1. seen.again \in Content /\ file[<<cur, "stage">>] \in Content
    BY <1>1, <1>3, TheNames DEF ControlOK, ArtifactsOK
  <2> QED
    BY <1>2, <1>5, <2>1, TryCorrectionStep
<1> QED
  BY <1>4, <1>5 DEF Cocompare

\* A private name becomes public again.
LEMMA UnmoveStep == ASSUME PInv, Unmove PROVE PInv'
<1>1. TargetsOK /\ ArtifactsOK /\ ControlOK /\ PTypeOK
  BY DEF PInv, PTypeOK
<1>2. /\ pc = "unmove" /\ Active
      /\ UNCHANGED <<plan, frozen, original, stored, art, seen, want, tries, warned, outcome,
                     left, used, faults>>
  BY DEF Unmove, Active, planVars, localVars, editVars
<1>3. /\ cur # 0 /\ cur \in Targets /\ Shaped(cur) /\ Stepped(cur) /\ Anchored(cur)
      /\ cur \notin reported /\ plan[cur] # "keep"
  BY <1>2, ActiveTarget
<1>4. CASE GiveUp /\ UNCHANGED <<file, expects>>
  BY <1>1, <1>2, <1>4, GiveUpStep DEF ControlOK, planVars, diskVars, editVars
<1>5. CASE /\ Public(cur) = Nothing /\ file[<<cur, MovedName>>] # Nothing
           /\ Rename(cur, MovedName, "public") /\ SetPhase("rolled-back")
           /\ expects' = [expects EXCEPT ![<<cur, MovedName>>] = Nothing]
           /\ Goto("unmoved") /\ UNCHANGED <<reported, keep>>
  <2>1. /\ phase' \in [Targets -> Phases] /\ phase'[cur] = "rolled-back"
        /\ \A t \in Targets \ {cur} : phase'[t] = phase[t]
    BY <1>1, <1>3, <1>5, PhaseIsSet DEF Phases
  <2>2. /\ Operation(cur) \in {"create", "delete"}
        /\ MovedName = Aside(cur) /\ Aside(cur) \in {"stage", "delete"}
        /\ (Aside(cur) = "stage" <=> Operation(cur) = "create")
        /\ (Operation(cur) = "create" => plan[cur] = "write" /\ original[cur] = Nothing)
        /\ (Operation(cur) = "delete" => plan[cur] = "delete")
    BY <1>1, <1>2, <1>3, OperationOf DEF Stepped, MovedName
  <2>3. PICK m \in {"stage", "delete"} : m = Aside(cur)
    BY <2>2
  <2>4. /\ file' \in [Targets \X Names -> Content]
        /\ \A t \in Targets \ {cur} : \A n \in Names : file'[<<t, n>>] = file[<<t, n>>]
        /\ file'[<<cur, "public">>] = file[<<cur, m>>] /\ file'[<<cur, m>>] = Nothing
        /\ \A n \in Names \ {m, "public"} : file'[<<cur, n>>] = file[<<cur, n>>]
    <3>1. Rename(cur, m, "public") /\ m \in Names /\ "public" \in Names /\ m # "public"
      BY <1>5, <2>2, <2>3, TheNames
    <3>2. PTypeOK /\ cur \in Targets
      BY <1>1, <1>3
    <3> HIDE DEF PTypeOK
    <3> QED
      BY <3>1, <3>2, Moved
  <2>5. /\ expects' \in [Targets \X Private -> Content]
        /\ \A t \in Targets \ {cur} : \A n \in Private : expects'[<<t, n>>] = expects[<<t, n>>]
        /\ \A n \in Private \ {m} : expects'[<<cur, n>>] = expects[<<cur, n>>]
        /\ expects'[<<cur, m>>] = Nothing
    <3>1. <<cur, m>> \in Targets \X Private /\ Nothing \in Content
      BY <1>3, TheNames DEF Content
    <3> QED
      BY <1>1, <1>3, <1>5, <2>2, <2>3, <3>1, Expected
  <2>6. cur' = cur /\ rolling' = rolling /\ Active' /\ pc' = "unmoved"
    BY <1>5 DEF Goto, Active
  <2>7. TargetsOK' /\ ArtifactsOK' /\ ControlOK'
    BY <1>1, <1>2, <1>5, <2>1, <2>4, <2>5, <2>6 DEF TargetsOK, ArtifactsOK, ControlOK, Steps
  <2>8. ASSUME NEW t \in Targets \ {cur} PROVE Same(t)
    BY <1>2, <1>5, <2>1, <2>4, <2>5 DEF Same, SameRow, SameFiles
  <2>9. ASSUME NEW t \in Targets, t = cur PROVE Shaped(t)' /\ Stepped(t)'
    <3>1. /\ Operation(t)' = Operation(t) /\ Shaped(t) /\ Anchored(t)
          /\ Checked(t) /\ Located(t) /\ Listed(t)
          /\ left[t] = Untouched => file[<<t, m>>] \in {frozen[t]} \union Edits
      <4>1. Operation(t)' = Operation(t)
        BY <1>2, SameOperation
      <4>2. CASE Operation(t) = "delete"
        <5>1. Renamed(t) /\ frozen[t] = "original"
          BY <1>2, <1>3, <2>2, <2>9, <4>2 DEF Stepped, Shaped
        <5> QED
          BY <1>3, <2>3, <2>9, <4>1, <4>2, <5>1 DEF Renamed
      <4>3. CASE Operation(t) = "create"
        BY <1>2, <1>3, <2>2, <2>3, <2>9, <4>1, <4>3 DEF Stepped
      <4> QED
        BY <2>2, <2>9, <4>2, <4>3
    <3>2. /\ Public(t) = Nothing /\ file[<<t, m>>] # Nothing /\ Public(t)' = file[<<t, m>>]
          /\ file'[<<t, "public">>] = file[<<t, m>>] /\ file'[<<t, m>>] = Nothing
          /\ \A n \in Names \ {m, "public"} : file'[<<t, n>>] = file[<<t, n>>]
          /\ plan'[t] = plan[t] /\ frozen'[t] = frozen[t] /\ original'[t] = original[t]
          /\ left'[t] = left[t] /\ used' = used
      BY <1>2, <1>5, <2>2, <2>3, <2>4, <2>9 DEF Public
    <3>3. Shaped(t)'
      BY <1>1, <2>2, <2>3, <2>9, <3>1, <3>2, EditsAreNew, TheNames DEF Shaped, Names
    <3>4. Checked(t)'
      BY <1>1, <3>1, <3>2, EditsAreNew, TheNames DEF Checked, Names, TargetsOK
    <3>5. Anchored(t)'
      BY <2>2, <2>3, <2>9, <3>1, <3>2, TheNames DEF Anchored
    <3>6. Tracked(t)'
      BY <1>1, <2>2, <2>3, <2>9, <3>1, <3>2, EditsAreNew
      DEF Tracked, Located, Changed, Checked, TargetsOK, Public
    <3>7. Watched(t)'
      <4>1. \A n \in Private : expects'[<<t, n>>] \notin Edits
        BY <2>2, <2>3, <2>5, <2>9, <3>1, EditsAreNew, TheNames DEF Listed
      <4>2. file'[<<t, "stage">>] = Nothing
        BY <2>2, <2>3, <2>9, <3>1, <3>2, TheNames DEF Shaped
      <4>3. file'[<<t, "delete">>] = Nothing
        BY <2>2, <2>3, <2>9, <3>1, <3>2, TheNames DEF Shaped
      <4> QED
        BY <4>1, <4>2, <4>3 DEF Watched
    <3>8. Back(t)'
      BY <2>1, <2>9, <3>1, <3>2, <3>4, <3>5, <3>6, <3>7 DEF Back
    <3> QED
      BY <1>2, <1>3, <1>5, <2>2, <2>6, <2>9, <3>1, <3>3, <3>8 DEF Stepped
  <2> QED
    BY <1>2, <1>5, <2>6, <2>7, <2>8, <2>9, StepOn
<1> QED
  BY <1>4, <1>5 DEF Unmove

\* It is read: the target is restored, or given up.
LEMMA UnmovedStep == ASSUME PInv, Unmoved PROVE PInv'
<1>1. TargetsOK /\ ArtifactsOK /\ ControlOK /\ Rows /\ Control
  BY DEF PInv, PTypeOK
<1>2. /\ pc = "unmoved" /\ Active
      /\ UNCHANGED <<planVars, diskVars, expects, localVars, outcome, editVars>>
  BY DEF Unmoved, Active
<1>3. /\ cur # 0 /\ cur \in Targets /\ Shaped(cur) /\ Stepped(cur) /\ cur \notin reported
  BY <1>2, ActiveTarget
<1>4. CASE GiveUp /\ UNCHANGED <<warned, faults>>
  BY <1>1, <1>2, <1>4, GiveUpStep DEF ControlOK, localVars
<1>5. CASE /\ Resume /\ UNCHANGED <<phase, reported, keep>>
           /\ faults' \in [errors: 0..MaxErrors, interrupts: 0..MaxInterrupts]
           /\ faults'.interrupts = faults.interrupts /\ warned' \in BOOLEAN
  <2>1. pc' \in Steps /\ rolling' = TRUE /\ cur' \in 0..N
    BY <1>1, <1>3, <1>5, Resuming
  <2>2. TargetsOK' /\ ArtifactsOK' /\ ControlOK'
    BY <1>1, <1>2, <1>5, <2>1 DEF TargetsOK, ArtifactsOK, ControlOK, planVars, diskVars,
       localVars, editVars
  <2>3. ASSUME NEW t \in Targets PROVE Same(t)
    BY <1>2, <1>5 DEF Same, SameRow, SameFiles, planVars, diskVars, editVars
  <2>4. ASSUME NEW t \in Targets, t = cur PROVE Shaped(t)' /\ Settled(t)' /\ phase'[t] # "promoted"
    <3>1. Shaped(t) /\ Back(t) /\ SameRow(t)
      BY <1>2, <1>3, <2>3, <2>4 DEF Stepped, Same
    <3>2. Shaped(t)' /\ Back(t)'
      BY <3>1, KeepsShape, KeepsBack
    <3> QED
      BY <1>3, <1>5, <2>4, <3>2 DEF Settled, Back
  <2> QED
    BY <1>1, <1>2, <1>3, <1>5, <2>2, <2>3, <2>4, StepBack DEF diskVars
<1>6. CASE Resume /\ CountError /\ warned' = (warned \/ rolling) /\ UNCHANGED <<phase, reported, keep>>
  BY <1>1, <1>5, <1>6, Erred DEF ControlOK
<1>7. CASE Resume /\ UNCHANGED <<phase, reported, keep, warned, faults>>
  BY <1>1, <1>5, <1>7 DEF ControlOK
<1> QED
  BY <1>4, <1>6, <1>7 DEF Unmoved

\* A created file is moved back to its stage.
LEMMA UncreateStep == ASSUME PInv, Uncreate PROVE PInv'
<1>1. TargetsOK /\ ArtifactsOK /\ ControlOK /\ PTypeOK /\ Control
  BY DEF PInv, PTypeOK
<1>2. /\ pc = "uncreate" /\ Active
      /\ UNCHANGED <<plan, frozen, original, stored, art, seen, want, tries, warned, outcome,
                     left, used, faults>>
  BY DEF Uncreate, Active, planVars, localVars, editVars
<1>3. /\ cur # 0 /\ cur \in Targets /\ Shaped(cur) /\ Stepped(cur) /\ Anchored(cur)
      /\ cur \notin reported /\ plan[cur] # "keep" /\ rolling
  BY <1>1, <1>2, ActiveTarget DEF Control
<1>4. CASE GiveUp /\ UNCHANGED <<file, expects>>
  BY <1>1, <1>2, <1>4, GiveUpStep DEF ControlOK, planVars, diskVars, editVars
<1>5. CASE /\ Public(cur) # Nothing
           /\ Rename(cur, "public", "stage") /\ SetPhase("rollback-moved")
           /\ expects' = [expects EXCEPT ![<<cur, "stage">>] = "new"]
           /\ Goto("uncreated") /\ UNCHANGED <<reported, keep>>
  <2>1. /\ phase' \in [Targets -> Phases] /\ phase'[cur] = "rollback-moved"
        /\ \A t \in Targets \ {cur} : phase'[t] = phase[t]
    BY <1>1, <1>3, <1>5, PhaseIsSet DEF Phases
  <2>2. /\ file' \in [Targets \X Names -> Content]
        /\ \A t \in Targets \ {cur} : \A n \in Names : file'[<<t, n>>] = file[<<t, n>>]
        /\ file'[<<cur, "stage">>] = file[<<cur, "public">>] /\ file'[<<cur, "public">>] = Nothing
        /\ \A n \in Names \ {"public", "stage"} : file'[<<cur, n>>] = file[<<cur, n>>]
    <3>1. /\ PTypeOK /\ cur \in Targets /\ Rename(cur, "public", "stage")
          /\ "public" \in Names /\ "stage" \in Names /\ "public" # "stage"
      BY <1>1, <1>3, <1>5, TheNames
    <3> QED
      BY <3>1, Moved
  <2>3. /\ expects' \in [Targets \X Private -> Content]
        /\ \A t \in Targets \ {cur} : \A n \in Private : expects'[<<t, n>>] = expects[<<t, n>>]
        /\ \A n \in Private \ {"stage"} : expects'[<<cur, n>>] = expects[<<cur, n>>]
        /\ expects'[<<cur, "stage">>] = "new"
    <3>1. <<cur, "stage">> \in Targets \X Private /\ "new" \in Content
      BY <1>3, TheNames DEF Content
    <3> QED
      BY <1>1, <1>3, <1>5, <3>1, Expected
  <2>4. cur' = cur /\ rolling' = rolling /\ Active' /\ pc' = "uncreated"
    BY <1>5 DEF Goto, Active
  <2>5. TargetsOK' /\ ArtifactsOK' /\ ControlOK'
    BY <1>1, <1>2, <1>5, <2>1, <2>2, <2>3, <2>4 DEF TargetsOK, ArtifactsOK, ControlOK, Steps
  <2>6. ASSUME NEW t \in Targets \ {cur} PROVE Same(t)
    BY <1>2, <1>5, <2>1, <2>2, <2>3 DEF Same, SameRow, SameFiles
  <2>7. ASSUME NEW t \in Targets, t = cur PROVE Shaped(t)' /\ Stepped(t)'
    <3>1. /\ Shaped(t) /\ Renamed(t) /\ Operation(t) = "create" /\ plan[t] = "write"
          /\ original[t] = Nothing /\ Aside(t) = "stage"
          /\ Operation(t)' = Operation(t) /\ Aside(t)' = Aside(t)
      BY <1>1, <1>2, <1>3, <2>7, OperationOf, SameOperation DEF Stepped
    <3>2. /\ file'[<<t, "stage">>] = Public(t) /\ Public(t) # Nothing
          /\ file'[<<t, "public">>] = Nothing /\ Public(t)' = Nothing
          /\ file[<<t, "stage">>] = Nothing
          /\ file'[<<t, "recovery">>] = file[<<t, "recovery">>]
          /\ file'[<<t, "delete">>] = file[<<t, "delete">>]
          /\ plan'[t] = plan[t] /\ frozen'[t] = frozen[t] /\ original'[t] = original[t]
          /\ left'[t] = left[t] /\ used' = used
      BY <1>2, <1>5, <2>2, <2>7, <3>1, TheNames DEF Public, Renamed
    <3>3. Shaped(t)'
      BY <1>1, <3>1, <3>2, EditsAreNew, TheNames DEF Shaped, Names, Public
    <3>4. Checked(t)' /\ frozen[t] = Nothing
      BY <1>1, <3>1, <3>2, EditsAreNew DEF Renamed, Checked, TargetsOK
    <3>5. Anchored(t)'
      BY <3>1, <3>2 DEF Renamed, Anchored
    <3>6. Located(t)'
      BY <1>1, <3>1, <3>2, <3>4, EditsAreNew DEF Renamed, Located, Changed, TargetsOK
    <3>7. Listed(t)' /\ expects'[<<t, "stage">>] = "new"
      BY <2>3, <2>7, <3>1, TheNames DEF Renamed, Listed
    <3>8. Watched(t)'
      <4>1. \A n \in Private : expects'[<<t, n>>] \notin Edits
        BY <3>1, <3>7, EditsAreNew, TheNames DEF Listed
      <4>2. expects'[<<t, "stage">>] # Nothing
        BY <3>7 DEF Nothing
      <4>3. file'[<<t, "delete">>] = Nothing
        BY <3>1, <3>2 DEF Shaped
      <4> QED
        BY <4>1, <4>2, <4>3 DEF Watched
    <3>9. left[t] = Untouched => Public(t)' = Nothing /\ file'[<<t, "stage">>] = "new"
      BY <3>1, <3>2 DEF Renamed, Wanted
    <3>10. Reversed(t)'
      BY <3>1, <3>2, <3>4, <3>5, <3>6, <3>7, <3>8, <3>9 DEF Reversed
    <3> QED
      BY <1>3, <1>5, <2>1, <2>4, <2>7, <3>1, <3>2, <3>3, <3>10 DEF Stepped
  <2> QED
    BY <1>2, <1>3, <1>5, <2>4, <2>5, <2>6, <2>7, StepOn
<1> QED
  BY <1>4, <1>5 DEF Uncreate

\* It is read: the target is restored, or the file is edited and goes back.
LEMMA UncreatedStep == ASSUME PInv, Uncreated PROVE PInv'
<1>1. TargetsOK /\ ArtifactsOK /\ ControlOK /\ PTypeOK
  BY DEF PInv, PTypeOK
<1>2. /\ pc = "uncreated" /\ Active
      /\ UNCHANGED <<planVars, diskVars, keep, art, seen, tries, reported, outcome, editVars>>
  BY DEF Uncreated, Active
<1>3. /\ cur # 0 /\ cur \in Targets /\ Shaped(cur) /\ Stepped(cur)
      /\ cur \notin reported /\ plan[cur] # "keep"
  BY <1>2, ActiveTarget
<1>4. ASSUME NEW t \in Targets, t = cur
      PROVE  /\ Shaped(t) /\ Reversed(t) /\ Operation(t) = "create" /\ phase[t] = "rollback-moved"
             /\ plan[t] = "write" /\ original[t] = Nothing /\ frozen[t] = Nothing
             /\ Aside(t) = "stage" /\ file[<<t, "stage">>] # Nothing
  <2>1. /\ Shaped(t) /\ Reversed(t) /\ Operation(t) = "create" /\ phase[t] = "rollback-moved"
    BY <1>2, <1>3, <1>4 DEF Stepped
  <2>2. plan[t] = "write" /\ original[t] = Nothing /\ Aside(t) = "stage"
    BY <1>1, <1>3, <1>4, <2>1, OperationOf
  <2> QED
    BY <1>1, <2>1, <2>2, EditsAreNew DEF Reversed, Checked, TargetsOK
<1>5. CASE file[<<cur, "stage">>] = "new" /\ Restored /\ UNCHANGED <<want, expects>>
  <2>1. Checked(cur) /\ Watched(cur)
    BY <1>3, <1>4 DEF Reversed
  <2>2. Tracked(cur)
    <3>1. Located(cur) /\ Aside(cur) = "stage" /\ file[<<cur, "stage">>] \notin Edits
      BY <1>3, <1>4, <1>5, EditsAreNew DEF Reversed
    <3> QED
      BY <3>1 DEF Located, Tracked
  <2>3. left[cur] = Untouched => Public(cur) \in {frozen[cur]} \union Edits
    BY <1>3, <1>4 DEF Reversed
  <2> QED
    BY <1>1, <1>2, <1>5, <2>1, <2>2, <2>3, RestoredStep DEF ControlOK, artVars
<1>6. CASE /\ file[<<cur, "stage">>] # "new" /\ want' = file[<<cur, "stage">>]
           /\ expects' = [expects EXCEPT ![<<cur, "stage">>] = file[<<cur, "stage">>]]
           /\ Goto("unmove") /\ UNCHANGED <<phase, warned, faults>>
  <2>1. cur' = cur /\ rolling' = rolling /\ Active' /\ pc' = "unmove"
    BY <1>6 DEF Goto, Active
  <2>2. want' \in Content
    BY <1>1, <1>3, <1>6, TheNames DEF ArtifactsOK
  <2>3. /\ expects' \in [Targets \X Private -> Content]
        /\ \A t \in Targets \ {cur} : \A n \in Private : expects'[<<t, n>>] = expects[<<t, n>>]
        /\ \A n \in Private \ {"stage"} : expects'[<<cur, n>>] = expects[<<cur, n>>]
    <3>1. <<cur, "stage">> \in Targets \X Private /\ file[<<cur, "stage">>] \in Content
      BY <1>1, <1>3, TheNames DEF ArtifactsOK
    <3> QED
      BY <1>1, <1>3, <1>6, <3>1, Expected
  <2>4. TargetsOK' /\ ArtifactsOK' /\ ControlOK'
    BY <1>1, <1>2, <1>6, <2>1, <2>2, <2>3 DEF TargetsOK, ArtifactsOK, ControlOK, Steps,
       planVars, diskVars, editVars
  <2>5. ASSUME NEW t \in Targets \ {cur} PROVE Same(t)
    BY <1>2, <1>6, <2>3 DEF Same, SameRow, SameFiles, planVars, diskVars, editVars
  <2>6. ASSUME NEW t \in Targets, t = cur PROVE Shaped(t)' /\ Stepped(t)'
    <3>1. /\ Operation(t)' = Operation(t) /\ Aside(t)' = Aside(t)
      BY <1>2, SameOperation DEF planVars
    <3>2. /\ plan' = plan /\ frozen' = frozen /\ original' = original /\ file' = file
          /\ left' = left /\ used' = used /\ Public(t)' = Public(t)
      BY <1>2 DEF Public, planVars, diskVars, editVars
    <3>6. Shaped(t)' /\ Checked(t)'
      BY <1>4, <2>6, <3>2 DEF Reversed, Shaped, Checked
    <3>7. Anchored(t)' /\ Located(t)'
      BY <1>4, <2>6, <3>1, <3>2 DEF Reversed, Anchored, Located, Changed
    <3>3. Listed(t)'
      <4>1. Listed(t) /\ Aside(t)' = "stage" /\ Aside(t) = "stage"
        BY <1>4, <2>6, <3>1 DEF Reversed
      <4>2. /\ expects'[<<t, "recovery">>] = expects[<<t, "recovery">>]
            /\ expects'[<<t, "delete">>] = expects[<<t, "delete">>]
        BY <2>3, <2>6, TheNames
      <4> QED
        BY <4>1, <4>2 DEF Listed
    <3>4. left[t] = Untouched => Public(t) = Nothing /\ file[<<t, "stage">>] \in Edits
      BY <1>4, <1>6, <2>6 DEF Reversed
    <3> QED
      BY <1>2, <1>3, <1>4, <1>6, <2>1, <2>6, <3>1, <3>2, <3>3, <3>4, <3>6, <3>7
      DEF Stepped, planVars, diskVars, editVars
  <2> QED
    BY <1>2, <1>6, <2>1, <2>4, <2>5, <2>6, StepOn DEF diskVars
<1> QED
  BY <1>5, <1>6 DEF Uncreated

-----------------------------------------------------------------------------
(* The editor.                                                             *)

\* What a step of the editor about a target keeps of it.
EditedRow(t) == /\ Shaped(t)' /\ (Settled(t) => Settled(t)') /\ (Stepped(t) => Stepped(t)')
                /\ (Checked(t) => Checked(t)') /\ (Passed(t) => Passed(t)')
                /\ (Ready(t) => Ready(t)')
                /\ (Blank(t) /\ phase[t] \in {"none", "pending"} => Blank(t)')

\* The records of the target and its other names are as they were.
PublicEdited(t) ==
  /\ UNCHANGED stepVars /\ used \subseteq used' /\ used' \subseteq Edits
  /\ \A n \in Private : file'[<<t, n>>] = file[<<t, n>>]
  /\ left'[t] = file'[<<t, "public">>]
  /\ left'[t] = Nothing \/ (left'[t] \in Edits /\ left'[t] \notin used /\ left'[t] \in used')

\* A public file is written or removed: the row is one of the editor's now.
LEMMA EditedPublic ==
  ASSUME TargetsOK, ArtifactsOK, NEW t \in Targets, Shaped(t), PublicEdited(t) PROVE EditedRow(t)
<1>1. /\ plan' = plan /\ frozen' = frozen /\ original' = original /\ phase' = phase
      /\ expects' = expects /\ faults' = faults /\ reported' = reported /\ keep' = keep
      /\ stored' = stored /\ pc' = pc /\ seen' = seen
  BY DEF PublicEdited, stepVars, planVars, artVars, localVars, endVars
<1>2. Operation(t)' = Operation(t) /\ Aside(t)' = Aside(t) /\ Wanted(t)' = Wanted(t)
  BY <1>1 DEF Operation, Aside, Wanted
<1>3. /\ \A n \in Private : file'[<<t, n>>] = file[<<t, n>>]
      /\ left'[t] # Untouched /\ Public(t)' = left'[t] /\ file'[<<t, "public">>] = left'[t]
      /\ left'[t] \notin used
      /\ left'[t] = Nothing \/ left'[t] \in Edits
  BY EditsAreNew DEF PublicEdited, Public, TargetsOK, Untouched, Nothing
<1>4. Shaped(t)'
  BY <1>1, <1>3, EditsAreNew, TheNames DEF Shaped, PublicEdited, Names
<1>5. Checked(t) => Checked(t)'
  BY <1>1, <1>3, TheNames DEF Checked, PublicEdited, Names
<1>6. Tracked(t)' /\ Located(t)'
  BY <1>3 DEF Tracked, Located
<1>7. Anchored(t) => Anchored(t)'
  BY <1>1, <1>2, <1>3, TheNames DEF Anchored
<1>8. Listed(t)' = Listed(t) /\ Watched(t)' = Watched(t) /\ Expecting(t)' = Expecting(t)
  BY <1>1, <1>2, <1>3, TheNames DEF Listed, Watched, Expecting
<1>9. Renamed(t) => Renamed(t)'
  BY <1>1, <1>2, <1>3, <1>5, <1>6, <1>7, <1>8, TheNames DEF Renamed
<1>10. Back(t) => Back(t)'
  BY <1>1, <1>3, <1>5, <1>6, <1>7, <1>8 DEF Back
<1>11. Reversed(t) => Reversed(t)'
  BY <1>1, <1>2, <1>3, <1>5, <1>6, <1>7, <1>8, TheNames DEF Reversed
<1>12. Unrenamed(t) => Unrenamed(t)'
  BY <1>1, <1>3, TheNames DEF Unrenamed
<1>13. Interrupted(t) => Interrupted(t)'
  BY <1>1, <1>3 DEF Interrupted
<1>14. Reported(t) => Reported(t)'
  BY <1>1, <1>3, <1>7 DEF Reported
<1>15. Settled(t) => Settled(t)'
  BY <1>1, <1>9, <1>10, <1>12, <1>13, <1>14 DEF Settled
<1>16. Stepped(t) => Stepped(t)'
  BY <1>1, <1>2, <1>3, <1>5, <1>6, <1>7, <1>8, <1>9, <1>10, <1>11, TheNames DEF Stepped
<1>17. Passed(t) => Passed(t)'
  BY <1>1, <1>6, <1>8, <1>9 DEF Passed, Proven
<1>18. (Ready(t) => Ready(t)') /\ (Blank(t) => Blank(t)')
  BY <1>1, <1>3, TheNames DEF Ready, Blank
<1> QED
  BY <1>4, <1>5, <1>15, <1>16, <1>17, <1>18 DEF EditedRow

\* A file is written that was set aside: nobody else writes what it now holds,
\* and it is still there.
AsideEdited(t) ==
  /\ UNCHANGED stepVars /\ used \subseteq used' /\ used' \subseteq Edits
  /\ phase[t] \notin {"none", "pending"}
  /\ \A n \in Names \ {Aside(t)} : file'[<<t, n>>] = file[<<t, n>>]
  /\ file[<<t, Aside(t)>>] # Nothing
  /\ file'[<<t, Aside(t)>>] \in Edits /\ file'[<<t, Aside(t)>>] \notin used
  /\ file'[<<t, Aside(t)>>] \in used'
  /\ left'[t] = IF file[<<t, Aside(t)>>] = left[t] THEN file'[<<t, Aside(t)>>] ELSE left[t]

\* The row follows the edit to the private name.
LEMMA EditedAside ==
  ASSUME TargetsOK, ArtifactsOK, NEW t \in Targets, Shaped(t), AsideEdited(t) PROVE EditedRow(t)
<1>1. /\ plan' = plan /\ frozen' = frozen /\ original' = original /\ phase' = phase
      /\ expects' = expects /\ faults' = faults /\ reported' = reported /\ keep' = keep
      /\ stored' = stored /\ pc' = pc /\ seen' = seen
  BY DEF AsideEdited, stepVars, planVars, artVars, localVars, endVars
<1>2. Operation(t)' = Operation(t) /\ Aside(t)' = Aside(t) /\ Wanted(t)' = Wanted(t)
  BY <1>1 DEF Operation, Aside, Wanted
<1>3. PICK m \in {"stage", "delete"} : m = Aside(t)
  BY DEF Aside
<1>4. /\ \A n \in Names \ {m} : file'[<<t, n>>] = file[<<t, n>>]
      /\ Public(t)' = Public(t)
      /\ file[<<t, m>>] # Nothing /\ file'[<<t, m>>] # Nothing
      /\ file'[<<t, m>>] \in Edits /\ file'[<<t, m>>] \notin used /\ file'[<<t, m>>] \in used'
      /\ left'[t] = IF file[<<t, m>>] = left[t] THEN file'[<<t, m>>] ELSE left[t]
  BY <1>3, EditsAreNew, TheNames DEF AsideEdited, Public
<1>5. plan[t] # "keep" /\ (m = "delete" <=> plan[t] = "delete")
  BY <1>3, <1>4 DEF Shaped, Aside
<1>6. Shaped(t)'
  BY <1>1, <1>4, <1>5, EditsAreNew, TheNames DEF Shaped, Names, AsideEdited
<1>7. /\ left[t] # Untouched => left'[t] # Untouched
      /\ file[<<t, m>>] = left[t] => left[t] \in used
  <2>1. file[<<t, m>>] \in Content
    BY TheNames, <1>3 DEF ArtifactsOK
  <2>2. Untouched \notin Content
    BY EditsAreNew DEF Content, Untouched, Nothing
  <2>3. file[<<t, m>>] = left[t] => left[t] \in used
    BY <1>4, <2>1, <2>2 DEF Shaped
  <2> QED
    BY <1>4, <2>3, EditsAreNew DEF TargetsOK
<1>8. Checked(t) => Checked(t)'
  BY <1>1, <1>3, <1>4, <1>7, TheNames DEF Checked, AsideEdited, Names
<1>9. Tracked(t) => Tracked(t)'
  <2>1. SUFFICES ASSUME Tracked(t) PROVE Tracked(t)'
    OBVIOUS
  <2>2. file[<<t, m>>] # left[t]
    <3>1. left[t] \in used => Public(t) = left[t] /\ left[t] \in Edits
      BY <2>1 DEF Tracked, Changed, TargetsOK
    <3>2. file[<<t, "public">>] \in Edits => file[<<t, m>>] # file[<<t, "public">>]
      BY <1>3, TheNames DEF Shaped
    <3> QED
      BY <1>7, <3>1, <3>2 DEF Public
  <2> QED
    BY <1>1, <1>4, <2>1, <2>2 DEF Tracked, Changed
<1>10. Located(t) => Located(t)'
  BY <1>1, <1>2, <1>3, <1>4 DEF Located, Changed
<1>11. Anchored(t) => Anchored(t)'
  BY <1>1, <1>2, <1>3, <1>4, <1>7, TheNames DEF Anchored
<1>12. /\ Listed(t)' = Listed(t) /\ Expecting(t)' = Expecting(t)
       /\ Watched(t) => Watched(t)'
  BY <1>1, <1>2, <1>3, <1>4, TheNames DEF Listed, Watched, Expecting
<1>13. Renamed(t) => Renamed(t)'
  BY <1>1, <1>2, <1>3, <1>4, <1>5, <1>7, <1>8, <1>10, <1>11, <1>12, TheNames DEF Renamed
<1>14. Back(t) => Back(t)'
  BY <1>1, <1>4, <1>7, <1>8, <1>9, <1>11, <1>12 DEF Back
<1>15. Reversed(t) => Reversed(t)'
  BY <1>1, <1>2, <1>3, <1>4, <1>5, <1>7, <1>8, <1>10, <1>11, <1>12, TheNames DEF Reversed
<1>16. Reported(t) => Reported(t)'
  BY <1>1, <1>3, <1>4, <1>11, TheNames DEF Reported
<1>17. Settled(t) => Settled(t)'
  BY <1>1, <1>13, <1>14, <1>16 DEF Settled, Unrenamed, Interrupted, AsideEdited
<1>18. Stepped(t) => Stepped(t)'
  <2>1. Operation(t) = "create" => m = "stage"
    BY <1>5 DEF Operation
  <2> QED
    BY <1>1, <1>2, <1>3, <1>4, <1>7, <1>8, <1>9, <1>10, <1>11, <1>12, <1>13, <1>14, <1>15, <2>1
    DEF Stepped
<1>19. Passed(t) => Passed(t)'
  BY <1>1, <1>9, <1>12, <1>13 DEF Passed, Proven
<1>20. (Ready(t) => Ready(t)') /\ (Blank(t) /\ phase[t] \in {"none", "pending"} => Blank(t)')
  BY <1>1 DEF Ready, AsideEdited
<1> QED
  BY <1>6, <1>8, <1>17, <1>18, <1>19, <1>20 DEF EditedRow

\* A target a step is about keeps its row too.
LEMMA KeepsStepped ==
  ASSUME NEW t \in Targets, Same(t), Stepped(t), pc' = pc, seen' = seen PROVE Stepped(t)'
<1>1. /\ SameRow(t) /\ Operation(t)' = Operation(t) /\ plan' = plan /\ phase'[t] = phase[t]
      /\ left'[t] = left[t] /\ frozen' = frozen /\ original'[t] = original[t]
      /\ t \in reported <=> t \in reported'
      /\ \A n \in Names : file'[<<t, n>>] = file[<<t, n>>]
  BY SameOperation DEF Same, SameRow, SameFiles
<1>2. /\ Renamed(t) => Renamed(t)'
      /\ Reversed(t) => Reversed(t)'
      /\ Back(t) => Back(t)'
      /\ Checked(t) => Checked(t)'
  BY <1>1, KeepsRenamed, KeepsReversed, KeepsBack, KeepsChecked
<1>3. /\ Tracked(t)' = Tracked(t) /\ Located(t)' = Located(t) /\ Anchored(t)' = Anchored(t)
      /\ Expecting(t)' = Expecting(t) /\ Listed(t)' = Listed(t)
  BY <1>1, KeepsTracked, KeepsAnchored, KeepsExpecting
<1> QED
  BY <1>1, <1>2, <1>3, TheNames DEF Stepped, Public

\* An edit of one target leaves every other one alone, and the passes where
\* they are.
LEMMA EditedRows ==
  ASSUME PInv, UNCHANGED stepVars, NEW t \in Targets, EditedRow(t),
         used \subseteq used', pc = "author" => phase[t] \in {"none", "pending"},
         \A u \in Targets \ {t} : /\ left'[u] = left[u]
                                  /\ \A n \in Names : file'[<<u, n>>] = file[<<u, n>>]
  PROVE  Rows'
<1>1. /\ plan' = plan /\ frozen' = frozen /\ original' = original /\ phase' = phase
      /\ expects' = expects /\ faults' = faults /\ reported' = reported /\ keep' = keep
      /\ stored' = stored /\ pc' = pc /\ seen' = seen /\ cur' = cur /\ rolling' = rolling
  BY DEF stepVars, planVars, artVars, localVars, endVars
<1>2. Active' <=> Active
  BY <1>1 DEF Active
<1>3. ASSUME NEW u \in Targets, u # t PROVE Row(u)' /\ Ahead(u)'
  <2>1. Row(u) /\ Ahead(u) /\ Same(u) /\ SameRow(u)
    BY <1>1, <1>3 DEF PInv, Rows, Same, SameRow, SameFiles
  <2>2. Row(u)'
    BY <1>1, <1>2, <2>1, KeepsShape, KeepsStepped, Bystander DEF Row
  <2>3. (Passed(u) => Passed(u)') /\ (Checked(u) => Checked(u)')
    BY <2>1, KeepsPassed, KeepsChecked
  <2>4. Ready(u)' = Ready(u) /\ Blank(u)' = Blank(u)
    BY <2>1, KeepsReady
  <2> QED
    BY <1>1, <1>2, <2>1, <2>2, <2>3, <2>4 DEF Ahead
<1>4. Row(t)' /\ Ahead(t)'
  <2>1. Row(t) /\ Ahead(t)
    BY DEF PInv, Rows
  <2>2. Row(t)'
    BY <1>1, <1>2, <2>1 DEF Row, EditedRow
  <2>3. /\ Passed(t) => Passed(t)'
        /\ Checked(t) => Checked(t)'
        /\ Ready(t) => Ready(t)'
        /\ pc = "author" /\ Blank(t) => Blank(t)'
    BY DEF EditedRow
  <2> QED
    BY <1>1, <1>2, <2>1, <2>2, <2>3 DEF Ahead
<1> QED
  BY <1>3, <1>4 DEF Rows

\* An edit of a file that was set aside is seen by the cleanup, or comes before
\* it looks.
LEMMA EditedClearing ==
  ASSUME PInv, UNCHANGED stepVars, pc # "done", NEW a \in Targets \X Private,
         phase[a[1]] \notin {"none", "pending"}, Unsettled(a), file'[a] # Nothing,
         \A b \in (Targets \X Private) \ {a} : file'[b] = file[b]
  PROVE  Clearing'
<1>1. /\ phase' = phase /\ expects' = expects /\ reported' = reported /\ keep' = keep
      /\ stored' = stored /\ pc' = pc /\ art' = art /\ warned' = warned
  BY DEF stepVars, planVars, artVars, localVars, endVars
<1>2. /\ Clearing /\ art \in Targets \X Private
      /\ keep \subseteq Targets \X Private /\ stored \subseteq Targets \X Private
  BY DEF PInv, PTypeOK, ArtifactsOK
<1>3. pc \in {"clean-move", "clean-verify"} =>
        /\ file'[art] # Nothing /\ expects[art] # Nothing /\ art[1] \notin reported
        /\ phase[art[1]] \in {"none", "pending"} => file'[art] = expects[art]
  BY <1>2 DEF Clearing
<1>4. ASSUME NEW b \in stored
      PROVE  /\ b \in keep /\ b[1] \notin reported
             /\ phase[b[1]] \in {"none", "pending"} => file'[b] = expects[b]
  BY <1>2 DEF Clearing
<1>5. ASSUME ~warned, NEW b \in keep
      PROVE  \/ b[1] \in reported
             \/ b \in stored /\ (file'[b] \notin Edits \/ (pc = "clean-verify" /\ art = b))
  BY <1>2, <1>5 DEF Clearing, Unsettled
<1> QED
  BY <1>1, <1>2, <1>3, <1>4, <1>5 DEF Clearing

\* A file is saved or removed.
LEMMA EditPublicStep ==
  ASSUME PInv, pc # "done", NEW t \in Targets, Edit(t) \/ Remove(t) PROVE PInv'
<1>1. TargetsOK /\ ArtifactsOK /\ ControlOK /\ Rows /\ Control /\ Clearing
  BY DEF PInv, PTypeOK
<1>2. PICK c \in {Nothing} \union (Edits \ used) :
        /\ UNCHANGED stepVars /\ used \subseteq used' /\ used' \subseteq Edits
        /\ c = Nothing \/ c \in used'
        /\ file' = [file EXCEPT ![<<t, "public">>] = c] /\ left' = [left EXCEPT ![t] = c]
  <2>1. CASE Edit(t)
    BY <1>1, <2>1 DEF Edit, TargetsOK
  <2>2. CASE Remove(t)
    BY <1>1, <2>2 DEF Remove, TargetsOK
  <2> QED
    BY <2>1, <2>2
<1>3. /\ file' \in [Targets \X Names -> Content]
      /\ left' \in [Targets -> Content \union {Untouched}]
      /\ left'[t] = c /\ file'[<<t, "public">>] = c
      /\ \A n \in Private : file'[<<t, n>>] = file[<<t, n>>]
      /\ \A u \in Targets \ {t} : /\ left'[u] = left[u]
                                  /\ \A n \in Names : file'[<<u, n>>] = file[<<u, n>>]
  BY <1>1, <1>2, TheNames DEF TargetsOK, ArtifactsOK, Content
<1>4. \A a \in Targets \X Private : file'[a] = file[a]
  BY <1>1, <1>2, TheNames DEF ArtifactsOK
<1>5. PublicEdited(t)
  BY <1>2, <1>3 DEF PublicEdited
<1>6. Shaped(t) /\ (pc = "author" => phase[t] = "none")
  BY <1>1 DEF Rows, Row, Ahead
<1>7. EditedRow(t)
  BY <1>1, <1>5, <1>6, EditedPublic
<1>8. Rows'
  BY <1>2, <1>3, <1>6, <1>7, EditedRows
<1>9. TargetsOK' /\ ArtifactsOK' /\ ControlOK' /\ Control'
  BY <1>1, <1>2, <1>3 DEF stepVars, planVars, artVars, localVars, endVars, TargetsOK,
     ArtifactsOK, ControlOK, Control
<1>10. Clearing'
  <2>1. /\ phase' = phase /\ expects' = expects /\ reported' = reported /\ keep' = keep
        /\ stored' = stored /\ pc' = pc /\ art' = art /\ warned' = warned
    BY <1>2 DEF stepVars, planVars, artVars, localVars, endVars
  <2>2. /\ keep \subseteq Targets \X Private /\ stored \subseteq Targets \X Private
        /\ art \in Targets \X Private
    BY <1>1 DEF ArtifactsOK
  <2> QED
    BY <1>1, <1>4, <2>1, <2>2 DEF Clearing
<1> QED
  BY <1>8, <1>9, <1>10 DEF PInv, PTypeOK

\* A file that was set aside is written.
LEMMA EditMovedStep ==
  ASSUME PInv, pc # "done", NEW t \in Targets, EditMoved(t) PROVE PInv'
<1>1. TargetsOK /\ ArtifactsOK /\ ControlOK /\ Rows /\ Control /\ Clearing
  BY DEF PInv, PTypeOK
<1> DEFINE a == <<t, Aside(t)>>
<1>2. PICK e \in Edits \ used :
        /\ UNCHANGED stepVars /\ used' = used \union {e}
        /\ phase[t] \notin {"none", "pending"} /\ file[a] # Nothing /\ Unsettled(a)
        /\ file' = [file EXCEPT ![a] = e]
        /\ left' = IF file[a] = left[t] THEN [left EXCEPT ![t] = e] ELSE left
  BY DEF EditMoved
<1>3. Aside(t) \in Private /\ a \in Targets \X Private
  BY AsidePrivate
<1>4. /\ file' \in [Targets \X Names -> Content] /\ file'[a] = e
      /\ \A b \in (Targets \X Names) \ {a} : file'[b] = file[b]
  BY <1>1, <1>2, <1>3, TheNames DEF ArtifactsOK, Content
<1>5. /\ left' \in [Targets -> Content \union {Untouched}]
      /\ left'[t] = (IF file[a] = left[t] THEN e ELSE left[t])
      /\ \A u \in Targets \ {t} : left'[u] = left[u]
  BY <1>1, <1>2 DEF TargetsOK, Content
<1>6. /\ \A n \in Names \ {Aside(t)} : file'[<<t, n>>] = file[<<t, n>>]
      /\ \A u \in Targets \ {t} : \A n \in Names : file'[<<u, n>>] = file[<<u, n>>]
      /\ \A b \in (Targets \X Private) \ {a} : file'[b] = file[b]
  BY <1>4, TheNames
<1>7. used \subseteq used' /\ used' \subseteq Edits /\ e \in used' /\ e # Nothing
  BY <1>1, <1>2, EditsAreNew DEF TargetsOK
<1>8. AsideEdited(t)
  BY <1>2, <1>4, <1>5, <1>6, <1>7 DEF AsideEdited
<1>9. Shaped(t) /\ (pc = "author" => phase[t] = "none")
  BY <1>1 DEF Rows, Row, Ahead
<1>10. EditedRow(t)
  BY <1>1, <1>8, <1>9, EditedAside
<1>11. Rows'
  BY <1>2, <1>5, <1>6, <1>7, <1>9, <1>10, EditedRows
<1>12. TargetsOK' /\ ArtifactsOK' /\ ControlOK' /\ Control'
  BY <1>1, <1>2, <1>4, <1>5, <1>7
  DEF stepVars, planVars, artVars, localVars, endVars, TargetsOK,
     ArtifactsOK, ControlOK, Control
<1>13. Clearing'
  <2>1. a[1] = t
    OBVIOUS
  <2> HIDE DEF a
  <2> QED
    BY <1>2, <1>3, <1>4, <1>6, <1>7, <2>1, EditedClearing
<1> QED
  BY <1>11, <1>12, <1>13 DEF PInv, PTypeOK

\* Whatever the editor does.
LEMMA EditorStep == ASSUME PInv, Editor PROVE PInv'
BY EditPublicStep, EditMovedStep DEF Editor

-----------------------------------------------------------------------------
(* The cleanup.                                                            *)

\* What a step of the cleanup keeps of a target: all, but for an artifact that
\* is gone and that is not expected any more.
Cleaned(t) ==
  /\ SameFiles(t) /\ original'[t] = original[t] /\ phase'[t] = phase[t]
  /\ \A n \in Private : \/ expects'[<<t, n>>] = expects[<<t, n>>]
                        \/ expects'[<<t, n>>] = Nothing /\ file[<<t, n>>] = Nothing
  /\ faults.interrupts > 0 => faults'.interrupts > 0
  /\ t \in reported <=> t \in reported'
  /\ \A n \in Private : <<t, n>> \in keep \ stored => <<t, n>> \in keep' \ stored'

\* A row does not speak of an artifact that is gone.
LEMMA CleanedRow ==
  ASSUME NEW t \in Targets, Cleaned(t), Shaped(t)
  PROVE  /\ Shaped(t)' /\ (Settled(t) => Settled(t)') /\ (Passed(t) => Passed(t)')
<1>1. /\ plan' = plan /\ frozen' = frozen /\ left'[t] = left[t] /\ used \subseteq used'
      /\ \A n \in Names : file'[<<t, n>>] = file[<<t, n>>]
      /\ original'[t] = original[t] /\ phase'[t] = phase[t]
      /\ t \in reported <=> t \in reported'
      /\ Public(t)' = Public(t) /\ Wanted(t)' = Wanted(t)
  BY TheNames DEF Cleaned, SameFiles, Public, Wanted
<1>2. Operation(t)' = Operation(t) /\ Aside(t)' = Aside(t)
  BY <1>1, SameOperation
<1>3. \A n \in Private : \/ expects'[<<t, n>>] = expects[<<t, n>>]
                         \/ expects'[<<t, n>>] = Nothing /\ file[<<t, n>>] = Nothing
  BY DEF Cleaned
<1>4. Shaped(t)'
  BY <1>1, TheNames DEF Shaped
<1>5. Checked(t) => Checked(t)'
  BY <1>1, TheNames DEF Checked
<1>6. Tracked(t)' = Tracked(t) /\ Located(t)' = Located(t)
  BY <1>1, <1>2, TheNames, AsidePrivate DEF Tracked, Located, Changed
<1>7. Anchored(t)' = Anchored(t)
  BY <1>1, <1>2, TheNames DEF Anchored
<1>8. (Listed(t) => Listed(t)') /\ (Watched(t) => Watched(t)')
  BY <1>1, <1>2, <1>3, TheNames, EditsAreNew DEF Listed, Watched
<1>9. Renamed(t) => Renamed(t)'
  BY <1>1, <1>2, <1>5, <1>6, <1>7, <1>8, TheNames, AsidePrivate DEF Renamed
<1>10. Back(t) => Back(t)'
  BY <1>1, <1>5, <1>6, <1>7, <1>8 DEF Back
<1>11. Unrenamed(t) => Unrenamed(t)'
  BY <1>1, <1>3, TheNames DEF Unrenamed
<1>12. Interrupted(t) => Interrupted(t)'
  BY <1>1, <1>2, <1>3, TheNames, AsidePrivate DEF Interrupted, Cleaned
<1>13. Reported(t) => Reported(t)'
  BY <1>1, <1>7, TheNames DEF Reported, Cleaned
<1>14. Settled(t) => Settled(t)'
  BY <1>1, <1>9, <1>10, <1>11, <1>12, <1>13 DEF Settled
<1>15. Passed(t) => Passed(t)'
  BY <1>1, <1>6, <1>8, <1>9 DEF Passed, Proven
<1> QED
  BY <1>4, <1>14, <1>15

\* So the cleanup keeps them all.
LEMMA CleanedRows ==
  ASSUME Rows, pc \in Cleaning, pc' \in Cleaning, rolling' = rolling,
         \A t \in Targets : Cleaned(t)
  PROVE  Rows'
<1>1. ASSUME NEW t \in Targets PROVE Row(t)' /\ Ahead(t)'
  <2>1. Cleaned(t) /\ Row(t) /\ Ahead(t) /\ ~Active /\ ~Active'
    BY DEF Rows, Active, Cleaning
  <2>2. Shaped(t) /\ Settled(t)
    BY <2>1 DEF Row
  <2>3. Shaped(t)' /\ Settled(t)' /\ (Passed(t) => Passed(t)')
    BY <2>1, <2>2, CleanedRow
  <2>4. phase'[t] = phase[t] /\ (t \in reported <=> t \in reported')
    BY <2>1 DEF Cleaned
  <2> QED
    BY <2>1, <2>3, <2>4 DEF Row, Ahead, Cleaning
<1> QED
  BY <1>1 DEF Rows

\* A step of the cleanup goes on with the cleanup.
LEMMA CleanControl ==
  ASSUME Control, pc \in Cleaning, pc' \in Cleaning, UNCHANGED <<cur, rolling, reported>>,
         faults'.interrupts = faults.interrupts, outcome' # "running" => pc' = "done"
  PROVE  Control'
BY DEF Control, Cleaning, Forward

\* An artifact is gone, not the build's any more, or about to be moved.
LEMMA CleanArtifactStep == ASSUME PInv, CleanArtifact PROVE PInv'
<1>1. TargetsOK /\ ArtifactsOK /\ ControlOK /\ Rows /\ Control /\ Clearing
  BY DEF PInv, PTypeOK
<1>2. /\ pc = "clean" /\ pc \in Cleaning
      /\ UNCHANGED <<plan, frozen, original, file, stored, phase, cur, seen, want, tries,
                     rolling, reported, outcome, left, used, faults>>
  BY DEF CleanArtifact, planVars, diskVars, editVars, Cleaning
<1>3. PICK a \in Targets \X Private :
        /\ expects[a] # Nothing /\ a \notin keep
        /\ \/ /\ file[a] = Nothing /\ expects' = [expects EXCEPT ![a] = Nothing]
              /\ UNCHANGED <<keep, warned, art, pc>>
           \/ keep' = keep \union {a} /\ warned' = TRUE /\ UNCHANGED <<expects, art, pc>>
           \/ /\ file[a] # Nothing /\ file[a] = expects[a] /\ art' = a /\ pc' = "clean-move"
              /\ UNCHANGED <<expects, keep, warned>>
  BY DEF CleanArtifact, Pending, Settle
<1>4. Nothing \in Content
  BY DEF Content
<1>5. outcome = "running"
  BY <1>1, <1>2 DEF Control
<1>6. CASE /\ file[a] = Nothing /\ expects' = [expects EXCEPT ![a] = Nothing]
           /\ UNCHANGED <<keep, warned, art, pc>>
  <2>1. /\ expects' \in [Targets \X Private -> Content] /\ expects'[a] = Nothing
        /\ \A b \in (Targets \X Private) \ {a} : expects'[b] = expects[b]
    BY <1>1, <1>4, <1>6, Expected
  <2>2. TargetsOK' /\ ArtifactsOK' /\ ControlOK'
    BY <1>1, <1>2, <1>6, <2>1 DEF TargetsOK, ArtifactsOK, ControlOK
  <2>3. ASSUME NEW t \in Targets PROVE Cleaned(t)
    <3>1. ASSUME NEW n \in Private
          PROVE  \/ expects'[<<t, n>>] = expects[<<t, n>>]
                 \/ expects'[<<t, n>>] = Nothing /\ file[<<t, n>>] = Nothing
      BY <1>6, <2>1
    <3> QED
      BY <1>2, <1>6, <3>1 DEF Cleaned, SameFiles
  <2>4. Rows'
    BY <1>1, <1>2, <1>6, <2>3, CleanedRows
  <2>5. Control'
    BY <1>1, <1>2, <1>5, <1>6, CleanControl
  <2>6. Clearing'
    BY <1>1, <1>2, <1>3, <1>6, <2>1 DEF Clearing, ArtifactsOK
  <2> QED
    BY <2>2, <2>4, <2>5, <2>6 DEF PInv, PTypeOK
<1>7. CASE keep' = keep \union {a} /\ warned' = TRUE /\ UNCHANGED <<expects, art, pc>>
  <2>1. TargetsOK' /\ ArtifactsOK' /\ ControlOK'
    BY <1>1, <1>2, <1>7 DEF TargetsOK, ArtifactsOK, ControlOK
  <2>2. ASSUME NEW t \in Targets PROVE Cleaned(t)
    BY <1>2, <1>7 DEF Cleaned, SameFiles
  <2>3. Rows'
    BY <1>1, <1>2, <1>7, <2>2, CleanedRows
  <2>4. Control'
    BY <1>1, <1>2, <1>5, <1>7, CleanControl
  <2>5. Clearing'
    BY <1>1, <1>2, <1>3, <1>7 DEF Clearing
  <2> QED
    BY <2>1, <2>3, <2>4, <2>5 DEF PInv, PTypeOK
<1>8. CASE /\ file[a] # Nothing /\ file[a] = expects[a] /\ art' = a /\ pc' = "clean-move"
           /\ UNCHANGED <<expects, keep, warned>>
  <2>1. TargetsOK' /\ ArtifactsOK' /\ ControlOK' /\ pc' \in Cleaning
    BY <1>1, <1>2, <1>8 DEF TargetsOK, ArtifactsOK, ControlOK, Steps, Cleaning
  <2>2. ASSUME NEW t \in Targets PROVE Cleaned(t)
    BY <1>2, <1>8 DEF Cleaned, SameFiles
  <2>3. Rows'
    BY <1>1, <1>2, <2>1, <2>2, CleanedRows
  <2>4. Control'
    BY <1>1, <1>2, <1>5, <2>1, CleanControl
  <2>5. a[1] \notin reported
    <3>1. PICK t \in Targets, n \in Private : a = <<t, n>>
      OBVIOUS
    <3>2. Row(t) /\ ~Active
      BY <1>1, <1>2 DEF Rows, Active
    <3>3. t \in reported => a \in keep
      BY <1>8, <3>1, <3>2 DEF Row, Settled, Reported
    <3> QED
      BY <1>3, <3>1, <3>3
  <2>6. Clearing'
    BY <1>1, <1>2, <1>3, <1>8, <2>5 DEF Clearing
  <2> QED
    BY <2>1, <2>3, <2>4, <2>6 DEF PInv, PTypeOK
<1> QED
  BY <1>3, <1>6, <1>7, <1>8

\* An artifact is moved to the store, or the move fails.
LEMMA MoveToStoreStep == ASSUME PInv, MoveToStore PROVE PInv'
<1>1. TargetsOK /\ ArtifactsOK /\ ControlOK /\ Rows /\ Control /\ Clearing
  BY DEF PInv, PTypeOK
<1>2. /\ pc = "clean-move" /\ pc \in Cleaning /\ keep' = keep \union {art}
      /\ UNCHANGED <<plan, frozen, original, file, expects, phase, cur, art, seen, want,
                     tries, rolling, reported, outcome, left, used>>
  BY DEF MoveToStore, planVars, localVars, editVars, Cleaning
<1>3. /\ \/ stored' = stored \union {art} /\ pc' = "clean-verify" /\ UNCHANGED <<warned, faults>>
         \/ CountError /\ warned' = TRUE /\ pc' = "clean" /\ UNCHANGED stored
      /\ pc' \in Cleaning /\ pc' \in Steps
  BY DEF MoveToStore, Cleaning, Steps
<1>4. /\ faults' \in [errors: 0..MaxErrors, interrupts: 0..MaxInterrupts]
      /\ faults'.interrupts = faults.interrupts
  BY <1>1, <1>3, Erred DEF ControlOK
<1>5. outcome = "running" /\ art \notin keep /\ art \in Targets \X Private
  BY <1>1, <1>2 DEF Control, Clearing, ArtifactsOK
<1>6. TargetsOK' /\ ArtifactsOK' /\ ControlOK'
  BY <1>1, <1>2, <1>3, <1>4, <1>5 DEF TargetsOK, ArtifactsOK, ControlOK
<1>7. ASSUME NEW t \in Targets PROVE Cleaned(t)
  BY <1>2, <1>3, <1>4, <1>5 DEF Cleaned, SameFiles
<1>8. Rows'
  BY <1>1, <1>2, <1>3, <1>7, CleanedRows
<1>9. Control'
  BY <1>1, <1>2, <1>3, <1>4, <1>5, CleanControl
<1>10. Clearing'
  BY <1>1, <1>2, <1>3, <1>5 DEF Clearing
<1> QED
  BY <1>6, <1>8, <1>9, <1>10 DEF PInv, PTypeOK

\* An artifact that the cleanup takes is never expected to hold an edit.
LEMMA OwnArtifact ==
  ASSUME PInv, pc \in Cleaning, NEW t \in Targets, NEW n \in Private, t \notin reported
  PROVE  expects[<<t, n>>] \notin Edits
<1>1. Shaped(t) /\ Settled(t) /\ Ahead(t) /\ rolling \in BOOLEAN
  BY DEF PInv, PTypeOK, ControlOK, Rows, Row, Active, Cleaning
<1>2. CASE Unrenamed(t)
  BY <1>1, <1>2, TheNames, EditsAreNew DEF Unrenamed, Shaped
<1>3. CASE Interrupted(t)
  BY <1>3, TheNames, EditsAreNew DEF Interrupted
<1>4. CASE Renamed(t)
  <2>1. ~rolling
    BY <1>1, <1>4 DEF Ahead, Renamed
  <2>2. Watched(t)
    BY <1>1, <1>4, <2>1 DEF Ahead, Passed, Renamed
  <2> QED
    BY <2>2 DEF Watched
<1>5. CASE Back(t)
  BY <1>5 DEF Back, Watched
<1> QED
  BY <1>1, <1>2, <1>3, <1>4, <1>5 DEF Settled

\* The moved artifact is read again: what is not its own is a warning.
LEMMA VerifyStoredStep == ASSUME PInv, VerifyStored PROVE PInv'
<1>1. TargetsOK /\ ArtifactsOK /\ ControlOK /\ Rows /\ Control /\ Clearing
  BY DEF PInv, PTypeOK
<1>2. /\ pc = "clean-verify" /\ pc \in Cleaning /\ pc' = "clean"
      /\ pc' \in Cleaning /\ pc' \in Steps
      /\ UNCHANGED <<plan, frozen, original, file, stored, expects, keep, phase, cur, art,
                     seen, want, tries, rolling, reported, outcome, left, used>>
  BY DEF VerifyStored, planVars, diskVars, artVars, localVars, editVars, Cleaning, Steps
<1>3. /\ faults' \in [errors: 0..MaxErrors, interrupts: 0..MaxInterrupts]
      /\ faults'.interrupts = faults.interrupts
  BY <1>1, Erred DEF VerifyStored, ControlOK
<1>4. /\ outcome = "running" /\ art \in stored /\ art[1] \notin reported
      /\ art \in Targets \X Private
  BY <1>1, <1>2 DEF Control, Clearing, ArtifactsOK
<1>5. warned' \in BOOLEAN /\ (~warned' => ~warned /\ file[art] \notin Edits)
  <2>1. warned' = (warned \/ ~Verified(art)) \/ warned' = TRUE
    BY DEF VerifyStored
  <2>2. expects[art] \notin Edits
    <3>1. PICK t \in Targets, n \in Private : art = <<t, n>>
      BY <1>4
    <3> QED
      BY <1>2, <1>4, <3>1, OwnArtifact
  <2> QED
    BY <1>1, <2>1, <2>2 DEF Verified, ControlOK
<1>6. TargetsOK' /\ ArtifactsOK' /\ ControlOK'
  BY <1>1, <1>2, <1>3, <1>5 DEF TargetsOK, ArtifactsOK, ControlOK
<1>7. ASSUME NEW t \in Targets PROVE Cleaned(t)
  BY <1>2, <1>3 DEF Cleaned, SameFiles
<1>8. Rows'
  BY <1>1, <1>2, <1>7, CleanedRows
<1>9. Control'
  BY <1>1, <1>2, <1>3, <1>4, CleanControl
<1>10. Clearing'
  BY <1>1, <1>2, <1>4, <1>5 DEF Clearing
<1> QED
  BY <1>6, <1>8, <1>9, <1>10 DEF PInv, PTypeOK

\* The promotion ends.
LEMMA FinishStep == ASSUME PInv, Finish PROVE PInv'
<1>1. TargetsOK /\ ArtifactsOK /\ ControlOK /\ Rows /\ Control /\ Clearing
  BY DEF PInv, PTypeOK
<1>2. /\ pc = "clean" /\ pc \in Cleaning /\ pc' = "done" /\ pc' \in Cleaning /\ pc' \in Steps
      /\ Pending = {} /\ End
      /\ UNCHANGED <<plan, frozen, original, file, stored, expects, keep, phase, cur, art,
                     seen, want, tries, rolling, reported, warned, left, used, faults>>
  BY DEF Finish, planVars, diskVars, artVars, localVars, editVars, Cleaning, Steps
<1>3. TargetsOK' /\ ArtifactsOK' /\ ControlOK'
  BY <1>1, <1>2 DEF TargetsOK, ArtifactsOK, ControlOK, End
<1>4. ASSUME NEW t \in Targets PROVE Cleaned(t)
  BY <1>2 DEF Cleaned, SameFiles
<1>5. Rows'
  BY <1>1, <1>2, <1>4, CleanedRows
<1>6. Control'
  BY <1>1, <1>2, CleanControl
<1>7. Clearing'
  BY <1>1, <1>2 DEF Clearing, Pending, End
<1> QED
  BY <1>3, <1>5, <1>6, <1>7 DEF PInv, PTypeOK

-----------------------------------------------------------------------------
(* The invariant holds, and what follows from it.                          *)

\* Before the build no target is renamed.
LEMMA InitPInv == Init => PInv
<1> SUFFICES ASSUME Init PROVE PInv
  OBVIOUS
<1>1. /\ plan \in [Targets -> {"write", "delete", "keep"}]
      /\ frozen \in [Targets -> {Nothing, "original"}]
      /\ \A t \in Targets : plan[t] # "write" => frozen[t] = "original"
      /\ file = [a \in Targets \X Names |-> IF a[2] = "public" THEN frozen[a[1]] ELSE Nothing]
      /\ stored = {} /\ keep = {} /\ original = frozen
      /\ expects = [a \in Targets \X Private |-> Nothing]
      /\ phase = [t \in Targets |-> "none"]
      /\ pc = "author" /\ cur = 1 /\ art = <<1, "stage">>
      /\ seen = [public |-> Nothing, private |-> Nothing, again |-> Nothing]
      /\ want = Nothing /\ tries = 0
      /\ rolling = FALSE /\ reported = {} /\ warned = FALSE /\ outcome = "running"
      /\ left = [t \in Targets |-> Untouched] /\ used = {}
      /\ faults = [errors |-> 0, interrupts |-> 0]
  BY DEF Init
<1>2. Nothing \in Content /\ "original" \in Content /\ 1 \in Targets /\ 1 \in 0..N
  BY PromotionBounds DEF Content, Targets
<1>3. TargetsOK
  BY <1>1, <1>2 DEF TargetsOK, Phases
<1>4. ASSUME NEW t \in Targets
      PROVE  /\ file[<<t, "public">>] = frozen[t] /\ \A n \in Private : file[<<t, n>>] = Nothing
             /\ \A n \in Private : expects[<<t, n>>] = Nothing
             /\ left[t] = Untouched /\ phase[t] = "none" /\ frozen[t] \in {Nothing, "original"}
             /\ original[t] = frozen[t]
  BY <1>1, TheNames
<1>5. ArtifactsOK
  <2>1. file \in [Targets \X Names -> Content]
    BY <1>1, <1>2
  <2>2. expects \in [Targets \X Private -> Content]
    BY <1>1, <1>2
  <2>3. art \in Targets \X Private
    BY <1>1, <1>2, TheNames
  <2> QED
    BY <1>1, <2>1, <2>2, <2>3 DEF ArtifactsOK
<1>6. ControlOK
  <2>1. seen \in [public: Content, private: Content, again: Content] /\ want \in Content
    BY <1>1, <1>2
  <2>2. faults \in [errors: 0..MaxErrors, interrupts: 0..MaxInterrupts] /\ tries \in 0..Corrections
    BY <1>1, PromotionBounds
  <2> QED
    BY <1>1, <1>2, <2>1, <2>2 DEF ControlOK, Steps
<1>7. ASSUME NEW t \in Targets PROVE Row(t) /\ Ahead(t)
  <2>1. Shaped(t)
    BY <1>1, <1>4, EditsAreNew, TheNames DEF Shaped, Names
  <2>2. Unrenamed(t)
    BY <1>1, <1>4, TheNames DEF Unrenamed, Public
  <2>3. Blank(t)
    BY <1>4 DEF Blank
  <2>4. t \in Nat /\ t >= 1
    BY PromotionBounds DEF Targets
  <2> QED
    BY <1>1, <1>4, <2>1, <2>2, <2>3, <2>4 DEF Row, Ahead, Settled, Active, Cleaning
<1>8. Control /\ Clearing
  BY <1>1 DEF Control, Clearing, Cleaning, Forward
<1> QED
  BY <1>3, <1>5, <1>6, <1>7, <1>8 DEF PInv, PTypeOK, Rows

\* The invariant is about the variables alone.
LEMMA StutterStep == ASSUME PInv, UNCHANGED vars PROVE PInv'
<1>1. /\ plan' = plan /\ file' = file /\ stored' = stored /\ frozen' = frozen
      /\ original' = original /\ expects' = expects /\ keep' = keep /\ phase' = phase
      /\ pc' = pc /\ cur' = cur /\ art' = art /\ seen' = seen /\ want' = want
      /\ tries' = tries /\ rolling' = rolling /\ reported' = reported /\ warned' = warned
      /\ outcome' = outcome /\ left' = left /\ used' = used /\ faults' = faults
  BY DEF vars, planVars, diskVars, artVars, localVars, endVars, editVars
<1>2. TargetsOK' /\ ArtifactsOK' /\ ControlOK' /\ Control' /\ Clearing'
  BY <1>1 DEF PInv, PTypeOK, TargetsOK, ArtifactsOK, ControlOK, Control, Clearing, Pending
<1>3. ASSUME NEW t \in Targets PROVE Row(t)' /\ Ahead(t)'
  <2>1. Row(t) /\ Ahead(t) /\ Same(t) /\ SameRow(t) /\ (Active' <=> Active)
    BY <1>1 DEF PInv, Rows, Same, SameRow, SameFiles, Active
  <2>2. Row(t)'
    BY <1>1, <2>1, KeepsShape, KeepsStepped, Bystander DEF Row
  <2>3. (Passed(t) => Passed(t)') /\ (Checked(t) => Checked(t)')
    BY <2>1, KeepsPassed, KeepsChecked
  <2>4. Ready(t)' = Ready(t) /\ Blank(t)' = Blank(t)
    BY <2>1, KeepsReady
  <2> QED
    BY <1>1, <2>1, <2>2, <2>3, <2>4 DEF Ahead
<1> QED
  BY <1>2, <1>3 DEF PInv, PTypeOK, Rows

\* Every step keeps the invariant.
LEMMA PInvHolds == Spec => []PInv
<1>1. PInv /\ [Next]_vars => PInv'
  <2> SUFFICES ASSUME PInv, [Next]_vars PROVE PInv'
    OBVIOUS
  <2>1. CASE Author
    BY <2>1, AuthorStep
  <2>2. CASE AssertMatches
    BY <2>2, AssertMatchesStep
  <2>3. CASE PostValidate
    BY <2>3, PostValidateStep
  <2>4. CASE Promote
    BY <2>4, PromoteStep
  <2>5. CASE Interrupt
    BY <2>5, InterruptStep
  <2>6. CASE ReadAside
    BY <2>6, ReadAsideStep
  <2>7. CASE Compare
    BY <2>7, CompareStep
  <2>8. CASE StepFails
    BY <2>8, StepFailsStep
  <2>9. CASE Rollback
    BY <2>9, RollbackStep
  <2>10. CASE Unswap
    BY <2>10, UnswapStep
  <2>11. CASE Unread
    BY <2>11, UnreadStep
  <2>12. CASE Uncompare
    BY <2>12, UncompareStep
  <2>13. CASE Cocompare
    BY <2>13, CocompareStep
  <2>14. CASE Unmove
    BY <2>14, UnmoveStep
  <2>15. CASE Unmoved
    BY <2>15, UnmovedStep
  <2>16. CASE Uncreate
    BY <2>16, UncreateStep
  <2>17. CASE Uncreated
    BY <2>17, UncreatedStep
  <2>18. CASE ReversalFails
    BY <2>18, ReversalFailsStep
  <2>19. CASE CleanArtifact
    BY <2>19, CleanArtifactStep
  <2>20. CASE MoveToStore
    BY <2>20, MoveToStoreStep
  <2>21. CASE VerifyStored
    BY <2>21, VerifyStoredStep
  <2>22. CASE Finish
    BY <2>22, FinishStep
  <2>23. CASE Editor
    BY <2>23, EditorStep
  <2>24. CASE UNCHANGED vars
    BY <2>24, StutterStep
  <2> QED
    BY <2>1, <2>2, <2>3, <2>4, <2>5, <2>6, <2>7, <2>8, <2>9, <2>10, <2>11, <2>12, <2>13, <2>14,
       <2>15, <2>16, <2>17, <2>18, <2>19, <2>20, <2>21, <2>22, <2>23, <2>24 DEF Next, Build
<1> HIDE DEF PInv, Init, Next, vars
<1> QED
  BY <1>1, InitPInv, PTL DEF Spec

\* Every variable keeps its type.
THEOREM PromotionTypes == Spec => []PTypeOK
<1>1. PInv => PTypeOK
  BY DEF PInv
<1> HIDE DEF PInv, PTypeOK
<1> QED
  BY <1>1, PInvHolds, PTL

\* When all is done and told, an edit is public.
LEMMA EditsShow == PInv => NoEditHidden
<1> SUFFICES ASSUME PInv, pc = "done", faults.interrupts = 0, ~Told, NEW t \in Targets
             PROVE  /\ Changed(t) => Public(t) = left[t]
                    /\ \A n \in Private : file[<<t, n>>] \notin Edits
  BY DEF NoEditHidden
<1>1. Row(t) /\ Ahead(t) /\ Control /\ Clearing /\ rolling \in BOOLEAN
  BY DEF PInv, PTypeOK, ControlOK, Rows
<1>2. reported = {} /\ ~warned /\ Pending = {}
  BY <1>1 DEF Control, Clearing, Told
<1>3. Shaped(t) /\ Settled(t)
  BY <1>1 DEF Row, Active
<1>4. CASE Unrenamed(t)
  <2>1. Changed(t) => left[t] # Untouched
    BY EditsAreNew DEF Changed, Untouched, Nothing
  <2> QED
    BY <1>3, <1>4, <2>1, EditsAreNew, TheNames DEF Unrenamed, Shaped
<1>5. CASE Tracked(t) /\ Watched(t)
  <2>1. ASSUME NEW n \in Private, file[<<t, n>>] \in Edits PROVE FALSE
    <3>1. n \in {"stage", "delete"} /\ file[<<t, n>>] # Nothing
      BY <1>3, <2>1, EditsAreNew, TheNames DEF Shaped
    <3>2. <<t, n>> \in keep
      BY <1>2, <1>5, <3>1 DEF Watched, Pending
    <3> QED
      BY <1>1, <1>2, <2>1, <3>2 DEF Clearing
  <2> QED
    BY <1>5, <2>1 DEF Tracked
<1>6. CASE Renamed(t)
  <2>1. ~rolling /\ Passed(t)
    BY <1>1, <1>2, <1>6 DEF Ahead, Renamed, Cleaning
  <2> QED
    BY <1>5, <1>6, <2>1 DEF Passed, Proven, Renamed
<1> QED
  BY <1>2, <1>3, <1>4, <1>5, <1>6 DEF Settled, Interrupted, Back

\* No edit is lost silently: when the build says all is well, every file is as
\* its editor left it and no private name holds an edit, wherever the edits,
\* the errors and the corrections fell (promote_bytes, _rollback_promoted and
\* _cleanup_records of quest_build_transaction.py).
THEOREM NoEditIsHidden == Spec => []NoEditHidden
<1> HIDE DEF PInv, NoEditHidden
<1> QED
  BY EditsShow, PInvHolds, PTL

\* A commit has passed every target, and a rollback has left none promoted.
LEMMA EndsWhole == PInv => AllOrNothing
<1> SUFFICES ASSUME PInv, faults.interrupts = 0, outcome # "running", NEW t \in Targets,
                    left[t] = Untouched
             PROVE  /\ outcome = "committed" => Public(t) = Wanted(t)
                    /\ outcome \in {"failed", "unresolved"} /\ t \notin reported
                         => Public(t) \in {frozen[t]} \union Edits
  BY DEF AllOrNothing
<1>1. Row(t) /\ Ahead(t) /\ Control /\ Clearing /\ TargetsOK /\ rolling \in BOOLEAN
  BY DEF PInv, PTypeOK, ControlOK, Rows
<1>2. /\ pc = "done" /\ (outcome = "committed" <=> ~rolling)
      /\ ~rolling => reported = {}
  BY <1>1 DEF Control, Clearing
<1>3. Settled(t) /\ ~Interrupted(t)
  BY <1>1, <1>2 DEF Row, Active, Interrupted
<1>4. CASE ~rolling
  <2>1. Passed(t)
    BY <1>1, <1>2, <1>4 DEF Ahead, Cleaning
  <2>2. plan[t] = "keep" => Public(t) = frozen[t]
    BY <1>2, <1>3, <1>4, <2>1 DEF Passed, Settled, Renamed, Back, Unrenamed
  <2> QED
    BY <1>2, <1>4, <2>1, <2>2 DEF Passed, Proven, Renamed, Wanted
<1>5. CASE rolling
  BY <1>1, <1>2, <1>3, <1>5 DEF Ahead, Cleaning, Settled, Renamed, Back, Unrenamed
<1> QED
  BY <1>1, <1>4, <1>5

\* All or nothing, whatever was edited, failed or was corrected on the way
\* (promote_bytes and _rollback_promoted of quest_build_transaction.py).
THEOREM PromotionIsAllOrNothing == Spec => []AllOrNothing
<1> HIDE DEF PInv, AllOrNothing
<1> QED
  BY EndsWhole, PInvHolds, PTL

\* A target is either as it was or as it is wanted: never both.
LEMMA WantedIsNew ==
  ASSUME TargetsOK, NEW t \in Targets, Shaped(t), plan[t] # "keep"
  PROVE  Wanted(t) \notin {frozen[t]} \union Edits
BY EditsAreNew DEF TargetsOK, Shaped, Wanted, Nothing

\* What stands next to a promoted target.
LEMMA AnchorStands ==
  ASSUME TargetsOK, NEW t \in Targets, plan[t] # "keep", left[t] = Untouched,
         Public(t) = Wanted(t), Anchored(t)
  PROVE  \E n \in Private : file[<<t, n>>] # Nothing
<1>1. plan[t] = "delete" => Public(t) = Nothing
  BY DEF Wanted
<1>2. \/ Operation(t) = "replace" /\ file[<<t, "stage">>] # Nothing
      \/ Operation(t) = "create" /\ file[<<t, "recovery">>] # Nothing
      \/ Operation(t) = "delete" /\ file[<<t, "delete">>] # Nothing
  BY <1>1, OperationOf DEF Anchored, Nothing
<1> QED
  BY <1>2, TheNames

\* One target is promoted and another is not: the first one's artifact stands.
LEMMA TornShows ==
  ASSUME PInv, NEW t \in PromotedOf, PriorOf # {}, ~Interrupted(t) PROVE Visible
<1>1. /\ t \in Targets /\ plan[t] # "keep" /\ left[t] = Untouched /\ Public(t) = Wanted(t)
      /\ TargetsOK /\ Row(t) /\ Ahead(t) /\ Control /\ rolling \in BOOLEAN
  BY DEF PromotedOf, PInv, PTypeOK, ControlOK, Rows
<1>2. Shaped(t) /\ Wanted(t) \notin {frozen[t]} \union Edits
  BY <1>1, WantedIsNew DEF Row
<1>3. ~Unrenamed(t) /\ ~Back(t)
  BY <1>1, <1>2 DEF Unrenamed, Back
<1>4. CASE t \in reported
  <2>1. Settled(t)
    BY <1>1, <1>4 DEF Row, Stepped
  <2>2. Reported(t)
    BY <1>4, <2>1 DEF Settled
  <2>3. PICK n \in Private : file[<<t, n>>] # Nothing
    BY <1>1, <2>2, AnchorStands DEF Reported
  <2>4. <<t, n>> \notin stored
    BY <2>2, <2>3 DEF Reported
  <2> QED
    BY <1>1, <2>3, <2>4 DEF Visible
<1>5. CASE t \notin reported /\ pc \notin Cleaning
  <2>1. Anchored(t)
    <3>1. CASE Active /\ t = cur
      BY <1>1, <3>1 DEF Row, Stepped, Active, Renamed, Reversed, Back
    <3>2. CASE ~(Active /\ t = cur)
      BY <1>1, <1>3, <1>5, <3>2 DEF Row, Settled, Renamed
    <3> QED
      BY <3>1, <3>2
  <2>2. stored = {}
    BY <1>1, <1>5 DEF Control
  <2> QED
    BY <1>1, <2>1, <2>2, AnchorStands DEF Visible
<1>6. CASE t \notin reported /\ pc \in Cleaning
  <2>1. Renamed(t)
    BY <1>1, <1>3, <1>6 DEF Row, Settled, Active, Cleaning
  <2>2. ~rolling
    BY <1>1, <1>6, <2>1 DEF Ahead, Renamed
  <2>3. PICK u \in Targets : plan[u] # "keep" /\ left[u] = Untouched /\ Public(u) = frozen[u]
    BY DEF PriorOf
  <2>4. Shaped(u) /\ Passed(u)
    BY <1>6, <2>2 DEF PInv, Rows, Row, Ahead
  <2>5. Public(u) = Wanted(u)
    BY <2>3, <2>4 DEF Passed, Proven, Renamed
  <2> QED
    BY <1>1, <2>3, <2>4, <2>5, WantedIsNew
<1> QED
  BY <1>4, <1>5, <1>6

\* Whatever moment the process dies at, an artifact that stands next to a
\* target tells the next build of a torn promotion (the cleanup of
\* promote_bytes, and freeze, of quest_build_transaction.py).
THEOREM TornStaysVisible == Spec => []TornIsVisible
<1>1. PInv => TornIsVisible
  BY TornShows DEF TornIsVisible, Interrupted
<1> HIDE DEF PInv, TornIsVisible
<1> QED
  BY <1>1, PInvHolds, PTL

\* An interrupted target's original is at its private name.
LEMMA InterruptedShows ==
  ASSUME PInv, NEW t \in PromotedOf, frozen[t] # Nothing, PriorOf # {}, Interrupted(t)
  PROVE  Visible
<1>1. t \in Targets /\ left[t] = Untouched /\ Control /\ Clearing
  BY DEF PromotedOf, PInv
<1>2. Aside(t) \in Private /\ file[<<t, Aside(t)>>] = "original" /\ phase[t] = "pending"
  BY <1>1, AsidePrivate DEF Interrupted
<1>3. expects[<<t, Aside(t)>>] \in {Nothing, "new"}
  BY DEF Interrupted, Aside
<1>4. <<t, Aside(t)>> \notin stored
  BY <1>1, <1>2, <1>3 DEF Clearing, Nothing
<1> QED
  BY <1>1, <1>2, <1>4 DEF Visible, Nothing

\* The same when an interrupt hid a rename from the rollback, for every file
\* that was there before (promote_bytes of quest_build_transaction.py).
THEOREM InterruptedStaysVisible == Spec => []InterruptedIsVisible
<1>1. PInv => InterruptedIsVisible
  <2> SUFFICES ASSUME PInv, NEW t \in PromotedOf, frozen[t] # Nothing, PriorOf # {}
               PROVE  Visible
    BY DEF InterruptedIsVisible
  <2> QED
    BY TornShows, InterruptedShows
<1> HIDE DEF PInv, InterruptedIsVisible
<1> QED
  BY <1>1, PInvHolds, PTL
=============================================================================
