------------------------ MODULE QuestMigrationProofs ------------------------
(***************************************************************************)
(* What the migration of the quest corpus keeps, for any number of files,  *)
(* checkouts, processes, faults and changes by people: no content is lost  *)
(* or brought back, and a call that returns has migrated.                  *)
(*                                                                         *)
(* Nothing locks the transaction directory, and the argument does not use  *)
(* what the processes of other checkouts do to it. A process goes by the   *)
(* journal it has read: what it puts in the place of a file is the safe    *)
(* form of what the preflight found there, and between the preflight and   *)
(* the end nobody else touches the files of its own root.                  *)
(***************************************************************************)
EXTENDS QuestMigration, WellFoundedInduction, TLAPS

-----------------------------------------------------------------------------
(* The inductive invariant. *)

\* A plan changes the ids of a file and nothing else.
Migrates(plan) == \A f \in Files : plan[f] # Skip => plan[f].after = Safe(plan[f].before)
MPlans  == {plan \in Plans : Migrates(plan)}
MBoxes  == {b \in Boxes : Migrates(b.plan)}
Entries == [tx: MBoxes \union {Nobody}, done: BOOLEAN]
Dirs    == [src: Contents \union {None}, dst: Contents \union {None}]

StateOK == state \in Seq(Entries) /\ state # <<>>

ProcessOK ==
  /\ setup \in [Roots -> MBoxes] /\ mine \in [Roots -> MPlans]
  /\ pc \in [Roots -> Pcs] /\ k \in [Roots -> Files]

FilesOK ==
  /\ files \in [Roots -> [Files -> Seq(Dirs)]]
  /\ latest \in [Roots -> [Files -> Versions]] /\ lost \in [Roots -> SUBSET Files]
  /\ \A r \in Roots, f \in Files : files[r][f] # <<>>

\* The second name is that of a chapter, and what bears it is safe.
Named(d, f) == d.dst # None => f \in Moved /\ d.dst.safe

\* What a person gave the file last, or what came of a file that vanished.
Faithful(d, version, vanished) ==
  \/ Holds(d, version)
  \/ vanished /\ (Missing(d) \/ \E v \in Versions : Holds(d, v))

GoodDir(r, f, d) == Named(d, f) /\ Faithful(d, latest[r][f], f \in lost[r])
DirsOK == \A r \in Roots, f \in Files : \A i \in DOMAIN files[r][f] : GoodDir(r, f, files[r][f][i])

\* From the preflight on the files are as they were, or as they will be.
Applying == {"write", "write-sync", "move", "move-sync"}
ForeseenOK == \A r \in Roots : pc[r] \in Applying => Foreseen(r)

\* From the proof on the corpus stays migrated.
Ending == {"complete", "sync-done", "rm-done"}
Finished(r) == Corpus(r) \/ \E f \in lost[r] : Missing(Dir(r, f))
EndingOK == \A r \in Roots : (pc[r] \in Ending => Corpus(r)) /\ (pc[r] = "ok" => Finished(r))

MigrationInv == StateOK /\ ProcessOK /\ FilesOK /\ DirsOK /\ ForeseenOK /\ EndingOK

-----------------------------------------------------------------------------
(* The data: contents, plans, directories, journals of states. *)

LEMMA ContentsFacts ==
  ASSUME NEW c \in Contents
  PROVE  /\ c # None /\ c.ver \in Versions /\ c.safe \in BOOLEAN
         /\ Safe(c) \in Contents /\ Safe(c) # None /\ Safe(c).ver = c.ver /\ Safe(c).safe
<1>1. \A x \in Contents : x.ver \in Versions /\ x.safe \in BOOLEAN
  BY DEF Contents
<1>2. None.ver \notin Versions
  BY DEF None, Versions
<1>3. Safe(c) \in Contents /\ Safe(c).ver = c.ver /\ Safe(c).safe
  BY DEF Contents, Safe
<1> QED BY <1>1, <1>2, <1>3

LEMMA NoneIsNoContent == None \notin Contents
BY DEF Contents, None, Versions

LEMMA SkipIsNoOperation == Skip \notin [before: Contents, after: Contents]
BY NoneIsNoContent DEF Skip

\* An operation of a plan keeps the version and makes the ids safe.
LEMMA OperationFacts ==
  ASSUME NEW plan \in MPlans, NEW f \in Files, plan[f] # Skip
  PROVE  /\ plan[f].before \in Contents /\ plan[f].after \in Contents
         /\ plan[f].before # None /\ plan[f].after # None
         /\ plan[f].after.ver = plan[f].before.ver /\ plan[f].after.ver \in Versions
         /\ plan[f].after.safe
<1>1. plan[f] \in [before: Contents, after: Contents] /\ plan[f].after = Safe(plan[f].before)
  BY DEF MPlans, Plans, Migrates
<1>2. plan[f].before \in Contents /\ plan[f].after \in Contents
  BY <1>1
<1> QED BY <1>1, <1>2, ContentsFacts

LEMMA NoBoxIsEmpty == NoBox \in MBoxes /\ NoBox.plan \in MPlans
<1>1. NoBox.plan \in MPlans
  BY DEF NoBox, MPlans, Plans, Migrates
<1>2. NoBox \in Boxes
  BY DEF NoBox, Boxes, Plans, Copies
<1> QED BY <1>1, <1>2 DEF MBoxes, MPlans

LEMMA DirFacts ==
  ASSUME NEW d \in Dirs
  PROVE  d.src \in Contents \union {None} /\ d.dst \in Contents \union {None}
BY DEF Dirs

\* What appending to a journal, or syncing it, leaves.
LEMMA AppendFacts ==
  ASSUME NEW S, NEW s \in Seq(S), s # <<>>, NEW e \in S
  PROVE  /\ Append(s, e) \in Seq(S) /\ Append(s, e) # <<>> /\ Last(Append(s, e)) = e
         /\ \A i \in DOMAIN Append(s, e) : (i \in DOMAIN s /\ Append(s, e)[i] = s[i]) \/ Append(s, e)[i] = e
BY DEF Last

LEMMA SingleFacts ==
  ASSUME NEW S, NEW e \in S
  PROVE  /\ <<e>> \in Seq(S) /\ <<e>> # <<>> /\ Last(<<e>>) = e
         /\ \A i \in DOMAIN <<e>> : <<e>>[i] = e
BY DEF Last

LEMMA LastFacts ==
  ASSUME NEW S, NEW s \in Seq(S), s # <<>>
  PROVE  Last(s) \in S /\ Len(s) \in DOMAIN s /\ Last(s) = s[Len(s)]
BY DEF Last

\* The first file of a set of files is one of them.
LEMMA MinOfFiles ==
  ASSUME NEW S, S \subseteq Files, S # {}
  PROVE  Min(S) \in S
<1>1. S \subseteq Nat
  BY MigrationBounds DEF Files
<1>2. PICK x \in S : \A y \in S : ~(<<y, x>> \in OpToRel(<, Nat))
  BY <1>1, WFMin, NatLessThanWellFounded
<1>3. \A y \in S : <<y, x>> \in OpToRel(<, Nat) <=> y < x
  BY <1>1 DEF OpToRel
<1>4. \A y \in S : ~(y < x)
  BY <1>2, <1>3, Zenon
<1>5. \A y \in S : x =< y
  BY <1>1, <1>4
<1> QED BY <1>5 DEF Min

\* A file of a root, and the state of the shared directory, as programs see them.
LEMMA DirIsGood ==
  ASSUME FilesOK, DirsOK, NEW r \in Roots, NEW f \in Files
  PROVE  /\ files[r][f] \in Seq(Dirs) /\ files[r][f] # <<>>
         /\ Dir(r, f) \in Dirs /\ GoodDir(r, f, Dir(r, f))
BY LastFacts DEF FilesOK, DirsOK, Dir

LEMMA StateIsEntry ==
  ASSUME StateOK
  PROVE  State \in Entries /\ State.done \in BOOLEAN /\ Tx = State.tx /\ Tx \in MBoxes \union {Nobody}
<1>1. State \in Entries
  BY LastFacts DEF StateOK, State
<1>2. \A e \in Entries : e.done \in BOOLEAN /\ e.tx \in MBoxes \union {Nobody}
  BY DEF Entries
<1> QED BY <1>1, <1>2 DEF Tx

\* A file that is there under its second name is not there under its first.
LEMMA OneName ==
  ASSUME NEW d \in Dirs, NEW version, NEW vanished, Faithful(d, version, vanished)
  PROVE  d.src = None \/ d.dst = None
BY DEF Faithful, Holds, Missing

-----------------------------------------------------------------------------
(* What becomes of the shared directory. *)

LEMMA AppendState ==
  ASSUME StateOK, NEW e \in Entries, SetState(e)
  PROVE  StateOK'
BY AppendFacts DEF StateOK, SetState

LEMMA SingleState ==
  ASSUME NEW e \in Entries, state' = <<e>>
  PROVE  StateOK'
BY SingleFacts DEF StateOK

LEMMA SyncedState ==
  ASSUME StateOK, SyncState
  PROVE  StateOK'
BY StateIsEntry, SingleState DEF SyncState

\* A journal of as many states, each of which is an entry.
LEMMA MappedState ==
  ASSUME StateOK, state' \in [DOMAIN state -> Entries]
  PROVE  StateOK'
<1>1. /\ Len(state) \in Nat /\ DOMAIN state = 1 .. Len(state) /\ Len(state) > 0
  BY DEF StateOK
<1>2. state' \in [1 .. Len(state) -> Entries]
  BY <1>1
<1>3. state' \in Seq(Entries) /\ Len(state') = Len(state)
  BY <1>1, <1>2
<1>4. state' # <<>>
  BY <1>1, <1>3
<1> QED BY <1>3, <1>4 DEF StateOK

LEMMA EntryFacts ==
  ASSUME StateOK, NEW i \in DOMAIN state
  PROVE  /\ state[i] \in Entries /\ state[i].done \in BOOLEAN
         /\ state[i].tx \in MBoxes \union {Nobody}
<1>1. state[i] \in Entries
  BY DEF StateOK
<1> QED BY <1>1 DEF Entries

LEMMA EntryUpdate ==
  ASSUME NEW e \in Entries, NEW b \in MBoxes \union {Nobody}, NEW d \in BOOLEAN
  PROVE  /\ [e EXCEPT !.tx = b] \in Entries /\ [e EXCEPT !.done = d] \in Entries
         /\ [tx |-> b, done |-> d] \in Entries
BY DEF Entries

LEMMA AlteredState ==
  ASSUME StateOK, NEW b \in MBoxes \union {Nobody}, Alter(b)
  PROVE  StateOK'
<1> DEFINE e(i) == IF state[i].tx = Tx THEN [state[i] EXCEPT !.tx = b] ELSE state[i]
<1>1. \A i \in DOMAIN state : e(i) \in Entries
  BY EntryFacts, EntryUpdate
<1>2. state' = [i \in DOMAIN state |-> e(i)]
  BY DEF Alter
<1> HIDE DEF e
<1>3. state' \in [DOMAIN state -> Entries]
  BY <1>1, <1>2
<1> QED BY <1>3, MappedState

\* Whatever happens to a transaction, its plan stays.
LEMMA BoxUpdate ==
  ASSUME NEW b \in MBoxes
  PROVE  /\ \A to \in [1 .. 2 -> Copies] : [b EXCEPT !.journal = to] \in MBoxes
         /\ \A to \in [Files -> [1 .. 2 -> Copies]] : [b EXCEPT !.payload = to] \in MBoxes
         /\ \A j \in [1 .. 2 -> Copies], p \in [Files -> [1 .. 2 -> Copies]] :
              [b EXCEPT !.journal = j, !.payload = p] \in MBoxes
         /\ [b EXCEPT !.origin = Nobody] \in MBoxes
BY DEF MBoxes, Boxes

LEMMA BoxFacts ==
  ASSUME NEW b \in MBoxes
  PROVE  /\ b.plan \in MPlans /\ b.journal \in [1 .. 2 -> Copies]
         /\ b.payload \in [Files -> [1 .. 2 -> Copies]]
BY DEF MBoxes, Boxes, MPlans

LEMMA LeftIsBox ==
  ASSUME NEW b \in MBoxes \union {Nobody}, NEW stays \in BOOLEAN
  PROVE  Left(b, stays) \in MBoxes \union {Nobody}
<1>1. CASE b = Nobody
  BY <1>1 DEF Left
<1>2. CASE b # Nobody /\ b.firm
  <2>1. [f \in Files |-> IF stays THEN b.payload[f] ELSE [b.payload[f] EXCEPT ![1] = "gone"]]
          \in [Files -> [1 .. 2 -> Copies]]
    BY <1>2, BoxFacts DEF Copies
  <2> QED BY <1>2, <2>1, BoxUpdate DEF Left
<1>3. CASE b # Nobody /\ ~b.firm
  <2>1. /\ [i \in 1 .. 2 |-> "bad"] \in [1 .. 2 -> Copies]
        /\ [f \in Files |-> [i \in 1 .. 2 |-> "bad"]] \in [Files -> [1 .. 2 -> Copies]]
    BY DEF Copies
  <2> QED BY <1>3, <2>1, BoxUpdate DEF Left
<1> QED BY <1>1, <1>2, <1>3

LEMMA OrphanedState ==
  ASSUME StateOK, NEW r \in Roots, Orphan(r)
  PROVE  StateOK'
<1> DEFINE e(i) == IF state[i].tx # Nobody /\ state[i].tx.origin = r
                   THEN [state[i] EXCEPT !.tx = [state[i].tx EXCEPT !.origin = Nobody]] ELSE state[i]
<1>1. \A i \in DOMAIN state : e(i) \in Entries
  BY EntryFacts, EntryUpdate, BoxUpdate
<1>2. state' = [i \in DOMAIN state |-> e(i)]
  BY DEF Orphan
<1> HIDE DEF e
<1>3. state' \in [DOMAIN state -> Entries]
  BY <1>1, <1>2
<1> QED BY <1>3, MappedState

-----------------------------------------------------------------------------
(* What a step of one process may disturb. *)

\* The files of a root, and what its process knows of them.
Untouched(q) == /\ files'[q] = files[q] /\ latest'[q] = latest[q] /\ lost'[q] = lost[q]
                /\ mine'[q] = mine[q] /\ pc'[q] = pc[q]
RootFine(r) ==
  /\ \A f \in Files : \A i \in DOMAIN files[r][f] : GoodDir(r, f, files[r][f][i])
  /\ pc[r] \in Applying => Foreseen(r)
  /\ (pc[r] \in Ending => Corpus(r)) /\ (pc[r] = "ok" => Finished(r))

LEMMA UntouchedFine ==
  ASSUME FilesOK, NEW q \in Roots, Untouched(q), RootFine(q)
  PROVE  RootFine(q)'
<1>1. \A f \in Files : \A i \in DOMAIN files[q][f] : GoodDir(q, f, files[q][f][i])' <=> GoodDir(q, f, files[q][f][i])
  BY DEF Untouched, GoodDir
<1>2. \A f \in Files : Dir(q, f)' = Dir(q, f)
  BY DEF Untouched, Dir
<1>3. Ops(q)' = Ops(q) /\ \A f \in Files : After(q, f)' = After(q, f)
  BY DEF Untouched, Ops, After
<1>4. Foreseen(q)' <=> Foreseen(q)
  BY <1>2, <1>3 DEF Untouched, Foreseen, Ops
<1>5. Corpus(q)' <=> Corpus(q)
  BY <1>2 DEF Corpus
<1>6. Finished(q)' <=> Finished(q)
  <2>1. lost[q] \subseteq Files /\ lost'[q] = lost[q]
    BY DEF FilesOK, Untouched
  <2> QED BY <1>2, <1>5, <2>1 DEF Finished, Missing
<1> QED BY <1>1, <1>4, <1>5, <1>6 DEF Untouched, RootFine

LEMMA AllFine ==
  (DirsOK /\ ForeseenOK /\ EndingOK) <=> (\A r \in Roots : RootFine(r))
<1>1. ASSUME DirsOK, ForeseenOK, EndingOK, NEW r \in Roots PROVE RootFine(r)
  BY <1>1 DEF DirsOK, ForeseenOK, EndingOK, RootFine
<1>2. ASSUME \A r \in Roots : RootFine(r) PROVE DirsOK
  BY <1>2 DEF DirsOK, RootFine
<1>3. ASSUME \A r \in Roots : RootFine(r) PROVE ForeseenOK /\ EndingOK
  BY <1>3 DEF ForeseenOK, EndingOK, RootFine
<1> QED BY <1>1, <1>2, <1>3

LEMMA AllFineNext ==
  ASSUME \A r \in Roots : RootFine(r)'
  PROVE  DirsOK' /\ ForeseenOK' /\ EndingOK'
<1>1. DirsOK'
  BY DEF DirsOK, RootFine
<1>2. ForeseenOK' /\ EndingOK'
  BY DEF ForeseenOK, EndingOK, RootFine
<1> QED BY <1>1, <1>2

\* The process of r goes on, and no file changes.
LEMMA QuietStep ==
  ASSUME MigrationInv, NEW r \in Roots, NEW step \in Pcs, UNCHANGED <<files, latest, lost>>,
         pc' = [pc EXCEPT ![r] = step], k' \in [Roots -> Files],
         setup' \in [Roots -> MBoxes], mine' \in [Roots -> MPlans],
         \A q \in Roots : q # r => mine'[q] = mine[q],
         StateOK',
         step \in Applying => Foreseen(r)', step \in Ending => Corpus(r), step = "ok" => Finished(r)
  PROVE  MigrationInv'
<1>1. FilesOK'
  BY DEF MigrationInv, FilesOK
<1>2. pc' \in [Roots -> Pcs] /\ pc'[r] = step /\ \A q \in Roots : q # r => pc'[q] = pc[q]
  BY DEF MigrationInv, ProcessOK
<1>3. ProcessOK'
  BY <1>2 DEF ProcessOK
<1>4. \A q \in Roots : RootFine(q)
  BY AllFine DEF MigrationInv
<1>5. \A q \in Roots : q # r => RootFine(q)'
  BY <1>2, <1>4, UntouchedFine DEF MigrationInv, Untouched
<1>6. RootFine(r)'
  <2>1. \A f \in Files : Dir(r, f)' = Dir(r, f)
    BY DEF Dir
  <2>2. Corpus(r)' <=> Corpus(r)
    BY <2>1 DEF Corpus
  <2>3. Finished(r)' <=> Finished(r)
    <3>1. lost[r] \subseteq Files /\ lost' = lost
      BY DEF MigrationInv, FilesOK
    <3> QED BY <2>1, <2>2, <3>1 DEF Finished, Missing
  <2>4. \A f \in Files : \A i \in DOMAIN files'[r][f] : GoodDir(r, f, files[r][f][i])'
    BY <1>4 DEF RootFine, GoodDir
  <2> QED BY <1>2, <2>2, <2>3, <2>4 DEF RootFine
<1>7. \A q \in Roots : RootFine(q)'
  BY <1>5, <1>6
<1>8. DirsOK' /\ ForeseenOK' /\ EndingOK'
  BY <1>7, AllFineNext
<1> QED BY <1>1, <1>3, <1>8 DEF MigrationInv

\* The process of r changes one of its files.
LEMMA FileUpdate ==
  ASSUME FilesOK, NEW r \in Roots, NEW f \in Files, NEW dirs \in Seq(Dirs), dirs # <<>>,
         SetDirs(r, f, dirs)
  PROVE  /\ files' \in [Roots -> [Files -> Seq(Dirs)]]
         /\ \A q \in Roots, g \in Files : files'[q][g] # <<>>
         /\ files'[r][f] = dirs /\ \A g \in Files : g # f => files'[r][g] = files[r][g]
         /\ \A q \in Roots : q # r => files'[q] = files[q]
BY DEF FilesOK, SetDirs

LEMMA FileStep ==
  ASSUME MigrationInv, NEW r \in Roots, pc[r] \in Applying, NEW step \in Applying,
         pc' = [pc EXCEPT ![r] = step], k' \in [Roots -> Files],
         UNCHANGED <<latest, lost, state, setup, mine>>,
         NEW f \in Files, NEW dirs \in Seq(Dirs), dirs # <<>>, SetDirs(r, f, dirs),
         \A i \in DOMAIN dirs : GoodDir(r, f, dirs[i]),
         f \in Ops(r) => /\ Last(dirs).src \in {None, mine[r][f].before, After(r, f)}
                         /\ f \in Moved => Last(dirs).dst \in {None, After(r, f)}
  PROVE  MigrationInv'
<1>1. FilesOK'
  BY FileUpdate DEF MigrationInv, FilesOK
<1>2. StateOK'
  BY DEF MigrationInv, StateOK
<1>3. pc' \in [Roots -> Pcs] /\ pc'[r] = step /\ \A q \in Roots : q # r => pc'[q] = pc[q]
  BY DEF MigrationInv, ProcessOK, Applying, Pcs
<1>4. ProcessOK'
  BY <1>3 DEF MigrationInv, ProcessOK
<1>5. FilesOK /\ \A q \in Roots : RootFine(q)
  BY AllFine DEF MigrationInv
<1>6. /\ files'[r][f] = dirs /\ \A g \in Files : g # f => files'[r][g] = files[r][g]
      /\ \A q \in Roots : q # r => files'[q] = files[q]
  BY <1>5, FileUpdate
<1>7. \A q \in Roots : q # r => RootFine(q)'
  BY <1>3, <1>5, <1>6, UntouchedFine DEF Untouched
<1>8. RootFine(r)'
  <2>1. \A g \in Files : \A i \in DOMAIN files'[r][g] : GoodDir(r, g, files'[r][g][i])
    BY <1>5, <1>6 DEF RootFine
  <2>2. \A g \in Files : \A i \in DOMAIN files'[r][g] : GoodDir(r, g, files[r][g][i])'
    BY <2>1 DEF GoodDir
  <2>3. Foreseen(r)
    BY <1>5 DEF RootFine
  <2>4. Ops(r)' = Ops(r) /\ Ops(r) \subseteq Files /\ \A g \in Files : After(r, g)' = After(r, g)
    BY DEF Ops, After
  <2>5. \A g \in Files : g # f => Dir(r, g)' = Dir(r, g)
    BY <1>6 DEF Dir
  <2>6. Dir(r, f)' = Last(dirs)
    BY <1>6 DEF Dir
  <2>7. Foreseen(r)'
    BY <2>3, <2>4, <2>5, <2>6 DEF Foreseen
  <2>8. step \notin Ending /\ step # "ok"
    BY DEF Applying, Ending
  <2> QED BY <1>3, <2>2, <2>7, <2>8 DEF RootFine
<1>9. DirsOK' /\ ForeseenOK' /\ EndingOK'
  BY <1>7, <1>8, AllFineNext
<1> QED BY <1>1, <1>2, <1>4, <1>9 DEF MigrationInv

-----------------------------------------------------------------------------
(* The steps of a process before and after it touches its files. *)

\* Before the preflight, or when it has failed, nothing is known of the files.
Elsewhere == {"idle", "clean", "clean-rm", "scan", "rename", "sync-tx", "load", "payload", "validate", "failed"}

LEMMA ElsewhereFacts ==
  ASSUME NEW step \in Elsewhere
  PROVE  step \in Pcs /\ step \notin Applying /\ step \notin Ending /\ step # "ok"
BY DEF Elsewhere, Pcs, Applying, Ending

LEMMA PlainStep ==
  ASSUME MigrationInv, NEW r \in Roots, NEW step \in Elsewhere, To(r, step),
         UNCHANGED <<files, latest, lost, setup, mine>>, StateOK'
  PROVE  MigrationInv'
<1>1. /\ pc' = [pc EXCEPT ![r] = step] /\ k' \in [Roots -> Files]
      /\ setup' \in [Roots -> MBoxes] /\ mine' \in [Roots -> MPlans]
  BY DEF To, MigrationInv, ProcessOK
<1> QED BY <1>1, ElsewhereFacts, QuietStep

LEMMA StateStays ==
  ASSUME MigrationInv, UNCHANGED state
  PROVE  StateOK'
BY DEF MigrationInv, StateOK

\* The end of a call keeps what the proof has shown.
LEMMA EndingStep ==
  ASSUME MigrationInv, NEW r \in Roots, NEW step \in Ending \union {"ok"}, To(r, step), Corpus(r),
         UNCHANGED <<files, latest, lost, setup, mine>>, StateOK'
  PROVE  MigrationInv'
<1>1. /\ pc' = [pc EXCEPT ![r] = step] /\ k' \in [Roots -> Files]
      /\ setup' \in [Roots -> MBoxes] /\ mine' \in [Roots -> MPlans]
  BY DEF To, MigrationInv, ProcessOK
<1>2. step \in Pcs /\ step \notin Applying /\ Finished(r)
  BY DEF Ending, Applying, Pcs, Finished
<1> QED BY <1>1, <1>2, QuietStep

LEMMA CorpusIsMigrated ==
  ASSUME MigrationInv, NEW r \in Roots, pc[r] \in Ending
  PROVE  Corpus(r)
BY DEF MigrationInv, EndingOK

LEMMA CallKeeps ==
  ASSUME MigrationInv, NEW r \in Roots, Call(r)
  PROVE  MigrationInv'
<1>1. /\ pc' = [pc EXCEPT ![r] = "clean"] /\ k' \in [Roots -> Files]
      /\ setup' \in [Roots -> MBoxes] /\ mine' \in [Roots -> MPlans]
  BY MigrationBounds DEF Call, Reads, Outside, MigrationInv, ProcessOK, Files
<1>2. "clean" \in Elsewhere /\ StateOK'
  BY StateStays DEF Call, Reads, Elsewhere
<1>3. UNCHANGED <<files, latest, lost>> /\ \A q \in Roots : mine'[q] = mine[q]
  BY DEF Call, Reads, Outside
<1> QED BY <1>1, <1>2, <1>3, ElsewhereFacts, QuietStep

LEMMA SeesCompletedKeeps ==
  ASSUME MigrationInv, NEW r \in Roots, SeesCompleted(r)
  PROVE  MigrationInv'
<1>1. "clean-rm" \in Elsewhere /\ StateOK'
  BY StateStays DEF SeesCompleted, Reads, Elsewhere
<1> QED BY <1>1, PlainStep DEF SeesCompleted, Reads, Outside

LEMMA RemovedState ==
  ASSUME MigrationInv, NEW r \in Roots, NEW next, RemoveCompleted(r, next)
  PROVE  StateOK'
<1>1. [State EXCEPT !.done = FALSE] \in Entries
  BY StateIsEntry, EntryUpdate DEF MigrationInv
<1>2. CASE State.done
  BY <1>1, <1>2, SingleState DEF RemoveCompleted
<1>3. CASE ~State.done
  BY <1>3, StateStays DEF RemoveCompleted
<1> QED BY <1>2, <1>3

LEMMA CleanCompletedKeeps ==
  ASSUME MigrationInv, NEW r \in Roots, CleanCompleted(r)
  PROVE  MigrationInv'
<1>1. StateOK'
  BY RemovedState DEF CleanCompleted
<1>2. PICK step \in Elsewhere : To(r, step)
  BY DEF CleanCompleted, RemoveCompleted, Decide, Elsewhere
<1> QED BY <1>1, <1>2, PlainStep DEF CleanCompleted, RemoveCompleted, Outside

LEMMA LookKeeps ==
  ASSUME MigrationInv, NEW r \in Roots, Look(r)
  PROVE  MigrationInv'
<1>1. [State EXCEPT !.tx = Nobody] \in Entries
  BY StateIsEntry, EntryUpdate DEF MigrationInv
<1>2. StateOK'
  BY <1>1, StateStays, SingleState DEF Look
<1>3. PICK step \in Elsewhere : To(r, step)
  BY DEF Look, Elsewhere
<1> QED BY <1>2, <1>3, PlainStep DEF Look, Outside

LEMMA RenameKeeps ==
  ASSUME MigrationInv, NEW r \in Roots, Rename(r)
  PROVE  MigrationInv'
<1>1. [State EXCEPT !.tx = setup[r]] \in Entries
  BY StateIsEntry, EntryUpdate DEF MigrationInv, ProcessOK
<1>2. StateOK'
  BY <1>1, StateStays, AppendState DEF Rename, MigrationInv
<1>3. PICK step \in Elsewhere : To(r, step)
  BY DEF Rename, Decide, Elsewhere
<1> QED BY <1>2, <1>3, PlainStep DEF Rename, Outside

LEMMA SyncPublishedKeeps ==
  ASSUME MigrationInv, NEW r \in Roots, SyncPublished(r)
  PROVE  MigrationInv'
<1>1. StateOK' /\ "load" \in Elsewhere
  BY SyncedState DEF SyncPublished, MigrationInv, Elsewhere
<1> QED BY <1>1, PlainStep DEF SyncPublished, Outside

LEMMA ProveKeeps ==
  ASSUME MigrationInv, NEW r \in Roots, Prove(r)
  PROVE  MigrationInv'
<1>1. StateOK' /\ UNCHANGED <<files, latest, lost, setup, mine>>
  BY StateStays DEF Prove, Reads, Outside
<1>2. CASE Proven(r)
  <2>1. Corpus(r) /\ To(r, "complete") /\ "complete" \in Ending
    BY <1>2 DEF Proven, Prove, Decide, Ending
  <2> QED BY <1>1, <2>1, EndingStep
<1>3. CASE ~Proven(r)
  <2>1. To(r, "failed") /\ "failed" \in Elsewhere
    BY <1>3 DEF Prove, Decide, Elsewhere
  <2> QED BY <1>1, <2>1, PlainStep
<1> QED BY <1>2, <1>3

LEMMA CompleteKeeps ==
  ASSUME MigrationInv, NEW r \in Roots, Complete(r)
  PROVE  MigrationInv'
<1>1. [tx |-> Nobody, done |-> TRUE] \in Entries
  BY EntryUpdate DEF Entries
<1>2. StateOK' /\ UNCHANGED <<files, latest, lost, setup, mine>>
  BY <1>1, StateStays, AppendState DEF Complete, Outside, MigrationInv
<1>3. Corpus(r)
  BY CorpusIsMigrated DEF Complete, At, Ending
<1>4. CASE State.tx # Nobody
  BY <1>2, <1>3, <1>4, EndingStep DEF Complete, Decide, Ending
<1>5. CASE State.tx = Nobody
  BY <1>2, <1>5, PlainStep DEF Complete, Decide, Elsewhere
<1> QED BY <1>4, <1>5

LEMMA SyncCompletedKeeps ==
  ASSUME MigrationInv, NEW r \in Roots, SyncCompleted(r)
  PROVE  MigrationInv'
<1>1. StateOK' /\ Corpus(r) /\ "rm-done" \in Ending
  BY SyncedState, CorpusIsMigrated DEF SyncCompleted, MigrationInv, At, Ending
<1> QED BY <1>1, EndingStep DEF SyncCompleted, Outside

LEMMA RemoveDoneKeeps ==
  ASSUME MigrationInv, NEW r \in Roots, RemoveDone(r)
  PROVE  MigrationInv'
<1>1. StateOK' /\ UNCHANGED <<files, latest, lost, setup, mine>>
  BY RemovedState DEF RemoveDone, RemoveCompleted, Outside
<1>2. Corpus(r)
  BY CorpusIsMigrated DEF RemoveDone, At, Ending
<1>3. CASE State.done
  BY <1>1, <1>2, <1>3, EndingStep DEF RemoveDone, RemoveCompleted, Decide
<1>4. CASE ~State.done
  BY <1>1, <1>4, PlainStep DEF RemoveDone, RemoveCompleted, Decide, Elsewhere
<1> QED BY <1>3, <1>4

LEMMA ForgottenOK ==
  ASSUME MigrationInv, NEW r \in Roots, Forget(r)
  PROVE  /\ setup' \in [Roots -> MBoxes] /\ mine' \in [Roots -> MPlans]
         /\ \A q \in Roots : q # r => mine'[q] = mine[q]
BY NoBoxIsEmpty DEF MigrationInv, ProcessOK, Forget

LEMMA ReturnKeeps ==
  ASSUME MigrationInv, NEW r \in Roots, Return(r)
  PROVE  MigrationInv'
<1>1. /\ pc' = [pc EXCEPT ![r] = "idle"] /\ k' \in [Roots -> Files]
      /\ Forget(r) /\ UNCHANGED <<files, latest, lost>> /\ StateOK'
  BY StateStays, MigrationBounds DEF Return, Outside, MigrationInv, ProcessOK, Files
<1>2. "idle" \in Elsewhere
  BY DEF Elsewhere
<1> QED BY <1>1, <1>2, ElsewhereFacts, ForgottenOK, QuietStep

LEMMA DiesKeeps ==
  ASSUME MigrationInv, NEW r \in Roots, Dies(r)
  PROVE  MigrationInv'
<1>1. /\ pc' = [pc EXCEPT ![r] = "idle"] /\ k' \in [Roots -> Files]
      /\ Forget(r) /\ UNCHANGED <<files, latest, lost>> /\ StateOK'
  BY StateStays, MigrationBounds DEF Dies, MigrationInv, ProcessOK, Files
<1>2. "idle" \in Elsewhere
  BY DEF Elsewhere
<1> QED BY <1>1, <1>2, ElsewhereFacts, ForgottenOK, QuietStep

-----------------------------------------------------------------------------
(* Building a transaction, and reading one. *)

LEMMA PlannedFacts ==
  ASSUME MigrationInv, NEW r \in Roots, NEW f \in Files
  PROVE  /\ Planned(r, f) \in [before: Contents, after: Contents] \union {Skip}
         /\ Planned(r, f) # Skip => Planned(r, f).after = Safe(Planned(r, f).before)
         /\ Planned(r, f) = Skip => Dir(r, f).src = None \/ (Dir(r, f).src.safe /\ f \notin Moved)
<1>1. Dir(r, f).src \in Contents \union {None}
  BY DirIsGood, DirFacts DEF MigrationInv
<1>2. CASE Dir(r, f).src # None /\ (~Dir(r, f).src.safe \/ f \in Moved)
  <2>1. Planned(r, f) = [before |-> Dir(r, f).src, after |-> Safe(Dir(r, f).src)]
    BY <1>2 DEF Planned
  <2>2. Planned(r, f) \in [before: Contents, after: Contents]
    BY <1>1, <1>2, <2>1, ContentsFacts
  <2> QED BY <2>1, <2>2, SkipIsNoOperation
<1>3. CASE ~(Dir(r, f).src # None /\ (~Dir(r, f).src.safe \/ f \in Moved))
  <2>1. Planned(r, f) = Skip
    BY <1>3 DEF Planned
  <2> QED BY <1>3, <2>1
<1> QED BY <1>2, <1>3

\* Nothing to do means that nothing is to be done, or to be found.
LEMMA NothingPlanned ==
  ASSUME MigrationInv, NEW r \in Roots, \A f \in Files : Planned(r, f) = Skip
  PROVE  Finished(r)
<1>1. ASSUME NEW f \in Files, ~Missing(Dir(r, f)) PROVE Migrated(Dir(r, f), f)
  <2>1. Named(Dir(r, f), f)
    BY DirIsGood DEF MigrationInv, GoodDir
  <2>2. Dir(r, f).src = None \/ (Dir(r, f).src.safe /\ f \notin Moved)
    BY PlannedFacts
  <2> QED BY <1>1, <2>1, <2>2 DEF Named, Missing, Migrated
<1>2. ASSUME NEW f \in Files, Missing(Dir(r, f)) PROVE f \in lost[r]
  <2>1. Faithful(Dir(r, f), latest[r][f], f \in lost[r])
    BY DirIsGood DEF MigrationInv, GoodDir
  <2> QED BY <1>2, <2>1 DEF Faithful, Holds, Missing
<1> QED BY <1>1, <1>2 DEF Finished, Corpus

LEMMA ScanKeeps ==
  ASSUME MigrationInv, NEW r \in Roots, Scan(r)
  PROVE  MigrationInv'
<1> DEFINE plan == [f \in Files |-> Planned(r, f)]
           staged == \A f \in Files : plan[f] # Skip \/ Migrated(Dir(r, f), f)
           box == [origin |-> r, firm |-> Synced(r), plan |-> plan, journal |-> [i \in 1 .. 2 |-> "good"],
                   payload |-> [f \in Files |-> [i \in 1 .. 2 |-> "good"]]]
<1>1. /\ StateOK' /\ UNCHANGED <<files, latest, lost, mine>>
      /\ mine \in [Roots -> MPlans] /\ setup \in [Roots -> MBoxes] /\ k \in [Roots -> Files]
  BY StateStays DEF Scan, Outside, MigrationInv, ProcessOK
<1>2. \/ To(r, "failed") /\ UNCHANGED setup
      \/ (\A f \in Files : plan[f] = Skip) /\ To(r, "ok") /\ UNCHANGED setup
      \/ Decide(r, staged, "rename") /\ setup' = [setup EXCEPT ![r] = box]
  BY Zenon DEF Scan
<1>3. CASE To(r, "failed") /\ UNCHANGED setup
  BY <1>1, <1>3, PlainStep DEF Elsewhere
<1>4. CASE (\A f \in Files : plan[f] = Skip) /\ To(r, "ok") /\ UNCHANGED setup
  <2>1. Finished(r)
    BY <1>4, NothingPlanned
  <2>2. "ok" \in Pcs /\ "ok" \notin Applying /\ "ok" \notin Ending
    BY DEF Pcs, Applying, Ending
  <2> QED BY <1>1, <1>4, <2>1, <2>2, QuietStep DEF To
<1>5. CASE Decide(r, staged, "rename") /\ setup' = [setup EXCEPT ![r] = box]
  <2>1. plan \in MPlans
    BY PlannedFacts DEF MPlans, Plans, Migrates
  <2> HIDE DEF plan, staged
  <2>2. box \in Boxes
    BY <2>1 DEF Boxes, MPlans, Copies, Synced
  <2>3. box \in MBoxes
    BY <2>1, <2>2 DEF MBoxes, MPlans
  <2> HIDE DEF box
  <2>4. PICK step \in Elsewhere : To(r, step)
    BY <1>5 DEF Decide, Elsewhere
  <2> QED BY <1>1, <1>5, <2>3, <2>4, ElsewhereFacts, QuietStep DEF To
<1> QED BY <1>2, <1>3, <1>4, <1>5

LEMMA LoadKeeps ==
  ASSUME MigrationInv, NEW r \in Roots, Load(r)
  PROVE  MigrationInv'
<1> DEFINE found == State.tx # Nobody /\ \E i \in 1 .. 2 : Tx.journal[i] = "good"
<1>1. UNCHANGED <<files, latest, lost, setup>> /\ setup \in [Roots -> MBoxes] /\ k \in [Roots -> Files]
  BY DEF Load, Outside, MigrationInv, ProcessOK
<1>2. CASE found
  <2>1. /\ Tx \in MBoxes /\ Decide(r, OwnOrOrphaned(r), "payload")
        /\ Alter([Tx EXCEPT !.journal = [i \in 1 .. 2 |-> "good"]])
        /\ mine' = [mine EXCEPT ![r] = Tx.plan]
    BY <1>2, StateIsEntry DEF Load, MigrationInv
  <2>2. [i \in 1 .. 2 |-> "good"] \in [1 .. 2 -> Copies]
    BY DEF Copies
  <2>3. StateOK'
    BY <2>1, <2>2, BoxUpdate, AlteredState DEF MigrationInv
  <2>4. mine' \in [Roots -> MPlans] /\ \A q \in Roots : q # r => mine'[q] = mine[q]
    BY <2>1, BoxFacts DEF MigrationInv, ProcessOK
  <2>5. PICK step \in Elsewhere : To(r, step)
    BY <2>1 DEF Decide, Elsewhere
  <2> QED BY <1>1, <2>3, <2>4, <2>5, ElsewhereFacts, QuietStep DEF To
<1>3. CASE ~found
  <2>1. StateOK' /\ To(r, "failed") /\ UNCHANGED mine
    BY <1>3, StateStays DEF Load
  <2> QED BY <1>1, <2>1, PlainStep DEF Elsewhere
<1> QED BY <1>2, <1>3

LEMMA PreflightKeeps ==
  ASSUME MigrationInv, NEW r \in Roots, Preflight(r)
  PROVE  MigrationInv'
<1> DEFINE copied == [f \in Files |-> IF f \in Ops(r) THEN [i \in 1 .. 2 |-> "good"] ELSE Tx.payload[f]]
<1>1. /\ UNCHANGED <<files, latest, lost, setup, mine>> /\ setup \in [Roots -> MBoxes]
      /\ mine \in [Roots -> MPlans] /\ k \in [Roots -> Files]
  BY DEF Preflight, Outside, MigrationInv, ProcessOK
<1>2. StateOK'
  <2>1. CASE Whole(r) /\ State.tx # Nobody
    <3>1. Tx \in MBoxes /\ Alter([Tx EXCEPT !.payload = copied])
      BY <2>1, StateIsEntry DEF Preflight, MigrationInv
    <3>2. copied \in [Files -> [1 .. 2 -> Copies]]
      BY <3>1, BoxFacts DEF Copies
    <3> HIDE DEF copied
    <3> QED BY <3>1, <3>2, BoxUpdate, AlteredState DEF MigrationInv
  <2>2. CASE ~(Whole(r) /\ State.tx # Nobody)
    BY <2>2, StateStays DEF Preflight
  <2> QED BY <2>1, <2>2
<1>3. CASE Whole(r) /\ Foreseen(r)
  <2>1. To(r, "write") /\ "write" \in Applying /\ "write" \in Pcs /\ "write" \notin Ending
    BY <1>3 DEF Preflight, Decide, Applying, Pcs, Ending
  <2>2. Foreseen(r)'
    BY <1>1, <1>3 DEF Foreseen, Ops, After, Dir
  <2> QED BY <1>1, <1>2, <2>1, <2>2, QuietStep DEF To
<1>4. CASE ~(Whole(r) /\ Foreseen(r))
  BY <1>1, <1>2, <1>4, PlainStep DEF Preflight, Decide, Elsewhere
<1> QED BY <1>3, <1>4

-----------------------------------------------------------------------------
(* The writes and the moves. *)

LEMMA ForeseenHolds ==
  ASSUME MigrationInv, NEW r \in Roots, pc[r] \in Applying
  PROVE  Foreseen(r)
BY DEF MigrationInv, ForeseenOK

LEMMA OpFacts ==
  ASSUME MigrationInv, NEW r \in Roots, NEW f \in Ops(r)
  PROVE  /\ f \in Files
         /\ mine[r][f].before \in Contents /\ After(r, f) \in Contents
         /\ mine[r][f].before # None /\ After(r, f) # None
         /\ After(r, f).ver = mine[r][f].before.ver /\ After(r, f).ver \in Versions /\ After(r, f).safe
<1>1. f \in Files /\ mine[r] \in MPlans /\ mine[r][f] # Skip
  BY DEF Ops, MigrationInv, ProcessOK
<1> QED BY <1>1, OperationFacts DEF After

\* A step that adds to the journal of a directory what is good.
LEMMA PutKeeps ==
  ASSUME MigrationInv, NEW r \in Roots, pc[r] \in Applying, NEW step \in Applying,
         NEW f \in Ops(r), Turn(r, step, f), NEW d \in Dirs, Put(r, f, d),
         UNCHANGED <<latest, lost, state, setup, mine>>, GoodDir(r, f, d),
         d.src \in {None, mine[r][f].before, After(r, f)},
         f \in Moved => d.dst \in {None, After(r, f)}
  PROVE  MigrationInv'
<1> DEFINE dirs == Append(files[r][f], d)
<1>1. f \in Files
  BY OpFacts
<1>2. files[r][f] \in Seq(Dirs) /\ files[r][f] # <<>>
  BY <1>1, DirIsGood DEF MigrationInv
<1>3. /\ dirs \in Seq(Dirs) /\ dirs # <<>> /\ Last(dirs) = d
      /\ \A i \in DOMAIN dirs : (i \in DOMAIN files[r][f] /\ dirs[i] = files[r][f][i]) \/ dirs[i] = d
  BY <1>2, AppendFacts
<1>4. \A i \in DOMAIN dirs : GoodDir(r, f, dirs[i])
  BY <1>1, <1>3 DEF MigrationInv, DirsOK
<1>5. SetDirs(r, f, dirs)
  BY DEF Put
<1>6. pc' = [pc EXCEPT ![r] = step] /\ k' \in [Roots -> Files]
  BY <1>1 DEF Turn, MigrationInv, ProcessOK
<1> HIDE DEF dirs
<1> QED BY <1>1, <1>3, <1>4, <1>5, <1>6, FileStep

\* A step that syncs a directory.
LEMMA SyncKeeps ==
  ASSUME MigrationInv, NEW r \in Roots, pc[r] \in Applying, NEW step \in Applying,
         NEW f \in Files, NEW g \in Files, Turn(r, step, g), SyncDir(r, f),
         UNCHANGED <<latest, lost, state, setup, mine>>
  PROVE  MigrationInv'
<1> DEFINE dirs == <<Dir(r, f)>>
<1>1. Dir(r, f) \in Dirs /\ GoodDir(r, f, Dir(r, f))
  BY DirIsGood DEF MigrationInv
<1>2. /\ dirs \in Seq(Dirs) /\ dirs # <<>> /\ Last(dirs) = Dir(r, f)
      /\ \A i \in DOMAIN dirs : dirs[i] = Dir(r, f)
  BY <1>1, SingleFacts
<1>3. SetDirs(r, f, dirs)
  BY DEF SyncDir
<1>4. pc' = [pc EXCEPT ![r] = step] /\ k' \in [Roots -> Files]
  BY DEF Turn, MigrationInv, ProcessOK
<1>5. f \in Ops(r) => /\ Dir(r, f).src \in {None, mine[r][f].before, After(r, f)}
                      /\ f \in Moved => Dir(r, f).dst \in {None, After(r, f)}
  BY ForeseenHolds DEF Foreseen
<1> HIDE DEF dirs
<1> QED BY <1>1, <1>2, <1>3, <1>4, <1>5, FileStep

\* What is written in the place of a file is what is foreseen for it.
LEMMA WrittenIsGood ==
  ASSUME MigrationInv, NEW r \in Roots, pc[r] \in Applying, NEW f \in Unwritten(r)
  PROVE  LET d == [Dir(r, f) EXCEPT !.src = After(r, f)]
         IN d \in Dirs /\ GoodDir(r, f, d) /\ d.src = After(r, f) /\ d.dst = None
<1> DEFINE d == [Dir(r, f) EXCEPT !.src = After(r, f)]
<1>1. f \in Ops(r) /\ ~InPlace(r, f) /\ Dir(r, f).src # After(r, f)
  BY DEF Unwritten
<1>2. /\ f \in Files /\ Dir(r, f) \in Dirs /\ Named(Dir(r, f), f)
      /\ Faithful(Dir(r, f), latest[r][f], f \in lost[r])
  BY <1>1, OpFacts, DirIsGood DEF MigrationInv, GoodDir
<1>3. /\ Dir(r, f).src \in {None, mine[r][f].before, After(r, f)}
      /\ f \in Moved => Dir(r, f).dst \in {None, After(r, f)}
  BY <1>1, ForeseenHolds DEF Foreseen
<1>4. Dir(r, f).dst = None
  BY <1>1, <1>2, <1>3 DEF Named, InPlace
<1>5. d \in Dirs /\ d.src = After(r, f) /\ d.dst = None
  BY <1>1, <1>2, <1>4, OpFacts DEF Dirs
<1>6. Named(d, f)
  BY <1>5 DEF Named
<1>7. Holds(d, After(r, f).ver) /\ After(r, f).ver \in Versions
  BY <1>1, <1>5, OpFacts DEF Holds
<1>8. CASE Holds(Dir(r, f), latest[r][f])
  <2>1. Dir(r, f).src = mine[r][f].before /\ Dir(r, f).src.ver = latest[r][f]
    BY <1>1, <1>3, <1>4, <1>8 DEF Holds
  <2>2. After(r, f).ver = latest[r][f]
    BY <1>1, <2>1, OpFacts
  <2> QED BY <1>5, <1>6, <1>7, <2>2 DEF GoodDir, Faithful
<1>9. CASE ~Holds(Dir(r, f), latest[r][f])
  <2>1. f \in lost[r]
    BY <1>2, <1>9 DEF Faithful
  <2> QED BY <1>5, <1>6, <1>7, <2>1 DEF GoodDir, Faithful
<1> QED BY <1>8, <1>9

LEMMA WriteKeeps ==
  ASSUME MigrationInv, NEW r \in Roots, Write(r)
  PROVE  MigrationInv'
<1>1. /\ pc[r] \in Applying /\ UNCHANGED <<latest, lost, state, setup, mine>> /\ StateOK'
      /\ setup \in [Roots -> MBoxes] /\ mine \in [Roots -> MPlans] /\ k \in [Roots -> Files]
  BY StateStays DEF Write, At, Applying, Outside, MigrationInv, ProcessOK
<1>2. CASE Unwritten(r) = {}
  <2>1. UNCHANGED files /\ To(r, "move")
    BY <1>2 DEF Write
  <2>2. "move" \in Applying /\ "move" \in Pcs /\ "move" \notin Ending
    BY DEF Applying, Pcs, Ending
  <2>3. Foreseen(r)
    BY <1>1, ForeseenHolds
  <2>4. Foreseen(r)'
    BY <1>1, <2>1, <2>3 DEF Foreseen, Ops, After, Dir
  <2> QED BY <1>1, <2>1, <2>2, <2>4, QuietStep DEF To
<1>3. CASE Unwritten(r) # {}
  <2> DEFINE f == Min(Unwritten(r))
             d == [Dir(r, f) EXCEPT !.src = After(r, f)]
  <2>1. f \in Unwritten(r) /\ f \in Ops(r)
    <3>1. Unwritten(r) \subseteq Files
      BY DEF Unwritten, Ops
    <3>2. f \in Unwritten(r)
      BY <1>3, <3>1, MinOfFiles
    <3> QED BY <3>2 DEF Unwritten
  <2>2. \/ Turn(r, "write-sync", f) /\ Put(r, f, d)
        \/ To(r, "failed") /\ UNCHANGED files
    BY <1>3 DEF Write
  <2> HIDE DEF f
  <2>3. CASE Turn(r, "write-sync", f) /\ Put(r, f, d)
    <3>1. d \in Dirs /\ GoodDir(r, f, d) /\ d.src = After(r, f) /\ d.dst = None
      BY <1>1, <2>1, WrittenIsGood
    <3> HIDE DEF d
    <3>2. "write-sync" \in Applying
      BY DEF Applying
    <3> QED BY <1>1, <2>1, <2>3, <3>1, <3>2, PutKeeps
  <2>4. CASE To(r, "failed") /\ UNCHANGED files
    BY <1>1, <2>4, PlainStep DEF Elsewhere
  <2> QED BY <2>2, <2>3, <2>4
<1> QED BY <1>2, <1>3

LEMMA SyncWriteKeeps ==
  ASSUME MigrationInv, NEW r \in Roots, SyncWrite(r)
  PROVE  MigrationInv'
<1>1. /\ pc[r] \in Applying /\ "write" \in Applying /\ k[r] \in Files /\ 1 \in Files
      /\ UNCHANGED <<latest, lost, state, setup, mine>>
  BY MigrationBounds DEF SyncWrite, At, Applying, Outside, MigrationInv, ProcessOK, Files
<1> QED BY <1>1, SyncKeeps DEF SyncWrite

\* A file that is moved is the one that was there, and safe.
LEMMA MovedIsGood ==
  ASSUME MigrationInv, NEW r \in Roots, NEW f \in Ops(r) \intersect Moved,
         Dir(r, f).src = After(r, f), Dir(r, f).dst = None
  PROVE  LET d == [src |-> None, dst |-> Dir(r, f).src]
         IN d \in Dirs /\ GoodDir(r, f, d) /\ d.src = None /\ d.dst = After(r, f)
<1> DEFINE d == [src |-> None, dst |-> Dir(r, f).src]
<1>1. f \in Ops(r) /\ f \in Files /\ Dir(r, f) \in Dirs /\ Faithful(Dir(r, f), latest[r][f], f \in lost[r])
  BY OpFacts, DirIsGood DEF MigrationInv, GoodDir
<1>2. After(r, f) \in Contents /\ After(r, f) # None /\ After(r, f).safe
  BY <1>1, OpFacts
<1>3. d \in Dirs /\ d.src = None /\ d.dst = After(r, f)
  BY <1>2 DEF Dirs
<1>4. Named(d, f)
  BY <1>2, <1>3 DEF Named
<1>5. \A v : Holds(Dir(r, f), v) => Holds(d, v)
  BY <1>2, <1>3 DEF Holds
<1>6. ~Missing(Dir(r, f))
  BY <1>2 DEF Missing
<1> QED BY <1>1, <1>3, <1>4, <1>5, <1>6 DEF GoodDir, Faithful

LEMMA MoveKeeps ==
  ASSUME MigrationInv, NEW r \in Roots, Move(r)
  PROVE  MigrationInv'
<1>1. /\ pc[r] \in Applying /\ UNCHANGED <<latest, lost, state, setup, mine>> /\ StateOK'
  BY StateStays DEF Move, At, Applying, Outside, MigrationInv, ProcessOK
<1>2. CASE Unmoved(r) = {}
  <2>1. UNCHANGED files /\ To(r, "validate") /\ "validate" \in Elsewhere
    BY <1>2 DEF Move, Elsewhere
  <2> QED BY <1>1, <2>1, PlainStep
<1>3. CASE Unmoved(r) # {}
  <2> DEFINE f == Min(Unmoved(r))
             d == [src |-> None, dst |-> Dir(r, f).src]
  <2>1. f \in Ops(r) \intersect Moved /\ f \in Files /\ ~(InPlace(r, f) /\ Dir(r, f).src = None)
    <3>1. Unmoved(r) \subseteq Files
      BY DEF Unmoved, Ops
    <3>2. f \in Unmoved(r)
      BY <1>3, <3>1, MinOfFiles
    <3> QED BY <3>1, <3>2 DEF Unmoved
  <2>2. \/ InPlace(r, f)
        \/ /\ Dir(r, f).src = After(r, f) /\ Dir(r, f).dst = None
           /\ Turn(r, "move-sync", f) /\ Put(r, f, d)
        \/ To(r, "failed") /\ UNCHANGED files
    BY <1>3 DEF Move
  <2> HIDE DEF f
  <2>3. ~InPlace(r, f)
    <3>1. Dir(r, f).src = None \/ Dir(r, f).dst = None
      BY <2>1, DirIsGood, OneName DEF MigrationInv, GoodDir
    <3>2. After(r, f) # None
      BY <2>1, OpFacts
    <3> QED BY <2>1, <3>1, <3>2 DEF InPlace
  <2>4. CASE /\ Dir(r, f).src = After(r, f) /\ Dir(r, f).dst = None
             /\ Turn(r, "move-sync", f) /\ Put(r, f, d)
    <3>1. d \in Dirs /\ GoodDir(r, f, d) /\ d.src = None /\ d.dst = After(r, f)
      BY <2>1, <2>4, MovedIsGood
    <3> HIDE DEF d
    <3>2. "move-sync" \in Applying
      BY DEF Applying
    <3> QED BY <1>1, <2>1, <2>4, <3>1, <3>2, PutKeeps
  <2>5. CASE To(r, "failed") /\ UNCHANGED files
    BY <1>1, <2>5, PlainStep DEF Elsewhere
  <2> QED BY <2>2, <2>3, <2>4, <2>5
<1> QED BY <1>2, <1>3

LEMMA SyncMoveKeeps ==
  ASSUME MigrationInv, NEW r \in Roots, SyncMove(r)
  PROVE  MigrationInv'
<1>1. /\ pc[r] \in Applying /\ "move" \in Applying /\ k[r] \in Files /\ 1 \in Files
      /\ UNCHANGED <<latest, lost, state, setup, mine>>
  BY MigrationBounds DEF SyncMove, At, Applying, Outside, MigrationInv, ProcessOK, Files
<1> QED BY <1>1, SyncKeeps DEF SyncMove

-----------------------------------------------------------------------------
(* What happens to a root and to the shared directory. *)

LEMMA DamageKeeps ==
  ASSUME MigrationInv, Damage
  PROVE  MigrationInv'
<1>1. UNCHANGED <<files, latest, lost, setup, mine, pc, k>> /\ Tx \in MBoxes
  BY StateIsEntry DEF Damage, MigrationInv
<1>2. StateOK'
  <2>1. PICK i \in 1 .. 2, to \in {"bad", "gone"} :
          \/ Alter([Tx EXCEPT !.journal = [Tx.journal EXCEPT ![i] = to]])
          \/ \E f \in Files : Alter([Tx EXCEPT !.payload = [Tx.payload EXCEPT ![f] = [Tx.payload[f] EXCEPT ![i] = to]]])
    BY DEF Damage
  <2>2. to \in Copies
    BY DEF Copies
  <2>3. CASE Alter([Tx EXCEPT !.journal = [Tx.journal EXCEPT ![i] = to]])
    <3>1. [Tx.journal EXCEPT ![i] = to] \in [1 .. 2 -> Copies]
      BY <1>1, <2>2, BoxFacts
    <3> QED BY <1>1, <2>3, <3>1, BoxUpdate, AlteredState DEF MigrationInv
  <2>4. ASSUME NEW f \in Files,
               Alter([Tx EXCEPT !.payload = [Tx.payload EXCEPT ![f] = [Tx.payload[f] EXCEPT ![i] = to]]])
        PROVE  StateOK'
    <3>1. [Tx.payload EXCEPT ![f] = [Tx.payload[f] EXCEPT ![i] = to]] \in [Files -> [1 .. 2 -> Copies]]
      BY <1>1, <2>2, BoxFacts
    <3> QED BY <1>1, <2>4, <3>1, BoxUpdate, AlteredState DEF MigrationInv
  <2> QED BY <2>1, <2>3, <2>4
<1>3. FilesOK' /\ ProcessOK'
  BY <1>1 DEF MigrationInv, FilesOK, ProcessOK
<1>4. \A q \in Roots : RootFine(q)'
  BY <1>1, AllFine, UntouchedFine DEF MigrationInv, Untouched
<1> QED BY <1>2, <1>3, <1>4, AllFineNext DEF MigrationInv

\* A root on which no process works is replaced, and the others stay.
LEMMA IdleRootKeeps ==
  ASSUME MigrationInv, NEW r \in Roots, pc[r] = "idle", StateOK', FilesOK',
         UNCHANGED <<setup, mine, pc, k>>,
         \A q \in Roots : q # r => files'[q] = files[q] /\ latest'[q] = latest[q] /\ lost'[q] = lost[q],
         \A f \in Files : \A i \in DOMAIN files'[r][f] : GoodDir(r, f, files[r][f][i])'
  PROVE  MigrationInv'
<1>1. ProcessOK'
  BY DEF MigrationInv, ProcessOK
<1>2. \A q \in Roots : q # r => RootFine(q)'
  BY AllFine, UntouchedFine DEF MigrationInv, Untouched
<1>3. RootFine(r)'
  BY DEF RootFine, Applying, Ending
<1> QED BY <1>1, <1>2, <1>3, AllFineNext DEF MigrationInv

LEMMA RelocateKeeps ==
  ASSUME MigrationInv, NEW r \in Roots, Relocate(r)
  PROVE  MigrationInv'
<1>1. UNCHANGED <<files, latest, lost, setup, mine, pc, k>> /\ pc[r] = "idle"
  BY DEF Relocate, Person
<1>2. StateOK' /\ FilesOK'
  BY <1>1, OrphanedState DEF Relocate, MigrationInv, FilesOK
<1>3. \A f \in Files : \A i \in DOMAIN files'[r][f] : GoodDir(r, f, files[r][f][i])'
  BY <1>1 DEF MigrationInv, DirsOK, GoodDir
<1> QED BY <1>1, <1>2, <1>3, IdleRootKeeps

LEMMA VanishKeeps ==
  ASSUME MigrationInv, NEW r \in Roots, NEW f \in Files, Vanish(r, f)
  PROVE  MigrationInv'
<1> DEFINE d == [src |-> None, dst |-> None]
           dirs == <<d>>
<1>1. /\ UNCHANGED <<latest, state, setup, mine, pc, k>> /\ pc[r] = "idle" /\ SetDirs(r, f, dirs)
      /\ lost' = [lost EXCEPT ![r] = lost[r] \union {f}]
  BY DEF Vanish, Person
<1>2. d \in Dirs /\ Named(d, f) /\ Missing(d)
  BY DEF Dirs, Named, Missing
<1>3. dirs \in Seq(Dirs) /\ dirs # <<>> /\ \A i \in DOMAIN dirs : dirs[i] = d
  BY <1>2, SingleFacts
<1> HIDE DEF d, dirs
<1>4. /\ lost' \in [Roots -> SUBSET Files] /\ lost[r] \subseteq lost'[r] /\ f \in lost'[r]
      /\ \A q \in Roots : q # r => lost'[q] = lost[q]
  BY <1>1 DEF MigrationInv, FilesOK
<1>5. FilesOK' /\ StateOK'
  BY <1>1, <1>3, <1>4, FileUpdate, StateStays DEF MigrationInv, FilesOK
<1>6. /\ files'[r][f] = dirs /\ \A g \in Files : g # f => files'[r][g] = files[r][g]
      /\ \A q \in Roots : q # r => files'[q] = files[q]
  BY <1>1, <1>3, FileUpdate DEF MigrationInv
<1>7. \A g \in Files : \A i \in DOMAIN files'[r][g] : GoodDir(r, g, files[r][g][i])'
  <2> SUFFICES ASSUME NEW g \in Files, NEW i \in DOMAIN files'[r][g]
               PROVE  GoodDir(r, g, files[r][g][i])'
    OBVIOUS
  <2>1. CASE g = f
    BY <1>2, <1>3, <1>4, <1>6, <2>1 DEF GoodDir, Faithful
  <2>2. CASE g # f
    <3>1. GoodDir(r, g, files[r][g][i]) /\ files'[r][g] = files[r][g]
      BY <1>6, <2>2 DEF MigrationInv, DirsOK
    <3> QED BY <1>1, <1>4, <3>1 DEF GoodDir, Faithful
  <2> QED BY <2>1, <2>2
<1> QED BY <1>1, <1>4, <1>5, <1>6, <1>7, IdleRootKeeps

LEMMA EditKeeps ==
  ASSUME MigrationInv, NEW r \in Roots, NEW f \in Files, Edit(r, f)
  PROVE  MigrationInv'
<1> DEFINE now(content) == IF content = None THEN None ELSE [content EXCEPT !.ver = 1]
           d == [src |-> now(Dir(r, f).src), dst |-> now(Dir(r, f).dst)]
           dirs == <<d>>
<1>1. /\ UNCHANGED <<lost, state, setup, mine, pc, k>> /\ pc[r] = "idle" /\ SetDirs(r, f, dirs)
      /\ latest' = [latest EXCEPT ![r] = [latest[r] EXCEPT ![f] = 1]] /\ ~Missing(Dir(r, f))
  BY DEF Edit, Person
<1>2. /\ Dir(r, f) \in Dirs /\ Named(Dir(r, f), f)
      /\ Dir(r, f).src = None \/ Dir(r, f).dst = None
      /\ Dir(r, f).src \in Contents \union {None} /\ Dir(r, f).dst \in Contents \union {None}
  BY DirIsGood, OneName, DirFacts DEF MigrationInv, GoodDir
<1>3. \A c \in Contents : /\ now(c) \in Contents /\ now(c).ver = 1 /\ now(c).safe = c.safe
                          /\ c # None /\ now(c) # None
  <2> SUFFICES ASSUME NEW c \in Contents
               PROVE  /\ now(c) \in Contents /\ now(c).ver = 1 /\ now(c).safe = c.safe
                      /\ c # None /\ now(c) # None
    OBVIOUS
  <2>1. c # None
    BY ContentsFacts
  <2>2. now(c) = [c EXCEPT !.ver = 1]
    BY <2>1
  <2>3. now(c) \in Contents /\ now(c).ver = 1 /\ now(c).safe = c.safe
    BY <2>2 DEF Contents, Versions
  <2> QED BY <2>1, <2>3, ContentsFacts
<1>4. now(None) = None
  OBVIOUS
<1> HIDE DEF now
<1>5. d \in Dirs /\ Named(d, f) /\ Holds(d, 1)
  <2>1. d.src = now(Dir(r, f).src) /\ d.dst = now(Dir(r, f).dst)
    OBVIOUS
  <2>2. d \in Dirs
    BY <1>2, <1>3, <1>4 DEF Dirs
  <2>3. Named(d, f)
    BY <1>2, <1>3, <1>4, <2>1 DEF Named
  <2>4. Holds(d, 1)
    BY <1>1, <1>2, <1>3, <1>4, <2>1 DEF Holds, Missing
  <2> QED BY <2>2, <2>3, <2>4
<1> HIDE DEF d
<1>6. dirs \in Seq(Dirs) /\ dirs # <<>> /\ \A i \in DOMAIN dirs : dirs[i] = d
  BY <1>5, SingleFacts
<1> HIDE DEF dirs
<1>7. /\ latest' \in [Roots -> [Files -> Versions]] /\ latest'[r][f] = 1
      /\ \A g \in Files : g # f => latest'[r][g] = latest[r][g]
      /\ \A q \in Roots : q # r => latest'[q] = latest[q]
  BY <1>1 DEF MigrationInv, FilesOK, Versions
<1>8. FilesOK' /\ StateOK'
  BY <1>1, <1>6, <1>7, FileUpdate, StateStays DEF MigrationInv, FilesOK
<1>9. /\ files'[r][f] = dirs /\ \A g \in Files : g # f => files'[r][g] = files[r][g]
      /\ \A q \in Roots : q # r => files'[q] = files[q]
  BY <1>1, <1>6, FileUpdate DEF MigrationInv
<1>10. \A g \in Files : \A i \in DOMAIN files'[r][g] : GoodDir(r, g, files[r][g][i])'
  <2> SUFFICES ASSUME NEW g \in Files, NEW i \in DOMAIN files'[r][g]
               PROVE  GoodDir(r, g, files[r][g][i])'
    OBVIOUS
  <2>1. CASE g = f
    BY <1>5, <1>6, <1>7, <1>9, <2>1 DEF GoodDir, Faithful
  <2>2. CASE g # f
    <3>1. GoodDir(r, g, files[r][g][i]) /\ files'[r][g] = files[r][g]
      BY <1>9, <2>2 DEF MigrationInv, DirsOK
    <3> QED BY <1>1, <1>7, <2>2, <3>1 DEF GoodDir, Faithful
  <2> QED BY <2>1, <2>2
<1> QED BY <1>1, <1>7, <1>8, <1>9, <1>10, IdleRootKeeps

\* A file of a new checkout is there under its one name.
LEMMA UnderIsGood ==
  ASSUME NEW f \in Files, NEW c \in Contents
  PROVE  Under(f, c) \in Dirs /\ Named(Under(f, c), f) /\ Holds(Under(f, c), c.ver)
<1>1. c # None
  BY ContentsFacts
<1>2. CASE c.safe /\ f \in Moved
  BY <1>1, <1>2 DEF Under, Dirs, Named, Holds
<1>3. CASE ~(c.safe /\ f \in Moved)
  BY <1>1, <1>3 DEF Under, Dirs, Named, Holds
<1> QED BY <1>2, <1>3

LEMMA RenewKeeps ==
  ASSUME MigrationInv, NEW r \in Roots, Renew(r)
  PROVE  MigrationInv'
<1>1. PICK holds \in Corpora :
        /\ files' = [files EXCEPT ![r] = [f \in Files |-> <<Under(f, holds[f])>>]]
        /\ latest' = [latest EXCEPT ![r] = [f \in Files |-> holds[f].ver]]
  BY DEF Renew
<1>2. UNCHANGED <<setup, mine, pc, k>> /\ pc[r] = "idle" /\ lost' = [lost EXCEPT ![r] = {}]
  BY DEF Renew, Person
<1>3. \A f \in Files : holds[f] \in Contents /\ holds[f].ver \in Versions
  BY ContentsFacts DEF Corpora
<1>4. \A f \in Files : /\ <<Under(f, holds[f])>> \in Seq(Dirs) /\ <<Under(f, holds[f])>> # <<>>
                       /\ \A i \in DOMAIN <<Under(f, holds[f])>> : <<Under(f, holds[f])>>[i] = Under(f, holds[f])
  BY <1>3, UnderIsGood, SingleFacts
<1>5. /\ \A f \in Files : /\ files'[r][f] = <<Under(f, holds[f])>>
                          /\ latest'[r][f] = holds[f].ver
      /\ \A q \in Roots : q # r => files'[q] = files[q] /\ latest'[q] = latest[q] /\ lost'[q] = lost[q]
  BY <1>1, <1>2 DEF MigrationInv, FilesOK
<1>6. FilesOK'
  <2>1. files' \in [Roots -> [Files -> Seq(Dirs)]]
    BY <1>1, <1>4 DEF MigrationInv, FilesOK
  <2>2. latest' \in [Roots -> [Files -> Versions]] /\ lost' \in [Roots -> SUBSET Files]
    BY <1>1, <1>2, <1>3 DEF MigrationInv, FilesOK
  <2>3. ASSUME NEW q \in Roots, NEW f \in Files PROVE files'[q][f] # <<>>
    <3>1. files[q][f] # <<>>
      BY DEF MigrationInv, FilesOK
    <3>2. CASE q = r
      BY <1>4, <1>5, <3>2
    <3>3. CASE q # r
      BY <1>5, <3>1, <3>3
    <3> QED BY <3>2, <3>3
  <2> QED BY <2>1, <2>2, <2>3 DEF FilesOK
<1>7. StateOK'
  BY OrphanedState DEF Renew, MigrationInv
<1>8. \A f \in Files : \A i \in DOMAIN files'[r][f] : GoodDir(r, f, files[r][f][i])'
  BY <1>3, <1>4, <1>5, UnderIsGood DEF GoodDir, Faithful
<1> QED BY <1>2, <1>5, <1>6, <1>7, <1>8, IdleRootKeeps

LEMMA PowerLossKeeps ==
  ASSUME MigrationInv, PowerLoss
  PROVE  MigrationInv'
<1>1. /\ pc' = [r \in Roots |-> "idle"] /\ k' = [r \in Roots |-> 1]
      /\ mine' = [r \in Roots |-> NoBox.plan] /\ setup' = [r \in Roots |-> NoBox]
      /\ UNCHANGED <<latest, lost>>
  BY DEF PowerLoss
<1>2. StateOK'
  <2>1. PICK i \in DOMAIN state, stays \in BOOLEAN : state' = <<[state[i] EXCEPT !.tx = Left(state[i].tx, stays)]>>
    BY DEF PowerLoss
  <2>2. [state[i] EXCEPT !.tx = Left(state[i].tx, stays)] \in Entries
    BY EntryFacts, EntryUpdate, LeftIsBox DEF MigrationInv
  <2> QED BY <2>1, <2>2, SingleState
<1>3. ProcessOK'
  BY <1>1, NoBoxIsEmpty, MigrationBounds DEF ProcessOK, Pcs, Files
<1>4. PICK left \in [Roots -> [Files -> 1 .. 3]] :
        /\ \A r \in Roots, f \in Files : left[r][f] <= Len(files[r][f])
        /\ files' = [r \in Roots |-> [f \in Files |-> <<files[r][f][left[r][f]]>>]]
  BY DEF PowerLoss
<1>5. ASSUME NEW r \in Roots, NEW f \in Files
      PROVE  /\ files[r][f][left[r][f]] \in Dirs /\ GoodDir(r, f, files[r][f][left[r][f]])
             /\ files'[r][f] = <<files[r][f][left[r][f]]>>
  <2>1. files[r][f] \in Seq(Dirs) /\ left[r][f] \in 1 .. 3 /\ left[r][f] <= Len(files[r][f])
    BY <1>4 DEF MigrationInv, FilesOK
  <2>2. left[r][f] \in DOMAIN files[r][f]
    BY <2>1
  <2> QED BY <1>4, <2>1, <2>2 DEF MigrationInv, DirsOK
<1>6. ASSUME NEW r \in Roots, NEW f \in Files
      PROVE  /\ files'[r][f] \in Seq(Dirs) /\ files'[r][f] # <<>>
             /\ \A i \in DOMAIN files'[r][f] : files'[r][f][i] = files[r][f][left[r][f]]
  <2> DEFINE d == files[r][f][left[r][f]]
  <2>1. d \in Dirs /\ files'[r][f] = <<d>>
    BY <1>5
  <2> HIDE DEF d
  <2>2. /\ files'[r][f] \in Seq(Dirs) /\ files'[r][f] # <<>>
        /\ \A i \in DOMAIN files'[r][f] : files'[r][f][i] = d
    BY <2>1, SingleFacts
  <2> QED BY <2>2 DEF d
<1>7. FilesOK'
  BY <1>1, <1>4, <1>5, <1>6 DEF MigrationInv, FilesOK
<1>8. \A r \in Roots : RootFine(r)'
  <2> SUFFICES ASSUME NEW r \in Roots PROVE RootFine(r)'
    OBVIOUS
  <2>1. pc'[r] = "idle"
    BY <1>1
  <2>2. \A f \in Files : \A i \in DOMAIN files'[r][f] : GoodDir(r, f, files[r][f][i])'
    BY <1>1, <1>5, <1>6 DEF GoodDir
  <2> QED BY <2>1, <2>2 DEF RootFine, Applying, Ending
<1> QED BY <1>2, <1>3, <1>7, <1>8, AllFineNext DEF MigrationInv

-----------------------------------------------------------------------------
(* The theorems. *)

LEMMA InitMigration == Init => MigrationInv
<1> SUFFICES ASSUME Init PROVE MigrationInv
  OBVIOUS
<1>1. PICK holds \in [Roots -> Corpora] :
        /\ files = [r \in Roots |-> [f \in Files |-> <<Under(f, holds[r][f])>>]]
        /\ latest = [r \in Roots |-> [f \in Files |-> holds[r][f].ver]]
  BY DEF Init
<1>2. \A r \in Roots, f \in Files : holds[r][f] \in Contents /\ holds[r][f].ver \in Versions
  BY ContentsFacts DEF Corpora
<1>3. StateOK
  <2>1. [tx |-> Nobody, done |-> FALSE] \in Entries
    BY DEF Entries
  <2> QED BY <2>1, SingleFacts DEF Init, StateOK
<1>4. ProcessOK
  BY NoBoxIsEmpty, MigrationBounds DEF Init, ProcessOK, Pcs, Files
<1>5. ASSUME NEW r \in Roots, NEW f \in Files
      PROVE  /\ files[r][f] \in Seq(Dirs) /\ files[r][f] # <<>>
             /\ \A i \in DOMAIN files[r][f] : GoodDir(r, f, files[r][f][i])
  <2> DEFINE d == Under(f, holds[r][f])
  <2>1. files[r][f] = <<d>> /\ latest[r][f] = holds[r][f].ver
    BY <1>1
  <2>2. d \in Dirs /\ Named(d, f) /\ Holds(d, latest[r][f])
    BY <1>2, <2>1, UnderIsGood
  <2> HIDE DEF d
  <2>3. /\ files[r][f] \in Seq(Dirs) /\ files[r][f] # <<>>
        /\ \A i \in DOMAIN files[r][f] : files[r][f][i] = d
    BY <2>1, <2>2, SingleFacts
  <2> QED BY <2>2, <2>3 DEF GoodDir, Faithful
<1>6. FilesOK
  <2>1. files \in [Roots -> [Files -> Seq(Dirs)]]
    <3> DEFINE journal(r, f) == <<Under(f, holds[r][f])>>
    <3>1. files = [r \in Roots |-> [f \in Files |-> journal(r, f)]]
      BY <1>1
    <3> HIDE DEF journal
    <3>2. \A r \in Roots, f \in Files : journal(r, f) \in Seq(Dirs)
      BY <1>5, <3>1
    <3> QED BY <3>1, <3>2
  <2>2. latest \in [Roots -> [Files -> Versions]] /\ lost \in [Roots -> SUBSET Files]
    BY <1>1, <1>2 DEF Init
  <2> QED BY <1>5, <2>1, <2>2 DEF FilesOK
<1>7. DirsOK /\ ForeseenOK /\ EndingOK
  BY <1>5 DEF Init, DirsOK, ForeseenOK, EndingOK, Applying, Ending
<1> QED BY <1>3, <1>4, <1>6, <1>7 DEF MigrationInv

LEMMA StepKeeps ==
  ASSUME MigrationInv, NEW r \in Roots, Step(r)
  PROVE  MigrationInv'
<1>1. CASE SeesCompleted(r) \/ CleanCompleted(r) \/ Look(r) \/ Scan(r)
  BY <1>1, SeesCompletedKeeps, CleanCompletedKeeps, LookKeeps, ScanKeeps
<1>2. CASE Rename(r) \/ SyncPublished(r) \/ Load(r) \/ Preflight(r)
  BY <1>2, RenameKeeps, SyncPublishedKeeps, LoadKeeps, PreflightKeeps
<1>3. CASE Write(r) \/ SyncWrite(r) \/ Move(r) \/ SyncMove(r)
  BY <1>3, WriteKeeps, SyncWriteKeeps, MoveKeeps, SyncMoveKeeps
<1>4. CASE Prove(r) \/ Complete(r) \/ SyncCompleted(r) \/ RemoveDone(r) \/ Return(r)
  BY <1>4, ProveKeeps, CompleteKeeps, SyncCompletedKeeps, RemoveDoneKeeps, ReturnKeeps
<1> QED BY <1>1, <1>2, <1>3, <1>4 DEF Step

LEMMA HappensKeeps ==
  ASSUME MigrationInv, Happens
  PROVE  MigrationInv'
BY PowerLossKeeps, DamageKeeps, DiesKeeps, RelocateKeeps, RenewKeeps, VanishKeeps, EditKeeps DEF Happens

LEMMA StutterKeeps ==
  ASSUME MigrationInv, UNCHANGED vars
  PROVE  MigrationInv'
<1>1. UNCHANGED <<files, latest, lost, state, setup, mine, pc, k>>
  BY DEF vars
<1>2. StateOK' /\ FilesOK' /\ ProcessOK'
  BY <1>1 DEF MigrationInv, StateOK, FilesOK, ProcessOK
<1>3. \A q \in Roots : RootFine(q)'
  BY <1>1, AllFine, UntouchedFine DEF MigrationInv, Untouched
<1> QED BY <1>2, <1>3, AllFineNext DEF MigrationInv

LEMMA NextKeeps == MigrationInv /\ [Next]_vars => MigrationInv'
BY CallKeeps, StepKeeps, HappensKeeps, StutterKeeps DEF Next

\* The inductive invariant: whatever the processes of any number of checkouts
\* do to the shared directory, and whatever kills, power losses, damaged copies
\* and people do, each file has one name and a version it should have, a process
\* that applies a journal finds what its preflight found, and a corpus that was
\* proven migrated stays so until the call returns.
\* _normalize_quest_corpus_ids_transaction
THEOREM MigrationInvariant == Spec => []MigrationInv
<1>1. Init => MigrationInv
  BY InitMigration
<1>2. MigrationInv /\ [Next]_vars => MigrationInv'
  BY NextKeeps
<1> QED BY <1>1, <1>2, PTL DEF Spec

\* ContentKept, for any number of files, checkouts, faults and changes: the
\* migration loses no content, brings none back and leaves no chapter twice.
\* _migration_preflight_transaction, _migration_apply_transaction
THEOREM ContentKeptHolds == Spec => []ContentKept
<1>1. MigrationInv => ContentKept
  BY DEF MigrationInv, DirsOK, GoodDir, Faithful, ContentKept
<1> QED BY <1>1, MigrationInvariant, PTL

\* ReturnsMigrated, for any number of them: a call that returns has migrated its
\* corpus, whoever built or began the transaction.
\* _normalize_quest_corpus_ids_transaction
THEOREM ReturnsMigratedHolds == Spec => []ReturnsMigrated
<1>1. MigrationInv => ReturnsMigrated
  BY DEF MigrationInv, EndingOK, Finished, ReturnsMigrated
<1> QED BY <1>1, MigrationInvariant, PTL

=============================================================================
