--------------------------- MODULE QuestMigration ---------------------------
(***************************************************************************)
(* The journaled migration of the quest corpus to signed-safe FTB ids      *)
(* (tools/afterlight_quests/builder.py, normalize_quest_corpus_ids). Every *)
(* process of the user shares one transaction directory, whatever checkout *)
(* or candidate workspace it works on, and no lock protects it: a process  *)
(* builds a transaction for its own root, or finds one and applies it.     *)
(*                                                                         *)
(* A directory is its journal, as in SnapshotStore: the states since its   *)
(* last fsync, the last of which is what programs see, and any one of      *)
(* which a power loss leaves. What a file holds is its version, which only *)
(* a person changes, and whether its ids are safe. A chapter file named    *)
(* after its id also has a second, safe name (Moved).                      *)
(*                                                                         *)
(* Somebody edits a root only while no process works on it: builds work on *)
(* a private candidate, and a promotion guards what is edited meanwhile    *)
(* (BuildPromotion).                                                       *)
(***************************************************************************)
EXTENDS Integers, Sequences, SequencesExt, FiniteSetsExt

CONSTANTS
  NFiles,       \* the files of a corpus, in the order of the journal
  Moved,        \* those that are renamed as well
  Roots,        \* checkouts and candidate workspaces
  First,        \* one that holds the corpus before the migration
  Nobody,       \* no transaction
  MaxFaults,    \* bound on deaths, power losses and damaged copies
  MaxChanges    \* bound on edits, lost files, relocations and new roots

ASSUME MigrationBounds ==
  /\ NFiles \in Nat \ {0} /\ Moved \subseteq 1 .. NFiles
  /\ First \in Roots /\ Nobody \notin Roots
  /\ MaxFaults \in Nat /\ MaxChanges \in Nat

VARIABLES
  files,     \* files[r][f]: journal of the directory the file is in
  latest,    \* history: the version a person gave the file last
  lost,      \* history: the files that vanished once
  state,     \* journal of the state root: the transaction with what its directory
             \* holds, and whether there is a completed one
  setup,     \* setup[r]: the private directory in which a transaction is built
  mine,      \* mine[r]: the journal the process on r has read
  pc, k,     \* its next step, and the file it is about
  faults, changes

vars == <<files, latest, lost, state, setup, mine, pc, k, faults, changes>>

Files    == 1 .. NFiles
Versions == {0, 1}
None     == [ver |-> -1, safe |-> FALSE]
Contents == [ver: Versions, safe: BOOLEAN]
Safe(content) == [content EXCEPT !.safe = TRUE]
Copies   == {"good", "bad", "gone"}

\* A directory with the file under its first name, or under its second.
Under(f, content) == IF content.safe /\ f \in Moved
                     THEN [src |-> None, dst |-> content]
                     ELSE [src |-> content, dst |-> None]

\* One checkout of the repository: its files at one version.
Corpora == {c \in [Files -> Contents] : \A f, g \in Files : c[f].ver = c[g].ver}

\* No operation on the file is part of the transaction.
Skip == [before |-> None, after |-> None]

NoBox == [origin |-> Nobody, firm |-> FALSE, plan |-> [f \in Files |-> Skip],
          journal |-> [i \in 1 .. 2 |-> "gone"],
          payload |-> [f \in Files |-> [i \in 1 .. 2 |-> "gone"]]]

Pcs == {"idle", "clean", "clean-rm", "scan", "rename", "sync-tx",
        "load", "payload", "write", "write-sync", "move", "move-sync",
        "validate", "complete", "sync-done", "rm-done", "ok", "failed"}

Plans == [Files -> [before: Contents, after: Contents] \union {Skip}]
Boxes == [origin: Roots \union {Nobody}, firm: BOOLEAN, plan: Plans,
          journal: [1 .. 2 -> Copies], payload: [Files -> [1 .. 2 -> Copies]]]

QTypeOK ==
  /\ \A r \in Roots, f \in Files : \A i \in DOMAIN files[r][f] :
       /\ Len(files[r][f]) <= 3
       /\ files[r][f][i] \in [src: Contents \union {None}, dst: Contents \union {None}]
  /\ latest \in [Roots -> [Files -> Versions]] /\ lost \in [Roots -> SUBSET Files]
  /\ \A i \in DOMAIN state : /\ state[i].done \in BOOLEAN
                             /\ state[i].tx = Nobody \/ state[i].tx \in Boxes
  /\ setup \in [Roots -> Boxes] /\ mine \in [Roots -> Plans]
  /\ pc \in [Roots -> Pcs] /\ k \in [Roots -> Files]
  /\ faults \in 0 .. MaxFaults /\ changes \in 0 .. MaxChanges
  \* A transaction that is published has everything it needs.
  /\ \A i \in DOMAIN state : state[i].tx # Nobody => state[i].tx.firm

Init ==
  /\ \E holds \in [Roots -> Corpora] :
       /\ \A f \in Files : ~holds[First][f].safe /\ holds[First][f].ver = 0
       /\ files = [r \in Roots |-> [f \in Files |-> <<Under(f, holds[r][f])>>]]
       /\ latest = [r \in Roots |-> [f \in Files |-> holds[r][f].ver]]
  /\ lost = [r \in Roots |-> {}]
  /\ state = <<[tx |-> Nobody, done |-> FALSE]>> /\ setup = [r \in Roots |-> NoBox]
  /\ mine = [r \in Roots |-> NoBox.plan]
  /\ pc = [r \in Roots |-> "idle"] /\ k = [r \in Roots |-> 1]
  /\ faults = 0 /\ changes = 0

-----------------------------------------------------------------------------
(* What a process sees, and how it moves on. *)

State == Last(state)
Dir(r, f) == Last(files[r][f])
Tx == State.tx
Ops(r) == {f \in Files : mine[r][f] # Skip}
After(r, f) == mine[r][f].after

At(r, step) == pc[r] = step
To(r, step) == pc' = [pc EXCEPT ![r] = step] /\ UNCHANGED k
Decide(r, good, step) == To(r, IF good THEN step ELSE "failed")
Turn(r, step, f) == pc' = [pc EXCEPT ![r] = step] /\ k' = [k EXCEPT ![r] = f]

SetState(entry) == state' = Append(state, entry)
SyncState == state' = <<State>>
\* The directory itself changes, under whatever name a power loss leaves it.
Alter(b) == state' = [i \in DOMAIN state |-> IF state[i].tx = Tx THEN [state[i] EXCEPT !.tx = b] ELSE state[i]]
SetDirs(r, f, dirs) == files' = [files EXCEPT ![r] = [files[r] EXCEPT ![f] = dirs]]
Put(r, f, dir) == SetDirs(r, f, Append(files[r][f], dir))
SyncDir(r, f) == SetDirs(r, f, <<Dir(r, f)>>)

Outside == UNCHANGED <<latest, faults, changes>>
Reads == Outside /\ UNCHANGED <<files, lost, state, setup, mine>>

-----------------------------------------------------------------------------
(* _normalize_quest_corpus_ids_transaction *)

Call(r) ==
  /\ At(r, "idle")
  /\ pc' = [pc EXCEPT ![r] = "clean"] /\ k' = [k EXCEPT ![r] = 1] /\ Reads

SeesCompleted(r) == At(r, "clean") /\ State.done /\ To(r, "clean-rm") /\ Reads

\* Another process may have removed it meanwhile, which is an error.
RemoveCompleted(r, next) ==
  /\ Decide(r, State.done, next)
  /\ IF State.done THEN state' = <<[State EXCEPT !.done = FALSE]>> ELSE UNCHANGED state
  /\ Outside /\ UNCHANGED <<files, lost, setup, mine>>

CleanCompleted(r) == At(r, "clean-rm") /\ RemoveCompleted(r, "clean")

\* A transaction without a journal is removed; one with a journal is applied.
Look(r) ==
  /\ At(r, "clean") /\ ~State.done
  /\ \/ /\ State.tx # Nobody /\ \E i \in 1 .. 2 : Tx.journal[i] # "gone"
        /\ To(r, "load") /\ UNCHANGED state
     \/ /\ State.tx # Nobody /\ \A i \in 1 .. 2 : Tx.journal[i] = "gone"
        /\ To(r, "scan") /\ state' = <<[State EXCEPT !.tx = Nobody]>>
     \/ State.tx = Nobody /\ To(r, "scan") /\ UNCHANGED state
  /\ Outside /\ UNCHANGED <<files, lost, setup, mine>>

-----------------------------------------------------------------------------
(* _migration_build_transaction *)

Missing(d) == d.src = None /\ d.dst = None

\* The operation a file needs: its text, or its name, or nothing.
Planned(r, f) ==
  LET d == Dir(r, f) IN
  IF d.src # None /\ (~d.src.safe \/ f \in Moved)
  THEN [before |-> d.src, after |-> Safe(d.src)] ELSE Skip

\* Both names of a chapter are taken.
NameTaken(r) == \E f \in Moved : Dir(r, f).src # None /\ Dir(r, f).dst # None

\* The corpus as a whole: nothing missing that is referred to, every id safe,
\* every chapter under the name of its id.
Migrated(d, f) == \/ f \in Moved /\ d.src = None /\ d.dst.safe
                  \/ f \notin Moved /\ d.src.safe
Corpus(r) == \A f \in Files : Migrated(Dir(r, f), f)

\* The second copy, the journals and their directories are synced.
Synced(r) == r \in Roots

\* The private setup directory: the migrated copy of the corpus, which is
\* validated as a whole, its second copy, and the two journals.
Scan(r) ==
  /\ At(r, "scan")
  /\ LET plan == [f \in Files |-> Planned(r, f)]
         staged == \A f \in Files : plan[f] # Skip \/ Migrated(Dir(r, f), f) IN
     \/ NameTaken(r) /\ To(r, "failed") /\ UNCHANGED setup
     \/ ~NameTaken(r) /\ (\A f \in Files : plan[f] = Skip) /\ To(r, "ok") /\ UNCHANGED setup
     \/ /\ ~NameTaken(r) /\ \E f \in Files : plan[f] # Skip
        /\ Decide(r, staged, "rename")
        /\ setup' = [setup EXCEPT ![r] =
                       [origin |-> r, firm |-> Synced(r), plan |-> plan, journal |-> [i \in 1 .. 2 |-> "good"],
                        payload |-> [f \in Files |-> [i \in 1 .. 2 |-> "good"]]]]
  /\ Outside /\ UNCHANGED <<files, lost, state, mine>>

\* rename(2) does not replace a directory that is not empty.
Rename(r) ==
  /\ At(r, "rename") /\ Decide(r, State.tx = Nobody, "sync-tx")
  /\ IF State.tx = Nobody THEN SetState([State EXCEPT !.tx = setup[r]]) ELSE UNCHANGED state
  /\ Outside /\ UNCHANGED <<files, lost, setup, mine>>
SyncPublished(r) ==
  /\ At(r, "sync-tx") /\ To(r, "load") /\ SyncState
  /\ Outside /\ UNCHANGED <<files, lost, setup, mine>>

-----------------------------------------------------------------------------
(* _migration_preflight_transaction: nothing in the root is touched *)

\* The root the transaction was built for is this one, or is no more.
OwnOrOrphaned(r) == Tx.origin \in {r, Nobody}

\* A damaged journal is written again from the other one.
Load(r) ==
  /\ At(r, "load")
  /\ LET found == State.tx # Nobody /\ \E i \in 1 .. 2 : Tx.journal[i] = "good" IN
     \/ /\ found /\ Decide(r, OwnOrOrphaned(r), "payload")
        /\ Alter([Tx EXCEPT !.journal = [i \in 1 .. 2 |-> "good"]])
        /\ mine' = [mine EXCEPT ![r] = Tx.plan]
     \/ ~found /\ To(r, "failed") /\ UNCHANGED <<state, mine>>
  /\ Outside /\ UNCHANGED <<files, lost, setup>>

\* A copy of the staged file that holds what the journal names.
Staged(r, f, i) == State.tx # Nobody /\ Tx.plan[f].after = After(r, f) /\ Tx.payload[f][i] = "good"

\* Every file is as it was, or as it will be, or missing.
ForeseenNot(r) == Ops(r) # {}   \* mutant: what the file holds is not compared
Foreseen(r) ==
  \A f \in Ops(r) : /\ Dir(r, f).src \in {None, mine[r][f].before, After(r, f)}
                    /\ f \in Moved => Dir(r, f).dst \in {None, After(r, f)}

\* A damaged payload is written again from the other one.
WholeFirst(r) == \A f \in Ops(r) : Staged(r, f, 1)   \* mutant: the second copy is not used
Whole(r) == \A f \in Ops(r) : \E i \in 1 .. 2 : Staged(r, f, i)

Preflight(r) ==
  /\ At(r, "payload") /\ Decide(r, Whole(r) /\ Foreseen(r), "write")
  /\ IF Whole(r) /\ State.tx # Nobody
     THEN Alter([Tx EXCEPT !.payload =
                   [f \in Files |-> IF f \in Ops(r) THEN [i \in 1 .. 2 |-> "good"] ELSE Tx.payload[f]]])
     ELSE UNCHANGED state
  /\ Outside /\ UNCHANGED <<files, lost, setup, mine>>

-----------------------------------------------------------------------------
(* _migration_apply_transaction: the writes, the moves, the proof, the end *)

InPlace(r, f) == f \in Moved /\ Dir(r, f).dst = After(r, f)

\* What is there already is not written again.
Unwritten(r) == {f \in Ops(r) : ~InPlace(r, f) /\ Dir(r, f).src # After(r, f)}

Write(r) ==
  /\ At(r, "write")
  /\ \/ Unwritten(r) = {} /\ To(r, "move") /\ UNCHANGED files
     \/ /\ Unwritten(r) # {}
        /\ LET f == Min(Unwritten(r)) IN
           \/ /\ Staged(r, f, 1) /\ Turn(r, "write-sync", f)
              /\ Put(r, f, [Dir(r, f) EXCEPT !.src = After(r, f)])
           \/ ~Staged(r, f, 1) /\ To(r, "failed") /\ UNCHANGED files
  /\ Outside /\ UNCHANGED <<lost, state, setup, mine>>

SyncWrite(r) ==
  /\ At(r, "write-sync") /\ Turn(r, "write", 1) /\ SyncDir(r, k[r])
  /\ Outside /\ UNCHANGED <<lost, state, setup, mine>>

\* A source beside its target is what a move left behind that was interrupted.
Unmoved(r) == {f \in Ops(r) \intersect Moved : ~(InPlace(r, f) /\ Dir(r, f).src = None)}

Move(r) ==
  /\ At(r, "move")
  /\ \/ Unmoved(r) = {} /\ To(r, "validate") /\ UNCHANGED files
     \/ /\ Unmoved(r) # {}
        /\ LET f == Min(Unmoved(r))   d == Dir(r, f) IN
           \/ /\ InPlace(r, f)
              /\ Turn(r, "move-sync", f) /\ Put(r, f, [d EXCEPT !.src = None])
           \/ /\ ~InPlace(r, f) /\ d.src = After(r, f) /\ d.dst = None
              /\ Turn(r, "move-sync", f) /\ Put(r, f, [src |-> None, dst |-> d.src])
           \/ ~InPlace(r, f) /\ (d.src # After(r, f) \/ d.dst # None) /\ To(r, "failed") /\ UNCHANGED files
  /\ Outside /\ UNCHANGED <<lost, state, setup, mine>>

SyncMove(r) ==
  /\ At(r, "move-sync") /\ Turn(r, "move", 1) /\ SyncDir(r, k[r])
  /\ Outside /\ UNCHANGED <<lost, state, setup, mine>>

\* The corpus, then the targets and both copies of what was staged.
ProvenForeseen(r) ==   \* mutant: only what the journal names is looked at
  \A f \in Ops(r) : After(r, f) = IF f \in Moved THEN Dir(r, f).dst ELSE Dir(r, f).src
Proven(r) ==
  /\ Corpus(r)
  /\ \A f \in Ops(r) : /\ After(r, f) = IF f \in Moved THEN Dir(r, f).dst ELSE Dir(r, f).src
                       /\ \A i \in 1 .. 2 : Staged(r, f, i)

Prove(r) == At(r, "validate") /\ Decide(r, Proven(r), "complete") /\ Reads

\* A completed transaction of another process is removed first.
Complete(r) ==
  /\ At(r, "complete") /\ Decide(r, State.tx # Nobody, "sync-done")
  /\ IF State.tx # Nobody THEN SetState([tx |-> Nobody, done |-> TRUE]) ELSE UNCHANGED state
  /\ Outside /\ UNCHANGED <<files, lost, setup, mine>>

SyncCompleted(r) ==
  /\ At(r, "sync-done") /\ To(r, "rm-done") /\ SyncState
  /\ Outside /\ UNCHANGED <<files, lost, setup, mine>>

RemoveDone(r) == At(r, "rm-done") /\ RemoveCompleted(r, "ok")

\* What the process knew, and the private directory it leaves or removes.
Forget(r) ==
  mine' = [mine EXCEPT ![r] = NoBox.plan] /\ setup' = [setup EXCEPT ![r] = NoBox]

Return(r) ==
  /\ pc[r] \in {"ok", "failed"} /\ pc' = [pc EXCEPT ![r] = "idle"] /\ k' = [k EXCEPT ![r] = 1]
  /\ Forget(r) /\ Outside /\ UNCHANGED <<files, lost, state>>

Step(r) ==
  \/ SeesCompleted(r) \/ CleanCompleted(r) \/ Look(r) \/ Scan(r)
  \/ Rename(r) \/ SyncPublished(r) \/ Load(r) \/ Preflight(r)
  \/ Write(r) \/ SyncWrite(r) \/ Move(r) \/ SyncMove(r) \/ Prove(r) \/ Complete(r)
  \/ SyncCompleted(r) \/ RemoveDone(r) \/ Return(r)

-----------------------------------------------------------------------------
(* What happens to it. *)

Fault == faults < MaxFaults /\ faults' = faults + 1

\* A kill, or a system call that fails.
Dies(r) ==
  /\ pc[r] \notin {"idle", "ok", "failed"} /\ Fault
  /\ pc' = [pc EXCEPT ![r] = "idle"] /\ k' = [k EXCEPT ![r] = 1]
  /\ Forget(r) /\ UNCHANGED <<files, latest, lost, state, changes>>

\* What a power loss leaves of a transaction: the entries of the stage are never
\* synced as a whole, the other copy and the journals are.
Left(b, stays) ==
  IF b = Nobody THEN Nobody
  ELSE IF b.firm
  THEN [b EXCEPT !.payload = [f \in Files |-> IF stays THEN b.payload[f] ELSE [b.payload[f] EXCEPT ![1] = "gone"]]]
  ELSE [b EXCEPT !.journal = [i \in 1 .. 2 |-> "bad"],
                 !.payload = [f \in Files |-> [i \in 1 .. 2 |-> "bad"]]]

PowerLoss ==
  /\ Fault
  /\ pc' = [r \in Roots |-> "idle"] /\ k' = [r \in Roots |-> 1]
  /\ mine' = [r \in Roots |-> NoBox.plan] /\ setup' = [r \in Roots |-> NoBox]
  /\ \E i \in DOMAIN state, stays \in BOOLEAN : state' = <<[state[i] EXCEPT !.tx = Left(state[i].tx, stays)]>>
  /\ \E left \in [Roots -> [Files -> 1 .. 3]] :
       /\ \A r \in Roots, f \in Files : left[r][f] <= Len(files[r][f])
       /\ files' = [r \in Roots |-> [f \in Files |-> <<files[r][f][left[r][f]]>>]]
  /\ UNCHANGED <<latest, lost, changes>>

\* One file of the transaction directory is damaged or removed.
Damage ==
  /\ State.tx # Nobody /\ Fault
  /\ \E i \in 1 .. 2, to \in {"bad", "gone"} :
       \/ Alter([Tx EXCEPT !.journal = [Tx.journal EXCEPT ![i] = to]])
       \/ \E f \in Files : /\ Tx.plan[f] # Skip
            /\ Alter([Tx EXCEPT !.payload = [Tx.payload EXCEPT ![f] = [Tx.payload[f] EXCEPT ![i] = to]]])
  /\ UNCHANGED <<files, latest, lost, setup, mine, pc, k, changes>>

Change == changes < MaxChanges /\ changes' = changes + 1
Person == Change /\ UNCHANGED <<setup, mine, pc, k, faults>>

\* A file the transaction is about vanishes from a root it may be applied to.
Vanish(r, f) ==
  /\ pc[r] = "idle" /\ State.tx # Nobody /\ OwnOrOrphaned(r) /\ Person
  /\ Tx.plan[f] # Skip
  /\ SetDirs(r, f, <<[src |-> None, dst |-> None]>>)
  /\ lost' = [lost EXCEPT ![r] = lost[r] \union {f}]
  /\ UNCHANGED <<latest, state>>

\* A person writes a new version of a file, with the ids that were in it.
Edit(r, f) ==
  /\ pc[r] = "idle" /\ latest[r][f] = 0 /\ ~Missing(Dir(r, f)) /\ Person
  /\ latest' = [latest EXCEPT ![r] = [latest[r] EXCEPT ![f] = 1]]
  /\ LET now(content) == IF content = None THEN None ELSE [content EXCEPT !.ver = 1] IN
     SetDirs(r, f, <<[src |-> now(Dir(r, f).src), dst |-> now(Dir(r, f).dst)]>>)
  /\ UNCHANGED <<lost, state>>

\* The path a transaction was built for is no more: renamed, or removed.
Orphan(r) ==
  state' = [i \in DOMAIN state |->
              IF state[i].tx # Nobody /\ state[i].tx.origin = r
              THEN [state[i] EXCEPT !.tx = [state[i].tx EXCEPT !.origin = Nobody]] ELSE state[i]]

Relocate(r) ==
  pc[r] = "idle" /\ Person /\ Orphan(r) /\ UNCHANGED <<files, latest, lost>>

\* The candidate workspace of one build is removed, and the next one appears.
Renew(r) ==
  /\ pc[r] = "idle" /\ Person /\ Orphan(r) /\ lost' = [lost EXCEPT ![r] = {}]
  /\ \E holds \in Corpora :
       /\ files' = [files EXCEPT ![r] = [f \in Files |-> <<Under(f, holds[f])>>]]
       /\ latest' = [latest EXCEPT ![r] = [f \in Files |-> holds[f].ver]]

Happens ==
  \/ PowerLoss \/ Damage
  \/ \E r \in Roots : \/ Dies(r) \/ Relocate(r) \/ Renew(r)
                      \/ \E f \in Files : Vanish(r, f) \/ Edit(r, f)

Next == Happens \/ \E r \in Roots : Call(r) \/ Step(r)

Spec == Init /\ [][Next]_vars

\* A process takes its steps, and a build that failed is started again.
FairSpec == Spec /\ \A r \in Roots : WF_vars(Call(r) \/ Step(r))

-----------------------------------------------------------------------------
(* Properties. *)

\* Whatever a power loss leaves of a root, each of its files is there under
\* exactly one name, with the version a person gave it last: the migration of
\* this root, or of another one whose transaction it takes over, loses nothing,
\* brings nothing old back and leaves no chapter twice. A file that vanished is
\* still missing, or was written once, by whatever transaction was applied: the
\* one of another checkout may hold another version of it.
\* _migration_preflight_transaction, _migration_apply_transaction
Holds(d, version) ==
  \/ d.src # None /\ d.src.ver = version /\ d.dst = None
  \/ d.dst # None /\ d.dst.ver = version /\ d.src = None

ContentKept ==
  \A r \in Roots, f \in Files : \A i \in DOMAIN files[r][f] :
    \/ Holds(files[r][f][i], latest[r][f])
    \/ /\ f \in lost[r]
       /\ Missing(files[r][f][i]) \/ \E version \in Versions : Holds(files[r][f][i], version)

\* A call that returns has migrated its whole corpus, whoever built or began the
\* transaction it applied. _normalize_quest_corpus_ids_transaction
ReturnsMigrated == \A r \in Roots : pc[r] = "ok" => Corpus(r) \/ \E f \in lost[r] : Missing(Dir(r, f))

\* The dead ends, in which somebody must help: a transaction for a root that is
\* still there and is not called, one whose copies are all damaged, one for
\* files that were edited since, one for a corpus in which other files are
\* unsafe, or a file that vanished when no transaction holds it any more.
DeadEnd(r) ==
  \/ State.tx = Nobody /\ \E f \in lost[r] : Missing(Dir(r, f))
  \/ /\ State.tx # Nobody
     /\ \/ Tx.origin \notin {r, Nobody}
        \/ \A i \in 1 .. 2 : Tx.journal[i] # "good"
        \/ \E f \in Files : Tx.plan[f] # Skip /\ \A i \in 1 .. 2 : Tx.payload[f][i] # "good"
        \/ \E f \in Files : Tx.plan[f] # Skip /\ Tx.plan[f].after.ver # latest[r][f]
        \/ \E f \in Files : Tx.plan[f] = Skip /\ ~Migrated(Dir(r, f), f)

\* A build that is repeated migrates its corpus, whatever deaths, power losses,
\* damaged copies, edits, relocations and other builds came before, except from
\* a dead end.
MigrationConverges == \A r \in Roots : []<>(Corpus(r) \/ DeadEnd(r))
=============================================================================
