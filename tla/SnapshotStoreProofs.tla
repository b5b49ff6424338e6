------------------------- MODULE SnapshotStoreProofs -------------------------
(***************************************************************************)
(* The snapshot survives: for every number of files and faults, any set of *)
(* invocations and any order of errors, kills, deadlines and power losses, *)
(* the archive of an unresolved transaction stays durable, the server's    *)
(* data is never without its old tree or its whole copy, and nobody works  *)
(* beside anybody else.                                                    *)
(*                                                                         *)
(* First the shared lock (LockRun): it excludes, for any number of         *)
(* invocations, because the descriptor travels with every process that can *)
(* still do something.                                                     *)
(*                                                                         *)
(* StoreInv says for every step of a command what the steps before it have *)
(* done (Created, Reached), which record permits the command (Permitted),  *)
(* and that no script goes on while its helper is at work (Attended). All  *)
(* of it speaks of every state of both journals, since a power loss may    *)
(* leave any of them.                                                      *)
(***************************************************************************)
EXTENDS SnapshotStore, TLAPS

-----------------------------------------------------------------------------
(* The shared lock.                                                        *)

\* Whoever lives holds the descriptor, and at most one invocation does. A
\* helper that was started has its run-command or is an orphan with the
\* descriptor, never a process without it.
Inherited(a) ==
  /\ runner[a] # "gone" => "runner" \in fd[a]
  /\ script[a] # "gone" => "script" \in fd[a]
  /\ sup[a] # "gone" => "sup" \in fd[a]
  /\ helper[a] # "gone" => "helper" \in fd[a]

OneHolder == \A a, b \in Actors : fd[a] # {} /\ fd[b] # {} => a = b

LockInv == LockTypeOK /\ (\A a \in Actors : Inherited(a)) /\ OneHolder

-----------------------------------------------------------------------------
LEMMA LockInitially == LockInit => LockInv
  BY DEF LockInit, LockInv, LockTypeOK, Inherited, OneHolder, Processes

\* A step of one invocation changes nothing of another one.
LEMMA StepKeepsInv ==
  ASSUME NEW a \in Actors, LockInv, Process(a) \/ Deadline(a) \/ Killed(a)
  PROVE  LockInv'
<1> USE DEF LockInv, LockTypeOK, Inherited, OneHolder, Processes
<1>1. CASE AcquireLock(a)
  BY <1>1 DEF AcquireLock, Over, Working, LockFree
<1>2. CASE VerifyLock(a)
  BY <1>2 DEF VerifyLock
<1>3. CASE StartHelper(a)
  BY <1>3 DEF StartHelper
<1>4. CASE HelperEnds(a)
  BY <1>4 DEF HelperEnds
<1>5. CASE SupReturns(a)
  BY <1>5 DEF SupReturns
<1>6. CASE ScriptEnds(a)
  BY <1>6 DEF ScriptEnds
<1>7. CASE RunnerReturns(a)
  BY <1>7 DEF RunnerReturns
<1>8. CASE SupTimeout(a)
  BY <1>8 DEF SupTimeout
<1>9. CASE SupKills(a)
  BY <1>9 DEF SupKills
<1>10. CASE RunnerStops(a)
  BY <1>10 DEF RunnerStops
<1>11. CASE RunnerKills(a)
  BY <1>11 DEF RunnerKills
<1>12. CASE RunnerDies(a)
  BY <1>12 DEF RunnerDies
<1>13. CASE ScriptDies(a)
  BY <1>13 DEF ScriptDies
<1> QED
  BY <1>1, <1>2, <1>3, <1>4, <1>5, <1>6, <1>7, <1>8, <1>9, <1>10, <1>11, <1>12, <1>13
  DEF Process, Deadline, Killed

LEMMA LockStep == LockInv /\ [LockNext]_lockVars => LockInv'
<1> SUFFICES ASSUME LockInv, [LockNext]_lockVars PROVE LockInv'
  OBVIOUS
<1>1. CASE \E a \in Actors : Process(a) \/ Deadline(a) \/ Killed(a)
  BY <1>1, StepKeepsInv
<1>2. CASE AllGone
  BY <1>2 DEF AllGone, LockInv, LockTypeOK, Inherited, OneHolder, Processes
<1>3. CASE UNCHANGED lockVars
  BY <1>3 DEF lockVars, LockInv, LockTypeOK, Inherited, OneHolder
<1> QED
  BY <1>1, <1>2, <1>3 DEF LockNext

\* Two invocations under the shared lock never work at a time, whichever of
\* their processes is killed, times out or is left behind as an orphan
\* (secure_lock_descriptor, run_controlled_process and command_run of
\* server/afterlight-safety.py).
THEOREM LockExcludes == LockSpec => []Exclusive
<1>1. LockInv => Exclusive
  BY DEF LockInv, Inherited, OneHolder, Exclusive, Working
<1> QED
  BY <1>1, LockInitially, LockStep, PTL DEF LockSpec

-----------------------------------------------------------------------------
(* The store.                                                              *)

\* A script that lives and waits for no run-command has no helper, and a
\* helper that runs is at a step of its operation.
Attended ==
  \A a \in Actors :
    /\ script[a] # "gone" /\ sup[a] = "gone" => helper[a] = "gone"
    /\ op[a].pc = "none" <=> helper[a] = "gone"

\* The steps of each command.
Creating  == {"c-open", "c-read", "c-sync", "c-receipt", "c-dirsync", "c-unlink",
              "c-unlink-receipt", "ok", "failed"}
Restoring == {"r-check", "r-clear", "r-mkdir", "r-extract", "r-sync", "r-verify", "r-move",
              "r-moved", "r-swap", "r-swapped", "r-undo", "ok", "failed"}
Marking   == {"m-write", "m-dirsync", "ok", "failed"}
Pruning   == {"p-scan", "p-remove", "p-sync", "p-rmdir", "ok", "failed"}

\* The record decides whose helper may be at work.
Permitted ==
  \A a \in Actors :
    op[a].pc # "none" =>
      \/ a = "update" /\ record = "pending" /\ op[a].pc \in Creating
      \/ a = "update" /\ record = "mutated" /\ op[a].pc \in Restoring \union Marking
      \/ a = "retention" /\ record = "absent" /\ op[a].pc \in Pruning

\* What archive-create and its script stand for.
Read == inv \in [Files -> Versions]
Durable == /\ \A i \in DOMAIN snap : {"dir", "archive", "receipt"} \subseteq snap[i]
           /\ tar = "synced" /\ Read

\* What archive-create has done when it is at the step pc and its next file is k.
Created(pc, k) ==
  /\ pc = "c-read" => "archive" \in Snap /\ \A f \in Files : f < k => inv[f] \in Versions
  /\ pc \in {"c-sync", "c-receipt", "c-dirsync"} => "archive" \in Snap /\ Read
  /\ pc \in {"c-receipt", "c-dirsync"} => tar = "synced"
  /\ pc = "c-dirsync" => "receipt" \in Snap
  /\ pc = "ok" => Durable

Archiving ==
  /\ record \in {"new", "pending"} => \A i \in DOMAIN snap : "dir" \in snap[i]
  /\ record = "new" => last["update"] = "none"
  /\ record = "pending" =>
       /\ Created(op["update"].pc, op["update"].k)
       /\ last["update"] # "none" => op["update"].pc = "none"
       /\ last["update"] = "ok" => Durable
  /\ record \in {"archived", "mutated"} => Durable

\* The old tree is under one of two names, and a restored one only in its place.
Untouched == [current |-> "live", rescue |-> "none", staging |-> "none"]

Placed(p) ==
  /\ p.current = "copy" => p.rescue = "live" /\ p.staging = "none" /\ copy = inv
  /\ p.current # "copy" => \/ p.current = "live" /\ p.rescue = "none"
                           \/ p.current = "none" /\ p.rescue = "live"
  /\ p.staging # "live"

\* What archive-restore has done when it is at the step pc and the names are p.
Reached(pc, p) ==
  /\ pc = "r-mkdir" => p.current # "copy" /\ p.staging = "none"
  /\ pc \in {"r-clear", "r-extract", "r-verify", "r-move", "r-moved", "r-swap"} =>
       p.staging = "copy"
  /\ pc \in {"r-moved", "r-swap"} => p.current = "none"
  /\ pc \in {"r-move", "r-moved", "r-swap"} => copy = inv

Activating ==
  /\ record \in {"new", "pending", "archived"} => home = <<Untouched>>
  /\ \A i \in DOMAIN home : Placed(home[i])
  /\ (\E i \in DOMAIN home : home[i].current = "copy") => Home.current = "copy"
  /\ record = "mutated" => Reached(op["update"].pc, Home)

StoreInv == STypeOK /\ Attended /\ Permitted /\ Archiving /\ Activating

-----------------------------------------------------------------------------
(* The journals and the helper's progress. *)

\* The state of a directory after an entry has changed, and after an fsync.
LEMMA Entering ==
  ASSUME StoreOK, NEW names \in SUBSET (Names \union {"dir"}), Enter(names)
  PROVE  /\ snap' \in Seq(SUBSET (Names \union {"dir"})) /\ snap' # <<>> /\ Snap' = names
         /\ \A i \in DOMAIN snap' : snap'[i] = names \/ \E j \in DOMAIN snap : snap'[i] = snap[j]
BY DEF StoreOK, Enter, Snap, Last

LEMMA Placing ==
  ASSUME TreesOK, NEW places \in Places, Place(places)
  PROVE  /\ home' \in Seq(Places) /\ home' # <<>> /\ Home' = places
         /\ \A i \in DOMAIN home' : home'[i] = places \/ \E j \in DOMAIN home : home'[i] = home[j]
BY DEF TreesOK, Place, Home, Last

LEMMA SyncingSnap ==
  ASSUME NEW names \in SUBSET (Names \union {"dir"}), snap' = <<names>>
  PROVE  /\ snap' \in Seq(SUBSET (Names \union {"dir"})) /\ snap' # <<>> /\ Snap' = names
         /\ DOMAIN snap' = {1} /\ snap'[1] = names
BY DEF Snap, Last

LEMMA SyncingHome ==
  ASSUME NEW places \in Places, home' = <<places>>
  PROVE  /\ home' \in Seq(Places) /\ home' # <<>> /\ Home' = places
         /\ DOMAIN home' = {1} /\ home'[1] = places
BY DEF Home, Last

LEMMA Latest ==
  ASSUME StoreOK, TreesOK
  PROVE  /\ Snap \in SUBSET (Names \union {"dir"}) /\ \E i \in DOMAIN snap : Snap = snap[i]
         /\ Home \in Places /\ \E i \in DOMAIN home : Home = home[i]
         /\ \A i \in DOMAIN snap : snap[i] \in SUBSET (Names \union {"dir"})
         /\ \A i \in DOMAIN home : home[i] \in Places
BY DEF StoreOK, TreesOK, Snap, Home, Last

LEMMA Unmoved ==
  /\ UNCHANGED snap => Snap' = Snap
  /\ UNCHANGED home => Home' = Home
BY DEF Snap, Home

\* A step of an operation, which changes no other one.
Turned(a, pc, k) ==
  /\ op' \in Ops /\ op'[a].pc = pc /\ op'[a].k = k
  /\ \A b \in Actors : b # a => op'[b] = op[b]

LEMMA Turning ==
  ASSUME op \in Ops, NEW a \in Actors, NEW pc \in Pcs, To(a, pc)
  PROVE  Turned(a, pc, op[a].k)
BY DEF Ops, To, Turned

LEMMA Opening ==
  ASSUME op \in Ops, NEW a \in Actors,
         op' = [op EXCEPT ![a].pc = "c-read", ![a].k = 1, ![a].touched = FALSE]
  PROVE  Turned(a, "c-read", 1)
<1>1. op[a] \in [pc: Pcs, k: 0 .. NFiles + 1, touched: BOOLEAN, renamed: BOOLEAN, undo: BOOLEAN]
  BY DEF Ops
<1>2. "c-read" \in Pcs /\ 1 \in 0 .. NFiles + 1
  BY SnapshotBounds DEF Pcs
<1>3. /\ DOMAIN op' = Actors /\ \A b \in Actors : b # a => op'[b] = op[b]
      /\ op'[a] = [op[a] EXCEPT !.pc = "c-read", !.k = 1, !.touched = FALSE]
  BY DEF Ops
<1>4. op'[a].pc = "c-read" /\ op'[a].k = 1
  BY <1>1, <1>3
<1>5. op'[a] \in [pc: Pcs, k: 0 .. NFiles + 1, touched: BOOLEAN, renamed: BOOLEAN, undo: BOOLEAN]
  BY <1>1, <1>2, <1>3
<1>6. op' = [b \in Actors |-> op'[b]]
  BY DEF Ops
<1>7. op' \in Ops
  BY <1>3, <1>5, <1>6 DEF Ops
<1> QED
  BY <1>3, <1>4, <1>7 DEF Turned

LEMMA Advancing ==
  ASSUME op \in Ops, NEW a \in Actors, op[a].k <= NFiles,
         op' = [op EXCEPT ![a].k = @ + 1]
  PROVE  Turned(a, op[a].pc, op[a].k + 1)
BY SnapshotBounds DEF Ops, Turned

LEMMA Touching ==
  ASSUME op \in Ops, NEW a \in Actors, op' = [op EXCEPT ![a].touched = TRUE]
  PROVE  Turned(a, op[a].pc, op[a].k)
BY DEF Ops, Turned

LEMMA Staging ==
  ASSUME op \in Ops, NEW a \in Actors,
         op' = [op EXCEPT ![a].pc = "r-extract", ![a].k = 1, ![a].undo = TRUE]
  PROVE  Turned(a, "r-extract", 1)
<1>1. op[a] \in [pc: Pcs, k: 0 .. NFiles + 1, touched: BOOLEAN, renamed: BOOLEAN, undo: BOOLEAN]
  BY DEF Ops
<1>2. "r-extract" \in Pcs /\ 1 \in 0 .. NFiles + 1
  BY SnapshotBounds DEF Pcs
<1>3. /\ DOMAIN op' = Actors /\ \A b \in Actors : b # a => op'[b] = op[b]
      /\ op'[a] = [op[a] EXCEPT !.pc = "r-extract", !.k = 1, !.undo = TRUE]
  BY DEF Ops
<1>4. op'[a].pc = "r-extract" /\ op'[a].k = 1
  BY <1>1, <1>3
<1>5. op'[a] \in [pc: Pcs, k: 0 .. NFiles + 1, touched: BOOLEAN, renamed: BOOLEAN, undo: BOOLEAN]
  BY <1>1, <1>2, <1>3
<1>6. op' = [b \in Actors |-> op'[b]]
  BY DEF Ops
<1>7. op' \in Ops
  BY <1>3, <1>5, <1>6 DEF Ops
<1> QED
  BY <1>3, <1>4, <1>7 DEF Turned

LEMMA Renaming ==
  ASSUME op \in Ops, NEW a \in Actors,
         op' = [op EXCEPT ![a].pc = "r-moved", ![a].renamed = TRUE]
  PROVE  Turned(a, "r-moved", op[a].k)
<1>1. op[a] \in [pc: Pcs, k: 0 .. NFiles + 1, touched: BOOLEAN, renamed: BOOLEAN, undo: BOOLEAN]
  BY DEF Ops
<1>2. /\ DOMAIN op' = Actors /\ \A b \in Actors : b # a => op'[b] = op[b]
      /\ op'[a] = [op[a] EXCEPT !.pc = "r-moved", !.renamed = TRUE]
  BY DEF Ops
<1>3. op'[a].pc = "r-moved" /\ op'[a].k = op[a].k
  BY <1>1, <1>2
<1>4. op'[a] \in [pc: Pcs, k: 0 .. NFiles + 1, touched: BOOLEAN, renamed: BOOLEAN, undo: BOOLEAN]
  BY <1>1, <1>2 DEF Pcs
<1>5. op' = [b \in Actors |-> op'[b]]
  BY DEF Ops
<1>6. op' \in Ops
  BY <1>2, <1>4, <1>5 DEF Ops
<1> QED
  BY <1>2, <1>3, <1>6 DEF Turned

LEMMA Ending ==
  ASSUME op \in Ops, NEW a \in Actors, op' = [op EXCEPT ![a] = Idle]
  PROVE  Turned(a, "none", 0)
BY SnapshotBounds DEF Ops, Turned, Pcs, Idle

LEMMA Calling ==
  ASSUME op \in Ops, NEW a \in Actors, NEW pc \in Pcs, Call(a, pc)
  PROVE  Turned(a, pc, 0)
<1>1. 1 \in 0 .. NFiles + 1 /\ 0 \in 0 .. NFiles + 1
  BY SnapshotBounds
<1>2. TRUE \in BOOLEAN /\ FALSE \in BOOLEAN
  BY Zenon
<1> QED
  BY <1>1, <1>2 DEF Ops, Turned, Pcs, Idle, Call

\* What the steps with several outcomes do.
LEMMA CreateOpenTurns ==
  ASSUME op \in Ops, NEW a \in Actors, CreateOpen(a)
  PROVE  \/ Snap \intersect {"archive", "receipt"} # {} /\ Turned(a, "failed", op[a].k)
         \/ Snap \intersect {"archive", "receipt"} = {} /\ Turned(a, "c-read", 1)
BY Turning, Opening DEF CreateOpen, Pcs

LEMMA ReadFileTurns ==
  ASSUME op \in Ops, NEW a \in Actors, ReadFile(a)
  PROVE  \/ op[a].touched /\ Turned(a, "c-unlink", op[a].k)
         \/ ~op[a].touched /\ Turned(a, "c-read", op[a].k + 1)
BY Turning, Advancing DEF ReadFile, Pcs, At

LEMMA RestoreCheckTurns ==
  ASSUME op \in Ops, NEW a \in Actors, RestoreCheck(a)
  PROVE  \/ Turned(a, "failed", op[a].k) /\ UNCHANGED home
         \/ Turned(a, "ok", op[a].k) /\ SyncHome
         \/ Turned(a, "r-move", op[a].k) /\ Staged /\ UNCHANGED home
         \/ Turned(a, "r-clear", op[a].k) /\ Present("staging") /\ ~Activated /\ UNCHANGED home
         \/ /\ Turned(a, "r-mkdir", op[a].k) /\ ~Activated /\ ~Present("staging")
            /\ UNCHANGED home
<1>1. CASE ~Authentic
  BY <1>1, Turning DEF RestoreCheck, Pcs
<1>2. CASE Authentic /\ Activated
  BY <1>2, Turning DEF RestoreCheck, Pcs, Staged, Activated
<1>3. CASE Authentic /\ ~Activated /\ Staged
  BY <1>3, Turning DEF RestoreCheck, Pcs, Staged
<1>4. CASE Authentic /\ ~Activated /\ ~Staged /\ Present("staging")
  BY <1>4, Turning DEF RestoreCheck, Pcs
<1>5. CASE Authentic /\ ~Activated /\ ~Staged /\ ~Present("staging")
  BY <1>5, Turning DEF RestoreCheck, Pcs
<1> QED
  BY <1>1, <1>2, <1>3, <1>4, <1>5

LEMMA MoveCurrentTurns ==
  ASSUME op \in Ops, NEW a \in Actors, MoveCurrent(a)
  PROVE  \/ Turned(a, "r-undo", op[a].k) /\ UNCHANGED home
         \/ /\ Turned(a, "r-moved", op[a].k) /\ Replaceable /\ Staged /\ Present("current")
            /\ Place([Home EXCEPT !.rescue = Home.current, !.current = "none"])
         \/ /\ Turned(a, "r-swap", op[a].k) /\ Replaceable /\ Staged /\ ~Present("current")
            /\ UNCHANGED home
BY Turning, Renaming DEF MoveCurrent, Pcs

\* The renames of the trees.
LEMMA Renamed ==
  ASSUME NEW p \in Places, NEW q,
         \/ q = [p EXCEPT !.staging = "none"]
         \/ q = [p EXCEPT !.staging = "copy"]
         \/ q = [p EXCEPT !.rescue = p.current, !.current = "none"]
         \/ q = [p EXCEPT !.current = p.staging, !.staging = "none"]
         \/ q = [p EXCEPT !.current = p.rescue, !.rescue = "none"]
  PROVE  /\ q \in Places
         /\ \/ /\ q = [p EXCEPT !.staging = "none"]
               /\ q.staging = "none" /\ q.current = p.current /\ q.rescue = p.rescue
            \/ /\ q = [p EXCEPT !.staging = "copy"]
               /\ q.staging = "copy" /\ q.current = p.current /\ q.rescue = p.rescue
            \/ /\ q = [p EXCEPT !.rescue = p.current, !.current = "none"]
               /\ q.rescue = p.current /\ q.current = "none" /\ q.staging = p.staging
            \/ /\ q = [p EXCEPT !.current = p.staging, !.staging = "none"]
               /\ q.current = p.staging /\ q.staging = "none" /\ q.rescue = p.rescue
            \/ /\ q = [p EXCEPT !.current = p.rescue, !.rescue = "none"]
               /\ q.current = p.rescue /\ q.rescue = "none" /\ q.staging = p.staging
BY DEF Places, Trees

-----------------------------------------------------------------------------
(* The steps of the operations. *)

LEMMA Staying ==
  ASSUME op \in Ops, op' = op, NEW a \in Actors
  PROVE  Turned(a, op[a].pc, op[a].k)
BY DEF Turned

\* A helper that goes on with its command changes nothing of the processes.
LEMMA Proceeding ==
  ASSUME StoreInv, NEW a \in Actors, NEW pc \in Pcs, NEW k, Turned(a, pc, k),
         op[a].pc # "none", pc # "none", UNCHANGED <<lockVars, record, last>>,
         faults' \in 0 .. MaxFaults,
         op[a].pc \in Creating => pc \in Creating,
         op[a].pc \in Restoring \union Marking => pc \in Restoring \union Marking,
         op[a].pc \in Pruning => pc \in Pruning
  PROVE  LockTypeOK' /\ ProcOK' /\ Attended' /\ Permitted'
<1>1. LockTypeOK' /\ helper[a] = "running"
  BY DEF StoreInv, STypeOK, LockTypeOK, ProcOK, lockVars
<1>2. Attended'
  BY <1>1 DEF StoreInv, Attended, Turned, lockVars
<1>3. ProcOK'
  BY <1>1, <1>2 DEF StoreInv, STypeOK, ProcOK, Turned, lockVars
<1>4. Permitted'
  BY DEF StoreInv, Permitted, Turned
<1> QED
  BY <1>1, <1>2, <1>3, <1>4

\* A step of archive-create: the trees are as they were before the mutation.
LEMMA Creation ==
  ASSUME StoreInv, NEW a \in Actors, NEW pc \in Creating, NEW k, Turned(a, pc, k),
         op[a].pc \in Creating \ {"ok", "failed"},
         UNCHANGED <<lockVars, record, last, home, copy, synced>>,
         live' \in [Files -> Versions], faults' \in 0 .. MaxFaults
  PROVE  /\ LockTypeOK' /\ TreesOK' /\ ProcOK' /\ Attended' /\ Permitted' /\ Activating'
         /\ a = "update" /\ record = "pending" /\ last["update"] = "none"
<1>1. a = "update" /\ record = "pending"
  BY DEF StoreInv, Permitted, Creating, Restoring, Marking, Pruning
<1>2. last["update"] = "none"
  BY <1>1, ActorsAreScripts DEF StoreInv, STypeOK, ProcOK, Archiving, Creating
<1>3. LockTypeOK' /\ ProcOK' /\ Attended' /\ Permitted'
  <2>1. pc \in Pcs /\ pc # "none" /\ op[a].pc # "none"
    BY DEF Creating, Pcs
  <2>2. op[a].pc \notin Restoring \union Marking /\ op[a].pc \notin Pruning
    BY DEF Creating, Restoring, Marking, Pruning
  <2> QED
    BY <2>1, <2>2, Proceeding
<1>4. TreesOK'
  BY DEF StoreInv, STypeOK, TreesOK
<1>5. Activating'
  BY <1>1 DEF StoreInv, Activating, Placed, Untouched, Home, Last
<1> QED
  BY <1>1, <1>2, <1>3, <1>4, <1>5

\* A step of archive-restore: the snapshot stays as it is.
LEMMA Restoration ==
  ASSUME StoreInv, NEW a \in Actors, NEW pc \in Restoring, NEW k, Turned(a, pc, k),
         op[a].pc \in Restoring \ {"ok", "failed"},
         UNCHANGED <<lockVars, record, last, storeVars>>, faults' \in 0 .. MaxFaults
  PROVE  /\ LockTypeOK' /\ StoreOK' /\ ProcOK' /\ Attended' /\ Permitted' /\ Archiving'
         /\ a = "update" /\ record = "mutated"
<1>1. a = "update" /\ record = "mutated"
  BY DEF StoreInv, Permitted, Creating, Restoring, Marking, Pruning
<1>2. LockTypeOK' /\ ProcOK' /\ Attended' /\ Permitted'
  <2>1. pc \in Pcs /\ pc # "none" /\ op[a].pc # "none"
    BY DEF Restoring, Pcs
  <2>2. op[a].pc \notin Creating /\ op[a].pc \notin Pruning
    BY DEF Creating, Restoring, Pruning
  <2> QED
    BY <2>1, <2>2, Proceeding
<1>3. StoreOK'
  BY DEF StoreInv, STypeOK, StoreOK, storeVars
<1>4. Archiving'
  BY <1>1 DEF StoreInv, Archiving, Durable, Read, storeVars
<1> QED
  BY <1>1, <1>2, <1>3, <1>4

\* A step of snapshot-complete or of snapshot-prune: the trees stay.
LEMMA Retaining ==
  ASSUME StoreInv, NEW a \in Actors, NEW pc \in Marking \union Pruning, NEW k,
         Turned(a, pc, k), op[a].pc \in (Marking \union Pruning) \ {"ok", "failed"},
         op[a].pc \in Marking => pc \in Marking, op[a].pc \in Pruning => pc \in Pruning,
         UNCHANGED <<lockVars, record, last, treeVars, tar, inv, aged>>,
         faults' \in 0 .. MaxFaults,
         snap' \in Seq(SUBSET (Names \union {"dir"})), snap' # <<>>,
         op[a].pc \in Marking =>
           \A i \in DOMAIN snap' : \E j \in DOMAIN snap : snap[j] \subseteq snap'[i]
  PROVE  StoreInv'
<1>1. op[a].pc \in Marking => a = "update" /\ record = "mutated"
  BY DEF StoreInv, Permitted, Creating, Restoring, Marking, Pruning
<1>2. op[a].pc \in Pruning => a = "retention" /\ record = "absent"
  BY DEF StoreInv, Permitted, Creating, Restoring, Marking, Pruning
<1>3. LockTypeOK' /\ ProcOK' /\ Attended' /\ Permitted'
  <2>1. pc \in Pcs /\ pc # "none" /\ op[a].pc # "none"
    BY DEF Marking, Pruning, Pcs
  <2>2. op[a].pc \notin Creating
    BY DEF Creating, Marking, Pruning
  <2>3. op[a].pc \in Restoring => op[a].pc \in Marking /\ FALSE
    BY DEF Restoring, Marking, Pruning
  <2> QED
    BY <2>1, <2>2, <2>3, Proceeding
<1>4. StoreOK' /\ TreesOK'
  BY DEF StoreInv, STypeOK, StoreOK, TreesOK, treeVars
<1>5. Archiving'
  BY <1>1, <1>2 DEF StoreInv, Archiving, Durable, Read
<1>6. Activating'
  <2>1. Home' = Home
    BY Unmoved DEF treeVars
  <2>2. record = "mutated" => op'["update"].pc \in Marking
    BY <1>1, <1>2 DEF Turned
  <2> QED
    BY <2>1, <2>2 DEF StoreInv, Activating, Placed, Reached, Marking, treeVars
<1> QED
  BY <1>3, <1>4, <1>5, <1>6 DEF StoreInv, STypeOK

\* A step of archive-restore leaves the names as q, and the copy alone while
\* it is in the place of DATA_DIR.
LEMMA Rearranging ==
  ASSUME StoreInv, record = "mutated", NEW pc, NEW k, "update" \in Actors,
         Turned("update", pc, k), UNCHANGED <<record, inv>>,
         NEW q \in Places, home' \in Seq(Places), home' # <<>>, Home' = q,
         \A i \in DOMAIN home' : home'[i] = q \/ \E j \in DOMAIN home : home'[i] = home[j],
         q.current = "copy" \/ Home.current # "copy",
         Placed(q)', Reached(pc, q)', UNCHANGED copy \/ Home.current # "copy",
         live' \in [Files -> Versions], synced' \in BOOLEAN,
         copy' \in [Files -> Versions \union {"none", "torn", "unread", "mixed"}]
  PROVE  TreesOK' /\ Activating'
<1>1. TreesOK'
  BY DEF TreesOK
<1>2. \A i \in DOMAIN home' : Placed(home[i])'
  <2> TAKE i \in DOMAIN home'
  <2>1. CASE home'[i] = q
    BY <2>1 DEF Placed
  <2>2. ASSUME NEW j \in DOMAIN home, home'[i] = home[j]
        PROVE  Placed(home[i])'
    BY <2>2 DEF StoreInv, Activating, Placed
  <2> QED
    BY <2>1, <2>2
<1>3. (\E i \in DOMAIN home' : home'[i].current = "copy") => (Home').current = "copy"
  BY DEF StoreInv, Activating
<1>4. Reached(op["update"].pc, Home)'
  BY DEF Turned, Reached
<1> QED
  BY <1>1, <1>2, <1>3, <1>4 DEF Activating

\* The same for a step that moves no tree.
LEMMA Standing ==
  ASSUME StoreInv, record = "mutated", NEW pc, NEW k, "update" \in Actors,
         Turned("update", pc, k), UNCHANGED <<record, inv, home, live, copy>>,
         synced' \in BOOLEAN, Reached(pc, Home)
  PROVE  TreesOK' /\ Activating'
<1>1. TreesOK'
  BY DEF StoreInv, STypeOK, TreesOK
<1>2. Home' = Home
  BY Unmoved
<1> QED
  BY <1>1, <1>2 DEF StoreInv, Activating, Turned, Reached, Placed

LEMMA RestoreStands ==
  ASSUME StoreInv, NEW a \in Actors, NEW pc \in Restoring, NEW k, Turned(a, pc, k),
         op[a].pc \in Restoring \ {"ok", "failed"},
         UNCHANGED <<lockVars, record, last, storeVars, home, live, copy>>,
         synced' \in BOOLEAN, faults' \in 0 .. MaxFaults, Reached(pc, Home)
  PROVE  StoreInv'
<1>1. /\ LockTypeOK' /\ StoreOK' /\ ProcOK' /\ Attended' /\ Permitted' /\ Archiving'
      /\ a = "update" /\ record = "mutated"
  BY Restoration
<1>2. TreesOK' /\ Activating'
  BY <1>1, Standing DEF storeVars
<1> QED
  BY <1>1, <1>2 DEF StoreInv, STypeOK

LEMMA RestoreMoves ==
  ASSUME StoreInv, NEW a \in Actors, NEW pc \in Restoring, NEW k, Turned(a, pc, k),
         op[a].pc \in Restoring \ {"ok", "failed"},
         UNCHANGED <<lockVars, record, last, storeVars, live>>,
         faults' \in 0 .. MaxFaults, synced' \in BOOLEAN,
         NEW q \in Places, home' \in Seq(Places), home' # <<>>, Home' = q,
         \A i \in DOMAIN home' : home'[i] = q \/ \E j \in DOMAIN home : home'[i] = home[j],
         q.current = "copy" \/ Home.current # "copy",
         Placed(q)', Reached(pc, q)', UNCHANGED copy \/ Home.current # "copy",
         copy' \in [Files -> Versions \union {"none", "torn", "unread", "mixed"}]
  PROVE  StoreInv'
<1>1. /\ LockTypeOK' /\ StoreOK' /\ ProcOK' /\ Attended' /\ Permitted' /\ Archiving'
      /\ a = "update" /\ record = "mutated"
  BY Restoration
<1>2. live' \in [Files -> Versions]
  BY DEF StoreInv, STypeOK, TreesOK
<1>3. TreesOK' /\ Activating'
  BY <1>1, <1>2, Rearranging DEF storeVars
<1> QED
  BY <1>1, <1>3 DEF StoreInv, STypeOK

LEMMA Current ==
  ASSUME StoreInv
  PROVE  /\ Home \in Places /\ Placed(Home)
         /\ record = "mutated" => Reached(op["update"].pc, Home)
         /\ op \in Ops /\ copy \in [Files -> Versions \union {"none", "torn", "unread", "mixed"}]
         /\ faults \in 0 .. MaxFaults /\ synced \in BOOLEAN
BY Latest DEF StoreInv, STypeOK, TreesOK, ProcOK, Activating

LEMMA RestoringIs ==
  ASSUME StoreInv, NEW a \in Actors, op[a].pc \in Restoring \ {"ok", "failed"}
  PROVE  a = "update" /\ record = "mutated" /\ Reached(op[a].pc, Home)
<1>1. a = "update" /\ record = "mutated"
  BY DEF StoreInv, Permitted, Creating, Restoring, Marking, Pruning
<1> QED
  BY <1>1, Current

\* The directory that holds DATA_DIR is synced.
LEMMA HomeSyncs ==
  ASSUME StoreInv, NEW a \in Actors, NEW pc \in {"ok", "r-swap"}, Turned(a, pc, op[a].k),
         op[a].pc \in Restoring \ {"ok", "failed"}, pc = "r-swap" => op[a].pc = "r-moved",
         SyncHome, UNCHANGED <<lockVars, record, last, storeVars, live, copy, synced, faults>>
  PROVE  StoreInv'
<1>1. Home \in Places /\ Placed(Home) /\ (pc = "r-swap" => Reached("r-moved", Home))
  BY Current, RestoringIs
<1>2. /\ home' \in Seq(Places) /\ home' # <<>> /\ Home' = Home
      /\ \A i \in DOMAIN home' : home'[i] = Home
  BY <1>1, SyncingHome DEF SyncHome
<1>3. Placed(Home)' /\ Reached(pc, Home)'
  BY <1>1, <1>2 DEF Placed, Reached, storeVars
<1> QED
  BY <1>1, <1>2, <1>3, RestoreMoves, Current DEF Restoring

LEMMA RestoreCheckKeeps ==
  ASSUME StoreInv, NEW a \in Actors, RestoreCheck(a)
  PROVE  StoreInv'
<1>1. /\ op[a].pc = "r-check"
      /\ UNCHANGED <<lockVars, record, last, faults, storeVars, live, copy, synced>>
  BY DEF RestoreCheck, At, Quiet
<1>2. op \in Ops /\ Home \in Places /\ Placed(Home) /\ faults \in 0 .. MaxFaults
      /\ synced \in BOOLEAN
  BY Current
<1>3. CASE Turned(a, "ok", op[a].k) /\ SyncHome
  BY <1>1, <1>3, HomeSyncs DEF Restoring
<1>4. ASSUME NEW pc \in Restoring, Turned(a, pc, op[a].k), UNCHANGED home, Reached(pc, Home)
      PROVE  StoreInv'
  BY <1>1, <1>2, <1>4, RestoreStands DEF Restoring
<1>5. Staged => Reached("r-move", Home)
  BY <1>2 DEF Staged, Present, Reached, Placed, Places, Trees
<1>6. Present("staging") => Reached("r-clear", Home)
  BY <1>2 DEF Present, Reached, Placed, Places, Trees
<1>7. ~Activated /\ ~Present("staging") => Reached("r-mkdir", Home)
  BY <1>2 DEF Activated, Present, Reached, Placed
<1>8. Reached("failed", Home)
  BY DEF Reached
<1>9. {"failed", "r-move", "r-clear", "r-mkdir"} \subseteq Restoring
  BY DEF Restoring
<1> QED
  BY <1>2, <1>3, <1>4, <1>5, <1>6, <1>7, <1>8, <1>9, RestoreCheckTurns

LEMMA ClearStagingKeeps ==
  ASSUME StoreInv, NEW a \in Actors, ClearStaging(a)
  PROVE  StoreInv'
<1>1. /\ Home \in Places /\ Placed(Home) /\ op \in Ops /\ faults \in 0 .. MaxFaults
      /\ synced \in BOOLEAN
      /\ copy \in [Files -> Versions \union {"none", "torn", "unread", "mixed"}]
  BY Current
<1>2. PICK pc \in {"r-mkdir", "failed"} :
        To(a, pc) /\ pc = IF op[a].pc = "r-clear" THEN "r-mkdir" ELSE "failed"
  BY DEF ClearStaging
<1>3. PICK q \in Places : q = [Home EXCEPT !.staging = "none"]
  BY <1>1, Renamed
<1>4. /\ op[a].pc \in {"r-clear", "r-undo"}
      /\ UNCHANGED <<lockVars, record, last, faults, storeVars, live, copy, synced>>
      /\ IF Present("staging") THEN home' = <<q>> ELSE UNCHANGED home
  BY <1>3 DEF ClearStaging, Clearing, At, Quiet
<1>5. /\ Turned(a, pc, op[a].k) /\ pc \in Restoring
      /\ op[a].pc \in Restoring \ {"ok", "failed"}
  BY <1>1, <1>2, <1>4, Turning DEF Pcs, Restoring
<1>6. Reached(op[a].pc, Home)
  BY <1>5, RestoringIs
<1>7. CASE ~Present("staging")
  <2>1. Reached(pc, Home)
    BY <1>2, <1>6, <1>7 DEF Reached, Present
  <2> QED
    BY <1>1, <1>4, <1>5, <1>7, <2>1, RestoreStands
<1>8. CASE Present("staging")
  <2>1. q.staging = "none" /\ q.current = Home.current /\ q.rescue = Home.rescue
    BY <1>1, <1>3 DEF Places
  <2>2. Home.current # "copy"
    BY <1>1, <1>8 DEF Placed, Present
  <2>3. /\ home' \in Seq(Places) /\ home' # <<>> /\ Home' = q
        /\ \A i \in DOMAIN home' : home'[i] = q
    BY <1>4, <1>8, SyncingHome
  <2>4. Placed(q)' /\ Reached(pc, q)'
    BY <1>1, <1>2, <2>1, <2>2 DEF Placed, Reached
  <2> QED
    BY <1>1, <1>4, <1>5, <2>2, <2>3, <2>4, RestoreMoves
<1> QED
  BY <1>7, <1>8

LEMMA MakeStagingKeeps ==
  ASSUME StoreInv, NEW a \in Actors, MakeStaging(a)
  PROVE  StoreInv'
<1>1. /\ Home \in Places /\ Placed(Home) /\ op \in Ops /\ faults \in 0 .. MaxFaults
      /\ TreesOK
  BY Current DEF StoreInv, STypeOK
<1>2. PICK q \in Places : q = [Home EXCEPT !.staging = "copy"]
  BY <1>1, Renamed
<1>3. /\ op[a].pc = "r-mkdir" /\ Place(q) /\ copy' = [f \in Files |-> "none"]
      /\ synced' = FALSE /\ UNCHANGED <<lockVars, record, last, faults, storeVars, live>>
  BY <1>2 DEF MakeStaging, At, Quiet
<1>4. /\ Turned(a, "r-extract", 1) /\ "r-extract" \in Restoring
      /\ op[a].pc \in Restoring \ {"ok", "failed"} /\ Reached("r-mkdir", Home)
  BY <1>1, <1>3, Staging, RestoringIs DEF MakeStaging, Restoring
<1>5. q.staging = "copy" /\ q.current = Home.current /\ q.rescue = Home.rescue
  BY <1>1, <1>2 DEF Places
<1>6. /\ home' \in Seq(Places) /\ home' # <<>> /\ Home' = q
      /\ \A i \in DOMAIN home' : home'[i] = q \/ \E j \in DOMAIN home : home'[i] = home[j]
  BY <1>1, <1>3, Placing
<1>7. Placed(q)' /\ Reached("r-extract", q)' /\ Home.current # "copy"
  BY <1>1, <1>4, <1>5 DEF Placed, Reached
<1>8. copy' \in [Files -> Versions \union {"none", "torn", "unread", "mixed"}]
  BY <1>3
<1> QED
  BY <1>1, <1>3, <1>4, <1>6, <1>7, <1>8, RestoreMoves

\* The copy changes while it is staged.
LEMMA CopyChanges ==
  ASSUME StoreInv, NEW a \in Actors, NEW pc \in {"r-clear", "r-undo", "r-extract"}, NEW k,
         op[a].pc = pc, Turned(a, pc, k), Home.staging # "none",
         UNCHANGED <<lockVars, record, last, storeVars, home, live, synced>>,
         faults' \in 0 .. MaxFaults,
         copy' \in [Files -> Versions \union {"none", "torn", "unread", "mixed"}]
  PROVE  StoreInv'
<1>1. /\ Home \in Places /\ Placed(Home) /\ synced \in BOOLEAN
      /\ pc \in Restoring \ {"ok", "failed"}
  BY Current DEF Restoring
<1>2. PICK q \in Places : q = Home
  BY <1>1
<1>3. Reached(pc, q) /\ Home' = q
  BY <1>1, <1>2, RestoringIs, Unmoved
<1>4. Placed(q)' /\ Reached(pc, q)' /\ Home.current # "copy"
  BY <1>1, <1>2, <1>3 DEF Placed, Reached
<1>5. home' \in Seq(Places) /\ home' # <<>>
  BY DEF StoreInv, STypeOK, TreesOK
<1>6. \A i \in DOMAIN home' : \E j \in DOMAIN home : home'[i] = home[j]
  OBVIOUS
<1> QED
  BY <1>1, <1>3, <1>4, <1>5, <1>6, RestoreMoves

LEMMA ClearFileKeeps ==
  ASSUME StoreInv, NEW a \in Actors, ClearFile(a)
  PROVE  StoreInv'
<1>1. /\ op[a].pc \in {"r-clear", "r-undo"} /\ Home.staging # "none" /\ UNCHANGED op
      /\ UNCHANGED <<lockVars, record, last, faults, storeVars, home, live, synced>>
  BY DEF ClearFile, Clearing, At, Present, Quiet
<1>2. op \in Ops /\ copy \in [Files -> Versions \union {"none", "torn", "unread", "mixed"}]
      /\ faults \in 0 .. MaxFaults
  BY Current
<1>3. copy' \in [Files -> Versions \union {"none", "torn", "unread", "mixed"}]
  BY <1>2 DEF ClearFile
<1> QED
  BY <1>1, <1>2, <1>3, Staying, CopyChanges

LEMMA ExtractFileKeeps ==
  ASSUME StoreInv, NEW a \in Actors, ExtractFile(a)
  PROVE  StoreInv'
<1>1. /\ op[a].pc = "r-extract" /\ op[a].k <= NFiles /\ op' = [op EXCEPT ![a].k = @ + 1]
      /\ UNCHANGED <<lockVars, record, last, storeVars, home, live, synced>>
  BY DEF ExtractFile, At
<1>2. /\ op \in Ops /\ faults \in 0 .. MaxFaults /\ StoreOK
      /\ copy \in [Files -> Versions \union {"none", "torn", "unread", "mixed"}]
  BY Current DEF StoreInv, STypeOK
<1>3. Reached("r-extract", Home) /\ Turned(a, "r-extract", op[a].k + 1)
  BY <1>1, <1>2, RestoringIs, Advancing DEF Restoring
<1>4. faults' \in 0 .. MaxFaults
  BY <1>2, SnapshotBounds DEF ExtractFile, Fault
<1>5. copy' \in [Files -> Versions \union {"none", "torn", "unread", "mixed"}]
  <2>1. \A f \in Files : inv[f] \in Versions \union {"unread", "mixed"}
    BY <1>2 DEF StoreOK
  <2>2. \/ copy' = [copy EXCEPT ![op[a].k] = inv[op[a].k]]
        \/ copy' = [copy EXCEPT ![op[a].k] = "torn"]
    BY DEF ExtractFile
  <2> QED
    BY <1>2, <2>1, <2>2
<1> QED
  BY <1>1, <1>3, <1>4, <1>5, CopyChanges DEF Reached

\* The steps that move no tree and change no copy.
LEMMA RestoreGoesOn ==
  ASSUME StoreInv, NEW a \in Actors, SyncCopy(a) \/ VerifyCopy(a) \/ NothingToUndo(a)
  PROVE  StoreInv'
<1>1. /\ op \in Ops /\ faults \in 0 .. MaxFaults /\ synced \in BOOLEAN
      /\ Home \in Places /\ Placed(Home)
  BY Current
<1>2. PICK pc \in {"r-verify", "r-move", "r-undo", "failed"} :
        /\ To(a, pc)
        /\ pc = "r-verify" => op[a].pc = "r-extract"
        /\ pc = "r-move" => op[a].pc = "r-verify" /\ copy = inv
  BY DEF SyncCopy, VerifyCopy, NothingToUndo, At
<1>3. /\ op[a].pc \in Restoring \ {"ok", "failed"} /\ synced' \in BOOLEAN
      /\ UNCHANGED <<lockVars, record, last, faults, storeVars, home, live, copy>>
  BY <1>1 DEF SyncCopy, VerifyCopy, NothingToUndo, At, Quiet, Restoring, treeVars
<1>4. Turned(a, pc, op[a].k) /\ pc \in Restoring
  BY <1>1, <1>2, Turning DEF Pcs, Restoring
<1>5. Reached(pc, Home)
  BY <1>2, <1>3, RestoringIs DEF Reached
<1> QED
  BY <1>1, <1>3, <1>4, <1>5, RestoreStands

LEMMA RestoreFails ==
  ASSUME StoreInv, NEW a \in Actors, RestoreErrs(a)
  PROVE  StoreInv'
<1>1. op \in Ops /\ faults \in 0 .. MaxFaults /\ synced \in BOOLEAN
  BY Current
<1>2. PICK pc \in {"r-undo", "failed"} : To(a, pc)
  BY DEF RestoreErrs, Errs
<1>3. /\ op[a].pc \in Restoring \ {"ok", "failed"} /\ faults' = faults + 1
      /\ UNCHANGED <<lockVars, record, last, storeVars, treeVars>> /\ faults < MaxFaults
  BY DEF RestoreErrs, Errs, At, Fault, Restoring
<1>4. Turned(a, pc, op[a].k) /\ pc \in Restoring
  BY <1>1, <1>2, Turning DEF Pcs, Restoring
<1>5. Reached(pc, Home) /\ faults' \in 0 .. MaxFaults
  BY <1>1, <1>3, SnapshotBounds DEF Reached
<1> QED
  BY <1>1, <1>3, <1>4, <1>5, RestoreStands DEF treeVars

\* DATA_DIR is moved aside once the copy is verified, and a copy that was
\* staged by an earlier call is taken up again.
LEMMA MoveCurrentKeeps ==
  ASSUME StoreInv, NEW a \in Actors, MoveCurrent(a)
  PROVE  StoreInv'
<1>1. /\ op \in Ops /\ faults \in 0 .. MaxFaults /\ synced \in BOOLEAN /\ TreesOK
      /\ Home \in Places /\ Placed(Home)
      /\ copy \in [Files -> Versions \union {"none", "torn", "unread", "mixed"}]
  BY Current DEF StoreInv, STypeOK
<1>2. /\ op[a].pc = "r-move" /\ op[a].pc \in Restoring \ {"ok", "failed"}
      /\ UNCHANGED <<lockVars, record, last, faults, storeVars, live, copy, synced>>
  BY DEF MoveCurrent, At, Quiet, Restoring
<1>3. Reached("r-move", Home)
  BY <1>2, RestoringIs
<1>4. CASE Turned(a, "r-undo", op[a].k) /\ UNCHANGED home
  BY <1>1, <1>2, <1>4, RestoreStands DEF Reached, Restoring
<1>5. CASE Turned(a, "r-swap", op[a].k) /\ ~Present("current") /\ UNCHANGED home
  BY <1>1, <1>2, <1>3, <1>5, RestoreStands DEF Reached, Restoring, Present
<1>6. CASE /\ Turned(a, "r-moved", op[a].k) /\ Present("current")
           /\ Place([Home EXCEPT !.rescue = Home.current, !.current = "none"])
  <2>1. PICK q \in Places : q = [Home EXCEPT !.rescue = Home.current, !.current = "none"]
    BY <1>1, Renamed
  <2>2. q.rescue = Home.current /\ q.current = "none" /\ q.staging = Home.staging
    BY <1>1, <2>1 DEF Places
  <2>3. Home.current = "live"
    BY <1>1, <1>3, <1>6 DEF Placed, Reached, Present
  <2>4. /\ home' \in Seq(Places) /\ home' # <<>> /\ Home' = q
        /\ \A i \in DOMAIN home' : home'[i] = q \/ \E j \in DOMAIN home : home'[i] = home[j]
    BY <1>1, <1>6, <2>1, Placing
  <2>5. Placed(q)' /\ Reached("r-moved", q)'
    BY <1>1, <1>2, <1>3, <2>2, <2>3 DEF Placed, Reached, storeVars
  <2> QED
    BY <1>1, <1>2, <1>6, <2>3, <2>4, <2>5, RestoreMoves DEF Restoring
<1> QED
  BY <1>1, <1>4, <1>5, <1>6, MoveCurrentTurns

LEMMA RestoreSyncs ==
  ASSUME StoreInv, NEW a \in Actors, SyncMoved(a) \/ SyncSwapped(a)
  PROVE  StoreInv'
<1>1. PICK pc \in {"ok", "r-swap"} : To(a, pc) /\ (pc = "r-swap" => op[a].pc = "r-moved")
  BY DEF SyncMoved, SyncSwapped, At
<1>2. /\ op[a].pc \in Restoring \ {"ok", "failed"} /\ SyncHome
      /\ UNCHANGED <<lockVars, record, last, storeVars, live, copy, synced, faults>>
  BY DEF SyncMoved, SyncSwapped, At, Quiet, Restoring
<1> QED
  BY <1>1, <1>2, Current, Turning, HomeSyncs DEF Pcs

\* The staged copy, which is whole, becomes DATA_DIR.
LEMMA SwapInKeeps ==
  ASSUME StoreInv, NEW a \in Actors, SwapIn(a)
  PROVE  StoreInv'
<1>1. /\ op \in Ops /\ faults \in 0 .. MaxFaults /\ synced \in BOOLEAN /\ TreesOK
      /\ Home \in Places /\ Placed(Home)
      /\ copy \in [Files -> Versions \union {"none", "torn", "unread", "mixed"}]
  BY Current DEF StoreInv, STypeOK
<1>2. PICK q \in Places : q = [Home EXCEPT !.current = Home.staging, !.staging = "none"]
  BY <1>1, Renamed
<1>3. /\ op[a].pc = "r-swap" /\ op[a].pc \in Restoring \ {"ok", "failed"} /\ Place(q)
      /\ UNCHANGED <<lockVars, record, last, faults, storeVars, live, copy, synced>>
      /\ To(a, "r-swapped")
  BY <1>2 DEF SwapIn, At, Quiet, Restoring
<1>4. Turned(a, "r-swapped", op[a].k) /\ "r-swapped" \in Restoring /\ Reached("r-swap", Home)
  BY <1>1, <1>3, Turning, RestoringIs DEF Pcs, Restoring
<1>5. q.current = Home.staging /\ q.staging = "none" /\ q.rescue = Home.rescue
  BY <1>1, <1>2 DEF Places
<1>6. /\ home' \in Seq(Places) /\ home' # <<>> /\ Home' = q
      /\ \A i \in DOMAIN home' : home'[i] = q \/ \E j \in DOMAIN home : home'[i] = home[j]
  BY <1>1, <1>3, Placing
<1>7. Placed(q)' /\ Reached("r-swapped", q)' /\ q.current = "copy"
  BY <1>1, <1>3, <1>4, <1>5 DEF Placed, Reached, storeVars
<1> QED
  BY <1>1, <1>3, <1>4, <1>6, <1>7, RestoreMoves

\* The second rename fails and the first is taken back.
LEMMA SwapFailsKeeps ==
  ASSUME StoreInv, NEW a \in Actors, SwapFails(a)
  PROVE  StoreInv'
<1>1. /\ op \in Ops /\ faults \in 0 .. MaxFaults /\ synced \in BOOLEAN
      /\ Home \in Places /\ Placed(Home)
      /\ copy \in [Files -> Versions \union {"none", "torn", "unread", "mixed"}]
  BY Current
<1>2. PICK q \in Places : q = [Home EXCEPT !.current = Home.rescue, !.rescue = "none"]
  BY <1>1, Renamed
<1>3. /\ op[a].pc = "r-swap" /\ op[a].pc \in Restoring \ {"ok", "failed"}
      /\ home' = <<q>> \/ UNCHANGED home
      /\ UNCHANGED <<lockVars, record, last, storeVars, live, copy, synced>>
      /\ To(a, "r-undo") /\ faults < MaxFaults /\ faults' = faults + 1
  BY <1>2 DEF SwapFails, At, Fault, Restoring
<1>4. /\ Turned(a, "r-undo", op[a].k) /\ "r-undo" \in Restoring /\ Reached("r-swap", Home)
      /\ faults' \in 0 .. MaxFaults
  BY <1>1, <1>3, Turning, RestoringIs, SnapshotBounds DEF Pcs, Restoring
<1>5. CASE UNCHANGED home
  BY <1>1, <1>3, <1>4, <1>5, RestoreStands DEF Reached
<1>6. CASE home' = <<q>>
  <2>1. q.current = Home.rescue /\ q.rescue = "none" /\ q.staging = Home.staging
    BY <1>1, <1>2 DEF Places
  <2>2. /\ home' \in Seq(Places) /\ home' # <<>> /\ Home' = q
        /\ \A i \in DOMAIN home' : home'[i] = q
    BY <1>6, SyncingHome
  <2>3. Placed(q)' /\ Reached("r-undo", q)' /\ Home.current # "copy"
    BY <1>1, <1>3, <1>4, <2>1 DEF Placed, Reached, storeVars
  <2> QED
    BY <1>1, <1>3, <1>4, <2>2, <2>3, RestoreMoves
<1> QED
  BY <1>3, <1>5, <1>6

LEMMA Archives ==
  ASSUME StoreInv, NEW a \in Actors, NEW pc \in Creating, NEW k, Turned(a, pc, k),
         op[a].pc \in Creating \ {"ok", "failed"},
         UNCHANGED <<lockVars, record, last, home, copy, synced>>,
         live' \in [Files -> Versions], faults' \in 0 .. MaxFaults,
         StoreOK', \A i \in DOMAIN snap' : "dir" \in snap'[i], Created(pc, k)'
  PROVE  StoreInv'
<1>1. /\ LockTypeOK' /\ TreesOK' /\ ProcOK' /\ Attended' /\ Permitted' /\ Activating'
      /\ a = "update" /\ record = "pending" /\ last["update"] = "none"
  BY Creation
<1>2. Archiving'
  <2>1. Created(op["update"].pc, op["update"].k)'
    BY <1>1 DEF Turned, Created
  <2> QED
    BY <1>1, <2>1 DEF Archiving
<1> QED
  BY <1>1, <1>2 DEF StoreInv, STypeOK

LEMMA CreatingIs ==
  ASSUME StoreInv, NEW a \in Actors, op[a].pc \in Creating \ {"ok", "failed"}
  PROVE  /\ Created(op[a].pc, op[a].k) /\ StoreOK /\ TreesOK /\ op \in Ops
         /\ \A i \in DOMAIN snap : "dir" \in snap[i]
         /\ Snap \in SUBSET (Names \union {"dir"}) /\ "dir" \in Snap
         /\ faults \in 0 .. MaxFaults
<1>1. a = "update" /\ record = "pending"
  BY DEF StoreInv, Permitted, Creating, Restoring, Marking, Pruning
<1> QED
  BY <1>1, Latest DEF StoreInv, STypeOK, ProcOK, Archiving

\* A step that leaves the snapshot and the inventory as they are.
LEMMA CreateStands ==
  ASSUME StoreInv, NEW a \in Actors, NEW pc \in Creating, Turned(a, pc, op[a].k),
         op[a].pc \in Creating \ {"ok", "failed"},
         UNCHANGED <<lockVars, record, last, home, copy, synced, snap, inv, aged>>,
         tar' \in {tar, "written", "synced"}, live' \in [Files -> Versions],
         faults' \in {faults, faults + 1}, faults < MaxFaults \/ UNCHANGED faults,
         pc \in {op[a].pc, "c-sync", "c-receipt", "c-unlink", "failed"},
         pc = op[a].pc => tar' = tar,
         pc = "c-sync" => op[a].pc = "c-read" /\ op[a].k > NFiles,
         pc = "c-receipt" => op[a].pc = "c-sync" /\ tar' = "synced"
  PROVE  StoreInv'
<1>1. /\ Created(op[a].pc, op[a].k) /\ StoreOK /\ op \in Ops
      /\ \A i \in DOMAIN snap : "dir" \in snap[i]
      /\ faults \in 0 .. MaxFaults
  BY CreatingIs
<1>2. faults' \in 0 .. MaxFaults /\ StoreOK'
  BY <1>1, SnapshotBounds DEF StoreOK
<1>3. PICK k \in 0 .. NFiles + 1 : k = op[a].k
  BY <1>1 DEF Ops
<1>4. Created(pc, k)'
  <2>1. CASE pc = op[a].pc
    BY <1>1, <1>3, <2>1, Unmoved DEF Created, Read, Durable
  <2>2. CASE pc = "c-sync"
    <3>1. /\ \A f \in Files : f < k /\ inv[f] \in Versions
          /\ "archive" \in Snap
      BY <1>1, <1>3, <2>2, SnapshotBounds DEF Created, Files
    <3>2. inv \in [Files -> Versions]
      BY <1>1, <3>1 DEF StoreOK
    <3> QED
      BY <2>2, <3>1, <3>2, Unmoved DEF Created, Read
  <2>3. CASE pc = "c-receipt"
    BY <1>1, <2>3, Unmoved DEF Created, Read
  <2>4. CASE pc \in {"c-unlink", "failed"}
    BY <2>4 DEF Created
  <2> QED
    BY <2>1, <2>2, <2>3, <2>4
<1> QED
  BY <1>1, <1>2, <1>3, <1>4, Archives

LEMMA InterfereKeeps ==
  ASSUME StoreInv, NEW a \in Actors, Interfere(a)
  PROVE  StoreInv'
<1>1. /\ op[a].pc = "c-read" /\ op' = [op EXCEPT ![a].touched = TRUE]
      /\ live' = [live EXCEPT ![op[a].k] = "late"] /\ faults < MaxFaults
      /\ faults' = faults + 1
      /\ UNCHANGED <<lockVars, record, last, home, copy, synced, snap, tar, inv, aged>>
  BY DEF Interfere, At, Fault, storeVars
<1>2. op \in Ops /\ TreesOK
  BY <1>1, CreatingIs DEF Creating
<1>3. Turned(a, "c-read", op[a].k) /\ live' \in [Files -> Versions]
  BY <1>1, <1>2, Touching DEF TreesOK, Versions
<1> QED
  BY <1>1, <1>3, CreateStands DEF Creating

LEMMA CloseTarKeeps ==
  ASSUME StoreInv, NEW a \in Actors, CloseTar(a)
  PROVE  StoreInv'
<1>1. /\ op[a].pc = "c-read" /\ op[a].k > NFiles /\ To(a, "c-sync") /\ tar' = "written"
      /\ UNCHANGED <<lockVars, record, last, faults, treeVars, snap, inv, aged>>
  BY DEF CloseTar, At, Quiet
<1>2. op \in Ops /\ TreesOK
  BY <1>1, CreatingIs DEF Creating
<1>3. Turned(a, "c-sync", op[a].k) /\ live' \in [Files -> Versions]
  BY <1>1, <1>2, Turning DEF TreesOK, Pcs, treeVars
<1> QED
  BY <1>1, <1>3, CreateStands DEF Creating, treeVars

LEMMA SyncTarKeeps ==
  ASSUME StoreInv, NEW a \in Actors, SyncTar(a)
  PROVE  StoreInv'
<1>1. /\ op[a].pc = "c-sync" /\ To(a, "c-receipt") /\ tar' = "synced"
      /\ UNCHANGED <<lockVars, record, last, faults, treeVars, snap, inv, aged>>
  BY DEF SyncTar, At, Quiet
<1>2. op \in Ops /\ TreesOK
  BY <1>1, CreatingIs DEF Creating
<1>3. Turned(a, "c-receipt", op[a].k) /\ live' \in [Files -> Versions]
  BY <1>1, <1>2, Turning DEF TreesOK, Pcs, treeVars
<1> QED
  BY <1>1, <1>3, CreateStands DEF Creating, treeVars

LEMMA CreateFails ==
  ASSUME StoreInv, NEW a \in Actors, CreateErrs(a)
  PROVE  StoreInv'
<1>1. PICK pc \in {"c-unlink", "failed"} : To(a, pc)
  BY DEF CreateErrs, Errs
<1>2. /\ op[a].pc \in Creating \ {"ok", "failed"} /\ faults < MaxFaults
      /\ faults' = faults + 1
      /\ UNCHANGED <<lockVars, record, storeVars, treeVars, last>>
  BY DEF CreateErrs, Errs, At, Fault, Creating
<1>3. op \in Ops /\ TreesOK
  BY <1>2, CreatingIs
<1>4. Turned(a, pc, op[a].k) /\ live' \in [Files -> Versions]
  BY <1>1, <1>2, <1>3, Turning DEF TreesOK, Pcs, treeVars
<1>5. UNCHANGED <<home, copy, synced, snap, tar, inv, aged>> /\ pc \in Creating
  BY <1>1, <1>2 DEF treeVars, storeVars, Creating
<1> QED
  BY <1>1, <1>2, <1>4, <1>5, CreateStands

\* The other steps change the snapshot or the inventory.
LEMMA CreateOpenKeeps ==
  ASSUME StoreInv, NEW a \in Actors, CreateOpen(a)
  PROVE  StoreInv'
<1>1. /\ op[a].pc = "c-open" /\ op[a].pc \in Creating \ {"ok", "failed"}
      /\ UNCHANGED <<lockVars, record, last, faults, live, home, copy, synced, aged>>
  BY DEF CreateOpen, At, Quiet, treeVars, Creating
<1>2. /\ StoreOK /\ TreesOK /\ op \in Ops /\ faults \in 0 .. MaxFaults
      /\ \A i \in DOMAIN snap : "dir" \in snap[i]
      /\ Snap \in SUBSET (Names \union {"dir"}) /\ "dir" \in Snap
  BY <1>1, CreatingIs
<1>3. live' \in [Files -> Versions]
  BY <1>1, <1>2 DEF TreesOK
<1>4. CASE Snap \intersect {"archive", "receipt"} # {}
  <2>1. Turned(a, "failed", op[a].k) /\ UNCHANGED <<snap, tar, inv>>
    BY <1>2, <1>4, CreateOpenTurns DEF CreateOpen
  <2> QED
    BY <1>1, <1>2, <1>3, <2>1, CreateStands DEF Creating
<1>5. CASE Snap \intersect {"archive", "receipt"} = {}
  <2>1. Turned(a, "c-read", 1)
    BY <1>2, <1>5, CreateOpenTurns
  <2>2. /\ Enter(Snap \union {"archive"}) /\ tar' = "partial"
        /\ inv' = [f \in Files |-> "unread"]
    BY <1>5 DEF CreateOpen
  <2>3. Snap \union {"archive"} \in SUBSET (Names \union {"dir"})
    BY <1>2 DEF Names
  <2>4. /\ snap' \in Seq(SUBSET (Names \union {"dir"})) /\ snap' # <<>>
        /\ Snap' = Snap \union {"archive"}
        /\ \A i \in DOMAIN snap' :
             snap'[i] = Snap \union {"archive"} \/ \E j \in DOMAIN snap : snap'[i] = snap[j]
    BY <1>2, <2>2, <2>3, Entering
  <2>5. StoreOK' /\ \A i \in DOMAIN snap' : "dir" \in snap'[i]
    BY <1>1, <1>2, <2>2, <2>4 DEF StoreOK
  <2>6. Created("c-read", 1)'
    BY <2>4 DEF Created, Files
  <2> QED
    BY <1>1, <1>2, <1>3, <2>1, <2>5, <2>6, Archives DEF Creating
<1> QED
  BY <1>4, <1>5

LEMMA ReadFileKeeps ==
  ASSUME StoreInv, NEW a \in Actors, ReadFile(a)
  PROVE  StoreInv'
<1>1. /\ op[a].pc = "c-read" /\ op[a].pc \in Creating \ {"ok", "failed"}
      /\ op[a].k <= NFiles
      /\ UNCHANGED <<lockVars, record, last, faults, live, home, copy, synced, aged, snap, tar>>
  BY DEF ReadFile, At, Quiet, treeVars, Creating
<1>2. /\ StoreOK /\ TreesOK /\ op \in Ops /\ faults \in 0 .. MaxFaults
      /\ Created("c-read", op[a].k) /\ \A i \in DOMAIN snap : "dir" \in snap[i]
  BY <1>1, CreatingIs
<1>3. live' \in [Files -> Versions]
  BY <1>1, <1>2 DEF TreesOK
<1>4. PICK k \in 0 .. NFiles + 1 : k = op[a].k
  BY <1>2 DEF Ops
<1>5. CASE Turned(a, "c-unlink", k) /\ op[a].touched
  <2>1. StoreOK'
    BY <1>1, <1>2, <1>5 DEF StoreOK, ReadFile
  <2>2. Created("c-unlink", k)'
    BY DEF Created
  <2> QED
    BY <1>1, <1>2, <1>3, <1>5, <2>1, <2>2, Archives DEF Creating
<1>6. CASE Turned(a, "c-read", k + 1) /\ ~op[a].touched
  <2>1. inv' = [inv EXCEPT ![k] = live[k]]
    BY <1>4, <1>6 DEF ReadFile
  <2>2. StoreOK'
    BY <1>1, <1>2, <2>1 DEF StoreOK, TreesOK
  <2>3. \A f \in Files : f < k + 1 => inv'[f] \in Versions
    BY <1>1, <1>2, <1>4, <2>1, SnapshotBounds DEF StoreOK, TreesOK, Created, Files
  <2>4. "archive" \in Snap'
    BY <1>1, <1>2, Unmoved DEF Created
  <2>5. Created("c-read", k + 1)'
    BY <2>3, <2>4 DEF Created
  <2> QED
    BY <1>1, <1>2, <1>3, <1>6, <2>2, <2>5, Archives DEF Creating
<1> QED
  BY <1>2, <1>4, <1>5, <1>6, ReadFileTurns

LEMMA WriteReceiptKeeps ==
  ASSUME StoreInv, NEW a \in Actors, WriteReceipt(a)
  PROVE  StoreInv'
<1>1. /\ op[a].pc = "c-receipt" /\ op[a].pc \in Creating \ {"ok", "failed"}
      /\ To(a, "c-dirsync") /\ Enter(Snap \union {"receipt"})
      /\ UNCHANGED <<lockVars, record, last, faults, live, home, copy, synced, tar, inv, aged>>
  BY DEF WriteReceipt, At, Quiet, treeVars, Creating
<1>2. /\ Created("c-receipt", op[a].k) /\ StoreOK /\ TreesOK /\ op \in Ops
      /\ faults \in 0 .. MaxFaults /\ \A i \in DOMAIN snap : "dir" \in snap[i]
      /\ Snap \in SUBSET (Names \union {"dir"}) /\ "dir" \in Snap
  BY <1>1, CreatingIs
<1>3. live' \in [Files -> Versions] /\ Turned(a, "c-dirsync", op[a].k)
  BY <1>1, <1>2, Turning DEF TreesOK, Pcs
<1>4. Snap \union {"receipt"} \in SUBSET (Names \union {"dir"})
  BY <1>2 DEF Names
<1>5. /\ snap' \in Seq(SUBSET (Names \union {"dir"})) /\ snap' # <<>>
      /\ Snap' = Snap \union {"receipt"}
      /\ \A i \in DOMAIN snap' :
           snap'[i] = Snap \union {"receipt"} \/ \E j \in DOMAIN snap : snap'[i] = snap[j]
  BY <1>1, <1>2, <1>4, Entering
<1>6. StoreOK' /\ \A i \in DOMAIN snap' : "dir" \in snap'[i]
  BY <1>1, <1>2, <1>5 DEF StoreOK
<1>7. \A k : Created("c-dirsync", k)'
  BY <1>1, <1>2, <1>5 DEF Created, Read
<1> QED
  BY <1>1, <1>2, <1>3, <1>6, <1>7, Archives DEF Creating

LEMMA SyncReceiptKeeps ==
  ASSUME StoreInv, NEW a \in Actors, SyncReceipt(a)
  PROVE  StoreInv'
<1>1. /\ op[a].pc = "c-dirsync" /\ op[a].pc \in Creating \ {"ok", "failed"}
      /\ To(a, "ok") /\ snap' = <<Snap>>
      /\ UNCHANGED <<lockVars, record, last, faults, live, home, copy, synced, tar, inv, aged>>
  BY DEF SyncReceipt, SyncSnap, At, Quiet, treeVars, Creating
<1>2. /\ Created("c-dirsync", op[a].k) /\ StoreOK /\ TreesOK /\ op \in Ops
      /\ faults \in 0 .. MaxFaults /\ Snap \in SUBSET (Names \union {"dir"})
      /\ "dir" \in Snap
  BY <1>1, CreatingIs
<1>3. live' \in [Files -> Versions] /\ Turned(a, "ok", op[a].k)
  BY <1>1, <1>2, Turning DEF TreesOK, Pcs
<1>4. /\ snap' \in Seq(SUBSET (Names \union {"dir"})) /\ snap' # <<>>
      /\ DOMAIN snap' = {1} /\ snap'[1] = Snap
  BY <1>1, <1>2, SyncingSnap
<1>5. StoreOK' /\ \A i \in DOMAIN snap' : "dir" \in snap'[i]
  BY <1>1, <1>2, <1>4 DEF StoreOK
<1>6. \A k : Created("ok", k)'
  BY <1>1, <1>2, <1>4 DEF Created, Durable, Read
<1> QED
  BY <1>1, <1>2, <1>3, <1>5, <1>6, Archives DEF Creating

LEMMA UnlinkArchiveKeeps ==
  ASSUME StoreInv, NEW a \in Actors, UnlinkArchive(a)
  PROVE  StoreInv'
<1>1. /\ op[a].pc = "c-unlink" /\ op[a].pc \in Creating \ {"ok", "failed"}
      /\ To(a, "c-unlink-receipt") /\ Enter(Snap \ {"archive"}) /\ tar' = "none"
      /\ UNCHANGED <<lockVars, record, last, faults, live, home, copy, synced, inv, aged>>
  BY DEF UnlinkArchive, At, Quiet, treeVars, Creating
<1>2. /\ StoreOK /\ TreesOK /\ op \in Ops
      /\ faults \in 0 .. MaxFaults /\ \A i \in DOMAIN snap : "dir" \in snap[i]
      /\ Snap \in SUBSET (Names \union {"dir"}) /\ "dir" \in Snap
  BY <1>1, CreatingIs
<1>3. live' \in [Files -> Versions] /\ Turned(a, "c-unlink-receipt", op[a].k)
  BY <1>1, <1>2, Turning DEF TreesOK, Pcs
<1>4. /\ snap' \in Seq(SUBSET (Names \union {"dir"})) /\ snap' # <<>>
      /\ \A i \in DOMAIN snap' :
           snap'[i] = Snap \ {"archive"} \/ \E j \in DOMAIN snap : snap'[i] = snap[j]
  BY <1>1, <1>2, Entering
<1>5. StoreOK' /\ \A i \in DOMAIN snap' : "dir" \in snap'[i]
  BY <1>1, <1>2, <1>4 DEF StoreOK
<1>6. \A k : Created("c-unlink-receipt", k)'
  BY DEF Created
<1> QED
  BY <1>1, <1>2, <1>3, <1>5, <1>6, Archives DEF Creating

LEMMA UnlinkReceiptKeeps ==
  ASSUME StoreInv, NEW a \in Actors, UnlinkReceipt(a)
  PROVE  StoreInv'
<1>1. /\ op[a].pc = "c-unlink-receipt" /\ op[a].pc \in Creating \ {"ok", "failed"}
      /\ To(a, "failed") /\ snap' = <<Snap \ {"receipt"}>>
      /\ UNCHANGED <<lockVars, record, last, faults, live, home, copy, synced, tar, inv, aged>>
  BY DEF UnlinkReceipt, At, Quiet, treeVars, Creating
<1>2. /\ StoreOK /\ TreesOK /\ op \in Ops
      /\ faults \in 0 .. MaxFaults /\ Snap \in SUBSET (Names \union {"dir"})
      /\ "dir" \in Snap
  BY <1>1, CreatingIs
<1>3. live' \in [Files -> Versions] /\ Turned(a, "failed", op[a].k)
  BY <1>1, <1>2, Turning DEF TreesOK, Pcs
<1>4. Snap \ {"receipt"} \in SUBSET (Names \union {"dir"})
  BY <1>2
<1>5. /\ snap' \in Seq(SUBSET (Names \union {"dir"})) /\ snap' # <<>>
      /\ DOMAIN snap' = {1} /\ snap'[1] = Snap \ {"receipt"}
  BY <1>1, <1>4, SyncingSnap
<1>6. StoreOK' /\ \A i \in DOMAIN snap' : "dir" \in snap'[i]
  BY <1>1, <1>2, <1>5 DEF StoreOK
<1>7. \A k : Created("failed", k)'
  BY DEF Created
<1> QED
  BY <1>1, <1>2, <1>3, <1>6, <1>7, Archives DEF Creating

LEMMA WriteMarkerKeeps ==
  ASSUME StoreInv, NEW a \in Actors, WriteMarker(a)
  PROVE  StoreInv'
<1>1. /\ op[a].pc = "m-write" /\ faults \in 0 .. MaxFaults /\ op \in Ops /\ StoreOK
      /\ UNCHANGED <<lockVars, record, last, faults, treeVars, tar, inv, aged>>
      /\ snap \in Seq(SUBSET (Names \union {"dir"})) /\ snap # <<>>
  BY Current DEF WriteMarker, At, Quiet, StoreInv, STypeOK, StoreOK
<1>2. op[a].pc \in Marking \ {"ok", "failed"} /\ op[a].pc \notin Pruning
  BY <1>1 DEF Marking, Pruning
<1>3. CASE To(a, "failed") /\ UNCHANGED snap
  BY <1>1, <1>2, <1>3, Turning, Retaining DEF Pcs, Marking
<1>4. CASE To(a, "m-dirsync") /\ Enter(Snap \union {"marker"})
  <2>1. Turned(a, "m-dirsync", op[a].k) /\ "m-dirsync" \in Marking
    BY <1>1, <1>4, Turning DEF Pcs, Marking
  <2>2. /\ Snap \in SUBSET (Names \union {"dir"}) /\ \E j \in DOMAIN snap : Snap = snap[j]
        /\ Snap \union {"marker"} \in SUBSET (Names \union {"dir"})
    BY Latest DEF StoreInv, STypeOK, Names
  <2>3. /\ snap' \in Seq(SUBSET (Names \union {"dir"})) /\ snap' # <<>>
        /\ \A i \in DOMAIN snap' :
             snap'[i] = Snap \union {"marker"} \/ \E j \in DOMAIN snap : snap'[i] = snap[j]
    BY <1>1, <1>4, <2>2, Entering
  <2>4. \A i \in DOMAIN snap' : \E j \in DOMAIN snap : snap[j] \subseteq snap'[i]
    BY <2>2, <2>3
  <2> QED
    BY <1>1, <1>2, <2>1, <2>3, <2>4, Retaining
<1> QED
  BY <1>3, <1>4 DEF WriteMarker

LEMMA SyncMarkerKeeps ==
  ASSUME StoreInv, NEW a \in Actors, SyncMarker(a)
  PROVE  StoreInv'
<1>1. /\ op[a].pc = "m-dirsync" /\ faults \in 0 .. MaxFaults /\ op \in Ops
      /\ UNCHANGED <<lockVars, record, last, faults, treeVars, tar, inv, aged>>
      /\ To(a, "ok") /\ snap' = <<Snap>>
  BY Current DEF SyncMarker, SyncSnap, At, Quiet
<1>2. op[a].pc \in Marking \ {"ok", "failed"} /\ op[a].pc \notin Pruning
  BY <1>1 DEF Marking, Pruning
<1>3. Turned(a, "ok", op[a].k) /\ "ok" \in Marking
  BY <1>1, Turning DEF Pcs, Marking
<1>4. Snap \in SUBSET (Names \union {"dir"}) /\ \E j \in DOMAIN snap : Snap = snap[j]
  BY Latest DEF StoreInv, STypeOK
<1>5. /\ snap' \in Seq(SUBSET (Names \union {"dir"})) /\ snap' # <<>>
      /\ DOMAIN snap' = {1} /\ snap'[1] = Snap
  BY <1>1, <1>4, SyncingSnap
<1> QED
  BY <1>1, <1>2, <1>3, <1>4, <1>5, Retaining

\* A prune removes what it wants: the record is gone.
LEMMA Prunes ==
  ASSUME StoreInv, NEW a \in Actors, NEW pc \in Pruning, Turned(a, pc, op[a].k),
         op[a].pc \in Pruning \ {"ok", "failed"},
         UNCHANGED <<lockVars, record, last, faults, treeVars, tar, inv, aged>>,
         snap' \in Seq(SUBSET (Names \union {"dir"})), snap' # <<>>
  PROVE  StoreInv'
<1>1. faults \in 0 .. MaxFaults /\ op[a].pc \notin Marking
  BY Current DEF Marking, Pruning
<1> QED
  BY <1>1, Retaining

LEMMA PruneKeeps ==
  ASSUME StoreInv, NEW a \in Actors, PruneScan(a) \/ PruneSync(a) \/ PruneDirectory(a)
  PROVE  StoreInv'
<1>1. PICK pc \in {"p-remove", "p-rmdir", "ok"} : To(a, pc)
  BY DEF PruneScan, PruneSync, PruneDirectory
<1>2. /\ op[a].pc \in Pruning \ {"ok", "failed"}
      /\ UNCHANGED <<lockVars, record, last, faults, treeVars, tar, inv, aged>>
      /\ snap' \in {snap, <<Snap>>, <<{}>>}
  BY DEF PruneScan, PruneSync, PruneDirectory, At, Quiet, Pruning, SyncSnap, storeVars
<1>3. op \in Ops /\ StoreOK /\ Snap \in SUBSET (Names \union {"dir"})
  BY Current, Latest DEF StoreInv, STypeOK
<1>4. Turned(a, pc, op[a].k) /\ pc \in Pruning
  BY <1>1, <1>3, Turning DEF Pcs, Pruning
<1>5. snap' \in Seq(SUBSET (Names \union {"dir"})) /\ snap' # <<>>
  BY <1>2, <1>3, SyncingSnap DEF StoreOK
<1> QED
  BY <1>2, <1>4, <1>5, Prunes

LEMMA PruneEntryKeeps ==
  ASSUME StoreInv, NEW a \in Actors, PruneEntry(a)
  PROVE  StoreInv'
<1>1. /\ op[a].pc = "p-remove"
      /\ UNCHANGED <<lockVars, record, last, faults, treeVars, tar, inv, aged>>
  BY DEF PruneEntry, At, Quiet
<1>2. op \in Ops /\ StoreOK /\ Snap \in SUBSET (Names \union {"dir"})
  BY Current, Latest DEF StoreInv, STypeOK
<1>3. CASE To(a, "p-sync") /\ UNCHANGED snap
  BY <1>1, <1>2, <1>3, Turning, Prunes DEF Pcs, Pruning, StoreOK
<1>4. CASE Enter(Snap \ {Head(Kept)}) /\ UNCHANGED op
  <2>1. Snap \ {Head(Kept)} \in SUBSET (Names \union {"dir"})
    BY <1>2
  <2>2. snap' \in Seq(SUBSET (Names \union {"dir"})) /\ snap' # <<>>
    BY <1>2, <1>4, <2>1, Entering
  <2>3. Turned(a, "p-remove", op[a].k)
    BY <1>1, <1>2, <1>4, Staying
  <2> QED
    BY <1>1, <2>2, <2>3, Prunes DEF Pruning
<1> QED
  BY <1>3, <1>4 DEF PruneEntry

LEMMA RetainFails ==
  ASSUME StoreInv, NEW a \in Actors, RetainErrs(a)
  PROVE  StoreInv'
<1>1. /\ op[a].pc \in (Marking \union Pruning) \ {"ok", "failed"} /\ faults < MaxFaults
      /\ faults' = faults + 1 /\ UNCHANGED <<lockVars, record, storeVars, treeVars, last>>
      /\ To(a, "failed")
  BY DEF RetainErrs, Errs, At, Fault, Marking, Pruning
<1>2. op \in Ops /\ StoreOK /\ faults \in 0 .. MaxFaults
  BY Current DEF StoreInv, STypeOK
<1>3. Turned(a, "failed", op[a].k) /\ "failed" \in Marking /\ "failed" \in Pruning
  BY <1>1, <1>2, Turning DEF Pcs, Marking, Pruning
<1>4. faults' \in 0 .. MaxFaults
  BY <1>1, <1>2, SnapshotBounds
<1>5. UNCHANGED <<snap, tar, inv, aged>>
  BY <1>1 DEF storeVars
<1> QED
  BY <1>1, <1>2, <1>3, <1>4, <1>5, Retaining DEF StoreOK

-----------------------------------------------------------------------------
(* The scripts, and what strikes their processes. *)

\* Nothing moves but the processes and the result that a script has seen.
LEMMA Waiting ==
  ASSUME StoreInv, LockTypeOK', UNCHANGED <<record, op, helper, storeVars, treeVars>>,
         \A b \in Actors : script'[b] # "gone" /\ sup'[b] = "gone" => helper[b] = "gone",
         last' \in [Actors -> {"none", "ok", "failed"}], faults' \in 0 .. MaxFaults,
         record \in {"new", "pending"} => last'["update"] \in {"none", last["update"]}
  PROVE  StoreInv'
<1>1. StoreOK' /\ TreesOK'
  BY DEF StoreInv, STypeOK, StoreOK, TreesOK, storeVars, treeVars
<1>2. ProcOK'
  BY DEF StoreInv, STypeOK, ProcOK
<1>3. Attended' /\ Permitted'
  BY DEF StoreInv, Attended, Permitted
<1>4. UNCHANGED <<snap, tar, inv, home, copy>> /\ Snap' = Snap /\ Home' = Home
  BY Unmoved DEF storeVars, treeVars
<1>5. Archiving'
  BY <1>4 DEF StoreInv, Archiving, Created, Durable, Read
<1>6. Activating'
  BY <1>4 DEF StoreInv, Activating, Placed, Reached
<1> QED
  BY <1>1, <1>2, <1>3, <1>5, <1>6 DEF StoreInv, STypeOK

LEMMA Types ==
  ASSUME StoreInv
  PROVE  /\ LockTypeOK /\ record \in {"new", "pending", "archived", "mutated", "absent"}
         /\ op \in Ops /\ last \in [Actors -> {"none", "ok", "failed"}]
         /\ faults \in 0 .. MaxFaults
         /\ "update" \in Actors /\ "retention" \in Actors
BY ActorsAreScripts DEF StoreInv, STypeOK, ProcOK

LEMMA InvokeKeeps ==
  ASSUME StoreInv, LockTypeOK', NEW a \in Actors, Invoke(a)
  PROVE  StoreInv'
<1>1. /\ UNCHANGED <<record, op, faults, helper, sup, storeVars, treeVars>>
      /\ helper[a] = "gone" /\ script' = [script EXCEPT ![a] = "verifying"]
      /\ last' = [last EXCEPT ![a] = "none"]
  BY DEF Invoke, UNCH, AcquireLock, Over, Working
<1>2. \A b \in Actors : script'[b] # "gone" /\ sup'[b] = "gone" => helper[b] = "gone"
  BY <1>1, Types DEF StoreInv, Attended, LockTypeOK
<1>3. last'["update"] \in {"none", last["update"]}
  BY <1>1, Types
<1> QED
  BY <1>1, <1>2, <1>3, Types, Waiting

\* A process of the invocation goes on, is stopped or dies; its helper lives on.
LEMMA ProcessesKeep ==
  ASSUME StoreInv, LockTypeOK', NEW a \in Actors,
         Verify(a) \/ Exit(a) \/ Returns(a) \/ Deadlines(a) \/ Hit(a)
  PROVE  StoreInv'
<1>1. UNCHANGED <<record, op, last, storeVars, treeVars>>
  BY DEF Verify, Exit, Returns, Deadlines, Hit, UNCH, procVars
<1>2. /\ UNCHANGED helper
      /\ \A b \in Actors : b # a => script'[b] = script[b] /\ sup'[b] = sup[b]
      /\ script'[a] # "gone" /\ sup'[a] = "gone" =>
           (script[a] # "gone" /\ sup[a] = "gone") \/ helper[a] = "gone"
  <2>1. CASE Verify(a)
    BY <2>1, Types DEF Verify, VerifyLock, LockTypeOK
  <2>2. CASE Exit(a)
    BY <2>2, Types DEF Exit, ScriptEnds, LockTypeOK
  <2>3. CASE Returns(a)
    BY <2>3, Types DEF Returns, SupReturns, RunnerReturns, LockTypeOK
  <2>4. CASE Deadlines(a)
    BY <2>4, Types DEF Deadlines, SupTimeout, RunnerStops, LockTypeOK
  <2>5. CASE Hit(a)
    BY <2>5, Types DEF Hit, RunnerKills, Killed, RunnerDies, ScriptDies, LockTypeOK
  <2> QED
    BY <2>1, <2>2, <2>3, <2>4, <2>5
<1>3. UNCHANGED faults \/ Fault
  BY DEF Verify, Exit, Returns, Deadlines, Hit
<1>4. faults' \in 0 .. MaxFaults
  BY <1>3, Types, SnapshotBounds DEF Fault
<1>5. \A b \in Actors : script'[b] # "gone" /\ sup'[b] = "gone" => helper[b] = "gone"
  BY <1>2 DEF StoreInv, Attended
<1> QED
  BY <1>1, <1>2, <1>4, <1>5, Types, Waiting

LEMMA CandidateFailsKeeps ==
  ASSUME StoreInv, LockTypeOK', CandidateFails
  PROVE  StoreInv'
<1>1. /\ record = "mutated" /\ faults < MaxFaults /\ faults' = faults + 1
      /\ last' = [last EXCEPT !["update"] = "failed"]
      /\ UNCHANGED <<lockVars, record, op, storeVars, treeVars>>
  BY DEF CandidateFails, Fault, UNCH
<1>2. faults' \in 0 .. MaxFaults
  BY <1>1, Types, SnapshotBounds
<1>3. \A b \in Actors : script'[b] # "gone" /\ sup'[b] = "gone" => helper[b] = "gone"
  BY <1>1 DEF StoreInv, Attended, lockVars
<1> QED
  BY <1>1, <1>2, <1>3, Types, Waiting DEF lockVars

\* A helper ends, and its script learns how unless its run-command is gone.
LEMMA EndsKeep ==
  ASSUME StoreInv, LockTypeOK', NEW a \in Actors, Finish(a) \/ Cut(a)
  PROVE  StoreInv'
<1>1. PICK result \in {"ok", "failed"} :
        Seen(a, result) /\ (result = "ok" => op[a].pc = "ok")
  BY DEF Finish, Cut
<1>2. /\ op' = [op EXCEPT ![a] = Idle] /\ UNCHANGED <<record, faults, storeVars, treeVars>>
      /\ helper[a] = "running" /\ helper' = [helper EXCEPT ![a] = "gone"]
      /\ UNCHANGED <<script, sup>>
  BY DEF Finish, Cut, HelperEnds, SupKills, UNCH
<1>3. Turned(a, "none", 0) /\ op[a].pc # "none"
  BY <1>2, Types, Ending DEF StoreInv, Attended
<1>4. /\ last' \in [Actors -> {"none", "ok", "failed"}]
      /\ last'[a] \in {last[a], result} /\ \A b \in Actors : b # a => last'[b] = last[b]
  BY <1>1, Types DEF Seen
<1>5. StoreOK' /\ TreesOK'
  BY <1>2 DEF StoreInv, STypeOK, StoreOK, TreesOK, storeVars, treeVars
<1>6. Attended'
  BY <1>2, <1>3, Types DEF StoreInv, Attended, Turned, LockTypeOK
<1>7. ProcOK'
  BY <1>2, <1>3, <1>4, <1>6, Types DEF ProcOK, Attended, Turned, LockTypeOK
<1>8. Permitted'
  BY <1>2, <1>3 DEF StoreInv, Permitted, Turned
<1>9. UNCHANGED <<snap, tar, inv, home, copy>> /\ Snap' = Snap /\ Home' = Home
  BY <1>2, Unmoved DEF storeVars, treeVars
<1>10. record # "new"
  BY <1>3 DEF StoreInv, Permitted
<1>11. Archiving'
  <2>1. ASSUME record = "pending"
        PROVE  op'["update"].pc = "none" /\ (last'["update"] = "ok" => Durable)
    <3>1. a = "update"
      BY <1>3, <2>1 DEF StoreInv, Permitted
    <3>2. last["update"] # "ok"
      BY <1>3, <2>1, <3>1 DEF StoreInv, Archiving
    <3> QED
      BY <1>1, <1>3, <1>4, <2>1, <3>1, <3>2 DEF StoreInv, Archiving, Created, Turned
  <2>2. Durable => Durable'
    BY <1>9 DEF Durable, Read
  <2> QED
    BY <1>2, <1>9, <1>10, <2>1, <2>2 DEF StoreInv, Archiving, Created
<1>12. Activating'
  <2>1. op'["update"].pc \in {"none", op["update"].pc}
    BY <1>3, Types DEF Turned
  <2> QED
    BY <1>2, <1>9, <2>1 DEF StoreInv, Activating, Placed, Reached
<1> QED
  BY <1>5, <1>6, <1>7, <1>8, <1>11, <1>12 DEF StoreInv, STypeOK

\* A script starts the helper of a command that the record permits.
LEMMA CallKeeps ==
  ASSUME StoreInv, LockTypeOK', NEW a \in Actors, NEW pc \in Pcs \ {"none"}, Call(a, pc),
         \/ a = "update" /\ pc = "c-open" /\ record = "new" /\ record' = "pending"
         \/ a = "update" /\ pc \in {"m-write", "r-check"} /\ record = "mutated" /\ UNCHANGED record
         \/ a = "retention" /\ pc = "p-scan" /\ record = "absent" /\ UNCHANGED record
  PROVE  StoreInv'
<1>1. /\ UNCHANGED <<last, faults, storeVars, treeVars, script>>
      /\ helper[a] = "gone" /\ helper' = [helper EXCEPT ![a] = "running"]
      /\ sup' = [sup EXCEPT ![a] = "waiting"]
  BY DEF Call, UNCH, StartHelper
<1>2. Turned(a, pc, 0) /\ op[a].pc = "none"
  BY <1>1, Types, Calling DEF StoreInv, Attended
<1>3. StoreOK' /\ TreesOK'
  BY <1>1 DEF StoreInv, STypeOK, StoreOK, TreesOK, storeVars, treeVars
<1>4. Attended'
  BY <1>1, <1>2, Types DEF StoreInv, Attended, Turned, LockTypeOK
<1>5. ProcOK'
  BY <1>1, <1>2, <1>4, Types DEF ProcOK, Attended, Turned, LockTypeOK
<1>6. Permitted'
  <2>1. ASSUME NEW b \in Actors, op'[b].pc # "none", b # a
        PROVE  FALSE
    BY <1>2, <2>1, Types DEF StoreInv, Permitted, Turned
  <2> QED
    BY <1>2, <2>1 DEF Permitted, Turned, Creating, Restoring, Marking, Pruning
<1>7. UNCHANGED <<snap, tar, inv, home, copy>> /\ Snap' = Snap /\ Home' = Home
  BY <1>1, Unmoved DEF storeVars, treeVars
<1>8. Archiving'
  <2>1. record' = "pending" => op'["update"].pc = "c-open" /\ last'["update"] = "none"
    BY <1>1, <1>2 DEF StoreInv, Archiving, Turned
  <2> QED
    BY <1>1, <1>7, <2>1 DEF StoreInv, Archiving, Created, Durable, Read
<1>9. Activating'
  <2>1. record' = "mutated" => op'["update"].pc \in {"m-write", "r-check"}
    BY <1>2 DEF Turned
  <2> QED
    BY <1>7, <2>1 DEF StoreInv, Activating, Placed, Reached
<1> QED
  BY <1>3, <1>4, <1>5, <1>6, <1>8, <1>9 DEF StoreInv, STypeOK

LEMMA CallsKeep ==
  ASSUME StoreInv, LockTypeOK', Calls
  PROVE  StoreInv'
<1>1. CASE CallCreate
  BY <1>1, Types, CallKeeps DEF CallCreate, Pcs
<1>2. CASE CallComplete
  BY <1>2, Types, CallKeeps DEF CallComplete, Pcs
<1>3. CASE CallRestore
  BY <1>3, Types, CallKeeps DEF CallRestore, Pcs
<1>4. CASE CallPrune
  BY <1>4, Types, CallKeeps DEF CallPrune, Pcs
<1> QED
  BY <1>1, <1>2, <1>3, <1>4 DEF Calls

\* The update decides while it waits for no helper.
LEMMA DecideKeeps ==
  ASSUME StoreInv, LockTypeOK', Decide
  PROVE  StoreInv'
<1>1. /\ UNCHANGED <<lockVars, op, last, faults, storeVars, home, copy, synced>>
      /\ live' = live \/ live' = [f \in Files |-> "new"]
      /\ Script("update")
      /\ \/ record = "pending" /\ last["update"] = "ok" /\ record' = "archived"
         \/ record = "archived" /\ record' = "mutated"
         \/ record' = "absent"
  BY DEF Decide, RecordArchived, RecordMutated, Resolve, procVars, UNCH, treeVars
<1>2. \A b \in Actors : record # "absent" => op[b].pc = "none"
  BY <1>1, Types DEF StoreInv, Attended, Permitted, Script
<1>3. StoreOK' /\ TreesOK'
  BY <1>1 DEF StoreInv, STypeOK, StoreOK, TreesOK, storeVars, Versions
<1>4. ProcOK' /\ Attended'
  BY <1>1 DEF StoreInv, STypeOK, ProcOK, Attended, lockVars
<1>5. Permitted'
  BY <1>1, <1>2 DEF StoreInv, Permitted
<1>6. UNCHANGED <<snap, tar, inv>> /\ Snap' = Snap /\ Home' = Home
  BY <1>1, Unmoved DEF storeVars
<1>7. Archiving'
  BY <1>1, <1>6 DEF StoreInv, Archiving, Durable, Read
<1>8. Activating'
  <2>1. record' = "mutated" => op'["update"].pc = "none"
    BY <1>1, <1>2, Types
  <2> QED
    BY <1>1, <1>6, <2>1 DEF StoreInv, Activating, Placed, Reached
<1> QED
  BY <1>3, <1>4, <1>5, <1>7, <1>8 DEF StoreInv, STypeOK

LEMMA AgeKeeps ==
  ASSUME StoreInv, LockTypeOK', Age
  PROVE  StoreInv'
<1>1. /\ UNCHANGED <<lockVars, record, tar, inv, treeVars, op, last, faults>>
      /\ record = "absent" /\ snap' = <<Snap>> /\ aged' = TRUE
  BY DEF Age, SyncSnap, procVars
<1>2. Snap \in SUBSET (Names \union {"dir"})
  BY Latest DEF StoreInv, STypeOK
<1>3. StoreOK' /\ TreesOK'
  BY <1>1, <1>2, SyncingSnap DEF StoreInv, STypeOK, StoreOK, TreesOK, treeVars
<1>4. ProcOK' /\ Attended' /\ Permitted' /\ Archiving'
  BY <1>1 DEF StoreInv, STypeOK, ProcOK, Attended, Permitted, Archiving, lockVars
<1>5. Activating'
  BY <1>1, Unmoved DEF StoreInv, Activating, Placed, treeVars
<1> QED
  BY <1>3, <1>4, <1>5 DEF StoreInv, STypeOK

\* A power loss leaves one state of each journal, and every state of a journal
\* is one that the commands and the properties allow for.
LEMMA PowerLossKeeps ==
  ASSUME StoreInv, LockTypeOK', PowerLoss
  PROVE  StoreInv'
<1>1. PICK i \in DOMAIN snap, j \in DOMAIN home, lost \in SUBSET Files :
        /\ snap' = <<snap[i]>> /\ home' = <<home[j]>>
        /\ synced \/ home[j].current = "copy" => lost = {}
        /\ copy' = [f \in Files |-> IF f \in lost THEN "none" ELSE copy[f]]
  BY DEF PowerLoss
<1>2. /\ AllGone /\ op' = [a \in Actors |-> Idle] /\ last' = [a \in Actors |-> "none"]
      /\ faults < MaxFaults /\ faults' = faults + 1
      /\ UNCHANGED <<record, inv, live, synced, aged>>
  BY DEF PowerLoss, Fault
<1>3. tar' = IF tar = "synced" \/ "archive" \notin Snap THEN tar ELSE "partial"
  BY DEF PowerLoss
<1>4. /\ StoreOK /\ TreesOK /\ snap[i] \in SUBSET (Names \union {"dir"}) /\ home[j] \in Places
  BY Latest DEF StoreInv, STypeOK
<1>5. /\ snap' \in Seq(SUBSET (Names \union {"dir"})) /\ snap' # <<>>
      /\ DOMAIN snap' = {1} /\ snap'[1] = snap[i] /\ Snap' = snap[i]
      /\ home' \in Seq(Places) /\ home' # <<>>
      /\ DOMAIN home' = {1} /\ home'[1] = home[j] /\ Home' = home[j]
  BY <1>1, <1>4, SyncingSnap, SyncingHome
<1>6. StoreOK'
  BY <1>2, <1>3, <1>4, <1>5 DEF StoreOK
<1>7. TreesOK'
  BY <1>1, <1>2, <1>4, <1>5 DEF TreesOK
<1>8. \A a \in Actors : op'[a].pc = "none" /\ helper'[a] = "gone" /\ last'[a] = "none"
  BY <1>2 DEF AllGone, Idle
<1>9. ProcOK'
  <2>1. faults' \in 0 .. MaxFaults
    BY <1>2, Types, SnapshotBounds
  <2>2. Idle \in [pc: Pcs, k: 0 .. NFiles + 1, touched: BOOLEAN, renamed: BOOLEAN,
                  undo: BOOLEAN]
    BY SnapshotBounds DEF Idle, Pcs
  <2> QED
    BY <1>2, <1>8, <2>1, <2>2, Types DEF ProcOK, Ops
<1>10. Attended' /\ Permitted'
  BY <1>8 DEF Attended, Permitted
<1>11. Archiving'
  BY <1>2, <1>3, <1>5, <1>8, Types DEF StoreInv, Archiving, Created, Durable, Read
<1>12. Activating'
  <2> PICK p \in Places : p = home[j]
    BY <1>4
  <2>1. p.current = "copy" => copy' = copy
    BY <1>1, <1>4 DEF TreesOK
  <2>2. Placed(p)'
    BY <1>2, <2>1 DEF StoreInv, Activating, Placed
  <2>3. Reached(op["update"].pc, Home)'
    BY <1>8, Types DEF Reached
  <2>4. record \in {"new", "pending", "archived"} => home' = <<Untouched>>
    BY <1>1 DEF StoreInv, Activating
  <2> QED
    BY <1>2, <1>5, <2>2, <2>3, <2>4 DEF Activating
<1> QED
  BY <1>6, <1>7, <1>9, <1>10, <1>11, <1>12 DEF StoreInv, STypeOK

-----------------------------------------------------------------------------
(* The theorems. *)

\* What the operations and the scripts do to the processes is a step of the lock.
LEMMA StepsLock ==
  ASSUME Next
  PROVE  [LockNext]_lockVars
<1>1. ASSUME NEW a \in Actors, Invoke(a) \/ Proceed(a) \/ Deadlines(a)
      PROVE  Process(a) \/ Deadline(a) \/ Killed(a)
  <2>1. CASE Invoke(a)
    BY <2>1 DEF Invoke, Process
  <2>2. CASE Verify(a) \/ Exit(a) \/ Returns(a)
    BY <2>2 DEF Verify, Exit, Returns, Process
  <2>3. CASE Finish(a) \/ Cut(a)
    BY <2>3 DEF Finish, Cut, Process, Deadline
  <2>4. CASE Hit(a) \/ Deadlines(a)
    BY <2>4 DEF Hit, Deadlines, Deadline
  <2> QED
    BY <1>1, <2>1, <2>2, <2>3, <2>4 DEF Proceed
<1>2. ASSUME NEW a \in Actors, Work(a) PROVE UNCHANGED lockVars
  <2>1. CASE Create(a)
    BY <2>1 DEF Create, CreateOpen, ReadFile, CloseTar, SyncTar, WriteReceipt, SyncReceipt,
                UnlinkArchive, UnlinkReceipt, Quiet
  <2>2. CASE Restore(a)
    BY <2>2 DEF Restore, RestoreCheck, ClearFile, ClearStaging, MakeStaging, ExtractFile,
                SyncCopy, VerifyCopy, MoveCurrent, SyncMoved, SwapIn, SyncSwapped,
                NothingToUndo, Quiet
  <2>3. CASE Retain(a)
    BY <2>3 DEF Retain, WriteMarker, SyncMarker, PruneScan, PruneEntry, PruneSync,
                PruneDirectory, Quiet
  <2> QED
    BY <1>2, <2>1, <2>2, <2>3 DEF Work
<1>3. ASSUME NEW a \in Actors, Trouble(a), ~Deadlines(a) PROVE UNCHANGED lockVars
  BY <1>3 DEF Trouble, Interfere, CreateErrs, RestoreErrs, SwapFails, RetainErrs, Errs
<1>4. ASSUME Calls PROVE \E a \in Actors : Process(a)
  BY <1>4, ActorsAreScripts DEF Calls, CallCreate, CallComplete, CallRestore, CallPrune,
                                Call, Process
<1>5. ASSUME Decide \/ CandidateFails \/ Age PROVE UNCHANGED lockVars
  BY <1>5 DEF Decide, RecordArchived, RecordMutated, Resolve, CandidateFails, Age
<1>6. PowerLoss => AllGone
  BY DEF PowerLoss
<1> QED
  BY <1>1, <1>2, <1>3, <1>4, <1>5, <1>6 DEF Next, LockNext

\* Each step of the model keeps the invariant.
LEMMA WorkKeeps ==
  ASSUME StoreInv, NEW a \in Actors, Work(a)
  PROVE  StoreInv'
<1>1. CASE Create(a)
  BY <1>1, CreateOpenKeeps, ReadFileKeeps, CloseTarKeeps, SyncTarKeeps, WriteReceiptKeeps,
     SyncReceiptKeeps, UnlinkArchiveKeeps, UnlinkReceiptKeeps DEF Create
<1>2. CASE Restore(a)
  BY <1>2, RestoreCheckKeeps, ClearFileKeeps, ClearStagingKeeps, MakeStagingKeeps,
     ExtractFileKeeps, RestoreGoesOn, MoveCurrentKeeps, RestoreSyncs, SwapInKeeps DEF Restore
<1>3. CASE Retain(a)
  BY <1>3, WriteMarkerKeeps, SyncMarkerKeeps, PruneKeeps, PruneEntryKeeps DEF Retain
<1> QED
  BY <1>1, <1>2, <1>3 DEF Work

LEMMA TroubleKeeps ==
  ASSUME StoreInv, LockTypeOK', NEW a \in Actors, Trouble(a)
  PROVE  StoreInv'
BY InterfereKeeps, CreateFails, RestoreFails, SwapFailsKeeps, RetainFails, ProcessesKeep
DEF Trouble

LEMMA ProceedKeeps ==
  ASSUME StoreInv, LockTypeOK', NEW a \in Actors, Proceed(a)
  PROVE  StoreInv'
BY ProcessesKeep, EndsKeep DEF Proceed

LEMMA StoreStep ==
  ASSUME StoreInv, LockTypeOK', [Next]_vars
  PROVE  StoreInv'
<1>1. CASE Next
  BY <1>1, InvokeKeeps, WorkKeeps, TroubleKeeps, ProceedKeeps, CallsKeep, DecideKeeps,
     CandidateFailsKeeps, AgeKeeps, PowerLossKeeps DEF Next
<1>2. CASE UNCHANGED vars
  <2>1. \A b \in Actors : script'[b] # "gone" /\ sup'[b] = "gone" => helper[b] = "gone"
    BY <1>2 DEF vars, lockVars, StoreInv, Attended
  <2> QED
    BY <1>2, <2>1, Types, Waiting DEF vars, lockVars, procVars
<1> QED
  BY <1>1, <1>2

LEMMA StoreInitially == Init => StoreInv
<1> SUFFICES ASSUME Init PROVE StoreInv
  OBVIOUS
<1>1. /\ LockTypeOK /\ \A a \in Actors : script[a] = "gone" /\ helper[a] = "gone"
  BY DEF Init, LockInit, LockTypeOK
<1>2. /\ snap = <<{"dir", "progress"}>> /\ home = <<Untouched>> /\ Home = Untouched
      /\ record = "new" /\ op = [a \in Actors |-> Idle] /\ last = [a \in Actors |-> "none"]
  BY DEF Init, Untouched, Home, Last
<1>3. StoreOK
  <2>1. {"dir", "progress"} \in SUBSET (Names \union {"dir"})
    BY DEF Names
  <2>2. snap \in Seq(SUBSET (Names \union {"dir"})) /\ snap # <<>>
    BY <1>2, <2>1
  <2> QED
    BY <2>2 DEF Init, StoreOK
<1>4. TreesOK
  <2>1. Untouched \in Places
    BY DEF Places, Trees, Untouched
  <2>2. home \in Seq(Places) /\ home # <<>>
    BY <1>2, <2>1
  <2> QED
    BY <2>2 DEF Init, TreesOK, Versions
<1>5. ProcOK
  <2>1. Idle \in [pc: Pcs, k: 0 .. NFiles + 1, touched: BOOLEAN, renamed: BOOLEAN,
                  undo: BOOLEAN] /\ Idle.pc = "none"
    BY SnapshotBounds DEF Idle, Pcs
  <2>2. faults \in 0 .. MaxFaults
    BY SnapshotBounds DEF Init
  <2> QED
    BY <1>2, <2>1, <2>2 DEF ProcOK, Ops
<1>6. Attended /\ Permitted
  BY <1>1, <1>2 DEF Attended, Permitted, Idle
<1>7. Archiving /\ Activating
  BY <1>2, ActorsAreScripts DEF Archiving, Activating, Placed, Untouched
<1> QED
  BY <1>1, <1>3, <1>4, <1>5, <1>6, <1>7 DEF StoreInv, STypeOK

LEMMA StoreHolds == Spec => [](LockInv /\ StoreInv)
<1>1. Init => LockInv /\ StoreInv
  BY StoreInitially, LockInitially DEF Init
<1>2. LockInv /\ StoreInv /\ [Next]_vars => LockInv' /\ StoreInv'
  <2> SUFFICES ASSUME LockInv, StoreInv, [Next]_vars PROVE LockInv' /\ StoreInv'
    OBVIOUS
  <2>1. [LockNext]_lockVars
    BY StepsLock DEF vars
  <2>2. LockInv' /\ LockTypeOK'
    BY <2>1, LockStep DEF LockInv
  <2> QED
    BY <2>2, StoreStep
<1> HIDE DEF LockInv, StoreInv, Init, Next, vars
<1> QED
  BY <1>1, <1>2, PTL DEF Spec

\* The commands and the scripts of the snapshot follow the protocol of the
\* lock: every step of theirs is one of the lock's, or none (lock-run,
\* run-command and the retention script of server/).
THEOREM SnapshotsLock == Spec => LockSpec
<1>1. Init => LockInit
  BY DEF Init
<1>2. [Next]_vars => [LockNext]_lockVars
  BY StepsLock DEF vars
<1> HIDE DEF Init, Next, vars, LockInit, LockNext, lockVars
<1> QED
  BY <1>1, <1>2, PTL DEF Spec, LockSpec

\* So the update, its recovery and the retention never work at a time on a
\* snapshot, whatever is killed or times out.
THEOREM SnapshotsExclude == Spec => []Exclusive
BY SnapshotsLock, LockExcludes, PTL

\* Every variable keeps its type; a helper that is at a step of its command runs.
THEOREM SnapshotTypes == Spec => []STypeOK
<1>1. StoreInv => STypeOK
  BY DEF StoreInv
<1> HIDE DEF LockInv, StoreInv, STypeOK
<1> QED
  BY <1>1, StoreHolds, PTL

\* From the return of archive-create to the end of the transaction the archive
\* and its receipt survive every error, kill and power loss, and hold contents
\* that each file had (command_archive_create of server/afterlight-safety.py).
THEOREM ArchivesStayDurable == Spec => []ArchiveIsDurable
<1>1. StoreInv => ArchiveIsDurable
  BY DEF StoreInv, Archiving, Durable, Read, ArchiveIsDurable
<1> HIDE DEF LockInv, StoreInv, ArchiveIsDurable
<1> QED
  BY <1>1, StoreHolds, PTL

\* However often a restore is cut off and repeated, no power loss can leave a
\* state without the tree that was there, and a restored tree under the name of
\* DATA_DIR is the archived one (command_archive_restore and
\* activate_verified_destination of server/afterlight-safety.py).
THEOREM DataStaysWhole == Spec => []DataIsWhole
<1>1. StoreInv => DataIsWhole
  BY DEF StoreInv, Activating, Placed, DataIsWhole
<1> HIDE DEF LockInv, StoreInv, DataIsWhole
<1> QED
  BY <1>1, StoreHolds, PTL
=============================================================================
