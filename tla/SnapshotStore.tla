--------------------------- MODULE SnapshotStore ---------------------------
(***************************************************************************)
(* The snapshot of one quest update at the level of the file system        *)
(* (server/afterlight-safety.py archive-create, archive-restore,           *)
(* snapshot-complete, snapshot-prune; server/afterlight-snapshot-          *)
(* retention.sh): which files and directory entries are durable when, what *)
(* an error, a kill or a power loss leaves, and what a repetition finds.   *)
(*                                                                         *)
(* A directory is its journal: the states since its last fsync, the last   *)
(* of which is what programs see; a power loss leaves any one of them.     *)
(* Every step below is one of the helper of an invocation of LockRun.      *)
(*                                                                         *)
(* Owners, modes and link counts are part of a file's version; the pinned  *)
(* descriptors make a substituted path an error and are not modelled.      *)
(***************************************************************************)
EXTENDS LockRun, Sequences, SequencesExt

CONSTANTS
  NFiles,      \* the files of the server's data, in archive order
  MaxFaults    \* bound on errors, kills, deadlines, interferences and power losses

ASSUME ActorsAreScripts == {"update", "retention"} \subseteq Actors
ASSUME SnapshotBounds == NFiles \in Nat \ {0} /\ MaxFaults \in Nat

VARIABLES
  record,   \* the authority: "new", "pending", "archived", "mutated", "absent"
  snap,     \* journal of the snapshot directory: the names in it
  tar,      \* bytes of the archive file: "none", "partial", "written", "synced"
  inv,      \* the versions it holds, which are the receipt's inventory
  home,     \* journal of the parent of DATA_DIR: the tree behind each name
  live,     \* the versions in the tree that was DATA_DIR when the update began
  copy,     \* the versions in the tree that a restore extracts
  synced,   \* the directories of the copy have been synced
  op,       \* the helper's progress, for each invocation
  last,     \* the result of its last helper, as its script sees it
  aged,     \* the retention time of the marker is over
  faults    \* history: the faults so far

storeVars == <<snap, tar, inv, aged>>
treeVars  == <<home, live, copy, synced>>
procVars  == <<op, last>>
vars == <<lockVars, record, storeVars, treeVars, procVars, faults>>

Files    == 1 .. NFiles
Names    == {"receipt", "archive", "progress", "marker"}
Versions == {"old", "late", "new"}
Trees    == {"none", "live", "copy"}

Idle == [pc |-> "none", k |-> 0, touched |-> FALSE, renamed |-> FALSE, undo |-> FALSE]

Pcs == {"none", "c-open", "c-read", "c-sync", "c-receipt", "c-dirsync", "c-unlink", "c-unlink-receipt",
        "r-check", "r-clear", "r-mkdir", "r-extract", "r-sync", "r-verify", "r-move",
        "r-moved", "r-swap", "r-swapped", "r-undo", "m-write", "m-dirsync",
        "p-scan", "p-remove", "p-sync", "p-rmdir", "ok", "failed"}

Places == [{"current", "rescue", "staging"} -> Trees]
Ops == [Actors -> [pc: Pcs, k: 0 .. NFiles + 1, touched: BOOLEAN, renamed: BOOLEAN,
                   undo: BOOLEAN]]

StoreOK ==
  /\ snap \in Seq(SUBSET (Names \union {"dir"})) /\ snap # <<>>
  /\ tar \in {"none", "partial", "written", "synced"}
  /\ inv \in [Files -> Versions \union {"unread", "mixed"}] /\ aged \in BOOLEAN

TreesOK ==
  /\ home \in Seq(Places) /\ home # <<>>
  /\ live \in [Files -> Versions]
  /\ copy \in [Files -> Versions \union {"none", "torn", "unread", "mixed"}]
  /\ synced \in BOOLEAN

\* An operation is the work of a helper.
ProcOK ==
  /\ record \in {"new", "pending", "archived", "mutated", "absent"}
  /\ op \in Ops /\ last \in [Actors -> {"none", "ok", "failed"}]
  /\ faults \in 0 .. MaxFaults
  /\ \A a \in Actors : op[a].pc # "none" => helper[a] = "running"

STypeOK == LockTypeOK /\ StoreOK /\ TreesOK /\ ProcOK

Init ==
  /\ LockInit
  /\ record = "new" /\ snap = <<{"dir", "progress"}>> /\ tar = "none"
  /\ inv = [f \in Files |-> "unread"] /\ aged = FALSE
  /\ home = <<[current |-> "live", rescue |-> "none", staging |-> "none"]>>
  /\ live = [f \in Files |-> "old"] /\ copy = [f \in Files |-> "none"] /\ synced = FALSE
  /\ op = [a \in Actors |-> Idle] /\ last = [a \in Actors |-> "none"] /\ faults = 0

-----------------------------------------------------------------------------
(* The helper's steps. *)

Snap == Last(snap)
Home == Last(home)
Fault == faults < MaxFaults /\ faults' = faults + 1

At(a, pc) == op[a].pc = pc /\ helper[a] = "running"
To(a, pc) == op' = [op EXCEPT ![a].pc = pc]
Enter(names) == snap' = Append(snap, names)
Place(places) == home' = Append(home, places)
SyncSnap == snap' = <<Snap>>
SyncHome == home' = <<Home>>

\* A system call of the step fails, and nothing has happened.
Errs(a, pc, handler) ==
  /\ At(a, pc) /\ Fault /\ To(a, handler)
  /\ UNCHANGED <<lockVars, record, storeVars, treeVars, last>>

Quiet == UNCHANGED <<lockVars, record, last, faults>>

-----------------------------------------------------------------------------
(* archive-create *)

CreateOpen(a) ==
  /\ At(a, "c-open") /\ Quiet
  /\ IF Snap \intersect {"archive", "receipt"} # {}
     THEN To(a, "failed") /\ UNCHANGED <<snap, tar, inv>>
     ELSE /\ Enter(Snap \union {"archive"}) /\ tar' = "partial"
          /\ inv' = [f \in Files |-> "unread"]
          /\ op' = [op EXCEPT ![a].pc = "c-read", ![a].k = 1, ![a].touched = FALSE]
  /\ UNCHANGED <<treeVars, aged>>

\* Somebody writes to the file that is being read.
Interfere(a) ==
  /\ At(a, "c-read") /\ ~op[a].touched /\ op[a].k <= NFiles /\ Fault
  /\ op' = [op EXCEPT ![a].touched = TRUE]
  /\ live' = [live EXCEPT ![op[a].k] = "late"]
  /\ UNCHANGED <<lockVars, record, storeVars, home, copy, synced, last>>

\* The file's identity, size and time are compared before and after the read.
ReadFile(a) ==
  /\ At(a, "c-read") /\ op[a].k <= NFiles /\ Quiet
  /\ IF op[a].touched
     THEN To(a, "c-unlink") /\ inv' = [inv EXCEPT ![op[a].k] = "mixed"]
     ELSE /\ inv' = [inv EXCEPT ![op[a].k] = live[op[a].k]]
          /\ op' = [op EXCEPT ![a].k = @ + 1]
  /\ UNCHANGED <<treeVars, snap, tar, aged>>

CloseTar(a) ==
  /\ At(a, "c-read") /\ op[a].k > NFiles /\ Quiet
  /\ To(a, "c-sync") /\ tar' = "written"
  /\ UNCHANGED <<treeVars, snap, inv, aged>>

SyncTar(a) ==
  /\ At(a, "c-sync") /\ Quiet /\ To(a, "c-receipt") /\ tar' = "synced"
  /\ UNCHANGED <<treeVars, snap, inv, aged>>

\* atomic_write: the receipt's bytes are synced before it is put in place.
WriteReceipt(a) ==
  /\ At(a, "c-receipt") /\ Quiet
  /\ To(a, "c-dirsync") /\ Enter(Snap \union {"receipt"})
  /\ UNCHANGED <<treeVars, tar, inv, aged>>

SyncReceiptNot(a) ==   \* mutant: the directory is not synced
  /\ At(a, "c-dirsync") /\ Quiet /\ To(a, "ok")
  /\ UNCHANGED <<treeVars, snap, tar, inv, aged>>
SyncReceipt(a) ==
  /\ At(a, "c-dirsync") /\ Quiet /\ To(a, "ok") /\ SyncSnap
  /\ UNCHANGED <<treeVars, tar, inv, aged>>

\* The error path unlinks the archive, then the receipt, and syncs.
UnlinkArchive(a) ==
  /\ At(a, "c-unlink") /\ Quiet
  /\ To(a, "c-unlink-receipt") /\ Enter(Snap \ {"archive"}) /\ tar' = "none"
  /\ UNCHANGED <<treeVars, inv, aged>>

UnlinkReceipt(a) ==
  /\ At(a, "c-unlink-receipt") /\ Quiet
  /\ To(a, "failed") /\ snap' = <<Snap \ {"receipt"}>>
  /\ UNCHANGED <<treeVars, tar, inv, aged>>

CreateErrs(a) ==
  \/ Errs(a, "c-open", "failed")
  \/ \E pc \in {"c-read", "c-sync", "c-receipt", "c-dirsync"} : Errs(a, pc, "c-unlink")

Create(a) == \/ CreateOpen(a) \/ ReadFile(a) \/ CloseTar(a) \/ SyncTar(a) \/ WriteReceipt(a)
             \/ SyncReceipt(a) \/ UnlinkArchive(a) \/ UnlinkReceipt(a)

-----------------------------------------------------------------------------
(* archive-restore --resume --activate-current --rescue *)

Authentic == {"archive", "receipt"} \subseteq Snap /\ tar \in {"written", "synced"}
Contents(tree) == IF tree = "live" THEN live ELSE copy
Present(name) == Home[name] # "none"
StagedUnverified == Present("staging")   \* mutant: its inventory is not compared
Staged == Present("staging") /\ copy = inv

\* A partial staging is replaced when it is clear what DATA_DIR is.
NeverReplaced == FALSE   \* mutant
Replaceable == Present("current") # Present("rescue")

Activated == Present("current") /\ Present("rescue") /\ ~Present("staging")

\* The receipt and the archive are authenticated, then what an earlier call
\* has left decides where this one begins.
RestoreCheck(a) ==
  /\ At(a, "r-check") /\ Quiet
  /\ CASE ~Authentic -> To(a, "failed") /\ UNCHANGED home
       [] Authentic /\ Activated ->
            IF Contents(Home.current) = inv
            THEN To(a, "ok") /\ SyncHome
            ELSE To(a, "failed") /\ UNCHANGED home
       [] Authentic /\ Staged -> To(a, "r-move") /\ UNCHANGED home
       [] Authentic /\ Present("staging") /\ ~Staged ->
            /\ To(a, IF Replaceable THEN "r-clear" ELSE "failed")
            /\ UNCHANGED home
       [] Authentic /\ ~Activated /\ ~Present("staging") ->
            To(a, "r-mkdir") /\ UNCHANGED home
  /\ UNCHANGED <<storeVars, live, copy, synced>>

\* remove_owned_tree: file after file, then the directory.
Clearing(a) == At(a, "r-clear") \/ (At(a, "r-undo") /\ op[a].undo)

ClearFile(a) ==
  /\ Clearing(a)
  /\ \E f \in Files : /\ copy[f] # "none" /\ \A g \in Files : g < f => copy[g] = "none"
                      /\ copy' = [copy EXCEPT ![f] = "none"]
  /\ Present("staging") /\ Quiet
  /\ UNCHANGED <<storeVars, home, live, synced, op>>

Cleared == ~Present("staging") \/ \A f \in Files : copy[f] = "none"

ClearStaging(a) ==
  /\ Clearing(a)
  /\ Cleared /\ Quiet
  /\ IF Present("staging") THEN home' = <<[Home EXCEPT !.staging = "none"]>> ELSE UNCHANGED home
  /\ To(a, IF op[a].pc = "r-clear" THEN "r-mkdir" ELSE "failed")
  /\ UNCHANGED <<storeVars, live, copy, synced>>

\* From here on the error path removes the staging directory.
MakeStaging(a) ==
  /\ At(a, "r-mkdir") /\ Quiet
  /\ Place([Home EXCEPT !.staging = "copy"])
  /\ copy' = [f \in Files |-> "none"] /\ synced' = FALSE
  /\ op' = [op EXCEPT ![a].pc = "r-extract", ![a].k = 1, ![a].undo = TRUE]
  /\ UNCHANGED <<storeVars, live>>

\* The digest is that of the bytes read from the archive: os.write may have
\* written fewer, which only the final inventory can tell.
ExtractFile(a) ==
  /\ At(a, "r-extract") /\ op[a].k <= NFiles
  /\ \/ copy' = [copy EXCEPT ![op[a].k] = inv[op[a].k]] /\ UNCHANGED faults
     \/ copy' = [copy EXCEPT ![op[a].k] = "torn"] /\ Fault
  /\ op' = [op EXCEPT ![a].k = @ + 1]
  /\ UNCHANGED <<lockVars, record, last, storeVars, home, live, synced>>

SyncCopy(a) ==
  /\ At(a, "r-extract") /\ op[a].k > NFiles /\ Quiet
  /\ To(a, "r-verify") /\ synced' = TRUE
  /\ UNCHANGED <<storeVars, home, live, copy>>

\* The complete inventory; and current must exist on this path.
VerifyCopy(a) ==
  /\ At(a, "r-verify") /\ Quiet
  /\ To(a, IF copy = inv /\ Present("current") THEN "r-move" ELSE "r-undo")
  /\ UNCHANGED <<storeVars, treeVars>>

\* activate_verified_destination: current becomes rescue.
MoveCurrent(a) ==
  /\ At(a, "r-move") /\ Quiet
  /\ IF ~Replaceable \/ ~Staged
     THEN To(a, "r-undo") /\ UNCHANGED home
     ELSE IF Present("current")
     THEN /\ Place([Home EXCEPT !.rescue = Home.current, !.current = "none"])
          /\ op' = [op EXCEPT ![a].pc = "r-moved", ![a].renamed = TRUE]
     ELSE To(a, "r-swap") /\ UNCHANGED home
  /\ UNCHANGED <<storeVars, live, copy, synced>>

SyncMoved(a) ==
  /\ At(a, "r-moved") /\ Quiet /\ To(a, "r-swap") /\ SyncHome
  /\ UNCHANGED <<storeVars, live, copy, synced>>

\* The verified staging becomes current.
SwapIn(a) ==
  /\ At(a, "r-swap") /\ Quiet
  /\ Place([Home EXCEPT !.current = Home.staging, !.staging = "none"])
  /\ To(a, "r-swapped")
  /\ UNCHANGED <<storeVars, live, copy, synced>>

SyncSwapped(a) ==
  /\ At(a, "r-swapped") /\ Quiet /\ To(a, "ok") /\ SyncHome
  /\ UNCHANGED <<storeVars, live, copy, synced>>

\* The second rename fails: the first is reversed.
SwapFails(a) ==
  /\ At(a, "r-swap") /\ Fault /\ To(a, "r-undo")
  /\ IF op[a].renamed
     THEN home' = <<[Home EXCEPT !.current = Home.rescue, !.rescue = "none"]>>
     ELSE UNCHANGED home
  /\ UNCHANGED <<lockVars, record, last, storeVars, live, copy, synced>>

NothingToUndo(a) ==
  /\ At(a, "r-undo") /\ ~op[a].undo /\ Quiet /\ To(a, "failed")
  /\ UNCHANGED <<storeVars, treeVars>>

RestoreErrs(a) ==
  \/ \E pc \in {"r-check", "r-clear", "r-mkdir"} : Errs(a, pc, "failed")
  \/ \E pc \in {"r-extract", "r-verify", "r-move", "r-moved", "r-swapped"} : Errs(a, pc, "r-undo")

Restore(a) == \/ RestoreCheck(a) \/ ClearFile(a) \/ ClearStaging(a) \/ MakeStaging(a)
              \/ ExtractFile(a) \/ SyncCopy(a) \/ VerifyCopy(a) \/ MoveCurrent(a)
              \/ SyncMoved(a) \/ SwapIn(a) \/ SyncSwapped(a) \/ NothingToUndo(a)

-----------------------------------------------------------------------------
(* snapshot-complete and snapshot-prune *)

\* The marker is written once: an existing one is an error.
WriteMarker(a) ==
  /\ At(a, "m-write") /\ Quiet
  /\ IF "marker" \in Snap THEN To(a, "failed") /\ UNCHANGED snap
     ELSE To(a, "m-dirsync") /\ Enter(Snap \union {"marker"})
  /\ UNCHANGED <<treeVars, tar, inv, aged>>

SyncMarker(a) ==
  /\ At(a, "m-dirsync") /\ Quiet /\ To(a, "ok") /\ SyncSnap
  /\ UNCHANGED <<treeVars, tar, inv, aged>>

\* Only a directory with a successful marker that is old enough is selected.
PruneScan(a) ==
  /\ At(a, "p-scan") /\ Quiet
  /\ To(a, IF "marker" \in Snap /\ aged THEN "p-remove" ELSE "ok")
  /\ UNCHANGED <<storeVars, treeVars>>

\* safe_children is sorted: backup-preflight.json, full-backup.tar.gz,
\* progress, retention.json.
SortedReverse == <<"marker", "progress", "archive", "receipt">>   \* mutant
Sorted == <<"receipt", "archive", "progress", "marker">>
Kept == SelectSeq(Sorted, LAMBDA n : n \in Snap)

PruneEntry(a) ==
  /\ At(a, "p-remove") /\ Quiet
  /\ IF Kept = <<>> THEN To(a, "p-sync") /\ UNCHANGED snap
     ELSE Enter(Snap \ {Head(Kept)}) /\ UNCHANGED op
  /\ UNCHANGED <<treeVars, tar, inv, aged>>

PruneSync(a) ==
  /\ At(a, "p-sync") /\ Quiet /\ To(a, "p-rmdir") /\ SyncSnap
  /\ UNCHANGED <<treeVars, tar, inv, aged>>

PruneDirectory(a) ==
  /\ At(a, "p-rmdir") /\ Quiet /\ To(a, "ok") /\ snap' = <<{}>>
  /\ UNCHANGED <<treeVars, tar, inv, aged>>

Retain(a) == WriteMarker(a) \/ SyncMarker(a) \/ PruneScan(a) \/ PruneEntry(a)
             \/ PruneSync(a) \/ PruneDirectory(a)

RetainErrs(a) ==
  \E pc \in {"m-write", "m-dirsync", "p-scan", "p-remove", "p-sync", "p-rmdir"} :
    Errs(a, pc, "failed")

-----------------------------------------------------------------------------
(* The scripts: the update and its recovery are one actor, retention the other. *)

UNCH == UNCHANGED <<storeVars, treeVars>>

Invoke(a) ==
  /\ AcquireLock(a) /\ last' = [last EXCEPT ![a] = "none"]
  /\ a = "update" => record # "absent"
  /\ UNCHANGED <<record, op, faults>> /\ UNCH

Verify(a) == VerifyLock(a) /\ UNCHANGED <<record, procVars, faults>> /\ UNCH

Call(a, pc) ==
  /\ StartHelper(a) /\ op' = [op EXCEPT ![a] = [Idle EXCEPT !.pc = pc]]
  /\ UNCHANGED <<last, faults>> /\ UNCH

\* The update archives before it mutates, and marks the snapshot of a
\* candidate that it keeps; whatever else happens after the mutation is
\* answered by the restore, in the exit trap or by the recovery.
CallCreate ==
  /\ record = "new" /\ script["update"] = "running" /\ Call("update", "c-open")
  /\ record' = "pending"

CallComplete ==
  /\ record = "mutated" /\ last["update"] = "ok" /\ script["update"] = "running"
  /\ Home.current = "live" /\ "marker" \notin Snap /\ Call("update", "m-write")
  /\ UNCHANGED record

CallRestore ==
  /\ record = "mutated" /\ last["update"] # "ok" /\ Call("update", "r-check")
  /\ UNCHANGED record

\* Retention refuses while there is an authority record.
CallPrune ==
  /\ record = "absent" /\ last["retention"] = "none" /\ Call("retention", "p-scan")
  /\ UNCHANGED record

Script(a) == script[a] \in {"running", "stopping"} /\ sup[a] = "gone"

\* Only the invocation that made the archive goes on to the mutation.
RecordArchived ==
  /\ Script("update") /\ record = "pending" /\ last["update"] = "ok"
  /\ record' = "archived"
  /\ UNCHANGED <<lockVars, procVars, faults>> /\ UNCH

RecordMutated ==
  /\ Script("update") /\ record = "archived" /\ last["update"] = "ok"
  /\ record' = "mutated" /\ live' = [f \in Files |-> "new"]
  /\ UNCHANGED <<lockVars, procVars, faults, storeVars, home, copy, synced>>

\* The candidate fails its verification.
CandidateFails ==
  /\ Script("update") /\ record = "mutated" /\ last["update"] = "ok" /\ Home.current = "live"
  /\ "marker" \notin Snap /\ Fault
  /\ last' = [last EXCEPT !["update"] = "failed"]
  /\ UNCHANGED <<lockVars, record, op>> /\ UNCH

\* Terminal, and the record deleted: the candidate is marked, the old tree is
\* restored, or nothing was mutated.
Resolved ==
  \/ /\ record = "mutated" /\ last["update"] = "ok"
     /\ "marker" \in Snap \/ Home.current = "copy"
  \/ record \in {"pending", "archived"} /\ last["update"] # "ok"

Resolve ==
  /\ Script("update") /\ Resolved /\ record' = "absent"
  /\ UNCHANGED <<lockVars, procVars, faults>> /\ UNCH

\* Seven days later, when the kernel has long written everything back.
Age == /\ record = "absent" /\ "marker" \in Snap /\ ~aged /\ aged' = TRUE
       /\ SyncSnap
       /\ UNCHANGED <<lockVars, record, tar, inv, treeVars, procVars, faults>>

\* The script has no more to do, or a step of it was refused.
Exit(a) ==
  /\ ScriptEnds(a)
  /\ \/ (record = "absent" /\ (a = "update" \/ last[a] # "none"))
     \/ last[a] = "failed"
     \/ script[a] = "stopping"
     \/ (a = "retention" /\ record # "absent")
  /\ UNCHANGED <<record, procVars, faults>> /\ UNCH

Returns(a) == /\ SupReturns(a) \/ RunnerReturns(a)
              /\ UNCHANGED <<record, procVars, faults>> /\ UNCH

Seen(a, result) == last' = IF sup[a] = "gone" THEN last ELSE [last EXCEPT ![a] = result]

Finish(a) ==
  /\ op[a].pc \in {"ok", "failed"} /\ HelperEnds(a)
  /\ Seen(a, op[a].pc) /\ op' = [op EXCEPT ![a] = Idle]
  /\ UNCHANGED <<record, faults>> /\ UNCH

\* SIGTERM or SIGKILL ends the helper without its error path.
Cut(a) ==
  /\ sup[a] = "grace" /\ (HelperEnds(a) \/ SupKills(a))
  /\ Seen(a, "failed") /\ op' = [op EXCEPT ![a] = Idle]
  /\ UNCHANGED <<record, faults>> /\ UNCH

Deadlines(a) ==
  /\ SupTimeout(a) \/ RunnerStops(a)
  /\ Fault /\ UNCHANGED <<record, procVars>> /\ UNCH

\* The grace is over; or a process is killed.
Hit(a) ==
  /\ \/ RunnerKills(a) /\ UNCHANGED faults
     \/ Killed(a) /\ Fault
  /\ UNCHANGED <<record, procVars>> /\ UNCH

-----------------------------------------------------------------------------
\* A power loss leaves a state of each journal. The file system is assumed to
\* write directory changes in order, as ext4 and XFS do: a rename that survives
\* takes the earlier entries of the renamed tree with it. File contents survive
\* only an fsync of their own.
PowerLoss ==
  /\ Fault /\ AllGone
  /\ \E i \in DOMAIN snap : snap' = <<snap[i]>>
  /\ tar' = IF tar = "synced" \/ "archive" \notin Snap THEN tar ELSE "partial"
  /\ \E i \in DOMAIN home, lost \in SUBSET Files :
       /\ home' = <<home[i]>>
       /\ synced \/ home[i].current = "copy" => lost = {}
       /\ copy' = [f \in Files |-> IF f \in lost THEN "none" ELSE copy[f]]
  /\ op' = [a \in Actors |-> Idle] /\ last' = [a \in Actors |-> "none"]
  /\ UNCHANGED <<record, inv, live, synced, aged>>

Work(a) == Create(a) \/ Restore(a) \/ Retain(a)
Trouble(a) == Interfere(a) \/ CreateErrs(a) \/ RestoreErrs(a) \/ SwapFails(a) \/ RetainErrs(a)
              \/ Deadlines(a)
Proceed(a) == Verify(a) \/ Exit(a) \/ Returns(a) \/ Finish(a) \/ Cut(a) \/ Hit(a)
Calls == CallCreate \/ CallComplete \/ CallRestore \/ CallPrune
Decide == RecordArchived \/ RecordMutated \/ Resolve

Next == \/ \E a \in Actors : Invoke(a) \/ Work(a) \/ Trouble(a) \/ Proceed(a)
        \/ Calls \/ Decide \/ CandidateFails \/ Age \/ PowerLoss

Spec == Init /\ [][Next]_vars

-----------------------------------------------------------------------------
(* Properties. *)

\* Once archive-create has returned, no power loss and no later command loses
\* the archive or its receipt while the transaction is unresolved, and what
\* they hold are contents that each file really had.
ArchiveIsDurable ==
  record \in {"archived", "mutated"} =>
    /\ \A i \in DOMAIN snap : {"dir", "archive", "receipt"} \subseteq snap[i]
    /\ tar = "synced" /\ inv \in [Files -> Versions]

\* Whatever an interrupted or failing restore leaves, and a power loss on top
\* of it: the tree that was there is still there, and a restored tree under
\* the name of DATA_DIR holds every file as it was archived, durably.
DataIsWhole ==
  \A i \in DOMAIN home :
    /\ "live" \in {home[i].current, home[i].rescue}
    /\ home[i].current = "copy" => copy = inv

\* An error of the fsync between the two renames makes the error path remove
\* the staging while nothing is under the name of DATA_DIR: archive-restore
\* extracts again but then demands the directory, however often it is called.
Stranded == Home.current = "none" /\ ~Staged

\* The operator repeats a recovery, and the timer the retention, until each is
\* done; the programs take their steps, a helper past its grace is killed.
Fairness ==
  /\ \A a \in Actors :
       /\ WF_vars(Work(a)) /\ WF_vars(Verify(a)) /\ WF_vars(Exit(a)) /\ WF_vars(Returns(a))
       /\ WF_vars(Finish(a)) /\ WF_vars(Cut(a)) /\ WF_vars(RunnerKills(a) /\ Hit(a))
       /\ SF_vars(Invoke(a))
  /\ WF_vars(Calls) /\ WF_vars(Decide)

FairSpec == Spec /\ Fairness

\* A mutated transaction is resolved by repeating the recovery, from whatever
\* a kill, an error or a power loss left at any step of it.
RestoreConverges ==
  record = "mutated" ~> record = "absent" \/ Stranded

\* The marker is the last file a prune removes, so that an interrupted prune is
\* selected again and nothing of an expired snapshot stays but an empty directory.
PruneConverges == aged ~> Snap \subseteq {"dir"}
=============================================================================
