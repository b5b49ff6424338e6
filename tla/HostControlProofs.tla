-------------------------- MODULE HostControlProofs --------------------------
(***************************************************************************)
(* What the lock, the authority and the order of a command's steps keep,   *)
(* for all revisions and bounds: the types, the players' progress, a       *)
(* marker that names a proven revision, a quest update left alone; and, in *)
(* the second half, the archive a command relies on, the revision that     *)
(* runs and the quests of a marked world.                                  *)
(***************************************************************************)
EXTENDS HostControl, TLAPS

\* The lock and the authority keep the commands and the quest update apart.
Exclusive ==
  /\ lock = "host" => authority = "absent"
  /\ lock = "transaction" => authority = "active"
  /\ authority = "active" =>
       minecraft = "down" /\ data # NoTree /\ data.marker \in Releases

\* A container that runs has a world and a revision, and players need both.
Served ==
  /\ minecraft # "down" => data # NoTree /\ release \in Releases
  /\ minecraft = "healthy" => release \in data.proven
  /\ online => minecraft = "healthy"

\* The steps of a start, of a rollback's exchange, and before an archive is written.
Starting == {"up", "health", "mark", "up-backup", "backup-health"}
Swapping == {"stop", "swap-out", "swap-in"}
Reserving == {"maintain", "countdown", "check-update", "backup", "exec"}

\* What a step may rely on, because the steps before it have seen to it.
Underway ==
  lock = "host" =>
    /\ call.pc \in Starting => data # NoTree /\ call.sha \in Releases
    /\ call.pc = "health" => minecraft # "down" /\ release = call.sha
    /\ call.pc = "mark" => call.sha \in data.proven
    /\ call.cmd = "update" /\ call.pc # "check-update" =>
         data # NoTree /\ call.sha \in Releases
    /\ call.pc = "swap-out" => data # NoTree
    /\ call.pc = "swap-in" => data = NoTree
    /\ call.pc \in {"swap-out", "swap-in"} => minecraft = "down" /\ call.cmd = "rollback"
    /\ call.pc \in Reserving => Len(archives) < MaxArchives
    /\ call.pc = "extract" => call.archive \in 1 .. Len(archives)
    /\ call.cmd = "rollback" /\ call.pc \in Swapping =>
         /\ staging # NoTree /\ call.sha \in Releases
         /\ call.pc = "stop" => data # NoTree
    /\ call.cmd = "rollback" => call.parent = "operator"
    /\ call.cmd = "update" => call.parent = "operator"

\* A marker names a revision proven on its tree; so it does in the trees that
\* a rollback may put in the place of DATA_DIR.
Named(t) == t # NoTree => t.marker \in t.proven \union {NoRelease}

Proven == /\ Named(data) /\ Named(staging)
          /\ \A t \in rescues : Named(t)
          /\ \A i \in 1 .. Len(archives) : Named(archives[i])

\* What every step keeps.
HInv == HTypeOK /\ Exclusive /\ Served /\ Underway /\ Proven /\ EarnedIsKept

-----------------------------------------------------------------------------
(* The records and the counters. *)

LEMMA Booleans == TRUE \in BOOLEAN /\ FALSE \in BOOLEAN
BY Zenon

\* What the steps change of a tree.
LEMMA MarkedTree ==
  ASSUME NEW t \in Tree, NEW r \in Releases, NEW u, u = [t EXCEPT !.marker = r]
  PROVE  u \in Tree /\ u.marker = r /\ u.proven = t.proven /\ u.items = t.items
BY DEF Tree, Marks

LEMMA InstalledTree ==
  ASSUME NEW t \in Tree, NEW r \in Releases, NEW u,
         u = [t EXCEPT !.world = TRUE, !.pack = r, !.owned = TRUE]
  PROVE  u \in Tree /\ u.marker = t.marker /\ u.proven = t.proven /\ u.items = t.items
BY Booleans DEF Tree, Marks

LEMMA ProvenTree ==
  ASSUME NEW t \in Tree, NEW r \in Releases, NEW u, u = [t EXCEPT !.proven = @ \union {r}]
  PROVE  u \in Tree /\ u.marker = t.marker /\ u.proven = t.proven \union {r} /\ u.items = t.items
BY DEF Tree, Marks

LEMMA EarningTree ==
  ASSUME NEW t \in Tree, NEW i \in Items, NEW u, u = [t EXCEPT !.items = @ \union {i}]
  PROVE  u \in Tree /\ u.marker = t.marker /\ u.proven = t.proven /\ u.items = t.items \union {i}
BY DEF Tree, Marks

LEMMA ExtractedTree ==
  ASSUME NEW t \in Tree, NEW u, u = [t EXCEPT !.owned = FALSE]
  PROVE  u \in Tree /\ u.marker = t.marker /\ u.proven = t.proven /\ u.items = t.items
BY Booleans DEF Tree, Marks

\* The parts of a tree.
LEMMA TreeFields ==
  ASSUME NEW t \in Tree
  PROVE  /\ t.marker \in Marks /\ t.proven \in SUBSET Releases /\ t.items \in SUBSET Items
BY DEF Tree

\* A counter that has room stays a counter.
LEMMA CountTypes ==
  ASSUME faults \in Faults, NEW f \in {"errors", "kills", "updates"}, Count(f)
  PROVE  faults' \in Faults
BY LimitsAreNatural, SMTT(30) DEF Count, Spent, Faults

LEMMA OtherCountTypes ==
  ASSUME faults \in Faults
  PROVE  /\ faults.rollbacks < MaxRollbacks =>
              [faults EXCEPT !.rollbacks = @ + 1] \in Faults
         /\ faults.checkouts < MaxCheckouts =>
              [faults EXCEPT !.checkouts = @ + 1] \in Faults
         /\ Spent + 2 <= MaxFaults => [faults EXCEPT !.errors = @ + 2] \in Faults
<1>1. /\ faults.rollbacks < MaxRollbacks => faults.rollbacks + 1 \in 0 .. MaxRollbacks
      /\ faults.checkouts < MaxCheckouts => faults.checkouts + 1 \in 0 .. MaxCheckouts
      /\ Spent + 2 <= MaxFaults => faults.errors + 2 \in 0 .. MaxFaults
  BY LimitsAreNatural DEF Spent, Faults
<1> QED
  BY <1>1 DEF Faults

\* What the steps change of a call.
Same(c, d) == d.cmd = c.cmd /\ d.parent = c.parent /\ d.archive = c.archive

LEMMA IdleCall == NoCall \in Calls
BY Booleans DEF NoCall, Calls, Commands, Parents, Steps, Marks

LEMMA BegunCall ==
  ASSUME NEW cmd \in Commands, NEW parent \in Parents, NEW pc \in Steps,
         BeginCall(cmd, parent, pc), data \in Tree \union {NoTree}
  PROVE  /\ lock' = "host" /\ call' \in Calls
         /\ call'.cmd = cmd /\ call'.parent = parent /\ call'.pc = pc
<1>1. (IF data = NoTree THEN {} ELSE data.items) \in SUBSET Items
  BY TreeFields
<1> QED
  BY <1>1, IdleCall DEF Calls, BeginCall

LEMMA MovedCall ==
  ASSUME call \in Calls, NEW pc \in Steps, Goto(pc)
  PROVE  /\ lock' = lock /\ call' \in Calls
         /\ call'.pc = pc /\ call'.sha = call.sha /\ Same(call, call')
BY DEF Calls, Goto, Same

LEMMA PinnedCall ==
  ASSUME call \in Calls, NEW pc \in Steps, NEW sha \in Marks,
         call' = [call EXCEPT !.pc = pc, !.sha = sha]
  PROVE  call' \in Calls /\ call'.pc = pc /\ call'.sha = sha /\ Same(call, call')
BY DEF Calls, Same

LEMMA BackedUpCall ==
  ASSUME call \in Calls, NEW pc \in Steps, NEW n \in Nat,
         \/ call' = [call EXCEPT !.pc = pc, !.before = n]
         \/ call' = [call EXCEPT !.pc = pc, !.archive = n]
  PROVE  /\ call' \in Calls /\ call'.pc = pc /\ call'.sha = call.sha
         /\ call'.cmd = call.cmd /\ call'.parent = call.parent
BY DEF Calls

LEMMA ObservedCall ==
  ASSUME call \in Calls, NEW pc \in Steps, NEW b \in BOOLEAN,
         \/ call' = [call EXCEPT !.pc = pc, !.observed = b]
         \/ call' = [call EXCEPT !.observed = b, !.pc = pc]
         \/ pc = call.pc /\ call' = [call EXCEPT !.observed = b]
  PROVE  call' \in Calls /\ call'.pc = pc /\ call'.sha = call.sha /\ Same(call, call')
BY DEF Calls, Same

LEMMA TurnedCall ==
  ASSUME call \in Calls, NEW pc \in Steps, NEW cmd \in Commands,
         call' = [call EXCEPT !.cmd = cmd, !.pc = pc]
  PROVE  /\ call' \in Calls /\ call'.pc = pc /\ call'.sha = call.sha
         /\ call'.cmd = cmd /\ call'.parent = call.parent
BY DEF Calls

\* The end of a command leaves nothing to rely on.
LEMMA EndedCall ==
  ASSUME ControlOK, Exclusive, lock = "host", Exit, UNCHANGED <<head, authority>>
  PROVE  ControlOK' /\ Exclusive' /\ Underway'
BY IdleCall DEF ControlOK, Exclusive, Underway, Exit

-----------------------------------------------------------------------------
(* Steps that change only the lock, the call, HEAD and the counters. *)

LEMMA WorldUntouched ==
  ASSUME HInv, UNCHANGED <<worldVars, svcVars, online>>
  PROVE  WorldOK' /\ ServiceOK' /\ Served' /\ Proven' /\ EarnedIsKept'
BY DEF HInv, HTypeOK, WorldOK, ServiceOK, Served, Proven, Named, EarnedIsKept,
       worldVars, treeVars, svcVars

\* A command begins where it relies on nothing.
LEMMA BegunKeeps ==
  ASSUME HInv, NEW cmd \in Commands, NEW parent \in Parents, NEW pc \in Steps,
         TakeLock(cmd, parent, pc), Unchanged,
         cmd # "rollback", cmd = "update" => pc = "check-update" /\ parent = "operator",
         pc \notin Starting, pc \notin {"swap-out", "swap-in", "extract"},
         pc \in Reserving => Len(archives) < MaxArchives
  PROVE  ControlOK' /\ Exclusive' /\ Underway'
<1>1. /\ lock' = "host" /\ call' \in Calls
      /\ call'.cmd = cmd /\ call'.parent = parent /\ call'.pc = pc
  BY BegunCall DEF HInv, HTypeOK, WorldOK, TakeLock
<1>2. ControlOK' /\ Exclusive'
  BY <1>1 DEF HInv, HTypeOK, ControlOK, Exclusive, TakeLock, Unchanged
<1>3. Underway'
  BY <1>1 DEF Underway, Starting, Unchanged, worldVars
<1> QED
  BY <1>2, <1>3

LEMMA BeginningKeeps ==
  HInv /\ (OperatorBegin \/ RollbackBegin \/ MaintenanceBegin) => HInv'
<1> SUFFICES ASSUME HInv, OperatorBegin \/ RollbackBegin \/ MaintenanceBegin
             PROVE  HInv'
  OBVIOUS
<1>1. Unchanged
  BY DEF OperatorBegin, RollbackBegin, MaintenanceBegin
<1>2. WorldOK' /\ ServiceOK' /\ Served' /\ Proven' /\ EarnedIsKept'
  BY <1>1, WorldUntouched DEF Unchanged
<1>3. CASE OperatorBegin
  <2>1. ControlOK' /\ Exclusive' /\ Underway'
    BY <1>1, <1>3, BegunKeeps DEF OperatorBegin, Commands, Parents, Steps, Starting, Reserving
  <2> QED
    BY <1>2, <1>3, <2>1 DEF HInv, HTypeOK, OperatorBegin
<1>4. CASE MaintenanceBegin
  <2>1. ControlOK' /\ Exclusive' /\ Underway'
    BY <1>1, <1>4, BegunKeeps DEF MaintenanceBegin, Commands, Parents, Steps, Starting, Reserving
  <2> QED
    BY <1>2, <1>4, <2>1 DEF HInv, HTypeOK, MaintenanceBegin
<1>5. CASE RollbackBegin
  <2>1. PICK i \in 1 .. Len(archives) :
          /\ lock = "free" /\ authority = "absent" /\ lock' = "host"
          /\ call' = [NoCall EXCEPT !.cmd = "rollback", !.pc = "extract", !.archive = i]
    BY <1>5 DEF RollbackBegin
  <2>2. i \in Nat /\ i <= Len(archives)
    BY DEF HInv, HTypeOK, WorldOK
  <2>3. /\ call' \in Calls /\ call'.cmd = "rollback" /\ call'.pc = "extract"
        /\ call'.archive = i /\ call'.parent = "operator"
    BY <2>1, <2>2, IdleCall DEF NoCall, Calls, Commands, Steps
  <2>4. ControlOK' /\ Exclusive'
    BY <1>1, <2>1, <2>3 DEF HInv, HTypeOK, ControlOK, Exclusive, Unchanged
  <2>5. Underway'
    BY <1>1, <2>1, <2>2, <2>3 DEF Underway, Starting, Swapping, Reserving, Unchanged, worldVars
  <2>6. faults' \in Faults
    BY <1>5, OtherCountTypes DEF HInv, HTypeOK, RollbackBegin
  <2> QED
    BY <1>2, <2>4, <2>5, <2>6 DEF HInv, HTypeOK
<1> QED
  BY <1>3, <1>4, <1>5

-----------------------------------------------------------------------------
(* Steps of a command that change only the call. *)

\* A step on the way from the beginning of a command to its stop.
LEMMA MovedKeeps ==
  ASSUME HInv, lock = "host", UNCHANGED <<worldVars, svcVars, head, authority, lock>>,
         call' \in Calls, call'.cmd = call.cmd, call'.parent = call.parent,
         call'.sha = call.sha \/ (data # NoTree /\ call'.sha \in Releases),
         call'.pc \notin Starting, call'.pc \notin {"swap-out", "swap-in", "extract"},
         call.cmd = "rollback" => call'.pc # "stop",
         call.cmd = "update" /\ call.pc = "check-update" =>
           data # NoTree /\ call'.sha \in Releases,
         call'.pc \in Reserving => call.pc \in Reserving
  PROVE  ControlOK' /\ Exclusive' /\ Underway'
<1>1. ControlOK' /\ Exclusive'
  BY DEF HInv, HTypeOK, ControlOK, Exclusive, worldVars, treeVars, svcVars
<1>2. Underway'
  BY DEF HInv, Underway, Starting, Swapping, Reserving, worldVars, treeVars
<1> QED
  BY <1>1, <1>2

\* A step of the start, whose world and revision are known.
LEMMA StartedKeeps ==
  ASSUME HInv, lock = "host", UNCHANGED <<worldVars, svcVars, head, authority, lock>>,
         call' \in Calls, call'.cmd = call.cmd, call'.parent = call.parent,
         call'.pc \in Starting, data # NoTree, call'.sha \in Releases,
         call'.pc = "health" => minecraft # "down" /\ release = call'.sha,
         call'.pc = "mark" => call'.sha \in data.proven
  PROVE  ControlOK' /\ Exclusive' /\ Underway'
<1>1. ControlOK' /\ Exclusive'
  BY DEF HInv, HTypeOK, ControlOK, Exclusive, worldVars, treeVars, svcVars
<1>2. Underway'
  BY DEF HInv, Underway, Starting, Swapping, Reserving, worldVars, treeVars, svcVars
<1> QED
  BY <1>1, <1>2

\* The tests before a start and before an update.
LEMMA CheckingKeeps == HInv /\ (CheckStart \/ CheckUpdate) => HInv'
<1> SUFFICES ASSUME HInv, CheckStart \/ CheckUpdate PROVE HInv'
  OBVIOUS
<1>1. lock = "host" /\ Unchanged /\ UNCHANGED faults
  BY DEF CheckStart, CheckUpdate, At
<1>2. WorldOK' /\ ServiceOK' /\ Served' /\ Proven' /\ EarnedIsKept'
  BY <1>1, WorldUntouched DEF Unchanged
<1>3. call \in Calls /\ head \in Releases /\ head \in Marks
  BY DEF HInv, HTypeOK, ControlOK, Marks
<1>4. ControlOK' /\ Exclusive' /\ Underway'
  <2>1. CASE Exit
    BY <1>1, <2>1, EndedCall DEF HInv, HTypeOK, Unchanged
  <2>2. CASE CheckStart /\ ~Exit
    <3>1. /\ data # NoTree /\ UNCHANGED lock
          /\ call' = [call EXCEPT !.pc = "up", !.sha = head]
      BY <2>2 DEF CheckStart, Doctor
    <3>2. call' \in Calls /\ call'.pc = "up" /\ call'.sha = head /\ Same(call, call')
      BY <1>3, <3>1, PinnedCall DEF Steps
    <3> QED
      BY <1>1, <1>3, <3>1, <3>2, StartedKeeps DEF Same, Starting, Unchanged
  <2>3. CASE CheckUpdate /\ ~Exit
    <3>1. /\ data # NoTree /\ UNCHANGED lock /\ call.pc = "check-update"
          /\ call' = [call EXCEPT !.pc = "backup", !.sha = head]
      BY <2>3 DEF CheckUpdate, Doctor, At
    <3>2. call' \in Calls /\ call'.pc = "backup" /\ call'.sha = head /\ Same(call, call')
      BY <1>3, <3>1, PinnedCall DEF Steps
    <3> QED
      BY <1>1, <1>3, <3>1, <3>2, MovedKeeps DEF Same, Starting, Reserving, Unchanged
  <2> QED
    BY <2>1, <2>2, <2>3
<1> QED
  BY <1>1, <1>2, <1>4 DEF HInv, HTypeOK

\* The waits.
LEMMA WaitingKeeps == HInv /\ (WaitHealthy \/ BackupHealthy) => HInv'
<1> SUFFICES ASSUME HInv, WaitHealthy \/ BackupHealthy PROVE HInv'
  OBVIOUS
<1>1. lock = "host" /\ Unchanged /\ UNCHANGED faults
  BY DEF WaitHealthy, BackupHealthy, At
<1>2. WorldOK' /\ ServiceOK' /\ Served' /\ Proven' /\ EarnedIsKept'
  BY <1>1, WorldUntouched DEF Unchanged
<1>3. ControlOK' /\ Exclusive' /\ Underway'
  <2>1. CASE WaitHealthy
    <3> DEFINE next == IF call.cmd = "rollback" THEN "up-backup" ELSE "mark"
    <3>1. minecraft = "healthy" /\ call.pc = "health" /\ Goto(next)
      BY <2>1 DEF WaitHealthy, At
    <3>2. data # NoTree /\ call.sha \in Releases /\ call.sha \in data.proven
      BY <1>1, <3>1 DEF HInv, Underway, Served, Starting
    <3>3. next \in {"up-backup", "mark"}
      OBVIOUS
    <3>4. /\ lock' = lock /\ call' \in Calls
          /\ call'.pc = next /\ call'.sha = call.sha /\ Same(call, call')
      <4> HIDE DEF next
      <4> QED
        BY <3>1, <3>3, MovedCall DEF HInv, HTypeOK, ControlOK, Steps
    <3> HIDE DEF next
    <3> QED
      BY <1>1, <3>2, <3>3, <3>4, StartedKeeps DEF Same, Starting, Unchanged
  <2>2. CASE BackupHealthy
    BY <1>1, <2>2, EndedCall DEF HInv, HTypeOK, BackupHealthy, Unchanged
  <2> QED
    BY <2>1, <2>2
<1> QED
  BY <1>1, <1>2, <1>3 DEF HInv, HTypeOK

\* The backup, where it does not write.
LEMMA BackingUpKeeps == HInv /\ (BackupBegin \/ VerifyBackup) => HInv'
<1> SUFFICES ASSUME HInv, BackupBegin \/ VerifyBackup PROVE HInv'
  OBVIOUS
<1>1. lock = "host" /\ Unchanged /\ UNCHANGED faults
  BY DEF BackupBegin, VerifyBackup, At
<1>2. WorldOK' /\ ServiceOK' /\ Served' /\ Proven' /\ EarnedIsKept'
  BY <1>1, WorldUntouched DEF Unchanged
<1>3. call \in Calls /\ Len(archives) \in Nat
  BY DEF HInv, HTypeOK, ControlOK, WorldOK
<1>4. ControlOK' /\ Exclusive' /\ Underway'
  <2>1. CASE Exit
    BY <1>1, <2>1, EndedCall DEF HInv, HTypeOK, Unchanged
  <2>2. CASE BackupBegin /\ ~Exit
    <3>1. /\ UNCHANGED lock /\ call.pc = "backup"
          /\ call' = [call EXCEPT !.pc = "exec", !.before = Len(archives)]
      BY <2>2 DEF BackupBegin, At
    <3>2. /\ call' \in Calls /\ call'.pc = "exec" /\ call'.sha = call.sha
          /\ call'.cmd = call.cmd /\ call'.parent = call.parent
      BY <1>3, <3>1, BackedUpCall DEF Steps
    <3> QED
      BY <1>1, <3>1, <3>2, MovedKeeps DEF Starting, Reserving, Unchanged
  <2>3. CASE VerifyBackup /\ ~Exit
    <3>1. PICK i \in Fresh : AfterBackup(i)
      BY <2>3 DEF VerifyBackup
    <3>2. i \in Nat /\ call.pc = "verify"
      BY <1>3, <2>3 DEF Fresh, VerifyBackup, At, Calls
    <3>3. \/ /\ call.cmd = "update" /\ UNCHANGED lock
             /\ call' = [call EXCEPT !.pc = "stop", !.archive = i]
          \/ /\ call.parent # "operator" /\ UNCHANGED lock
             /\ call' = [call EXCEPT !.pc = "revalidate", !.archive = i]
      <4>1. CASE call.cmd = "update"
        BY <3>1, <4>1 DEF AfterBackup
      <4>2. CASE call.cmd # "update" /\ call.parent # "operator"
        BY <3>1, <4>2 DEF AfterBackup
      <4>3. CASE call.cmd # "update" /\ call.parent = "operator"
        BY <2>3, <3>1, <4>3 DEF AfterBackup
      <4> QED
        BY <4>1, <4>2, <4>3
    <3>4. /\ call' \in Calls /\ call'.pc \in {"stop", "revalidate"} /\ call'.sha = call.sha
          /\ call'.cmd = call.cmd /\ call'.parent = call.parent
      BY <1>3, <3>2, <3>3, BackedUpCall DEF Steps
    <3>5. call.cmd = "rollback" => call'.pc # "stop"
      BY <1>1, <3>3, <3>4 DEF HInv, Underway, Calls
    <3> QED
      BY <1>1, <3>2, <3>3, <3>4, <3>5, MovedKeeps DEF Starting, Reserving, Unchanged
  <2> QED
    BY <2>1, <2>2, <2>3
<1> QED
  BY <1>1, <1>2, <1>4 DEF HInv, HTypeOK

\* The tests of the maintenance.
LEMMA MaintainingKeeps == HInv /\ (Maintain \/ Countdown \/ Revalidate) => HInv'
<1> SUFFICES ASSUME HInv, Maintain \/ Countdown \/ Revalidate PROVE HInv'
  OBVIOUS
<1>1. lock = "host" /\ Unchanged /\ UNCHANGED faults
  BY DEF Maintain, Countdown, Revalidate, At
<1>2. WorldOK' /\ ServiceOK' /\ Served' /\ Proven' /\ EarnedIsKept'
  BY <1>1, WorldUntouched DEF Unchanged
<1>3. call \in Calls
  BY DEF HInv, HTypeOK, ControlOK
<1>4. ControlOK' /\ Exclusive' /\ Underway'
  <2>1. CASE Exit
    BY <1>1, <2>1, EndedCall DEF HInv, HTypeOK, Unchanged
  <2>2. CASE Maintain /\ ~Exit
    <3> DEFINE next == IF call.parent = "idle" THEN "backup" ELSE "countdown"
    <3>1. /\ UNCHANGED lock /\ call.pc = "maintain"
          /\ call' = [call EXCEPT !.observed = TRUE, !.pc = next]
      BY <2>2 DEF Maintain, At
    <3>2. next \in {"backup", "countdown"}
      OBVIOUS
    <3> HIDE DEF next
    <3>3. call' \in Calls /\ call'.pc = next /\ call'.sha = call.sha /\ Same(call, call')
      BY <1>3, <3>1, <3>2, ObservedCall DEF Steps
    <3> QED
      BY <1>1, <3>1, <3>2, <3>3, MovedKeeps DEF Same, Starting, Reserving, Unchanged
  <2>3. CASE Countdown /\ ~Exit
    <3>1. Goto("backup") /\ call.pc = "countdown"
      BY <2>3 DEF Countdown, At
    <3>2. /\ lock' = lock /\ call' \in Calls /\ call'.pc = "backup"
          /\ call'.sha = call.sha /\ Same(call, call')
      BY <1>3, <3>1, MovedCall DEF Steps
    <3> QED
      BY <1>1, <3>1, <3>2, MovedKeeps DEF Same, Starting, Reserving, Unchanged
  <2>4. CASE Revalidate /\ ~Exit
    <3>1. /\ UNCHANGED lock /\ call.pc = "revalidate"
          /\ call' = [call EXCEPT !.cmd = "stop", !.pc = "stop"]
      BY <2>4 DEF Revalidate, At
    <3>2. /\ call' \in Calls /\ call'.pc = "stop" /\ call'.cmd = "stop"
          /\ call'.parent = call.parent
      BY <1>3, <3>1, TurnedCall DEF Steps, Commands
    <3>3. ControlOK' /\ Exclusive'
      BY <1>1, <3>1, <3>2 DEF HInv, HTypeOK, ControlOK, Exclusive, Unchanged, worldVars,
                              treeVars, svcVars
    <3>4. Underway'
      BY <3>2 DEF Underway, Starting, Reserving
    <3> QED
      BY <3>3, <3>4
  <2> QED
    BY <2>1, <2>2, <2>3, <2>4
<1> QED
  BY <1>1, <1>2, <1>4 DEF HInv, HTypeOK

-----------------------------------------------------------------------------
(* Steps of a command that change containers. *)

LEMMA ComposingKeeps == HInv /\ (ComposeUp \/ UpBackup) => HInv'
<1> SUFFICES ASSUME HInv, ComposeUp \/ UpBackup PROVE HInv'
  OBVIOUS
<1>1. /\ lock = "host" /\ UNCHANGED <<lock, head, authority, worldVars, faults>>
      /\ call.pc \in Starting
  BY DEF ComposeUp, UpBackup, At, Goto, Starting
<1>2. data # NoTree /\ call.sha \in Releases /\ call \in Calls /\ authority = "absent"
  BY <1>1 DEF HInv, HTypeOK, ControlOK, Underway, Exclusive
<1>3. WorldOK' /\ Proven' /\ EarnedIsKept' /\ faults' \in Faults
  BY <1>1 DEF HInv, HTypeOK, WorldOK, Proven, Named, EarnedIsKept, worldVars, treeVars
<1>4. ServiceOK' /\ Served'
  BY <1>1, <1>2, Booleans
  DEF HInv, HTypeOK, ServiceOK, Served, Marks, ComposeUp, UpBackup, worldVars, treeVars, svcVars
<1>5. /\ call' \in Calls /\ call'.sha = call.sha /\ Same(call, call')
      /\ \/ call'.pc = "health" /\ minecraft' # "down" /\ release' = call.sha
         \/ call'.pc = "backup-health"
  <2>1. CASE UpBackup
    BY <1>2, <2>1, MovedCall DEF UpBackup, Steps
  <2>2. CASE ComposeUp /\ Goto("health")
    BY <1>2, <2>2, MovedCall DEF ComposeUp, Steps, svcVars
  <2>3. CASE ComposeUp /\ ~Goto("health")
    BY <1>2, <2>3, ObservedCall, Booleans DEF ComposeUp, Steps
  <2> QED
    BY <2>1, <2>2, <2>3
<1>6. ControlOK' /\ Exclusive'
  BY <1>1, <1>2, <1>5 DEF HInv, HTypeOK, ControlOK, Exclusive
<1>7. Underway'
  BY <1>1, <1>2, <1>5 DEF HInv, Underway, Starting, Swapping, Reserving, Same, worldVars, treeVars
<1> QED
  BY <1>3, <1>4, <1>6, <1>7 DEF HInv, HTypeOK

\* Stopping both services leaves the world alone.
LEMMA StoppedServices ==
  ASSUME HInv, StopServices, UNCHANGED worldVars
  PROVE  WorldOK' /\ ServiceOK' /\ Served' /\ Proven' /\ EarnedIsKept'
<1>1. WorldOK' /\ Proven' /\ EarnedIsKept'
  BY DEF HInv, HTypeOK, WorldOK, Proven, Named, EarnedIsKept, worldVars, treeVars
<1>2. ServiceOK' /\ Served'
  BY Booleans DEF HInv, HTypeOK, ServiceOK, Served, StopServices
<1> QED
  BY <1>1, <1>2

LEMMA StopKeeps == HInv /\ Stop => HInv'
<1> SUFFICES ASSUME HInv, Stop PROVE HInv'
  OBVIOUS
<1>1. /\ lock = "host" /\ call.pc = "stop" /\ minecraft' = "down" /\ AfterStop
      /\ UNCHANGED <<head, authority, worldVars, faults>> /\ StopServices
  BY DEF Stop, At, StopServices
<1>2. WorldOK' /\ ServiceOK' /\ Served' /\ Proven' /\ EarnedIsKept'
  BY <1>1, StoppedServices
<1>3. /\ call \in Calls /\ authority = "absent"
      /\ call.cmd \in {"update", "rollback"} => call.parent = "operator"
  BY <1>1 DEF HInv, HTypeOK, ControlOK, Exclusive, Underway
<1>4. ControlOK' /\ Exclusive' /\ Underway'
  <2>1. CASE Exit
    BY <1>1, <2>1, EndedCall DEF HInv, HTypeOK
  <2>2. CASE call.cmd = "update"
    <3>1. Goto("up")
      BY <1>1, <1>3, <2>2 DEF AfterStop
    <3>2. /\ lock' = lock /\ call' \in Calls /\ call'.pc = "up"
          /\ call'.sha = call.sha /\ Same(call, call')
      BY <1>3, <3>1, MovedCall DEF Steps
    <3>3. data # NoTree /\ call.sha \in Releases
      BY <1>1, <2>2 DEF HInv, Underway
    <3>4. ControlOK' /\ Exclusive'
      BY <1>1, <1>3, <3>2 DEF HInv, HTypeOK, ControlOK, Exclusive
    <3>5. Underway'
      BY <1>1, <2>2, <3>2, <3>3 DEF HInv, Underway, Starting, Reserving, Same, worldVars, treeVars
    <3> QED
      BY <3>4, <3>5
  <2>3. CASE call.cmd = "rollback"
    <3>1. Goto("swap-out")
      BY <1>1, <1>3, <2>3 DEF AfterStop
    <3>2. /\ lock' = lock /\ call' \in Calls /\ call'.pc = "swap-out"
          /\ call'.sha = call.sha /\ Same(call, call')
      BY <1>3, <3>1, MovedCall DEF Steps
    <3>3. ControlOK' /\ Exclusive'
      BY <1>1, <1>3, <3>2 DEF HInv, HTypeOK, ControlOK, Exclusive
    <3>4. Underway'
      BY <1>1, <2>3, <3>2 DEF HInv, Underway, Starting, Swapping, Reserving, Same, worldVars, treeVars
    <3> QED
      BY <3>3, <3>4
  <2>4. CASE call.cmd \notin {"update", "rollback"} /\ ~Exit
    <3>1. call' = [call EXCEPT !.cmd = "start", !.pc = "check-start"] /\ UNCHANGED lock
      BY <1>1, <2>4 DEF AfterStop
    <3>2. /\ call' \in Calls /\ call'.pc = "check-start" /\ call'.cmd = "start"
          /\ call'.parent = call.parent
      BY <1>3, <3>1, TurnedCall DEF Steps, Commands
    <3>3. ControlOK' /\ Exclusive'
      BY <1>1, <1>3, <3>1, <3>2 DEF HInv, HTypeOK, ControlOK, Exclusive
    <3>4. Underway'
      BY <3>2 DEF Underway, Starting, Reserving
    <3> QED
      BY <3>3, <3>4
  <2> QED
    BY <2>1, <2>2, <2>3, <2>4
<1> QED
  BY <1>1, <1>2, <1>4 DEF HInv, HTypeOK

\* A failing step; a failed start stops the server unless that fails too.
LEMMA FailingKeeps == HInv /\ (StartFails \/ StopFails \/ SwapFails \/ RconFails \/ Kill) => HInv'
<1> SUFFICES ASSUME HInv, StartFails \/ StopFails \/ SwapFails \/ RconFails \/ Kill
             PROVE  HInv'
  OBVIOUS
<1>1. lock = "host" /\ Exit /\ UNCHANGED <<head, authority, worldVars>>
  BY DEF StartFails, StopFails, SwapFails, RconFails, Kill, At, Unchanged
<1>2. StopServices \/ UNCHANGED <<svcVars, online>>
  BY DEF StartFails, StopFails, SwapFails, RconFails, Kill, Unchanged
<1>3. WorldOK' /\ ServiceOK' /\ Served' /\ Proven' /\ EarnedIsKept'
  BY <1>1, <1>2, StoppedServices, WorldUntouched
<1>4. ControlOK' /\ Exclusive' /\ Underway'
  BY <1>1, EndedCall DEF HInv, HTypeOK
<1>5. faults' \in Faults
  <2>1. \/ Count("errors") \/ Count("kills")
        \/ Spent + 2 <= MaxFaults /\ faults' = [faults EXCEPT !.errors = @ + 2]
    BY DEF StartFails, StopFails, SwapFails, RconFails, Kill
  <2> QED
    BY <2>1, CountTypes, OtherCountTypes DEF HInv, HTypeOK
<1> QED
  BY <1>3, <1>4, <1>5 DEF HInv, HTypeOK

-----------------------------------------------------------------------------
(* Steps of a command that change the world. *)

\* The marker names the release that has just become healthy.
LEMMA MarkingKeeps == HInv /\ WriteMarker => HInv'
<1> SUFFICES ASSUME HInv, WriteMarker PROVE HInv'
  OBVIOUS
<1>1. /\ lock = "host" /\ call.pc = "mark" /\ Goto("up-backup")
      /\ data' = [data EXCEPT !.marker = call.sha]
      /\ UNCHANGED <<head, authority, staging, rescues, archives, earned, svcVars, online, faults>>
  BY DEF WriteMarker, At
<1>2. /\ data \in Tree /\ call.sha \in Releases /\ call.sha \in data.proven
      /\ call \in Calls /\ authority = "absent"
  BY <1>1 DEF HInv, HTypeOK, WorldOK, ControlOK, Underway, Exclusive, Starting
<1>3. /\ data' \in Tree /\ data'.marker = call.sha
      /\ data'.proven = data.proven /\ data'.items = data.items
  BY <1>1, <1>2, MarkedTree
<1>4. /\ lock' = lock /\ call' \in Calls /\ call'.pc = "up-backup"
      /\ call'.sha = call.sha /\ Same(call, call')
  BY <1>1, <1>2, MovedCall DEF Steps
<1>5. WorldOK' /\ EarnedIsKept' /\ faults' \in Faults
  BY <1>1, <1>2, <1>3, NoTreeIsNone DEF HInv, HTypeOK, WorldOK, EarnedIsKept
<1>6. Proven'
  BY <1>1, <1>2, <1>3 DEF HInv, Proven, Named
<1>7. ServiceOK' /\ Served'
  BY <1>1, <1>2, <1>3, NoTreeIsNone DEF HInv, HTypeOK, ServiceOK, Served, svcVars
<1>8. ControlOK' /\ Exclusive'
  BY <1>1, <1>2, <1>4 DEF HInv, HTypeOK, ControlOK, Exclusive
<1>9. Underway'
  BY <1>1, <1>2, <1>3, <1>4, NoTreeIsNone DEF HInv, Underway, Starting, Swapping, Reserving, Same
<1> QED
  BY <1>5, <1>6, <1>7, <1>8, <1>9 DEF HInv, HTypeOK

\* An archive is as good as the world it is taken from.
LEMMA ArchivedWorld ==
  ASSUME HInv, UNCHANGED <<treeVars, earned, svcVars, online>>,
         NEW t \in {data, NoTree}, archives' = Append(archives, t),
         Len(archives) < MaxArchives
  PROVE  /\ WorldOK' /\ ServiceOK' /\ Served' /\ Proven' /\ EarnedIsKept'
         /\ Len(archives') = Len(archives) + 1
<1>1. /\ archives \in Seq(Tree \union {NoTree}) /\ t \in Tree \union {NoTree}
      /\ Len(archives) \in Nat
  BY DEF HInv, HTypeOK, WorldOK
<1>2. /\ archives' \in Seq(Tree \union {NoTree}) /\ Len(archives') = Len(archives) + 1
      /\ \A i \in 1 .. Len(archives) : archives'[i] = archives[i]
      /\ archives'[Len(archives) + 1] = t
  BY <1>1
<1>3. WorldOK'
  BY <1>1, <1>2, LimitsAreNatural DEF HInv, HTypeOK, WorldOK, treeVars
<1>4. Proven'
  <2>1. Named(t)
    BY DEF HInv, Proven, Named
  <2>2. \A i \in 1 .. Len(archives') : Named(archives'[i])
    BY <1>1, <1>2, <2>1 DEF HInv, Proven
  <2> QED
    BY <2>2 DEF HInv, Proven, Named, treeVars
<1>5. ServiceOK' /\ Served' /\ EarnedIsKept'
  BY DEF HInv, HTypeOK, ServiceOK, Served, EarnedIsKept, treeVars, svcVars
<1> QED
  BY <1>1, <1>2, <1>3, <1>4, <1>5

LEMMA ArchivingKeeps == HInv /\ (ExecBackup \/ ExecBackupBroken) => HInv'
<1> SUFFICES ASSUME HInv, ExecBackup \/ ExecBackupBroken PROVE HInv'
  OBVIOUS
<1>1. /\ lock = "host" /\ call.pc = "exec"
      /\ UNCHANGED <<head, authority, treeVars, earned, svcVars, online>>
  BY DEF ExecBackup, ExecBackupBroken, At
<1>2. CASE Exit
  <2>1. UNCHANGED <<worldVars, faults>>
    BY <1>1, <1>2 DEF ExecBackup, ExecBackupBroken, Exit, Goto, worldVars, CanBackUp
  <2>2. WorldOK' /\ ServiceOK' /\ Served' /\ Proven' /\ EarnedIsKept'
    BY <1>1, <2>1, WorldUntouched
  <2>3. ControlOK' /\ Exclusive' /\ Underway'
    BY <1>1, <1>2, EndedCall DEF HInv, HTypeOK
  <2> QED
    BY <2>1, <2>2, <2>3 DEF HInv, HTypeOK
<1>3. CASE ~Exit
  <2>1. /\ Goto("verify")
        /\ \E t \in {data, NoTree} : archives' = Append(archives, t)
        /\ faults' \in Faults
    BY <1>1, <1>3, CountTypes DEF ExecBackup, ExecBackupBroken, HInv, HTypeOK
  <2>2. call \in Calls /\ authority = "absent" /\ Len(archives) < MaxArchives
    BY <1>1 DEF HInv, HTypeOK, ControlOK, Exclusive, Underway, Reserving
  <2>3. /\ lock' = lock /\ call' \in Calls /\ call'.pc = "verify"
        /\ call'.sha = call.sha /\ Same(call, call')
    BY <2>1, <2>2, MovedCall DEF Steps
  <2>4. WorldOK' /\ ServiceOK' /\ Served' /\ Proven' /\ EarnedIsKept'
    BY <1>1, <2>1, <2>2, ArchivedWorld
  <2>5. ControlOK' /\ Exclusive'
    BY <1>1, <2>2, <2>3 DEF HInv, HTypeOK, ControlOK, Exclusive
  <2>6. Underway'
    BY <1>1, <2>3 DEF HInv, Underway, Starting, Swapping, Reserving, Same, treeVars
  <2> QED
    BY <2>1, <2>4, <2>5, <2>6 DEF HInv, HTypeOK
<1> QED
  BY <1>2, <1>3

\* The staging directory holds an archive that can be recovered.
LEMMA ExtractingKeeps == HInv /\ Extract => HInv'
<1> SUFFICES ASSUME HInv, Extract PROVE HInv'
  OBVIOUS
<1> DEFINE t == archives[call.archive]
<1>1. /\ lock = "host" /\ call.pc = "extract"
      /\ UNCHANGED <<head, authority, data, rescues, archives, earned, svcVars, online, faults>>
  BY DEF Extract, At
<1>2. call \in Calls /\ authority = "absent" /\ t \in Tree \union {NoTree} /\ Named(t)
  BY <1>1 DEF HInv, HTypeOK, WorldOK, ControlOK, Exclusive, Underway, Proven
<1>3. CASE Exit /\ UNCHANGED staging
  <2>1. WorldOK' /\ ServiceOK' /\ Served' /\ Proven' /\ EarnedIsKept'
    BY <1>1, <1>3, WorldUntouched DEF worldVars, treeVars
  <2>2. ControlOK' /\ Exclusive' /\ Underway'
    BY <1>1, <1>3, EndedCall DEF HInv, HTypeOK
  <2> QED
    BY <1>1, <2>1, <2>2 DEF HInv, HTypeOK
<1>4. CASE ~(Exit /\ UNCHANGED staging)
  <2>1. /\ Recoverable(t) /\ data # NoTree /\ staging' = [t EXCEPT !.owned = FALSE]
        /\ call' = [call EXCEPT !.pc = "stop", !.sha = t.marker] /\ UNCHANGED lock
    BY <1>4 DEF Extract, Doctor
  <2>2. t \in Tree /\ t.marker \in Releases /\ t.marker \in Marks
    BY <1>2, <2>1, TreeFields DEF Recoverable, Marks
  <2> HIDE DEF t
  <2>3. /\ staging' \in Tree /\ staging'.marker = t.marker
        /\ staging'.proven = t.proven
    BY <2>1, <2>2, ExtractedTree
  <2>4. call' \in Calls /\ call'.pc = "stop" /\ call'.sha = t.marker /\ Same(call, call')
    BY <1>2, <2>1, <2>2, PinnedCall DEF Steps
  <2>5. WorldOK' /\ EarnedIsKept' /\ faults' \in Faults
    BY <1>1, <2>3 DEF HInv, HTypeOK, WorldOK, EarnedIsKept
  <2>6. Proven'
    BY <1>1, <1>2, <2>1, <2>3 DEF HInv, Proven, Named, Recoverable
  <2>7. ServiceOK' /\ Served'
    BY <1>1 DEF HInv, HTypeOK, ServiceOK, Served, svcVars
  <2>8. ControlOK' /\ Exclusive'
    BY <1>1, <1>2, <2>1, <2>4 DEF HInv, HTypeOK, ControlOK, Exclusive, svcVars
  <2>9. Underway'
    BY <1>1, <2>1, <2>2, <2>3, <2>4, NoTreeIsNone
    DEF HInv, Underway, Starting, Swapping, Reserving, Same
  <2> QED
    BY <2>5, <2>6, <2>7, <2>8, <2>9 DEF HInv, HTypeOK
<1> QED
  BY <1>3, <1>4

\* The world that is put aside keeps what the players earned.
LEMMA SwappingOutKeeps == HInv /\ SwapOut => HInv'
<1> SUFFICES ASSUME HInv, SwapOut PROVE HInv'
  OBVIOUS
<1>1. /\ lock = "host" /\ call.pc = "swap-out" /\ Goto("swap-in")
      /\ rescues' = rescues \union {data} /\ data' = NoTree
      /\ UNCHANGED <<head, authority, staging, archives, earned, svcVars, online, faults>>
  BY DEF SwapOut, At
<1>2. /\ data \in Tree /\ minecraft = "down" /\ call \in Calls /\ authority = "absent"
      /\ call.cmd = "rollback" /\ ~online
  BY <1>1 DEF HInv, HTypeOK, WorldOK, ServiceOK, ControlOK, Underway, Exclusive, Served
<1>3. /\ lock' = lock /\ call' \in Calls /\ call'.pc = "swap-in"
      /\ call'.sha = call.sha /\ Same(call, call')
  BY <1>1, <1>2, MovedCall DEF Steps
<1>4. WorldOK' /\ faults' \in Faults
  BY <1>1, <1>2 DEF HInv, HTypeOK, WorldOK
<1>5. EarnedIsKept'
  BY <1>1, <1>2 DEF HInv, EarnedIsKept
<1>6. Proven'
  BY <1>1, <1>2 DEF HInv, Proven, Named
<1>7. ServiceOK' /\ Served'
  BY <1>1, <1>2 DEF HInv, HTypeOK, ServiceOK, Served, svcVars
<1>8. ControlOK' /\ Exclusive'
  BY <1>1, <1>2, <1>3 DEF HInv, HTypeOK, ControlOK, Exclusive
<1>9. Underway'
  BY <1>1, <1>2, <1>3
  DEF HInv, Underway, Starting, Swapping, Reserving, Same, svcVars
<1> QED
  BY <1>4, <1>5, <1>6, <1>7, <1>8, <1>9 DEF HInv, HTypeOK

\* The restored world comes in after the other one is safe.
LEMMA SwappingInKeeps == HInv /\ SwapIn => HInv'
<1> SUFFICES ASSUME HInv, SwapIn PROVE HInv'
  OBVIOUS
<1>1. /\ lock = "host" /\ call.pc = "swap-in" /\ Goto("up")
      /\ data' = staging /\ staging' = NoTree
      /\ UNCHANGED <<head, authority, rescues, archives, earned, svcVars, online, faults>>
  BY DEF SwapIn, At
<1>2. /\ data = NoTree /\ staging \in Tree /\ staging # NoTree /\ minecraft = "down"
      /\ call \in Calls /\ authority = "absent" /\ call.cmd = "rollback"
      /\ call.sha \in Releases /\ ~online
  BY <1>1 DEF HInv, HTypeOK, WorldOK, ServiceOK, ControlOK, Underway, Swapping, Exclusive,
              Served
<1>3. /\ lock' = lock /\ call' \in Calls /\ call'.pc = "up"
      /\ call'.sha = call.sha /\ Same(call, call')
  BY <1>1, <1>2, MovedCall DEF Steps
<1>4. WorldOK' /\ faults' \in Faults
  BY <1>1, <1>2 DEF HInv, HTypeOK, WorldOK
<1>5. EarnedIsKept'
  BY <1>1, <1>2 DEF HInv, EarnedIsKept
<1>6. Proven'
  BY <1>1, <1>2 DEF HInv, Proven, Named
<1>7. ServiceOK' /\ Served'
  BY <1>1, <1>2 DEF HInv, HTypeOK, ServiceOK, Served, svcVars
<1>8. ControlOK' /\ Exclusive'
  BY <1>1, <1>2, <1>3 DEF HInv, HTypeOK, ControlOK, Exclusive
<1>9. Underway'
  BY <1>1, <1>2, <1>3 DEF HInv, Underway, Starting, Swapping, Reserving, Same
<1> QED
  BY <1>4, <1>5, <1>6, <1>7, <1>8, <1>9 DEF HInv, HTypeOK

-----------------------------------------------------------------------------
(* The containers and the players. *)

LEMMA RunningKeeps == HInv /\ (Install \/ BecomeHealthy) => HInv'
<1> SUFFICES ASSUME HInv, Install \/ BecomeHealthy PROVE HInv'
  OBVIOUS
<1>1. /\ minecraft # "down" /\ minecraft' \in {"running", "healthy"}
      /\ UNCHANGED <<head, authority, staging, rescues, archives, earned, release,
                     sidecar, online, lock, call, faults>>
  BY DEF Install, BecomeHealthy
<1>2. data \in Tree /\ release \in Releases /\ authority # "active"
  BY <1>1 DEF HInv, HTypeOK, WorldOK, Served, Exclusive
<1>3. /\ data' \in Tree /\ data'.marker = data.marker /\ data'.items = data.items
      /\ data.proven \subseteq data'.proven
      /\ minecraft' = "healthy" => release \in data'.proven
  <2>1. CASE Install
    BY <1>2, <2>1, InstalledTree DEF Install
  <2>2. CASE BecomeHealthy
    BY <1>2, <2>2, ProvenTree DEF BecomeHealthy
  <2> QED
    BY <2>1, <2>2
<1>4. WorldOK' /\ EarnedIsKept' /\ faults' \in Faults
  BY <1>1, <1>2, <1>3, NoTreeIsNone DEF HInv, HTypeOK, WorldOK, EarnedIsKept
<1>5. Proven'
  BY <1>1, <1>2, <1>3, NoTreeIsNone DEF HInv, Proven, Named
<1>6. ServiceOK'
  BY <1>1 DEF HInv, HTypeOK, ServiceOK
<1>7. Served'
  <2>1. online => minecraft' = "healthy"
    BY DEF HInv, Served, Install, BecomeHealthy
  <2> QED
    BY <1>1, <1>2, <1>3, <2>1, NoTreeIsNone DEF Served
<1>8. ControlOK' /\ Exclusive'
  BY <1>1, <1>2 DEF HInv, HTypeOK, ControlOK, Exclusive
<1>9. Underway'
  <2>1. /\ lock = "host" /\ call.pc = "mark" => call.sha \in data'.proven
        /\ lock = "host" => call.pc \notin {"swap-out", "swap-in"}
    BY <1>1, <1>3 DEF HInv, Underway
  <2> QED
    BY <1>1, <1>2, <1>3, <2>1, NoTreeIsNone
    DEF HInv, Underway, Starting, Swapping, Reserving
<1> QED
  BY <1>4, <1>5, <1>6, <1>7, <1>8, <1>9 DEF HInv, HTypeOK

\* A container that stops for a moment, and players who come and go.
LEMMA ServingKeeps == HInv /\ (Crash \/ Join \/ Leave) => HInv'
<1> SUFFICES ASSUME HInv, Crash \/ Join \/ Leave PROVE HInv'
  OBVIOUS
<1>1. UNCHANGED <<head, authority, worldVars, release, sidecar, lock>>
  BY DEF Crash, Join, Leave, svcVars
<1>2. /\ call' \in Calls /\ call'.pc = call.pc /\ call'.sha = call.sha
      /\ Same(call, call')
  <2>1. call \in Calls /\ call.pc \in Steps
    BY DEF HInv, HTypeOK, ControlOK, Calls
  <2>2. CASE Crash
    BY <2>1, <2>2, ObservedCall, Booleans DEF Crash
  <2>3. CASE Join \/ Leave
    BY <2>1, <2>3 DEF Join, Leave, Same
  <2> QED
    BY <2>2, <2>3
<1>3. WorldOK' /\ Proven' /\ EarnedIsKept'
  BY <1>1 DEF HInv, HTypeOK, WorldOK, Proven, Named, EarnedIsKept, worldVars, treeVars
<1>4. faults' \in Faults
  BY CountTypes DEF HInv, HTypeOK, Crash, Join, Leave
<1>5. online' \in BOOLEAN
  BY Booleans, Zenon DEF Crash, Join, Leave
<1>6. /\ minecraft' = minecraft \/ (minecraft # "down" /\ minecraft' = "starting")
      /\ online' => minecraft' = "healthy"
  BY DEF HInv, Served, Crash, Join, Leave, svcVars
<1>7. ServiceOK' /\ Served'
  BY <1>1, <1>5, <1>6 DEF HInv, HTypeOK, ServiceOK, Served, worldVars, treeVars
<1>8. ControlOK' /\ Exclusive'
  BY <1>1, <1>2, <1>6 DEF HInv, HTypeOK, ControlOK, Exclusive, worldVars, treeVars
<1>9. Underway'
  BY <1>1, <1>2, <1>6 DEF HInv, Underway, Starting, Swapping, Reserving, Same, worldVars, treeVars
<1> QED
  BY <1>3, <1>4, <1>7, <1>8, <1>9 DEF HInv, HTypeOK

\* What the players earn is in the world they play in.
LEMMA EarningKeeps == HInv /\ Earn => HInv'
<1> SUFFICES ASSUME HInv, Earn PROVE HInv'
  OBVIOUS
<1>1. /\ minecraft = "healthy" /\ earned' = earned + 1 /\ earned < MaxItems
      /\ data' = [data EXCEPT !.items = @ \union {earned + 1}]
      /\ UNCHANGED <<head, authority, staging, rescues, archives, svcVars, online,
                     lock, call, faults>>
  BY DEF HInv, Served, Earn
<1>2. data \in Tree /\ earned \in Nat /\ earned + 1 \in Items /\ authority # "active"
  BY <1>1, LimitsAreNatural DEF HInv, HTypeOK, WorldOK, Served, Exclusive, Items
<1>3. /\ data' \in Tree /\ data'.marker = data.marker /\ data'.proven = data.proven
      /\ data'.items = data.items \union {earned + 1}
  BY <1>1, <1>2, EarningTree
<1>4. WorldOK' /\ faults' \in Faults
  BY <1>1, <1>2, <1>3, LimitsAreNatural DEF HInv, HTypeOK, WorldOK
<1>5. EarnedIsKept'
  <2> SUFFICES ASSUME NEW i \in 1 .. earned'
               PROVE  (data' # NoTree /\ i \in data'.items) \/ \E t \in rescues' : i \in t.items
    BY DEF EarnedIsKept
  <2>1. i \in 1 .. earned \/ i = earned + 1
    BY <1>1, <1>2
  <2> QED
    BY <1>1, <1>2, <1>3, <2>1, NoTreeIsNone DEF HInv, EarnedIsKept
<1>6. Proven'
  BY <1>1, <1>2, <1>3, NoTreeIsNone DEF HInv, Proven, Named
<1>7. ServiceOK' /\ Served'
  BY <1>1, <1>2, <1>3, NoTreeIsNone DEF HInv, HTypeOK, ServiceOK, Served, svcVars
<1>8. ControlOK' /\ Exclusive'
  BY <1>1, <1>2 DEF HInv, HTypeOK, ControlOK, Exclusive
<1>9. Underway'
  BY <1>1, <1>2, <1>3, NoTreeIsNone
  DEF HInv, Underway, Starting, Swapping, Reserving, svcVars
<1> QED
  BY <1>4, <1>5, <1>6, <1>7, <1>8, <1>9 DEF HInv, HTypeOK

-----------------------------------------------------------------------------
(* The sidecar, Git, and the host. *)

LEMMA SidecarKeeps == HInv /\ SidecarBackup => HInv'
<1> SUFFICES ASSUME HInv, SidecarBackup PROVE HInv'
  OBVIOUS
<1>1. /\ archives' = Append(archives, data) /\ Len(archives) + 1 < MaxArchives
      /\ UNCHANGED <<head, authority, treeVars, earned, svcVars, online, lock, call, faults>>
  BY DEF SidecarBackup
<1>2. Len(archives) \in Nat /\ Len(archives) < MaxArchives
  BY <1>1, LimitsAreNatural DEF HInv, HTypeOK, WorldOK
<1>3. /\ WorldOK' /\ ServiceOK' /\ Served' /\ Proven' /\ EarnedIsKept'
      /\ Len(archives') = Len(archives) + 1
  BY <1>1, <1>2, ArchivedWorld
<1>4. ControlOK' /\ Exclusive' /\ faults' \in Faults
  BY <1>1 DEF HInv, HTypeOK, ControlOK, Exclusive, treeVars, svcVars
<1>5. Underway'
  <2>1. lock = "host" /\ call.pc = "extract" => call.archive \in 1 .. Len(archives')
    BY <1>2, <1>3 DEF HInv, Underway
  <2> QED
    BY <1>1, <1>3, <2>1 DEF HInv, Underway, Starting, Swapping, Reserving, treeVars, svcVars
<1> QED
  BY <1>3, <1>4, <1>5 DEF HInv, HTypeOK

LEMMA HostKeeps == HInv /\ (MoveHead \/ Reboot) => HInv'
<1> SUFFICES ASSUME HInv, MoveHead \/ Reboot PROVE HInv'
  OBVIOUS
<1>1. CASE MoveHead
  <2>1. head' \in Releases
        /\ UNCHANGED <<authority, worldVars, svcVars, online, lock, call>>
    BY <1>1 DEF MoveHead
  <2>2. WorldOK' /\ ServiceOK' /\ Served' /\ Proven' /\ EarnedIsKept'
    BY <2>1, WorldUntouched
  <2>3. ControlOK' /\ Exclusive' /\ Underway'
    BY <2>1 DEF HInv, HTypeOK, ControlOK, Exclusive, Underway, worldVars, treeVars, svcVars
  <2>4. faults' \in Faults
    BY <1>1, OtherCountTypes DEF HInv, HTypeOK, MoveHead
  <2> QED
    BY <2>2, <2>3, <2>4 DEF HInv, HTypeOK
<1>2. CASE Reboot
  <2>1. /\ lock' = "free" /\ call' = NoCall /\ ~online' /\ online' = FALSE
        /\ minecraft' = IF minecraft = "down" THEN "down" ELSE "starting"
        /\ UNCHANGED <<head, authority, worldVars, release, sidecar>>
    BY <1>2 DEF Reboot
  <2>2. WorldOK' /\ Proven' /\ EarnedIsKept'
    BY <2>1 DEF HInv, HTypeOK, WorldOK, Proven, Named, EarnedIsKept, worldVars, treeVars
  <2>3. ServiceOK' /\ Served'
    BY <2>1, Booleans DEF HInv, HTypeOK, ServiceOK, Served, worldVars, treeVars
  <2>4. ControlOK' /\ Exclusive' /\ Underway'
    BY <2>1, IdleCall
    DEF HInv, HTypeOK, ControlOK, Exclusive, Underway, worldVars, treeVars
  <2>5. faults' \in Faults
    BY <1>2, CountTypes DEF HInv, HTypeOK, Reboot
  <2> QED
    BY <2>2, <2>3, <2>4, <2>5 DEF HInv, HTypeOK
<1> QED
  BY <1>1, <1>2

-----------------------------------------------------------------------------
(* The quest update. *)

LEMMA TransactingKeeps == HInv /\ (TransactionBegin \/ TransactionDies) => HInv'
<1> SUFFICES ASSUME HInv, TransactionBegin \/ TransactionDies PROVE HInv'
  OBVIOUS
<1>1. UNCHANGED <<head, worldVars, release, online, call>> /\ lock' # "host"
  BY DEF TransactionBegin, TransactionDies, svcVars
<1>2. WorldOK' /\ Proven' /\ EarnedIsKept'
  BY <1>1 DEF HInv, HTypeOK, WorldOK, Proven, Named, EarnedIsKept, worldVars, treeVars
<1>3. ServiceOK' /\ Served'
  BY <1>1 DEF HInv, HTypeOK, ServiceOK, Served, TransactionBegin, TransactionDies, worldVars,
              treeVars, svcVars
<1>4. ControlOK' /\ Underway'
  BY <1>1 DEF HInv, HTypeOK, ControlOK, Underway, TransactionBegin, TransactionDies
<1>5. Exclusive'
  <2>1. CASE TransactionBegin
    <3>1. data \in Tree /\ data.marker \in Releases
      BY <2>1, TreeFields
      DEF HInv, HTypeOK, WorldOK, TransactionBegin, Recoverable, Marks
    <3> QED
      BY <2>1, <3>1, NoTreeIsNone DEF Exclusive, TransactionBegin, worldVars, treeVars
  <2>2. CASE TransactionDies
    BY <2>2 DEF HInv, Exclusive, TransactionDies, worldVars, treeVars, svcVars
  <2> QED
    BY <2>1, <2>2
<1>6. faults' \in Faults
  BY CountTypes DEF HInv, HTypeOK, TransactionBegin, TransactionDies
<1> QED
  BY <1>2, <1>3, <1>4, <1>5, <1>6 DEF HInv, HTypeOK

LEMMA ResolvingKeeps == HInv /\ TransactionEnds => HInv'
<1> SUFFICES ASSUME HInv, TransactionEnds PROVE HInv'
  OBVIOUS
<1>1. /\ authority = "active" /\ authority' = "absent" /\ lock' = "free"
      /\ UNCHANGED <<staging, rescues, archives, earned, online, call, faults>>
  BY DEF HInv, Exclusive, TransactionEnds
<1>2. /\ data \in Tree /\ data.marker \in Releases /\ head \in Releases
      /\ minecraft = "down" /\ ~online
  BY <1>1 DEF HInv, HTypeOK, WorldOK, ControlOK, Exclusive, Served
<1>3. /\ data' \in Tree /\ data'.items = data.items /\ Named(data') /\ head' \in Releases
      /\ \/ minecraft' = "healthy" /\ sidecar' = "up" /\ release' \in data'.proven
         \/ UNCHANGED svcVars
  <2>1. CASE UNCHANGED <<data, svcVars>> /\ head' = data.marker
    BY <1>2, <2>1 DEF HInv, Proven, Named
  <2>2. CASE \E r \in {data.marker, head} :
               /\ data' = [data EXCEPT !.marker = r, !.pack = r, !.proven = @ \union {r}]
               /\ release' = r /\ minecraft' = "healthy" /\ sidecar' = "up" /\ head' = r
    <3>1. PICK r \in Releases :
            /\ data' = [data EXCEPT !.marker = r, !.pack = r, !.proven = @ \union {r}]
            /\ release' = r /\ minecraft' = "healthy" /\ sidecar' = "up" /\ head' = r
      BY <1>2, <2>2
    <3>2. /\ data' \in Tree /\ data'.marker = r /\ data'.items = data.items
          /\ data'.proven = data.proven \union {r}
      BY <1>2, <3>1 DEF Tree, Marks
    <3> QED
      BY <3>1, <3>2 DEF Named
  <2> QED
    BY <2>1, <2>2 DEF TransactionEnds
<1>4. WorldOK' /\ EarnedIsKept' /\ faults' \in Faults
  BY <1>1, <1>2, <1>3, NoTreeIsNone DEF HInv, HTypeOK, WorldOK, EarnedIsKept
<1>5. Proven'
  BY <1>1, <1>3 DEF HInv, Proven, Named
<1>6. data'.proven \in SUBSET Releases
  BY <1>3, TreeFields
<1>7. ServiceOK' /\ Served'
  BY <1>1, <1>2, <1>3, <1>6, NoTreeIsNone DEF HInv, HTypeOK, ServiceOK, Served, Marks, svcVars
<1>8. ControlOK' /\ Exclusive' /\ Underway'
  BY <1>1, <1>3 DEF HInv, HTypeOK, ControlOK, Exclusive, Underway
<1> QED
  BY <1>4, <1>5, <1>7, <1>8 DEF HInv, HTypeOK

-----------------------------------------------------------------------------
LEMMA InvariantInit == Init => HInv
<1> SUFFICES ASSUME Init PROVE HInv
  OBVIOUS
<1>1. data \in Tree /\ data.marker = NoRelease
  BY Booleans DEF Init, Tree, Marks
<1>2. WorldOK /\ faults \in Faults
  BY <1>1, LimitsAreNatural DEF Init, WorldOK, Faults
<1>3. ServiceOK /\ ControlOK
  BY IdleCall, Booleans DEF Init, ServiceOK, ControlOK, Marks
<1>4. Exclusive /\ Served /\ Underway /\ EarnedIsKept
  BY DEF Init, Exclusive, Served, Underway, EarnedIsKept
<1>5. Proven
  BY <1>1 DEF Init, Proven, Named
<1> QED
  BY <1>2, <1>3, <1>4, <1>5 DEF HInv, HTypeOK

LEMMA InvariantStep == HInv /\ [Next]_vars => HInv'
<1> SUFFICES ASSUME HInv, [Next]_vars PROVE HInv'
  OBVIOUS
<1>1. CASE OperatorBegin \/ RollbackBegin \/ MaintenanceBegin
  BY <1>1, BeginningKeeps
<1>2. CASE Command
  BY <1>2, CheckingKeeps, WaitingKeeps, BackingUpKeeps, MaintainingKeeps, ComposingKeeps,
     StopKeeps, MarkingKeeps, ArchivingKeeps, ExtractingKeeps, SwappingOutKeeps,
     SwappingInKeeps
  DEF Command
<1>3. CASE CommandFails
  BY <1>3, FailingKeeps, ArchivingKeeps DEF CommandFails
<1>4. CASE Install \/ BecomeHealthy
  BY <1>4, RunningKeeps
<1>5. CASE Environment
  BY <1>5, ServingKeeps, EarningKeeps, SidecarKeeps, HostKeeps, FailingKeeps,
     TransactingKeeps, ResolvingKeeps
  DEF Environment
<1>6. CASE UNCHANGED vars
  <2>1. WorldOK' /\ ServiceOK' /\ Served' /\ Proven' /\ EarnedIsKept'
    BY <1>6, WorldUntouched DEF vars
  <2>2. ControlOK' /\ Exclusive' /\ Underway' /\ faults' \in Faults
    BY <1>6 DEF HInv, HTypeOK, ControlOK, Exclusive, Underway, vars, worldVars, treeVars, svcVars
  <2> QED
    BY <2>1, <2>2 DEF HInv, HTypeOK
<1> QED
  BY <1>1, <1>2, <1>3, <1>4, <1>5, <1>6 DEF Next

LEMMA InvariantHolds == Spec => []HInv
<1> QED
  BY InvariantInit, InvariantStep, PTL DEF Spec

\* Every variable keeps its type, whatever commands, failures, kills, reboots
\* and quest updates there are.
THEOREM HostTypes == Spec => []HTypeOK
<1>1. HInv => HTypeOK
  BY DEF HInv
<1> QED
  BY <1>1, InvariantHolds, PTL

\* No progress is lost: what the players have earned is in DATA_DIR or in a
\* directory that a rollback put aside, for any number of rollbacks and kills.
THEOREM ProgressKept == Spec => []EarnedIsKept
<1>1. HInv => EarnedIsKept
  BY DEF HInv
<1> QED
  BY <1>1, InvariantHolds, PTL

\* The marker file, on which start and update rely, names a revision that has
\* been healthy on the world it marks.
THEOREM MarkersProven == Spec => []MarkerIsProven
<1>1. HInv => MarkerIsProven
  <2> SUFFICES ASSUME HInv PROVE MarkerIsProven
    OBVIOUS
  <2>1. \A t \in rescues : t # NoTree
    BY NoTreeIsNone DEF HInv, HTypeOK, WorldOK
  <2> QED
    BY <2>1 DEF HInv, Proven, Named, MarkerIsProven
<1> QED
  BY <1>1, InvariantHolds, PTL

\* While a quest update is unresolved, no command and no container changes the
\* world or the archives, and none starts the server.
THEOREM QuestUpdateAlone == Spec => UnresolvedIsAlone
<1>1. HInv /\ [Next]_vars =>
        [authority = "active" /\ authority' = "active"
           => UNCHANGED <<treeVars, archives>> /\ minecraft' = "down"]_vars
  <2> SUFFICES ASSUME HInv, Next, authority = "active", authority' = "active"
               PROVE  UNCHANGED <<treeVars, archives>> /\ minecraft' = "down"
    OBVIOUS
  <2>1. lock # "host" /\ minecraft = "down" /\ ~online
    BY DEF HInv, Exclusive, Served
  <2>2. ~(OperatorBegin \/ RollbackBegin \/ MaintenanceBegin)
    BY DEF OperatorBegin, RollbackBegin, MaintenanceBegin, TakeLock
  <2>3. ~Command
    BY <2>1 DEF Command, CheckStart, ComposeUp, WaitHealthy, WriteMarker, UpBackup,
       BackupHealthy, Stop, BackupBegin, ExecBackup, VerifyBackup, CheckUpdate, Extract,
       SwapOut, SwapIn, Maintain, Countdown, Revalidate, At
  <2>4. ~CommandFails
    BY <2>1 DEF CommandFails, StartFails, StopFails, ExecBackupBroken, SwapFails, RconFails, At
  <2>5. ~(Install \/ BecomeHealthy)
    BY <2>1 DEF Install, BecomeHealthy
  <2>6. CASE Environment
    BY <2>1, <2>6
    DEF Environment, Crash, Join, Leave, Earn, SidecarBackup, CanBackUp, MoveHead, Kill, Reboot,
        TransactionBegin, TransactionDies, TransactionEnds, worldVars, treeVars, svcVars
  <2> QED
    BY <2>2, <2>3, <2>4, <2>5, <2>6 DEF Next
<1> QED
  BY <1>1, InvariantHolds, PTL DEF Spec, UnresolvedIsAlone

-----------------------------------------------------------------------------
(***************************************************************************)
(* What a command has chosen and saved, and what the container serves.     *)
(* The invariant HSafe adds to HInv what the revisions, the quests and the *)
(* archives of a command have to do with those of the world.               *)
(***************************************************************************)

\* A tree that became healthy holds a world and an installed revision, and a
\* marked one the quests of the revision its marker names.
Sound(t) ==
  t # NoTree =>
    /\ t.proven # {} => t.world /\ t.pack \in Releases
    /\ t.marker # NoRelease => Corpus[t.pack] = Corpus[t.marker]

Sounding == /\ Sound(data) /\ Sound(staging)
            /\ \A t \in rescues : Sound(t)
            /\ \A i \in 1 .. Len(archives) : Sound(archives[i])

\* What the container serves.
Installed ==
  /\ minecraft \in {"running", "healthy"} => data.world /\ data.pack = release
  /\ minecraft # "down" /\ data.marker # NoRelease =>
       Corpus[release] = Corpus[data.marker]

\* Which steps are whose.
Orderly ==
  lock = "host" =>
    /\ call.pc = "check-start" => call.cmd = "start"
    /\ call.pc = "check-update" => call.cmd = "update" /\ call.archive = 0
    /\ call.pc = "extract" => call.cmd = "rollback"
    /\ call.cmd = "rollback" => call.pc \in {"extract"} \union Swapping \union Starting

\* The revision a command has chosen.
Chosen ==
  lock = "host" =>
    /\ call.pc \in Starting /\ data.marker # NoRelease =>
         Corpus[call.sha] = Corpus[data.marker]
    /\ call.pc \in Starting \ {"up"} => release = call.sha
    /\ call.pc = "mark" => data.pack = call.sha
    /\ call.pc \in {"up-backup", "backup-health"} => data.marker = call.sha
    /\ call.cmd = "update" /\ call.pc # "check-update" =>
         data.marker # NoRelease /\ Corpus[call.sha] = Corpus[data.marker]
    /\ call.cmd = "rollback" =>
         /\ call.pc \in Swapping => staging.marker = call.sha
         /\ call.pc \in Starting => data.marker = call.sha

\* No kill and at most one failing step, as in RunsWhatIsMarked.
Quiet == faults.kills = 0 /\ faults.errors <= 1

\* Outside a start, a container that is up has the revision of the marker.
Agreed ==
  Quiet /\ minecraft # "down" /\ ~(lock = "host" /\ call.pc \in {"health", "mark"})
    => release = data.marker

\* An archive since the inventory holds what the players had and the marker.
Saved(t) == t # NoTree => call.began \subseteq t.items /\ t.marker = data.marker

\* What a command knows of the archives.
Backing ==
  /\ lock # "host" => call = NoCall
  /\ lock = "host" /\ call.cmd # "rollback" /\ data # NoTree =>
       call.began \subseteq data.items
  /\ lock = "host" /\ call.pc \in {"exec", "verify"} =>
       /\ call.cmd # "rollback" /\ data # NoTree
       /\ call.before <= Len(archives)
       /\ \A i \in call.before + 1 .. Len(archives) : Saved(archives[i])
  /\ call.archive <= Len(archives)
  /\ BackupIsFresh

\* What every step keeps as well, once it keeps HInv.
HSafe == Sounding /\ Installed /\ Orderly /\ Chosen /\ Agreed /\ Backing

-----------------------------------------------------------------------------
(* How the steps of a command move its call. *)

\* A command goes on: what the steps of a command change of its call.
Moves(cmd, pc, sha, before, archive) ==
  /\ lock' = "host"
  /\ call'.cmd = cmd /\ call'.pc = pc /\ call'.sha = sha
  /\ call'.before = before /\ call'.archive = archive /\ call'.began = call.began

LEMMA CheckStartMoves ==
  ASSUME call \in Calls, CheckStart, ~Exit
  PROVE  Doctor /\ StartRevision /\ Moves(call.cmd, "up", head, call.before, call.archive)
BY DEF CheckStart, Moves, Calls, At

LEMMA CheckUpdateMoves ==
  ASSUME call \in Calls, CheckUpdate, ~Exit
  PROVE  /\ Doctor /\ data.marker # NoRelease /\ SameCorpus
         /\ Moves(call.cmd, "backup", head, call.before, call.archive)
BY DEF CheckUpdate, Moves, Calls, At

LEMMA ComposeUpMoves ==
  ASSUME call \in Calls, ComposeUp
  PROVE  Moves(call.cmd, "health", call.sha, call.before, call.archive)
BY DEF ComposeUp, Moves, Calls, At, Goto

LEMMA BackupBeginMoves ==
  ASSUME call \in Calls, BackupBegin, ~Exit
  PROVE  Doctor /\ Moves(call.cmd, "exec", call.sha, Len(archives), call.archive)
BY DEF BackupBegin, Moves, Calls, At

LEMMA ExtractMoves ==
  ASSUME call \in Calls, Extract, ~Exit
  PROVE  /\ Recoverable(archives[call.archive]) /\ Doctor
         /\ staging' = [archives[call.archive] EXCEPT !.owned = FALSE]
         /\ Moves(call.cmd, "stop", archives[call.archive].marker, call.before, call.archive)
BY DEF Extract, Moves, Calls, At

LEMMA MaintainMoves ==
  ASSUME call \in Calls, Maintain, ~Exit
  PROVE  /\ call'.pc \in {"backup", "countdown"}
         /\ Moves(call.cmd, call'.pc, call.sha, call.before, call.archive)
BY DEF Maintain, Moves, Calls, At

LEMMA RevalidateMoves ==
  ASSUME call \in Calls, Revalidate, ~Exit
  PROVE  Moves("stop", "stop", call.sha, call.before, call.archive)
BY DEF Revalidate, Moves, Calls, At

LEMMA StopMoves ==
  ASSUME call \in Calls, Stop, ~Exit,
         call.cmd \in {"update", "rollback"} => call.parent = "operator"
  PROVE  \/ call.cmd = "update" /\ Moves("update", "up", call.sha, call.before, call.archive)
         \/ /\ call.cmd = "rollback"
            /\ Moves("rollback", "swap-out", call.sha, call.before, call.archive)
         \/ /\ call.cmd # "rollback" /\ call.cmd # "update"
            /\ Moves("start", "check-start", call.sha, call.before, call.archive)
<1>1. At("stop") /\ AfterStop
  BY DEF Stop
<1>2. CASE call.cmd = "update"
  BY <1>1, <1>2 DEF AfterStop, Goto, Moves, Calls, At
<1>3. CASE call.cmd = "rollback"
  BY <1>1, <1>3 DEF AfterStop, Goto, Moves, Calls, At
<1>4. CASE call.cmd # "update" /\ call.cmd # "rollback"
  <2>1. call' = [call EXCEPT !.cmd = "start", !.pc = "check-start"] /\ UNCHANGED lock
    BY <1>1, <1>4 DEF AfterStop
  <2> QED
    BY <1>1, <1>4, <2>1 DEF Moves, Calls, At
<1> QED
  BY <1>2, <1>3, <1>4

LEMMA VerifyBackupMoves ==
  ASSUME call \in Calls, VerifyBackup, ~Exit,
         call.cmd = "update" => call.parent = "operator"
  PROVE  \E i \in Fresh :
           Moves(call.cmd, IF call.cmd = "update" THEN "stop" ELSE "revalidate",
                 call.sha, call.before, i)
<1>1. PICK i \in Fresh : AfterBackup(i)
  BY DEF VerifyBackup
<1>2. /\ UNCHANGED lock
      /\ call' = [call EXCEPT !.pc = IF call.cmd = "update" THEN "stop" ELSE "revalidate",
                             !.archive = i]
  BY <1>1 DEF AfterBackup
<1> QED
  BY <1>2 DEF VerifyBackup, Moves, Calls, At

LEMMA BeginMoves ==
  ASSUME NEW cmd, NEW parent, NEW pc, BeginCall(cmd, parent, pc)
  PROVE  /\ lock' = "host" /\ call'.cmd = cmd /\ call'.pc = pc /\ call'.archive = 0
         /\ call'.began = IF data = NoTree THEN {} ELSE data.items
BY DEF BeginCall, NoCall

\* A step that fails uses up what a quiet history may have.
LEMMA QuietStays ==
  ASSUME faults \in Faults
  PROVE  /\ \A f \in {"errors", "kills", "updates"} : Count(f) /\ Quiet' => Quiet
         /\ ~(Count("kills") /\ Quiet')
         /\ Count("errors") /\ Quiet' => faults.errors = 0
         /\ ~(faults' = [faults EXCEPT !.errors = @ + 2] /\ Quiet')
BY DEF Faults, Count, Quiet

-----------------------------------------------------------------------------
USE DEF HSafe, Sounding, Installed, Orderly, Chosen, Agreed, Backing, BackupIsFresh

(* Beginnings and ends. *)

\* A command that has only begun has chosen and saved nothing.
LEMMA BegunSafe ==
  ASSUME HInv, HInv', HSafe, Unchanged, UNCHANGED faults, lock = "free", NEW cmd, NEW parent,
         NEW pc \in {"check-start", "stop", "backup", "check-update", "maintain"},
         BeginCall(cmd, parent, pc), cmd # "rollback",
         cmd = "update" <=> pc = "check-update", pc = "check-start" => cmd = "start"
  PROVE  HSafe'
BY NoTreeIsNone DEF Starting, Quiet, Unchanged, worldVars, treeVars, svcVars, BeginCall,
   NoCall

LEMMA BeginningSafe ==
  ASSUME HInv, HInv', HSafe, OperatorBegin \/ MaintenanceBegin PROVE HSafe'
<1>1. CASE OperatorBegin
  BY <1>1, BegunSafe DEF OperatorBegin, TakeLock
<1>2. CASE MaintenanceBegin
  BY <1>2, BegunSafe DEF MaintenanceBegin, TakeLock
<1> QED
  BY <1>1, <1>2

LEMMA RollbackBeginSafe == ASSUME HInv, HInv', HSafe, RollbackBegin PROVE HSafe'
BY NoTreeIsNone DEF Starting, Swapping, Quiet, Unchanged, worldVars, treeVars, svcVars,
   RollbackBegin

\* A command that ends away from a start leaves everything as it was.
LEMMA EndedSafe ==
  ASSUME HInv, HInv', HSafe, lock = "host", UNCHANGED <<worldVars, svcVars>>, Exit,
         Quiet' => Quiet /\ call.pc \notin {"health", "mark"}
  PROVE  HSafe'
BY NoTreeIsNone DEF worldVars, treeVars, svcVars, Exit, NoCall

(* The steps of a start and of a stop. *)

LEMMA CheckStartSafe == ASSUME HInv, HInv', HSafe, CheckStart PROVE HSafe'
<1>1. call \in Calls /\ At("check-start") /\ Unchanged /\ UNCHANGED faults
  BY DEF HInv, HTypeOK, ControlOK, CheckStart
<1>2. CASE Exit
  BY <1>1, <1>2, EndedSafe DEF At, Quiet, Unchanged
<1>3. CASE ~Exit
  <2>1. /\ Doctor /\ StartRevision
        /\ Moves(call.cmd, "up", head, call.before, call.archive)
    BY <1>1, <1>3, CheckStartMoves
  <2> QED
    BY <1>1, <2>1, NoTreeIsNone DEF HInv, Quiet, Sound, Unchanged, worldVars, treeVars,
       svcVars, At, Moves, Doctor, StartRevision, Proven, Named
<1> QED
  BY <1>2, <1>3

LEMMA ComposeUpSafe == ASSUME HInv, HInv', HSafe, ComposeUp PROVE HSafe'
<1>1. /\ At("up") /\ UNCHANGED <<head, authority, worldVars, faults>>
      /\ Moves(call.cmd, "health", call.sha, call.before, call.archive)
  BY ComposeUpMoves DEF HInv, HTypeOK, ControlOK, ComposeUp
<1>2. CASE minecraft # "down" /\ release = call.sha /\ UNCHANGED svcVars
  BY <1>1, <1>2, NoTreeIsNone DEF Starting, Swapping, worldVars, treeVars, svcVars, At,
     Moves
<1>3. CASE minecraft' = "starting" /\ release' = call.sha
  BY <1>1, <1>3, NoTreeIsNone DEF Starting, Swapping, worldVars, treeVars, At, Moves
<1> QED
  BY <1>2, <1>3 DEF ComposeUp

LEMMA WaitHealthySafe == ASSUME HInv, HInv', HSafe, WaitHealthy PROVE HSafe'
BY NoTreeIsNone DEF Starting, Swapping, Unchanged, worldVars, treeVars, svcVars, At,
   WaitHealthy, Goto

LEMMA WriteMarkerSafe == ASSUME HInv, HInv', HSafe, WriteMarker PROVE HSafe'
<1>1. /\ call.pc = "mark" /\ lock = "host"
      /\ Moves(call.cmd, "up-backup", call.sha, call.before, call.archive)
      /\ data' = [data EXCEPT !.marker = call.sha]
      /\ UNCHANGED <<staging, rescues, archives, svcVars, faults>>
  BY DEF HInv, HTypeOK, ControlOK, Calls, WriteMarker, At, Goto, Moves
<1>2. data \in Tree /\ call.sha \in Releases
  BY <1>1 DEF HInv, HTypeOK, WorldOK, Underway, Starting
<1>3. /\ data'.marker = call.sha /\ data'.pack = data.pack /\ data'.world = data.world
      /\ data'.proven = data.proven /\ data'.items = data.items /\ data' # NoTree
  BY <1>1, <1>2, NoTreeIsNone DEF Tree, Marks
<1>4. Sounding' /\ Installed' /\ Orderly' /\ Chosen' /\ Agreed'
  BY <1>1, <1>2, <1>3, NoReleaseIsNone DEF HSafe, Sounding, Sound, Installed, Orderly, Chosen, Agreed, Quiet, svcVars, Moves, Starting, Swapping, HInv, Underway
<1>5. Backing'
  BY <1>1, <1>2, <1>3, NoTreeIsNone DEF HSafe, Backing, BackupIsFresh, Saved, Recoverable, svcVars, Moves
<1> QED BY <1>4, <1>5 DEF HSafe

LEMMA UpBackupSafe == ASSUME HInv, HInv', HSafe, UpBackup PROVE HSafe'
BY NoTreeIsNone DEF Starting, Swapping, worldVars, treeVars, At, UpBackup, Goto

LEMMA BackupHealthySafe == ASSUME HInv, HInv', HSafe, BackupHealthy PROVE HSafe'
BY NoTreeIsNone DEF Quiet, Unchanged, worldVars, treeVars, svcVars, At, NoCall, Exit,
   BackupHealthy

LEMMA StartFailsSafe == ASSUME HInv, HInv', HSafe, StartFails PROVE HSafe'
BY NoTreeIsNone, QuietStays DEF HInv, HTypeOK, worldVars, treeVars, svcVars, NoCall,
   Exit, StartFails, StopServices

LEMMA StopFailsSafe == ASSUME HInv, HInv', HSafe, StopFails PROVE HSafe'
BY NoTreeIsNone, QuietStays DEF HInv, HTypeOK, worldVars, treeVars, svcVars, At, NoCall,
   Exit, StopFails, StopServices

LEMMA StopSafe == ASSUME HInv, HInv', HSafe, Stop PROVE HSafe'
<1>1. /\ call \in Calls /\ At("stop") /\ StopServices
      /\ UNCHANGED <<head, authority, worldVars, faults>>
      /\ call.cmd \in {"update", "rollback"} => call.parent = "operator"
  BY DEF HInv, HTypeOK, ControlOK, Underway, Stop, At
<1>2. CASE Exit
  BY <1>1, <1>2, NoTreeIsNone DEF worldVars, treeVars, StopServices, Exit, NoCall
<1>3. CASE call.cmd = "update" /\ Moves("update", "up", call.sha, call.before, call.archive)
  BY <1>1, <1>3, NoTreeIsNone DEF worldVars, treeVars, At, Moves, StopServices
<1>4. CASE /\ call.cmd = "rollback"
           /\ Moves("rollback", "swap-out", call.sha, call.before, call.archive)
  BY <1>1, <1>4, NoTreeIsNone DEF Starting, Swapping, worldVars, treeVars, At, Moves,
     StopServices
<1>5. CASE /\ call.cmd # "rollback" /\ call.cmd # "update"
           /\ Moves("start", "check-start", call.sha, call.before, call.archive)
  BY <1>1, <1>5, NoTreeIsNone DEF Starting, worldVars, treeVars, At, Moves, StopServices
<1> QED
  BY <1>1, <1>2, <1>3, <1>4, <1>5, StopMoves

(* The steps of a backup, of an update and of the maintenance. *)

LEMMA BackupBeginSafe == ASSUME HInv, HInv', HSafe, BackupBegin PROVE HSafe'
<1>1. call \in Calls /\ At("backup") /\ Unchanged /\ UNCHANGED faults
  BY DEF HInv, HTypeOK, ControlOK, BackupBegin
<1>2. CASE Exit
  BY <1>1, <1>2, EndedSafe DEF At, Quiet, Unchanged
<1>3. CASE ~Exit
  <2>1. Doctor /\ Moves(call.cmd, "exec", call.sha, Len(archives), call.archive)
    BY <1>1, <1>3, BackupBeginMoves
  <2> QED
    BY <1>1, <2>1, NoTreeIsNone DEF Starting, Swapping, Quiet, Unchanged, worldVars,
       treeVars, svcVars, At, Moves, Doctor
<1> QED
  BY <1>2, <1>3

LEMMA ArchivingSafe == ASSUME HInv, HInv', HSafe, ExecBackup, ~Exit PROVE HSafe'
<1>1. /\ call.pc = "exec" /\ call'.pc = "verify" /\ lock = "host" /\ lock' = "host"
      /\ Moves(call.cmd, "verify", call.sha, call.before, call.archive)
      /\ UNCHANGED <<head, authority, treeVars, earned, svcVars, online, faults>>
      /\ archives' = Append(archives, data)
  BY DEF HInv, HTypeOK, ControlOK, Calls, ExecBackup, At, Goto, Moves
<1>2. archives \in Seq(Tree \union {NoTree}) /\ data \in Tree /\ call.archive \in Nat /\ call.before \in Nat
  BY <1>1, NoTreeIsNone DEF HInv, HTypeOK, WorldOK, ControlOK, Calls, HSafe, Backing
<1>3. /\ Len(archives') = Len(archives) + 1 /\ archives'[Len(archives) + 1] = data
      /\ \A i \in 1 .. Len(archives) : archives'[i] = archives[i]
  BY <1>1, <1>2
<1>4. Sounding' /\ Installed' /\ Orderly' /\ Chosen' /\ Agreed'
  BY <1>1, <1>2, <1>3 DEF HSafe, Sounding, Sound, Installed, Orderly, Chosen, Agreed, Quiet, treeVars, svcVars, Moves, Starting, Swapping, HInv, Underway
<1>5. Backing'
  BY <1>1, <1>2, <1>3 DEF HSafe, Backing, BackupIsFresh, Saved, Recoverable, treeVars, svcVars, Moves
<1> QED BY <1>4, <1>5 DEF HSafe

LEMMA ExecBackupSafe == ASSUME HInv, HInv', HSafe, ExecBackup PROVE HSafe'
<1>1. CASE Exit
  <2>1. lock = "host" /\ call.pc = "exec" /\ UNCHANGED <<worldVars, svcVars, faults>>
    BY <1>1 DEF ExecBackup, At, Goto, Exit, NoCall, worldVars
  <2> QED
    BY <1>1, <2>1, EndedSafe DEF Quiet
<1>2. CASE ~Exit
  BY <1>2, ArchivingSafe
<1> QED
  BY <1>1, <1>2

LEMMA ExecBackupBrokenSafe == ASSUME HInv, HInv', HSafe, ExecBackupBroken PROVE HSafe'
BY NoTreeIsNone, QuietStays DEF HInv, HTypeOK, ControlOK, Starting, Saved, Sound,
   treeVars, svcVars, At, Calls, ExecBackupBroken, Goto

LEMMA VerifyBackupSafe == ASSUME HInv, HInv', HSafe, VerifyBackup PROVE HSafe'
<1>1. /\ call \in Calls /\ At("verify") /\ Unchanged /\ UNCHANGED faults
      /\ call.cmd = "update" => call.parent = "operator"
  BY DEF HInv, HTypeOK, ControlOK, Underway, VerifyBackup, At
<1>2. CASE Exit
  BY <1>1, <1>2, EndedSafe DEF At, Quiet, Unchanged
<1>3. CASE ~Exit
  <2>1. PICK i \in Fresh :
          Moves(call.cmd, IF call.cmd = "update" THEN "stop" ELSE "revalidate",
                call.sha, call.before, i)
    BY <1>1, <1>3, VerifyBackupMoves
  <2> QED
    BY <1>1, <2>1, NoTreeIsNone DEF Starting, Quiet, Recoverable, Saved, Unchanged,
       worldVars, treeVars, svcVars, At, Moves, Fresh
<1> QED
  BY <1>2, <1>3

LEMMA CheckUpdateSafe == ASSUME HInv, HInv', HSafe, CheckUpdate PROVE HSafe'
<1>1. call \in Calls /\ At("check-update") /\ Unchanged /\ UNCHANGED faults
  BY DEF HInv, HTypeOK, ControlOK, CheckUpdate
<1>2. CASE Exit
  BY <1>1, <1>2, EndedSafe DEF At, Quiet, Unchanged
<1>3. CASE ~Exit
  <2>1. /\ Doctor /\ data.marker # NoRelease /\ SameCorpus
        /\ Moves(call.cmd, "backup", head, call.before, call.archive)
    BY <1>1, <1>3, CheckUpdateMoves
  <2> QED
    BY <1>1, <2>1, NoTreeIsNone DEF Starting, Quiet, Unchanged, worldVars, treeVars,
       svcVars, At, Moves, SameCorpus
<1> QED
  BY <1>2, <1>3

LEMMA MaintainSafe == ASSUME HInv, HInv', HSafe, Maintain PROVE HSafe'
<1>1. call \in Calls /\ At("maintain") /\ Unchanged /\ UNCHANGED faults
  BY DEF HInv, HTypeOK, ControlOK, Maintain
<1>2. CASE Exit
  BY <1>1, <1>2, EndedSafe DEF At, Quiet, Unchanged
<1>3. CASE ~Exit
  <2>1. /\ call'.pc \in {"backup", "countdown"}
        /\ Moves(call.cmd, call'.pc, call.sha, call.before, call.archive)
    BY <1>1, <1>3, MaintainMoves
  <2> QED
    BY <1>1, <2>1, NoTreeIsNone DEF Starting, Swapping, Quiet, Unchanged, worldVars,
       treeVars, svcVars, At, Moves
<1> QED
  BY <1>2, <1>3

LEMMA CountdownSafe == ASSUME HInv, HInv', HSafe, Countdown PROVE HSafe'
BY NoTreeIsNone DEF HInv, HTypeOK, ControlOK, Starting, Swapping, Quiet, Unchanged,
   worldVars, treeVars, svcVars, At, NoCall, Exit, Calls, Countdown, Goto

LEMMA RevalidateSafe == ASSUME HInv, HInv', HSafe, Revalidate PROVE HSafe'
<1>1. call \in Calls /\ At("revalidate") /\ Unchanged /\ UNCHANGED faults
  BY DEF HInv, HTypeOK, ControlOK, Revalidate
<1>2. CASE Exit
  BY <1>1, <1>2, EndedSafe DEF At, Quiet, Unchanged
<1>3. CASE ~Exit
  <2>1. Moves("stop", "stop", call.sha, call.before, call.archive)
    BY <1>1, <1>3, RevalidateMoves
  <2> QED
    BY <1>1, <2>1, NoTreeIsNone DEF Starting, Swapping, Quiet, Unchanged, worldVars,
       treeVars, svcVars, At, Moves
<1> QED
  BY <1>2, <1>3

LEMMA RconFailsSafe == ASSUME HInv, HInv', HSafe, RconFails PROVE HSafe'
BY NoTreeIsNone, QuietStays DEF HInv, HTypeOK, Unchanged, worldVars, treeVars, svcVars,
   NoCall, Exit, RconFails

(* The steps of a rollback. *)

LEMMA ExtractSafe == ASSUME HInv, HInv', HSafe, Extract PROVE HSafe'
<1>1. /\ call \in Calls /\ At("extract")
      /\ UNCHANGED <<head, authority, data, rescues, archives, earned, svcVars, online, faults>>
  BY DEF HInv, HTypeOK, ControlOK, Extract
<1>2. CASE Exit
  <2>1. UNCHANGED <<worldVars, faults>> /\ lock = "host" /\ call.pc = "extract"
    BY <1>1, <1>2 DEF Extract, Exit, NoCall, Calls, At, worldVars, treeVars
  <2> QED
    BY <1>1, <1>2, <2>1, EndedSafe DEF Quiet
<1>3. CASE ~Exit
  <2>1. /\ Recoverable(archives[call.archive]) /\ Doctor
        /\ staging' = [archives[call.archive] EXCEPT !.owned = FALSE]
        /\ Moves(call.cmd, "stop", archives[call.archive].marker, call.before, call.archive)
    BY <1>1, <1>3, ExtractMoves
  <2> QED
    BY <1>1, <2>1, NoTreeIsNone DEF HInv, Underway, Starting, Swapping, Quiet,
       Recoverable, Sound, svcVars, At, Moves
<1> QED
  BY <1>2, <1>3

LEMMA SwapOutSafe == ASSUME HInv, HInv', HSafe, SwapOut PROVE HSafe'
BY NoTreeIsNone DEF HInv, Underway, Swapping, Sound, At, SwapOut, Goto

LEMMA SwapInSafe == ASSUME HInv, HInv', HSafe, SwapIn PROVE HSafe'
BY NoTreeIsNone DEF HInv, Underway, Starting, svcVars, At, SwapIn, Goto

LEMMA SwapFailsSafe == ASSUME HInv, HInv', HSafe, SwapFails PROVE HSafe'
BY NoTreeIsNone, QuietStays DEF HInv, Underway, Unchanged, worldVars, treeVars, svcVars,
   NoCall, Exit, SwapFails

(* The containers, the players and the host. *)

LEMMA InstallSafe == ASSUME HInv, HInv', HSafe, Install PROVE HSafe'
BY NoTreeIsNone DEF HInv, Served, Starting, Quiet, Saved, Sound, Install

LEMMA BecomeHealthySafe == ASSUME HInv, HInv', HSafe, BecomeHealthy PROVE HSafe'
BY NoTreeIsNone DEF HInv, Served, Quiet, Saved, Sound, BecomeHealthy

LEMMA CrashSafe == ASSUME HInv, HInv', HSafe, Crash PROVE HSafe'
<1>1. /\ UNCHANGED <<worldVars, release, lock>> /\ minecraft # "down" /\ minecraft' = "starting"
      /\ Quiet' => Quiet
      /\ lock # "host" => call' = call
      /\ lock = "host" => Moves(call.cmd, call.pc, call.sha, call.before, call.archive)
      /\ call'.archive = call.archive /\ call'.began = call.began /\ call'.cmd = call.cmd /\ call'.sha = call.sha
  BY QuietStays DEF HInv, HTypeOK, ControlOK, Calls, Crash, Moves, HSafe, Backing, NoCall
<1>2. Sounding' /\ Installed' /\ Orderly' /\ Chosen' /\ Agreed'
  BY <1>1 DEF HSafe, Sounding, Sound, Installed, Orderly, Chosen, Agreed, worldVars, treeVars, Moves
<1>3. Backing'
  BY <1>1 DEF HSafe, Backing, BackupIsFresh, Saved, Recoverable, worldVars, treeVars, Moves
<1> QED BY <1>2, <1>3 DEF HSafe

LEMMA JoinSafe == ASSUME HInv, HInv', HSafe, Join PROVE HSafe'
BY NoTreeIsNone DEF Quiet, Saved, worldVars, treeVars, svcVars, Join

LEMMA LeaveSafe == ASSUME HInv, HInv', HSafe, Leave PROVE HSafe'
BY NoTreeIsNone DEF Quiet, Saved, worldVars, treeVars, svcVars, Leave

LEMMA EarnSafe == ASSUME HInv, HInv', HSafe, Earn PROVE HSafe'
BY NoTreeIsNone DEF HInv, Served, Quiet, Saved, Sound, svcVars, Earn

LEMMA SidecarBackupSafe == ASSUME HInv, HInv', HSafe, SidecarBackup PROVE HSafe'
BY NoTreeIsNone DEF HInv, HTypeOK, ControlOK, Quiet, Saved, treeVars, svcVars, Calls,
   SidecarBackup

LEMMA MoveHeadSafe == ASSUME HInv, HInv', HSafe, MoveHead PROVE HSafe'
BY NoTreeIsNone DEF Quiet, Saved, worldVars, treeVars, svcVars, MoveHead

LEMMA KillSafe == ASSUME HInv, HInv', HSafe, Kill PROVE HSafe'
BY NoTreeIsNone, QuietStays DEF HInv, HTypeOK, Unchanged, worldVars, treeVars, svcVars,
   NoCall, Exit, Kill

LEMMA RebootSafe == ASSUME HInv, HInv', HSafe, Reboot PROVE HSafe'
BY NoTreeIsNone, QuietStays DEF HInv, HTypeOK, worldVars, treeVars, NoCall, Reboot

LEMMA TransactionBeginSafe == ASSUME HInv, HInv', HSafe, TransactionBegin PROVE HSafe'
BY NoTreeIsNone DEF worldVars, treeVars, TransactionBegin

LEMMA TransactionDiesSafe == ASSUME HInv, HInv', HSafe, TransactionDies PROVE HSafe'
BY NoTreeIsNone DEF Quiet, worldVars, treeVars, svcVars, TransactionDies

LEMMA TransactionEndsSafe == ASSUME HInv, HInv', HSafe, TransactionEnds PROVE HSafe'
<1>1. /\ lock # "host" /\ lock' = "free" /\ data \in Tree /\ data.marker \in Releases /\ head \in Releases
      /\ minecraft = "down" /\ UNCHANGED <<staging, rescues, archives, call, faults>>
  BY DEF HInv, HTypeOK, WorldOK, ControlOK, Exclusive, TransactionEnds
<1>2. CASE UNCHANGED <<data, svcVars>>
  BY <1>1, <1>2 DEF HSafe, Sounding, Sound, Installed, Orderly, Chosen, Agreed, Backing, BackupIsFresh, NoCall, svcVars
<1>3. CASE ~UNCHANGED <<data, svcVars>>
  <2>1. PICK r \in Releases :
          /\ data' = [data EXCEPT !.marker = r, !.pack = r, !.proven = @ \union {r}]
          /\ release' = r /\ minecraft' = "healthy"
    BY <1>1, <1>3 DEF TransactionEnds
  <2>2. /\ data'.marker = r /\ data'.pack = r /\ data'.world = data.world
    BY <1>1, <2>1 DEF Tree, Marks
  <2>3. data.world
    BY <1>1, NoReleaseIsNone, NoTreeIsNone DEF HInv, Proven, Named, HSafe, Sounding, Sound
  <2> QED
    BY <1>1, <2>1, <2>2, <2>3 DEF HSafe, Sounding, Sound, Installed, Orderly, Chosen, Agreed, Backing, BackupIsFresh, NoCall
<1> QED BY <1>2, <1>3

LEMMA SafeInit == Init => HSafe
<1> SUFFICES ASSUME Init PROVE HSafe
  OBVIOUS
<1>1. Len(archives) = 0 /\ call = NoCall /\ lock = "free" /\ minecraft = "down"
      /\ staging = NoTree /\ rescues = {} /\ data.proven = {} /\ data.marker = NoRelease
  BY DEF Init
<1> QED
  BY <1>1 DEF Sound, NoCall

LEMMA StutterSafe == ASSUME HInv, HInv', HSafe, UNCHANGED vars PROVE HSafe'
BY DEF Quiet, Saved, vars, worldVars, treeVars, svcVars

HIDE DEF HSafe, Sounding, Installed, Orderly, Chosen, Agreed, Backing, BackupIsFresh

LEMMA SafeStep == HInv /\ HInv' /\ HSafe /\ [Next]_vars => HSafe'
<1> SUFFICES ASSUME HInv, HInv', HSafe, [Next]_vars PROVE HSafe'
  OBVIOUS
<1>1. CASE OperatorBegin \/ RollbackBegin \/ MaintenanceBegin
  BY <1>1, BeginningSafe, RollbackBeginSafe
<1>2. CASE Command
  BY <1>2, CheckStartSafe, ComposeUpSafe, WaitHealthySafe, WriteMarkerSafe, UpBackupSafe,
     BackupHealthySafe, StopSafe, BackupBeginSafe, ExecBackupSafe, VerifyBackupSafe,
     CheckUpdateSafe, ExtractSafe, SwapOutSafe, SwapInSafe, MaintainSafe, CountdownSafe,
     RevalidateSafe
  DEF Command
<1>3. CASE CommandFails
  BY <1>3, StartFailsSafe, StopFailsSafe, ExecBackupBrokenSafe, SwapFailsSafe, RconFailsSafe
  DEF CommandFails
<1>4. CASE Install \/ BecomeHealthy
  BY <1>4, InstallSafe, BecomeHealthySafe
<1>5. CASE Environment
  BY <1>5, CrashSafe, JoinSafe, LeaveSafe, EarnSafe, SidecarBackupSafe, MoveHeadSafe,
     KillSafe, RebootSafe, TransactionBeginSafe, TransactionDiesSafe, TransactionEndsSafe
  DEF Environment
<1> QED
  BY <1>1, <1>2, <1>3, <1>4, <1>5, StutterSafe DEF Next

LEMMA SafeHolds == Spec => [](HInv /\ HSafe)
<1>1. Init => HInv /\ HSafe
  BY InvariantInit, SafeInit
<1>2. HInv /\ HSafe /\ [Next]_vars => HInv' /\ HSafe'
  BY InvariantStep, SafeStep
<1> QED
  BY <1>1, <1>2, PTL DEF Spec

\* From its stop on, an update or a restart relies on an archive that exists,
\* can be recovered and holds what the players had when it began, whatever the
\* sidecar archived meanwhile.
THEOREM BackupsFresh == Spec => []BackupIsFresh
<1>1. HSafe => BackupIsFresh
  BY DEF HSafe, Backing
<1> QED
  BY <1>1, SafeHolds, PTL

\* A healthy server that no command holds runs, and has installed, the revision
\* of its marker, unless a script was killed or two steps have failed.
THEOREM MarkedRuns == Spec => []RunsWhatIsMarked
<1>1. HInv /\ HSafe => RunsWhatIsMarked
  BY DEF HSafe, Agreed, Installed, Quiet, RunsWhatIsMarked
<1> QED
  BY <1>1, SafeHolds, PTL

\* No ordinary command and no restarting container brings other quests into a
\* marked world.
THEOREM QuestsAreProtected == Spec => QuestsProtected
<1>1. HInv /\ HSafe /\ [Next]_vars =>
        [authority = "absent" /\ data # NoTree /\ data' # NoTree /\ data.marker # NoRelease
           => Corpus[data'.pack] = Corpus[data.pack]]_vars
  <2> SUFFICES ASSUME HInv, HSafe, Next, authority = "absent", data # NoTree, data' # NoTree,
                      data.marker # NoRelease
               PROVE  Corpus[data'.pack] = Corpus[data.pack]
    OBVIOUS
  <2>1. data \in Tree /\ (lock = "host" /\ call.pc = "swap-in" => data = NoTree)
    BY DEF HInv, HTypeOK, WorldOK, Underway
  <2>2. CASE Install
    <3>1. data'.pack = release /\ minecraft # "down"
      BY <2>1, <2>2 DEF Install, Tree
    <3>2. Corpus[release] = Corpus[data.marker]
      BY <3>1 DEF HSafe, Installed
    <3>3. Corpus[data.pack] = Corpus[data.marker]
      BY DEF HSafe, Sounding, Sound
    <3> QED
      BY <3>1, <3>2, <3>3
  <2>3. CASE BecomeHealthy \/ Earn \/ WriteMarker
    BY <2>1, <2>3 DEF BecomeHealthy, Earn, WriteMarker, Tree
  <2>4. CASE SwapOut \/ SwapIn
    BY <2>1, <2>4 DEF SwapOut, SwapIn, At
  <2>5. ~TransactionEnds
    BY DEF HInv, Exclusive, TransactionEnds
  <2>6. Next => Install \/ BecomeHealthy \/ Earn \/ WriteMarker \/ SwapOut \/ SwapIn
                \/ TransactionEnds \/ UNCHANGED data
    BY DEF Next, OperatorBegin, RollbackBegin, MaintenanceBegin, Command, CommandFails,
       Environment, CheckStart, ComposeUp, WaitHealthy, UpBackup, BackupHealthy, Stop,
       BackupBegin, ExecBackup, VerifyBackup, CheckUpdate, Extract, Maintain, Countdown,
       Revalidate, StartFails, StopFails, ExecBackupBroken, SwapFails, RconFails, Crash,
       Join, Leave, SidecarBackup, MoveHead, Kill, Reboot, TransactionBegin, TransactionDies,
       Unchanged, worldVars, treeVars
  <2> QED
    BY <2>2, <2>3, <2>4, <2>5, <2>6
<1> QED
  BY <1>1, SafeHolds, PTL DEF Spec, QuestsProtected
=============================================================================
