------------------------- MODULE QuestUpdateProofs -------------------------
(***************************************************************************)
(* What holds of the protected quest update for every bound on progress,   *)
(* kills, reboots and errors: the types; then, through any number of host  *)
(* crashes, that a mutated world stays behind the gate, that a recorded    *)
(* quarantine holds, and that an unmutated record means the prior release; *)
(* then, without a host crash, the way back, the terminal record, the gate *)
(* and the refinement of ReleaseSwitch.                                    *)
(***************************************************************************)
EXTENDS QuestUpdate, TLAPS

-----------------------------------------------------------------------------
(* Lemmas about the records.                                               *)

\* The two truth values, which the solvers do not know to be BOOLEAN.
LEMMA Booleans == TRUE \in BOOLEAN /\ FALSE \in BOOLEAN
  OBVIOUS

\* The fields of a data directory.
LEMMA WorldFields ==
  ASSUME NEW w \in World
  PROVE  /\ w.marker \in Releases /\ w.mods \in Releases /\ w.origin \in Origins
         /\ w.progress \in 0..MaxProgress /\ w.listed \in BOOLEAN
  BY DEF World

\* Whatever a script or the server changes of a data directory, it stays one.
LEMMA WorldUpdates ==
  ASSUME NEW w \in World, NEW b \in BOOLEAN, NEW r \in Releases, NEW o \in Origins, 
         NEW p \in 0..MaxProgress
  PROVE  /\ [w EXCEPT !.present = b] \in World
         /\ [w EXCEPT !.origin = o] \in World
         /\ [w EXCEPT !.listed = b] \in World
         /\ [w EXCEPT !.progress = p] \in World
         /\ [w EXCEPT !.marker = r, !.origin = o] \in World
         /\ [w EXCEPT !.mods = r, !.origin = o] \in World
         /\ [w EXCEPT !.mods = r, !.progress = p, !.listed = b] \in World
  BY DEF World

\* A server start leaves a data directory.
LEMMA TouchType == ASSUME NEW w \in World PROVE Touch(w) \in World
  BY DEF Touch, World, Origins

\* A transaction that has only just begun has no archive yet.
LEMMA ArchiveForgotten ==
  ASSUME NEW a \in Archive PROVE [a EXCEPT !.ready = FALSE] \in Archive
  BY DEF Archive

\* The archive that is made of a data directory.
LEMMA ArchiveOf ==
  ASSUME NEW w \in World
  PROVE  [ready |-> TRUE, marker |-> w.marker, mods |-> w.mods,
          progress |-> w.progress, listed |-> w.listed] \in Archive
  BY DEF World, Archive

\* The data directory that an archive is extracted to.
LEMMA WorldOf ==
  ASSUME NEW a \in Archive
  PROVE  [present |-> TRUE, marker |-> a.marker, mods |-> a.mods,
          progress |-> a.progress, listed |-> a.listed, origin |-> "extracted"] \in World
  BY DEF World, Archive, Origins

\* What a script notes about its run stays a record of three flags.
LEMMA FlagsUpdates ==
  /\ NoFlags \in Flags
  /\ \A f \in Flags : /\ [f EXCEPT !.ready = TRUE] \in Flags
                      /\ [f EXCEPT !.verified = TRUE] \in Flags
                      /\ [f EXCEPT !.failed = TRUE] \in Flags
  BY DEF Flags, NoFlags

\* The sets of names that the types are made of.
USE DEF Releases, Services, Policies, Origins, Processes, Runs, Phases, CleanupPhases, 
        Steps, MainSteps, StartSteps, RollbackSteps, QuarantineSteps, FinalizeSteps,
        RecoverySteps

-----------------------------------------------------------------------------
(* Type correctness, one lemma per group of actions.                       *)

\* The main sequence of the update script (main, afterlight-quest-safe-update.sh:539-694).
LEMMA TransactionTypes == TypeOK /\ Transaction => TypeOK'
<1> SUFFICES ASSUME TypeOK, Transaction PROVE TypeOK'
  OBVIOUS
<1> USE DEF TypeOK
<1>1. CASE CreateAuthority
  <2>1. AuthorityOK'
    BY <1>1, Booleans DEF CreateAuthority, At, Goto, AuthorityOK, authorityVars
  <2>2. DataOK'
    BY <1>1, WorldFields, WorldUpdates, ArchiveForgotten, Booleans DEF CreateAuthority, At,
           Goto, DataOK, dataVars, snapshotVars, restoreVars
  <2>3. ProcOK'
    BY <1>1, FlagsUpdates DEF CreateAuthority, At, Goto, ProcOK, procVars
  <2> QED
    BY <1>1, <2>1, <2>2, <2>3 DEF CreateAuthority, At, Goto, HostOK, PlayerOK, FaultsOK,
           hostVars, bootVars, playerVars
<1>2. CASE RecordPhase
  <2>1. AuthorityOK'
    BY <1>2, Booleans DEF RecordPhase, Record, At, Goto, AuthorityOK, authorityVars
  <2>2. ProcOK'
    BY <1>2, FlagsUpdates DEF RecordPhase, Record, At, Goto, ProcOK, procVars
  <2> QED
    BY <1>2, <2>1, <2>2 DEF RecordPhase, Record, At, Goto, DataOK, HostOK, PlayerOK, FaultsOK,
           dataVars, snapshotVars, restoreVars, hostVars, bootVars, playerVars
<1>3. CASE EnsureGate
  <2>1. HostOK'
    BY <1>3, Booleans DEF EnsureGate, At, Goto, HostOK, hostVars, bootVars
  <2>2. ProcOK'
    BY <1>3, FlagsUpdates DEF EnsureGate, At, Goto, ProcOK, procVars
  <2> QED
    BY <1>3, <2>1, <2>2 DEF EnsureGate, At, Goto, AuthorityOK, DataOK, PlayerOK, FaultsOK,
           authorityVars, dataVars, snapshotVars, restoreVars, playerVars
<1>4. CASE RequireZeroPlayers
  <2>1. ProcOK'
    BY <1>4, FlagsUpdates DEF RequireZeroPlayers, At, Goto, OnlyTheStep, ProcOK, procVars
  <2> QED
    BY <1>4, <2>1 DEF RequireZeroPlayers, At, Goto, OnlyTheStep, AuthorityOK, DataOK, HostOK,
           PlayerOK, FaultsOK, authorityVars, dataVars, snapshotVars, restoreVars, hostVars,
           bootVars, playerVars
<1>5. CASE Flush
  <2>1. ProcOK'
    BY <1>5, FlagsUpdates DEF Flush, At, Goto, OnlyTheStep, ProcOK, procVars
  <2> QED
    BY <1>5, <2>1 DEF Flush, At, Goto, OnlyTheStep, AuthorityOK, DataOK, HostOK, PlayerOK,
           FaultsOK, authorityVars, dataVars, snapshotVars, restoreVars, hostVars, bootVars,
           playerVars
<1>6. CASE StopBoth
  <2>1. HostOK'
    BY <1>6, Booleans DEF StopBoth, At, Stop, Goto, HostOK, hostVars, bootVars
  <2>2. ProcOK'
    BY <1>6, FlagsUpdates DEF StopBoth, At, Stop, Goto, ProcOK, procVars
  <2>3. PlayerOK'
    BY <1>6 DEF StopBoth, At, Stop, Goto, PlayerOK, playerVars
  <2> QED
    BY <1>6, <2>1, <2>2, <2>3 DEF StopBoth, At, Stop, Goto, AuthorityOK, DataOK, FaultsOK,
           authorityVars, dataVars, snapshotVars, restoreVars
<1>7. CASE CreateSnapshot
  <2>1. DataOK'
    BY <1>7, WorldFields, Booleans DEF CreateSnapshot, At, Goto, DataOK, dataVars, snapshotVars,
           restoreVars
  <2>2. ProcOK'
    BY <1>7, FlagsUpdates DEF CreateSnapshot, At, Goto, ProcOK, procVars
  <2> QED
    BY <1>7, <2>1, <2>2 DEF CreateSnapshot, At, Goto, AuthorityOK, HostOK, PlayerOK, FaultsOK,
           authorityVars, hostVars, bootVars, playerVars
<1>8. CASE RecordSnapshot
  <2>1. AuthorityOK'
    BY <1>8, Booleans DEF RecordSnapshot, At, AuthorityOK, authorityVars
  <2>2. ProcOK'
    BY <1>8, FlagsUpdates DEF RecordSnapshot, At, ProcOK, procVars
  <2> QED
    BY <1>8, <2>1, <2>2 DEF RecordSnapshot, At, DataOK, HostOK, PlayerOK, FaultsOK, dataVars,
           snapshotVars, restoreVars, hostVars, bootVars, playerVars
<1>9. CASE CreateArchive
  <2>1. DataOK'
    BY <1>9, ArchiveOf, Booleans DEF CreateArchive, At, DataOK, dataVars, snapshotVars,
           restoreVars
  <2>2. ProcOK'
    BY <1>9, FlagsUpdates DEF CreateArchive, At, ProcOK, procVars
  <2> QED
    BY <1>9, <2>1, <2>2 DEF CreateArchive, At, AuthorityOK, HostOK, PlayerOK, FaultsOK,
           authorityVars, hostVars, bootVars, playerVars
<1>10. CASE RecordMutation
  <2>1. AuthorityOK'
    BY <1>10, Booleans DEF RecordMutation, At, AuthorityOK, authorityVars
  <2>2. ProcOK'
    BY <1>10, FlagsUpdates DEF RecordMutation, At, ProcOK, procVars
  <2> QED
    BY <1>10, <2>1, <2>2 DEF RecordMutation, At, DataOK, HostOK, PlayerOK, FaultsOK, dataVars,
           snapshotVars, restoreVars, hostVars, bootVars, playerVars
<1>11. CASE RecordVerified
  <2>1. AuthorityOK'
    BY <1>11, Booleans DEF RecordVerified, At, AuthorityOK, authorityVars
  <2>2. ProcOK'
    BY <1>11, FlagsUpdates DEF RecordVerified, At, ProcOK, procVars
  <2> QED
    BY <1>11, <2>1, <2>2 DEF RecordVerified, At, DataOK, HostOK, PlayerOK, FaultsOK, dataVars,
           snapshotVars, restoreVars, hostVars, bootVars, playerVars
<1>12. CASE FinalCheck
  <2>1. ProcOK'
    BY <1>12, FlagsUpdates DEF FinalCheck, At, LiveVerified, ProcOK, procVars
  <2> QED
    BY <1>12, <2>1 DEF FinalCheck, At, LiveVerified, AuthorityOK, DataOK, HostOK, PlayerOK,
           FaultsOK, authorityVars, dataVars, snapshotVars, restoreVars, hostVars, bootVars,
           playerVars
<1>13. CASE CompleteSnapshot
  <2>1. DataOK'
    BY <1>13, Booleans DEF CompleteSnapshot, At, Goto, DataOK, dataVars, snapshotVars,
           restoreVars
  <2>2. ProcOK'
    BY <1>13, FlagsUpdates DEF CompleteSnapshot, At, Goto, ProcOK, procVars
  <2> QED
    BY <1>13, <2>1, <2>2 DEF CompleteSnapshot, At, Goto, AuthorityOK, HostOK, PlayerOK,
           FaultsOK, authorityVars, hostVars, bootVars, playerVars
<1>14. CASE RecordTerminal
  <2>1. AuthorityOK'
    BY <1>14, Booleans DEF RecordTerminal, At, Goto, OnlyTheRecord, AuthorityOK, authorityVars
  <2>2. ProcOK'
    BY <1>14, FlagsUpdates DEF RecordTerminal, At, Goto, OnlyTheRecord, ProcOK, procVars
  <2> QED
    BY <1>14, <2>1, <2>2 DEF RecordTerminal, At, Goto, OnlyTheRecord, DataOK, HostOK, PlayerOK,
           FaultsOK, dataVars, snapshotVars, restoreVars, hostVars, bootVars, playerVars
<1> QED
  BY <1>1, <1>2, <1>3, <1>4, <1>5, <1>6, <1>7, <1>8, <1>9, <1>10, <1>11, <1>12, <1>13, <1>14 DEF
         Transaction

\* The two service starts, of the candidate and of the prior release (server.sh:661-715).
LEMMA StartingTypes == TypeOK /\ Starting => TypeOK'
<1> SUFFICES ASSUME TypeOK, Starting PROVE TypeOK'
  OBVIOUS
<1> USE DEF TypeOK
<1>1. CASE ComposeUp
  <2>1. DataOK'
    BY <1>1, WorldFields, WorldUpdates, TouchType, Booleans DEF ComposeUp, Created, Revision,
           Goto, DataOK, dataVars, snapshotVars, restoreVars
  <2>2. HostOK'
    BY <1>1, Booleans DEF ComposeUp, Created, Revision, Goto, HostOK, hostVars, bootVars
  <2>3. ProcOK'
    BY <1>1, FlagsUpdates DEF ComposeUp, Created, Revision, Goto, ProcOK, procVars
  <2> QED
    BY <1>1, <2>1, <2>2, <2>3 DEF ComposeUp, Created, Revision, Goto, AuthorityOK, PlayerOK,
           FaultsOK, authorityVars, playerVars
<1>2. CASE WaitHealthy
  <2>1. ProcOK'
    BY <1>2, FlagsUpdates DEF WaitHealthy, Revision, Goto, OnlyTheStep, ProcOK, procVars
  <2> QED
    BY <1>2, <2>1 DEF WaitHealthy, Revision, Goto, OnlyTheStep, AuthorityOK, DataOK, HostOK,
           PlayerOK, FaultsOK, authorityVars, dataVars, snapshotVars, restoreVars, hostVars,
           bootVars, playerVars
<1>3. CASE WriteMarker
  <2>1. DataOK'
    BY <1>3, WorldFields, WorldUpdates, Booleans DEF WriteMarker, Revision, Goto, DataOK,
           dataVars, snapshotVars, restoreVars
  <2>2. ProcOK'
    BY <1>3, FlagsUpdates DEF WriteMarker, Revision, Goto, ProcOK, procVars
  <2> QED
    BY <1>3, <2>1, <2>2 DEF WriteMarker, Revision, Goto, AuthorityOK, HostOK, PlayerOK,
           FaultsOK, authorityVars, hostVars, bootVars, playerVars
<1>4. CASE LiveVerify
  <2>1. ProcOK'
    BY <1>4, FlagsUpdates DEF LiveVerify, LiveVerified, Revision, Goto, OnlyTheStep, ProcOK,
           procVars
  <2> QED
    BY <1>4, <2>1 DEF LiveVerify, LiveVerified, Revision, Goto, OnlyTheStep, AuthorityOK,
           DataOK, HostOK, PlayerOK, FaultsOK, authorityVars, dataVars, snapshotVars,
           restoreVars, hostVars, bootVars, playerVars
<1>5. CASE StopMinecraft
  <2>1. HostOK'
    BY <1>5, Booleans DEF StopMinecraft, Stop, Goto, HostOK, hostVars, bootVars
  <2>2. ProcOK'
    BY <1>5, FlagsUpdates DEF StopMinecraft, Stop, Goto, ProcOK, procVars
  <2>3. PlayerOK'
    BY <1>5 DEF StopMinecraft, Stop, Goto, PlayerOK, playerVars
  <2> QED
    BY <1>5, <2>1, <2>2, <2>3 DEF StopMinecraft, Stop, Goto, AuthorityOK, DataOK, FaultsOK,
           authorityVars, dataVars, snapshotVars, restoreVars
<1>6. CASE CompareProgress
  <2>1. ProcOK'
    BY <1>6, FlagsUpdates DEF CompareProgress, ProgressKept, Goto, OnlyTheStep, ProcOK, procVars
  <2> QED
    BY <1>6, <2>1 DEF CompareProgress, ProgressKept, Goto, OnlyTheStep, AuthorityOK, DataOK,
           HostOK, PlayerOK, FaultsOK, authorityVars, dataVars, snapshotVars, restoreVars,
           hostVars, bootVars, playerVars
<1>7. CASE VerifyIntegrity
  <2>1. ProcOK'
    BY <1>7, FlagsUpdates DEF VerifyIntegrity, Goto, OnlyTheStep, ProcOK, procVars
  <2> QED
    BY <1>7, <2>1 DEF VerifyIntegrity, Goto, OnlyTheStep, AuthorityOK, DataOK, HostOK, PlayerOK,
           FaultsOK, authorityVars, dataVars, snapshotVars, restoreVars, hostVars, bootVars,
           playerVars
<1>8. CASE StartBackup
  <2>1. HostOK'
    BY <1>8, Booleans DEF StartBackup, Created, Goto, HostOK, hostVars, bootVars
  <2>2. ProcOK'
    BY <1>8, FlagsUpdates DEF StartBackup, Created, Goto, ProcOK, procVars
  <2> QED
    BY <1>8, <2>1, <2>2 DEF StartBackup, Created, Goto, AuthorityOK, DataOK, PlayerOK, FaultsOK,
           authorityVars, dataVars, snapshotVars, restoreVars, playerVars
<1> QED
  BY <1>1, <1>2, <1>3, <1>4, <1>5, <1>6, <1>7, <1>8 DEF Starting

\* The rollback an EXIT trap or a recovery runs (rollback, afterlight-quest-safe-update.sh:404-427).
LEMMA RollbackTypes == TypeOK /\ Rollback => TypeOK'
<1> SUFFICES ASSUME TypeOK, Rollback PROVE TypeOK'
  OBVIOUS
<1> USE DEF TypeOK
<1>1. CASE ExitTrap
  <2>1. HostOK'
    BY <1>1, Booleans DEF ExitTrap, At, Return, CountError, HostOK, hostVars, bootVars
  <2>2. ProcOK'
    BY <1>1, FlagsUpdates DEF ExitTrap, At, Return, CountError, ProcOK, procVars
  <2>3. FaultsOK'
    BY <1>1, BoundsAreNatural DEF ExitTrap, At, Return, CountError, FaultsOK
  <2> QED
    BY <1>1, <2>1, <2>2, <2>3 DEF ExitTrap, At, Return, CountError, AuthorityOK, DataOK,
           PlayerOK, authorityVars, dataVars, snapshotVars, restoreVars, playerVars
<1>2. CASE BeginRollback
  <2>1. ProcOK'
    BY <1>2, FlagsUpdates DEF BeginRollback, At, Goto, OnlyTheStep, ProcOK, procVars
  <2> QED
    BY <1>2, <2>1 DEF BeginRollback, At, Goto, OnlyTheStep, AuthorityOK, DataOK, HostOK,
           PlayerOK, FaultsOK, authorityVars, dataVars, snapshotVars, restoreVars, hostVars,
           bootVars, playerVars
<1>3. CASE RecordCheckoutTarget
  <2>1. AuthorityOK'
    BY <1>3, Booleans DEF RecordCheckoutTarget, Goto, AuthorityOK, authorityVars
  <2>2. ProcOK'
    BY <1>3, FlagsUpdates DEF RecordCheckoutTarget, Goto, ProcOK, procVars
  <2> QED
    BY <1>3, <2>1, <2>2 DEF RecordCheckoutTarget, Goto, DataOK, HostOK, PlayerOK, FaultsOK,
           dataVars, snapshotVars, restoreVars, hostVars, bootVars, playerVars
<1>4. CASE ReconcileCheckout
  <2>1. AuthorityOK'
    BY <1>4, Booleans DEF ReconcileCheckout, Goto, AuthorityOK, authorityVars
  <2>2. ProcOK'
    BY <1>4, FlagsUpdates DEF ReconcileCheckout, Goto, ProcOK, procVars
  <2> QED
    BY <1>4, <2>1, <2>2 DEF ReconcileCheckout, Goto, DataOK, HostOK, PlayerOK, FaultsOK,
           dataVars, snapshotVars, restoreVars, hostVars, bootVars, playerVars
<1>5. CASE RecordCheckout
  <2>1. AuthorityOK'
    BY <1>5, Booleans DEF RecordCheckout, Goto, OnlyTheRecord, AuthorityOK, authorityVars
  <2>2. ProcOK'
    BY <1>5, FlagsUpdates DEF RecordCheckout, Goto, OnlyTheRecord, ProcOK, procVars
  <2> QED
    BY <1>5, <2>1, <2>2 DEF RecordCheckout, Goto, OnlyTheRecord, DataOK, HostOK, PlayerOK,
           FaultsOK, dataVars, snapshotVars, restoreVars, hostVars, bootVars, playerVars
<1>6. CASE StopBeforeRestore
  <2>1. HostOK'
    BY <1>6, Booleans DEF StopBeforeRestore, At, Stop, CountError, Goto, HostOK, hostVars,
           bootVars
  <2>2. ProcOK'
    BY <1>6, FlagsUpdates DEF StopBeforeRestore, At, Stop, CountError, Goto, ProcOK, procVars
  <2>3. PlayerOK'
    BY <1>6 DEF StopBeforeRestore, At, Stop, CountError, Goto, PlayerOK, playerVars
  <2>4. FaultsOK'
    BY <1>6, BoundsAreNatural DEF StopBeforeRestore, At, Stop, CountError, Goto, FaultsOK
  <2> QED
    BY <1>6, <2>1, <2>2, <2>3, <2>4 DEF StopBeforeRestore, At, Stop, CountError, Goto,
           AuthorityOK, DataOK, authorityVars, dataVars, snapshotVars, restoreVars
<1>7. CASE Extract
  <2>1. ProcOK'
    BY <1>7, FlagsUpdates DEF Extract, At, Goto, OnlyTheStep, ProcOK, procVars
  <2> QED
    BY <1>7, <2>1 DEF Extract, At, Goto, OnlyTheStep, AuthorityOK, DataOK, HostOK, PlayerOK,
           FaultsOK, authorityVars, dataVars, snapshotVars, restoreVars, hostVars, bootVars,
           playerVars
<1>8. CASE SwapOut
  <2>1. DataOK'
    BY <1>8, WorldFields, WorldUpdates, Booleans DEF SwapOut, Goto, DataOK, dataVars,
           snapshotVars, restoreVars
  <2>2. ProcOK'
    BY <1>8, FlagsUpdates DEF SwapOut, Goto, ProcOK, procVars
  <2> QED
    BY <1>8, <2>1, <2>2 DEF SwapOut, Goto, AuthorityOK, HostOK, PlayerOK, FaultsOK,
           authorityVars, hostVars, bootVars, playerVars
<1>9. CASE SwapIn
  <2>1. DataOK'
    BY <1>9, WorldOf, Booleans DEF SwapIn, Goto, DataOK, dataVars, snapshotVars, restoreVars
  <2>2. ProcOK'
    BY <1>9, FlagsUpdates DEF SwapIn, Goto, ProcOK, procVars
  <2> QED
    BY <1>9, <2>1, <2>2 DEF SwapIn, Goto, AuthorityOK, HostOK, PlayerOK, FaultsOK,
           authorityVars, hostVars, bootVars, playerVars
<1>10. CASE MarkRestored
  <2>1. DataOK'
    BY <1>10, WorldFields, WorldUpdates, Booleans DEF MarkRestored, At, DataOK, dataVars,
           snapshotVars, restoreVars
  <2>2. ProcOK'
    BY <1>10, FlagsUpdates DEF MarkRestored, At, ProcOK, procVars
  <2> QED
    BY <1>10, <2>1, <2>2 DEF MarkRestored, At, AuthorityOK, HostOK, PlayerOK, FaultsOK,
           authorityVars, hostVars, bootVars, playerVars
<1>11. CASE RecordRollback
  <2>1. AuthorityOK'
    BY <1>11, Booleans DEF RecordRollback, OnlyTheRecord, AuthorityOK, authorityVars
  <2>2. ProcOK'
    BY <1>11, FlagsUpdates DEF RecordRollback, OnlyTheRecord, ProcOK, procVars
  <2> QED
    BY <1>11, <2>1, <2>2 DEF RecordRollback, OnlyTheRecord, DataOK, HostOK, PlayerOK, FaultsOK,
           dataVars, snapshotVars, restoreVars, hostVars, bootVars, playerVars
<1>12. CASE RecordRollbackTerminal
  <2>1. AuthorityOK'
    BY <1>12, Booleans DEF RecordRollbackTerminal, At, Goto, OnlyTheRecord, AuthorityOK,
           authorityVars
  <2>2. ProcOK'
    BY <1>12, FlagsUpdates DEF RecordRollbackTerminal, At, Goto, OnlyTheRecord, ProcOK, procVars
  <2> QED
    BY <1>12, <2>1, <2>2 DEF RecordRollbackTerminal, At, Goto, OnlyTheRecord, DataOK, HostOK,
           PlayerOK, FaultsOK, dataVars, snapshotVars, restoreVars, hostVars, bootVars,
           playerVars
<1> QED
  BY <1>1, <1>2, <1>3, <1>4, <1>5, <1>6, <1>7, <1>8, <1>9, <1>10, <1>11, <1>12 DEF Rollback

\* The quarantine of a transaction that cannot be rolled back (afterlight-quest-safe-update.sh:459-471).
LEMMA QuarantineTypes == TypeOK /\ Quarantine => TypeOK'
<1> SUFFICES ASSUME TypeOK, Quarantine PROVE TypeOK'
  OBVIOUS
<1> USE DEF TypeOK
<1>1. CASE QuarantineBegin
  <2>1. AuthorityOK'
    BY <1>1, Booleans DEF QuarantineBegin, At, Noting, CountError, AuthorityOK, authorityVars
  <2>2. ProcOK'
    BY <1>1, FlagsUpdates DEF QuarantineBegin, At, Noting, CountError, ProcOK, procVars
  <2>3. FaultsOK'
    BY <1>1, BoundsAreNatural DEF QuarantineBegin, At, Noting, CountError, FaultsOK
  <2> QED
    BY <1>1, <2>1, <2>2, <2>3 DEF QuarantineBegin, At, Noting, CountError, DataOK, HostOK,
           PlayerOK, dataVars, snapshotVars, restoreVars, hostVars, bootVars, playerVars
<1>2. CASE QuarantineGate
  <2>1. HostOK'
    BY <1>2, Booleans DEF QuarantineGate, At, Noting, CountError, HostOK, hostVars, bootVars
  <2>2. ProcOK'
    BY <1>2, FlagsUpdates DEF QuarantineGate, At, Noting, CountError, ProcOK, procVars
  <2>3. FaultsOK'
    BY <1>2, BoundsAreNatural DEF QuarantineGate, At, Noting, CountError, FaultsOK
  <2> QED
    BY <1>2, <2>1, <2>2, <2>3 DEF QuarantineGate, At, Noting, CountError, AuthorityOK, DataOK,
           PlayerOK, authorityVars, dataVars, snapshotVars, restoreVars, playerVars
<1>3. CASE ReconcileServices
  <2>1. HostOK'
    BY <1>3, Booleans DEF ReconcileServices, ReconcileService, Noting, CountError, Stop, HostOK,
           hostVars, bootVars
  <2>2. ProcOK'
    BY <1>3, FlagsUpdates DEF ReconcileServices, ReconcileService, Noting, CountError, Stop,
           ProcOK, procVars
  <2>3. PlayerOK'
    BY <1>3 DEF ReconcileServices, ReconcileService, Noting, CountError, Stop, PlayerOK,
           playerVars
  <2>4. FaultsOK'
    BY <1>3, BoundsAreNatural DEF ReconcileServices, ReconcileService, Noting, CountError, Stop,
           FaultsOK
  <2> QED
    BY <1>3, <2>1, <2>2, <2>3, <2>4 DEF ReconcileServices, ReconcileService, Noting, CountError,
           Stop, AuthorityOK, DataOK, authorityVars, dataVars, snapshotVars, restoreVars
<1>4. CASE QuarantineRecord
  <2>1. AuthorityOK'
    BY <1>4, Booleans DEF QuarantineRecord, At, Return, OnlyTheRecord, AuthorityOK,
           authorityVars
  <2>2. ProcOK'
    BY <1>4, FlagsUpdates DEF QuarantineRecord, At, Return, OnlyTheRecord, ProcOK, procVars
  <2> QED
    BY <1>4, <2>1, <2>2 DEF QuarantineRecord, At, Return, OnlyTheRecord, DataOK, HostOK,
           PlayerOK, FaultsOK, dataVars, snapshotVars, restoreVars, hostVars, bootVars,
           playerVars
<1> QED
  BY <1>1, <1>2, <1>3, <1>4 DEF Quarantine

\* The terminal cleanup of afterlight-quest-update-finalize.sh.
LEMMA FinalizeTypes == TypeOK /\ Finalize => TypeOK'
<1> SUFFICES ASSUME TypeOK, Finalize PROVE TypeOK'
  OBVIOUS
<1> USE DEF TypeOK
<1>1. CASE FinalizeBegin
  <2>1. AuthorityOK'
    BY <1>1, Booleans DEF FinalizeBegin, FinalizeAt, AuthorityOK, authorityVars
  <2> QED
    BY <1>1, <2>1 DEF FinalizeBegin, FinalizeAt, DataOK, HostOK, ProcOK, PlayerOK, FaultsOK,
           dataVars, snapshotVars, restoreVars, hostVars, bootVars, procVars, playerVars
<1>2. CASE RestorePolicies
  <2>1. HostOK'
    BY <1>2, Booleans DEF RestorePolicies, FinalizeAt, Goto, HostOK, hostVars, bootVars
  <2>2. ProcOK'
    BY <1>2, FlagsUpdates DEF RestorePolicies, FinalizeAt, Goto, ProcOK, procVars
  <2> QED
    BY <1>2, <2>1, <2>2 DEF RestorePolicies, FinalizeAt, Goto, AuthorityOK, DataOK, PlayerOK,
           FaultsOK, authorityVars, dataVars, snapshotVars, restoreVars, playerVars
<1>3. CASE ReconcileSystemd
  <2>1. HostOK'
    BY <1>3, Booleans DEF ReconcileSystemd, FinalizeAt, Goto, HostOK, hostVars, bootVars
  <2>2. ProcOK'
    BY <1>3, FlagsUpdates DEF ReconcileSystemd, FinalizeAt, Goto, ProcOK, procVars
  <2> QED
    BY <1>3, <2>1, <2>2 DEF ReconcileSystemd, FinalizeAt, Goto, AuthorityOK, DataOK, PlayerOK,
           FaultsOK, authorityVars, dataVars, snapshotVars, restoreVars, playerVars
<1>4. CASE RemoveGate
  <2>1. HostOK'
    BY <1>4, Booleans DEF RemoveGate, FinalizeAt, DeleteRule, Goto, HostOK, hostVars, bootVars
  <2>2. ProcOK'
    BY <1>4, FlagsUpdates DEF RemoveGate, FinalizeAt, DeleteRule, Goto, ProcOK, procVars
  <2> QED
    BY <1>4, <2>1, <2>2 DEF RemoveGate, FinalizeAt, DeleteRule, Goto, AuthorityOK, DataOK,
           PlayerOK, FaultsOK, authorityVars, dataVars, snapshotVars, restoreVars, playerVars
<1>5. CASE RecordCleanup
  <2>1. AuthorityOK'
    BY <1>5, Booleans DEF RecordCleanup, NextCleanup, Goto, AuthorityOK, authorityVars
  <2>2. ProcOK'
    BY <1>5, FlagsUpdates DEF RecordCleanup, NextCleanup, Goto, ProcOK, procVars
  <2> QED
    BY <1>5, <2>1, <2>2 DEF RecordCleanup, NextCleanup, Goto, DataOK, HostOK, PlayerOK,
           FaultsOK, dataVars, snapshotVars, restoreVars, hostVars, bootVars, playerVars
<1>6. CASE CompleteAuthority
  <2>1. AuthorityOK'
    BY <1>6, Booleans DEF CompleteAuthority, FinalizeAt, Return, AuthorityOK, authorityVars
  <2>2. ProcOK'
    BY <1>6, FlagsUpdates DEF CompleteAuthority, FinalizeAt, Return, ProcOK, procVars
  <2> QED
    BY <1>6, <2>1, <2>2 DEF CompleteAuthority, FinalizeAt, Return, DataOK, HostOK, PlayerOK,
           FaultsOK, dataVars, snapshotVars, restoreVars, hostVars, bootVars, playerVars
<1> QED
  BY <1>1, <1>2, <1>3, <1>4, <1>5, <1>6 DEF Finalize

\* The choices of afterlight-quest-update-recover.sh once it holds the lock.
LEMMA RecoveryTypes == TypeOK /\ Recovery => TypeOK'
<1> SUFFICES ASSUME TypeOK, Recovery PROVE TypeOK'
  OBVIOUS
<1> USE DEF TypeOK
<1>1. CASE RecoveryPreparing
  <2>1. AuthorityOK'
    BY <1>1, Booleans DEF RecoveryPreparing, At, Goto, OnlyTheRecord, AuthorityOK, authorityVars
  <2>2. ProcOK'
    BY <1>1, FlagsUpdates DEF RecoveryPreparing, At, Goto, OnlyTheRecord, ProcOK, procVars
  <2> QED
    BY <1>1, <2>1, <2>2 DEF RecoveryPreparing, At, Goto, OnlyTheRecord, DataOK, HostOK,
           PlayerOK, FaultsOK, dataVars, snapshotVars, restoreVars, hostVars, bootVars,
           playerVars
<1>2. CASE DisableTimer
  <2>1. HostOK'
    BY <1>2, Booleans DEF DisableTimer, At, Goto, HostOK, hostVars, bootVars
  <2>2. ProcOK'
    BY <1>2, FlagsUpdates DEF DisableTimer, At, Goto, ProcOK, procVars
  <2> QED
    BY <1>2, <2>1, <2>2 DEF DisableTimer, At, Goto, AuthorityOK, DataOK, PlayerOK, FaultsOK,
           authorityVars, dataVars, snapshotVars, restoreVars, playerVars
<1>3. CASE BeginRestore
  <2>1. DataOK'
    BY <1>3, Booleans DEF BeginRestore, At, Goto, Extractable, DataOK, dataVars, snapshotVars,
           restoreVars
  <2>2. ProcOK'
    BY <1>3, FlagsUpdates DEF BeginRestore, At, Goto, Extractable, ProcOK, procVars
  <2> QED
    BY <1>3, <2>1, <2>2 DEF BeginRestore, At, Goto, Extractable, AuthorityOK, HostOK, PlayerOK,
           FaultsOK, authorityVars, hostVars, bootVars, playerVars
<1>4. CASE FinishExtract
  <2>1. DataOK'
    BY <1>4, Booleans DEF FinishExtract, At, Goto, DataOK, dataVars, snapshotVars, restoreVars
  <2>2. ProcOK'
    BY <1>4, FlagsUpdates DEF FinishExtract, At, Goto, ProcOK, procVars
  <2> QED
    BY <1>4, <2>1, <2>2 DEF FinishExtract, At, Goto, AuthorityOK, HostOK, PlayerOK, FaultsOK,
           authorityVars, hostVars, bootVars, playerVars
<1>5. CASE CompareRestored
  <2>1. ProcOK'
    BY <1>5, FlagsUpdates DEF CompareRestored, At, ProgressKept, Goto, OnlyTheStep, ProcOK,
           procVars
  <2> QED
    BY <1>5, <2>1 DEF CompareRestored, At, ProgressKept, Goto, OnlyTheStep, AuthorityOK, DataOK,
           HostOK, PlayerOK, FaultsOK, authorityVars, dataVars, snapshotVars, restoreVars,
           hostVars, bootVars, playerVars
<1>6. CASE CheckMarker
  <2>1. ProcOK'
    BY <1>6, FlagsUpdates DEF CheckMarker, At, OnlyTheStep, ProcOK, procVars
  <2> QED
    BY <1>6, <2>1 DEF CheckMarker, At, OnlyTheStep, AuthorityOK, DataOK, HostOK, PlayerOK,
           FaultsOK, authorityVars, dataVars, snapshotVars, restoreVars, hostVars, bootVars,
           playerVars
<1>7. CASE EnsureRule
  <2>1. HostOK'
    BY <1>7, Booleans DEF EnsureRule, Goto, HostOK, hostVars, bootVars
  <2>2. ProcOK'
    BY <1>7, FlagsUpdates DEF EnsureRule, Goto, ProcOK, procVars
  <2> QED
    BY <1>7, <2>1, <2>2 DEF EnsureRule, Goto, AuthorityOK, DataOK, PlayerOK, FaultsOK,
           authorityVars, dataVars, snapshotVars, restoreVars, playerVars
<1>8. CASE QuarantineGateRecord
  <2>1. AuthorityOK'
    BY <1>8, Booleans DEF QuarantineGateRecord, Goto, Return, OnlyTheRecord, AuthorityOK,
           authorityVars
  <2>2. ProcOK'
    BY <1>8, FlagsUpdates DEF QuarantineGateRecord, Goto, Return, OnlyTheRecord, ProcOK,
           procVars
  <2> QED
    BY <1>8, <2>1, <2>2 DEF QuarantineGateRecord, Goto, Return, OnlyTheRecord, DataOK, HostOK,
           PlayerOK, FaultsOK, dataVars, snapshotVars, restoreVars, hostVars, bootVars,
           playerVars
<1> QED
  BY <1>1, <1>2, <1>3, <1>4, <1>5, <1>6, <1>7, <1>8 DEF Recovery

\* The units a reboot starts before and after the containers.
LEMMA BootTypes == TypeOK /\ Boot => TypeOK'
<1> SUFFICES ASSUME TypeOK, Boot PROVE TypeOK'
  OBVIOUS
<1> USE DEF TypeOK
<1>1. CASE IngressGate
  <2>1. HostOK'
    BY <1>1, Booleans DEF IngressGate, BootsClosed, HostOK, hostVars, bootVars
  <2> QED
    BY <1>1, <2>1 DEF IngressGate, BootsClosed, AuthorityOK, DataOK, ProcOK, PlayerOK, FaultsOK,
           authorityVars, dataVars, snapshotVars, restoreVars, procVars, playerVars
<1>2. CASE DockerStart
  <2>1. DataOK'
    BY <1>2, WorldFields, WorldUpdates, TouchType, Booleans DEF DockerStart, DataOK, dataVars,
           snapshotVars, restoreVars
  <2>2. HostOK'
    BY <1>2, Booleans DEF DockerStart, HostOK, hostVars, bootVars
  <2> QED
    BY <1>2, <2>1, <2>2 DEF DockerStart, AuthorityOK, ProcOK, PlayerOK, FaultsOK, authorityVars,
           procVars, playerVars
<1>3. CASE QuarantineGateBegin
  <2>1. HostOK'
    BY <1>3, Booleans DEF QuarantineGateBegin, HostOK, hostVars, bootVars
  <2>2. ProcOK'
    BY <1>3, FlagsUpdates DEF QuarantineGateBegin, ProcOK, procVars
  <2> QED
    BY <1>3, <2>1, <2>2 DEF QuarantineGateBegin, AuthorityOK, DataOK, PlayerOK, FaultsOK,
           authorityVars, dataVars, snapshotVars, restoreVars, playerVars
<1> QED
  BY <1>1, <1>2, <1>3 DEF Boot

\* The players and the host's operator.
LEMMA EnvironmentTypes == TypeOK /\ Environment => TypeOK'
<1> SUFFICES ASSUME TypeOK, Environment PROVE TypeOK'
  OBVIOUS
<1> USE DEF TypeOK
<1>1. CASE Connect
  <2>1. PlayerOK'
    BY <1>1 DEF Connect, PlayerOK, playerVars
  <2> QED
    BY <1>1, <2>1 DEF Connect, AuthorityOK, DataOK, HostOK, ProcOK, FaultsOK, authorityVars,
           dataVars, snapshotVars, restoreVars, hostVars, bootVars, procVars
<1>2. CASE Login
  <2>1. PICK l \in {world.listed, FALSE} : world' = [world EXCEPT !.listed = l]
    BY <1>2 DEF Login
  <2>2. l \in BOOLEAN
    BY <2>1, WorldFields, Booleans DEF DataOK
  <2>3. DataOK'
    BY <1>2, <2>1, <2>2, WorldUpdates DEF Login, DataOK, snapshotVars, restoreVars
  <2> QED
    BY <1>2, <2>3 DEF Login, AuthorityOK, authorityVars, HostOK, hostVars, bootVars,
       ProcOK, procVars, PlayerOK, FaultsOK
<1>3. CASE Play
  <2>1. world' = [world EXCEPT !.progress = world.progress + 1]
    BY <1>3 DEF Play
  <2>2. world.progress + 1 \in 0..MaxProgress
    BY <1>3, WorldFields, BoundsAreNatural DEF Play, DataOK
  <2>3. DataOK'
    BY <1>3, <2>1, <2>2, WorldUpdates DEF Play, DataOK, snapshotVars, restoreVars
  <2>4. PlayerOK'
    BY <1>3, BoundsAreNatural DEF Play, PlayerOK
  <2> QED
    BY <1>3, <2>3, <2>4 DEF Play, AuthorityOK, authorityVars, HostOK, hostVars, bootVars,
       ProcOK, procVars, FaultsOK
<1>4. CASE Leave
  <2>1. PlayerOK'
    BY <1>4 DEF Leave, PlayerOK, playerVars
  <2> QED
    BY <1>4, <2>1 DEF Leave, AuthorityOK, DataOK, HostOK, ProcOK, FaultsOK, authorityVars,
           dataVars, snapshotVars, restoreVars, hostVars, bootVars, procVars
<1>5. CASE CheckOut
  <2>1. AuthorityOK'
    BY <1>5, Booleans DEF CheckOut, AuthorityOK, authorityVars
  <2> QED
    BY <1>5, <2>1 DEF CheckOut, DataOK, HostOK, ProcOK, PlayerOK, FaultsOK, dataVars,
           snapshotVars, restoreVars, hostVars, bootVars, procVars, playerVars
<1>6. CASE OperatorStart
  <2>1. world' = [world EXCEPT !.mods = checkout, !.origin = "changed"]
    BY <1>6 DEF OperatorStart
  <2>2. DataOK'
    <3>1. world \in World /\ checkout \in Releases /\ "changed" \in Origins
      BY DEF DataOK, AuthorityOK
    <3>2. [world EXCEPT !.mods = checkout, !.origin = "changed"] \in World
      BY <3>1, WorldUpdates, Booleans, WorldFields
    <3> QED
      BY <1>6, <2>1, <3>2 DEF OperatorStart, DataOK, snapshotVars, restoreVars
  <2>3. /\ policy' \in [Services -> Policies]
        /\ running' \subseteq Services /\ url' \in Releases
    BY <1>6 DEF OperatorStart, AuthorityOK
  <2>4. HostOK'
    BY <1>6, <2>3 DEF OperatorStart, HostOK, bootVars
  <2> QED
    BY <1>6, <2>2, <2>4 DEF OperatorStart, AuthorityOK, authorityVars, ProcOK, procVars,
       PlayerOK, playerVars, FaultsOK
<1>7. CASE UpdateBegin
  <2>1. DataOK'
    BY <1>7, WorldFields, WorldUpdates, Booleans DEF UpdateBegin, DataOK, dataVars,
           snapshotVars, restoreVars
  <2>2. ProcOK'
    BY <1>7, FlagsUpdates DEF UpdateBegin, ProcOK, procVars
  <2> QED
    BY <1>7, <2>1, <2>2 DEF UpdateBegin, AuthorityOK, HostOK, PlayerOK, FaultsOK, authorityVars,
           hostVars, bootVars, playerVars
<1> QED
  BY <1>1, <1>2, <1>3, <1>4, <1>5, <1>6, <1>7 DEF Environment

\* Kills, reboots and failing commands.
LEMMA FailuresTypes == TypeOK /\ Failures => TypeOK'
<1> SUFFICES ASSUME TypeOK, Failures PROVE TypeOK'
  OBVIOUS
<1> USE DEF TypeOK
<1>1. CASE StepFails
  <2>1. DataOK'
    BY <1>1, Booleans DEF StepFails, CountError, Abandon, InRollback, Rolling, Goto, Return,
           Stopping, Stop, DataOK, dataVars, snapshotVars, restoreVars
  <2>2. HostOK'
    BY <1>1, Booleans DEF StepFails, CountError, Abandon, InRollback, Rolling, Goto, Return,
           Stopping, Stop, HostOK, hostVars, bootVars
  <2>3. ProcOK'
    BY <1>1, FlagsUpdates DEF StepFails, CountError, Abandon, InRollback, Rolling, Goto, Return,
           Stopping, Stop, ProcOK, procVars
  <2>4. PlayerOK'
    BY <1>1 DEF StepFails, CountError, Abandon, InRollback, Rolling, Goto, Return, Stopping,
           Stop, PlayerOK, playerVars
  <2>5. FaultsOK'
    BY <1>1, BoundsAreNatural DEF StepFails, CountError, Abandon, InRollback, Rolling, Goto,
           Return, Stopping, Stop, FaultsOK
  <2> QED
    BY <1>1, <2>1, <2>2, <2>3, <2>4, <2>5 DEF StepFails, CountError, Abandon, InRollback,
           Rolling, Goto, Return, Stopping, Stop, AuthorityOK, authorityVars
<1>2. CASE SwapInFails
  <2>1. DataOK'
    BY <1>2, WorldFields, WorldUpdates, Booleans DEF SwapInFails, CountError, Abandon,
           InRollback, Rolling, Goto, Return, DataOK, dataVars, snapshotVars, restoreVars
  <2>2. ProcOK'
    BY <1>2, FlagsUpdates DEF SwapInFails, CountError, Abandon, InRollback, Rolling, Goto,
           Return, ProcOK, procVars
  <2>3. FaultsOK'
    BY <1>2, BoundsAreNatural DEF SwapInFails, CountError, Abandon, InRollback, Rolling, Goto,
           Return, FaultsOK
  <2> QED
    BY <1>2, <2>1, <2>2, <2>3 DEF SwapInFails, CountError, Abandon, InRollback, Rolling, Goto,
           Return, AuthorityOK, HostOK, PlayerOK, authorityVars, hostVars, bootVars, playerVars
<1>3. CASE ChainMissing
  <2>1. HostOK'
    BY <1>3, Booleans DEF ChainMissing, CountError, Stop, Return, HostOK, hostVars, bootVars
  <2>2. ProcOK'
    BY <1>3, FlagsUpdates DEF ChainMissing, CountError, Stop, Return, ProcOK, procVars
  <2>3. PlayerOK'
    BY <1>3 DEF ChainMissing, CountError, Stop, Return, PlayerOK, playerVars
  <2>4. FaultsOK'
    BY <1>3, BoundsAreNatural DEF ChainMissing, CountError, Stop, Return, FaultsOK
  <2> QED
    BY <1>3, <2>1, <2>2, <2>3, <2>4 DEF ChainMissing, CountError, Stop, Return, AuthorityOK,
           DataOK, authorityVars, dataVars, snapshotVars, restoreVars
<1>4. CASE Kill
  <2>1. ProcOK'
    BY <1>4, FlagsUpdates DEF Kill, Return, ProcOK, procVars
  <2>2. FaultsOK'
    BY <1>4, BoundsAreNatural DEF Kill, Return, FaultsOK
  <2> QED
    BY <1>4, <2>1, <2>2 DEF Kill, Return, AuthorityOK, DataOK, HostOK, PlayerOK, authorityVars,
           dataVars, snapshotVars, restoreVars, hostVars, bootVars, playerVars
<1>5. CASE Reboot
  <2>1. HostOK'
    BY <1>5, Booleans DEF Reboot, Return, HostOK, hostVars, bootVars
  <2>2. ProcOK'
    BY <1>5, FlagsUpdates DEF Reboot, Return, ProcOK, procVars
  <2>3. PlayerOK'
    BY <1>5 DEF Reboot, Return, PlayerOK, playerVars
  <2>4. FaultsOK'
    BY <1>5, BoundsAreNatural DEF Reboot, Return, FaultsOK
  <2> QED
    BY <1>5, <2>1, <2>2, <2>3, <2>4 DEF Reboot, Return, AuthorityOK, DataOK, authorityVars,
           dataVars, snapshotVars, restoreVars
<1> QED
  BY <1>1, <1>2, <1>3, <1>4, <1>5 DEF Failures

\* A refuted live verification, a repeated recovery and a container's pack install.
LEMMA RemainingTypes == TypeOK /\ (VerificationFails \/ RecoverBegin \/ InstallPack) => TypeOK'
<1> SUFFICES ASSUME TypeOK, VerificationFails \/ RecoverBegin \/ InstallPack PROVE TypeOK'
  OBVIOUS
<1> USE DEF TypeOK
<1>1. CASE VerificationFails
  <2>1. ProcOK'
    BY <1>1, FlagsUpdates DEF VerificationFails, Refuted, LiveVerified, Revision, ProgressKept,
           Abandon, InRollback, Rolling, Goto, Return, OnlyTheStep, ProcOK, procVars
  <2> QED
    BY <1>1, <2>1 DEF VerificationFails, Refuted, LiveVerified, Revision, ProgressKept, Abandon,
           InRollback, Rolling, Goto, Return, OnlyTheStep, AuthorityOK, DataOK, HostOK,
           PlayerOK, FaultsOK, authorityVars, dataVars, snapshotVars, restoreVars, hostVars,
           bootVars, playerVars
<1>2. CASE RecoverBegin
  <2>1. ProcOK'
    BY <1>2, FlagsUpdates DEF RecoverBegin, OnlyTheStep, ProcOK, procVars
  <2> QED
    BY <1>2, <2>1 DEF RecoverBegin, OnlyTheStep, AuthorityOK, DataOK, HostOK, PlayerOK,
           FaultsOK, authorityVars, dataVars, snapshotVars, restoreVars, hostVars, bootVars,
           playerVars
<1>3. CASE InstallPack
  <2>1. PICK p \in 0..world.progress, l \in BOOLEAN :
          world' = [Touch(world) EXCEPT !.mods = url, !.progress = p, !.listed = l]
    BY <1>3 DEF InstallPack
  <2>2. DataOK'
    <3>1. world \in World /\ Touch(world) \in World /\ url \in Releases
      BY TouchType DEF DataOK, HostOK
    <3>2. p \in 0..MaxProgress
      BY <2>1, <3>1, WorldFields, BoundsAreNatural
    <3>3. world' \in World
      BY <2>1, <3>1, <3>2, WorldUpdates, Booleans, WorldFields
    <3> QED
      BY <1>3, <3>3 DEF InstallPack, DataOK, snapshotVars, restoreVars
  <2>3. UNCHANGED <<authorityVars, checkout, hostVars, procVars, playerVars, faults>>
    BY <1>3 DEF InstallPack
  <2>4. AuthorityOK' /\ HostOK'
    BY <2>3 DEF AuthorityOK, HostOK, authorityVars, hostVars, bootVars
  <2>5. ProcOK' /\ PlayerOK' /\ FaultsOK'
    BY <2>3 DEF ProcOK, PlayerOK, FaultsOK, procVars, playerVars
  <2> QED
    BY <2>2, <2>4, <2>5
<1> QED
  BY <1>1, <1>2, <1>3

\* Every step of the specification keeps the types.
LEMMA NextTypes == TypeOK /\ [Next]_vars => TypeOK'
<1> SUFFICES ASSUME TypeOK, [Next]_vars PROVE TypeOK'
  OBVIOUS
<1>1. CASE Transaction
  BY <1>1, TransactionTypes
<1>2. CASE Starting
  BY <1>2, StartingTypes
<1>3. CASE Rollback
  BY <1>3, RollbackTypes
<1>4. CASE Quarantine
  BY <1>4, QuarantineTypes
<1>5. CASE Finalize
  BY <1>5, FinalizeTypes
<1>6. CASE Recovery
  BY <1>6, RecoveryTypes
<1>7. CASE VerificationFails \/ RecoverBegin \/ InstallPack
  BY <1>7, RemainingTypes
<1>8. CASE Boot
  BY <1>8, BootTypes
<1>9. CASE Environment
  BY <1>9, EnvironmentTypes
<1>10. CASE Failures
  BY <1>10, FailuresTypes
<1>11. CASE UNCHANGED vars
  BY <1>11 DEF vars, TypeOK, AuthorityOK, DataOK, HostOK, ProcOK, PlayerOK, FaultsOK,
     authorityVars, dataVars, snapshotVars, restoreVars, hostVars, bootVars, procVars,
     playerVars
<1> QED
  BY <1>1, <1>2, <1>3, <1>4, <1>5, <1>6, <1>7, <1>8, <1>9, <1>10, <1>11 DEF Next, Script

\* A healthy production server has the types.
LEMMA InitTypes == Init => TypeOK
<1> SUFFICES ASSUME Init PROVE TypeOK
  OBVIOUS
<1>1. AuthorityOK /\ HostOK
  BY Booleans DEF Init, AuthorityOK, HostOK
<1>2. world \in World /\ archive \in Archive /\ manifest \in 0..MaxProgress
  BY BoundsAreNatural DEF Init, World, Archive
<1>3. DataOK
  BY <1>2, Booleans DEF Init, DataOK
<1>4. ProcOK /\ PlayerOK /\ FaultsOK
  BY BoundsAreNatural, FlagsUpdates DEF Init, ProcOK, PlayerOK, FaultsOK
<1> QED
  BY <1>1, <1>3, <1>4 DEF TypeOK

\* The variables keep their types, whatever the scripts, the players and the
\* faults do: every phase the scripts write is one the record accepts, every
\* step they go to exists, and no bound is overrun.
THEOREM TypeCorrect == Spec => []TypeOK
<1>1. Init => TypeOK
  BY InitTypes
<1>2. TypeOK /\ [Next]_vars => TypeOK'
  BY NextTypes
<1> QED
  BY <1>1, <1>2, PTL DEF Spec

-----------------------------------------------------------------------------
(* Through host crashes: the inductive invariant.                           *)

GateSteps == {"q-gate", "q-minecraft", "q-backup", "q-record"}
Finalizing == {"finalize", "finalize-backup", "finalize-record"}

\* The steps of a recovery that has no archive to restore, and of one that has.
UnmutatedSteps == GateSteps \union Finalizing \union
  {"recovery-preparing", "disable-timer", "rollback-checkout-prior",
   "reconcile-checkout", "rollback-checkout-complete", "recover-marker",
   "rollback-verified"}
RestoringSteps == {"restore", "extract-rest", "swap-out", "swap-in", "recover-compare",
                   "up", "health", "mark", "verify", "stop-minecraft", "compare", "backup-up"}

\* The steps between the authority record and the first protected mutation.
BeforeMutation == MainSteps \ {"authorize", "candidate-started", "candidate-verified",
                               "final-check", "release-proven", "snapshot-complete"}

\* Where each script can be.
Placed ==
  /\ proc = "none" <=> pc = "idle"
  /\ pc \in {"idle", "authorize"} => run = "none" /\ ~flags.verified
  /\ proc = "update" => pc \notin RecoverySteps
  /\ proc = "recover" => pc \in UnmutatedSteps \union (IF mutated THEN RestoringSteps ELSE {})
  /\ proc = "boot" => pc \in GateSteps
  /\ proc = "update" /\ run \in {"candidate-1", "candidate-2"} =>
       mutated /\ pc \in StartSteps \union {"candidate-started", "candidate-verified",
                                            "final-check", "exit"}
  /\ proc = "update" => run \notin {"recover-1", "recover-2"}
  /\ pc \in StartSteps \union {"candidate-started", "candidate-verified", "final-check"} =>
       run # "none"
  /\ Rolling => pc \in StartSteps \union {"rollback-verified"}
  /\ proc = "recover" => run \in {"none", "recover-1", "recover-2"}

\* What each of them has recorded when it is there.
Recorded ==
  /\ proc = "update" =>
       /\ pc = "authorize" => status = "absent"
       /\ pc \in (MainSteps \ {"authorize"}) \union StartSteps \union RollbackSteps
                 \union {"transaction-verified"} => status = "pending"
       /\ pc = "exit" => status \in {"absent", "pending"}
       /\ pc \in QuarantineSteps => status \in {"pending", "quarantine"}
       /\ status = "quarantine" => phase \notin {"quarantined", "boot-reconciled"}
       /\ Rolling \/ pc \in RollbackSteps \ {"rollback"} => flags.verified
  /\ proc = "recover" =>
       /\ pc = "recovery-preparing" => status \in {"pending", "quarantine"}
       /\ pc \notin Finalizing \union {"recovery-preparing"} => status = "quarantine"
       /\ pc \notin {"recovery-preparing", "rollback-checkout-prior"} =>
            phase \notin {"quarantined", "boot-reconciled"}
  /\ proc = "boot" => status # "absent"
  /\ pc \in Finalizing => status = "terminal"
  /\ status = "terminal" =>
       phase \in CleanupPhases \union {"transaction-verified", "rollback-verified"}

\* No script runs while the host boots, and no container before Docker does.
Booting ==
  /\ proc # "none" => host \in {"pending", "up"}
  /\ host \in {"pending", "up"} => resume = {}
  /\ host \in {"ingress", "docker"} => running = {}
  /\ host = "docker" /\ status # "absent" => gate

\* Between the gate's installation and the first mutation, and afterwards.
Guarded ==
  /\ proc = "update" /\ pc \in {"gate-closed", "zero-players", "flush", "shutdown-started",
       "stop-both", "stopped", "snapshot", "snapshot-created", "archive",
       "backup-authenticated", "candidate-starting"} => gate
  /\ proc # "update" /\ pc \in GateSteps \ {"q-gate"} => gate
  /\ status # "absent" /\ mutated /\ host # "ingress" =>
       gate \/ (status = "terminal" /\ phase \in {"cleanup-gate", "cleanup-complete"})

\* What a quarantine has reconciled so far, unless it has noted a failure.
Reconciled ==
  ~flags.failed =>
    /\ pc \in GateSteps \ {"q-gate"} => gate
    /\ pc \in {"q-backup", "q-record"} => policy["minecraft"] = "no" /\ "minecraft" \notin running
    /\ pc = "q-record" => policy["backup"] = "no" /\ "backup" \notin running

\* Minecraft runs, or Docker will start it.
Serving == "minecraft" \in running \union resume

\* What runs without a transaction, or with a decided one, is what the marker says.
Settled ==
  status \in {"terminal", "absent"}
    \/ pc \in {"rollback-verified", "rollback-terminal", "release-proven",
               "snapshot-complete", "transaction-verified"}
  => (Serving => url = world.mods /\ url = world.marker)

\* Before the first mutation there is nothing but the prior release, and the
\* archive is made of it.
Unmutated ==
  /\ pc = "authorize" \/ (status # "absent" /\ ~mutated) =>
       HoldsRelease(world, Prior) /\ (Serving => url = Prior)
  /\ proc = "update" /\ pc \in BeforeMutation => ~mutated
  /\ proc = "update" /\ flags.verified => HoldsRelease(archive, Prior)

\* How far a start has come.
Started ==
  /\ pc = "health" => url = Revision
  /\ pc \in {"mark", "verify", "candidate-started", "stop-minecraft", "compare", "integrity",
             "backup-up"} =>
       url = Revision /\ world.mods = Revision
  /\ pc \in {"verify", "backup-up"} => world.marker = Revision
  /\ pc = "final-check" => url = Candidate

GInv == TypeOK /\ Placed /\ Recorded /\ Booting /\ Guarded /\ Reconciled
        /\ QuarantineHolds /\ Settled /\ Unmutated /\ Started

USE DEF Releases, Services, Policies, Origins, Processes, Runs, Phases, CleanupPhases,
        Steps, MainSteps, StartSteps, RollbackSteps, QuarantineSteps, FinalizeSteps,
        RecoverySteps
USE DEF GInv, Placed, Recorded, Booting, Guarded, Reconciled, QuarantineHolds, Settled,
        Unmutated, Started, GateSteps, Finalizing, UnmutatedSteps, RestoringSteps,
        BeforeMutation, Serving, HoldsRelease, Rolling, Revision
USE DEF authorityVars, dataVars, snapshotVars, hostVars, bootVars

-----------------------------------------------------------------------------
(* Every step preserves it, one lemma per group of actions.                *)

\* The main sequence of the update (main, afterlight-quest-safe-update.sh:539-694).
LEMMA TransactionGuards ==
  ASSUME GInv, TypeOK', Transaction PROVE GInv'
<1>1. CASE CreateAuthority
  BY <1>1 DEF CreateAuthority, Goto, At
<1>2. CASE RecordPhase
  BY <1>2 DEF RecordPhase, Record, Goto, At
<1>3. CASE EnsureGate
  BY <1>3 DEF EnsureGate, Goto, At
<1>4. CASE RequireZeroPlayers
  BY <1>4 DEF RequireZeroPlayers, OnlyTheStep, Goto, At
<1>5. CASE Flush
  BY <1>5 DEF Flush, OnlyTheStep, Goto, At
<1>6. CASE StopBoth
  BY <1>6 DEF StopBoth, Goto, Stop, At
<1>7. CASE CreateSnapshot
  BY <1>7 DEF CreateSnapshot, Goto, At
<1>8. CASE RecordSnapshot
  BY <1>8 DEF RecordSnapshot, At
<1>9. CASE CreateArchive
  BY <1>9 DEF CreateArchive, At
<1>10. CASE RecordMutation
  BY <1>10 DEF RecordMutation, At
<1>11. CASE RecordVerified
  BY <1>11 DEF RecordVerified, TypeOK, ProcOK, At
<1>12. CASE FinalCheck
  BY <1>12 DEF FinalCheck, LiveVerified, At
<1>13. CASE CompleteSnapshot
  BY <1>13 DEF CompleteSnapshot, Goto, At
<1>14. CASE RecordTerminal
  BY <1>14 DEF RecordTerminal, OnlyTheRecord, Goto, At
<1> QED
  BY <1>1, <1>2, <1>3, <1>4, <1>5, <1>6, <1>7, <1>8, <1>9, <1>10, <1>11, <1>12, <1>13, <1>14 DEF
         Transaction

\* The server starts and the checks around them.
LEMMA StartingGuards ==
  ASSUME GInv, TypeOK', Starting PROVE GInv'
<1>1. CASE ComposeUp
  BY <1>1 DEF ComposeUp, Goto, Touch
<1>2. CASE WaitHealthy
  BY <1>2 DEF WaitHealthy, OnlyTheStep, Goto
<1>3. CASE WriteMarker
  BY <1>3 DEF WriteMarker, Goto
<1>4. CASE LiveVerify
  BY <1>4 DEF LiveVerify, OnlyTheStep, Goto
<1>5. CASE StopMinecraft
  BY <1>5 DEF StopMinecraft, Goto, Stop
<1>6. CASE CompareProgress
  BY <1>6 DEF CompareProgress, OnlyTheStep, Goto
<1>7. CASE VerifyIntegrity
  BY <1>7 DEF VerifyIntegrity, OnlyTheStep, Goto
<1>8. CASE StartBackup
  BY <1>8 DEF StartBackup, Goto
<1> QED
  BY <1>1, <1>2, <1>3, <1>4, <1>5, <1>6, <1>7, <1>8 DEF Starting

\* The exit trap and the rollback.
LEMMA RollbackGuards ==
  ASSUME GInv, TypeOK', Rollback PROVE GInv'
<1>1. CASE ExitTrap
  BY <1>1 DEF ExitTrap, Return, NoFlags, At
<1>2. CASE BeginRollback
  BY <1>2 DEF BeginRollback, OnlyTheStep, Goto, At
<1>3. CASE RecordCheckoutTarget
  BY <1>3 DEF RecordCheckoutTarget, TypeOK, ProcOK, Goto
<1>4. CASE ReconcileCheckout
  BY <1>4 DEF ReconcileCheckout, Goto
<1>5. CASE RecordCheckout
  BY <1>5 DEF RecordCheckout, TypeOK, ProcOK, OnlyTheRecord, Goto
<1>6. CASE StopBeforeRestore
  BY <1>6 DEF StopBeforeRestore, Goto, Stop, At
<1>7. CASE Extract
  BY <1>7 DEF Extract, OnlyTheStep, Goto, At
<1>8. CASE SwapOut
  <2>1. world'.marker = world.marker /\ world'.mods = world.mods
    BY <1>8 DEF SwapOut, TypeOK, DataOK, World
  <2> QED
    BY <1>8, <2>1 DEF SwapOut, TypeOK, ProcOK, Goto
<1>9. CASE SwapIn
  BY <1>9 DEF SwapIn, TypeOK, ProcOK, Goto
<1>10. CASE MarkRestored
  BY <1>10 DEF MarkRestored, At
<1>11. CASE RecordRollback
  BY <1>11 DEF RecordRollback, TypeOK, ProcOK, OnlyTheRecord
<1>12. CASE RecordRollbackTerminal
  BY <1>12 DEF RecordRollbackTerminal, OnlyTheRecord, Goto, At
<1> QED
  BY <1>1, <1>2, <1>3, <1>4, <1>5, <1>6, <1>7, <1>8, <1>9, <1>10, <1>11, <1>12 DEF Rollback

\* The quarantine that a failed rollback ends in.
LEMMA QuarantineGuards ==
  ASSUME GInv, TypeOK', Quarantine PROVE GInv'
<1>1. CASE QuarantineBegin
  BY <1>1 DEF QuarantineBegin, TypeOK, ProcOK, Flags, Noting, At
<1>2. CASE QuarantineGate
  <2>1. Recorded' /\ Reconciled' /\ Unmutated'
    BY <1>2 DEF QuarantineGate, TypeOK, ProcOK, HostOK, Flags, Noting, At
  <2> QED
    BY <1>2, <2>1 DEF QuarantineGate, At
<1>3. CASE ReconcileServices
  BY <1>3 DEF ReconcileServices, TypeOK, HostOK, ProcOK, Flags, ReconcileService, Stop, Noting
<1>4. CASE QuarantineRecord
  BY <1>4 DEF QuarantineRecord, TypeOK, HostOK, OnlyTheRecord, Return, NoFlags, At
<1> QED
  BY <1>1, <1>2, <1>3, <1>4 DEF Quarantine

\* The terminal finalizer.
LEMMA FinalizeGuards ==
  ASSUME GInv, TypeOK', Finalize PROVE GInv'
<1>1. CASE FinalizeBegin
  BY <1>1 DEF FinalizeBegin, procVars, FinalizeAt
<1>2. CASE RestorePolicies
  BY <1>2 DEF RestorePolicies, Goto, FinalizeAt
<1>3. CASE ReconcileSystemd
  BY <1>3 DEF ReconcileSystemd, Goto, FinalizeAt
<1>4. CASE RemoveGate
  BY <1>4 DEF RemoveGate, Goto, FinalizeAt
<1>5. CASE RecordCleanup
  BY <1>5 DEF RecordCleanup, Goto, NextCleanup
<1>6. CASE CompleteAuthority
  BY <1>6 DEF CompleteAuthority, Return, NoFlags, FinalizeAt
<1> QED
  BY <1>1, <1>2, <1>3, <1>4, <1>5, <1>6 DEF Finalize

\* The recovery command.
LEMMA RecoveryGuards ==
  ASSUME GInv, TypeOK', Recovery PROVE GInv'
<1>1. CASE RecoveryPreparing
  BY <1>1 DEF RecoveryPreparing, OnlyTheRecord, Goto, At
<1>2. CASE DisableTimer
  BY <1>2 DEF DisableTimer, Goto, At
<1>3. CASE BeginRestore
  BY <1>3 DEF BeginRestore, Goto, At
<1>4. CASE FinishExtract
  BY <1>4 DEF FinishExtract, Goto, At
<1>5. CASE CompareRestored
  BY <1>5 DEF CompareRestored, OnlyTheStep, Goto, At
<1>6. CASE CheckMarker
  BY <1>6 DEF CheckMarker, OnlyTheStep, At
<1>7. CASE EnsureRule
  BY <1>7 DEF EnsureRule, Goto
<1>8. CASE QuarantineGateRecord
  BY <1>8 DEF QuarantineGateRecord, TypeOK, HostOK, OnlyTheRecord, Return, NoFlags, Goto
<1> QED
  BY <1>1, <1>2, <1>3, <1>4, <1>5, <1>6, <1>7, <1>8 DEF Recovery

\* A failed verification, the beginning of a recovery and the installation of a pack.
LEMMA RemainingGuards ==
  ASSUME GInv, TypeOK', VerificationFails \/ RecoverBegin \/ InstallPack PROVE GInv'
<1>1. CASE VerificationFails
  <2>1. CASE proc = "update" /\ ~InRollback /\ pc \in MainSteps \union StartSteps /\ Goto("exit")
    BY <1>1, <2>1 DEF VerificationFails, OnlyTheStep, InRollback, Goto
  <2>2. CASE proc = "update" /\ InRollback /\ pc # "rollback" /\ pc' = "quarantine-reconciling"
             /\ run' = "none" /\ UNCHANGED <<proc, flags>>
    BY <1>1, <2>2 DEF VerificationFails, OnlyTheStep, InRollback
  <2>3. CASE Return
    BY <1>1, <2>3 DEF VerificationFails, OnlyTheStep, Return, NoFlags
  <2> QED
    BY <1>1, <2>1, <2>2, <2>3 DEF VerificationFails, Abandon
<1>2. CASE RecoverBegin
  <2>1. CASE status = "terminal" /\ pc' = "finalize"
    BY <1>2, <2>1 DEF RecoverBegin, OnlyTheStep
  <2>2. CASE status # "terminal" /\ pc' = "recovery-preparing"
    BY <1>2, <2>2 DEF RecoverBegin, OnlyTheStep, TypeOK, AuthorityOK
  <2> QED
    BY <1>2, <2>1, <2>2 DEF RecoverBegin
<1>3. CASE InstallPack
  <2>1. world'.marker = world.marker /\ world'.mods = url
    BY <1>3 DEF InstallPack, Touch, TypeOK, DataOK, World
  <2>2. Serving /\ world.mods # url
    BY <1>3 DEF InstallPack
  <2>3. UNCHANGED <<status, phase, mutated, archive, gate, running, policy, url, host, resume,
                    proc, pc, run, flags>>
    BY <1>3 DEF InstallPack, procVars
  <2> QED
    BY <2>1, <2>2, <2>3
<1> QED
  BY <1>1, <1>2, <1>3

\* The boot gates and the Docker daemon.
LEMMA BootGuards ==
  ASSUME GInv, TypeOK', Boot PROVE GInv'
<1>1. CASE IngressGate
  <2>1. status # "absent" => gate'
    BY <1>1 DEF IngressGate, BootsClosed
  <2>2. gate => gate'
    BY <1>1 DEF IngressGate
  <2> QED
    BY <1>1, <2>1, <2>2 DEF IngressGate, procVars
<1>2. CASE DockerStart
  BY <1>2 DEF DockerStart, procVars, Touch
<1>3. CASE QuarantineGateBegin
  BY <1>3 DEF QuarantineGateBegin, procVars
<1> QED
  BY <1>1, <1>2, <1>3 DEF Boot

\* Players, the operator and the beginning of an update.
LEMMA EnvironmentGuards ==
  ASSUME GInv, TypeOK', Environment PROVE GInv'
<1>1. CASE Connect
  BY <1>1 DEF Connect, procVars
<1>2. CASE Login
  BY <1>2 DEF Login, procVars
<1>3. CASE Play
  BY <1>3 DEF Play, procVars
<1>4. CASE Leave
  BY <1>4 DEF Leave, procVars
<1>5. CASE CheckOut
  BY <1>5 DEF CheckOut, procVars
<1>6. CASE OperatorStart
  BY <1>6 DEF OperatorStart, procVars
<1>7. CASE UpdateBegin
  BY <1>7 DEF UpdateBegin, NoFlags
<1> QED
  BY <1>1, <1>2, <1>3, <1>4, <1>5, <1>6, <1>7 DEF Environment

\* Errors, kills and host crashes.
LEMMA FailuresGuards ==
  ASSUME GInv, TypeOK', Failures PROVE GInv'
<1>1. CASE StepFails
  <2>1. CASE proc = "update" /\ ~InRollback /\ pc \in MainSteps \union StartSteps /\ Goto("exit")
    BY <1>1, <2>1 DEF StepFails, Stop, InRollback, Goto
  <2>2. CASE proc = "update" /\ InRollback /\ pc # "rollback" /\ pc' = "quarantine-reconciling"
             /\ run' = "none" /\ UNCHANGED <<proc, flags>>
    BY <1>1, <2>2 DEF StepFails, Stop, InRollback
  <2>3. CASE Return
    BY <1>1, <2>3 DEF StepFails, Stop, Return, NoFlags
  <2> QED
    BY <1>1, <2>1, <2>2, <2>3 DEF StepFails, Abandon
<1>2. CASE SwapInFails
  BY <1>2 DEF SwapInFails, Abandon, Return, NoFlags
<1>3. CASE ChainMissing
  BY <1>3 DEF ChainMissing, Return, NoFlags, Stop
<1>4. CASE Kill
  BY <1>4 DEF Kill, Return, NoFlags
<1>5. CASE Reboot
  BY <1>5 DEF Reboot, Return, NoFlags
<1> QED
  BY <1>1, <1>2, <1>3, <1>4, <1>5 DEF Failures

\* A healthy production server before its first update.
LEMMA InitGuards == Init => GInv
<1> SUFFICES ASSUME Init PROVE GInv
  OBVIOUS
<1>1. TypeOK
  BY InitTypes
<1> QED
  BY <1>1 DEF Init, NoFlags

\* The invariant is inductive.
LEMMA NextGuards == GInv /\ [Next]_vars => GInv'
<1> SUFFICES ASSUME GInv, [Next]_vars PROVE GInv'
  OBVIOUS
<1>1. TypeOK'
  BY NextTypes
<1>2. CASE Transaction
  BY <1>1, <1>2, TransactionGuards
<1>3. CASE Starting
  BY <1>1, <1>3, StartingGuards
<1>4. CASE Rollback
  BY <1>1, <1>4, RollbackGuards
<1>5. CASE Quarantine
  BY <1>1, <1>5, QuarantineGuards
<1>6. CASE Finalize
  BY <1>1, <1>6, FinalizeGuards
<1>7. CASE Recovery
  BY <1>1, <1>7, RecoveryGuards
<1>8. CASE VerificationFails \/ RecoverBegin \/ InstallPack
  BY <1>1, <1>8, RemainingGuards
<1>9. CASE Boot
  BY <1>1, <1>9, BootGuards
<1>10. CASE Environment
  BY <1>1, <1>10, EnvironmentGuards
<1>11. CASE Failures
  BY <1>1, <1>11, FailuresGuards
<1>12. CASE UNCHANGED vars
  BY <1>1, <1>12 DEF vars, procVars
<1> QED
  BY <1>2, <1>3, <1>4, <1>5, <1>6, <1>7, <1>8, <1>9, <1>10, <1>11, <1>12 DEF Next, Script

HIDE DEF GInv, QuarantineHolds

\* So it holds in every state.
LEMMA Guarding == Spec => []GInv
  BY InitGuards, NextGuards, PTL DEF Spec

-----------------------------------------------------------------------------
(* The theorems.                                                           *)

\* Nobody reaches a mutated world from outside, through any number of kills,
\* failing gates and host reboots, until the finalizer removes the rule.
THEOREM IngressStaysClosed == Spec => []IngressClosed
<1>1. GInv => IngressClosed
  BY DEF GInv, IngressClosed
<1> QED
  BY <1>1, Guarding, PTL

\* A record that claims a complete quarantine tells the truth until a recovery
\* changes its phase.
THEOREM QuarantineIsKept == Spec => []QuarantineHolds
<1>1. GInv => QuarantineHolds
  BY DEF GInv
<1> QED
  BY <1>1, Guarding, PTL

\* A record that says nothing was mutated stands in front of the prior release,
\* wherever the update was interrupted.
THEOREM UnmutatedStaysPrior == Spec => []UnmutatedIsPrior
<1>1. GInv => UnmutatedIsPrior
  BY DEF GInv, UnmutatedIsPrior
<1> QED
  BY <1>1, Guarding, PTL

-----------------------------------------------------------------------------
(* What holds as long as the host does not crash: there is a way back from *)
(* every undecided transaction, a decided one stands for a proven release, *)
(* the gate opens on nothing else, and the whole is the switch that        *)
(* ReleaseSwitch specifies. The boot gate overwrites a terminal record     *)
(* with a quarantine, so none of this holds across a host crash.           *)

-----------------------------------------------------------------------------
(* The inductive invariant.                                                *)

\* No daemon has anything to restart and no boot gate runs.
StaysUp == host = "up" /\ resume = {} /\ proc # "boot"

\* The data directory is missing only between the two renames of a restore.
Present ==
  world.present \/ (Undecided /\ archive.ready /\ (pc = "swap-in" \/ proc = "none"))

\* From the stop of both services until the decision nobody can play.
Drained ==
  /\ proc = "update" /\ pc \in {"stopped", "snapshot", "snapshot-created", "archive"} =>
       player = "away"
  /\ Undecided /\ archive.ready => gate /\ player = "away"

\* Where what the players have earned is to be found.
Kept ==
  /\ world.progress <= earned
  /\ ~(Undecided /\ mutated) => world.progress = earned
  /\ proc = "update" /\ pc \in {"snapshot-created", "archive"} => manifest = earned
  /\ Undecided /\ archive.ready => ArchiveIsPrior /\ manifest = earned
  /\ Undecided /\ mutated => archive.ready
  /\ proc = "update" /\ (flags.verified \/ pc \in {"backup-authenticated", "candidate-starting"}) =>
       archive.ready

\* HEAD is back at the prior release from its reconciliation on.
CheckedOut ==
  /\ pc = "reconcile-checkout" => target = Prior
  /\ run \in {"prior-1", "prior-2", "recover-1", "recover-2"}
       \/ pc \in (RollbackSteps \ {"rollback", "rollback-checkout-prior", "reconcile-checkout"})
                 \union (RecoverySteps \ {"recovery-preparing", "disable-timer"}) =>
     checkout = Prior

\* What a script has verified by the time it decides the transaction.
Verified ==
  /\ pc \in {"integrity", "candidate-verified", "final-check"}
       \/ run \in {"candidate-2", "prior-2", "recover-2"} =>
       url = Revision /\ world.mods = Revision /\ world.progress = earned
  /\ pc \in {"release-proven", "snapshot-complete", "transaction-verified"} =>
       mutated /\ checkout = Candidate /\ HoldsRelease(world, Candidate) /\ world.progress = earned
  /\ pc \in {"rollback-verified", "rollback-terminal"} =>
       HoldsRelease(world, Prior) /\ world.progress = earned

\* A decided transaction, and how far its cleanup has come.
Decided == status = "terminal" => HoldsRelease(world, checkout)

Cleaned ==
  /\ pc = "finalize-backup" =>
       phase = "cleanup-restart-policies" /\ policy["minecraft"] = "unless-stopped"
  /\ pc = "finalize-record" =>
       phase \in {"cleanup-restart-policies", "cleanup-systemd", "cleanup-gate"}
  /\ (status = "terminal" /\ phase \in {"cleanup-systemd", "cleanup-gate", "cleanup-complete"})
       \/ (pc = "finalize-record" /\ phase = "cleanup-restart-policies") =>
     policy["minecraft"] = "unless-stopped" /\ policy["backup"] = "unless-stopped"
  /\ (status = "terminal" /\ phase \in {"cleanup-gate", "cleanup-complete"})
       \/ (pc = "finalize-record" /\ phase = "cleanup-systemd") => timer

Safe == StaysUp /\ Present /\ Drained /\ Kept /\ CheckedOut /\ Verified /\ Decided /\ Cleaned

SInv == GInv /\ Safe

USE DEF Releases, Services, Policies, Origins, Processes, Runs, Phases, CleanupPhases,
        Steps, MainSteps, StartSteps, RollbackSteps, QuarantineSteps, FinalizeSteps,
        RecoverySteps
USE DEF GInv, Placed, Recorded, Booting, Guarded, Reconciled, QuarantineHolds, Settled,
        Unmutated, Started, GateSteps, Finalizing, UnmutatedSteps, RestoringSteps,
        BeforeMutation, Serving, HoldsRelease, Rolling, Revision
USE DEF SInv, Safe, StaysUp, Present, Drained, Kept, CheckedOut, Verified, Decided, Cleaned,
        Undecided, ArchiveIsPrior
USE DEF authorityVars, dataVars, snapshotVars, restoreVars, hostVars, bootVars, playerVars

-----------------------------------------------------------------------------
(* Every step preserves it, one lemma per group of actions.                *)

\* The main sequence of the update (main, afterlight-quest-safe-update.sh:539-694).
LEMMA TransactionSafe ==
  ASSUME MaxReboots = 0, SInv, TypeOK', Transaction PROVE Safe'
<1>1. CASE CreateAuthority
  BY <1>1 DEF CreateAuthority, Goto, At
<1>2. CASE RecordPhase
  BY <1>2 DEF RecordPhase, Record, Goto, At
<1>3. CASE EnsureGate
  BY <1>3 DEF EnsureGate, Goto, At
<1>4. CASE RequireZeroPlayers
  BY <1>4 DEF RequireZeroPlayers, OnlyTheStep, Goto, At
<1>5. CASE Flush
  BY <1>5 DEF Flush, OnlyTheStep, Goto, At
<1>6. CASE StopBoth
  BY <1>6 DEF StopBoth, Goto, Stop, At
<1>7. CASE CreateSnapshot
  BY <1>7 DEF CreateSnapshot, Goto, At
<1>8. CASE RecordSnapshot
  BY <1>8 DEF RecordSnapshot, At
<1>9. CASE CreateArchive
  BY <1>9 DEF CreateArchive, At
<1>10. CASE RecordMutation
  BY <1>10 DEF RecordMutation, At
<1>11. CASE RecordVerified
  BY <1>11 DEF RecordVerified, TypeOK, ProcOK, At
<1>12. CASE FinalCheck
  BY SMTT(30), <1>12 DEF FinalCheck, TypeOK, ProcOK, LiveVerified, At
<1>13. CASE CompleteSnapshot
  BY <1>13 DEF CompleteSnapshot, Goto, At
<1>14. CASE RecordTerminal
  BY <1>14 DEF RecordTerminal, OnlyTheRecord, Goto, At
<1> QED
  BY <1>1, <1>2, <1>3, <1>4, <1>5, <1>6, <1>7, <1>8, <1>9, <1>10, <1>11, <1>12, <1>13, <1>14 DEF
         Transaction

\* The server starts and the checks around them.
LEMMA StartingSafe ==
  ASSUME MaxReboots = 0, SInv, TypeOK', Starting PROVE Safe'
<1>1. CASE ComposeUp
  BY <1>1 DEF ComposeUp, Goto, Touch
<1>2. CASE WaitHealthy
  BY <1>2 DEF WaitHealthy, OnlyTheStep, Goto
<1>3. CASE WriteMarker
  BY <1>3 DEF WriteMarker, Goto
<1>4. CASE LiveVerify
  BY SMTT(30), <1>4 DEF LiveVerify, OnlyTheStep, Goto
<1>5. CASE StopMinecraft
  BY <1>5 DEF StopMinecraft, Goto, Stop
<1>6. CASE CompareProgress
  BY <1>6 DEF CompareProgress, TypeOK, DataOK, World, OnlyTheStep, Goto, ProgressKept
<1>7. CASE VerifyIntegrity
  BY <1>7 DEF VerifyIntegrity, OnlyTheStep, Goto
<1>8. CASE StartBackup
  BY <1>8 DEF StartBackup, Goto, Created
<1> QED
  BY <1>1, <1>2, <1>3, <1>4, <1>5, <1>6, <1>7, <1>8 DEF Starting

\* The exit trap and the rollback.
LEMMA RollbackSafe ==
  ASSUME MaxReboots = 0, SInv, TypeOK', Rollback PROVE Safe'
<1>1. CASE ExitTrap
  BY <1>1 DEF ExitTrap, Return, At
<1>2. CASE BeginRollback
  BY <1>2 DEF BeginRollback, OnlyTheStep, Goto, At
<1>3. CASE RecordCheckoutTarget
  BY <1>3 DEF RecordCheckoutTarget, Goto
<1>4. CASE ReconcileCheckout
  BY <1>4 DEF ReconcileCheckout, TypeOK, ProcOK, Goto
<1>5. CASE RecordCheckout
  BY <1>5 DEF RecordCheckout, OnlyTheRecord, Goto
<1>6. CASE StopBeforeRestore
  BY <1>6 DEF StopBeforeRestore, Goto, Stop, At
<1>7. CASE Extract
  BY <1>7 DEF Extract, OnlyTheStep, Goto, At
<1>8. CASE SwapOut
  <2>1. /\ world'.marker = world.marker /\ world'.mods = world.mods
        /\ world'.progress = world.progress
    BY <1>8 DEF SwapOut, TypeOK, DataOK, World
  <2> QED
    BY <1>8, <2>1 DEF SwapOut, TypeOK, ProcOK, Goto
<1>9. CASE SwapIn
  BY <1>9 DEF SwapIn, TypeOK, ProcOK, PlayerOK, Goto
<1>10. CASE MarkRestored
  BY <1>10 DEF MarkRestored, At
<1>11. CASE RecordRollback
  BY <1>11 DEF RecordRollback, OnlyTheRecord
<1>12. CASE RecordRollbackTerminal
  BY <1>12 DEF RecordRollbackTerminal, OnlyTheRecord, Goto, At
<1> QED
  BY <1>1, <1>2, <1>3, <1>4, <1>5, <1>6, <1>7, <1>8, <1>9, <1>10, <1>11, <1>12 DEF Rollback

\* The quarantine that a failed rollback ends in.
LEMMA QuarantineSafe ==
  ASSUME MaxReboots = 0, SInv, TypeOK', Quarantine PROVE Safe'
<1>1. CASE QuarantineBegin
  BY <1>1 DEF QuarantineBegin, TypeOK, ProcOK, Flags, Noting, At
<1>2. CASE QuarantineGate
  <2>1. Drained' /\ Kept'
    BY <1>2 DEF QuarantineGate, TypeOK, ProcOK, Flags, Noting, At
  <2> QED
    BY <1>2, <2>1 DEF QuarantineGate, At
<1>3. CASE ReconcileServices
  BY <1>3 DEF ReconcileServices, TypeOK, ProcOK, Flags, ReconcileService, Stop, Noting
<1>4. CASE QuarantineRecord
  BY <1>4 DEF QuarantineRecord, OnlyTheRecord, Return, At
<1> QED
  BY <1>1, <1>2, <1>3, <1>4 DEF Quarantine

\* The terminal finalizer.
LEMMA FinalizeSafe ==
  ASSUME MaxReboots = 0, SInv, TypeOK', Finalize PROVE Safe'
<1>1. CASE FinalizeBegin
  BY <1>1 DEF FinalizeBegin, procVars
<1>2. CASE RestorePolicies
  BY SMTT(30), <1>2 DEF RestorePolicies, TypeOK, HostOK, Goto, FinalizeAt
<1>3. CASE ReconcileSystemd
  BY <1>3 DEF ReconcileSystemd, Goto, FinalizeAt
<1>4. CASE RemoveGate
  BY <1>4 DEF RemoveGate, Goto, FinalizeAt
<1>5. CASE RecordCleanup
  BY <1>5 DEF RecordCleanup, Goto, NextCleanup
<1>6. CASE CompleteAuthority
  BY <1>6 DEF CompleteAuthority, Return, FinalizeAt
<1> QED
  BY <1>1, <1>2, <1>3, <1>4, <1>5, <1>6 DEF Finalize

\* The recovery command.
LEMMA RecoverySafe ==
  ASSUME MaxReboots = 0, SInv, TypeOK', Recovery PROVE Safe'
<1>1. CASE RecoveryPreparing
  BY <1>1 DEF RecoveryPreparing, OnlyTheRecord, Goto, At
<1>2. CASE DisableTimer
  BY <1>2 DEF DisableTimer, Goto, At
<1>3. CASE BeginRestore
  BY <1>3 DEF BeginRestore, Goto, At
<1>4. CASE FinishExtract
  BY <1>4 DEF FinishExtract, Goto, At
<1>5. CASE CompareRestored
  BY <1>5 DEF CompareRestored, OnlyTheStep, Goto, At
<1>6. CASE CheckMarker
  BY <1>6 DEF CheckMarker, OnlyTheStep, At
<1>7. CASE EnsureRule
  BY <1>7 DEF EnsureRule, Goto
<1>8. CASE QuarantineGateRecord
  BY <1>8 DEF QuarantineGateRecord, OnlyTheRecord, Return, Goto
<1> QED
  BY <1>1, <1>2, <1>3, <1>4, <1>5, <1>6, <1>7, <1>8 DEF Recovery

\* A failed verification and the beginning of a recovery.
LEMMA RemainingSafe ==
  ASSUME MaxReboots = 0, SInv, TypeOK', VerificationFails \/ RecoverBegin PROVE Safe'
<1>1. CASE VerificationFails
  <2>1. CASE proc = "update" /\ ~InRollback /\ pc \in MainSteps \union StartSteps /\ Goto("exit")
    BY <1>1, <2>1 DEF VerificationFails, OnlyTheStep, InRollback, Goto
  <2>2. CASE proc = "update" /\ InRollback /\ pc # "rollback" /\ pc' = "quarantine-reconciling"
             /\ run' = "none" /\ UNCHANGED <<proc, flags>>
    BY <1>1, <2>2 DEF VerificationFails, Refuted, OnlyTheStep, InRollback
  <2>3. CASE Return
    BY <1>1, <2>3 DEF VerificationFails, OnlyTheStep, Return, NoFlags
  <2> QED
    BY <1>1, <2>1, <2>2, <2>3 DEF VerificationFails, Abandon
<1>2. CASE RecoverBegin
  BY <1>2 DEF RecoverBegin, OnlyTheStep
<1> QED
  BY <1>1, <1>2

\* The boot gates and the Docker daemon.
LEMMA BootSafe ==
  ASSUME MaxReboots = 0, SInv, TypeOK', Boot PROVE Safe'
<1>1. CASE IngressGate
  BY <1>1 DEF IngressGate
<1>2. CASE DockerStart
  BY <1>2 DEF DockerStart
<1>3. CASE QuarantineGateBegin
  BY <1>3 DEF QuarantineGateBegin
<1> QED
  BY <1>1, <1>2, <1>3 DEF Boot

\* Players, the operator and the beginning of an update.
LEMMA EnvironmentSafe ==
  ASSUME MaxReboots = 0, SInv, TypeOK', Environment PROVE Safe'
<1>1. CASE Connect
  BY SMTT(30), <1>1 DEF Connect, procVars
<1>2. CASE Login
  BY <1>2 DEF Login, procVars
<1>3. CASE Play
  BY <1>3 DEF Play, TypeOK, PlayerOK, procVars
<1>4. CASE Leave
  BY SMTT(30), <1>4 DEF Leave, procVars
<1>5. CASE CheckOut
  BY <1>5 DEF CheckOut, procVars
<1>6. CASE OperatorStart
  BY <1>6 DEF OperatorStart, procVars
<1>7. CASE UpdateBegin
  BY <1>7 DEF UpdateBegin, NoFlags
<1> QED
  BY <1>1, <1>2, <1>3, <1>4, <1>5, <1>6, <1>7 DEF Environment

\* Errors, kills and host crashes.
LEMMA FailuresSafe ==
  ASSUME MaxReboots = 0, SInv, TypeOK', Failures PROVE Safe'
<1>1. CASE StepFails
  BY <1>1 DEF StepFails, Stop, Abandon, Return, Goto
<1>2. CASE SwapInFails
  BY <1>2 DEF SwapInFails, Abandon, Return
<1>3. CASE ChainMissing
  BY <1>3 DEF ChainMissing, Return, Stop
<1>4. CASE Kill
  BY <1>4 DEF Kill, Return
<1>5. CASE Reboot
  BY <1>5 DEF Reboot, TypeOK, FaultsOK
<1> QED
  BY <1>1, <1>2, <1>3, <1>4, <1>5 DEF Failures

\* The installation of a pack.
LEMMA InstallPackSafe ==
  ASSUME MaxReboots = 0, SInv, TypeOK', InstallPack PROVE Safe'
<1>1. world'.marker = world.marker /\ world'.mods = url
  BY DEF InstallPack, Touch
<1>2. world'.present /\ world'.progress \in 0..world.progress
  BY DEF InstallPack, Touch
<1>3. Serving /\ world.mods # url
  BY DEF InstallPack
<1>4. UNCHANGED <<authorityVars, checkout, snapshotVars, restoreVars, hostVars, proc, pc, run,
                  flags, playerVars>>
  BY DEF InstallPack, procVars
<1>5. Undecided /\ mutated
  BY <1>3 DEF TypeOK, AuthorityOK
<1> QED
  BY <1>1, <1>2, <1>3, <1>4, <1>5 DEF TypeOK, DataOK, World, PlayerOK

\* Nothing but the finalizer removes the rule from a host that stays up.
LEMMA OnlyTheFinalizer ==
  ASSUME [Next]_vars, gate, ~gate', host' = host, MaxReboots = 0, SInv
  PROVE  RemoveGate
<1>1. CASE Transaction
  BY <1>1 DEF Transaction, CreateAuthority, RecordPhase, EnsureGate, RequireZeroPlayers,
     Flush, StopBoth, CreateSnapshot, RecordSnapshot, CreateArchive, RecordMutation,
     RecordVerified, FinalCheck, CompleteSnapshot, RecordTerminal, OnlyTheStep,
     OnlyTheRecord
<1>2. CASE Starting
  BY <1>2 DEF Starting, ComposeUp, WaitHealthy, WriteMarker, LiveVerify, StopMinecraft,
     CompareProgress, VerifyIntegrity, StartBackup, OnlyTheStep
<1>3. CASE Rollback
  BY <1>3 DEF Rollback, ExitTrap, BeginRollback, RecordCheckoutTarget, ReconcileCheckout,
     RecordCheckout, StopBeforeRestore, Extract, SwapOut, SwapIn, MarkRestored,
     RecordRollback, RecordRollbackTerminal, OnlyTheStep, OnlyTheRecord
<1>4. CASE Quarantine
  BY <1>4 DEF Quarantine, QuarantineBegin, QuarantineGate, ReconcileServices,
     ReconcileService, QuarantineRecord, OnlyTheRecord
<1>5. CASE Finalize
  BY <1>5 DEF Finalize, FinalizeBegin, RestorePolicies, ReconcileSystemd, RecordCleanup,
     CompleteAuthority
<1>6. CASE Recovery
  BY <1>6 DEF Recovery, RecoveryPreparing, DisableTimer, BeginRestore, FinishExtract,
     CompareRestored, CheckMarker, EnsureRule, QuarantineGateRecord, OnlyTheStep,
     OnlyTheRecord
<1>7. CASE VerificationFails \/ RecoverBegin \/ InstallPack
  BY <1>7 DEF VerificationFails, RecoverBegin, InstallPack, OnlyTheStep
<1>8. CASE Boot
  BY <1>8 DEF Boot, IngressGate, DockerStart, QuarantineGateBegin
<1>9. CASE Environment
  BY <1>9 DEF Environment, Connect, Login, Play, Leave, CheckOut, OperatorStart, UpdateBegin
<1>10. CASE Failures
  BY <1>10 DEF Failures, StepFails, SwapInFails, ChainMissing, Kill, Reboot
<1>11. CASE UNCHANGED vars
  BY <1>11 DEF vars
<1> QED
  BY <1>1, <1>2, <1>3, <1>4, <1>5, <1>6, <1>7, <1>8, <1>9, <1>10, <1>11 DEF Next, Script

\* A healthy production server before its first update.
LEMMA InitSafe == Init => SInv
<1> SUFFICES ASSUME Init PROVE SInv
  OBVIOUS
<1>1. GInv
  BY InitGuards
<1> QED
  BY <1>1 DEF Init, NoFlags

\* A step that changes nothing.
LEMMA StutterSafe == ASSUME SInv, UNCHANGED vars PROVE Safe'
  BY SMTT(30) DEF vars, procVars

\* Without host crashes the invariant is inductive.
LEMMA NextSafe == ASSUME MaxReboots = 0 PROVE SInv /\ [Next]_vars => SInv'
<1> SUFFICES ASSUME SInv, [Next]_vars PROVE SInv'
  OBVIOUS
<1> HIDE DEF Safe
<1>1. GInv' /\ TypeOK'
  BY NextGuards DEF SInv
<1>2. CASE Transaction
  BY <1>1, <1>2, TransactionSafe
<1>3. CASE Starting
  BY <1>1, <1>3, StartingSafe
<1>4. CASE Rollback
  BY <1>1, <1>4, RollbackSafe
<1>5. CASE Quarantine
  BY <1>1, <1>5, QuarantineSafe
<1>6. CASE Finalize
  BY <1>1, <1>6, FinalizeSafe
<1>7. CASE Recovery
  BY <1>1, <1>7, RecoverySafe
<1>8. CASE VerificationFails \/ RecoverBegin \/ InstallPack
  BY <1>1, <1>8, RemainingSafe, InstallPackSafe
<1>9. CASE Boot
  BY <1>1, <1>9, BootSafe
<1>10. CASE Environment
  BY <1>1, <1>10, EnvironmentSafe
<1>11. CASE Failures
  BY <1>1, <1>11, FailuresSafe
<1>12. CASE UNCHANGED vars
  BY <1>1, <1>12, StutterSafe
<1> QED
  BY <1>2, <1>3, <1>4, <1>5, <1>6, <1>7, <1>8, <1>9, <1>10, <1>11, <1>12 DEF Next, Script

HIDE DEF SInv

\* So it holds in every state.
LEMMA Staying == ASSUME MaxReboots = 0 PROVE Spec => []SInv
  BY InitSafe, NextSafe, PTL DEF Spec

-----------------------------------------------------------------------------
(* The theorems.                                                           *)

\* As long as a transaction is undecided there is a way back to the prior
\* release with everything the players have earned.
THEOREM WayBackStays == ASSUME MaxReboots = 0 PROVE Spec => []WayBack
<1>1. SInv => WayBack
  BY DEF SInv, WayBack, LiveIsPrior
<1> QED
  BY <1>1, Staying, PTL

\* A terminal record stands for a proven release.
THEOREM TerminalStaysProven == ASSUME MaxReboots = 0 PROVE Spec => []TerminalIsProven
<1>1. SInv => TerminalIsProven
  BY DEF SInv, TerminalIsProven
<1> QED
  BY <1>1, Staying, PTL

\* The rule is removed only in front of a proven world, with the restart
\* policies and the maintenance timer back in place.
THEOREM GateOpensLast == ASSUME MaxReboots = 0 PROVE Spec => GateOpensOnProvenWorld
<1> DEFINE Opens == gate /\ ~gate' /\ host' = host
           Proven == /\ world.present /\ HoldsRelease(world, checkout)
                     /\ world.progress = earned
                     /\ \A s \in Services : policy[s] = "unless-stopped"
                     /\ timer
<1>1. ASSUME SInv, [Next]_vars, Opens PROVE RemoveGate
  BY <1>1, OnlyTheFinalizer
<1>2. ASSUME SInv, RemoveGate PROVE Proven
  BY <1>2 DEF SInv, RemoveGate, FinalizeAt
<1>3. SInv /\ [Next]_vars => [Opens => Proven]_vars
  BY <1>1, <1>2
<1> QED
  BY <1>3, Staying, PTL DEF Spec, GateOpensOnProvenWorld

-----------------------------------------------------------------------------
(* The update implements the switch.                                       *)

\* What of the update's state the switch shows.
Mode    == IF ~Undecided THEN "serving" ELSE IF mutated THEN "switching" ELSE "draining"
Release == IF Undecided THEN Prior ELSE world.marker
Progress == IF Undecided /\ (mutated \/ ~world.present)
            THEN archive.progress ELSE world.progress
\* A step that the players do not notice.
Still   == Mode' = Mode /\ Release' = Release /\ earned' = earned

USE DEF Mode, Release, Still

\* The transaction shows its beginning, its first mutation and its commitment.
LEMMA TransactionShows ==
  ASSUME SInv, Transaction
  PROVE  \/ Still
         \/ Mode = "serving" /\ Release = Prior /\ Mode' = "draining" /\ Release' = Release
            /\ earned' = earned
         \/ Mode = "draining" /\ Mode' = "switching" /\ Release' = Release /\ earned' = earned
         \/ Mode = "switching" /\ Mode' = "serving" /\ Release' = Candidate /\ earned' = earned
<1>1. CASE CreateAuthority
  BY <1>1 DEF SInv, CreateAuthority, At
<1>2. CASE RecordMutation
  BY <1>2 DEF SInv, RecordMutation, At
<1>3. CASE RecordTerminal
  BY <1>3 DEF SInv, RecordTerminal, OnlyTheRecord, At
<1>4. CASE RecordPhase \/ RecordSnapshot \/ RecordVerified
  BY <1>4 DEF RecordPhase, RecordSnapshot, RecordVerified, Record
<1>5. CASE EnsureGate \/ RequireZeroPlayers \/ Flush \/ StopBoth \/ CreateSnapshot \/ CreateArchive
             \/ FinalCheck \/ CompleteSnapshot
  BY <1>5 DEF EnsureGate, RequireZeroPlayers, Flush, StopBoth, CreateSnapshot, CreateArchive,
     FinalCheck, CompleteSnapshot, Stop, OnlyTheStep
<1> QED
  BY <1>1, <1>2, <1>3, <1>4, <1>5 DEF Transaction

\* A start shows nothing: the marker it writes is not looked at before the decision.
LEMMA StartingShows == ASSUME SInv, Starting PROVE Still
<1>1. CASE WriteMarker
  BY <1>1 DEF SInv, TypeOK, ProcOK, WriteMarker
<1>2. CASE ComposeUp
  BY <1>2 DEF ComposeUp, Touch
<1>3. CASE WaitHealthy \/ LiveVerify \/ StopMinecraft \/ CompareProgress \/ VerifyIntegrity
             \/ StartBackup
  BY <1>3 DEF WaitHealthy, LiveVerify, StopMinecraft, CompareProgress, VerifyIntegrity,
     StartBackup, Stop, OnlyTheStep
<1> QED
  BY <1>1, <1>2, <1>3 DEF Starting

\* A rollback shows that the switch is given up when its record becomes terminal.
LEMMA RollbackShows ==
  ASSUME SInv, Rollback
  PROVE  Still \/ (Mode # "serving" /\ Mode' = "serving" /\ Release' = Release /\ earned' = earned)
<1>1. CASE RecordRollback
  BY <1>1 DEF SInv, TypeOK, ProcOK, RecordRollback, OnlyTheRecord
<1>2. CASE RecordRollbackTerminal
  BY <1>2 DEF SInv, RecordRollbackTerminal, OnlyTheRecord, At
<1>3. CASE RecordCheckoutTarget \/ RecordCheckout
  BY <1>3 DEF SInv, RecordCheckoutTarget, RecordCheckout, OnlyTheRecord
<1>4. CASE SwapIn
  BY <1>4 DEF SInv, TypeOK, ProcOK, SwapIn
<1>5. CASE SwapOut
  BY <1>5 DEF SwapOut
<1>6. CASE MarkRestored
  BY <1>6 DEF MarkRestored
<1>7. CASE ExitTrap \/ BeginRollback \/ ReconcileCheckout \/ StopBeforeRestore \/ Extract
  BY <1>7 DEF ExitTrap, BeginRollback, ReconcileCheckout, StopBeforeRestore, Extract, Stop,
     OnlyTheStep
<1> QED
  BY <1>1, <1>2, <1>3, <1>4, <1>5, <1>6, <1>7 DEF Rollback

\* A quarantine and a cleanup show nothing.
LEMMA QuarantineShows == ASSUME SInv, Quarantine \/ Finalize PROVE Still
<1>1. CASE QuarantineBegin \/ QuarantineRecord
  BY <1>1 DEF SInv, QuarantineBegin, QuarantineRecord, OnlyTheRecord, At
<1>2. CASE QuarantineGate
  BY <1>2 DEF QuarantineGate
<1>3. CASE ReconcileServices
  BY <1>3 DEF ReconcileServices, ReconcileService, Stop
<1>4. CASE FinalizeBegin \/ RestorePolicies \/ ReconcileSystemd \/ RemoveGate \/ RecordCleanup
  BY <1>4 DEF FinalizeBegin, RestorePolicies, ReconcileSystemd, RemoveGate, RecordCleanup
<1>5. CASE CompleteAuthority
  BY <1>5 DEF CompleteAuthority, FinalizeAt
<1> QED
  BY <1>1, <1>2, <1>3, <1>4, <1>5 DEF Quarantine, Finalize

\* Neither does what precedes a rollback in the recovery, nor what a container installs.
LEMMA RecoveryShows ==
  ASSUME SInv, Recovery \/ VerificationFails \/ RecoverBegin \/ InstallPack PROVE Still
<1>1. CASE RecoveryPreparing \/ QuarantineGateRecord
  BY <1>1 DEF SInv, RecoveryPreparing, QuarantineGateRecord, OnlyTheRecord, At
<1>2. CASE DisableTimer \/ BeginRestore \/ FinishExtract \/ CompareRestored \/ CheckMarker
             \/ EnsureRule \/ VerificationFails \/ RecoverBegin
  BY <1>2 DEF DisableTimer, BeginRestore, FinishExtract, CompareRestored, CheckMarker,
     EnsureRule, VerificationFails, RecoverBegin, OnlyTheStep
<1>3. CASE InstallPack
  <2>1. world'.marker = world.marker
    BY <1>3 DEF InstallPack, Touch, SInv, TypeOK, DataOK, World
  <2> QED
    BY <1>3, <2>1 DEF InstallPack
<1> QED
  BY <1>1, <1>2, <1>3 DEF Recovery

\* Around the scripts only the players' play shows, and never behind the switch.
LEMMA AroundShows ==
  ASSUME MaxReboots = 0, SInv, Boot \/ Environment \/ Failures
  PROVE  Still \/ (Mode # "switching" /\ earned < MaxProgress /\ earned' = earned + 1
                   /\ Mode' = Mode /\ Release' = Release)
<1>1. CASE Play
  BY <1>1 DEF SInv, Play
<1>2. CASE Login
  BY <1>2 DEF Login
<1>3. CASE OperatorStart
  BY <1>3 DEF OperatorStart
<1>4. CASE UpdateBegin
  BY <1>4 DEF UpdateBegin
<1>5. CASE Connect \/ Leave \/ CheckOut
  BY <1>5 DEF Connect, Leave, CheckOut
<1>6. CASE SwapInFails
  BY <1>6 DEF SwapInFails
<1>7. CASE StepFails \/ ChainMissing \/ Kill
  BY <1>7 DEF StepFails, ChainMissing, Kill, Stop
<1>8. CASE Boot \/ Reboot
  BY <1>8 DEF SInv, TypeOK, FaultsOK, Boot, IngressGate, DockerStart, QuarantineGateBegin, Reboot
<1> QED
  BY <1>1, <1>2, <1>3, <1>4, <1>5, <1>6, <1>7, <1>8 DEF Environment, Failures

\* Every step is one of the switch, or none that it shows.
LEMMA StepShows ==
  ASSUME MaxReboots = 0 PROVE SInv /\ SInv' /\ [Next]_vars => [Switch!Next]_(Switch!vars)
<1> SUFFICES ASSUME SInv, SInv', [Next]_vars PROVE [Switch!Next]_(Switch!vars)
  OBVIOUS
<1>1. \/ Still
      \/ Mode # "switching" /\ earned < MaxProgress /\ earned' = earned + 1
         /\ Mode' = Mode /\ Release' = Release
      \/ Mode = "serving" /\ Release = Prior /\ Mode' = "draining" /\ Release' = Release
         /\ earned' = earned
      \/ Mode = "draining" /\ Mode' = "switching" /\ Release' = Release /\ earned' = earned
      \/ Mode = "switching" /\ Mode' = "serving" /\ Release' = Candidate /\ earned' = earned
      \/ Mode # "serving" /\ Mode' = "serving" /\ Release' = Release /\ earned' = earned
  <2>1. CASE UNCHANGED vars
    BY <2>1 DEF vars
  <2> QED
    BY <2>1, TransactionShows, StartingShows, RollbackShows, QuarantineShows, RecoveryShows,
       AroundShows DEF Next, Script
\* Where the switch looks for the players' progress there is all they earned.
<1>2. Progress = earned /\ Progress' = earned'
  BY DEF SInv, Progress
<1> HIDE DEF Mode, Release, Still
<1>3. CASE Still
  BY <1>2, <1>3 DEF Still, Switch!vars, Mode, Release, Progress
<1>4. CASE Mode # "switching" /\ earned < MaxProgress /\ earned' = earned + 1
           /\ Mode' = Mode /\ Release' = Release
  <2>1. Switch!Play
    BY <1>2, <1>4 DEF Switch!Play, Mode, Release, Progress
  <2> QED
    BY <2>1 DEF Switch!Next
<1>5. CASE Mode = "serving" /\ Release = Prior /\ Mode' = "draining" /\ Release' = Release
           /\ earned' = earned
  <2>1. Switch!Begin
    BY <1>2, <1>5 DEF Switch!Begin, Mode, Release, Progress
  <2> QED
    BY <2>1 DEF Switch!Next
<1>6. CASE Mode = "draining" /\ Mode' = "switching" /\ Release' = Release /\ earned' = earned
  <2>1. Switch!Enter
    BY <1>2, <1>6 DEF Switch!Enter, Mode, Release, Progress
  <2> QED
    BY <2>1 DEF Switch!Next
<1>7. CASE Mode = "switching" /\ Mode' = "serving" /\ Release' = Candidate /\ earned' = earned
  <2>1. Switch!Commit
    BY <1>2, <1>7 DEF Switch!Commit, Mode, Release, Progress
  <2> QED
    BY <2>1 DEF Switch!Next
<1>8. CASE Mode # "serving" /\ Mode' = "serving" /\ Release' = Release /\ earned' = earned
  <2>1. Switch!Abort
    BY <1>2, <1>8 DEF Switch!Abort, Mode, Release, Progress
  <2> QED
    BY <2>1 DEF Switch!Next
<1> QED
  BY <1>1, <1>3, <1>4, <1>5, <1>6, <1>7, <1>8

HIDE DEF Mode, Release, Still

\* The protected update is the switch that its documentation promises: one
\* release or the other, never anything between them, and no progress lost.
THEOREM ImplementsSwitch == ASSUME MaxReboots = 0 PROVE Spec => Implements
<1>1. Init => Switch!Init
  BY DEF Init, Switch!Init
<1> QED
  BY <1>1, StepShows, Staying, PTL DEF Spec, Implements, Switch!Spec
=============================================================================
