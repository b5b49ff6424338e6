---------------------------- MODULE QuestUpdate ----------------------------
(***************************************************************************)
(* The protected quest update of server/: the transaction script           *)
(* (afterlight-quest-safe-update.sh), its terminal finalizer, the durable  *)
(* quarantine recovery, the two boot gates, and what they share: the       *)
(* durable authority record, the firewall gate, the two containers, the    *)
(* data directory, the Git checkout and the players.                       *)
(*                                                                         *)
(* One lock serialises the scripts, so at most one of them is at a step    *)
(* (proc, pc); the containers, the players, a host reboot and a kill of    *)
(* the running script interleave with its steps.                           *)
(*                                                                         *)
(* A pc that is the name of a phase is the point just before that phase is *)
(* written to the authority record.                                        *)
(***************************************************************************)
EXTENDS Naturals

CONSTANTS
  Prior, Candidate,   \* the two pack revisions of a transaction
  MaxProgress,        \* bound on the progress the players make
  MaxKills,           \* bound on scripts killed without their exit trap
  MaxReboots,         \* bound on host crashes
  MaxErrors           \* bound on steps that report an error

ASSUME ReleasesDiffer == Prior # Candidate
ASSUME BoundsAreNatural ==
  /\ MaxProgress \in Nat
  /\ MaxKills \in Nat /\ MaxReboots \in Nat /\ MaxErrors \in Nat

VARIABLES
  status,     \* authority record: "absent", "pending", "quarantine", "terminal"
  phase,      \* its phase; kept, without meaning, while the record is absent
  mutated,    \* its data_mutated field
  target,     \* its checkout_target_sha field
  checkout,   \* HEAD of /opt/afterlight
  world,      \* DATA_DIR: present, marker, mods, progress, listed, origin
  manifest,   \* progress recorded by the progress guard's snapshot
  archive,    \* the authenticated archive of the snapshot directory
  retained,   \* the snapshot has its "successful" retention marker
  staging,    \* recovery's staging directory: "none", "partial", "complete"
  rescue,     \* recovery's rescue directory exists
  gate,       \* the owned REJECT rule is in DOCKER-USER
  running,    \* the containers that run
  policy,     \* their restart policies
  url,        \* the revision in Minecraft's PACKWIZ_URL
  timer,      \* afterlight-maintenance.timer is enabled
  host,       \* boot progress: "ingress", "docker", "pending", "up"
  resume,     \* the containers the Docker daemon restarts when it comes up
  proc,       \* the script that holds the lock
  pc,         \* its next step
  run,        \* which of its server starts it is in
  flags,      \* its locals SNAPSHOT_READY, BACKUP_VERIFIED and failed
  player,     \* "away", "connecting" (TCP only), "online"
  earned,     \* history: the progress the players have made
  faults      \* history: kills, reboots and errors so far

authorityVars == <<status, phase, mutated, target>>
snapshotVars  == <<manifest, archive, retained>>
restoreVars   == <<staging, rescue>>
dataVars      == <<world, snapshotVars, restoreVars>>
bootVars      == <<host, resume>>
hostVars      == <<gate, running, policy, url, timer, bootVars>>
procVars      == <<proc, pc, run, flags>>
playerVars    == <<player, earned>>

vars == <<authorityVars, checkout, dataVars, hostVars, procVars, playerVars, faults>>

-----------------------------------------------------------------------------
Releases  == {Prior, Candidate}
Services  == {"minecraft", "backup"}
Policies  == {"unless-stopped", "no"}
\* What has become of DATA_DIR since the authority captured it: its root and
\* marker inodes are the recorded ones, it equals the archive's inventory, or
\* neither.
Origins   == {"original", "extracted", "changed"}

World == [present: BOOLEAN, marker: Releases, mods: Releases,
          progress: 0..MaxProgress, listed: BOOLEAN, origin: Origins]

Archive == [ready: BOOLEAN, marker: Releases, mods: Releases,
            progress: 0..MaxProgress, listed: BOOLEAN]

Processes == {"none", "update", "recover", "boot"}
Runs      == {"none", "candidate-1", "candidate-2", "prior-1", "prior-2",
              "recover-1", "recover-2"}

CleanupPhases == {"cleanup-restart-policies", "cleanup-systemd",
                  "cleanup-gate", "cleanup-complete"}

Phases == CleanupPhases \union
  {"authorized", "gate-installing", "gate-closed", "shutdown-started", "stopped",
   "snapshot-created", "backup-authenticated", "candidate-starting",
   "candidate-started", "candidate-verified", "release-proven",
   "transaction-verified", "rollback-checkout-prior",
   "rollback-checkout-complete", "rollback-verified", "recovery-preparing",
   "quarantine-reconciling", "quarantined", "quarantine-incomplete",
   "boot-reconciled"}

\* The steps of the transaction before it sets CLEANUP_ACTIVE.
MainSteps ==
  {"authorize", "gate-installing", "ensure-gate", "gate-closed", "zero-players",
   "flush", "shutdown-started", "stop-both", "stopped", "snapshot",
   "snapshot-created", "archive", "backup-authenticated", "candidate-starting",
   "candidate-started", "candidate-verified", "final-check", "release-proven",
   "snapshot-complete"}

\* Steps that a candidate start and a rollback start have in common.
StartSteps == {"up", "health", "mark", "verify", "stop-minecraft", "compare",
               "integrity", "backup-up"}

RollbackSteps ==
  {"rollback", "rollback-checkout-prior", "reconcile-checkout",
   "rollback-checkout-complete", "stop-before-restore", "extract", "swap-out",
   "swap-in", "restored", "rollback-verified", "rollback-terminal"}

QuarantineSteps == {"quarantine-reconciling", "q-gate", "q-minecraft",
                    "q-backup", "q-record"}

FinalizeSteps == {"transaction-verified", "finalize", "finalize-backup",
                  "finalize-record"}

RecoverySteps == {"recovery-preparing", "disable-timer", "restore",
                  "extract-rest", "recover-compare", "recover-marker"}

Steps == {"idle", "exit"} \union MainSteps \union StartSteps
         \union RollbackSteps \union QuarantineSteps \union FinalizeSteps
         \union RecoverySteps

Flags   == [ready: BOOLEAN, verified: BOOLEAN, failed: BOOLEAN]
NoFlags == [ready |-> FALSE, verified |-> FALSE, failed |-> FALSE]

AuthorityOK ==
  /\ status \in {"absent", "pending", "quarantine", "terminal"} /\ phase \in Phases
  /\ mutated \in BOOLEAN /\ target \in Releases /\ checkout \in Releases
DataOK ==
  /\ world \in World /\ archive \in Archive /\ manifest \in 0..MaxProgress
  /\ retained \in BOOLEAN /\ rescue \in BOOLEAN
  /\ staging \in {"none", "partial", "complete"}
HostOK ==
  /\ gate \in BOOLEAN /\ timer \in BOOLEAN /\ url \in Releases
  /\ running \subseteq Services /\ resume \subseteq Services
  /\ policy \in [Services -> Policies]
  /\ host \in {"ingress", "docker", "pending", "up"}
ProcOK ==
  proc \in Processes /\ pc \in Steps /\ run \in Runs /\ flags \in Flags
PlayerOK ==
  player \in {"away", "connecting", "online"} /\ earned \in 0..MaxProgress
FaultsOK ==
  faults \in [kills: 0..MaxKills, reboots: 0..MaxReboots, errors: 0..MaxErrors]

TypeOK == AuthorityOK /\ DataOK /\ HostOK /\ ProcOK /\ PlayerOK /\ FaultsOK

Init ==
  /\ status = "absent" /\ phase = "authorized" /\ mutated = FALSE
  /\ target = Prior /\ checkout \in Releases
  /\ world = [present |-> TRUE, marker |-> Prior, mods |-> Prior, progress |-> 0,
              listed |-> TRUE, origin |-> "changed"]
  /\ archive = [ready |-> FALSE, marker |-> Prior, mods |-> Prior, progress |-> 0,
                listed |-> TRUE]
  /\ manifest = 0 /\ retained = FALSE /\ staging = "none" /\ rescue = FALSE
  /\ gate = FALSE /\ running = Services /\ resume = {}
  /\ policy = [s \in Services |-> "unless-stopped"] /\ url = Prior
  /\ timer = TRUE /\ host = "up"
  /\ proc = "none" /\ pc = "idle" /\ run = "none" /\ flags = NoFlags
  /\ player = "away" /\ earned = 0
  /\ faults = [kills |-> 0, reboots |-> 0, errors |-> 0]

-----------------------------------------------------------------------------
(* Steps, errors and exits.                                                *)

At(p, step)  == proc = p /\ pc = step
Goto(step)   == pc' = step /\ UNCHANGED <<proc, run, flags>>
Return       == proc' = "none" /\ pc' = "idle" /\ run' = "none" /\ flags' = NoFlags

\* What a step leaves alone that only moves on, or only writes the record.
OnlyTheStep   == UNCHANGED <<authorityVars, checkout, dataVars, hostVars, playerVars, faults>>
OnlyTheRecord == UNCHANGED <<mutated, target, checkout, dataVars, hostVars, playerVars, faults>>

\* The kind of start a run is, and the revision it brings up.
Rolling      == run \in {"prior-1", "prior-2"}
Revision     == IF run \in {"candidate-1", "candidate-2"} THEN Candidate ELSE Prior

CountError   == /\ faults.errors < MaxErrors
                /\ faults' = [faults EXCEPT !.errors = @ + 1]

\* Where a failed step of the script that holds the lock leads: the
\* transaction exits into its trap, the rollback into the quarantine, the
\* quarantine notes the failure, everything else just returns.
InRollback   == pc \in RollbackSteps \/ Rolling
Abandon ==
  \/ /\ proc = "update" /\ ~InRollback /\ pc \in MainSteps \union StartSteps
     /\ Goto("exit")
  \/ /\ proc = "update" /\ InRollback /\ pc # "rollback"
     /\ pc' = "quarantine-reconciling" /\ run' = "none" /\ UNCHANGED <<proc, flags>>
  \/ /\ \/ proc = "update" /\ pc \in FinalizeSteps \union {"q-record"}
        \/ proc \in {"recover", "boot"}
     /\ Return

\* A container that is stopped drops its players.
Stop(services) ==
  /\ running' = running \ services
  /\ player' = IF "minecraft" \in services THEN "away" ELSE player
  /\ UNCHANGED earned

\* The transaction's compose override creates containers with restart: "no";
\* the operator's file says unless-stopped, but only a container it has to
\* create anew loses the policy that docker update gave it.
Created(s) == \E p \in Policies :
  /\ proc = "update" => p = "no"
  /\ proc # "update" => p \in {policy[s], "unless-stopped"}
  /\ policy' = [policy EXCEPT ![s] = p]

\* Starting a server writes into its data directory.
Touch(w) == [w EXCEPT !.origin = IF @ = "extracted" THEN "changed" ELSE @]

-----------------------------------------------------------------------------
(* The transaction: afterlight-quest-safe-update.sh, main.                 *)

\* main up to its first zero-player check: lock, doctor, receipt, no
\* authority, healthy prior release, the whitelist and user cache digests.
UpdateBegin ==
  /\ proc = "none" /\ host \in {"pending", "up"}
  /\ status = "absent" /\ checkout = Candidate
  /\ world.present /\ world.marker = Prior
  /\ running = Services /\ player # "online"
  /\ proc' = "update" /\ pc' = "authorize" /\ run' = "none" /\ flags' = NoFlags
  /\ world' = [world EXCEPT !.listed = TRUE]
  /\ UNCHANGED <<authorityVars, checkout, snapshotVars, restoreVars, hostVars, playerVars, faults>>

\* command_authority_create: a fresh transaction identifier, so that no
\* staging, rescue or snapshot directory of it exists yet.
CreateAuthority ==
  /\ At("update", "authorize")
  /\ status' = "pending" /\ phase' = "authorized" /\ mutated' = FALSE
  /\ target' = Candidate
  /\ world' = [world EXCEPT !.origin = "original"]
  /\ archive' = [archive EXCEPT !.ready = FALSE]
  /\ retained' = FALSE /\ staging' = "none" /\ rescue' = FALSE
  /\ Goto("gate-installing")
  /\ UNCHANGED <<checkout, manifest, hostVars, playerVars, faults>>

Record(step, next) ==
  /\ At("update", step) /\ phase' = step /\ Goto(next)
  /\ UNCHANGED <<status, mutated, target>>

RecordPhase ==
  /\ \/ Record("gate-installing", "ensure-gate")
     \/ Record("gate-closed", "zero-players")
     \/ Record("shutdown-started", "stop-both")
     \/ Record("stopped", "snapshot")
     \/ Record("backup-authenticated", "candidate-starting")
     \/ Record("candidate-started", "stop-minecraft")
     \/ Record("release-proven", "snapshot-complete")
  /\ UNCHANGED <<checkout, dataVars, hostVars, playerVars, faults>>

\* ensure_gate: check, insert, check again.
EnsureGate ==
  /\ At("update", "ensure-gate")
  /\ gate' = TRUE /\ Goto("gate-closed")
  /\ UNCHANGED <<authorityVars, checkout, dataVars, running, policy, url, timer, bootVars, playerVars, faults>>

\* The second require_zero_players, now behind the gate.
RequireZeroPlayers ==
  /\ At("update", "zero-players")
  /\ Goto(IF player = "online" THEN "exit" ELSE "flush")
  /\ OnlyTheStep

\* rcon-cli save-all flush; the clean shutdown that follows saves as well.
Flush ==
  /\ At("update", "flush") /\ "minecraft" \in running
  /\ Goto("shutdown-started")
  /\ OnlyTheStep

\* Mutant: an incomplete stop is taken for a complete one.
StopBothUnverified ==
  /\ At("update", "stop-both")
  /\ \E some \in SUBSET Services : Stop(some)
  /\ Goto("stopped")
  /\ UNCHANGED <<authorityVars, checkout, dataVars, gate, policy, url, timer, bootVars, faults>>

StopBoth ==
  /\ At("update", "stop-both")
  /\ Stop(Services) /\ Goto("stopped")
  /\ UNCHANGED <<authorityVars, checkout, dataVars, gate, policy, url, timer, bootVars, faults>>

\* create_snapshot: the snapshot directory and the progress manifest ...
CreateSnapshot ==
  /\ At("update", "snapshot")
  /\ manifest' = world.progress /\ Goto("snapshot-created")
  /\ UNCHANGED <<authorityVars, checkout, world, archive, retained, restoreVars, hostVars, playerVars, faults>>

\* ... then the phase and SNAPSHOT_READY.
RecordSnapshot ==
  /\ At("update", "snapshot-created")
  /\ phase' = "snapshot-created" /\ flags' = [flags EXCEPT !.ready = TRUE]
  /\ pc' = "archive"
  /\ UNCHANGED <<status, mutated, target, checkout, dataVars, hostVars, proc, run, playerVars, faults>>

\* create_verified_archive: BACKUP_VERIFIED is set before its phase is written.
CreateArchive ==
  /\ At("update", "archive")
  /\ archive' = [ready |-> TRUE, marker |-> world.marker, mods |-> world.mods,
                 progress |-> world.progress, listed |-> world.listed]
  /\ flags' = [flags EXCEPT !.verified = TRUE] /\ pc' = "backup-authenticated"
  /\ UNCHANGED <<authorityVars, checkout, world, manifest, retained, restoreVars, hostVars, proc, run, playerVars, faults>>

\* Mutant: the phase is recorded without data_mutated.
RecordStarting ==
  /\ At("update", "candidate-starting")
  /\ phase' = "candidate-starting"
  /\ pc' = "up" /\ run' = "candidate-1"
  /\ UNCHANGED <<mutated, status, target, checkout, dataVars, hostVars, proc, flags, playerVars, faults>>

\* The write-ahead record of the first protected mutation.
RecordMutation ==
  /\ At("update", "candidate-starting")
  /\ phase' = "candidate-starting" /\ mutated' = TRUE
  /\ pc' = "up" /\ run' = "candidate-1"
  /\ UNCHANGED <<status, target, checkout, dataVars, hostVars, proc, flags, playerVars, faults>>

RecordVerified ==
  /\ At("update", "candidate-verified")
  /\ phase' = "candidate-verified" /\ pc' = "up" /\ run' = "candidate-2"
  /\ UNCHANGED <<status, mutated, target, checkout, dataVars, hostVars, proc, flags, playerVars, faults>>

-----------------------------------------------------------------------------
(* start_minecraft and the checks around it, for the transaction and for   *)
(* its rollback, and the operator's start for the recovery.                *)

\* compose up, with --force-recreate in the transaction; the operator's start
\* demands the gate and a marker equal to HEAD.
ComposeUp ==
  /\ pc = "up" /\ proc \in {"update", "recover"}
  /\ proc = "recover" => gate /\ world.marker = checkout
  /\ running' = running \union {"minecraft"}
  /\ Created("minecraft")
  /\ url' = Revision /\ world' = Touch(world) /\ Goto("health")
  /\ UNCHANGED <<authorityVars, checkout, snapshotVars, restoreVars, gate, timer, bootVars, playerVars, faults>>

\* afterlight_wait_container_healthy and the PACKWIZ_URL comparison.
WaitHealthy ==
  /\ pc = "health" /\ "minecraft" \in running
  /\ world.mods = url /\ url = Revision
  /\ Goto("mark")
  /\ OnlyTheStep

\* write_pack_sha: the marker is replaced, so its inode changes.
WriteMarker ==
  /\ pc = "mark"
  /\ world' = [world EXCEPT !.marker = Revision, !.origin = "changed"]
  /\ Goto(IF proc = "update" THEN "verify" ELSE "backup-up")
  /\ UNCHANGED <<authorityVars, checkout, snapshotVars, restoreVars, hostVars, playerVars, faults>>

\* command_live_verify: HEAD, marker, installed mods and a healthy container.
LiveVerified(release) ==
  /\ checkout = release /\ world.marker = release /\ world.mods = release
  /\ "minecraft" \in running

LiveVerify ==
  /\ pc = "verify" /\ LiveVerified(Revision)
  /\ \/ run = "candidate-1" /\ Goto("candidate-started")
     \/ run \in {"prior-1", "recover-1"} /\ Goto("stop-minecraft")
     \/ run \in {"candidate-2", "prior-2"} /\ Goto("backup-up")
  /\ OnlyTheStep

\* stop_minecraft_cleanly; the recovery's operator stop takes both services.
StopMinecraft ==
  /\ pc = "stop-minecraft"
  /\ Stop(IF proc = "update" THEN {"minecraft"} ELSE Services) /\ Goto("compare")
  /\ UNCHANGED <<authorityVars, checkout, dataVars, gate, policy, url, timer, bootVars, faults>>

\* Mutant: the comparison ignores the manifest.
ProgressIgnored == world.progress >= 0

\* compare_progress; the recovery then starts the operator a second time.
ProgressKept == world.progress >= manifest

CompareProgress ==
  /\ pc = "compare" /\ ProgressKept
  /\ \/ /\ proc = "update" /\ Goto("integrity")
     \/ /\ proc = "recover" /\ pc' = "up" /\ run' = "recover-2"
        /\ UNCHANGED <<proc, flags>>
  /\ OnlyTheStep

\* verify_integrity_files: the whitelist and user cache digests of UpdateBegin.
VerifyIntegrity ==
  /\ pc = "integrity" /\ world.listed
  /\ \/ run = "candidate-1" /\ Goto("candidate-verified")
     \/ /\ run = "prior-1" /\ pc' = "up" /\ run' = "prior-2" /\ UNCHANGED <<proc, flags>>
  /\ OnlyTheStep

\* compose up backup and its health wait.
StartBackup ==
  /\ pc = "backup-up" /\ "minecraft" \in running
  /\ running' = running \union {"backup"}
  /\ Created("backup")
  /\ \/ run = "candidate-2" /\ Goto("final-check")
     \/ run \in {"prior-2", "recover-2"} /\ Goto("rollback-verified")
     \/ run = "recover-1" /\ Goto("verify")
  /\ UNCHANGED <<authorityVars, checkout, dataVars, gate, url, timer, bootVars, playerVars, faults>>

\* The final integrity, live and receipt verifications of main.
FinalCheck ==
  /\ At("update", "final-check")
  /\ world.listed /\ LiveVerified(Candidate)
  /\ pc' = "release-proven" /\ run' = "none"
  /\ UNCHANGED <<authorityVars, checkout, dataVars, hostVars, proc, flags, playerVars, faults>>

\* command_snapshot_complete, after which CLEANUP_ACTIVE is set.
CompleteSnapshot ==
  /\ At("update", "snapshot-complete")
  /\ retained' = TRUE /\ Goto("transaction-verified")
  /\ UNCHANGED <<authorityVars, checkout, world, manifest, archive, restoreVars, hostVars, playerVars, faults>>

RecordTerminal ==
  /\ At("update", "transaction-verified")
  /\ status' = "terminal" /\ phase' = "transaction-verified" /\ Goto("finalize")
  /\ OnlyTheRecord

-----------------------------------------------------------------------------
(* The exit trap: rollback, or quarantine when the rollback fails.         *)

\* on_exit: nothing to do without an authority; otherwise close the gate,
\* whose failure is ignored, and enter the rollback.
ExitTrap ==
  /\ At("update", "exit")
  /\ IF status = "absent" THEN Return /\ UNCHANGED <<gate, faults>>
     ELSE /\ pc' = "rollback" /\ run' = "none" /\ UNCHANGED <<proc, flags>>
          /\ \/ gate' = TRUE /\ UNCHANGED faults
             \/ UNCHANGED gate /\ CountError
  /\ UNCHANGED <<authorityVars, checkout, dataVars, running, policy, url, timer, bootVars, playerVars>>

\* rollback_transaction needs both locals of the snapshot.
BeginRollback ==
  /\ At("update", "rollback")
  /\ Goto(IF flags.ready /\ flags.verified THEN "rollback-checkout-prior"
          ELSE "quarantine-reconciling")
  /\ OnlyTheStep

\* Mutant: the phase is recorded without its checkout target.
RecordCheckoutPhase ==
  /\ pc = "rollback-checkout-prior"
  /\ phase' = "rollback-checkout-prior"
  /\ status' = IF proc = "recover" THEN "quarantine" ELSE status
  /\ Goto("reconcile-checkout")
  /\ UNCHANGED <<mutated, target, checkout, dataVars, hostVars, playerVars, faults>>

\* The intended checkout is recorded before the checkout; the recovery also
\* records the quarantine.
RecordCheckoutTarget ==
  /\ pc = "rollback-checkout-prior"
  /\ phase' = "rollback-checkout-prior" /\ target' = Prior
  /\ status' = IF proc = "recover" THEN "quarantine" ELSE status
  /\ Goto("reconcile-checkout")
  /\ UNCHANGED <<mutated, checkout, dataVars, hostVars, playerVars, faults>>

\* command_checkout_reconcile moves HEAD to the recorded target.
ReconcileCheckout ==
  /\ pc = "reconcile-checkout"
  /\ checkout' = target /\ Goto("rollback-checkout-complete")
  /\ UNCHANGED <<authorityVars, dataVars, hostVars, playerVars, faults>>

RecordCheckout ==
  /\ pc = "rollback-checkout-complete"
  /\ phase' = "rollback-checkout-complete"
  /\ status' = IF proc = "recover" THEN "quarantine" ELSE status
  /\ Goto(IF proc = "update" THEN "stop-before-restore"
          ELSE IF mutated THEN "restore" ELSE "recover-marker")
  /\ OnlyTheRecord

\* compose stop ... || true: a failed stop is ignored.
StopBeforeRestore ==
  /\ At("update", "stop-before-restore")
  /\ \/ Stop(Services) /\ UNCHANGED faults
     \/ CountError /\ \E some \in SUBSET Services : some # Services /\ Stop(some)
  /\ Goto("extract")
  /\ UNCHANGED <<authorityVars, checkout, dataVars, gate, policy, url, timer, bootVars>>

\* restore_verified_archive: the transaction extracts into a directory of its
\* own that no other script looks at.
Extract ==
  /\ At("update", "extract") /\ archive.ready
  /\ Goto("swap-out")
  /\ OnlyTheStep

\* The two renames of activate_verified_destination.
SwapOut ==
  /\ pc = "swap-out"
  /\ world' = [world EXCEPT !.present = FALSE]
  /\ rescue' = IF proc = "recover" THEN TRUE ELSE rescue
  /\ Goto("swap-in")
  /\ UNCHANGED <<authorityVars, checkout, snapshotVars, staging, hostVars, playerVars, faults>>

SwapIn ==
  /\ pc = "swap-in"
  /\ world' = [present |-> TRUE, marker |-> archive.marker, mods |-> archive.mods,
               progress |-> archive.progress, listed |-> archive.listed,
               origin |-> "extracted"]
  /\ staging' = IF proc = "recover" THEN "none" ELSE staging
  /\ Goto(IF proc = "recover" THEN "recover-compare" ELSE "restored")
  /\ UNCHANGED <<authorityVars, checkout, snapshotVars, rescue, hostVars, playerVars, faults>>

\* The second rename fails: the first is undone, and a staging that this run
\* extracted is removed.
SwapInFails ==
  /\ pc = "swap-in" /\ CountError
  /\ world' = [world EXCEPT !.present = TRUE]
  /\ IF proc = "recover" THEN rescue' = FALSE /\ staging' \in {"none", "complete"}
     ELSE UNCHANGED <<rescue, staging>>
  /\ Abandon
  /\ UNCHANGED <<authorityVars, checkout, snapshotVars, hostVars, playerVars>>

\* The marker of the restored tree is checked, then written again.
MarkRestored ==
  /\ At("update", "restored") /\ world.marker = Prior
  /\ world' = [world EXCEPT !.marker = Prior, !.origin = "changed"]
  /\ pc' = "up" /\ run' = "prior-1"
  /\ UNCHANGED <<authorityVars, checkout, snapshotVars, restoreVars, hostVars, proc, flags, playerVars, faults>>

\* The transaction writes the phase first and the terminal status after it;
\* the recovery writes both at once.
RecordRollback ==
  /\ pc = "rollback-verified"
  /\ phase' = "rollback-verified"
  /\ status' = IF proc = "recover" THEN "terminal" ELSE status
  /\ pc' = (IF proc = "recover" THEN "finalize" ELSE "rollback-terminal")
  /\ run' = "none" /\ UNCHANGED <<proc, flags>>
  /\ OnlyTheRecord

RecordRollbackTerminal ==
  /\ At("update", "rollback-terminal")
  /\ status' = "terminal" /\ phase' = "rollback-verified" /\ Goto("finalize")
  /\ OnlyTheRecord

\* quarantine_reconcile: every failure is noted and none ends it. (Mutant: no
\* failure is noted.)
NotingNothing(ok) == IF ok THEN UNCHANGED <<flags, faults>>
                     ELSE UNCHANGED flags /\ CountError

Noting(ok) == IF ok THEN UNCHANGED <<flags, faults>>
              ELSE flags' = [flags EXCEPT !.failed = TRUE] /\ CountError

QuarantineBegin ==
  /\ At("update", "quarantine-reconciling")
  /\ \E ok \in BOOLEAN :
       /\ Noting(ok)
       /\ status' = IF ok THEN "quarantine" ELSE status
       /\ phase' = IF ok THEN "quarantine-reconciling" ELSE phase
  /\ pc' = "q-gate" /\ run' = "none" /\ UNCHANGED proc
  /\ UNCHANGED <<mutated, target, checkout, dataVars, hostVars, playerVars>>

QuarantineGate ==
  /\ At("update", "q-gate")
  /\ \E ok \in BOOLEAN : Noting(ok) /\ gate' = IF ok THEN TRUE ELSE gate
  /\ pc' = "q-minecraft" /\ UNCHANGED <<proc, run>>
  /\ UNCHANGED <<authorityVars, checkout, dataVars, running, policy, url, timer, bootVars, playerVars>>

\* reconcile_one_container and reconcile_service: restart policy, then stop,
\* each with a record that may fail of its own.
ReconcileService(s, here, next) ==
  /\ pc = here
  /\ \E ok, unpolicied, stopped \in BOOLEAN :
       /\ (ok => unpolicied /\ stopped) /\ Noting(ok)
       /\ policy' = IF unpolicied THEN [policy EXCEPT ![s] = "no"] ELSE policy
       /\ IF stopped THEN Stop({s}) ELSE UNCHANGED <<running, playerVars>>
  /\ pc' = next /\ UNCHANGED <<proc, run>>
  /\ UNCHANGED <<authorityVars, checkout, dataVars, gate, url, timer, bootVars>>

ReconcileServices == \/ ReconcileService("minecraft", "q-minecraft", "q-backup")
                     \/ ReconcileService("backup", "q-backup", "q-record")

QuarantineRecord ==
  /\ At("update", "q-record")
  /\ status' = "quarantine"
  /\ phase' = IF flags.failed THEN "quarantine-incomplete" ELSE "quarantined"
  /\ Return
  /\ OnlyTheRecord

-----------------------------------------------------------------------------
(* afterlight-transaction-finalize.sh: a loop over the recorded phase.     *)

\* Mutant of NextCleanup: the gate opens before systemd is reconciled.
NextCleanupGateEarly(p) == CASE p = "cleanup-restart-policies" -> "cleanup-gate"
                             [] p = "cleanup-gate" -> "cleanup-systemd"
                             [] OTHER -> "cleanup-complete"

NextCleanup(p) == CASE p = "cleanup-restart-policies" -> "cleanup-systemd"
                    [] p = "cleanup-systemd" -> "cleanup-gate"
                    [] OTHER -> "cleanup-complete"

FinalizeAt(p) == pc = "finalize" /\ status = "terminal" /\ phase = p

FinalizeBegin ==
  /\ FinalizeAt("transaction-verified") \/ FinalizeAt("rollback-verified")
  /\ phase' = "cleanup-restart-policies"
  /\ UNCHANGED <<status, mutated, target, checkout, dataVars, hostVars, procVars, playerVars, faults>>

RestorePolicies ==
  /\ \/ /\ FinalizeAt("cleanup-restart-policies") /\ Goto("finalize-backup")
        /\ policy' = [policy EXCEPT !["minecraft"] = "unless-stopped"]
     \/ /\ pc = "finalize-backup" /\ Goto("finalize-record")
        /\ policy' = [policy EXCEPT !["backup"] = "unless-stopped"]
  /\ UNCHANGED <<authorityVars, checkout, dataVars, gate, running, url, timer, bootVars, playerVars, faults>>

ReconcileSystemd ==
  /\ FinalizeAt("cleanup-systemd")
  /\ timer' = TRUE /\ Goto("finalize-record")
  /\ UNCHANGED <<authorityVars, checkout, dataVars, gate, running, policy, url, bootVars, playerVars, faults>>

DeleteRule == gate' = FALSE

RemoveGate ==
  /\ FinalizeAt("cleanup-gate")
  /\ DeleteRule /\ Goto("finalize-record")
  /\ UNCHANGED <<authorityVars, checkout, dataVars, running, policy, url, timer, bootVars, playerVars, faults>>

\* A cleanup phase is advanced only after its reconciliation.
RecordCleanup ==
  /\ pc = "finalize-record" /\ phase' = NextCleanup(phase) /\ Goto("finalize")
  /\ UNCHANGED <<status, mutated, target, checkout, dataVars, hostVars, playerVars, faults>>

\* command_authority_complete: the record is unlinked.
CompleteAuthority ==
  /\ FinalizeAt("cleanup-complete")
  /\ status' = "absent" /\ Return
  /\ UNCHANGED <<phase, mutated, target, checkout, dataVars, hostVars, playerVars, faults>>

-----------------------------------------------------------------------------
(* afterlight-quarantine-recover.sh --confirm.                             *)

\* load_paths demands DATA_DIR; a terminal record goes to the finalizer; an
\* unmutated one must still have its original root and marker.
RecoverBegin ==
  /\ proc = "none" /\ host \in {"pending", "up"}
  /\ status # "absent" /\ world.present
  /\ proc' = "recover" /\ run' = "none" /\ flags' = NoFlags
  /\ \/ status = "terminal" /\ pc' = "finalize"
     \/ /\ status # "terminal" /\ pc' = "recovery-preparing"
        /\ ~mutated => world.origin = "original" /\ world.marker = Prior
  /\ OnlyTheStep

RecoveryPreparing ==
  /\ At("recover", "recovery-preparing")
  /\ status' = "quarantine" /\ phase' = "recovery-preparing" /\ Goto("disable-timer")
  /\ OnlyTheRecord

DisableTimer ==
  /\ At("recover", "disable-timer")
  /\ timer' = FALSE /\ Goto("q-gate")
  /\ UNCHANGED <<authorityVars, checkout, dataVars, gate, running, policy, url, bootVars, playerVars, faults>>

\* Mutant: a partial staging is not replaced.
OnlyWithoutStaging == staging = "none"

Extractable == staging # "complete"

\* command_archive_restore --resume, up to the renames: an activated tree must
\* still equal the receipt; a complete staging is activated; a partial one is
\* removed and extracted again.
BeginRestore ==
  /\ At("recover", "restore") /\ archive.ready
  /\ \/ /\ rescue /\ staging = "none" /\ world.origin = "extracted"
        /\ Goto("recover-compare") /\ UNCHANGED staging
     \/ /\ ~rescue /\ staging = "complete"
        /\ Goto("swap-out") /\ UNCHANGED staging
     \/ /\ ~rescue /\ Extractable
        /\ staging' = "partial" /\ Goto("extract-rest")
  /\ UNCHANGED <<authorityVars, checkout, world, snapshotVars, rescue, hostVars, playerVars, faults>>

FinishExtract ==
  /\ At("recover", "extract-rest")
  /\ staging' = "complete" /\ Goto("swap-out")
  /\ UNCHANGED <<authorityVars, checkout, world, snapshotVars, rescue, hostVars, playerVars, faults>>

CompareRestored ==
  /\ At("recover", "recover-compare") /\ ProgressKept
  /\ Goto("recover-marker")
  /\ OnlyTheStep

\* With no snapshot the server stays stopped and the record becomes terminal.
CheckMarker ==
  /\ At("recover", "recover-marker") /\ world.marker = Prior
  /\ IF mutated THEN pc' = "up" /\ run' = "recover-1"
     ELSE pc' = "rollback-verified" /\ UNCHANGED run
  /\ UNCHANGED <<proc, flags>>
  /\ OnlyTheStep

-----------------------------------------------------------------------------
(* The boot gates; the second is also a step of the recovery.              *)

\* Mutant: only a quarantine closes the ingress at boot.
BootsClosedInQuarantine == status = "quarantine"

\* afterlight-ingress-boot-gate.sh, before docker.service: any record does.
BootsClosed == status # "absent"

IngressGate ==
  /\ host = "ingress"
  /\ gate' = (gate \/ BootsClosed) /\ host' = "docker"
  /\ UNCHANGED <<authorityVars, checkout, dataVars, running, policy, url, timer, resume, procVars, playerVars, faults>>

\* The daemon restarts what ran under unless-stopped.
DockerStart ==
  /\ host = "docker"
  /\ running' = resume /\ resume' = {} /\ host' = "pending"
  /\ world' = IF "minecraft" \in resume THEN Touch(world) ELSE world
  /\ UNCHANGED <<authorityVars, checkout, snapshotVars, restoreVars, gate, policy, url, timer, procVars, playerVars, faults>>

\* afterlight-quarantine-gate.sh as a boot service: it does nothing without a
\* record, and fails when another script holds the lock.
QuarantineGateBegin ==
  /\ host = "pending" /\ host' = "up"
  /\ IF proc = "none" /\ status # "absent"
     THEN proc' = "boot" /\ pc' = "q-gate" /\ run' = "none" /\ flags' = NoFlags
     ELSE UNCHANGED procVars
  /\ UNCHANGED <<authorityVars, checkout, dataVars, gate, running, policy, url, timer, resume, playerVars, faults>>

EnsureRule ==
  /\ pc = "q-gate" /\ proc \in {"boot", "recover"}
  /\ gate' = TRUE /\ Goto("q-minecraft")
  /\ UNCHANGED <<authorityVars, checkout, dataVars, running, policy, url, timer, bootVars, playerVars, faults>>

\* Without the DOCKER-USER chain the containers are reconciled all the same,
\* nothing is recorded and the gate fails.
ChainMissing ==
  /\ pc = "q-gate" /\ proc \in {"boot", "recover"} /\ ~gate /\ CountError
  /\ \E unpolicied, stopped \in SUBSET Services :
       /\ policy' = [s \in Services |-> IF s \in unpolicied THEN "no" ELSE policy[s]]
       /\ Stop(stopped)
  /\ Return
  /\ UNCHANGED <<authorityVars, checkout, dataVars, gate, url, timer, bootVars>>

\* The last write of the gate; the recovery goes on only when nothing failed.
QuarantineGateRecord ==
  /\ pc = "q-record" /\ proc \in {"boot", "recover"}
  /\ status' = "quarantine"
  /\ phase' = IF flags.failed THEN "quarantine-incomplete" ELSE "boot-reconciled"
  /\ IF proc = "recover" /\ ~flags.failed THEN Goto("rollback-checkout-prior") ELSE Return
  /\ OnlyTheRecord

-----------------------------------------------------------------------------
(* What happens around the scripts.                                        *)

\* The running Minecraft container installs the pack of its URL; a candidate
\* may damage progress or the integrity files.
InstallPack ==
  /\ "minecraft" \in running /\ world.present /\ world.mods # url
  /\ \E p \in 0..world.progress, l \in BOOLEAN :
       /\ url = Prior => p = world.progress /\ l = world.listed
       /\ l => world.listed
       /\ world' = [Touch(world) EXCEPT !.mods = url, !.progress = p, !.listed = l]
  /\ UNCHANGED <<authorityVars, checkout, snapshotVars, restoreVars, hostVars, procVars, playerVars, faults>>

\* The gate rejects only NEW connections: one opened before it may still log in.
Connect ==
  /\ player = "away" /\ ~gate /\ "minecraft" \in running
  /\ player' = "connecting"
  /\ UNCHANGED <<authorityVars, checkout, dataVars, hostVars, procVars, earned, faults>>

\* A login may rewrite the user cache.
Login ==
  /\ player = "connecting" /\ player' = "online"
  /\ \E l \in {world.listed, FALSE} : world' = [world EXCEPT !.listed = l]
  /\ UNCHANGED <<authorityVars, checkout, snapshotVars, restoreVars, hostVars, procVars, earned, faults>>

Play ==
  /\ player = "online" /\ earned < MaxProgress /\ world.progress < MaxProgress
  /\ earned' = earned + 1 /\ world' = [world EXCEPT !.progress = @ + 1]
  /\ UNCHANGED <<authorityVars, checkout, snapshotVars, restoreVars, hostVars, procVars, player, faults>>

Leave ==
  /\ player # "away" /\ player' = "away"
  /\ UNCHANGED <<authorityVars, checkout, dataVars, hostVars, procVars, earned, faults>>

\* The operator moves HEAD: to the accepted candidate before a transaction, or
\* back when a start demands it.
CheckOut ==
  /\ proc = "none" /\ status = "absent"
  /\ checkout' \in Releases \ {checkout}
  /\ UNCHANGED <<authorityVars, dataVars, hostVars, procVars, playerVars, faults>>

\* afterlight-server.sh start without an authority, as after a recovery that
\* left the server stopped.
OperatorStart ==
  /\ proc = "none" /\ host \in {"pending", "up"} /\ status = "absent"
  /\ running # Services /\ world.present /\ world.marker = checkout
  /\ running' = Services /\ policy' = [s \in Services |-> "unless-stopped"]
  /\ url' = checkout
  /\ world' = [world EXCEPT !.mods = checkout, !.origin = "changed"]
  /\ UNCHANGED <<authorityVars, checkout, snapshotVars, restoreVars, gate, timer, bootVars, procVars, playerVars, faults>>

\* A step reports an error, or a signal is caught: the script gives it up. A
\* failed stop may have stopped one container; a failed operator start stops
\* both, if it can.
Stopping == \/ pc \in {"stop-both", "stop-minecraft"}
            \/ proc = "recover" /\ pc \in {"up", "health", "mark", "backup-up"}

StepFails ==
  /\ CountError /\ pc # "swap-in" /\ Abandon
  /\ \E some \in SUBSET Services : (some = {} \/ Stopping) /\ Stop(some)
  /\ staging' \in CASE pc = "extract-rest" -> {"none"}
                   [] pc = "swap-out" /\ proc = "recover" -> {"none", "complete"}
                   [] OTHER -> {staging}
  /\ UNCHANGED <<authorityVars, checkout, world, snapshotVars, rescue, gate, policy, url, timer, bootVars>>

\* A verification that finds what it must not find ends its script alike.
Refuted ==
  \/ pc = "verify" /\ ~LiveVerified(Revision)
  \/ pc \in {"compare", "recover-compare"} /\ ~ProgressKept
  \/ pc = "integrity" /\ ~world.listed
  \/ pc = "final-check" /\ ~(world.listed /\ LiveVerified(Candidate))
  \/ pc \in {"restored", "recover-marker"} /\ world.marker # Prior
  \/ pc = "restore" /\ rescue /\ (staging # "none" \/ world.origin # "extracted")
  \/ pc = "up" /\ proc = "recover" /\ ~(gate /\ world.marker = checkout)

VerificationFails ==
  /\ Refuted /\ Abandon
  /\ OnlyTheStep

\* SIGKILL, or a timeout whose grace ran out: no exit trap runs.
Kill ==
  /\ proc # "none" /\ faults.kills < MaxKills
  /\ faults' = [faults EXCEPT !.kills = @ + 1] /\ Return
  /\ UNCHANGED <<authorityVars, checkout, dataVars, hostVars, playerVars>>

\* A host crash loses the rules, the processes and the connections.
Reboot ==
  /\ faults.reboots < MaxReboots
  /\ faults' = [faults EXCEPT !.reboots = @ + 1]
  /\ host' = "ingress" /\ gate' = FALSE /\ running' = {}
  /\ resume' = {s \in running \union resume : policy[s] = "unless-stopped"}
  /\ player' = "away" /\ Return
  /\ UNCHANGED <<authorityVars, checkout, dataVars, policy, url, timer, earned>>

-----------------------------------------------------------------------------
Transaction ==
  \/ CreateAuthority \/ RecordPhase \/ EnsureGate \/ RequireZeroPlayers \/ Flush
  \/ StopBoth \/ CreateSnapshot \/ RecordSnapshot \/ CreateArchive
  \/ RecordMutation \/ RecordVerified \/ FinalCheck \/ CompleteSnapshot
  \/ RecordTerminal

Starting ==
  \/ ComposeUp \/ WaitHealthy \/ WriteMarker \/ LiveVerify \/ StopMinecraft
  \/ CompareProgress \/ VerifyIntegrity \/ StartBackup

Rollback ==
  \/ ExitTrap \/ BeginRollback \/ RecordCheckoutTarget \/ ReconcileCheckout
  \/ RecordCheckout \/ StopBeforeRestore \/ Extract \/ SwapOut \/ SwapIn
  \/ MarkRestored \/ RecordRollback \/ RecordRollbackTerminal

Quarantine == QuarantineBegin \/ QuarantineGate \/ ReconcileServices \/ QuarantineRecord

Finalize ==
  \/ FinalizeBegin \/ RestorePolicies \/ ReconcileSystemd \/ RemoveGate
  \/ RecordCleanup \/ CompleteAuthority

Recovery ==
  \/ RecoveryPreparing \/ DisableTimer \/ BeginRestore \/ FinishExtract
  \/ CompareRestored \/ CheckMarker \/ EnsureRule \/ QuarantineGateRecord

Boot == IngressGate \/ DockerStart \/ QuarantineGateBegin

\* The steps of whichever script holds the lock.
Script == Transaction \/ Starting \/ Rollback \/ Quarantine \/ Finalize \/ Recovery
          \/ VerificationFails

Environment ==
  \/ Connect \/ Login \/ Play \/ Leave \/ CheckOut \/ OperatorStart
  \/ UpdateBegin

Failures == StepFails \/ SwapInFails \/ ChainMissing \/ Kill \/ Reboot

Next == Script \/ RecoverBegin \/ Boot \/ InstallPack \/ Environment \/ Failures

Spec == Init /\ [][Next]_vars

\* A script that holds the lock goes on, the host finishes booting, a running
\* container installs its pack, and the operator repeats the recovery command
\* as the runbook says. Nobody has to play, to begin a transaction or to fail.
FairSpec == /\ Spec
            /\ WF_vars(Script) /\ WF_vars(Boot) /\ WF_vars(InstallPack)
            /\ WF_vars(RecoverBegin)

-----------------------------------------------------------------------------
(* Properties.                                                             *)

\* A transaction that is not decided: a rollback or a recovery may still run.
Undecided == status \in {"pending", "quarantine"}

HoldsRelease(w, r) == w.marker = r /\ w.mods = r

\* The live data directory is the prior release with everything earned.
LiveIsPrior == world.present /\ HoldsRelease(world, Prior) /\ world.progress = earned

\* So is the authenticated archive, which is kept until the next transaction.
ArchiveIsPrior == archive.ready /\ HoldsRelease(archive, Prior) /\ archive.progress = earned

\* As long as a transaction is undecided there is a way back: its archive, or
\* the untouched data directory before the first mutation, is the prior release
\* with all the progress the players have earned. What create_verified_archive,
\* the write-ahead data_mutated field and the two renames of the restore are for.
WayBack == Undecided => ArchiveIsPrior \/ (~mutated /\ LiveIsPrior)

\* The data directory changes hands only under data_mutated: while a record
\* says that nothing was mutated, every script that trusts the record
\* (recovery-original-verify, the stopped restart after it) finds the prior
\* release and nothing else, wherever the update was interrupted.
UnmutatedIsPrior ==
  status # "absent" /\ ~mutated => HoldsRelease(world, Prior)

\* A mutated world is never reachable from outside: while the record of a
\* mutated transaction exists and Minecraft runs, the REJECT rule is in place,
\* through kills, failing gates and host reboots, until the finalizer removes it.
IngressClosed ==
  status # "absent" /\ mutated /\ "minecraft" \in running
    => gate \/ (status = "terminal" /\ phase = "cleanup-gate")
            \/ (status = "terminal" /\ phase = "cleanup-complete")

\* A record that claims a complete quarantine tells the truth until a recovery
\* changes the phase: no service runs, none would come back with the Docker
\* daemon, and the rule is in place or the host is about to install it.
QuarantineHolds ==
  status = "quarantine" /\ phase \in {"quarantined", "boot-reconciled"}
    => /\ running = {} /\ resume = {}
       /\ policy = [s \in Services |-> "no"]
       /\ gate \/ host = "ingress"

\* A terminal record stands for a proven release: HEAD, marker and installed
\* mods agree, and the candidate has not cost the players any progress.
TerminalIsProven ==
  status = "terminal" => /\ world.present /\ HoldsRelease(world, checkout)
                         /\ mutated => world.progress = earned

\* Outside a host crash the rule is removed only in front of a proven world,
\* with the restart policies and the maintenance timer back in place.
GateOpensOnProvenWorld ==
  [][gate /\ ~gate' /\ host' = host =>
       /\ world.present /\ HoldsRelease(world, checkout) /\ world.progress = earned
       /\ \A s \in Services : policy[s] = "unless-stopped"
       /\ timer]_vars

\* Ends from which the recovery command cannot go on: the data directory is
\* between the two renames; it is not the captured original though the record
\* says unmutated; the restored tree has been started once, although SERVER.md
\* calls the snapshot recovery idempotent.
BetweenRenames   == ~world.present
NotTheOriginal   == ~mutated /\ world.origin # "original"
RestoredAndUsed  == rescue /\ world.origin = "changed"
DeadEnd          == BetweenRenames \/ NotTheOriginal \/ RestoredAndUsed

\* Repeating the recovery command resolves every transaction, wherever it was
\* killed, except from the three dead ends.
EveryTransactionResolves == status # "absent" ~> status = "absent" \/ DeadEnd

\* The update implements the switch its documentation promises.
Switch == INSTANCE ReleaseSwitch WITH
  mode     <- IF ~Undecided THEN "serving"
              ELSE IF mutated THEN "switching" ELSE "draining",
  release  <- IF Undecided THEN Prior ELSE world.marker,
  progress <- IF Undecided /\ (mutated \/ ~world.present)
              THEN archive.progress ELSE world.progress
Implements == Switch!Spec
=============================================================================
