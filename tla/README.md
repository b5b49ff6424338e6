# AFTERLIGHT operations, in TLA+

AFTERLIGHT is a Minecraft modpack with a production server. This directory
models the programs in which a step at the wrong moment costs something:

- the scripts under `server/` that replace the running release inside a durable
  transaction, the recovery that must repair whatever a kill or a host crash
  left of it, and the everyday commands, restarts, snapshots and locks around it:
  players could lose progress;
- the generated quest files: a build of several files, and the journaled
  migration of adopted ones, could lose a maintainer's edits;
- the acceptance of a pack: the headless server test, the oracle that reads its
  logs and the scan for one forbidden item could accept what was not reviewed;
- the release: the gauntlet, the promotion and the publication could make public
  what was never accepted.

## 1. The system

| part | source | state it keeps | operations |
| --- | --- | --- | --- |
| Protected quest update | `server/afterlight-quest-safe-update.sh` | its locals SNAPSHOT_READY, BACKUP_VERIFIED, ROLLING_BACK, CLEANUP_ACTIVE | main, exit trap, rollback, quarantine |
| Terminal finalizer | `server/afterlight-transaction-finalize.sh` | none: a loop over the recorded phase | policies, systemd, firewall, delete the record |
| Durable quarantine recovery | `server/afterlight-quarantine-recover.sh` | none | finish a terminal record, restore a snapshot, verify an unmutated original |
| Boot gates | `server/afterlight-ingress-boot-gate.sh`, `afterlight-quarantine-gate.sh`, `systemd/` | none | reject new connections before `docker.service`, stop the containers after it |
| Durable authority | `server/afterlight-safety.py` (authority-*) | `quest-update.authority.json`: status, phase, data_mutated, checkout target, identity of the original data | create, update, complete, original verification |
| Archive and restore | `server/afterlight-safety.py` (archive-*) | snapshot, archive, receipt, staging and rescue directories | create, restore with resume, two-rename activation |
| Lock and process control | `server/afterlight-safety.py` (lock-*, run), `afterlight-safety-contract.sh` | one flock, inherited by descriptor | acquire, pass on, time out, kill, orphan |
| Operator commands | `server/afterlight-server.sh` | containers, DATA_DIR, backups, HEAD marker | start, stop, backup, update, rollback, restore |
| Maintenance, retention | `server/afterlight-maintenance.sh`, `afterlight-snapshot-retention.sh` | containers; retained snapshots | daily restart; weekly pruning |
| Progress guard | `server/afterlight-progress-guard.py` | a manifest per snapshot | snapshot, compare |
| Quest build transaction | `tools/afterlight_quests/quest_build_transaction.py` | commit records and artifacts of a build; the retention store between builds | multi-file promotion with rollback and cleanup |
| Quest migration | `tools/afterlight_quests/builder.py` (`normalize_quest_corpus_ids`) | one transaction directory per user: journal, payloads, their copies | build, begin, apply, archive |
| Server test | `tools/server-test.sh`, `tools/rc_hygiene.py` | server directory, installer cache, nonces, evidence | install, compare, render, boot, verify, capture |
| Runtime oracle | `tools/rc_hygiene.py` (`verify_boot_run`) | none: reads console, `latest.log`, `debug.log`, KubeJS logs | accept or refuse a boot |
| Seal scan | `tools/rc_hygiene.py` (`verify_seal_sources`) | shared budgets of a walk | authenticate, walk, search archives in archives |
| Release artifacts | `tools/release_artifacts.py`, `client_install_support.py`, `build-release.sh` | five files and a receipt | build, inspect, bind, verify, install |
| Gauntlet, promotion, publication | `tools/release-gauntlet.sh`, `promote-release.sh`, `publish-release.sh` | branches, tag, CI runs, Pages, draft and release | accept, promote, publish |
| Other generators and audits, game content | `tools/`, `config/`, `kubejs/`, `mods/` | data | generation and validation |

The first nine, the ones under `server/`, share state. All of them take one lock (`lock-run` execs the
script under it); the durable authority outlives them and is what the next
script finds. Docker and systemd act on their own: the daemon restarts
containers under `unless-stopped`, a reboot runs the two gates in order.
Players connect whenever the REJECT rule is not in `DOCKER-USER`, and a
connection opened before the rule survives it, because the rule only matches
NEW connections. A running Minecraft container installs the pack of its
PACKWIZ_URL on its own time.

What is hard here: a kill (SIGKILL, or a grace period that ran out) at any step
runs no exit trap; a host crash also loses the firewall and the containers; a
step may fail and lead into the rollback, the rollback into the quarantine, and
the quarantine's own steps may fail one by one; every script is meant to be
repeatable; and the players interleave with all of it. The tools have no lock:
two checkouts of a user share the transaction directory of the migration, two
server tests share ports and an installer cache, people edit files, switch
branches and push while scripts that look at them twice are at work. GitHub's
answers may be lost after what they answer has happened. `PROJECT.json` lists
the hazards at their lines, each with the properties that would catch it.

What makes the parts correct:

- update and recovery together: whatever happens, the prior release with every
  bit of progress can be brought back until a transaction is decided, and a
  decided transaction stands for a proven release;
- finalizer: the gate opens last, the record is deleted after everything else,
  and repeating it converges;
- gates: a mutated world is never reachable from outside, a quarantine holds;
- authority: written ahead of what it describes, so that a reader can trust it;
- recovery: repeating it ends every transaction;
- snapshot store and lock: a receipt stands for a durable archive, DATA_DIR is
  never a torn tree, and one invocation works at a time, helpers included;
- quest build: all targets or none, no edit of somebody else lost silently, and
  a bounded retention store that never blocks the next build;
- quest migration: no content lost or brought back whoever applies whose
  transaction, unless a person has lost the file already, and a repeated build
  migrates;
- server test, oracle, scan: OK is said of the reviewed pack and of this run,
  and what nobody disturbs is refused for a reason only;
- release: what is public was accepted, what is pushed was earned, and
  repeating what failed publishes.

## 2. Modules

| module | what it is |
| --- | --- |
| `ReleaseSwitch` | the abstract specification: a service switches releases in a closed phase, without losing progress |
| `QuestUpdate` | the update, finalizer, recovery, boot gates, containers, players and faults |
| `MCQuestUpdate` | the instance TLC checks |
| `QuestUpdateProofs` | the types of `QuestUpdate`, what holds of it through host crashes and without them, and that it implements `ReleaseSwitch`, proved |
| `HostControl`, `MCHostControl` | start, stop, backup, update, rollback and the daily restarts, with containers, players and faults |
| `HostControlProofs` | every safety property of `HostControl`, proved |
| `LockRun` | the lock and the processes of an invocation |
| `SnapshotStore` | creation, restore and pruning of a snapshot on a file system that may lose power; extends `LockRun` |
| `SnapshotStoreProofs` | that `LockRun` excludes, that `SnapshotStore` follows it, and its invariants, proved |
| `BuildPromotion`, `MCBuildPromotion` | one quest build: promotion, rollback and cleanup of several files, and an editor |
| `BuildPromotionProofs` | its invariants, for any number of targets and edits, proved |
| `BuildRetention` | the retention store of one target over many builds |
| `BuildRetentionProofs` | its bound, and that a target can always be deleted, proved |
| `QuestMigration` | the journaled migration of a quest corpus, by several processes through one directory |
| `QuestMigrationProofs` | its invariants, for any files, checkouts, faults and changes, proved |
| `ServerTest`, `MCServerTest` | runs of the headless server test and the evidence they demand |
| `ServerTestProofs` | its invariants, for any runs, checkouts, edits and faults, proved |
| `BootLog` | the orders in which a boot writes its logs, and the oracle that reads them |
| `SealScan`, `MCSealScan` | the scan for the Seal, through nested archives, while files are written |
| `ReleaseArtifacts` | what a release consists of and how it is verified |
| `ReleasePromotion`, `MCReleasePromotion` | gauntlet, promotion and publication against GitHub; extends `ReleaseArtifacts` |
| `ReleasePromotionProofs` | what their inspections establish and their invariants, for any pack, defects and interference, proved |

### QuestUpdate

One lock serialises the scripts, so `proc` names the script that holds it and
`pc` its next step; the containers, the players, the daemon and the host
interleave with every step. A `pc` named like a phase is the point just before
that phase is written. `run` says which of its server starts a script is in
(first and second start of the candidate, of the prior release, of the
recovery), so that `start_minecraft`, the health wait, the marker, the live
verification, the progress comparison and the integrity check are one action
each, as each is one function in the code. `flags` are the locals
SNAPSHOT_READY, BACKUP_VERIFIED and the quarantine's `failed`.

`world` is DATA_DIR: its release marker, installed mods, the players' progress
and whether the whitelist and user cache still have the digests that were
captured. `world.origin` abstracts the identity the authority records: the root
and marker are the original inodes ("original"), the tree equals the archive's
inventory ("extracted"), or neither. `earned` and `faults` are history and
bounds, not state of the program.

Each step that can fail does so in one of three ways, as in the code:
`Refuted` (a verification finds what it must not find), `StepFails` (a command
reports an error, or a signal is caught) and the failures that the code treats
specially: `SwapInFails` undoes the first rename, `ChainMissing` reconciles the
containers although there is no firewall chain, `StopBeforeRestore` and
`ExitTrap` ignore a failure, and the quarantine's steps note it and go on
(`Noting`). `Abandon` is where a failure leads: exit trap, quarantine, or out.
`Kill` and `Reboot` run no trap at all.

Abstractions, beyond data: a malformed authority and a record that was written
although its directory fsync failed are left out, and so are the
`restart_disabled` and `stopped` fields, which nothing reads back; a candidate
damages progress or the integrity files when its pack is installed, not later;
the ungated UDP port is not modelled (README.md claims IPv4 game ingress);
the receipt verification is an input that holds or fails (`StepFails`).

### ReleaseSwitch

Modes "serving", "draining" and "switching". Players make progress while
serving or draining; entering the switching mode fixes a release and its
progress; it ends in either release, with the same progress. `QuestUpdate`
implements it when there is no host crash: `mode` is computed from status and
data_mutated, and the progress that counts while a transaction is mutated is
the archive's.

### HostControl

`afterlight-server.sh` and `afterlight-maintenance.sh`. Every command takes the
shared lock without waiting and then refuses to run beside an unresolved quest
update (`TakeLock`); `call` is the one command that holds the lock. `call.cmd`
says which `run_*` function is running, `call.parent` who called it: the
operator, or a maintenance in idle or scheduled mode, which runs a backup, a
stop and a start in one process. So `call.pc` walks through the functions in
the order of the code: `check-start`, `up`, `health`, `mark`, `up-backup`,
`backup-health` are `run_start`, and an update or a rollback enters that walk
at `up`; `backup`, `exec`, `verify` are `run_backup`. `call.sha` is the revision
that was resolved once and is then used throughout, `call.archive` the archive
that was chosen, `call.before` the inventory before the backup and
`call.observed` the identity and start time of the container the maintenance
found.

`data`, `staging`, `rescues` and `archives` hold trees: the release marker, the
revision packwiz last installed, the players' items, the owner, and the history
of revisions that became healthy on that tree. `head` is HEAD of the checkout,
which Git moves without any lock. A container runs the revision in its
PACKWIZ_URL (`release`), installs it when it starts (`Install`) and becomes
healthy some time later; it crashes and restarts by itself. The sidecar makes
archives at any time while it is up. `online` is whether anyone plays.

The quest update appears as what the commands see: it takes the lock, leaves an
active authority while it runs and after it died, and ends with a proven
release or with the world as it was. `QuestUpdate` is its detailed model.

Simplifications: the three waits of the countdown, each followed by the same
test, are one step; the age of a container is an open choice; a player's item
is saved when it is earned, so what an unclean stop loses is left out; rescue
names do not collide; the sidecar's archive appears in one step, so that a
partial one in the listing is left to the verification of the chosen backup;
the sidecar's pruning of old archives and the directory
and secret checks of the doctor are left out, except for the owner of DATA_DIR.
A step that may fail fails once in `faults.errors`; the stop that a failed
start makes may fail too, as a second error.

### LockRun and SnapshotStore

`LockRun` has the processes of one invocation: `lock-run`, the script under it,
its `run-command` and the helper that works, each alive or not, and `fd`, the
ones that hold the lock's descriptor. flock belongs to the open file
description, so the lock is free when `fd` is empty everywhere. `Process` is
what the code does in order (`AcquireLock`, `VerifyLock`, `StartHelper` and
their ends), `Deadline` the timeouts of both runners with their grace periods,
`Killed` what the world does to a runner or a script. A helper whose `run-command` was killed is an orphan, which goes
on and keeps the lock.

`SnapshotStore` makes every step of `archive-create`, `archive-restore`,
`snapshot-complete` and `snapshot-prune` a step of such a helper. A directory is
its journal: the states since its last fsync, the last of which programs see and
any one of which a power loss leaves; a file's data may be lost unless it was
synced. `record` is the authority as far as these commands read it. Invocations
are the update (with its recovery) and the retention service.

Simplifications: the file system keeps the order of changes to one directory; a
short write in the extraction, which the code does not look for, is found by the
final inventory, as in the code; owners and modes are part of a file's version;
a SIGKILL aimed at one `run-command` alone is left out. `Stranded` is excluded
by name in `RestoreConverges`: a failing fsync between the two renames makes the
error path remove the staging while DATA_DIR is away.

### BuildPromotion

`promote_bytes` from the first file it reads to the value or the error it ends
with. A target has a public name and up to three private ones beside it; `file`
is what each holds, `expects` what the artifact of that name is supposed to hold
(and Nothing when it is not `present`), `keep` its `retain`. `phase` is the phase
of the commit record. `pc` is the next system call or check, and `cur` the
target it is about; the reversal functions are entered both from a promotion
that finds its target changed and from the rollback (`rolling`). A check that
reads two names is two steps. `reported` are the unresolved paths, `warned`
stands for rollback errors, cleanup errors and cleanup warnings.

`Editor` is another process: it saves, creates or removes a target, or writes
through a descriptor to a file that was moved aside (`EditMoved`). It leaves the
private names alone otherwise. `_states_match` compares inode and times too, so
two files with equal bytes are still told apart: each edit is used once.

Left out: created parent directories and their retention, symbolic links and
other kinds of objects, modes and owners, and what happens to a retained file
once its build is over.

### BuildRetention

One target, one build after the other, each of which replaces, creates or
deletes it. `kept` counts the retained files of the target and `place` says
where the artifacts of the last build are: in the authoring directory, beside
the target, or gone. What the files hold does not matter here and is left to
`BuildPromotion`. A crash ends a build at any step; the leftovers refuse the
next build until the operator resolves them (`Resolve`), as
`docs/PROJECT_MEMORY.md` asks. A refused build changes nothing and is no action.

### QuestMigration

`_normalize_quest_corpus_ids_transaction` and what it calls. A process looks for
a transaction in the directory of its user and applies it, or builds one of its
own root in a private place (`Scan`), renames it in (`Rename`), and applies that. `State`
is what programs see of the directory, with journal and payloads in two copies
each; a root is a file or two names per chapter (`src`, `dst`), since a chapter
named after its id is renamed as well. A file's content is its `ver`, which only
people change, and whether its ids are safe; `latest` is the last version anyone
gave it, `lost` are the files that vanished, about which `ContentKept` says less:
the preflight takes a missing file for one to be written. A transaction's `plan` is the state before and after each file.
`Relocate` and `Renew` are what happens to checkouts and candidate workspaces,
`Vanish` and `Edit` what people do to files between calls; `Dies` (a kill, or a
system call that fails), `PowerLoss` and `Damage` are faults. Orphaned temporary files and the deletion of old
transactions are left out, for nothing reads them.

### ServerTest

`server-test.sh` in the order of its commands. A pack is a record of its parts
(`mods`, `config`, `code`, `data`), each with what the audits can tell apart:
reviewed, or in which way not. `root` is what a checkout holds and what its
index says, `manifest` what a run remembered of it, `dir` what is installed,
`cache` the installer's files, `serve` and `server` the two background
processes, which survive a killed harness and keep their port, `ran` what the
server loaded with the nonces its scripts announced, and `evidence` the logs
kept. The checks that read the disk again after the boot (`VerifySources`,
`VerifyLogs`, `VerifyJars`) are steps of their own, because people edit between
them. `OkIsThisRun` says what an OK is worth. In company in one checkout it is
the nonces and nothing else: with three runs and two edits, or with two runs and
four, another run's install can be under the server when it loads and gone when
the oracle reads. Alone it is the version, too, unless somebody has edited the
pack four times, each time between two certain checks. Simplifications: the assertions on the manifest are joined to the step
before them; the installer follows the order of the index; its two caches are
one; edits are those during a run, and one that is not reviewed before it.

### BootLog

What is concurrent is the writing: threads hand records to the appenders, which
put one into the console and `latest.log` and then into `debug.log`; another
thread may come in between (`held`). `Programme` is the reviewed boot: five
stages, in each the records of every thread that one check or another looks at,
one representative per kind. `Differs` is every way not to be that boot, and a
line written past the logging (`stray`) becomes a continuation of whatever
record it follows. `Accepted` is `verify_boot_run`: the runtime audits, the
markers in order, the canonical projections of both logs as bags, the context of
the Sable errors and the console. The operators it is made of are the functions
of `rc_hygiene.py` over records instead of text.

### SealScan

`verify_seal_sources` of one tree. A payload is a tree (plain text, zip, or
compressed); of a text the model keeps which tokens stand in each 1 MiB chunk,
because the scan works chunk by chunk with an overlap. `stack` is the code's
recursion; `ScanText`, `ScanPacked`, `ScanZip`, `ScanArchive` and `ScanMember`
work off its top within the budgets for depth, members, expanded bytes and occurrences that the
whole walk shares. Files are opened, read and closed in steps, with their
identity compared, and `Write` may come between: one that leaves the identity
alone, within one tick of the clock, is `blurred`. Simplifications: the code
inventory and the metadata are one step each; bytes of a zip outside of its
members mention nothing; concatenated gzip members are one payload; the limit on
compression ratios is part of `MaxSize`; `Walk` lists all directories at once,
while `_seal_bounded_walk` lists a later one after earlier files were searched: a
write that comes before its directory is listed is one before `Walk`, for it
touches no file searched until then; the escaped spellings count in JSON only, as
in the scan, for the scripts that could decode them are authenticated by their
digest. `Mentions`, `Readable` and `Cost` are
the reference definitions the scan is compared with, by recursion over the tree
instead of that stack.

### ReleaseArtifacts and ReleasePromotion

`ReleaseArtifacts` is pure: the pack of a commit, `Contents(archive, defect,
pack)`, the inspections of the Modrinth, CurseForge and Prism archives, what each
installs on a client, and `VerifyPublicRelease`. Bytes are known by the defect
of their build and a hash is the bytes, so that two builds are equal if they went
wrong in the same way.

`ReleasePromotion` has the three scripts, each with its `pc`, the local
repository (`local`: branches, tag, checkout), the remote one, CI runs, Pages
(`pages`), the releases of the tag, and the accepted files with their receipt.
External, modelled from how the scripts use them: a push only moves forward and
cancels the running CI of its branch; GitHub creates a missing tag at main when
a release is published; one public release per tag; asset ids never return. The
operator commits, switches branches and repeats scripts; others push, tag, edit
releases and swap files. An answer may be lost after the push arrived, and a
script may be killed between any two commands. Simplifications: one checkout and
one run of each script; waiting for CI or Pages past its time limit is the
refusal of what does not match; the search for credentials, the normalisation of
archives, uncommitted edits and work in the checkout during the publication are
left out.

## 3. Runs

Eleven runs pass and one shows a violation. Each ends within three minutes on two
workers. `CHECK_DEADLOCK FALSE` is in every cfg because the systems do stop: the
dead ends below are states in which no script can act, a run of a test ends,
and a published release is the end. The type definitions of the modules
(`TypeOK`, `HTypeOK`, `RTypeOK`, `PTypeOK`, `STypeOK`, `QTypeOK`, `LockTypeOK`)
were checked once each with TLC and are in no run; those of `QuestUpdate`,
`HostControl`, `SnapshotStore`, `BuildPromotion` and `BuildRetention` are proved
(section 4).

| run | faults and bounds | shows |
| --- | --- | --- |
| `quest_update_safety` | 1 kill, 1 error | `WayBack`: while undecided, the archive or the untouched world is the prior release with everything earned; `TerminalIsProven`; `GateOpensOnProvenWorld`; `Implements` (`ReleaseSwitch`); `EveryTransactionResolves` (except from `DeadEnd`) |
| `quest_update_reboots` | 1 kill, 2 reboots, 1 error | `IngressClosed`, `QuarantineHolds`, `UnmutatedIsPrior` |
| `host_control` | 2 of: error, crash, kill, reboot, quest update | `EarnedIsKept` through rollbacks; `MarkerIsProven`; `BackupIsFresh`; `RunsWhatIsMarked`; `QuestsProtected`; `UnresolvedIsAlone`; `CommandsEnd` |
| `snapshot_store` | 3 of: error, kill, deadline, interference, power loss | `ArchiveIsDurable`, `DataIsWhole`, `Exclusive`, `RestoreConverges`, `PruneConverges` |
| `build_promotion` | 1 error, 1 interrupt, 2 edits | `NoEditHidden`, `AllOrNothing` and `TornIsVisible` when nothing interrupts, `InterruptedIsVisible` |
| `build_retention` | any number, but not in writing | `RetentionBounded`, `Deletable` |
| `quest_migration` | 1 fault, 1 change by people | `ContentKept`, `ReturnsMigrated`, `MigrationConverges` (except from `DeadEnd`) |
| `server_test` | 2 oddities, of which 1 fault | `OkIsThisRun`, `RefusalIsEarned`, `EvidenceIsOwn` |
| `boot_log` | 1 overtaking, stray line or deviation | `OnlyReviewedBoots`, `ReviewedBootsPass` (except if `Disturbed`) |
| `seal_scan` | 2 writes, 151 trees | `AcceptedAsReviewed`, `RefusedForCause` |
| `release_promotion` | 2 oddities, of which 1 fault; 3 releases | `AcceptedIsPack`, `PushesAreEarned`, `PublicIsAccepted`, `ReleaseConverges` (except from `DeadEnd`) |
| `retention_bounded` | writes fail too | a violation, section 5 |

The runs of the update use two releases. Progress is bounded by `MaxProgress`,
faults by `MaxKills`, `MaxReboots` and `MaxErrors`; nothing else needs a bound.
One error already reaches every failure branch of the update, two faults (a kill
or reboot and an error) every combination of one script's failure with the
failure of the script that repairs it; a safety run with two kills and two
errors was also made once. One unit of progress tells a kept from a lost one,
two an old loss from a new one.

`host_control` has three revisions, the third with other quests: two are needed
for an update, the third for one that must be refused. The first two are alike,
so HEAD begins at the first or the third (`FairSpecUpToExchange`): every other
behaviour is one of these with the two exchanged. One move of HEAD and one
rollback reach every disagreement between checkout, marker and container; two
archives are an old and a fresh one, and one item tells a kept from a lost one.
Two faults are a failure and the failure of its handling, a crash during a
restart, or a quest update that dies and is met by a command.

The build run has two targets, in every combination of what the build does with
them: the second makes the order of promotion, rollback and cleanup matter, and
a third would repeat one of the two. Two edits are one to be found and one to
race its reversal; a run with three edits and two errors was also made once.
`Corrections` is the 8 of the code, out of reach of two edits. An interrupt is
one between a rename and its record (`Interrupt`). Three properties say nothing
after one, because they do not survive it (a created file stays, unreported);
`InterruptedIsVisible` says what does. `build_retention` needs no bounds: `kept`
is bounded by the code, which is the property. Its `WritesFail` is FALSE because
the property is false otherwise (section 5).

The properties of the safety run are about runs without host crashes because
they are false with them: the quarantine gate turns a terminal record back into
a quarantine (section 5). What the code does hold through crashes is in the
second run.

`snapshot_store` has two files, so that an archive or a tree can be torn between
them, and the two invocations that meet in the code, the update and the
retention. Three faults are a failure, the failure of its repetition, and a power
loss on top; four were run once. `quest_migration` has two files, one of which
is renamed, and two roots: the transaction of one is found by the other, which
a third would not add to. `server_test` has two runs, because the code shares
between two what it shares between many, in one checkout or two; `boot_log`
lets one worker carry a number other than the reviewed one. The trees of
`seal_scan` put every token into every kind of file, on either side of a chunk's
end, and nest zips and compressed payloads as deep as the limit and one beyond;
the limits are small so that trees exceed each of them. `release_promotion` has
one item of each side and provider, an embedded mod and a bootstrap, every
defect of a build and every flaw of a commit the inspections name; three
releases are a leftover, its replacement and one by somebody else, and a run with
three oddities and four releases was also made once.

Fairness of `QuestUpdate` (`FairSpec`): a script that holds the lock takes its
next step (weak fairness of `Script`), the host finishes booting, a running
container installs its pack, and the operator repeats the recovery, as the
runbook in `docs/SERVER.md` demands. No fairness is put on players, on beginning
an update, or on failures. Fairness of `HostControl`: a started command takes
its next step, and a started container installs its pack and becomes healthy.
The last stands for the bounded waits of the code: a container that never
becomes healthy runs into the time limit of `wait_service_healthy`, which is
the failing step `StartFails`. No fairness is put on operators, timers,
players or faults.

Fairness of `SnapshotStore`: helpers and runners take their steps, a helper past
its grace period is killed, the timer calls the retention and the operator the
recovery until it is done. An invocation that loses the lock to another one
again and again gets it in the end (strong fairness of `Invoke`): the retention
is weekly and the operator repeats. `QuestMigration`: a process takes its steps
and a failed build is started again. `ReleasePromotion`: weak fairness of the
gauntlet, the promotion, the publication, GitHub, and the operator who commits
and pushes the record and returns to dev; none of what others do, and none of
another attempt of a failed CI run (`RerunCi`), which the scripts accept and no
document asks for: a failed run is a dead end of `ReleaseConverges`. Fairness of
the promotion and the publication has the operator repeat a refused script for
the same commit. That is this module's own assumption and departs from the
runbook, which says: "If `dev` CI, `main` CI, Pages parity, publication, or a
manual gate fails, fix forward through a new candidate SHA"
(`docs/RELEASING.md:82`). The scripts allow the repetition, for they take a
branch that has the commit already for pushed, and after a lost answer or a
crash it is what is left to do. `ReleaseConverges` shows what it would achieve,
where Pages was stale or a publication ended before it made a release, too. A
new candidate is not modelled: its commit on dev is the `other` one, a dead end
for this commit.
`ServerTest`, `BootLog` and `SealScan` claim safety only.

## 4. Proofs

Every invariant of the runs of `QuestUpdate`, `HostControl`, `SnapshotStore`,
`BuildPromotion`, `BuildRetention`, `QuestMigration`, `ServerTest` and
`ReleasePromotion` is proved for every value of the constants but for the
hypotheses named below, and so are their action properties and two refinements.
None of them is inductive as it stands, most of the types included (not `TypeOK` and `RTypeOK`): each module has one inductive invariant, a
conjunction of named parts, that TLC checked on instances before it was proved.

| module | inductive invariant | proves | TLC checked the invariant with |
| --- | --- | --- | --- |
| `QuestUpdateProofs` | `TypeOK` | `TypeCorrect` | the runs of the update |
| | `GInv` | `IngressStaysClosed`, `QuarantineIsKept`, `UnmutatedStaysPrior` | 1 unit of progress, 1 kill, 2 reboots, 1 error |
| | `SInv` | `WayBackStays`, `TerminalStaysProven`, `GateOpensLast`, `ImplementsSwitch` | 2 units of progress, 2 kills, 2 errors, no reboot |
| `HostControlProofs` | `HInv`, with `HSafe` on top | `HostTypes`, `ProgressKept`, `MarkersProven`, `QuestUpdateAlone`, `BackupsFresh`, `MarkedRuns`, `QuestsAreProtected` | the run's constants |
| `SnapshotStoreProofs` | `LockInv` | `LockExcludes` | the run of `SnapshotStore` |
| | `StoreInv` | `SnapshotsLock`, `SnapshotsExclude`, `SnapshotTypes`, `ArchivesStayDurable`, `DataStaysWhole` | the run's constants |
| `BuildPromotionProofs` | `PInv` | `PromotionTypes`, `NoEditIsHidden`, `PromotionIsAllOrNothing`, `TornStaysVisible`, `InterruptedStaysVisible` | the run's constants; 3 edits, 2 errors, 2 corrections; 3 targets |
| `ServerTestProofs` | `TestInv`, with `RefusalInv` on top | `TestInvariant`, `OkIsThisRunHolds`, `EvidenceIsOwnHolds`, `RefusalIsEarnedHolds` | the run's constants with 1 oddity; 2 oddities without the last two parts |
| `ReleasePromotionProofs` | `ReleaseInv` | `ReleaseInvariant`, `AcceptedIsPackHolds`, `PushesAreEarnedHolds`, `PublicIsAcceptedHolds` | the run's constants; 4 oddities without a state violating it until the search was stopped |
| `QuestMigrationProofs` | `MigrationInv` | `MigrationInvariant`, `ContentKeptHolds`, `ReturnsMigratedHolds` | the run's constants; 1 file with 2 faults and 4 changes |
| `BuildRetentionProofs` | `IInv` | `Bounded`, `StaysDeletable`, `RetentionTypes` | the run's constants |

Each proof has one lemma per action or group of actions, one step per action in
it, and under it one step per part of the invariant the action can disturb.

**`QuestUpdateProofs`.** There is one step per part of the type (`AuthorityOK`,
`DataOK`, `HostOK`, `ProcOK`, `PlayerOK`, `FaultsOK`); updates of records are
lemmas (`WorldUpdates`, `ArchiveOf`, `FlagsUpdates`), so that the record sets
stay closed in the leaves. The assumptions are `ReleasesDiffer` and
`BoundsAreNatural`.

`GInv` is what holds through any number of kills, errors and
host crashes. A guard of the code tests the record and hardly ever the host; the
invariant says what the record implies: where each script can be (`Placed`) and
what is recorded when it is there (`Recorded`); that nothing runs before Docker
does (`Booting`); that the rule is in place from a mutation to the last phases
of the cleanup, except before the first gate of a boot (`Guarded`); what a
quarantine has reconciled unless it noted a failure (`Reconciled`), from which
`QuarantineHolds` follows when it records its end; and what a running or
resuming container serves (`Settled`, `Started`), without which the prior
release of an unmutated record (`Unmutated`) could be overwritten by an
installation that was begun earlier.

The last part is what holds while the host does not crash: its
theorems have the hypothesis `MaxReboots = 0`, for with a crash the boot gate may
turn a terminal record into a quarantine and all four are false (section 5); the
runs of the same properties have no reboot either. `SInv` adds to `GInv` that
DATA_DIR is missing between two renames only (`Present`), that nobody plays from
the stop to the decision (`Drained`), where the progress is (`Kept`), that HEAD
agrees (`CheckedOut`), what a script has verified when it decides (`Verified`)
and how far the cleanup is (`Decided`, `Cleaned`). `ImplementsSwitch` is the
refinement of `ReleaseSwitch`: the initial states map to initial states and every
step to one of its actions or a stutter. `Begin` is the record, `Enter` the
phase that says that the data is about to be mutated, `Commit` the terminal
record of a verified candidate and `Abort` that of the prior release; the
players' `Play` is never a step of the closed phase because of `Drained`.

**`HostControlProofs`.** `HInv` is needed for the types already: the marker a
command writes is typed only because `call.sha` was resolved earlier, and a
container writes to DATA_DIR only because there is one. Its parts are `Exclusive`
(the lock and the authority keep commands and the quest update apart, and an
unresolved one has stopped the containers), `Served` (what a running container
implies), `Underway` (what each step of a command may rely on), `Proven`
(`MarkerIsProven` extended to the staging directory and the archives, from which
a rollback takes its tree) and `EarnedIsKept`. `HSafe` adds what a
command has chosen and saved: a marked tree holds the quests of its marker
(`Sounding`), the revision a command starts has those of the marker (`Chosen`, hence
`QuestsProtected`), outside a start a container runs the marked revision
(`Agreed`; `RunsWhatIsMarked` is claimed after at most one failing step and no
kill), and every archive made since a backup began holds what the players had
then (`Backing`, hence `BackupIsFresh`). The assumptions are `NoReleaseIsNone`,
`NoTreeIsNone` (the values that mean "nothing" are none of the things) and
`LimitsAreNatural`.

**`SnapshotStoreProofs`.** `LockExcludes`: for any set of
invocations, kills and deadlines no two of them work at a time. A process that
lives holds the descriptor (`Inherited`) and at most one invocation holds it
(`OneHolder`); `Exclusive` alone is not inductive, for an orphaned helper works
without a runner. `SnapshotsLock` is the second refinement: every step of the
store is a step of `LockRun` or leaves its variables alone, so that the exclusion
holds there too and is not proved twice. `StoreInv` then says, for the commands
that the record permits (`Permitted`) and that no script overtakes (`Attended`),
what the steps done so far have put on the disk. A power loss may take the disk
back to any state since the last sync, so `Archiving` and `Activating` are about
every state of the two journals and not about the current one: this is what
makes the order of fsync and rename part of the proof. `ActorsAreScripts` says
that the update and the retention are among the invocations that share the lock.

**`BuildPromotionProofs`.** `PInv` has one row per target. The phase of its
record says what its names hold (`Unrenamed`, `Interrupted`, `Renamed`, `Back`,
`Reported`), and the target a step is about has a row for that step (`Stepped`),
since a reversal goes through states that no phase describes. `Located` follows
the editor's last contents from the public name to the private one and back; `Watched`
says that what the cleanup takes for its own cannot be an edit; `Anchored`, that
something stands next to a renamed target until the store has it, which is what
makes a torn promotion visible. `Ahead` says how far each pass over the targets
is, `Clearing` what the cleanup has moved. A step disturbs one row; the frame
lemmas (`KeepsShape` to `KeepsPassed`, `Bystander`) carry the others, whatever
their number. `EditsAreNew` says that an editor's contents are not the build's
own: the code compares inode and times too, so an editor's file is told apart
even when its bytes are equal.

**`BuildRetentionProofs`.** `kept` alone does not say how many artifacts will
still move to the store. The invariant adds, per step, where they are and how
much room they leave: `Settled` between builds, `Authoring` while a file
replaces the one it claimed, and `Promoting` for the rename and the cleanup,
where `kept` and the build's own artifacts together stay within the bound, and
one below it if the target exists. `Bounded` and `StaysDeletable` have the
hypothesis that no write fails (section 5), `RetentionTypes` has none.

**`QuestMigrationProofs`.** Nothing locks the transaction directory, so
`MigrationInv` says hardly anything of it: what programs see of it, and every
state a power loss may leave, is a transaction whose plan changes ids and nothing
else (`Entries`, `Migrates`), whoever put it there. The rest is about each root.
A state of its journal has a file under one name, the second being that of a
chapter and safe (`Named`), with the version it should have (`Faithful`). From the preflight
to the last move each file is as the process's own copy of the journal names it, or missing
(`ForeseenOK`): what is written in its place therefore has the version of what
was there. From the proof to the return the corpus stays migrated (`EndingOK`).
`QuietStep`, `FileStep` and `IdleRootKeeps` say what a step may disturb; each
action is one of the three. `MigrationBounds` is the only assumption. For
any bounds two things hold that the run is too small to show: a missing file can be
written by the orphaned transaction of another checkout (section 5; it takes two
faults and four changes), and the case of `Move` in which a source stands beside
its target does not occur, because the rename is atomic.

**`ServerTestProofs`.** Nothing that a run has checked stays true by itself:
the directory is shared. `TestInv` says of each run, while no other is alive in
its checkout (`Apart` makes that last, for whoever joins is noted with both),
what it finds there at each of its labels (`Sight`), what the oracle has compared
so far (`Reviewing`) and how many edits it takes to be there with another version
than the one it began with (`Toll`); in any company it says who started what
(`Started`) and that three scripts with the nonce of a run have been read by its
server if that started after they were there (`Announced`), for no other run
can write that nonce, nor a status of zero (`ZeroPassed`). Every step of a run
leaves the variables of the others alone (`Others`) and, in a checkout that is
theirs, too, writes nothing about them (`DirStep`), so that the proof has one
lemma per step for the run that takes it and one for all the others
(`OthersKept`). `RefusalInv` adds what an undisturbed run of an acceptable
version can count on (`Untroubled`): nobody else is alive, the manifest is the
one it read, its own serve has the port, its server has not failed, and the log
is what that server wrote (`Logged`). Each check is then shown to pass.

**`ReleasePromotionProofs`.** `ModrinthInstalls`, `CurseForgeInstalls` and
`PrismIsSound` are about the inspections alone: for any pack that meets
`ReleaseArtifactsParameters`, any flaw of the commit and any defect of a build,
an archive that passes gives a client the pack of the commit and nothing else.
They use that no mod with a CurseForge project is for the server only
(`ServerOnlyIsDirect`), without which the check of the Modrinth archive would let
a client install one; of the thirteen server-only mods of this pack none is
CurseForge's, and no inspection tests it. `Noted` carries that to the files whose digest was
printed: whoever replaces files later does not change the digest. `RunsArePushed`
(no CI run without its commit on the branch) and `Promoting` say what
promote-release.sh has earned at each label; a push forward keeps a pass
because the histories are an order (`AncestryIsOrder`, `DevPushed`,
`MainPushed`). `PublicationInv` follows publish-release.sh: before the upload the
files are intact or were replaced since the first verification; a second one
that finds them intact again proves the upload, unless they were replaced and
put back (`Faithful`), hence the bounds on `swaps` in `PublicIsAccepted`; and the
assets of a release have one owner per name (`Shaped`), without which a download
by name would show nothing. The assumption `NoneIsNothing` says that the value
for "no tag" and "no output" is neither.

Only model-checked are:

- the liveness properties, which need fairness and ENABLED, beyond the prover;
- `SealScan`, which compares its walk with recursive reference definitions, and
  modules with a recursive operator are out of the prover's reach;
- `BootLog`: its properties compare whole logs as sequences and multisets with
  the reviewed ones, by `SelectSeq` and `FlattenSeq`, which takes induction over
  data.

## 5. Findings and dead ends

One statement of the documentation the code does not keep has a run of its own:

- `RetentionBounded`: a build claims a retained file before the one that
  replaces it is written, and keeps both when the write fails. Two such
  failures put the store over its bound, and no later build of that target
  is accepted.

Others are excluded by name in a property or stand as a hazard with a note, so
that a reader finds where the code and its documents part:

- the boot gate overwrites a terminal record with a quarantine: what was earned
  since the gate opened is lost when the archive is restored (`WayBack` and
  `TerminalIsProven` are claimed without reboots);
- a kill between the two renames of the rescue is not resumed, because the
  recovery first demands the directory that is missing (`BetweenRenames`);
- a restored tree that was started once is refused for good (`RestoredAndUsed`);
- the recovery ignores an authenticated archive when data_mutated is false,
  though the rollback may have replaced the data (`NotTheOriginal`);
- the daily restart stops the server before `start` tests that HEAD equals the
  marker: after a `git pull` the server stays down, and later restarts take it
  for stopped on purpose. The refused `start` advises "run update instead of
  start" (`server/afterlight-server.sh:678`), but an update begins with a backup,
  which needs a running server;
- a healthy boot is refused in the three cases of `Disturbed`, and has to be
  repeated;
- a promotion that is killed between making the tag and pushing it cannot be
  repeated, nor one whose branches moved (`DeadEnd` of `ReleasePromotion`);
- `docs/RELEASING.md:82` gives a commit up when CI, the Pages parity or the
  publication fails once, while the scripts can be repeated for it, and another
  attempt of its CI run passes `wait_for_exact_ci`
  (`tools/promote-release.sh:118`). `ReleaseConverges` follows the document for
  CI and departs from it, by assumption, for the other two (section 3);
- work in the checkout during a promotion can make it push another commit than
  the one it checked (`raced`), for HEAD is checked and pushed in two commands;
- accepted files that are replaced and put back between two checks of the
  publication (`swaps` in `PublicIsAccepted`);
- a migration waits for good on a transaction of a checkout nobody builds any
  more, on one whose two copies are damaged, or on files edited since
  (`DeadEnd` of `QuestMigration`): the code refuses, and a person must decide;
- a file that is missing from a checkout is written by whatever transaction is
  applied to it, the orphaned one of another checkout with another version of the
  file included, for the preflight accepts a target that is not there
  (`tools/afterlight_quests/builder.py:2354`; `lost` in `ContentKept`).

## 6. Not modelled, and the plan

Partly modelled: a malformed authority and the second record of a failing
directory fsync; the parsing of player files by the progress guard; the created
directories, the candidate workspace and the process lock of the quest build;
the search for credentials, the normalisation of archives and the comparison of
saved quests; the check of a live client instance, which reads and reports.

Next, in this order:

1. `HostControl`'s transaction step shown to be what `QuestUpdate` does, and
   `QuestUpdate`'s four archive steps what `SnapshotStore` does.
2. `BuildPromotion` shown to implement an abstract all-or-nothing write.
3. Algorithms as operators against a reference definition: the quest dependency
   graph of `tools/afterlight_quests/builder.py` and the comparison of
   `server/afterlight-progress-guard.py`.

The other generators and validators and the game content are functions from data
to data and stay out.
