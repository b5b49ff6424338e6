---------------------------- MODULE HostControl ----------------------------
(***************************************************************************)
(* The ordinary host control of server/: the operator commands start,      *)
(* stop, backup, update and rollback (afterlight-server.sh), and the idle  *)
(* and scheduled restarts (afterlight-maintenance.sh) that call them.      *)
(*                                                                         *)
(* One lock serialises them.  `call' is the command that holds it: the     *)
(* operator command, who called it, and its next step.  The containers,    *)
(* the players, the backup sidecar, Git, a kill of the script and a reboot *)
(* of the host interleave with its steps.                                  *)
(*                                                                         *)
(* The quest update is module QuestUpdate; here it is what the commands    *)
(* see of it: it takes the lock, keeps an authority record while it is     *)
(* unresolved, and leaves a world of the release it proved.                *)
(***************************************************************************)
EXTENDS Naturals, Sequences

CONSTANTS
  Releases,          \* the pack revisions
  NoRelease,         \* no revision: no marker, nothing installed, no container
  Corpus,            \* Corpus[r]: the quest corpus of revision r
  NoTree,            \* a directory that is not there, a file that is no archive
  MaxItems,          \* bound on what the players earn
  MaxArchives,       \* bound on the archives in BACKUP_DIR
  MaxCheckouts,      \* bound on the moves of HEAD
  MaxRollbacks,      \* bound on the rollbacks
  MaxFaults          \* bound on failing steps, crashing containers, killed
                     \* scripts, reboots and quest updates together

ASSUME NoReleaseIsNone == NoRelease \notin Releases
ASSUME CorpusOfReleases == DOMAIN Corpus = Releases
ASSUME LimitsAreNatural ==
  /\ MaxItems \in Nat /\ MaxArchives \in Nat
  /\ MaxCheckouts \in Nat /\ MaxRollbacks \in Nat /\ MaxFaults \in Nat

VARIABLES
  head,       \* HEAD of /opt/afterlight
  authority,  \* the quest update's durable record: "absent" or "active"
  data,       \* DATA_DIR, a tree or NoTree
  staging,    \* the tree a rollback extracted beside DATA_DIR
  rescues,    \* the DATA_DIR.rescue-* trees
  archives,   \* BACKUP_DIR in the order of the names, which is that of time
  minecraft,  \* "down", "starting", "running", "healthy"
  release,    \* the revision in the Minecraft container's PACKWIZ_URL
  sidecar,    \* "down" or "up": the backup container
  online,     \* somebody plays
  earned,     \* history: how many items the players have earned
  lock,       \* "free", "host" or "transaction"
  call,       \* the running command
  faults      \* how often what is bounded has happened

svcVars  == <<minecraft, release, sidecar>>
treeVars == <<data, staging, rescues>>
worldVars == <<treeVars, archives, earned>>
vars == <<head, authority, worldVars, svcVars, online, lock, call, faults>>

-----------------------------------------------------------------------------
Marks    == Releases \union {NoRelease}
Items    == 1 .. MaxItems
Parents  == {"operator", "idle", "scheduled"}
Commands == {"start", "stop", "backup", "update", "rollback"}

\* The directory of a world: the marker file, the revision packwiz last
\* installed, the revisions that became healthy on it, what its players have,
\* and whether it belongs to the data identity.
Tree == [world: BOOLEAN, marker: Marks, pack: Marks, proven: SUBSET Releases,
         items: SUBSET Items, owned: BOOLEAN]

Steps == {"idle", "maintain", "countdown", "revalidate", "check-start", "stop",
          "backup", "exec", "verify", "check-update", "extract", "swap-out",
          "swap-in", "up", "health", "mark", "up-backup", "backup-health"}

\* observed: the container the maintenance saw is still the same one, started
\* at the same time.  began: history, what the players had at the beginning.
Calls == [cmd: Commands, parent: Parents, pc: Steps, sha: Marks, before: Nat,
          archive: Nat, observed: BOOLEAN, began: SUBSET Items]

NoCall == [cmd |-> "stop", parent |-> "operator", pc |-> "idle",
           sha |-> NoRelease, before |-> 0, archive |-> 0,
           observed |-> FALSE, began |-> {}]

Faults == [checkouts: 0 .. MaxCheckouts, rollbacks: 0 .. MaxRollbacks,
           errors: 0 .. MaxFaults, kills: 0 .. MaxFaults, updates: 0 .. MaxFaults]

\* Nothing but a directory is taken for one.
ASSUME NoTreeIsNone == NoTree \notin Tree

WorldOK ==
  /\ data \in Tree \union {NoTree} /\ staging \in Tree \union {NoTree}
  /\ \A t \in rescues : t \in Tree
  /\ archives \in Seq(Tree \union {NoTree}) /\ Len(archives) <= MaxArchives
  /\ earned \in 0 .. MaxItems

ServiceOK ==
  /\ minecraft \in {"down", "starting", "running", "healthy"}
  /\ release \in Marks /\ sidecar \in {"down", "up"} /\ online \in BOOLEAN

ControlOK ==
  /\ head \in Releases /\ authority \in {"absent", "active"}
  /\ lock \in {"free", "host", "transaction"} /\ call \in Calls

HTypeOK == WorldOK /\ ServiceOK /\ ControlOK /\ faults \in Faults

Init ==
  /\ head \in Releases /\ authority = "absent"
  /\ data = [world |-> FALSE, marker |-> NoRelease, pack |-> NoRelease,
             proven |-> {}, items |-> {}, owned |-> TRUE]
  /\ staging = NoTree /\ rescues = {} /\ archives = <<>>
  /\ minecraft = "down" /\ release = NoRelease /\ sidecar = "down"
  /\ online = FALSE /\ earned = 0
  /\ lock = "free" /\ call = NoCall
  /\ faults = [checkouts |-> 0, rollbacks |-> 0, errors |-> 0, kills |-> 0, updates |-> 0]

-----------------------------------------------------------------------------
(* How a command moves, fails and ends. *)

Spent == faults.errors + faults.kills + faults.updates

Count(f) == /\ Spent < MaxFaults
            /\ faults' = [faults EXCEPT ![f] = @ + 1]

At(pc) == lock = "host" /\ call.pc = pc

Goto(pc) == call' = [call EXCEPT !.pc = pc] /\ UNCHANGED lock
Exit     == lock' = "free" /\ call' = NoCall

Unchanged == UNCHANGED <<head, authority, worldVars, svcVars, online>>

BeginCall(cmd, parent, pc) ==
  /\ lock' = "host"
  /\ call' = [NoCall EXCEPT !.cmd = cmd, !.parent = parent, !.pc = pc,
                            !.began = IF data = NoTree THEN {} ELSE data.items]

\* As a command that does not ask for the authority would.
TakeLockOnly(cmd, parent, pc) == lock = "free" /\ BeginCall(cmd, parent, pc)

\* The shared lock is taken without waiting, then the authority is checked.
TakeLock(cmd, parent, pc) ==
  lock = "free" /\ authority = "absent" /\ BeginCall(cmd, parent, pc)

\* restored_tree_is_valid, also the test of an archive after its extraction.
Recoverable(t) == t # NoTree /\ t.world /\ t.marker # NoRelease

\* run_doctor: the directories exist and belong to the data identity.
Doctor == data # NoTree /\ data.owned

StopServices ==
  /\ minecraft' = "down" /\ sidecar' = "down" /\ online' = FALSE
  /\ UNCHANGED release

-----------------------------------------------------------------------------
(* The operator commands. *)

OperatorBegin ==
  /\ \/ TakeLock("start", "operator", "check-start")
     \/ TakeLock("stop", "operator", "stop")
     \/ TakeLock("backup", "operator", "backup") /\ Len(archives) < MaxArchives
     \/ TakeLock("update", "operator", "check-update") /\ Len(archives) < MaxArchives
  /\ Unchanged /\ UNCHANGED faults

\* start accepts a new world, or one whose marker is the revision at HEAD.
StartRevision == data.world => data.marker = head

CheckStart ==
  /\ At("check-start")
  /\ IF Doctor /\ StartRevision
     THEN call' = [call EXCEPT !.pc = "up", !.sha = head] /\ UNCHANGED lock
     ELSE Exit
  /\ Unchanged /\ UNCHANGED faults

\* compose up leaves a container that already runs this revision alone, and
\* replaces any other.  After a stop, as in update and rollback, it starts one.
ComposeUp ==
  /\ At("up")
  /\ IF minecraft # "down" /\ release = call.sha
     THEN Goto("health") /\ UNCHANGED <<svcVars, online>>
     ELSE /\ minecraft' = "starting" /\ release' = call.sha
          /\ online' = FALSE /\ UNCHANGED <<sidecar, lock>>
          /\ call' = [call EXCEPT !.pc = "health", !.observed = FALSE]
  /\ UNCHANGED <<head, authority, worldVars, faults>>

\* As a wait for the container to run would.
WaitRunning ==
  /\ At("health") /\ minecraft \in {"running", "healthy"}
  /\ Goto(IF call.cmd = "rollback" THEN "up-backup" ELSE "mark")
  /\ Unchanged /\ UNCHANGED faults

WaitHealthy ==
  /\ At("health") /\ minecraft = "healthy"
  /\ Goto(IF call.cmd = "rollback" THEN "up-backup" ELSE "mark")
  /\ Unchanged /\ UNCHANGED faults

WriteMarker ==
  /\ At("mark")
  /\ data' = [data EXCEPT !.marker = call.sha]
  /\ Goto("up-backup")
  /\ UNCHANGED <<head, authority, staging, rescues, archives, earned, svcVars,
                 online, faults>>

\* The sidecar depends on a healthy Minecraft.
UpBackup ==
  /\ At("up-backup") /\ minecraft = "healthy"
  /\ sidecar' = "up" /\ Goto("backup-health")
  /\ UNCHANGED <<head, authority, worldVars, minecraft, release, online, faults>>

BackupHealthy ==
  /\ At("backup-health") /\ sidecar = "up" /\ minecraft = "healthy"
  /\ Exit /\ Unchanged /\ UNCHANGED faults

\* As a failure that just ends the command would.
StartFailsUnstopped ==
  /\ call.pc \in {"up", "health", "mark", "up-backup", "backup-health"}
  /\ lock = "host" /\ Count("errors") /\ Exit /\ Unchanged

\* After compose up every failure stops both services; that this fails too is a
\* second error.
StartFails ==
  /\ call.pc \in {"up", "health", "mark", "up-backup", "backup-health"}
  /\ lock = "host" /\ Exit
  /\ \/ Count("errors") /\ StopServices
     \/ /\ Spent + 2 <= MaxFaults
        /\ faults' = [faults EXCEPT !.errors = @ + 2]
        /\ UNCHANGED <<svcVars, online>>
  /\ UNCHANGED <<head, authority, worldVars>>

\* The step after the stop: of the update, of the rollback, of the restart.
AfterStop ==
  CASE call.cmd = "update"       -> Goto("up")
    [] call.cmd = "rollback"     -> Goto("swap-out")
    [] call.parent # "operator"  ->
         call' = [call EXCEPT !.cmd = "start", !.pc = "check-start"] /\ UNCHANGED lock
    [] OTHER                     -> Exit

Stop ==
  /\ At("stop") /\ StopServices /\ AfterStop
  /\ UNCHANGED <<head, authority, worldVars, faults>>

\* A failing stop ends the command; the update tries the stop once more.
StopFails ==
  /\ At("stop") /\ Count("errors") /\ Exit
  /\ \/ UNCHANGED <<svcVars, online>>
     \/ call.cmd = "update" /\ StopServices
  /\ UNCHANGED <<head, authority, worldVars>>

\* The inventory before the backup.
BackupBegin ==
  /\ At("backup")
  /\ IF Doctor
     THEN call' = [call EXCEPT !.pc = "exec", !.before = Len(archives)] /\ UNCHANGED lock
     ELSE Exit
  /\ Unchanged /\ UNCHANGED faults

\* The backup runs inside the sidecar and needs RCON of a healthy Minecraft.
CanBackUp == sidecar = "up" /\ minecraft = "healthy"

ExecBackup ==
  /\ At("exec")
  /\ IF CanBackUp
     THEN archives' = Append(archives, data) /\ Goto("verify")
     ELSE Exit /\ UNCHANGED archives
  /\ UNCHANGED <<head, authority, treeVars, earned, svcVars, online, faults>>

\* The command reports success for an archive that cannot be read back.
ExecBackupBroken ==
  /\ At("exec") /\ CanBackUp /\ Count("errors")
  /\ archives' = Append(archives, NoTree) /\ Goto("verify")
  /\ UNCHANGED <<head, authority, treeVars, earned, svcVars, online>>

\* As a choice of the last archive that can be recovered would.
Recovered == {i \in 1 .. Len(archives) : Recoverable(archives[i])}

\* The new archives that can be recovered; the last of them is taken.
Fresh == {i \in call.before + 1 .. Len(archives) : Recoverable(archives[i])}

AfterBackup(i) ==
  CASE call.cmd = "update"      -> call' = [call EXCEPT !.pc = "stop", !.archive = i]
                                   /\ UNCHANGED lock
    [] call.parent # "operator" -> call' = [call EXCEPT !.pc = "revalidate", !.archive = i]
                                   /\ UNCHANGED lock
    [] OTHER                    -> Exit

\* As a command that does not notice the missing archive would.
VerifyBackupUnguarded ==
  /\ At("verify")
  /\ \E i \in Fresh : (\A j \in Fresh : j <= i) /\ AfterBackup(i)
  /\ Unchanged /\ UNCHANGED faults

VerifyBackup ==
  /\ At("verify")
  /\ \/ Fresh = {} /\ Exit
     \/ \E i \in Fresh : (\A j \in Fresh : j <= i) /\ AfterBackup(i)
  /\ Unchanged /\ UNCHANGED faults

\* update compares the quest corpora of the marker and of HEAD, and keeps the
\* revision it compared.
AnyCorpus  == Corpus[data.marker] \in {Corpus[r] : r \in Releases}
SameCorpus == Corpus[data.marker] = Corpus[head]

CheckUpdate ==
  /\ At("check-update")
  /\ IF Doctor /\ data.marker # NoRelease /\ SameCorpus
     THEN call' = [call EXCEPT !.pc = "backup", !.sha = head] /\ UNCHANGED lock
     ELSE Exit
  /\ Unchanged /\ UNCHANGED faults

\* rollback ARCHIVE --confirm.
RollbackBegin ==
  /\ \E i \in 1 .. Len(archives) :
       /\ lock = "free" /\ authority = "absent" /\ lock' = "host"
       /\ call' = [NoCall EXCEPT !.cmd = "rollback", !.pc = "extract", !.archive = i]
  /\ faults.rollbacks < MaxRollbacks
  /\ faults' = [faults EXCEPT !.rollbacks = @ + 1]
  /\ Unchanged

\* The archive is extracted beside DATA_DIR, as root; a staging directory that
\* an earlier rollback left behind is never used again.
Extract ==
  /\ At("extract")
  /\ LET t == archives[call.archive]
     IN  IF Recoverable(t) /\ Doctor
         THEN /\ staging' = [t EXCEPT !.owned = FALSE]
              /\ call' = [call EXCEPT !.pc = "stop", !.sha = t.marker]
              /\ UNCHANGED lock
         ELSE Exit /\ UNCHANGED staging
  /\ UNCHANGED <<head, authority, data, rescues, archives, earned, svcVars,
                 online, faults>>

\* As a rollback that deletes the rejected tree would.
SwapOutDeleting ==
  /\ At("swap-out")
  /\ data' = NoTree /\ Goto("swap-in")
  /\ UNCHANGED <<head, authority, staging, rescues, archives, earned, svcVars,
                 online, faults>>

SwapOut ==
  /\ At("swap-out")
  /\ rescues' = rescues \union {data} /\ data' = NoTree
  /\ Goto("swap-in")
  /\ UNCHANGED <<head, authority, staging, archives, earned, svcVars, online, faults>>

SwapIn ==
  /\ At("swap-in")
  /\ data' = staging /\ staging' = NoTree
  /\ Goto("up")
  /\ UNCHANGED <<head, authority, rescues, archives, earned, svcVars, online, faults>>

\* A failing rename ends the script where it is.
SwapFails ==
  /\ call.pc \in {"swap-out", "swap-in"} /\ lock = "host" /\ Count("errors")
  /\ Exit /\ Unchanged

-----------------------------------------------------------------------------
(* The maintenance. *)

MaintenanceBegin ==
  /\ \E mode \in {"idle", "scheduled"} : TakeLock("backup", mode, "maintain")
  /\ Len(archives) < MaxArchives
  /\ Unchanged /\ UNCHANGED faults

\* A stopped server is left alone; so is, in idle mode, one that was started
\* less than 20 hours ago (which may always be so) or has players.
Maintain ==
  /\ At("maintain")
  /\ \/ /\ minecraft = "healthy" /\ (call.parent = "idle" => ~online)
        /\ call' = [call EXCEPT !.observed = TRUE,
                                !.pc = IF call.parent = "idle" THEN "backup"
                                                               ELSE "countdown"]
        /\ UNCHANGED lock
     \/ (minecraft # "healthy" \/ call.parent = "idle") /\ Exit
  /\ Unchanged /\ UNCHANGED faults

SameHealthyContainer == call.observed /\ minecraft = "healthy"

\* The three waits; each ends with the same test and changes nothing.
Countdown ==
  /\ At("countdown")
  /\ IF SameHealthyContainer THEN Goto("backup") ELSE Exit
  /\ Unchanged /\ UNCHANGED faults

Revalidate ==
  /\ At("revalidate")
  /\ IF SameHealthyContainer /\ (call.parent = "idle" => ~online)
     THEN call' = [call EXCEPT !.cmd = "stop", !.pc = "stop"] /\ UNCHANGED lock
     ELSE Exit
  /\ Unchanged /\ UNCHANGED faults

\* A warning that cannot be sent, or a player count that cannot be read.
RconFails ==
  /\ call.pc \in {"maintain", "countdown", "revalidate"} /\ lock = "host"
  /\ Count("errors") /\ Exit /\ Unchanged

-----------------------------------------------------------------------------
(* The containers, the players, Git, and what can go wrong. *)

\* packwiz installs the container's revision; the image gives /data to the
\* data identity; the game creates a missing world.
Install ==
  /\ minecraft = "starting" /\ data # NoTree
  /\ data' = [data EXCEPT !.world = TRUE, !.pack = release, !.owned = TRUE]
  /\ minecraft' = "running"
  /\ UNCHANGED <<head, authority, staging, rescues, archives, earned, release,
                 sidecar, online, lock, call, faults>>

BecomeHealthy ==
  /\ minecraft = "running"
  /\ minecraft' = "healthy"
  /\ data' = [data EXCEPT !.proven = @ \union {release}]
  /\ UNCHANGED <<head, authority, staging, rescues, archives, earned, release,
                 sidecar, online, lock, call, faults>>

\* The restart policy starts a crashed container again.
Crash ==
  /\ minecraft \in {"running", "healthy"} /\ Count("errors")
  /\ minecraft' = "starting" /\ online' = FALSE
  /\ call' = [call EXCEPT !.observed = FALSE]
  /\ UNCHANGED <<head, authority, worldVars, release, sidecar, lock>>

Join == /\ minecraft = "healthy" /\ ~online /\ online' = TRUE
        /\ UNCHANGED <<head, authority, worldVars, svcVars, lock, call, faults>>

Leave == /\ online /\ online' = FALSE
         /\ UNCHANGED <<head, authority, worldVars, svcVars, lock, call, faults>>

Earn ==
  /\ online /\ earned < MaxItems
  /\ earned' = earned + 1
  /\ data' = [data EXCEPT !.items = @ \union {earned + 1}]
  /\ UNCHANGED <<head, authority, staging, rescues, archives, svcVars, online,
                 lock, call, faults>>

\* The sidecar's own backup, every six hours and when it starts.
SidecarBackup ==
  /\ CanBackUp /\ Len(archives) + 1 < MaxArchives
  /\ archives' = Append(archives, data)
  /\ UNCHANGED <<head, authority, treeVars, earned, svcVars, online, lock, call, faults>>

\* git pull or git checkout: no command's lock is needed for it.
MoveHead ==
  /\ \E r \in Releases \ {head} : head' = r
  /\ faults.checkouts < MaxCheckouts
  /\ faults' = [faults EXCEPT !.checkouts = @ + 1]
  /\ UNCHANGED <<authority, worldVars, svcVars, online, lock, call>>

\* The script is killed, by a signal or by the bound of lock-run.
Kill ==
  /\ lock = "host" /\ Count("kills") /\ Exit /\ Unchanged

\* unless-stopped: the containers that ran are started again.
Reboot ==
  /\ Count("kills")
  /\ lock' = "free" /\ call' = NoCall
  /\ minecraft' = IF minecraft = "down" THEN "down" ELSE "starting"
  /\ online' = FALSE
  /\ UNCHANGED <<head, authority, worldVars, release, sidecar>>

-----------------------------------------------------------------------------
(* The quest update, as the commands see it. *)

TransactionBegin ==
  /\ lock = "free" /\ authority = "absent"
  /\ Doctor /\ Recoverable(data) /\ minecraft = "healthy" /\ ~online
  /\ Count("updates")
  /\ lock' = "transaction" /\ authority' = "active"
  /\ minecraft' = "down" /\ sidecar' = "down"
  /\ UNCHANGED <<head, worldVars, release, online, call>>

TransactionDies ==
  /\ lock = "transaction" /\ lock' = "free"
  /\ UNCHANGED <<head, authority, worldVars, svcVars, online, call, faults>>

\* It ends with the candidate or the prior release proven and started, and so
\* does the recovery of one that died; or with the server stopped on a world
\* that nothing had changed.
TransactionEnds ==
  /\ lock = "transaction" \/ (lock = "free" /\ authority = "active")
  /\ \/ \E r \in {data.marker, head} :
          /\ data' = [data EXCEPT !.marker = r, !.pack = r, !.proven = @ \union {r}]
          /\ release' = r /\ minecraft' = "healthy" /\ sidecar' = "up" /\ head' = r
     \/ head' = data.marker /\ UNCHANGED <<data, svcVars>>
  /\ authority' = "absent" /\ lock' = "free"
  /\ UNCHANGED <<staging, rescues, archives, earned, online, call, faults>>

-----------------------------------------------------------------------------
Command ==
  \/ CheckStart \/ ComposeUp \/ WaitHealthy \/ WriteMarker \/ UpBackup
  \/ BackupHealthy \/ Stop \/ BackupBegin \/ ExecBackup \/ VerifyBackup
  \/ CheckUpdate \/ Extract \/ SwapOut \/ SwapIn
  \/ Maintain \/ Countdown \/ Revalidate

CommandFails == StartFails \/ StopFails \/ ExecBackupBroken \/ SwapFails \/ RconFails

Environment ==
  \/ Crash \/ Join \/ Leave \/ Earn \/ SidecarBackup \/ MoveHead \/ Kill \/ Reboot
  \/ TransactionBegin \/ TransactionDies \/ TransactionEnds

Next == \/ OperatorBegin \/ RollbackBegin \/ MaintenanceBegin
        \/ Command \/ CommandFails \/ Install \/ BecomeHealthy \/ Environment

Spec == Init /\ [][Next]_vars

\* A started script takes its next step, a started container becomes healthy.
Fairness == WF_vars(Command) /\ WF_vars(Install) /\ WF_vars(BecomeHealthy)

FairSpec == Spec /\ Fairness

-----------------------------------------------------------------------------
(* Properties. *)

\* Nothing a player has earned is lost: it is in DATA_DIR or in a rescue
\* tree, whatever rollbacks, failures, kills and reboots there were.
EarnedIsKept ==
  \A i \in 1 .. earned :
    \/ data # NoTree /\ i \in data.items
    \/ \E t \in rescues : i \in t.items

\* The marker names a revision that has been healthy on this very world:
\* validate_start_revision lets start run no other one.
MarkerIsProven ==
  /\ data # NoTree => data.marker \in data.proven \union {NoRelease}
  /\ \A t \in rescues : t.marker \in t.proven \union {NoRelease}

\* From its stop on, an update or a restart relies on an archive that can be
\* recovered and holds all the players had when it began; the update's also
\* holds the release it replaces.
BackupIsFresh ==
  call.archive # 0 /\ call.cmd # "rollback" =>
    LET a == archives[call.archive]
    IN  /\ Recoverable(a) /\ call.began \subseteq a.items
        /\ call.cmd = "update" => data.marker \in {a.marker, call.sha}

\* After at most one failing step, and no kill, a server that is up runs the
\* revision its marker names once no command holds the lock.
RunsWhatIsMarked ==
  /\ lock = "free" /\ minecraft = "healthy"
  /\ faults.kills = 0 /\ faults.errors <= 1
  => data.pack = data.marker /\ release = data.marker

\* The quests of a marked world change by a quest update or by a rollback, which puts
\* another tree in the place of DATA_DIR, and never by an ordinary command or
\* by a restarting container.
QuestsProtected ==
  [][authority = "absent" /\ data # NoTree /\ data' # NoTree
       /\ data.marker # NoRelease
     => Corpus[data'.pack] = Corpus[data.pack]]_vars

\* While a quest update is unresolved, whether it runs or has died, nothing
\* else changes the world or starts the server.
UnresolvedIsAlone ==
  [][authority = "active" /\ authority' = "active"
     => UNCHANGED <<treeVars, archives>> /\ minecraft' = "down"]_vars

\* Every command ends and releases the lock the others need.
CommandsEnd == lock = "host" ~> lock = "free"

=============================================================================
