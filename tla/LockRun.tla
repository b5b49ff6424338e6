------------------------------ MODULE LockRun ------------------------------
(***************************************************************************)
(* The shared lock and the processes that hold it: lock-run takes          *)
(* maintenance.lock and runs a script under it, the script runs its        *)
(* helpers one at a time through run-command (server/afterlight-safety.py, *)
(* server/afterlight-safety-contract.sh).                                  *)
(*                                                                         *)
(* flock belongs to the open file description, so the lock is free only    *)
(* once every process that inherited the descriptor has ended. Both        *)
(* runners give their child a session of its own: a signal to the script's *)
(* group reaches the script and its run-command, never the helper.         *)
(*                                                                         *)
(* An actor is one invocation; its helper is an orphan when run-command is *)
(* gone. A SIGKILL aimed at a run-command alone is not modelled.           *)
(***************************************************************************)
EXTENDS Naturals

CONSTANTS Actors

VARIABLES
  runner,   \* lock-run: "gone", "waiting" for the script, or in its "grace"
  script,   \* "gone", "verifying" the lock, "running", "stopping" in its exit trap
  sup,      \* run-command: "gone", "waiting" for the helper, or in its "grace"
  helper,   \* the command that does the work: "gone" or "running"
  fd        \* the processes of the invocation that hold the descriptor

lockVars == <<runner, script, sup, helper, fd>>

Processes == {"runner", "script", "sup", "helper"}

LockTypeOK ==
  /\ runner \in [Actors -> {"gone", "waiting", "grace"}]
  /\ script \in [Actors -> {"gone", "verifying", "running", "stopping"}]
  /\ sup    \in [Actors -> {"gone", "waiting", "grace"}]
  /\ helper \in [Actors -> {"gone", "running"}]
  /\ fd     \in [Actors -> SUBSET Processes]

LockInit ==
  /\ runner = [a \in Actors |-> "gone"] /\ script = [a \in Actors |-> "gone"]
  /\ sup = [a \in Actors |-> "gone"]    /\ helper = [a \in Actors |-> "gone"]
  /\ fd = [a \in Actors |-> {}]

LockFree == \A a \in Actors : fd[a] = {}

\* Something of the invocation is at work, or may start to be.
Working(a) == script[a] # "gone" \/ helper[a] # "gone"
Over(a) == runner[a] = "gone" /\ sup[a] = "gone" /\ ~Working(a)

-----------------------------------------------------------------------------
(* The script under its lock. *)

\* flock(LOCK_EX | LOCK_NB) on a new description, then Popen with pass_fds.
AcquireLock(a) ==
  /\ Over(a) /\ LockFree
  /\ runner' = [runner EXCEPT ![a] = "waiting"]
  /\ script' = [script EXCEPT ![a] = "verifying"]
  /\ fd' = [fd EXCEPT ![a] = {"runner", "script"}]
  /\ UNCHANGED <<sup, helper>>

\* The re-executed script finds AFTERLIGHT_LOCK_FD and takes the lock again
\* on that descriptor, which succeeds on the description that holds it.
VerifyLock(a) ==
  /\ script[a] = "verifying" /\ "script" \in fd[a]
  /\ script' = [script EXCEPT ![a] = "running"]
  /\ UNCHANGED <<runner, sup, helper, fd>>

StartHelperClosed(a) ==   \* mutant: without pass_fds
  /\ script[a] \in {"running", "stopping"} /\ sup[a] = "gone" /\ helper[a] = "gone"
  /\ sup' = [sup EXCEPT ![a] = "waiting"]
  /\ helper' = [helper EXCEPT ![a] = "running"]
  /\ fd' = [fd EXCEPT ![a] = @ \union {"sup"}]
  /\ UNCHANGED <<runner, script>>

\* run-command passes the inherited descriptor on to the helper.
StartHelper(a) ==
  /\ script[a] \in {"running", "stopping"} /\ sup[a] = "gone" /\ helper[a] = "gone"
  /\ sup' = [sup EXCEPT ![a] = "waiting"]
  /\ helper' = [helper EXCEPT ![a] = "running"]
  /\ fd' = [fd EXCEPT ![a] = @ \union {"sup", "helper"}]
  /\ UNCHANGED <<runner, script>>

HelperEnds(a) ==
  /\ helper[a] = "running"
  /\ helper' = [helper EXCEPT ![a] = "gone"]
  /\ fd' = [fd EXCEPT ![a] = @ \ {"helper"}]
  /\ UNCHANGED <<runner, script, sup>>

\* run-command has reaped its child and closes.
SupReturns(a) ==
  /\ sup[a] # "gone" /\ helper[a] = "gone"
  /\ sup' = [sup EXCEPT ![a] = "gone"]
  /\ fd' = [fd EXCEPT ![a] = @ \ {"sup"}]
  /\ UNCHANGED <<runner, script, helper>>

ScriptEnds(a) ==
  /\ script[a] # "gone" /\ sup[a] = "gone"
  /\ script' = [script EXCEPT ![a] = "gone"]
  /\ fd' = [fd EXCEPT ![a] = @ \ {"script"}]
  /\ UNCHANGED <<runner, sup, helper>>

RunnerReturns(a) ==
  /\ runner[a] # "gone" /\ script[a] = "gone"
  /\ runner' = [runner EXCEPT ![a] = "gone"]
  /\ fd' = [fd EXCEPT ![a] = @ \ {"runner"}]
  /\ UNCHANGED <<script, sup, helper>>

-----------------------------------------------------------------------------
(* Deadlines and signals. *)

\* The helper's deadline: SIGTERM to its group, then SIGKILL after the grace.
SupTimeout(a) ==
  /\ sup[a] = "waiting" /\ helper[a] = "running"
  /\ sup' = [sup EXCEPT ![a] = "grace"]
  /\ UNCHANGED <<runner, script, helper, fd>>

SupKills(a) ==
  /\ sup[a] = "grace" /\ helper[a] = "running"
  /\ helper' = [helper EXCEPT ![a] = "gone"]
  /\ fd' = [fd EXCEPT ![a] = @ \ {"helper"}]
  /\ UNCHANGED <<runner, script, sup>>

\* The script's deadline, or a signal to lock-run: SIGTERM to the script's
\* group. Its run-command forwards it and begins its own grace; bash runs the
\* exit trap once its foreground command is over.
RunnerStops(a) ==
  /\ runner[a] = "waiting" /\ script[a] # "gone"
  /\ runner' = [runner EXCEPT ![a] = "grace"]
  /\ script' = [script EXCEPT ![a] = "stopping"]
  /\ sup' = [sup EXCEPT ![a] = IF @ = "waiting" THEN "grace" ELSE @]
  /\ UNCHANGED <<helper, fd>>

\* SIGKILL to the script's group; the helper's session is another one.
RunnerKills(a) ==
  /\ runner[a] = "grace" /\ script[a] # "gone"
  /\ script' = [script EXCEPT ![a] = "gone"]
  /\ sup' = [sup EXCEPT ![a] = "gone"]
  /\ fd' = [fd EXCEPT ![a] = @ \ {"script", "sup"}]
  /\ UNCHANGED <<runner, helper>>

-----------------------------------------------------------------------------
(* Faults: one process is killed with SIGKILL, its children live on. *)

RunnerDies(a) ==
  /\ runner[a] # "gone"
  /\ runner' = [runner EXCEPT ![a] = "gone"]
  /\ fd' = [fd EXCEPT ![a] = @ \ {"runner"}]
  /\ UNCHANGED <<script, sup, helper>>

ScriptDies(a) ==
  /\ script[a] # "gone"
  /\ script' = [script EXCEPT ![a] = "gone"]
  /\ fd' = [fd EXCEPT ![a] = @ \ {"script"}]
  /\ UNCHANGED <<runner, sup, helper>>

\* A power loss ends every process.
AllGone ==
  /\ runner' = [a \in Actors |-> "gone"] /\ script' = [a \in Actors |-> "gone"]
  /\ sup' = [a \in Actors |-> "gone"]    /\ helper' = [a \in Actors |-> "gone"]
  /\ fd' = [a \in Actors |-> {}]

-----------------------------------------------------------------------------
Process(a) == \/ AcquireLock(a) \/ VerifyLock(a) \/ StartHelper(a) \/ HelperEnds(a)
              \/ SupReturns(a) \/ ScriptEnds(a) \/ RunnerReturns(a)
Deadline(a) == SupTimeout(a) \/ SupKills(a) \/ RunnerStops(a) \/ RunnerKills(a)
Killed(a) == RunnerDies(a) \/ ScriptDies(a)

LockNext == \/ \E a \in Actors : Process(a) \/ Deadline(a) \/ Killed(a)
            \/ AllGone

LockSpec == LockInit /\ [][LockNext]_lockVars

\* Two invocations never work at a time, not even when the runner, the script
\* or run-command of one of them was killed and its helper works on: the
\* orphan holds the inherited descriptor.
Exclusive == \A a, b \in Actors : a # b => ~(Working(a) /\ Working(b))
=============================================================================
