----------------------------- MODULE ServerTest -----------------------------
(***************************************************************************)
(* The headless server test (tools/server-test.sh) and the evidence it     *)
(* demands of its install (tools/rc_hygiene.py): a run serves the pack     *)
(* from its checkout, installs it into an emptied directory, compares the  *)
(* install with the checkout, renders its own nonce into three scripts,    *)
(* boots a server and then asks the oracle about what ran.                 *)
(*                                                                         *)
(* Runs share the two ports, the installer cache and, in one checkout, the *)
(* directory, and may be killed, leaving their processes behind. Somebody  *)
(* edits the pack. What the logs say beyond the nonces is BootLog's        *)
(* subject: here a log is complete or not.                                 *)
(***************************************************************************)
EXTENDS Integers, FiniteSets, Sequences, Functions

CONSTANTS
  Runs,       \* of the harness
  Checkouts,  \* of the repository, each with its own server-test directory
  Packs,      \* the versions that one of the checkouts may begin with
  Drafts,     \* those that an edit may bring
  None,
  MaxOddities, \* bound on edits, one of which may come before the runs, and faults
  MaxFaults    \* bound on faults

Parts == {"mods", "config", "code", "data"}

\* A version is known by how each part of it differs from the reviewed one.
Reviewed == [mods |-> "reviewed", config |-> "reviewed", code |-> "reviewed", data |-> "reviewed"]
Kinds == [mods   |-> {"reviewed", "unlocked", "other", "compat"},
          config |-> {"reviewed", "tuned", "jdt"},
          code   |-> {"reviewed", "other"},
          data   |-> {"reviewed", "retold", "seal"}]

\* The versions there can be.
Variants == UNION {Kinds[part] : part \in Parts}
Versions == {p \in [Parts -> Variants] : \A part \in Parts : p[part] \in Kinds[part]}

Canonical == "canonical"   \* a script that still holds the placeholder

\* What finish leaves of the exit of a server, and what the server's log shows.
Statuses == [by: Runs, zero: BOOLEAN]
Logs     == [by: Runs, nonces: SUBSET (Runs \cup {Canonical, None}), whole: BOOLEAN]

ASSUME ServerTestBounds ==
  /\ IsFiniteSet(Runs) /\ IsFiniteSet(Checkouts)
  /\ Packs \cup Drafts \subseteq Versions /\ Reviewed \in Packs
  /\ Runs \cap {None, Canonical} = {} /\ None # Canonical
  /\ \A part \in Parts : None \notin Kinds[part]
  /\ None \notin Versions \cup Statuses \cup Logs \cup {"ok", "failed"}
  /\ MaxOddities \in Nat /\ MaxFaults \in Nat

VARIABLES
  root,     \* root[c]: the files of checkout c and the version its index names
  dir,      \* dir[c]: the server-test directory of c
  cache,    \* of the two installers: absent, good or bad
  serve,    \* serve[r]: the packwiz serve of r, up when it holds the port
  server,   \* server[r]: the game server of r
  ran,      \* ran[r]: what that server loaded
  pc, where, manifest, plan, todo, fresh, verdict,   \* of the harness
  evidence, \* evidence[r]: whose files r kept as its evidence
  disturbed,   \* history: what happened to r that could excuse a refusal
  edits, faults

harness == <<pc, where, manifest, plan, todo, fresh, verdict>>
vars == <<root, dir, cache, serve, server, ran, harness, evidence, disturbed, edits, faults>>

Absent == [part \in Parts |-> None]
Empty  == [installed |-> Absent, saved |-> FALSE, runtime |-> FALSE, packwiz |-> None,
           audits |-> [item |-> None, acquisition |-> None, gate |-> None],
           provenance |-> None, nonce |-> None, log |-> None, status |-> None, ready |-> None]

-----------------------------------------------------------------------------
(* The processes.                                                           *)

Active(r)   == pc[r] \notin {"idle", "dead", "done"}
Alive(r)    == Active(r) \/ serve[r] # "none" \/ server[r] \in {"starting", "loaded", "serving"}
Served(r)   == serve[r] = "up"
PortBusy    == \E r \in Runs : Served(r)
GameBusy    == \E r \in Runs : server[r] = "serving"
Here(r)     == dir[where[r]]
Root(r)     == root[where[r]].files

Goto(r, label) == pc' = [pc EXCEPT ![r] = label]
Refuse(r) == /\ Goto(r, "cleanup")
             /\ verdict' = [verdict EXCEPT ![r] = "failed"]
\* The check of step "label" passes, or the run is refused.
Check(r, label, passed, next) ==
  /\ pc[r] = label
  /\ IF passed THEN Goto(r, next) /\ UNCHANGED verdict ELSE Refuse(r)
\* What the directory of r becomes.
Write(r, d) == dir' = [dir EXCEPT ![where[r]] = d]
Put(r, field, value) == Write(r, [Here(r) EXCEPT ![field] = value])
Blame(r, what) == disturbed' = [disturbed EXCEPT ![r] = @ \cup {what}]
Fault == faults < MaxFaults /\ edits + faults < MaxOddities /\ faults' = faults + 1

settled == <<root, cache, edits, faults, disturbed, evidence>>
outside == <<settled, serve, server, ran>>
reading == <<outside, dir, where, manifest, plan, todo, fresh>>

-----------------------------------------------------------------------------
(* What the checkout and the install must be.                               *)

\* verify-manifest: every indexed file has the hash that the index gives.
ManifestValid(c) == root[c].files = root[c].index
\* assert_manifest_unchanged, which the model joins to the step before it.
Unchanged(r) == ManifestValid(where[r]) /\ root[where[r]].index = manifest[r]

\* The lock that build_server_mod_manifest_lock makes of the installed mods.
Locked(r) == Here(r).installed.mods = Root(r).mods /\ Root(r).mods # "unlocked"

\* The installer's record names the pack of the checkout, as it is now.
RecordMatches(r) == ManifestValid(where[r]) /\ Here(r).packwiz = Root(r)

\* Every installed file has the hash of its index entry, and there is no other.
FilesMatch(r) == Here(r).installed = Root(r) /\ ~Here(r).saved

\* The two quest audits still are what the checkout would generate.
AuditsCanonical(r) == Here(r).audits.item = Canonical /\ Here(r).audits.acquisition = Canonical

\* verify-provenance.
InstallProven(r) == RecordMatches(r) /\ FilesMatch(r) /\ AuditsCanonical(r)

\* The scripts are the reviewed corpus, and those with a nonce share one: the
\* acquisition audit, or item and Gate audit together.
CodeCorpus(r) ==
  LET audits == Here(r).audits IN
  /\ Root(r).code = "reviewed" /\ Here(r).installed.code = "reviewed"
  /\ None \notin Range(audits)
  /\ Cardinality(Range(audits) \ {Canonical}) <= 1
  /\ (audits.item = Canonical) = (audits.gate = Canonical)

\* Nothing mentions the Seal where the review did not see it.
SealOccurrences(r) ==
  LET unseen == {"seal", None}
  IN  Root(r).data \notin unseen /\ Here(r).installed.data \notin unseen /\ Here(r).installed.mods # None

SealSources(r) == CodeCorpus(r) /\ SealOccurrences(r)

\* The quests are the checkout's, in its own form or in the one FTB saves.
QuestIdentity(r) == Here(r).installed.data = Root(r).data

AuditsRendered(r) ==
  /\ Here(r).audits.item = r /\ Here(r).audits.acquisition = r
  /\ Here(r).provenance = r
GateRendered(r) == Here(r).audits.gate = r

\* The jars are hashed again after the boot, against what the checkout declares.
JarsMatch(r) == Here(r).installed.mods = Root(r).mods

\* Which mods have a mixin on the server that aims at a class of the client: what
\* the scan of a kind's jars, and of the jars inside them, finds.
ClientMixins == [unlocked |-> {"sable"}, compat |-> {"sable"}, other |-> {"sable", "another"},
                 reviewed |-> {"sable"}]
MixinsReviewed(r) == ClientMixins[Here(r).installed.mods] = ClientMixins["reviewed"]

\* The jars are, in number and in content, those of the review.
ArtifactsReviewed(r) == Here(r).installed.mods = "reviewed"

\* Mutant: the jars are those of the checkout, whatever these are.
SableSourceUnreviewed(r) == JarsMatch(r) /\ Here(r).runtime
SableSource(r) == JarsMatch(r) /\ ArtifactsReviewed(r) /\ Here(r).runtime /\ MixinsReviewed(r)

CompatSource(r) == JarsMatch(r) /\ Root(r).mods # "compat"
JdtEvidence(r)  == JarsMatch(r) /\ Here(r).runtime
                   /\ Root(r).config # "jdt" /\ Here(r).installed.config \notin {"jdt", None}

\* The logs carry the three nonces of this run, of a boot that ended well.
LogsProven(r) ==
  /\ Here(r).log # None
  /\ Here(r).log.nonces = {r} /\ Here(r).log.whole
  /\ Here(r).status = [by |-> r, zero |-> TRUE]

-----------------------------------------------------------------------------
(* A run, in order.                                                         *)

Init ==
  /\ root \in [Checkouts -> {[files |-> p, index |-> p] : p \in Packs}]
  /\ edits = Cardinality({c \in Checkouts : root[c].files # Reviewed}) /\ edits <= 1
  /\ dir = [c \in Checkouts |-> Empty]
  /\ cache \in {"absent", "good"}
  /\ serve = [r \in Runs |-> "none"]
  /\ server = [r \in Runs |-> "none"]
  /\ ran = [r \in Runs |-> None]
  /\ pc = [r \in Runs |-> "idle"]
  /\ where \in [Runs -> Checkouts]
  /\ manifest = [r \in Runs |-> None]
  /\ plan = [r \in Runs |-> None]
  /\ todo = [r \in Runs |-> <<>>]
  /\ fresh = [r \in Runs |-> FALSE]
  /\ verdict = [r \in Runs |-> None]
  /\ evidence = [r \in Runs |-> {}]
  /\ disturbed = [r \in Runs |-> {}]
  /\ faults = 0

\* What two runs that live at the same time are to each other.
Company(r, q) == IF where[r] = where[q] THEN "crowd" ELSE "neighbour"

Begin(r) ==
  /\ pc[r] = "idle"
  /\ disturbed' = [q \in Runs |-> disturbed[q] \cup
                     IF q = r THEN {Company(r, o) : o \in {o \in Runs \ {r} : Alive(o)}}
                     ELSE IF Active(q) THEN {Company(r, q)} ELSE {}]
  /\ IF ManifestValid(where[r])
     THEN /\ Goto(r, "port")
          /\ manifest' = [manifest EXCEPT ![r] = root[where[r]].index]
          /\ UNCHANGED verdict
     ELSE Refuse(r) /\ UNCHANGED manifest
  /\ UNCHANGED <<root, dir, cache, serve, server, ran, where, plan, todo, fresh, evidence, edits, faults>>

CheckPort(r) == Check(r, "port", ~PortBusy, "serve") /\ UNCHANGED reading

StartServe(r) ==
  /\ pc[r] = "serve"
  /\ Goto(r, "answer")
  /\ serve' = [serve EXCEPT ![r] = "starting"]
  /\ UNCHANGED <<settled, server, ran, dir, where, manifest, plan, todo, fresh, verdict>>

\* Whoever holds the port answers; our own process need only be alive.
AwaitAnswer(r) ==
  /\ PortBusy \/ serve[r] = "none"
  /\ Check(r, "answer", serve[r] # "none", "clear")
  /\ UNCHANGED reading

\* Mutant: only the files of the pack are removed.
ClearPackFiles(r) ==
  LET passed == serve[r] # "none" /\ Unchanged(r) IN
  /\ Check(r, "clear", passed, "installers")
  /\ IF passed
     THEN /\ Write(r, [Here(r) EXCEPT !.installed = Absent, !.audits = Empty.audits, !.nonce = r])
          /\ fresh' = [fresh EXCEPT ![r] = TRUE]
     ELSE UNCHANGED <<dir, fresh>>
  /\ UNCHANGED <<outside, where, manifest, plan, todo>>

\* The directory is emptied, but for the evidence, and gets the nonce.
ClearDirectory(r) ==
  LET passed == serve[r] # "none" /\ Unchanged(r) IN
  /\ Check(r, "clear", passed, "installers")
  /\ IF passed
     THEN /\ Write(r, [Empty EXCEPT !.nonce = r])
          /\ fresh' = [fresh EXCEPT ![r] = TRUE]
     ELSE UNCHANGED <<dir, fresh>>
  /\ UNCHANGED <<outside, where, manifest, plan, todo>>

\* An installer comes from the cache, once it has the pinned hash; a bad one is
\* removed and the run refused. NeoForge is installed at once.
Installers(r) ==
  /\ Check(r, "installers", cache # "bad" /\ Unchanged(r), "index")
  /\ cache' = IF cache = "bad" THEN "absent" ELSE "good"
  /\ IF cache = "bad"
     THEN UNCHANGED dir /\ Blame(r, "fault")
     ELSE Put(r, "runtime", TRUE) /\ UNCHANGED disturbed
  /\ UNCHANGED <<root, edits, faults, evidence, serve, server, ran, where, manifest, plan, todo, fresh>>

Holder == CHOOSE r \in Runs : Served(r)

IndexOrder == <<"config", "data", "code", "mods">>

\* The packwiz installer reads pack.toml and the index from the port ...
ReadIndex(r) ==
  /\ Check(r, "index", PortBusy, "install")
  /\ IF PortBusy
     THEN /\ plan' = [plan EXCEPT ![r] = root[where[Holder]].index]
          /\ todo' = [todo EXCEPT ![r] = IndexOrder]
     ELSE UNCHANGED <<plan, todo>>
  /\ UNCHANGED <<outside, dir, where, manifest, fresh>>

WithPart(d, part, kind) ==
  [d EXCEPT !.installed = [d.installed EXCEPT ![part] = kind],
            !.saved = d.saved /\ part # "data",
            !.audits = IF part = "code" THEN [a \in DOMAIN d.audits |-> Canonical] ELSE d.audits]

\* ... then the files, each of which must have the hash of its entry ...
InstallPart(r) ==
  LET part == Head(todo[r])
      passed == PortBusy /\ root[where[Holder]].files[part] = plan[r][part]
  IN
  /\ todo[r] # <<>>
  /\ Check(r, "install", passed, "install")
  /\ IF passed
     THEN /\ Write(r, WithPart(Here(r), part, plan[r][part]))
          /\ todo' = [todo EXCEPT ![r] = Tail(@)]
     ELSE UNCHANGED <<dir, todo>>
  /\ UNCHANGED <<outside, where, manifest, plan, fresh>>

\* ... and at the end writes packwiz.json.
InstallRecord(r) ==
  /\ todo[r] = <<>>
  /\ Check(r, "install", Unchanged(r), "provenance")
  /\ Put(r, "packwiz", plan[r])
  /\ UNCHANGED <<outside, where, manifest, plan, todo, fresh>>

VerifyProvenance(r) ==
  Check(r, "provenance", Locked(r) /\ InstallProven(r), "seal") /\ UNCHANGED reading
VerifySeal(r) == Check(r, "seal", SealSources(r), "item") /\ UNCHANGED reading

\* A file or a directory that changes while the scan for the Seal walks it.
WalkDisturbed(r) ==
  /\ pc[r] \in {"seal", "sources"}
  /\ \E q \in Runs \ {r} : where[q] = where[r] /\ Alive(q)
  /\ Refuse(r)
  /\ UNCHANGED reading

\* render-installed-quest-audits: both are canonical and there is no record yet.
RenderItem(r) ==
  LET passed == AuditsCanonical(r) /\ Here(r).provenance = None IN
  /\ Check(r, "item", passed, "acquisition")
  /\ IF passed THEN Put(r, "audits", [Here(r).audits EXCEPT !.item = r]) ELSE UNCHANGED dir
  /\ UNCHANGED <<outside, where, manifest, plan, todo, fresh>>

\* A file that a write replaces must be there.
RenderAcquisition(r) ==
  LET audits == Here(r).audits
      passed == audits.acquisition # None
  IN
  /\ Check(r, "acquisition", passed, "record")
  /\ Put(r, "audits", IF passed THEN [audits EXCEPT !.acquisition = r]
                      ELSE [audits EXCEPT !.item = IF audits.item = None THEN None ELSE Canonical])
  /\ UNCHANGED <<outside, where, manifest, plan, todo, fresh>>

\* Both audits that are still there become canonical again, and the record goes.
Unrendered(d) ==
  [d EXCEPT !.provenance = None,
            !.audits = [a \in DOMAIN d.audits |->
                          IF a = "gate" \/ d.audits[a] = None THEN d.audits[a] ELSE Canonical]]

\* The record is written and everything read back (verify-quest-audits reads it
\* again), or it is all undone.
RenderRecord(r) ==
  LET passed == Here(r).audits.item = r /\ Here(r).audits.acquisition = r IN
  /\ Check(r, "record", passed, "gate")
  /\ IF passed THEN Put(r, "provenance", r) ELSE Write(r, Unrendered(Here(r)))
  /\ UNCHANGED <<outside, where, manifest, plan, todo, fresh>>

\* A write fails: the audits that were written are written back.
RenderFails(r) ==
  /\ pc[r] \in {"acquisition", "record"}
  /\ Fault
  /\ Refuse(r)
  /\ Blame(r, "fault")
  /\ Write(r, Unrendered(Here(r)))
  /\ UNCHANGED <<root, cache, edits, evidence, serve, server, ran, where, manifest, plan, todo, fresh>>

RenderGate(r) ==
  LET passed == AuditsRendered(r) /\ Here(r).audits.gate = Canonical IN
  /\ Check(r, "gate", passed, "boot")
  /\ IF passed THEN Put(r, "audits", [Here(r).audits EXCEPT !.gate = r]) ELSE UNCHANGED dir
  /\ UNCHANGED <<outside, where, manifest, plan, todo, fresh>>

Boot(r) ==
  LET passed == GateRendered(r) IN
  /\ Check(r, "boot", passed, "running")
  /\ server' = IF passed THEN [server EXCEPT ![r] = "starting"] ELSE server
  /\ UNCHANGED <<settled, serve, ran, dir, where, manifest, plan, todo, fresh>>

AwaitServer(r) ==
  /\ server[r] \in {"passed", "failed"}
  /\ Check(r, "running", Unchanged(r), "sources")
  /\ Put(r, "status", [by |-> r, zero |-> server[r] = "passed"])
  /\ UNCHANGED <<outside, where, manifest, plan, todo, fresh>>

\* verify-boot, in the order in which it reads.
SourcesProven(r) == SealSources(r) /\ QuestIdentity(r) /\ GateRendered(r) /\ AuditsRendered(r)
VerifySources(r) == Check(r, "sources", SourcesProven(r), "logs") /\ UNCHANGED reading
VerifyLogs(r) ==
  Check(r, "logs", RecordMatches(r) /\ JdtEvidence(r) /\ LogsProven(r), "jars") /\ UNCHANGED reading
VerifyJars(r) ==
  Check(r, "jars", SableSource(r) /\ CompatSource(r), "live") /\ UNCHANGED reading

\* The Python tests look at the repository, and at this run's own marker; then
\* comes the last check of the manifest.
LiveTests(r) ==
  /\ pc[r] = "live"
  /\ Goto(r, "cleanup")
  /\ verdict' = [verdict EXCEPT ![r] = IF Unchanged(r) THEN "ok" ELSE "failed"]
  /\ Put(r, "ready", r)
  /\ UNCHANGED <<outside, where, manifest, plan, todo, fresh>>

\* finish: the server is stopped and waited for, the serve killed, ...
CleanUp(r) ==
  /\ pc[r] = "cleanup"
  /\ server[r] \notin {"starting", "loaded", "serving"}
  /\ Goto(r, "capture")
  /\ serve' = [serve EXCEPT ![r] = "none"]
  /\ UNCHANGED <<settled, server, ran, dir, where, manifest, plan, todo, fresh, verdict>>

\* The variables of a process end with it.
Forget(r) ==
  /\ plan' = [plan EXCEPT ![r] = None]
  /\ todo' = [todo EXCEPT ![r] = <<>>]
  /\ fresh' = [fresh EXCEPT ![r] = FALSE]

\* Mutant: the files are kept whoever wrote them.
CaptureAnything(r) ==
  LET d == Here(r)
      found == {d.nonce, d.provenance, d.ready}
                 \cup {x.by : x \in {d.log, d.status} \ {None}}
  IN
  /\ pc[r] = "capture"
  /\ Goto(r, "done")
  /\ evidence' = [evidence EXCEPT ![r] = found \ {None}]
  /\ Forget(r)
  /\ UNCHANGED <<root, dir, cache, serve, server, ran, where, manifest, verdict, disturbed, edits, faults>>

\* ... and the files kept, if this run has emptied the directory.
Capture(r) ==
  LET d == Here(r)
      found == {d.nonce, d.provenance, d.ready}
                 \cup {x.by : x \in {d.log, d.status} \ {None}}
  IN
  /\ pc[r] = "capture"
  /\ Goto(r, "done")
  /\ evidence' = [evidence EXCEPT ![r] = IF fresh[r] THEN found \ {None} ELSE {}]
  /\ Forget(r)
  /\ UNCHANGED <<root, dir, cache, serve, server, ran, where, manifest, verdict, disturbed, edits, faults>>

\* An interrupt, or a command that fails for reasons of its own: no answer within
\* 20 attempts, a download, a live test.
Interrupt(r) ==
  /\ Active(r) /\ pc[r] \notin {"cleanup", "capture"}
  /\ Fault
  /\ Refuse(r)
  /\ Blame(r, "fault")
  /\ UNCHANGED <<root, cache, edits, evidence, serve, server, ran, dir, where, manifest, plan, todo, fresh>>

\* The harness is killed: its serve and its server, in a session of its own, go on.
Kill(r) ==
  /\ Active(r)
  /\ Fault
  /\ Goto(r, "dead")
  /\ Forget(r)
  /\ UNCHANGED <<root, dir, cache, serve, server, ran, where, manifest, verdict, evidence, disturbed, edits>>

-----------------------------------------------------------------------------
(* The processes a run starts.                                              *)

processes == <<root, cache, harness, evidence, edits>>

\* The first to bind has the port; the other exits.
ServeBinds(r) ==
  /\ serve[r] = "starting"
  /\ serve' = [serve EXCEPT ![r] = IF PortBusy THEN "none" ELSE "up"]
  /\ UNCHANGED <<processes, dir, server, ran, disturbed, faults>>

\* Somebody kills the serve that a killed run has left.
KillServe(r) ==
  /\ pc[r] = "dead" /\ serve[r] # "none"
  /\ serve' = [serve EXCEPT ![r] = "none"]
  /\ UNCHANGED <<processes, dir, server, ran, disturbed, faults>>

\* The server reads its jars, its configuration and the scripts and opens its logs.
ServerLoads(r) ==
  LET whole == Here(r).runtime /\ None \notin Range(Here(r).installed) IN
  /\ server[r] = "starting"
  /\ server' = [server EXCEPT ![r] = IF whole THEN "loaded" ELSE "failed"]
  /\ IF whole
     THEN ran' = [ran EXCEPT ![r] = [pack |-> Here(r).installed, nonces |-> Range(Here(r).audits)]]
     ELSE UNCHANGED ran
  /\ Put(r, "log", [by |-> r, nonces |-> {}, whole |-> FALSE])
  /\ UNCHANGED <<processes, serve, disturbed, faults>>

\* A log that has been removed is written on, where nobody can read it.
Log(r, nonces, whole) ==
  IF Here(r).log # None /\ Here(r).log.by = r
  THEN [by |-> r, nonces |-> nonces, whole |-> whole] ELSE Here(r).log

\* It binds the game port, reads the quests and runs the audits.
ServerServes(r) ==
  /\ server[r] = "loaded"
  /\ IF GameBusy \/ Here(r).installed.data = None
     THEN /\ server' = [server EXCEPT ![r] = "failed"]
          /\ UNCHANGED <<dir, ran>>
     ELSE /\ server' = [server EXCEPT ![r] = "serving"]
          /\ ran' = [ran EXCEPT ![r] = [pack |-> [ran[r].pack EXCEPT !.data = Here(r).installed.data],
                                        nonces |-> ran[r].nonces]]
          /\ Put(r, "log", Log(r, ran[r].nonces, FALSE))
  /\ UNCHANGED <<processes, serve, disturbed, faults>>

\* "stop" was waiting on its input: FTB saves the quests, and it exits.
Stopped(r, outcome) ==
  /\ server' = [server EXCEPT ![r] = outcome]
  /\ Write(r, [Here(r) EXCEPT !.installed = [Here(r).installed EXCEPT !.data = ran[r].pack.data],
                              !.saved = TRUE,
                              !.log = Log(r, ran[r].nonces, outcome = "passed")])
ServerStops(r) ==
  /\ server[r] = "serving"
  /\ Stopped(r, "passed")
  /\ UNCHANGED <<processes, serve, ran, disturbed, faults>>

\* It runs into the timeout, or is stopped by the cleanup of its run.
ServerEnds(r) ==
  /\ server[r] \in {"starting", "loaded", "serving"}
  /\ IF pc[r] = "cleanup" THEN UNCHANGED <<disturbed, faults>> ELSE Fault /\ Blame(r, "fault")
  /\ IF server[r] = "serving"
     THEN Stopped(r, "failed")
     ELSE server' = [server EXCEPT ![r] = "failed"] /\ UNCHANGED dir
  /\ UNCHANGED <<processes, serve, ran>>

-----------------------------------------------------------------------------
(* The world around.                                                        *)

Touched(c) == disturbed' = [r \in Runs |-> disturbed[r] \cup
                              IF where[r] = c /\ Active(r) THEN {"edit"} ELSE {}]

\* Files change, and the index with them or only after a packwiz refresh.
Edit(c, p, refreshed) ==
  /\ edits + faults < MaxOddities /\ p # root[c].files
  /\ \E r \in Runs : where[r] = c /\ Active(r)
  /\ edits' = edits + 1
  /\ root' = [root EXCEPT ![c] = [files |-> p, index |-> IF refreshed THEN p ELSE @.index]]
  /\ Touched(c)
  /\ UNCHANGED <<dir, cache, serve, server, ran, harness, evidence, faults>>

\* A file of the cache was torn by a power failure.
CacheTorn ==
  /\ cache = "good" /\ Fault
  /\ cache' = "bad"
  /\ UNCHANGED <<root, dir, serve, server, ran, harness, evidence, disturbed, edits>>

Harness(r) ==
  \/ Begin(r) \/ CheckPort(r) \/ StartServe(r) \/ AwaitAnswer(r)
  \/ ClearDirectory(r) \/ Installers(r)
  \/ ReadIndex(r) \/ InstallPart(r) \/ InstallRecord(r)
  \/ VerifyProvenance(r) \/ VerifySeal(r) \/ WalkDisturbed(r)
  \/ RenderItem(r) \/ RenderAcquisition(r) \/ RenderRecord(r) \/ RenderFails(r)
  \/ RenderGate(r) \/ Boot(r) \/ AwaitServer(r)
  \/ VerifySources(r) \/ VerifyLogs(r) \/ VerifyJars(r)
  \/ LiveTests(r)
  \/ CleanUp(r) \/ Capture(r) \/ Interrupt(r) \/ Kill(r)
Process(r) ==
  \/ ServeBinds(r) \/ KillServe(r)
  \/ ServerLoads(r) \/ ServerServes(r) \/ ServerStops(r) \/ ServerEnds(r)

Next ==
  \/ \E r \in Runs : Harness(r) \/ Process(r)
  \/ \E c \in Checkouts, p \in Drafts, refreshed \in BOOLEAN : Edit(c, p, refreshed)
  \/ CacheTorn

Spec == Init /\ [][Next]_vars

-----------------------------------------------------------------------------

\* A run that reports OK has booted a reviewed version, in every part that is not
\* free to change, and the one its checkout held when it began, whatever was edited
\* and changed back (it takes four edits, each between two certain checks, to pass
\* another one off), whoever else ran, and whatever was left from before; and the
\* nonces its server announced are its own. In company in the same checkout the
\* files of another run may have been under the server, but never its nonces.
OkIsThisRun ==
  \A r \in Runs : verdict[r] = "ok" =>
    LET booted == ran[r].pack IN
    /\ ran[r].nonces = {r}
    /\ "crowd" \notin disturbed[r] =>
         /\ booted.mods = "reviewed" /\ booted.code = "reviewed" /\ booted.data # "seal"
         /\ booted = manifest[r] \/ edits > 3

Acceptable(p) == p.mods = "reviewed" /\ p.code = "reviewed" /\ p.data # "seal" /\ p.config # "jdt"

\* A run that nobody disturbs ends OK when its version is reviewed, whatever
\* killed runs before it have left in the directory, the cache and the evidence.
RefusalIsEarned ==
  \A r \in Runs : verdict[r] = "failed" =>
    \/ disturbed[r] # {}
    \/ manifest[r] = None
    \/ ~Acceptable(manifest[r])

\* The evidence of a run shows that run: of another's files it keeps none, unless
\* the two were at work in the same checkout.
EvidenceIsOwn ==
  \A r \in Runs : evidence[r] \subseteq {r} \/ "crowd" \in disturbed[r]

=============================================================================
