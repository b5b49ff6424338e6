-------------------------- MODULE ReleasePromotion --------------------------
(***************************************************************************)
(* How a commit becomes a public release: tools/release-gauntlet.sh        *)
(* accepts five files for it and prints the digest of their receipt,       *)
(* tools/promote-release.sh carries the commit to dev, main and a tag, and *)
(* tools/publish-release.sh makes the files a release on GitHub.           *)
(*                                                                         *)
(* The scripts change a checkout, the remote repository and its releases   *)
(* in steps any of which may fail, and they may be killed between two. The *)
(* operator commits and switches branches in the same checkout; others     *)
(* push, tag and edit releases; GitHub Actions and Pages work at their own *)
(* pace. There is one checkout and at most one run of each script.         *)
(***************************************************************************)
EXTENDS ReleaseArtifacts, Sequences, Functions

CONSTANTS
  None,
  TreeFlaws,    \* the flaws the candidate commit may have
  BuildDefects, \* BuildDefects[archive]: what may go wrong with its build
  Replacements, \* builds whose files somebody may put in the place of the accepted
  MaxReleases,  \* bound on releases of the tag
  MaxOddities,  \* bound on faults and on what somebody else does
  MaxFaults     \* bound on faults

\* The last release, the candidate, its documentation child and another child.
Commits  == {"base", "candidate", "evidence", "other"}

ASSUME ReleasePromotionBounds ==
  /\ TreeFlaws \subseteq Flaws
  /\ DOMAIN BuildDefects = Archives
  /\ \A archive \in Archives : BuildDefects[archive] \subseteq Defects(archive)
  /\ Replacements \subseteq Builds
  /\ MaxReleases \in Nat /\ MaxOddities \in Nat /\ MaxFaults \in Nat

\* A tag names its target and the receipt its message quotes, dist/gauntlet holds
\* five files and a receipt, and None stands for neither.
Tags == [target: Commits, receipt: {None} \cup FileSets]
Outputs == [files: FileSets, receipt: FileSets]
ASSUME NoneIsNothing == None \notin Tags \cup Outputs

Ancestry == [base |-> {"base"}, candidate |-> {"base", "candidate"},
             evidence |-> {"base", "candidate", "evidence"}, other |-> {"base", "candidate", "other"}]
PackOf   == [base |-> "last", candidate |-> "accepted", evidence |-> "accepted", other |-> "other"]
Forward(from, to) == from \in Ancestry[to]
SHA == "candidate"

Watched == {<<"dev", "candidate">>, <<"main", "candidate">>, <<"dev", "evidence">>}
Nominal == [archive \in Archives |-> Sound]

VARIABLES
  flaw,      \* of the candidate's tree
  gauntlet,  \* the run of release-gauntlet.sh: its step and its two builds
  accepted,  \* dist/gauntlet/SHA: the five files and the receipt
  captured,  \* the digest the operator noted when the gauntlet printed it
  local,     \* the checkout: its branch, its dev and main, its tag
  remote,    \* dev, main and the tag at GitHub
  ci,        \* ci[<<branch, commit>>]: the push run of pack-ci
  pages,     \* what Pages serves: behind its cache, and as pack.toml and index.toml
  releases,  \* the releases of the tag at GitHub, drafts included
  promote,   \* the run of promote-release.sh
  publish,   \* the run of publish-release.sh
  promoted,  \* promote-release.sh has printed its acceptance
  published, \* the release of which publish-release.sh has printed PUBLICATION: OK
  swaps,     \* history: changes of the accepted files while publish-release.sh ran
  retagged,  \* history: somebody else has changed the remote tag
  oddities, faults

vars == <<flaw, gauntlet, accepted, captured, local, remote, ci, pages, releases, promote, publish,
          promoted, published, swaps, retagged, oddities, faults>>

Candidate == Tree(flaw)   \* the tree of the candidate commit
HEAD == IF local.branch = "dev" THEN local.dev ELSE local.main
Tag(target, receipt) == [target |-> target, receipt |-> receipt]

NoPromotion == [pc |-> "idle", switched |-> FALSE, wants |-> None, got |-> None, raced |-> FALSE]
NoPublication == [pc |-> "idle", id |-> 0, sent |-> 0]

Init ==
  /\ flaw \in TreeFlaws
  /\ gauntlet = [pc |-> "idle", first |-> Nominal, second |-> Nominal]
  /\ accepted = None /\ captured = None
  /\ local = [branch |-> "dev", dev |-> SHA, main |-> "base", tag |-> None]
  /\ remote = [dev |-> "base", main |-> "base", tag |-> None]
  /\ ci = [run \in Watched |-> "none"]
  /\ pages = [origin |-> "last", pack |-> "last", index |-> "last"]
  /\ releases = <<>>
  /\ promote = NoPromotion /\ publish = NoPublication
  /\ promoted = FALSE /\ published = None
  /\ swaps = 0 /\ retagged = FALSE
  /\ oddities = 0 /\ faults = 0

Odd   == oddities < MaxOddities /\ oddities' = oddities + 1 /\ UNCHANGED faults
Fault == /\ faults < MaxFaults /\ oddities < MaxOddities
         /\ faults' = faults + 1 /\ oddities' = oddities + 1
Sane  == UNCHANGED <<oddities, faults>>

dist == <<flaw, gauntlet, accepted, captured>>
hub  == <<remote, ci, pages, releases>>

---------------------------------------------------------------------------
(* release-gauntlet.sh: in a detached worktree of the commit, whatever the  *)
(* checkout does meanwhile.                                                 *)

Build ==
  /\ gauntlet.pc = "idle" /\ accepted = None /\ HEAD = SHA
  /\ \/ gauntlet' = [pc |-> "built", first |-> Nominal, second |-> Nominal] /\ Sane
     \/ \E archive \in Archives : \E d \in BuildDefects[archive] \ {Sound} :
          LET bad == [Nominal EXCEPT ![archive] = d]
          IN /\ gauntlet' \in {[pc |-> "built", first |-> bad, second |-> bad],
                               [pc |-> "built", first |-> bad, second |-> Nominal],
                               [pc |-> "built", first |-> Nominal, second |-> bad]}
             /\ Fault
  /\ UNCHANGED <<flaw, accepted, captured, local, hub, promote, publish, promoted, published, swaps, retagged>>

Agreed == gauntlet.first = gauntlet.second

\* The client install serves the worktree and installs from it.
ClientInstalls == gauntlet.first["prism"] \in Passing[flaw]["prism"] /\ ExpectedPayload(Candidate)

\* The run may end between the move of its output and the printed digest.
Accept ==
  LET files == Files(gauntlet.first)
  IN /\ gauntlet.pc = "built"
     /\ gauntlet' = [gauntlet EXCEPT !.pc = "idle"]
     /\ IF Agreed /\ ClientInstalls /\ VerifyPublicRelease(files, flaw)
        THEN /\ accepted' = [files |-> files, receipt |-> Receipt(files)]
             /\ \/ captured' = Receipt(files) /\ Sane
                \/ captured' = None /\ Fault
        ELSE UNCHANGED <<accepted, captured>> /\ Sane
     /\ UNCHANGED <<flaw, local, hub, promote, publish, promoted, published, swaps, retagged>>

FilesProven ==
  /\ VerifyPublicRelease(accepted.files, flaw)
  /\ ReceiptBinds(accepted.receipt, captured, accepted.files)

---------------------------------------------------------------------------
(* GitHub, as the scripts use it.                                           *)

\* Only a push that moves the branch starts a run, and it cancels the one before.
RunsAfter(branch, commit) ==
  [run \in Watched |->
     IF run[1] # branch \/ remote[branch] = commit THEN ci[run]
     ELSE IF run[2] = commit THEN "running"
     ELSE IF ci[run] = "running" THEN "failed" ELSE ci[run]]

Pushed(branch, commit) ==
  /\ remote' = [remote EXCEPT ![branch] = commit]
  /\ ci' = RunsAfter(branch, commit)
  /\ UNCHANGED <<pages, releases>>

CiEnds(run) ==
  /\ ci[run] = "running"
  /\ \/ ci' = [ci EXCEPT ![run] = "passed"] /\ Sane
     \/ ci' = [ci EXCEPT ![run] = "failed"] /\ Fault
  /\ UNCHANGED <<dist, local, remote, pages, releases, promote, publish, promoted, published, swaps, retagged>>

Deploy ==
  /\ pages.origin # PackOf[remote.main]
  /\ pages' = [pages EXCEPT !.origin = PackOf[remote.main]]
  /\ UNCHANGED <<dist, local, remote, ci, releases, promote, publish, promoted, published, swaps, retagged>> /\ Sane

Expire(file) ==
  /\ pages[file] # pages.origin
  /\ pages' = [pages EXCEPT ![file] = pages.origin]
  /\ UNCHANGED <<dist, local, remote, ci, releases, promote, publish, promoted, published, swaps, retagged>> /\ Sane

---------------------------------------------------------------------------
(* promote-release.sh                                                       *)

Promotion(pc) == promote.pc = pc /\ UNCHANGED <<dist, publish, published, swaps, retagged>>

Reaches(pc) == promote' = [promote EXCEPT !.pc = pc] /\ UNCHANGED promoted

\* cleanup, the exit trap
Aborts ==
  /\ promote' = NoPromotion /\ UNCHANGED promoted
  /\ local' = IF promote.switched THEN [local EXCEPT !.branch = "dev"] ELSE local

\* mutant: a dev that has the commit already is refused too
StartPromotionOnce ==
  /\ Promotion("idle") /\ ~promoted
  /\ captured # None /\ accepted # None
  /\ local.branch = "dev" /\ HEAD = SHA /\ remote.dev = "base"
  /\ FilesProven
  /\ local.tag = None /\ remote.tag = None
  /\ Reaches("push dev") /\ UNCHANGED <<local, hub>> /\ Sane

\* A refusal of these checks changes nothing.
StartPromotion ==
  /\ Promotion("idle") /\ ~promoted
  /\ captured # None /\ accepted # None
  /\ local.branch = "dev" /\ HEAD = SHA
  /\ FilesProven
  /\ local.tag = None /\ remote.tag = None
  /\ Reaches("push dev") /\ UNCHANGED <<local, hub>> /\ Sane

\* A push takes HEAD as it is then; its answer may be lost.
Push(branch, next) ==
  IF Forward(remote[branch], HEAD)
  THEN /\ Pushed(branch, HEAD)
       /\ \/ Reaches(next) /\ UNCHANGED local /\ Sane
          \/ Aborts /\ Fault
  ELSE Aborts /\ UNCHANGED hub /\ Sane

PushDev  == Promotion("push dev")  /\ Push("dev", "await dev")
PushMain == Promotion("push main") /\ Push("main", "await main")

\* mutant: the run is watched to its end and its conclusion not asked for
AwaitCiEnd(branch, next) ==
  /\ ci[<<branch, SHA>>] # "running"
  /\ IF ci[<<branch, SHA>>] # "none"
     THEN /\ promote' = [promote EXCEPT !.pc = next, !.wants = PackOf[HEAD]]
          /\ UNCHANGED <<promoted, local>>
     ELSE Aborts
  /\ UNCHANGED hub /\ Sane

\* wait_for_exact_ci: no run appears for a commit that was not pushed
AwaitCi(branch, next) ==
  /\ ci[<<branch, SHA>>] # "running"
  /\ IF ci[<<branch, SHA>>] = "passed"
     THEN /\ promote' = [promote EXCEPT !.pc = next, !.wants = PackOf[HEAD]]
          /\ UNCHANGED <<promoted, local>>
     ELSE Aborts
  /\ UNCHANGED hub /\ Sane

AwaitDev  == Promotion("await dev")  /\ AwaitCi("dev", "switch")
AwaitMain == Promotion("await main") /\ AwaitCi("main", "parity")

SwitchMain ==
  /\ Promotion("switch")
  /\ IF Forward(local.main, SHA)
     THEN /\ local' = [local EXCEPT !.branch = "main", !.main = SHA]
          /\ promote' = [promote EXCEPT !.pc = "push main", !.switched = TRUE]
          /\ UNCHANGED promoted
     ELSE local' = [local EXCEPT !.branch = "dev"] /\ promote' = NoPromotion /\ UNCHANGED promoted
  /\ UNCHANGED hub /\ Sane

\* wait_for_pages_parity: both files, bare and past the cache
Parity(pc, next) ==
  /\ Promotion(pc)
  /\ IF \A file \in DOMAIN pages : pages[file] = promote.wants
     THEN Reaches(next) /\ UNCHANGED local
     ELSE Aborts
  /\ UNCHANGED hub /\ Sane

ParityBefore == Parity("parity", "local install")
ParityAfter  == Parity("parity again", "tag")

LocalInstall ==
  /\ Promotion("local install")
  /\ IF accepted.files["prism"] \in Passing[flaw]["prism"] /\ ExpectedPayload(Candidate)
     THEN /\ promote' = [promote EXCEPT !.pc = "production install", !.wants = PackOf[HEAD]]
          /\ UNCHANGED <<promoted, local>>
     ELSE Aborts
  /\ UNCHANGED hub /\ Sane

\* The installer follows the hashes from pack.toml on: it gets one version or none.
Served == IF pages.pack = pages.index /\ pages.index = pages.origin THEN pages.origin ELSE None

ProductionInstall ==
  /\ Promotion("production install")
  /\ IF Served = promote.wants /\ Served = PackOf[HEAD]
     THEN /\ promote' = [promote EXCEPT !.pc = "parity again", !.got = Served, !.wants = PackOf[HEAD]]
          /\ UNCHANGED <<promoted, local>>
     ELSE Aborts
  /\ UNCHANGED hub /\ Sane

TagLocally ==
  /\ Promotion("tag")
  /\ IF local.tag = None
     THEN local' = [local EXCEPT !.tag = Tag(SHA, captured)] /\ Reaches("push tag")
     ELSE Aborts
  /\ UNCHANGED hub /\ Sane

PushTag ==
  /\ Promotion("push tag")
  /\ IF remote.tag = None
     THEN /\ remote' = [remote EXCEPT !.tag = local.tag]
          /\ \/ Reaches("return") /\ UNCHANGED local /\ Sane
             \/ Aborts /\ Fault
     ELSE Aborts /\ UNCHANGED remote /\ Sane
  /\ UNCHANGED <<ci, pages, releases>>

Return ==
  /\ Promotion("return")
  /\ local' = [local EXCEPT !.branch = "dev"]
  /\ promote' = NoPromotion /\ promoted' = TRUE
  /\ UNCHANGED hub /\ Sane

\* Any command may fail, and the script may be killed and not clean up.
PromotionEnds ==
  /\ promote.pc # "idle"
  /\ \/ Aborts
     \/ promote' = NoPromotion /\ UNCHANGED <<promoted, local>>
  /\ UNCHANGED <<dist, hub, publish, published, swaps, retagged>> /\ Fault

PromoteStep ==
  \/ PushDev \/ AwaitDev \/ SwitchMain \/ PushMain \/ AwaitMain
  \/ ParityBefore \/ LocalInstall \/ ProductionInstall \/ ParityAfter
  \/ TagLocally \/ PushTag \/ Return

---------------------------------------------------------------------------
(* publish-release.sh                                                       *)

Publication(pc) == publish.pc = pc /\ UNCHANGED <<dist, local, ci, pages, promote, promoted, retagged>>

Continues(pc) == publish' = [publish EXCEPT !.pc = pc]
Stops == publish' = NoPublication
Quiet == UNCHANGED <<remote, releases, published, swaps>> /\ Sane

DocumentationOnly(commit) == commit = "evidence"

\* The look for an existing release takes a failed call for an absent release.
StartPublication ==
  /\ publish.pc = "idle" /\ published = None
  /\ captured # None /\ accepted # None
  /\ local.branch = "dev" /\ HEAD # SHA /\ SHA \in Ancestry[HEAD]
  /\ remote.dev = HEAD /\ remote.main = SHA
  /\ DocumentationOnly(HEAD)
  /\ local.tag # None /\ local.tag = remote.tag
  /\ accepted.receipt = captured /\ local.tag = Tag(SHA, captured)
  /\ IF \A i \in DOMAIN releases : releases[i].gone THEN Sane ELSE Fault
  /\ Continues("verify")
  /\ UNCHANGED <<dist, local, hub, promote, promoted, published, swaps, retagged>>

VerifyFiles(pc, next) ==
  /\ Publication(pc) /\ Quiet
  /\ IF FilesProven THEN Continues(next) ELSE Stops

VerifyBefore == VerifyFiles("verify", "candidate on dev")
VerifyAgain  == VerifyFiles("verify again", "publish")

AwaitRun(pc, run, next) ==
  /\ Publication(pc) /\ Quiet
  /\ ci[run] # "running"
  /\ IF ci[run] = "passed" THEN Continues(next) ELSE Stops

AwaitCandidateOnDev  == AwaitRun("candidate on dev", <<"dev", SHA>>, "candidate on main")
AwaitCandidateOnMain == AwaitRun("candidate on main", <<"main", SHA>>, "evidence on dev")
AwaitEvidence        == AwaitRun("evidence on dev", <<"dev", "evidence">>, "evidence")

\* The document was written from the receipt the operator noted.
ValidateEvidence ==
  /\ Publication("evidence") /\ Quiet
  /\ IF accepted.receipt = captured THEN Continues("create") ELSE Stops

Create ==
  /\ Publication("create") /\ Len(releases) < MaxReleases
  /\ releases' = Append(releases, [draft |-> TRUE, gone |-> FALSE, assets |-> {}, edited |-> FALSE])
  /\ \/ publish' = [publish EXCEPT !.pc = "upload", !.id = Len(releases) + 1] /\ Sane
     \/ Stops /\ Fault
  /\ UNCHANGED <<remote, published, swaps>>

EXPECTED_PUBLIC == <<"curseforge", "prism", "modrinth", "sums", "metadata">>
Asset(name, bytes) == [name |-> name, own |-> TRUE, bytes |-> bytes]
Ours == releases[publish.id]
With(i, release) == [releases EXCEPT ![i] = release]

\* GitHub refuses a second asset of a name and anything about a deleted release.
Upload ==
  LET name == EXPECTED_PUBLIC[publish.sent + 1]
  IN /\ Publication("upload")
     /\ UNCHANGED <<remote, published, swaps>> /\ Sane
     /\ IF Ours.gone \/ \E a \in Ours.assets : a.name = name
        THEN Stops /\ UNCHANGED releases
        ELSE /\ releases' = With(publish.id, [Ours EXCEPT !.assets = Ours.assets \cup {Asset(name, accepted.files[name])}])
             /\ publish' = [publish EXCEPT !.sent = @ + 1,
                              !.pc = IF publish.sent + 1 = Len(EXPECTED_PUBLIC) THEN "check draft" ELSE "upload"]

\* mutant: the five assets are there, whatever else is
StateIncludes(draft) ==
  /\ ~Ours.gone /\ Ours.draft = draft
  /\ \A name \in Names : \E a \in Ours.assets : a.name = name /\ a.own

\* verify_remote_release_state: the recorded asset IDs and no others
StateIs(draft) ==
  /\ ~Ours.gone /\ Ours.draft = draft
  /\ {a.name : a \in Ours.assets} = Names /\ \A a \in Ours.assets : a.own

CheckState(pc, draft, next) ==
  /\ Publication(pc) /\ Quiet
  /\ IF StateIs(draft) THEN Continues(next) ELSE Stops

CheckDraft  == CheckState("check draft", TRUE, "authenticated download")
CheckPublic == CheckState("check public", FALSE, "public download")

\* validate_downloaded_release: byte by byte with the accepted files, as they are now
Downloaded(got) ==
  /\ DOMAIN got = Names /\ got = accepted.files
  /\ ChecksumsMatch(got)

BytesOf(release) ==
  [name \in {a.name : a \in release.assets} |-> (CHOOSE a \in release.assets : a.name = name).bytes]

AuthenticatedDownload ==
  /\ Publication("authenticated download") /\ Quiet
  /\ IF ~Ours.gone /\ Downloaded(BytesOf([Ours EXCEPT !.assets = {a \in Ours.assets : a.own}])) THEN Continues("verify again") ELSE Stops

\* GitHub makes a missing tag, at the head of main, and has one public release of it.
Publish ==
  LET possible == ~Ours.gone /\ \A i \in DOMAIN releases : releases[i].draft \/ releases[i].gone \/ i = publish.id
  IN /\ Publication("publish") /\ UNCHANGED <<published, swaps>>
     /\ IF possible
        THEN /\ releases' = With(publish.id, [Ours EXCEPT !.draft = FALSE])
             /\ remote' = IF remote.tag = None THEN [remote EXCEPT !.tag = Tag(remote.main, None)] ELSE remote
             /\ \/ Continues("check public") /\ Sane
                \/ Stops /\ Fault
        ELSE Stops /\ UNCHANGED <<remote, releases>> /\ Sane

PublicDownload ==
  /\ Publication("public download") /\ Quiet
  /\ IF ~Ours.gone /\ ~Ours.draft /\ (\A name \in Names : \E a \in Ours.assets : a.name = name)
        /\ Downloaded(Restrict(BytesOf(Ours), Names))
     THEN Continues("check public again") ELSE Stops

Finish ==
  /\ Publication("check public again")
  /\ IF StateIs(FALSE) THEN published' = Ours ELSE UNCHANGED published
  /\ Stops /\ UNCHANGED <<remote, releases, swaps>> /\ Sane

PublicationEnds ==
  /\ publish.pc # "idle" /\ Stops
  /\ UNCHANGED <<dist, local, hub, promote, promoted, published, swaps, retagged>> /\ Fault

PublishStep ==
  \/ VerifyBefore \/ AwaitCandidateOnDev \/ AwaitCandidateOnMain \/ AwaitEvidence
  \/ ValidateEvidence \/ Create \/ Upload \/ CheckDraft \/ AuthenticatedDownload
  \/ VerifyAgain \/ Publish \/ CheckPublic \/ PublicDownload \/ Finish

---------------------------------------------------------------------------
(* The operator and everybody else.                                         *)

scripts == <<promote, publish, promoted, published>>

\* The promotion is over: the operator records it and pushes the record.
CommitEvidence ==
  /\ promote.pc = "idle" /\ local.branch = "dev" /\ local.dev = SHA
  /\ local.tag # None /\ local.tag = remote.tag
  /\ local' = [local EXCEPT !.dev = "evidence"]
  /\ UNCHANGED <<dist, hub, scripts, swaps, retagged>> /\ Sane

PushEvidence ==
  /\ local.dev = "evidence" /\ remote.dev # "evidence" /\ Forward(remote.dev, "evidence")
  /\ promote.pc = "idle" /\ Pushed("dev", "evidence")
  /\ UNCHANGED <<dist, local, scripts, swaps, retagged>> /\ Sane

SwitchBack ==
  /\ promote.pc = "idle" /\ local.branch = "main"
  /\ local' = [local EXCEPT !.branch = "dev"]
  /\ UNCHANGED <<dist, hub, scripts, swaps, retagged>> /\ Sane

\* Another attempt of a run, which the scripts accept. Nobody is bound to make one.
RerunCi(run) ==
  /\ ci[run] = "failed"
  /\ ci' = [ci EXCEPT ![run] = "running"]
  /\ UNCHANGED <<dist, local, remote, pages, releases, scripts, swaps, retagged>> /\ Sane

\* Work in the checkout while a script runs in it.
Interfere ==
  /\ \/ \E commit \in {"evidence", "other"} :
          /\ HEAD = SHA
          /\ local' = IF local.branch = "dev" THEN [local EXCEPT !.dev = commit] ELSE [local EXCEPT !.main = commit]
     \/ promote.pc # "idle" /\ local' = [local EXCEPT !.branch = IF @ = "dev" THEN "main" ELSE "dev"]
  /\ promote' = [promote EXCEPT !.raced = promote.pc # "idle"]
  /\ UNCHANGED <<dist, hub, publish, promoted, published, swaps, retagged>> /\ Odd

\* Somebody replaces accepted files, with or without what binds them, or puts them back.
SwapFiles ==
  /\ accepted # None
  /\ \E build \in Replacements \cup {gauntlet.first} :
       LET files == Files(build)
       IN accepted' \in {[files |-> files, receipt |-> Receipt(files)], [accepted EXCEPT !.files = files],
                         [accepted EXCEPT !.files = [accepted.files EXCEPT !["curseforge"] = build["curseforge"]]]}
                          \ {accepted}
  /\ swaps' = IF publish.pc = "idle" THEN swaps ELSE swaps + 1
  /\ UNCHANGED <<flaw, gauntlet, captured, local, hub, scripts, retagged>> /\ Odd

OtherPush(branch) ==
  /\ SHA \in {remote.dev, remote.main}
  /\ remote[branch] # "other" /\ Forward(remote[branch], "other")
  /\ Pushed(branch, "other")
  /\ UNCHANGED <<dist, local, scripts, swaps, retagged>> /\ Odd

Retag ==
  /\ \E tag \in {None, Tag("other", None)} : remote.tag # tag /\ remote' = [remote EXCEPT !.tag = tag]
  /\ retagged' = TRUE
  /\ UNCHANGED <<dist, local, ci, pages, releases, scripts, swaps>> /\ Odd

\* An edit is one that no later check of the run stands before the publication.
EditRelease(i) ==
  LET r == releases[i]
      late == ~r.draft \/ (publish.id = i /\ publish.pc \in {"authenticated download", "verify again", "publish"})
      edited(assets) == With(i, [r EXCEPT !.assets = assets, !.edited = r.edited \/ late])
      foreign(name) == [name |-> name, own |-> FALSE, bytes |-> None]
  IN /\ ~r.gone
     /\ releases' = With(i, [r EXCEPT !.gone = TRUE])
        \/ (r.draft /\ releases' = With(i, [r EXCEPT !.draft = FALSE, !.edited = TRUE])
            /\ \A j \in DOMAIN releases : releases[j].draft \/ releases[j].gone)
        \/ (\E a \in r.assets : releases' \in {edited(r.assets \ {a}),
                                               edited((r.assets \ {a}) \cup {foreign(a.name)})})
        \/ releases' = edited(r.assets \cup {foreign("extra")})
     /\ UNCHANGED <<dist, local, remote, ci, pages, scripts, swaps, retagged>> /\ Odd

Operator == CommitEvidence \/ PushEvidence \/ SwitchBack \/ \E run \in Watched : RerunCi(run)
Others == Interfere \/ SwapFiles \/ Retag \/ (\E b \in {"dev", "main"} : OtherPush(b))
          \/ \E i \in DOMAIN releases : EditRelease(i)
GitHub == Deploy \/ (\E file \in {"pack", "index"} : Expire(file)) \/ \E run \in Watched : CiEnds(run)

Next ==
  \/ Build \/ Accept \/ StartPromotion \/ PromoteStep \/ PromotionEnds
  \/ StartPublication \/ PublishStep \/ PublicationEnds
  \/ Operator \/ Others \/ GitHub

---------------------------------------------------------------------------
(* Nobody is bound to interfere, nothing to fail, and nobody to run a failed *)
(* CI run again. That the operator repeats a promotion or a publication of   *)
(* the same commit until it is done is an assumption of this module. The     *)
(* scripts allow it, for they recognise what is done; but docs/RELEASING.md  *)
(* asks for a new candidate when a Pages parity or a publication has failed. *)

Fairness ==
  /\ WF_vars(Build \/ Accept)
  /\ WF_vars(StartPromotion \/ PromoteStep)
  /\ WF_vars(StartPublication \/ PublishStep)
  /\ WF_vars(CommitEvidence \/ PushEvidence \/ SwitchBack) /\ WF_vars(GitHub)

Spec == Init /\ [][Next]_vars /\ Fairness

---------------------------------------------------------------------------
(* Properties                                                               *)

\* Whatever went wrong in its build or in its tree, a set of files whose
\* receipt was printed gives a client the pack of the commit, all of it and
\* nothing else, from either launcher archive and through the Prism bootstrap
\* (verify_public_release and what it calls).
AcceptedIsPack ==
  captured # None =>
    /\ \A archive \in {"modrinth", "curseforge"} :
         Installed(Contents(archive, captured[archive], Candidate)) = ClientPack(Candidate)
    /\ captured["prism"] = Sound /\ ExpectedPayload(Candidate)

\* What promote-release.sh changes at GitHub was earned before: dev with the
\* accepted files; main with the CI of dev; the tag with the CI of both, main
\* holding the commit, and a client that has installed the accepted pack from
\* the production address; and the tag names the commit and the receipt. Only
\* work in the same checkout meanwhile can make it push another commit, or tag
\* with another pack installed.
PushesAreEarned ==
  [][LET pushes(ref) == promote' # promote /\ remote'[ref] # remote[ref]
         passed(branch) == ci[<<branch, SHA>>] = "passed"
     IN /\ \A branch \in {"dev", "main"} :
             pushes(branch) => captured # None /\ (remote'[branch] = SHA \/ promote.raced)
        /\ pushes("main") => passed("dev") /\ Forward(SHA, remote.dev)
        /\ pushes("tag") => /\ passed("dev") /\ passed("main") /\ Forward(SHA, remote.main)
                            /\ remote'.tag = Tag(SHA, captured)
                            /\ promote.got = "accepted" \/ promote.raced]_vars

\* The release that is public has the five files of the accepted receipt, and
\* no other, under the tag that names it, as far as nobody edited the release
\* behind the last check before the publication, nobody moved the tag, and
\* nobody replaced accepted files and put them back while they were published.
\* What PUBLICATION: OK was printed for had them whatever was edited, and with
\* one replacement and its reversal too (publish-release.sh).
IsAccepted(release) == release.assets = {Asset(name, captured[name]) : name \in Names}
PublicIsAccepted ==
  /\ \A i \in DOMAIN releases :
       LET r == releases[i]
       IN ~r.draft /\ ~r.gone /\ ~r.edited =>
            (swaps < 2 => IsAccepted(r)) /\ (retagged \/ remote.tag = Tag(SHA, captured))
  /\ published # None /\ swaps < 3 => IsAccepted(published)

\* The scripts have no way to go on with this commit: it is refused for what it
\* holds; the gauntlet died before it printed the digest, and its output is in
\* the way; the accepted files have changed; the CI of dev, of main or of the
\* record failed or was cancelled, and stays so (docs/RELEASING.md then makes a
\* new candidate); the tag exists here and not at GitHub (a crash between making
\* and pushing it); the remote tag, dev or main is somebody else's; a branch
\* moved on before its time; a publication that did not finish left a release.
DeadEnd ==
  \/ flaw # "none" /\ accepted = None
  \/ accepted # None /\ accepted # [files |-> captured, receipt |-> captured]
  \/ \E run \in Watched : ci[run] = "failed"
  \/ local.tag # None /\ remote.tag = None
  \/ retagged
  \/ "other" \in {remote.dev, local.dev} \/ remote.main \notin {"base", SHA}
  \/ local.tag = None /\ (local.dev # SHA \/ local.main \notin {"base", SHA})
  \/ publish.pc = "idle" /\ \E i \in DOMAIN releases : ~releases[i].gone

\* Repeating the two scripts for the same commit leads to its publication or to
\* a named dead end, a failed CI run among them: a lost answer to a push, a crash
\* anywhere else, a Pages cache that was stale for longer than it is waited for,
\* a publication that ended before it made a release, and a checkout left on
\* main are recovered from. The repetition is assumed: docs/RELEASING.md, under
\* Recovery, gives the commit up for a new candidate, which is not modelled, when
\* CI, the Pages parity or the publication fails.
ReleaseConverges == <>[](published # None \/ DeadEnd)
=============================================================================
