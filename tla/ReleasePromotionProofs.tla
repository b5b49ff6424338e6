----------------------- MODULE ReleasePromotionProofs -----------------------
(***************************************************************************)
(* What the release scripts keep to, for any pack, any defects of its      *)
(* builds and any number of faults and of steps of others: what the        *)
(* gauntlet accepts is the pack of the commit, what promote-release.sh     *)
(* pushes was earned, and what publish-release.sh makes public is what was *)
(* accepted.                                                               *)
(*                                                                         *)
(* The invariant has three parts that hardly touch. Noted is about the     *)
(* digest the operator noted, and rests on what the inspections of the     *)
(* archives establish. Promoting says what promote-release.sh has earned   *)
(* at each label. PublicationInv says at each label of publish-release.sh  *)
(* whether the accepted files are intact, whether what it has uploaded are *)
(* their bytes, and how many replacements it takes to have it otherwise.   *)
(***************************************************************************)
EXTENDS ReleasePromotion, TLAPS

-----------------------------------------------------------------------------
(* The invariant: types.                                                    *)

PromoteLabels == {"idle", "push dev", "await dev", "switch", "push main", "await main", "parity",
                  "local install", "production install", "parity again", "tag", "push tag", "return"}
\* What publish-release.sh does before its release exists, ...
Looking   == {"candidate on dev", "candidate on main", "evidence on dev", "evidence", "create"}
\* ... until it has verified the accepted files again, ...
Drafting  == {"upload", "check draft", "authenticated download", "verify again"}
\* ... and then.
Releasing == {"publish", "check public", "public download"}
PublishLabels == {"idle", "verify", "check public again"} \cup Looking \cup Drafting \cup Releasing

Runs     == {"none", "running", "passed", "failed"}
Packs    == {"last", "accepted", "other"}
Assets   == [name: Names \cup {"extra"}, own: BOOLEAN, bytes: Bytes \cup {None}]
Releases == [draft: BOOLEAN, gone: BOOLEAN, assets: SUBSET Assets, edited: BOOLEAN]

GauntletTypes ==
  /\ flaw \in Flaws
  /\ gauntlet \in [pc: {"idle", "built"}, first: Builds, second: Builds]
  /\ accepted \in {None} \cup Outputs
  /\ captured \in {None} \cup FileSets

Checkouts == [branch: {"dev", "main"}, dev: Commits, main: Commits, tag: {None} \cup Tags]
Remotes == [dev: Commits, main: Commits, tag: {None} \cup Tags]
Promotions == [pc: PromoteLabels, switched: BOOLEAN, wants: Packs \cup {None},
               got: Packs \cup {None}, raced: BOOLEAN]

PromotionTypes ==
  /\ local \in Checkouts
  /\ remote \in Remotes
  /\ ci \in [Watched -> Runs]
  /\ pages \in [origin: Packs, pack: Packs, index: Packs]
  /\ promote \in Promotions
  /\ promoted \in BOOLEAN

PublicationTypes ==
  /\ releases \in Seq(Releases)
  /\ publish \in [pc: PublishLabels, id: Nat, sent: 0..Len(EXPECTED_PUBLIC)]
  /\ swaps \in Nat /\ retagged \in BOOLEAN

BoundTypes == oddities \in Nat /\ faults \in Nat

ReleaseTypes == GauntletTypes /\ PromotionTypes /\ PublicationTypes /\ BoundTypes

\* Nothing can be promoted or published before a digest was noted, and that is the
\* digest of files that passed for the commit.
Noted ==
  /\ gauntlet.pc = "built" => accepted = None
  /\ captured # None => accepted # None /\ VerifyPublicRelease(captured, flaw) /\ ExpectedPayload(Candidate)
  /\ captured = None => promote.pc = "idle" /\ publish.pc = "idle" /\ releases = <<>> /\ published = None

-----------------------------------------------------------------------------
(* The promotion.                                                           *)

Passed(branch) == ci[<<branch, SHA>>] = "passed"
AfterDev  == {"switch", "push main"}
AfterMain == {"parity", "local install", "production install", "parity again", "tag", "push tag", "return"}
Proven == {"parity again", "tag", "push tag", "return"}

\* A run exists only for a commit that the branch holds.
RunsArePushed == \A branch \in {"dev", "main"} : ci[<<branch, SHA>>] # "none" => Forward(SHA, remote[branch])

Promoting ==
  /\ promote.pc # "idle" => HEAD = SHA \/ promote.raced
  /\ promote.pc \in AfterDev \cup {"await main"} \cup AfterMain => Passed("dev")
  /\ promote.pc \in AfterMain => Passed("main")
  /\ promote.pc \in Proven => promote.got = "accepted" \/ promote.raced
  /\ promote.pc = "push tag" => local.tag = Tag(SHA, captured)

-----------------------------------------------------------------------------
(* The publication.                                                         *)

Intact == accepted = [files |-> captured, receipt |-> captured]

\* What the script has uploaded is what was accepted.
Carried(release) == \A a \in release.assets : a.own => a.bytes = captured[a.name]

\* The five assets and no other.
Complete(release) == {a.name : a \in release.assets} = Names /\ \A a \in release.assets : a.own

Shaped == \A i \in DOMAIN releases : \A a, b \in releases[i].assets :
            /\ a.name = b.name => a = b
            /\ IF a.own THEN a.name \in Names ELSE a.bytes = None

Underway ==
  /\ publish.pc \in {"idle", "verify"} \cup Looking => publish.sent = 0
  /\ publish.pc = "upload" => publish.sent < Len(EXPECTED_PUBLIC)
  /\ publish.pc \in Drafting \cup Releasing \cup {"check public again"} => publish.id \in DOMAIN releases
  /\ publish.pc # "idle" => retagged \/ remote.tag = Tag(SHA, captured)

\* A replacement since the first verification shows, unless it was put back.
Faithful ==
  /\ publish.pc \in Looking => Intact \/ swaps >= 1
  /\ publish.pc \in Drafting => \/ Intact /\ Carried(Ours)
                                \/ ~Intact /\ swaps >= 1
                                \/ swaps >= 2
  /\ publish.pc \in Releasing => Carried(Ours) \/ (swaps >= 2 /\ Intact) \/ swaps >= 3
  /\ publish.pc = "check public again" => Carried(Ours) \/ swaps >= 3
  /\ publish.pc \in {"authenticated download", "verify again", "publish"} =>
       Ours.edited \/ Ours.gone \/ Complete(Ours)

PublicationInv == PublicationTypes /\ Shaped /\ Underway /\ Faithful /\ PublicIsAccepted

ReleaseInv == ReleaseTypes /\ Noted /\ RunsArePushed /\ Promoting /\ PublicationInv
-----------------------------------------------------------------------------
(* What the inspections of the archives establish.                          *)

\* The index of a tree names items of the pack.
LEMMA IndexItems == ASSUME NEW f \in Flaws PROVE DOMAIN Tree(f).index \subseteq Items
  BY DEF Tree

\* A client is asked to install what is not for the server only.
LEMMA ClientSide == ASSUME NEW side, side # "server" PROVE Environment(side).client
  BY DEF Environment

\* And conversely.
LEMMA ServerSide == ASSUME NEW side, Environment(side).client PROVE side # "server"
  BY DEF Environment

\* Whatever went wrong with a build, an entry of its manifest keeps its side and is
\* required, unless that is what went wrong.
LEMMA ListedRecords ==
  ASSUME NEW archive, NEW d, NEW tree, NEW r \in Contents(archive, d, tree).listed
  PROVE  /\ d.kind # "optional" => r.required
         /\ d.kind # "sided" => r.env = Environment(IF r.item \in Mods THEN Side[r.item] ELSE "both")
<1> DEFINE listed == Exported(archive, tree).listed
           good(e) == e.required /\ e.env = Environment(IF e.item \in Mods THEN Side[e.item] ELSE "both")
<1>1. \A i, version : good(Record(i, version))
  BY DEF Record
<1>2. \A e \in listed : good(e)
  BY <1>1 DEF Exported
<1>3. \/ r \in listed \/ r = Record(d.item, 2) \/ r = Record(d.item, 1)
      \/ \E e \in listed : r = Spoiled(e, d)
  BY DEF Contents
<1>4. ASSUME NEW e \in listed, r = Spoiled(e, d)
      PROVE  /\ d.kind # "optional" => r.required
             /\ d.kind # "sided" => r.env = Environment(IF r.item \in Mods THEN Side[r.item] ELSE "both")
  BY <1>2, <1>4 DEF Spoiled
<1> QED
  BY <1>1, <1>2, <1>3, <1>4

\* The kinds of defect an archive can have.
LEMMA DefectKinds ==
  /\ \A d \in Defects("modrinth") : d.kind # "optional"
  /\ \A d \in Defects("curseforge") : d.kind # "sided"
  BY DEF Defects, BothDefects, Sound

\* A Modrinth archive that passes gives a client the pack, all of it and nothing else.
LEMMA ModrinthInstalls ==
  ASSUME NEW f \in Flaws, NEW d \in Defects("modrinth"), Inspect("modrinth", d, Tree(f))
  PROVE  Installed(Contents("modrinth", d, Tree(f))) = ClientPack(Tree(f))
<1> DEFINE tree == Tree(f)
           a == Contents("modrinth", d, tree)
           have == Installed(a)
           pack == ClientPack(tree)
<1>1. InspectModrinth(a, tree)
  BY DEF Inspect
<1>2. DOMAIN tree.index \subseteq Authored \cup Mods /\ Direct \subseteq Mods /\ Authored \cap Mods = {}
  BY IndexItems, ReleaseArtifactsParameters DEF Items, Direct
<1>3. \A r \in a.listed : r.required /\ r.env = Environment(IF r.item \in Mods THEN Side[r.item] ELSE "both")
  <2>1. d.kind # "optional"
    BY DefectKinds
  <2>2. \A r \in a.listed : r.required
    BY <2>1, ListedRecords
  <2>3. \A r \in a.listed : r.item \in Direct
    BY <1>1 DEF InspectModrinth, ModrinthComplete, ItemsOf
  <2>4. \A r \in a.listed : r.env = Environment(Side[r.item])
    <3> SUFFICES ASSUME NEW r \in a.listed PROVE r.env = Environment(Side[r.item])
      OBVIOUS
    <3>1. r.item \in Direct /\ r.item \in Mods \cap DOMAIN tree.index
      BY <1>1, <1>2, <2>3 DEF InspectModrinth, ModrinthComplete, ItemsOf
    <3>2. PICK e \in a.listed : e.item = r.item /\ e.env = Environment(Side[r.item])
      BY <1>1, <3>1 DEF InspectModrinth, ModrinthComplete
    <3> QED
      BY <1>1, <3>2 DEF InspectModrinth, ModrinthFiles, NamedOnce
  <2> QED
    BY <1>2, <2>2, <2>3, <2>4
<1>4. \A e \in a.embedded : /\ e.item \in ClientItems(tree) /\ e.file = tree.index[e.item]
  <2> SUFFICES ASSUME NEW e \in a.embedded
               PROVE  e.item \in ClientItems(tree) /\ e.file = tree.index[e.item]
    OBVIOUS
  <2>1. e.item \in DOMAIN tree.index \ Direct
    BY <1>1 DEF InspectModrinth, ModrinthComplete, ItemsOf
  <2>2. e.item \in Mods => Side[e.item] # "server"
    BY <2>1, ServerOnlyIsDirect DEF Direct
  <2>3. Has(a.embedded, e.item, tree.index[e.item])
    BY <1>1, <1>2, <2>1 DEF InspectModrinth, ModrinthComplete, AuthoredCarried
  <2> QED
    BY <1>1, <2>1, <2>2, <2>3 DEF InspectModrinth, ZipSafe, NamedOnce, Has, ClientItems
<1>5. \A r \in a.listed : r.item \in DOMAIN tree.index /\ r.file = tree.index[r.item]
  <2> SUFFICES ASSUME NEW r \in a.listed
               PROVE  r.item \in DOMAIN tree.index /\ r.file = tree.index[r.item]
    OBVIOUS
  <2>1. r.item \in Direct \cap DOMAIN tree.index
    BY <1>1 DEF InspectModrinth, ModrinthComplete, ItemsOf
  <2>2. PICK e \in a.listed : e.item = r.item /\ e.file = tree.index[r.item]
    BY <1>1, <1>2, <2>1 DEF InspectModrinth, ModrinthComplete
  <2> QED
    BY <1>1, <2>1, <2>2 DEF InspectModrinth, ModrinthFiles, NamedOnce
<1>6. \A i \in ClientItems(tree) :
         \/ \E e \in a.embedded : e.item = i /\ e.file = tree.index[i]
         \/ \E r \in a.listed : r.item = i /\ r.file = tree.index[i] /\ r.required /\ r.env.client
  <2> SUFFICES ASSUME NEW i \in ClientItems(tree),
                      ~\E e \in a.embedded : e.item = i /\ e.file = tree.index[i]
               PROVE  \E r \in a.listed : r.item = i /\ r.file = tree.index[i] /\ r.required /\ r.env.client
    OBVIOUS
  <2>1. i \in Direct /\ i \in Mods \cap DOMAIN tree.index /\ Side[i] # "server"
    BY <1>1, <1>2 DEF InspectModrinth, ModrinthComplete, AuthoredCarried, Has, ClientItems
  <2>2. PICK r \in a.listed : r.item = i /\ r.file = tree.index[i]
    BY <1>1, <2>1 DEF InspectModrinth, ModrinthComplete
  <2> QED
    BY <1>3, <2>1, <2>2, ClientSide
<1>7. \A r \in a.listed : r.env.client => r.item \in ClientItems(tree)
  BY <1>3, <1>5, ServerSide DEF ClientItems
<1> HIDE DEF a, tree
<1>8. have \subseteq pack
  BY <1>4, <1>5, <1>7 DEF Installed, ClientPack
<1>9. pack \subseteq have
  BY <1>6 DEF Installed, ClientPack
<1> QED
  BY <1>8, <1>9 DEF a, tree

\* So does a CurseForge archive that passes.
LEMMA CurseForgeInstalls ==
  ASSUME NEW f \in Flaws, NEW d \in Defects("curseforge"), Inspect("curseforge", d, Tree(f))
  PROVE  Installed(Contents("curseforge", d, Tree(f))) = ClientPack(Tree(f))
<1> DEFINE tree == Tree(f)
           a == Contents("curseforge", d, tree)
           have == Installed(a)
           pack == ClientPack(tree)
           recorded(m) == {r \in a.listed : m \in CurseForge /\ r.item = m /\ r.file = tree.index[m]}
           embedded(m) == {e \in a.embedded : e.item = m}
           mods == Mods \cap ClientItems(tree)
<1>1. ZipSafe(a) /\ AuthoredCarried(a, tree) /\ ItemsOf(a.embedded) \subseteq ClientItems(tree)
  BY DEF Inspect, InspectCurseForge, CurseForgeComplete
<1>2. /\ \A m \in mods : /\ \A r \in recorded(m) : r.required
                        /\ \A e \in embedded(m) : e.file = tree.index[m]
      /\ a.listed = UNION {recorded(m) : m \in mods}
  BY DEF Inspect, InspectCurseForge, CurseForgeComplete
<1>3. DOMAIN tree.index \subseteq Authored \cup Mods
  BY IndexItems DEF Items
<1>10. \A m \in mods : recorded(m) # {} \/ embedded(m) # {}
  BY DEF Inspect, InspectCurseForge, CurseForgeComplete
<1>4. \A r \in a.listed : r.env = Environment(IF r.item \in Mods THEN Side[r.item] ELSE "both")
  BY DefectKinds, ListedRecords
<1> HIDE DEF a, tree
<1>5. \A r \in a.listed : /\ r.item \in ClientItems(tree) /\ r.file = tree.index[r.item]
                         /\ r.required /\ r.env.client
  <2> SUFFICES ASSUME NEW r \in a.listed
               PROVE  /\ r.item \in ClientItems(tree) /\ r.file = tree.index[r.item]
                      /\ r.required /\ r.env.client
    OBVIOUS
  <2>1. PICK m \in mods : r \in recorded(m)
    BY <1>2
  <2>2. r.item = m /\ r.required /\ r.file = tree.index[m]
    BY <1>2, <2>1
  <2> QED
    BY <1>4, <2>2, ClientSide DEF ClientItems
<1>6. \A e \in a.embedded : e.item \in ClientItems(tree) /\ e.file = tree.index[e.item]
  <2> SUFFICES ASSUME NEW e \in a.embedded
               PROVE  e.item \in ClientItems(tree) /\ e.file = tree.index[e.item]
    OBVIOUS
  <2>1. e.item \in ClientItems(tree) /\ e.item \in DOMAIN tree.index
    BY <1>1 DEF ItemsOf, ClientItems
  <2>2. CASE e.item \in Mods
    BY <1>2, <2>1, <2>2
  <2>3. CASE e.item \in Authored
    BY <1>1, <2>1, <2>3 DEF AuthoredCarried, Has, ZipSafe, NamedOnce
  <2> QED
    BY <1>3, <2>1, <2>2, <2>3
<1>7. \A i \in ClientItems(tree) :
         \/ \E e \in a.embedded : e.item = i /\ e.file = tree.index[i]
         \/ \E r \in a.listed : r.item = i /\ r.file = tree.index[i] /\ r.required /\ r.env.client
  <2> SUFFICES ASSUME NEW i \in ClientItems(tree)
               PROVE  \/ \E e \in a.embedded : e.item = i /\ e.file = tree.index[i]
                      \/ \E r \in a.listed : r.item = i /\ r.file = tree.index[i] /\ r.required /\ r.env.client
    OBVIOUS
  <2>1. i \in DOMAIN tree.index
    BY DEF ClientItems
  <2>2. CASE i \in Authored
    BY <1>1, <2>1, <2>2 DEF AuthoredCarried, Has
  <2>3. CASE i \in Mods
    <3>1. recorded(i) # {} \/ embedded(i) # {}
      BY <1>10, <2>3
    <3>2. CASE embedded(i) # {}
      BY <1>2, <2>3, <3>2
    <3>3. CASE recorded(i) # {}
      BY <1>5, <3>3
    <3> QED
      BY <3>1, <3>2, <3>3
  <2> QED
    BY <1>3, <2>1, <2>2, <2>3
<1>8. have \subseteq pack
  BY <1>5, <1>6 DEF Installed, ClientPack
<1>9. pack \subseteq have
  BY <1>7 DEF Installed, ClientPack
<1> QED
  BY <1>8, <1>9 DEF a, tree

\* A Prism instance that passes is the one that was built.
LEMMA PrismIsSound ==
  ASSUME NEW f \in Flaws, NEW d \in Defects("prism"), Inspect("prism", d, Tree(f))
  PROVE  d = Sound
<1> DEFINE a == Contents("prism", d, Tree(f))
           exported == {Member(part, 1) : part \in PrismParts}
<1>1. ItemsOf(a.embedded) = PrismParts /\ \A e \in a.embedded : e.file = 1
  BY DEF Inspect, InspectPrism
<1>2. Exported("prism", Tree(f)).embedded = exported
  BY DEF Exported
<1>3. CASE d \in [kind : {"altered"}, item : PrismParts]
  <2>1. Member(d.item, 1) \in exported /\ Member(d.item, 1).item = d.item
    BY <1>3 DEF Member
  <2>2. Member(d.item, Other(1)) \in a.embedded
    BY <1>2, <1>3, <2>1 DEF Contents, AlteredFile, Member
  <2> QED
    BY <1>1, <2>2 DEF Member, Other
<1>4. CASE d \in [kind : {"embedded"}, item : {Stray}]
  <2>1. Member(Stray, 2) \in a.embedded
    BY <1>4 DEF Contents
  <2> QED
    BY <1>1, <2>1 DEF Member
<1> QED
  BY <1>3, <1>4 DEF Defects

-----------------------------------------------------------------------------
(* Types.                                                                   *)

USE DEF SHA, Commits, Watched, Tag, Tags, Outputs, Packs, dist, hub, scripts

\* A build in which nothing went wrong is one.
LEMMA NominalBuild == Nominal \in Builds
  BY DEF Nominal, Builds, Defects, Archives

\* The five files of a build.
LEMMA FilesTyped == ASSUME NEW build \in Builds PROVE Files(build) \in FileSets
<1>1. \A archive \in Archives : build[archive] \in UNION {Defects(a) : a \in Archives}
  BY DEF Builds
<1>2. Metadata(build) \in Builds
  BY <1>1 DEF Metadata, Builds
<1>3. Sums(build) \in [archives: Builds, metadata: Builds]
  BY <1>2 DEF Sums
<1>4. /\ Metadata(build) \in Bytes /\ Sums(build) \in Bytes
      /\ \A archive \in Archives : build[archive] \in Bytes
  <2>1. Metadata(build) \in Bytes
    BY <1>2 DEF Bytes
  <2>2. Sums(build) \in Bytes
    BY <1>3 DEF Bytes
  <2>3. \A archive \in Archives : build[archive] \in Bytes
    BY <1>1 DEF Bytes
  <2> QED
    BY <2>1, <2>2, <2>3
<1>5. \A name \in Names : Files(build)[name] \in {Metadata(build), Sums(build), build[name]}
  BY DEF Files
<1>6. \A name \in Names : name # "metadata" /\ name # "sums" => name \in Archives
  BY DEF Names
<1>7. \A name \in Names : name = "metadata" => Files(build)[name] = Metadata(build)
  BY DEF Files
<1>8. \A name \in Names : name = "sums" => Files(build)[name] = Sums(build)
  BY DEF Files
<1>9. \A name \in Names : Files(build)[name] \in Bytes
  <2> SUFFICES ASSUME NEW name \in Names PROVE Files(build)[name] \in Bytes
    OBVIOUS
  <2>1. name = "metadata" => Files(build)[name] \in Bytes
    BY <1>4, <1>7
  <2>2. name = "sums" => Files(build)[name] \in Bytes
    BY <1>4, <1>8
  <2>3. name \in Archives => Files(build)[name] \in Bytes
    BY <1>4, <1>5
  <2> QED
    BY <1>6, <2>1, <2>2, <2>3
<1> QED
  BY <1>9 DEF Files, FileSets

\* The types hold at the beginning.
LEMMA InitTypes == Init => ReleaseTypes
<1> SUFFICES ASSUME Init PROVE ReleaseTypes
  OBVIOUS
<1>1. GauntletTypes
  BY NominalBuild, ReleasePromotionBounds DEF Init, GauntletTypes
<1>2. PromotionTypes
  <2>1. ci \in [Watched -> Runs]
    BY DEF Init, Runs
  <2>2. promote \in Promotions
    BY DEF Init, NoPromotion, PromoteLabels, Promotions
  <2>3. local \in Checkouts
    BY DEF Init, Checkouts
  <2>4. remote \in Remotes
    BY DEF Init, Remotes
  <2>5. pages \in [origin: Packs, pack: Packs, index: Packs] /\ promoted \in BOOLEAN
    BY DEF Init
  <2> QED
    BY <2>1, <2>2, <2>3, <2>4, <2>5 DEF PromotionTypes
<1>3. PublicationTypes
  <2>1. 0 \in 0..Len(EXPECTED_PUBLIC)
    BY DEF EXPECTED_PUBLIC
  <2> QED
    <3>1. releases = <<>> /\ swaps \in Nat /\ retagged \in BOOLEAN
      BY DEF Init
    <3>3. <<>> \in Seq(Releases)
      OBVIOUS
    <3>2. publish \in [pc: PublishLabels, id: Nat, sent: 0..Len(EXPECTED_PUBLIC)]
      BY <2>1 DEF Init, NoPublication, PublishLabels
    <3> QED
      BY <3>1, <3>2, <3>3 DEF PublicationTypes
<1>4. BoundTypes
  BY DEF Init, BoundTypes
<1> QED
  BY <1>1, <1>2, <1>3, <1>4 DEF ReleaseTypes

\* Each step counts what it does to the bounds.
LEMMA BoundSteps == ASSUME BoundTypes, Sane \/ Odd \/ Fault PROVE BoundTypes'
  BY DEF BoundTypes, Sane, Odd, Fault

\* The gauntlet and the operator's digest.
LEMMA BuildTypes == ASSUME GauntletTypes, Build PROVE GauntletTypes'
<1>1. \A archive \in Archives : \A d \in BuildDefects[archive] : [Nominal EXCEPT ![archive] = d] \in Builds
  <2> SUFFICES ASSUME NEW archive \in Archives, NEW d \in BuildDefects[archive]
               PROVE  [Nominal EXCEPT ![archive] = d] \in Builds
    OBVIOUS
  <2>1. d \in UNION {Defects(a) : a \in Archives}
    BY ReleasePromotionBounds
  <2> QED
    BY <2>1, NominalBuild DEF Builds
<1>2. gauntlet' \in [pc: {"idle", "built"}, first: Builds, second: Builds]
  BY <1>1, NominalBuild DEF Build
<1> QED
  BY <1>2 DEF Build, GauntletTypes

\* The accepted files are five, with a receipt of five.
LEMMA AcceptTypes == ASSUME GauntletTypes, Accept PROVE GauntletTypes'
<1>1. Files(gauntlet.first) \in FileSets
  BY FilesTyped DEF GauntletTypes
<1>2. gauntlet' \in [pc: {"idle", "built"}, first: Builds, second: Builds]
  BY DEF Accept, GauntletTypes
<1>3. accepted' \in {None} \cup Outputs /\ captured' \in {None} \cup FileSets
  BY <1>1 DEF Accept, GauntletTypes, Receipt
<1> QED
  BY <1>2, <1>3 DEF Accept, GauntletTypes

\* So are the files that somebody puts in their place.
LEMMA SwapTypes == ASSUME GauntletTypes, SwapFiles PROVE accepted' \in Outputs /\ GauntletTypes'
<1>1. accepted \in Outputs
  BY DEF GauntletTypes, SwapFiles
<1>2. PICK build \in Replacements \cup {gauntlet.first} :
        accepted' \in {[files |-> Files(build), receipt |-> Receipt(Files(build))],
                       [accepted EXCEPT !.files = Files(build)],
                       [accepted EXCEPT !.files = [accepted.files EXCEPT !["curseforge"] = build["curseforge"]]]}
  BY DEF SwapFiles
<1>3. build \in Builds
  BY ReleasePromotionBounds DEF GauntletTypes
<1>4. Files(build) \in FileSets
  BY <1>3, FilesTyped
<1>5. build["curseforge"] \in Bytes
  BY <1>3 DEF Builds, Bytes, Archives
<1>6. [accepted.files EXCEPT !["curseforge"] = build["curseforge"]] \in FileSets
  BY <1>1, <1>5 DEF FileSets
<1>7. accepted' \in Outputs
  BY <1>1, <1>2, <1>4, <1>6 DEF Receipt
<1> QED
  BY <1>7 DEF SwapFiles, GauntletTypes

-----------------------------------------------------------------------------
(* Pushes.                                                                  *)

\* The history is an order in which a commit comes after what it has grown from.
LEMMA AncestryIsOrder ==
  /\ \A c \in Commits : Forward(c, c) /\ Ancestry[c] \subseteq Commits
  /\ \A a, b, c \in Commits : Forward(a, b) /\ Forward(b, c) => Forward(a, c)
  /\ \A c \in Commits : Forward(SHA, c) /\ Forward(c, SHA) => c = SHA
  BY DEF Ancestry, Forward

\* A push to dev that goes forward keeps the passes of CI, and no run is there
\* for a commit that its branch does not hold.
LEMMA DevPushed ==
  ASSUME PromotionTypes, RunsArePushed, NEW commit \in Commits,
         Pushed("dev", commit), Forward(remote.dev, commit)
  PROVE  /\ remote' = [remote EXCEPT !.dev = commit]
         /\ ci' \in [Watched -> Runs]
         /\ RunsArePushed'
         /\ Passed("dev") => Passed("dev")'
         /\ Passed("main") => Passed("main")'
<1>1. remote' = [remote EXCEPT !.dev = commit] /\ remote.dev \in Commits
  BY DEF Pushed, PromotionTypes, Remotes
<1>2. ci' = [run \in Watched |->
               IF run[1] # "dev" \/ remote.dev = commit THEN ci[run]
               ELSE IF run[2] = commit THEN "running"
               ELSE IF ci[run] = "running" THEN "failed" ELSE ci[run]]
  BY DEF Pushed, RunsAfter
<1>3. ci \in [Watched -> Runs]
  BY DEF PromotionTypes
<1>4. ci' \in [Watched -> Runs]
  BY <1>2, <1>3 DEF Runs
<1>5. ci'[<<"main", SHA>>] = ci[<<"main", SHA>>]
  BY <1>2
<1>6. ci'[<<"dev", SHA>>] = IF remote.dev = commit THEN ci[<<"dev", SHA>>]
                            ELSE IF SHA = commit THEN "running"
                            ELSE IF ci[<<"dev", SHA>>] = "running" THEN "failed" ELSE ci[<<"dev", SHA>>]
  BY <1>2
<1>7. ci[<<"dev", SHA>>] # "none" => Forward(SHA, remote.dev)
  BY DEF RunsArePushed
<1>8. ci[<<"main", SHA>>] # "none" => Forward(SHA, remote.main)
  BY DEF RunsArePushed
<1>9. ci'[<<"dev", SHA>>] # "none" => Forward(SHA, commit)
  BY <1>1, <1>6, <1>7, AncestryIsOrder
<1>10. RunsArePushed'
  <2>1. remote'.dev = commit /\ remote'.main = remote.main
    BY <1>1 DEF PromotionTypes, Remotes
  <2> QED
    BY <1>5, <1>8, <1>9, <2>1 DEF RunsArePushed
<1>11. Passed("dev") => Passed("dev")'
  BY <1>1, <1>6, <1>7, AncestryIsOrder DEF Passed
<1> QED
  BY <1>1, <1>4, <1>5, <1>10, <1>11 DEF Passed

\* So does a push to main.
LEMMA MainPushed ==
  ASSUME PromotionTypes, RunsArePushed, NEW commit \in Commits,
         Pushed("main", commit), Forward(remote.main, commit)
  PROVE  /\ remote' = [remote EXCEPT !.main = commit]
         /\ ci' \in [Watched -> Runs]
         /\ RunsArePushed'
         /\ Passed("dev") => Passed("dev")'
         /\ Passed("main") => Passed("main")'
<1>1. remote' = [remote EXCEPT !.main = commit] /\ remote.main \in Commits
  BY DEF Pushed, PromotionTypes, Remotes
<1>2. ci' = [run \in Watched |->
               IF run[1] # "main" \/ remote.main = commit THEN ci[run]
               ELSE IF run[2] = commit THEN "running"
               ELSE IF ci[run] = "running" THEN "failed" ELSE ci[run]]
  BY DEF Pushed, RunsAfter
<1>3. ci \in [Watched -> Runs]
  BY DEF PromotionTypes
<1>4. ci' \in [Watched -> Runs]
  BY <1>2, <1>3 DEF Runs
<1>5. ci'[<<"dev", SHA>>] = ci[<<"dev", SHA>>]
  BY <1>2
<1>6. ci'[<<"main", SHA>>] = IF remote.main = commit THEN ci[<<"main", SHA>>]
                            ELSE IF SHA = commit THEN "running"
                            ELSE IF ci[<<"main", SHA>>] = "running" THEN "failed" ELSE ci[<<"main", SHA>>]
  BY <1>2
<1>7. ci[<<"main", SHA>>] # "none" => Forward(SHA, remote.main)
  BY DEF RunsArePushed
<1>8. ci[<<"dev", SHA>>] # "none" => Forward(SHA, remote.dev)
  BY DEF RunsArePushed
<1>9. ci'[<<"main", SHA>>] # "none" => Forward(SHA, commit)
  BY <1>1, <1>6, <1>7, AncestryIsOrder
<1>10. RunsArePushed'
  <2>1. remote'.main = commit /\ remote'.dev = remote.dev
    BY <1>1 DEF PromotionTypes, Remotes
  <2> QED
    BY <1>5, <1>8, <1>9, <2>1 DEF RunsArePushed
<1>11. Passed("main") => Passed("main")'
  BY <1>1, <1>6, <1>7, AncestryIsOrder DEF Passed
<1> QED
  BY <1>1, <1>4, <1>5, <1>10, <1>11 DEF Passed

-----------------------------------------------------------------------------
(* What was noted.                                                          *)

USE NoneIsNothing

\* Nothing was noted at the beginning.
LEMMA InitNoted == Init => Noted
  BY DEF Init, Noted, NoPromotion, NoPublication

\* What leaves the gauntlet alone, and starts nothing before a digest was noted.
LEMMA NotedKept ==
  ASSUME Noted, UNCHANGED dist,
         captured = None => UNCHANGED <<promote.pc, publish.pc, releases, published>>
  PROVE  Noted'
  BY DEF Noted, VerifyPublicRelease, MetadataMatches, ChecksumsMatch, Candidate

\* No build is made in front of an output that is in the way.
LEMMA NotedByBuild == ASSUME Noted, Build PROVE Noted'
<1>1. accepted = None /\ captured = None
  BY DEF Build, Noted
<1> QED
  BY <1>1 DEF Build, Noted

\* The gauntlet notes only what passed.
LEMMA NotedByAccept == ASSUME ReleaseTypes, Noted, Accept PROVE Noted'
<1>1. captured = None /\ promote.pc = "idle" /\ publish.pc = "idle" /\ releases = <<>> /\ published = None
  BY DEF Accept, Noted
<1>2. gauntlet'.pc = "idle" /\ UNCHANGED <<flaw, promote, publish, releases, published>>
  BY DEF Accept, ReleaseTypes, GauntletTypes
<1>3. CASE captured' = None
  BY <1>1, <1>2, <1>3 DEF Noted
<1>4. CASE captured' # None
  <2> DEFINE files == Files(gauntlet.first)
  <2>1. /\ ClientInstalls /\ VerifyPublicRelease(files, flaw)
        /\ accepted' = [files |-> files, receipt |-> files] /\ captured' = files
    BY <1>1, <1>4 DEF Accept, Receipt
  <2>2. files \in FileSets
    BY FilesTyped DEF ReleaseTypes, GauntletTypes
  <2>3. accepted' # None
    BY <2>1, <2>2
  <2>4. VerifyPublicRelease(captured, flaw)'
    BY <1>2, <2>1 DEF VerifyPublicRelease, MetadataMatches, ChecksumsMatch
  <2>5. ExpectedPayload(Candidate)'
    BY <1>2, <2>1 DEF ClientInstalls, Candidate
  <2> QED
    BY <1>2, <1>4, <2>3, <2>4, <2>5 DEF Noted
<1> QED
  BY <1>3, <1>4

\* A replacement of files leaves the digest that was noted.
LEMMA NotedBySwap == ASSUME ReleaseTypes, Noted, SwapFiles PROVE Noted'
<1>1. accepted # None /\ UNCHANGED <<flaw, gauntlet, captured, releases, promote, publish, published>>
  BY DEF SwapFiles
<1>2. accepted' \in Outputs
  BY SwapTypes DEF ReleaseTypes
<1>3. accepted' # None
  BY <1>2
<1>4. VerifyPublicRelease(captured, flaw) => VerifyPublicRelease(captured, flaw)'
  BY <1>1 DEF VerifyPublicRelease, MetadataMatches, ChecksumsMatch
<1> QED
  BY <1>1, <1>3, <1>4 DEF Noted, Candidate

\* A promotion starts with a digest only.
LEMMA NotedByPromotion ==
  ASSUME Noted, StartPromotion \/ PromoteStep \/ PromotionEnds PROVE Noted'
<1>1. UNCHANGED dist
  BY DEF StartPromotion, PromoteStep, PromotionEnds, Promotion, PushDev, AwaitDev, SwitchMain, PushMain,
         AwaitMain, ParityBefore, LocalInstall, ProductionInstall, ParityAfter, Parity, TagLocally, PushTag, Return
<1>2. StartPromotion \/ promote.pc # "idle"
  BY DEF PromoteStep, PromotionEnds, Promotion, PushDev, AwaitDev, SwitchMain, PushMain,
         AwaitMain, ParityBefore, LocalInstall, ProductionInstall, ParityAfter, Parity, TagLocally, PushTag, Return
<1>3. captured # None
  BY <1>2 DEF StartPromotion, Noted
<1> QED
  BY <1>1, <1>3, NotedKept

\* So does a publication.
LEMMA NotedByPublication ==
  ASSUME Noted, StartPublication \/ PublishStep \/ PublicationEnds PROVE Noted'
<1>1. UNCHANGED dist
  BY DEF StartPublication, PublishStep, PublicationEnds, Publication, VerifyBefore, VerifyAgain, VerifyFiles,
         AwaitCandidateOnDev, AwaitCandidateOnMain, AwaitEvidence, AwaitRun, ValidateEvidence, Create, Upload,
         CheckDraft, CheckPublic, CheckState, AuthenticatedDownload, Publish, PublicDownload, Finish
<1>2. StartPublication \/ publish.pc # "idle"
  BY DEF PublishStep, PublicationEnds, Publication, VerifyBefore, VerifyAgain, VerifyFiles,
         AwaitCandidateOnDev, AwaitCandidateOnMain, AwaitEvidence, AwaitRun, ValidateEvidence, Create, Upload,
         CheckDraft, CheckPublic, CheckState, AuthenticatedDownload, Publish, PublicDownload, Finish
<1>3. captured # None
  BY <1>2 DEF StartPublication, Noted
<1> QED
  BY <1>1, <1>3, NotedKept

\* Nobody else starts or notes anything.
LEMMA NotedByRest == ASSUME ReleaseTypes, Noted, Operator \/ Others \/ GitHub PROVE Noted'
<1>1. CASE Operator
  BY <1>1, NotedKept DEF Operator, CommitEvidence, PushEvidence, SwitchBack, RerunCi, Pushed
<1>2. CASE GitHub
  BY <1>2, NotedKept DEF GitHub, Deploy, Expire, CiEnds
<1>3. CASE Interfere
  BY <1>3, NotedKept DEF Interfere, ReleaseTypes, PromotionTypes, Promotions
<1>4. CASE Retag \/ \E b \in {"dev", "main"} : OtherPush(b)
  BY <1>4, NotedKept DEF Retag, OtherPush, Pushed
<1>5. CASE \E i \in DOMAIN releases : EditRelease(i)
  <2>1. releases # <<>>
    BY <1>5
  <2>2. UNCHANGED dist
    BY <1>5 DEF EditRelease
  <2> QED
    BY <2>1, <2>2, NotedKept DEF Noted
<1> QED
  BY <1>1, <1>2, <1>3, <1>4, <1>5, NotedBySwap DEF Others

\* Every step keeps what was noted.
LEMMA NotedStep == ASSUME ReleaseTypes, Noted, [Next]_vars PROVE Noted'
<1>1. CASE UNCHANGED vars
  BY <1>1, NotedKept DEF vars
<1> QED
  BY <1>1, NotedByBuild, NotedByAccept, NotedByPromotion, NotedByPublication, NotedByRest DEF Next

\* What was noted is what clients get.
LEMMA NotedIsPack == ASSUME ReleaseTypes, Noted PROVE AcceptedIsPack
<1> SUFFICES ASSUME captured # None
             PROVE  /\ Installed(Contents("modrinth", captured["modrinth"], Candidate)) = ClientPack(Candidate)
                    /\ Installed(Contents("curseforge", captured["curseforge"], Candidate)) = ClientPack(Candidate)
                    /\ captured["prism"] = Sound /\ ExpectedPayload(Candidate)
  BY DEF AcceptedIsPack
<1>1. flaw \in Flaws
  BY DEF ReleaseTypes, GauntletTypes
<1>2. \A archive \in Archives : captured[archive] \in Passing[flaw][archive]
  BY DEF Noted, VerifyPublicRelease
<1>3. \A archive \in Archives : /\ captured[archive] \in Defects(archive)
                               /\ Inspect(archive, captured[archive], Tree(flaw))
  BY <1>1, <1>2 DEF Passing
<1>4. Installed(Contents("modrinth", captured["modrinth"], Tree(flaw))) = ClientPack(Tree(flaw))
  BY <1>1, <1>3, ModrinthInstalls DEF Archives
<1>5. Installed(Contents("curseforge", captured["curseforge"], Tree(flaw))) = ClientPack(Tree(flaw))
  BY <1>1, <1>3, CurseForgeInstalls DEF Archives
<1>6. captured["prism"] = Sound
  BY <1>1, <1>3, PrismIsSound DEF Archives
<1> QED
  BY <1>4, <1>5, <1>6 DEF Noted, Candidate

-----------------------------------------------------------------------------
(* The promotion.                                                           *)

\* No run and no promotion is there at the beginning.
LEMMA InitPromoting == Init => RunsArePushed /\ Promoting
  BY DEF Init, NoPromotion, RunsArePushed, Promoting, HEAD, AfterDev, AfterMain, Proven

\* A step that leaves the checkout, the branches, their runs and the promotion alone.
LEMMA PromotingKept ==
  ASSUME PromotionTypes, RunsArePushed, Promoting,
         UNCHANGED <<local, ci, promote, captured, remote.dev, remote.main>>
  PROVE  RunsArePushed' /\ Promoting'
<1>1. RunsArePushed'
  <2>1. /\ ci[<<"dev", SHA>>] # "none" => Forward(SHA, remote.dev)
        /\ ci[<<"main", SHA>>] # "none" => Forward(SHA, remote.main)
    BY DEF RunsArePushed
  <2> QED
    BY <2>1 DEF RunsArePushed
<1> QED
  BY <1>1 DEF Promoting, HEAD, Passed

\* An aborted promotion promises nothing.
LEMMA AbortPromoting ==
  ASSUME PromotionTypes, Aborts
  PROVE  /\ Promoting'
         /\ UNCHANGED promoted /\ promote' \in Promotions
         /\ local' \in Checkouts
<1>1. promote' = NoPromotion /\ UNCHANGED promoted
  BY DEF Aborts
<1>2. promote'.pc = "idle"
  BY <1>1 DEF NoPromotion
<1>5. promote' \in Promotions
  BY <1>1 DEF NoPromotion, Promotions, PromoteLabels
<1>3. Promoting'
  BY <1>2 DEF Promoting, AfterDev, AfterMain, Proven
<1>4. local' = local \/ local' = [local EXCEPT !.branch = "dev"]
  BY DEF Aborts
<1> QED
  BY <1>1, <1>3, <1>4, <1>5 DEF PromotionTypes, Checkouts

\* A promotion that moves on, with the checkout and the remote as they were.
LEMMA PromotionMoves ==
  ASSUME PromotionTypes, RunsArePushed, Promoting, UNCHANGED <<local, hub, captured>>,
         promote' \in Promotions, UNCHANGED promoted, promote'.raced = promote.raced,
         promote'.pc # "idle" => HEAD = SHA \/ promote.raced,
         promote'.pc \in AfterDev \cup {"await main"} \cup AfterMain => Passed("dev"),
         promote'.pc \in AfterMain => Passed("main"),
         promote'.pc \in Proven => promote'.got = "accepted" \/ promote.raced,
         promote'.pc # "push tag"
  PROVE  PromotionTypes' /\ RunsArePushed' /\ Promoting'
<1>1. PromotionTypes'
  BY DEF PromotionTypes
<1>2. RunsArePushed'
  <2>1. /\ ci[<<"dev", SHA>>] # "none" => Forward(SHA, remote.dev)
        /\ ci[<<"main", SHA>>] # "none" => Forward(SHA, remote.main)
    BY DEF RunsArePushed
  <2> QED
    BY <2>1 DEF RunsArePushed
<1>3. HEAD' = HEAD /\ Passed("dev")' = Passed("dev") /\ Passed("main")' = Passed("main")
  BY DEF HEAD, Passed
<1> QED
  BY <1>1, <1>2, <1>3 DEF Promoting

\* One that aborts.
LEMMA PromotionAborts ==
  ASSUME PromotionTypes, RunsArePushed, Aborts, UNCHANGED <<hub, captured>>
  PROVE  PromotionTypes' /\ RunsArePushed' /\ Promoting'
<1>1. promote' \in Promotions
  BY AbortPromoting
<1>2. PromotionTypes'
  BY <1>1, AbortPromoting DEF PromotionTypes
<1>3. RunsArePushed'
  <2>1. /\ ci[<<"dev", SHA>>] # "none" => Forward(SHA, remote.dev)
        /\ ci[<<"main", SHA>>] # "none" => Forward(SHA, remote.main)
    BY DEF RunsArePushed
  <2> QED
    BY <2>1 DEF RunsArePushed
<1> QED
  BY <1>2, <1>3, AbortPromoting

\* The checks of promote-release.sh put it in front of its first push.
LEMMA StartPromoting ==
  ASSUME PromotionTypes, RunsArePushed, Promoting, StartPromotion
  PROVE  PromotionTypes' /\ RunsArePushed' /\ Promoting'
<1>1. promote' \in Promotions /\ promote'.pc = "push dev" /\ promote'.raced = promote.raced
  BY DEF StartPromotion, Reaches, PromotionTypes, Promotions, PromoteLabels
<1> QED
  BY <1>1, PromotionMoves DEF StartPromotion, Promotion, Reaches, AfterDev, AfterMain, Proven

\* A push of HEAD, and what the script makes of its answer.
LEMMA PushDevPromoting ==
  ASSUME PromotionTypes, RunsArePushed, Promoting, PushDev
  PROVE  PromotionTypes' /\ RunsArePushed' /\ Promoting'
<1>1. CASE ~Forward(remote.dev, HEAD)
  BY <1>1, PromotionAborts DEF PushDev, Promotion, Push
<1>2. CASE Forward(remote.dev, HEAD)
  <2>1. Pushed("dev", HEAD) /\ UNCHANGED captured /\ promote.pc = "push dev"
    BY <1>2 DEF PushDev, Promotion, Push
  <2>2. HEAD \in Commits
    BY DEF HEAD, PromotionTypes, Checkouts
  <2>3. /\ remote' = [remote EXCEPT !.dev = HEAD] /\ ci' \in [Watched -> Runs] /\ RunsArePushed'
        /\ Passed("dev") => Passed("dev")'
        /\ Passed("main") => Passed("main")'
    BY <1>2, <2>1, <2>2, DevPushed
  <2>4. remote' \in Remotes /\ UNCHANGED <<pages, releases>>
    BY <2>1, <2>2, <2>3 DEF PromotionTypes, Pushed, Remotes
  <2>5. CASE Reaches("await dev") /\ UNCHANGED local
    <3>1. promote' \in Promotions /\ promote'.pc = "await dev" /\ promote'.raced = promote.raced
      BY <2>5 DEF Reaches, PromotionTypes, Promotions, PromoteLabels
    <3>2. HEAD' = HEAD
      BY <2>5 DEF HEAD
    <3>3. Promoting'
      BY <2>1, <3>1, <3>2 DEF Promoting, AfterDev, AfterMain, Proven
    <3> QED
      BY <2>3, <2>4, <2>5, <3>1, <3>3 DEF PromotionTypes, Reaches
  <2>6. CASE Aborts
    <3>1. promote' \in Promotions
      BY <2>6, AbortPromoting
    <3> QED
      BY <2>3, <2>4, <2>6, <3>1, AbortPromoting DEF PromotionTypes
  <2> QED
    BY <1>2, <2>5, <2>6 DEF PushDev, Push
<1> QED
  BY <1>1, <1>2

\* The push of main keeps what the push of dev has earned.
LEMMA PushMainPromoting ==
  ASSUME PromotionTypes, RunsArePushed, Promoting, PushMain
  PROVE  PromotionTypes' /\ RunsArePushed' /\ Promoting'
<1>1. CASE ~Forward(remote.main, HEAD)
  BY <1>1, PromotionAborts DEF PushMain, Promotion, Push
<1>2. CASE Forward(remote.main, HEAD)
  <2>1. Pushed("main", HEAD) /\ UNCHANGED captured /\ promote.pc = "push main"
    BY <1>2 DEF PushMain, Promotion, Push
  <2>2. HEAD \in Commits
    BY DEF HEAD, PromotionTypes, Checkouts
  <2>3. /\ remote' = [remote EXCEPT !.main = HEAD] /\ ci' \in [Watched -> Runs] /\ RunsArePushed'
        /\ Passed("dev") => Passed("dev")'
        /\ Passed("main") => Passed("main")'
    BY <1>2, <2>1, <2>2, MainPushed
  <2>4. remote' \in Remotes /\ UNCHANGED <<pages, releases>>
    BY <2>1, <2>2, <2>3 DEF PromotionTypes, Pushed, Remotes
  <2>5. CASE Reaches("await main") /\ UNCHANGED local
    <3>1. promote' \in Promotions /\ promote'.pc = "await main" /\ promote'.raced = promote.raced
      BY <2>5 DEF Reaches, PromotionTypes, Promotions, PromoteLabels
    <3>2. HEAD' = HEAD
      BY <2>5 DEF HEAD
    <3>4. Passed("dev")'
      BY <2>1, <2>3 DEF Promoting, AfterDev
    <3>3. Promoting'
      BY <2>1, <3>1, <3>2, <3>4 DEF Promoting, AfterDev, AfterMain, Proven
    <3> QED
      BY <2>3, <2>4, <2>5, <3>1, <3>3 DEF PromotionTypes, Reaches
  <2>6. CASE Aborts
    <3>1. promote' \in Promotions
      BY <2>6, AbortPromoting
    <3> QED
      BY <2>3, <2>4, <2>6, <3>1, AbortPromoting DEF PromotionTypes
  <2> QED
    BY <1>2, <2>5, <2>6 DEF PushMain, Push
<1> QED
  BY <1>1, <1>2

\* The pack a commit holds.
LEMMA PackOfCommit == /\ \A c \in Commits : PackOf[c] \in Packs
                      /\ PackOf[SHA] = "accepted"
  BY DEF PackOf

\* HEAD is a commit.
LEMMA HeadTyped == ASSUME PromotionTypes PROVE HEAD \in Commits
  BY DEF HEAD, PromotionTypes, Checkouts

\* A step of the script that sets what it waits for, or what was installed.
LEMMA WantsTyped ==
  ASSUME PromotionTypes, NEW pc \in PromoteLabels
  PROVE  [promote EXCEPT !.pc = pc, !.wants = PackOf[HEAD]] \in Promotions
  BY HeadTyped, PackOfCommit DEF PromotionTypes, Promotions

\* The script leaves dev with its CI passed, ...
LEMMA AwaitDevPromoting ==
  ASSUME PromotionTypes, RunsArePushed, Promoting, AwaitDev
  PROVE  PromotionTypes' /\ RunsArePushed' /\ Promoting'
<1>1. UNCHANGED hub /\ UNCHANGED captured /\ promote.pc = "await dev"
  BY DEF AwaitDev, Promotion, AwaitCi
<1>2. CASE ~Passed("dev")
  BY <1>1, <1>2, PromotionAborts DEF AwaitDev, AwaitCi, Passed
<1>3. CASE Passed("dev")
  <2>1. promote' = [promote EXCEPT !.pc = "switch", !.wants = PackOf[HEAD]] /\ UNCHANGED <<promoted, local>>
    BY <1>3 DEF AwaitDev, AwaitCi, Passed
  <2>2. "switch" \in PromoteLabels
    BY DEF PromoteLabels
  <2>3. promote' \in Promotions
    BY <2>1, <2>2, WantsTyped
  <2>4. promote'.pc = "switch" /\ promote'.raced = promote.raced
    BY <2>1 DEF PromotionTypes, Promotions
  <2>5. HEAD = SHA \/ promote.raced
    BY <1>1 DEF Promoting
  <2> QED
    BY <1>1, <1>3, <2>1, <2>3, <2>4, <2>5, PromotionMoves DEF AfterDev, AfterMain, Proven
<1> QED
  BY <1>2, <1>3

\* ... and main too.
LEMMA AwaitMainPromoting ==
  ASSUME PromotionTypes, RunsArePushed, Promoting, AwaitMain
  PROVE  PromotionTypes' /\ RunsArePushed' /\ Promoting'
<1>1. UNCHANGED hub /\ UNCHANGED captured /\ promote.pc = "await main"
  BY DEF AwaitMain, Promotion, AwaitCi
<1>2. CASE ~Passed("main")
  BY <1>1, <1>2, PromotionAborts DEF AwaitMain, AwaitCi, Passed
<1>3. CASE Passed("main")
  <2>1. promote' = [promote EXCEPT !.pc = "parity", !.wants = PackOf[HEAD]] /\ UNCHANGED <<promoted, local>>
    BY <1>3 DEF AwaitMain, AwaitCi, Passed
  <2>2. "parity" \in PromoteLabels
    BY DEF PromoteLabels
  <2>3. promote' \in Promotions
    BY <2>1, <2>2, WantsTyped
  <2>4. promote'.pc = "parity" /\ promote'.raced = promote.raced
    BY <2>1 DEF PromotionTypes, Promotions
  <2>5. (HEAD = SHA \/ promote.raced) /\ Passed("dev")
    BY <1>1 DEF Promoting
  <2> QED
    BY <1>1, <1>3, <2>1, <2>3, <2>4, <2>5, PromotionMoves DEF AfterDev, AfterMain, Proven
<1> QED
  BY <1>2, <1>3

\* After the CI of main the script only moves on, or aborts.
LEMMA ProvedPromoting ==
  ASSUME PromotionTypes, RunsArePushed, Promoting, promote.pc \in AfterMain,
         ParityBefore \/ LocalInstall \/ ProductionInstall \/ ParityAfter
  PROVE  PromotionTypes' /\ RunsArePushed' /\ Promoting'
<1>1. UNCHANGED hub /\ UNCHANGED captured
  BY DEF ParityBefore, LocalInstall, ProductionInstall, ParityAfter, Parity, Promotion
<1>2. CASE Aborts
  BY <1>1, <1>2, PromotionAborts
<1>3. CASE ~Aborts
  <2>1. (HEAD = SHA \/ promote.raced) /\ Passed("dev") /\ Passed("main")
    BY DEF Promoting, AfterMain
  <2>2. UNCHANGED <<promoted, local>>
    BY <1>3 DEF ParityBefore, LocalInstall, ProductionInstall, ParityAfter, Parity, Reaches
  <2>3. HEAD \in Commits /\ PackOf[HEAD] \in Packs
    BY HeadTyped, PackOfCommit
  <2>4. CASE ParityBefore
    <3>1. promote' = [promote EXCEPT !.pc = "local install"]
      BY <1>3, <2>4 DEF ParityBefore, Parity, Reaches
    <3>2. promote' \in Promotions /\ promote'.pc = "local install" /\ promote'.raced = promote.raced
      BY <3>1 DEF PromotionTypes, Promotions, PromoteLabels
    <3> QED
      BY <1>1, <2>1, <2>2, <3>2, PromotionMoves DEF Proven
  <2>5. CASE LocalInstall
    <3>1. promote' = [promote EXCEPT !.pc = "production install", !.wants = PackOf[HEAD]]
      BY <1>3, <2>5 DEF LocalInstall
    <3>2. promote' \in Promotions /\ promote'.pc = "production install" /\ promote'.raced = promote.raced
      BY <2>3, <3>1 DEF PromotionTypes, Promotions, PromoteLabels
    <3> QED
      BY <1>1, <2>1, <2>2, <3>2, PromotionMoves DEF Proven
  <2>6. CASE ProductionInstall
    <3>1. /\ promote' = [promote EXCEPT !.pc = "parity again", !.got = Served, !.wants = PackOf[HEAD]]
          /\ Served = PackOf[HEAD]
      BY <1>3, <2>6 DEF ProductionInstall
    <3>2. promote' \in Promotions /\ promote'.pc = "parity again" /\ promote'.raced = promote.raced
      BY <2>3, <3>1 DEF PromotionTypes, Promotions, PromoteLabels
    <3>3. promote'.got = PackOf[HEAD]
      BY <3>1 DEF PromotionTypes, Promotions
    <3>4. promote'.got = "accepted" \/ promote.raced
      BY <2>1, <3>3, PackOfCommit
    <3> QED
      BY <1>1, <2>1, <2>2, <3>2, <3>4, PromotionMoves
  <2>7. CASE ParityAfter
    <3>1. promote' = [promote EXCEPT !.pc = "tag"] /\ promote.pc = "parity again"
      BY <1>3, <2>7 DEF ParityAfter, Parity, Reaches, Promotion
    <3>2. /\ promote' \in Promotions /\ promote'.pc = "tag" /\ promote'.raced = promote.raced
          /\ promote'.got = promote.got
      BY <3>1 DEF PromotionTypes, Promotions, PromoteLabels
    <3>3. promote.got = "accepted" \/ promote.raced
      BY <3>1 DEF Promoting, Proven
    <3> QED
      BY <1>1, <2>1, <2>2, <3>2, <3>3, PromotionMoves
  <2> QED
    BY <2>4, <2>5, <2>6, <2>7
<1> QED
  BY <1>2, <1>3

\* The runs stay those of pushed commits while nobody pushes.
LEMMA RunsKept ==
  ASSUME RunsArePushed, UNCHANGED <<ci, remote.dev, remote.main>>
  PROVE  RunsArePushed'
<1>1. /\ ci[<<"dev", SHA>>] # "none" => Forward(SHA, remote.dev)
      /\ ci[<<"main", SHA>>] # "none" => Forward(SHA, remote.main)
  BY DEF RunsArePushed
<1> QED
  BY <1>1 DEF RunsArePushed

\* A promotion that is over is one.
LEMMA IdleTyped == NoPromotion \in Promotions /\ NoPromotion.pc = "idle"
  BY DEF NoPromotion, Promotions, PromoteLabels

\* The script stands on main with the commit, or gives up.
LEMMA SwitchPromoting ==
  ASSUME PromotionTypes, RunsArePushed, Promoting, SwitchMain
  PROVE  PromotionTypes' /\ RunsArePushed' /\ Promoting'
<1>1. UNCHANGED hub /\ UNCHANGED captured /\ UNCHANGED promoted /\ promote.pc = "switch"
  BY DEF SwitchMain, Promotion
<1>2. RunsArePushed'
  BY <1>1, RunsKept
<1>3. CASE Forward(local.main, SHA)
  <2>1. /\ local' = [local EXCEPT !.branch = "main", !.main = SHA]
        /\ promote' = [promote EXCEPT !.pc = "push main", !.switched = TRUE]
    BY <1>3 DEF SwitchMain
  <2>2. local' \in Checkouts /\ local'.branch = "main" /\ local'.main = SHA
    BY <2>1 DEF PromotionTypes, Checkouts
  <2>3. promote' \in Promotions /\ promote'.pc = "push main"
    BY <2>1 DEF PromotionTypes, Promotions, PromoteLabels
  <2>4. HEAD' = SHA
    BY <2>2 DEF HEAD
  <2>5. Passed("dev")'
    BY <1>1 DEF Promoting, AfterDev, Passed
  <2> QED
    BY <1>1, <1>2, <2>2, <2>3, <2>4, <2>5 DEF PromotionTypes, Promoting, AfterMain, Proven
<1>4. CASE ~Forward(local.main, SHA)
  <2>1. local' = [local EXCEPT !.branch = "dev"] /\ promote' = NoPromotion
    BY <1>4 DEF SwitchMain
  <2>2. local' \in Checkouts
    BY <2>1 DEF PromotionTypes, Checkouts
  <2> QED
    BY <1>1, <1>2, <2>1, <2>2, IdleTyped DEF PromotionTypes, Promoting, AfterDev, AfterMain, Proven
<1> QED
  BY <1>3, <1>4

\* It goes back to dev at the end.
LEMMA ReturnPromoting ==
  ASSUME PromotionTypes, RunsArePushed, Promoting, Return
  PROVE  PromotionTypes' /\ RunsArePushed' /\ Promoting'
<1>1. UNCHANGED hub /\ promote' = NoPromotion /\ promoted' = TRUE /\ local' = [local EXCEPT !.branch = "dev"]
  BY DEF Return, Promotion
<1>2. local' \in Checkouts
  BY <1>1 DEF PromotionTypes, Checkouts
<1> QED
  BY <1>1, <1>2, RunsKept, IdleTyped DEF PromotionTypes, Promoting, AfterDev, AfterMain, Proven

\* A failure or a kill leaves it nowhere.
LEMMA EndPromoting ==
  ASSUME PromotionTypes, RunsArePushed, Promoting, PromotionEnds
  PROVE  PromotionTypes' /\ RunsArePushed' /\ Promoting'
<1>1. UNCHANGED hub /\ UNCHANGED captured
  BY DEF PromotionEnds
<1>2. CASE Aborts
  BY <1>1, <1>2, PromotionAborts
<1>3. CASE promote' = NoPromotion /\ UNCHANGED <<promoted, local>>
  BY <1>1, <1>3, RunsKept, IdleTyped DEF PromotionTypes, Promoting, AfterDev, AfterMain, Proven
<1> QED
  BY <1>2, <1>3 DEF PromotionEnds

\* The tag names the commit and the digest that was noted.
LEMMA TagPromoting ==
  ASSUME PromotionTypes, RunsArePushed, Promoting, captured \in FileSets, TagLocally
  PROVE  PromotionTypes' /\ RunsArePushed' /\ Promoting'
<1>1. UNCHANGED hub /\ UNCHANGED captured /\ promote.pc = "tag"
  BY DEF TagLocally, Promotion
<1>2. CASE local.tag # None
  BY <1>1, <1>2, PromotionAborts DEF TagLocally
<1>3. CASE local.tag = None
  <2>1. /\ local' = [local EXCEPT !.tag = Tag(SHA, captured)] /\ UNCHANGED promoted
        /\ promote' = [promote EXCEPT !.pc = "push tag"]
    BY <1>3 DEF TagLocally, Reaches
  <2>2. Tag(SHA, captured) \in Tags
    OBVIOUS
  <2>3. local' \in Checkouts /\ local'.tag = Tag(SHA, captured) /\ HEAD' = HEAD
    BY <2>1, <2>2 DEF PromotionTypes, Checkouts, HEAD
  <2>4. /\ promote' \in Promotions /\ promote'.pc = "push tag" /\ promote'.raced = promote.raced
        /\ promote'.got = promote.got
    BY <2>1 DEF PromotionTypes, Promotions, PromoteLabels
  <2>5. /\ HEAD = SHA \/ promote.raced
        /\ promote.got = "accepted" \/ promote.raced
        /\ Passed("dev") /\ Passed("main")
    BY <1>1 DEF Promoting, AfterMain, Proven
  <2>6. Passed("dev")' /\ Passed("main")'
    BY <1>1, <2>5 DEF Passed
  <2>7. Promoting'
    BY <1>1, <2>3, <2>4, <2>5, <2>6 DEF Promoting
  <2> QED
    BY <1>1, <2>1, <2>3, <2>4, <2>7, RunsKept DEF PromotionTypes
<1> QED
  BY <1>2, <1>3

\* The push of the tag leaves the branches alone.
LEMMA PushTagPromoting ==
  ASSUME PromotionTypes, RunsArePushed, Promoting, PushTag
  PROVE  PromotionTypes' /\ RunsArePushed' /\ Promoting'
<1>1. UNCHANGED <<ci, pages, releases, captured, promoted>> /\ promote.pc = "push tag"
  BY DEF PushTag, Promotion, Reaches, Aborts
<1>2. remote' = remote \/ remote' = [remote EXCEPT !.tag = local.tag]
  BY DEF PushTag
<1>3. remote' \in Remotes /\ remote'.dev = remote.dev /\ remote'.main = remote.main
  BY <1>2 DEF PromotionTypes, Remotes, Checkouts
<1>4. RunsArePushed'
  BY <1>1, <1>3, RunsKept
<1>5. CASE Aborts
  BY <1>1, <1>3, <1>4, <1>5, AbortPromoting DEF PromotionTypes
<1>6. CASE Reaches("return") /\ UNCHANGED local
  <2>1. /\ promote' \in Promotions /\ promote'.pc = "return" /\ promote'.raced = promote.raced
        /\ promote'.got = promote.got
    BY <1>6 DEF PromotionTypes, Promotions, PromoteLabels, Reaches
  <2>2. /\ HEAD = SHA \/ promote.raced
        /\ promote.got = "accepted" \/ promote.raced
        /\ Passed("dev") /\ Passed("main")
    BY <1>1 DEF Promoting, AfterMain, Proven
  <2>3. HEAD' = HEAD /\ Passed("dev")' /\ Passed("main")'
    BY <1>1, <1>6, <2>2 DEF Passed, HEAD
  <2>4. Promoting'
    BY <2>1, <2>2, <2>3 DEF Promoting
  <2> QED
    BY <1>1, <1>3, <1>4, <1>6, <2>1, <2>4 DEF PromotionTypes
<1> QED
  BY <1>5, <1>6 DEF PushTag

\* Every step of promote-release.sh has earned where it stands.
LEMMA PromoteStepPromoting ==
  ASSUME PromotionTypes, RunsArePushed, Promoting, promote.pc # "idle" => captured \in FileSets, PromoteStep
  PROVE  PromotionTypes' /\ RunsArePushed' /\ Promoting'
<1>1. TagLocally => captured \in FileSets
  BY DEF TagLocally, Promotion
<1>2. ParityBefore \/ LocalInstall \/ ProductionInstall \/ ParityAfter => promote.pc \in AfterMain
  BY DEF ParityBefore, LocalInstall, ProductionInstall, ParityAfter, Parity, Promotion, AfterMain
<1> QED
  BY <1>1, <1>2, PushDevPromoting, AwaitDevPromoting, SwitchPromoting, PushMainPromoting, AwaitMainPromoting,
     ProvedPromoting, TagPromoting, PushTagPromoting, ReturnPromoting DEF PromoteStep

\* The other steps and the promotion.
LEMMA GauntletPromoting ==
  ASSUME ReleaseTypes, Noted, RunsArePushed, Promoting, Build \/ Accept
  PROVE  PromotionTypes' /\ RunsArePushed' /\ Promoting'
<1>1. UNCHANGED <<local, hub, promote, promoted>>
  BY DEF Build, Accept
<1>2. PromotionTypes'
  BY <1>1 DEF ReleaseTypes, PromotionTypes
<1>3. CASE UNCHANGED captured
  BY <1>1, <1>2, <1>3, PromotingKept DEF ReleaseTypes
<1>4. CASE captured' # captured
  <2>1. Accept /\ captured = None
    BY <1>4 DEF Build, Accept, Noted
  <2>2. promote'.pc = "idle"
    BY <1>1, <2>1 DEF Noted
  <2> QED
    BY <1>1, <1>2, <2>2, RunsKept DEF Promoting, AfterDev, AfterMain, Proven
<1> QED
  BY <1>3, <1>4

\* A publication takes nothing of that away: it may make a tag.
LEMMA PublicationPromoting ==
  ASSUME PromotionTypes, RunsArePushed, Promoting, StartPublication \/ PublishStep \/ PublicationEnds
  PROVE  PromotionTypes' /\ RunsArePushed' /\ Promoting'
<1>1. UNCHANGED <<local, ci, pages, promote, promoted>> /\ UNCHANGED dist
  BY DEF StartPublication, PublishStep, PublicationEnds, Publication, VerifyBefore, VerifyAgain, VerifyFiles,
         AwaitCandidateOnDev, AwaitCandidateOnMain, AwaitEvidence, AwaitRun, ValidateEvidence, Create, Upload,
         CheckDraft, CheckPublic, CheckState, AuthenticatedDownload, Publish, PublicDownload, Finish
<1>2. remote' = remote \/ remote' = [remote EXCEPT !.tag = Tag(remote.main, None)]
  BY DEF StartPublication, PublishStep, PublicationEnds, VerifyBefore, VerifyAgain, VerifyFiles, Quiet,
         AwaitCandidateOnDev, AwaitCandidateOnMain, AwaitEvidence, AwaitRun, ValidateEvidence, Create, Upload,
         CheckDraft, CheckPublic, CheckState, AuthenticatedDownload, Publish, PublicDownload, Finish
<1>3. remote' \in Remotes /\ remote'.dev = remote.dev /\ remote'.main = remote.main
  BY <1>2 DEF PromotionTypes, Remotes
<1> QED
  BY <1>1, <1>3, PromotingKept DEF PromotionTypes

\* Neither does GitHub: a run that passed stays passed.
LEMMA GitHubPromoting ==
  ASSUME PromotionTypes, RunsArePushed, Promoting, GitHub
  PROVE  PromotionTypes' /\ RunsArePushed' /\ Promoting'
<1>1. CASE Deploy \/ \E file \in {"pack", "index"} : Expire(file)
  <2>1. UNCHANGED <<local, ci, promote, promoted, captured, remote>>
    BY <1>1 DEF Deploy, Expire
  <2>2. pages' \in [origin: Packs, pack: Packs, index: Packs]
    <3>1. remote.main \in Commits /\ pages \in [origin: Packs, pack: Packs, index: Packs]
      BY DEF PromotionTypes, Remotes
    <3>2. PackOf[remote.main] \in Packs
      BY <3>1, PackOfCommit
    <3>3. CASE Deploy
      BY <3>1, <3>2, <3>3 DEF Deploy
    <3>4. CASE Expire("pack") \/ Expire("index")
      BY <3>1, <3>4 DEF Expire
    <3> QED
      BY <1>1, <3>3, <3>4
  <2> QED
    BY <2>1, <2>2, PromotingKept DEF PromotionTypes
<1>2. CASE \E run \in Watched : CiEnds(run)
  <2>1. PICK run \in Watched : CiEnds(run)
    BY <1>2
  <2>2. UNCHANGED <<local, remote, pages, promote, promoted, captured>> /\ ci[run] = "running"
    BY <2>1 DEF CiEnds
  <2>3. ci' = [ci EXCEPT ![run] = "passed"] \/ ci' = [ci EXCEPT ![run] = "failed"]
    BY <2>1 DEF CiEnds
  <2>4. ci' \in [Watched -> Runs]
    BY <2>3 DEF PromotionTypes, Runs
  <2>5. \A r \in Watched : /\ ci'[r] # "none" => ci[r] # "none"
                           /\ ci[r] = "passed" => ci'[r] = "passed"
    BY <2>2, <2>3 DEF PromotionTypes
  <2>6. RunsArePushed'
    <3>1. /\ ci[<<"dev", SHA>>] # "none" => Forward(SHA, remote.dev)
          /\ ci[<<"main", SHA>>] # "none" => Forward(SHA, remote.main)
      BY DEF RunsArePushed
    <3>2. <<"dev", SHA>> \in Watched /\ <<"main", SHA>> \in Watched
      OBVIOUS
    <3>3. ci'[<<"dev", SHA>>] # "none" => ci[<<"dev", SHA>>] # "none"
      BY <2>5, <3>2
    <3>4. ci'[<<"main", SHA>>] # "none" => ci[<<"main", SHA>>] # "none"
      BY <2>5, <3>2
    <3> QED
      BY <2>2, <3>1, <3>3, <3>4 DEF RunsArePushed
  <2>7. (Passed("dev") => Passed("dev")') /\ (Passed("main") => Passed("main")')
    BY <2>5 DEF Passed
  <2>8. Promoting'
    BY <2>2, <2>7 DEF Promoting, HEAD
  <2> QED
    BY <2>2, <2>4, <2>6, <2>8 DEF PromotionTypes
<1> QED
  BY <1>1, <1>2 DEF GitHub

\* Neither does the operator, who reruns only what failed.
LEMMA OperatorPromoting ==
  ASSUME PromotionTypes, RunsArePushed, Promoting, Operator
  PROVE  PromotionTypes' /\ RunsArePushed' /\ Promoting'
<1>1. CASE CommitEvidence \/ SwitchBack
  <2>1. UNCHANGED <<hub, promote, promoted>> /\ promote.pc = "idle"
    BY <1>1 DEF CommitEvidence, SwitchBack
  <2>2. local' \in Checkouts
    BY <1>1 DEF CommitEvidence, SwitchBack, PromotionTypes, Checkouts
  <2> QED
    BY <2>1, <2>2, RunsKept DEF PromotionTypes, Promoting, AfterDev, AfterMain, Proven
<1>2. CASE PushEvidence
  <2>1. /\ UNCHANGED <<local, promote, promoted>> /\ promote.pc = "idle" /\ Pushed("dev", "evidence")
        /\ Forward(remote.dev, "evidence")
    BY <1>2 DEF PushEvidence
  <2>2. /\ remote' = [remote EXCEPT !.dev = "evidence"] /\ ci' \in [Watched -> Runs] /\ RunsArePushed'
    BY <2>1, DevPushed
  <2>3. remote' \in Remotes /\ UNCHANGED pages
    BY <2>1, <2>2 DEF PromotionTypes, Remotes, Pushed
  <2> QED
    BY <2>1, <2>2, <2>3 DEF PromotionTypes, Promoting, AfterDev, AfterMain, Proven
<1>3. CASE \E run \in Watched : RerunCi(run)
  <2>1. PICK run \in Watched : RerunCi(run)
    BY <1>3
  <2>2. UNCHANGED <<local, remote, pages, promote, promoted, captured>> /\ ci[run] = "failed"
    BY <2>1 DEF RerunCi
  <2>3. ci' = [ci EXCEPT ![run] = "running"]
    BY <2>1 DEF RerunCi
  <2>4. ci' \in [Watched -> Runs]
    BY <2>3 DEF PromotionTypes, Runs
  <2>5. \A r \in Watched : /\ ci'[r] # "none" => ci[r] # "none"
                           /\ ci[r] = "passed" => ci'[r] = "passed"
    BY <2>2, <2>3 DEF PromotionTypes
  <2>6. RunsArePushed'
    <3>1. /\ ci[<<"dev", SHA>>] # "none" => Forward(SHA, remote.dev)
          /\ ci[<<"main", SHA>>] # "none" => Forward(SHA, remote.main)
      BY DEF RunsArePushed
    <3>2. <<"dev", SHA>> \in Watched /\ <<"main", SHA>> \in Watched
      OBVIOUS
    <3>3. ci'[<<"dev", SHA>>] # "none" => ci[<<"dev", SHA>>] # "none"
      BY <2>5, <3>2
    <3>4. ci'[<<"main", SHA>>] # "none" => ci[<<"main", SHA>>] # "none"
      BY <2>5, <3>2
    <3> QED
      BY <2>2, <3>1, <3>3, <3>4 DEF RunsArePushed
  <2>7. (Passed("dev") => Passed("dev")') /\ (Passed("main") => Passed("main")')
    BY <2>5 DEF Passed
  <2>8. Promoting'
    BY <2>2, <2>7 DEF Promoting, HEAD
  <2> QED
    BY <2>2, <2>4, <2>6, <2>8 DEF PromotionTypes
<1> QED
  BY <1>1, <1>2, <1>3 DEF Operator

\* Work in the checkout is what the promotion is raced by.
LEMMA InterferePromoting ==
  ASSUME PromotionTypes, RunsArePushed, Promoting, Interfere
  PROVE  PromotionTypes' /\ RunsArePushed' /\ Promoting'
<1>1. /\ UNCHANGED <<hub, promoted, captured>>
      /\ promote' = [promote EXCEPT !.raced = promote.pc # "idle"]
  BY DEF Interfere
<1>2. local' \in Checkouts /\ local'.tag = local.tag
  <2>1. CASE \E commit \in {"evidence", "other"} :
               local' = IF local.branch = "dev" THEN [local EXCEPT !.dev = commit] ELSE [local EXCEPT !.main = commit]
    BY <2>1 DEF PromotionTypes, Checkouts
  <2>2. CASE local' = [local EXCEPT !.branch = IF @ = "dev" THEN "main" ELSE "dev"]
    BY <2>2 DEF PromotionTypes, Checkouts
  <2> QED
    BY <2>1, <2>2 DEF Interfere
<1>3. /\ promote' \in Promotions /\ promote'.pc = promote.pc /\ promote'.got = promote.got
      /\ promote.pc # "idle" => promote'.raced
  BY <1>1 DEF PromotionTypes, Promotions
<1>4. Passed("dev")' = Passed("dev") /\ Passed("main")' = Passed("main")
  BY <1>1 DEF Passed
<1>5. Promoting'
  <2>1. CASE promote.pc = "idle"
    BY <1>3, <2>1 DEF Promoting, AfterDev, AfterMain, Proven
  <2>2. CASE promote.pc # "idle"
    BY <1>1, <1>2, <1>3, <1>4, <2>2 DEF Promoting
  <2> QED
    BY <2>1, <2>2
<1> QED
  BY <1>1, <1>2, <1>3, <1>5, RunsKept DEF PromotionTypes

\* A push by others keeps the passes.
LEMMA OtherPushPromoting ==
  ASSUME PromotionTypes, RunsArePushed, Promoting, OtherPush("dev") \/ OtherPush("main")
  PROVE  PromotionTypes' /\ RunsArePushed' /\ Promoting'
<1>1. UNCHANGED <<local, promote, promoted, captured, pages>>
  BY DEF OtherPush, Pushed
<1>2. /\ remote' \in Remotes /\ ci' \in [Watched -> Runs] /\ RunsArePushed'
      /\ Passed("dev") => Passed("dev")'
      /\ Passed("main") => Passed("main")'
  <2>1. CASE OtherPush("dev")
    <3>1. Pushed("dev", "other") /\ Forward(remote.dev, "other")
      BY <2>1 DEF OtherPush
    <3>2. /\ remote' = [remote EXCEPT !.dev = "other"] /\ ci' \in [Watched -> Runs] /\ RunsArePushed'
          /\ Passed("dev") => Passed("dev")'
          /\ Passed("main") => Passed("main")'
      BY <3>1, DevPushed
    <3> QED
      BY <3>2 DEF PromotionTypes, Remotes
  <2>2. CASE OtherPush("main")
    <3>1. Pushed("main", "other") /\ Forward(remote.main, "other")
      BY <2>2 DEF OtherPush
    <3>2. /\ remote' = [remote EXCEPT !.main = "other"] /\ ci' \in [Watched -> Runs] /\ RunsArePushed'
          /\ Passed("dev") => Passed("dev")'
          /\ Passed("main") => Passed("main")'
      BY <3>1, MainPushed
    <3> QED
      BY <3>2 DEF PromotionTypes, Remotes
  <2> QED
    BY <2>1, <2>2
<1>3. Promoting'
  BY <1>1, <1>2 DEF Promoting, HEAD
<1> QED
  BY <1>1, <1>2, <1>3 DEF PromotionTypes

\* Nobody else takes away what was earned.
LEMMA OthersPromoting ==
  ASSUME PromotionTypes, RunsArePushed, Promoting, Others
  PROVE  PromotionTypes' /\ RunsArePushed' /\ Promoting'
<1>1. CASE SwapFiles \/ \E i \in DOMAIN releases : EditRelease(i)
  <2>1. UNCHANGED <<local, ci, pages, promote, promoted, captured, remote>>
    BY <1>1 DEF SwapFiles, EditRelease
  <2> QED
    BY <2>1, PromotingKept DEF PromotionTypes
<1>2. CASE Retag
  <2>1. UNCHANGED <<local, ci, pages, promote, promoted, captured>>
    BY <1>2 DEF Retag
  <2>2. Tag("other", None) \in Tags
    OBVIOUS
  <2>3. PICK tag \in {None} \cup Tags : remote' = [remote EXCEPT !.tag = tag]
    BY <1>2, <2>2 DEF Retag
  <2>4. remote' \in Remotes /\ remote'.dev = remote.dev /\ remote'.main = remote.main
    BY <2>3 DEF PromotionTypes, Remotes
  <2> QED
    BY <2>1, <2>4, PromotingKept DEF PromotionTypes
<1> QED
  BY <1>1, <1>2, InterferePromoting, OtherPushPromoting DEF Others

\* Every step keeps what the promotion has earned.
LEMMA PromotionStep ==
  ASSUME ReleaseTypes, Noted, RunsArePushed, Promoting, [Next]_vars
  PROVE  PromotionTypes' /\ RunsArePushed' /\ Promoting'
<1>1. PromotionTypes /\ (promote.pc # "idle" => captured \in FileSets)
  BY DEF ReleaseTypes, GauntletTypes, Noted
<1>2. CASE UNCHANGED vars
  BY <1>1, <1>2, PromotingKept DEF vars, PromotionTypes
<1> QED
  BY <1>1, <1>2, GauntletPromoting, StartPromoting, PromoteStepPromoting, EndPromoting, PublicationPromoting,
     OperatorPromoting, OthersPromoting, GitHubPromoting DEF Next

\* What the script changes at GitHub.
LEMMA PromotionPushes ==
  ASSUME PromotionTypes, RunsArePushed, [Next]_vars, promote' # promote
  PROVE  \/ remote' = remote
         \/ promote.pc = "push dev" /\ remote' = [remote EXCEPT !.dev = HEAD]
         \/ promote.pc = "push main" /\ remote' = [remote EXCEPT !.main = HEAD]
         \/ promote.pc = "push tag" /\ remote' = [remote EXCEPT !.tag = local.tag]
<1>1. CASE StartPromotion \/ PromotionEnds \/ Interfere
  BY <1>1 DEF StartPromotion, PromotionEnds, Interfere
<1>2. CASE PromoteStep
  <2>1. CASE PushDev
    BY <2>1 DEF PushDev, Promotion, Push, Pushed, PromotionTypes, Remotes
  <2>2. CASE PushMain
    BY <2>2 DEF PushMain, Promotion, Push, Pushed, PromotionTypes, Remotes
  <2>3. CASE PushTag
    BY <2>3 DEF PushTag, Promotion
  <2>4. CASE ~PushDev /\ ~PushMain /\ ~PushTag
    BY <1>2, <2>4 DEF PromoteStep, AwaitDev, AwaitMain, AwaitCi, SwitchMain, ParityBefore, ParityAfter, Parity,
       LocalInstall, ProductionInstall, TagLocally, Return
  <2> QED
    BY <2>1, <2>2, <2>3, <2>4
<1>3. CASE Build \/ Accept
  BY <1>3 DEF Build, Accept
<1>4. CASE StartPublication \/ PublishStep \/ PublicationEnds
  BY <1>4 DEF StartPublication, PublishStep, PublicationEnds, Publication, VerifyBefore, VerifyAgain, VerifyFiles,
         AwaitCandidateOnDev, AwaitCandidateOnMain, AwaitEvidence, AwaitRun, ValidateEvidence, Create, Upload,
         CheckDraft, CheckPublic, CheckState, AuthenticatedDownload, Publish, PublicDownload, Finish
<1>5. CASE Operator \/ GitHub
  BY <1>5 DEF Operator, CommitEvidence, PushEvidence, SwitchBack, RerunCi, GitHub, Deploy, Expire, CiEnds
<1>6. CASE SwapFiles \/ Retag \/ (\E b \in {"dev", "main"} : OtherPush(b)) \/ \E i \in DOMAIN releases : EditRelease(i)
  BY <1>6 DEF SwapFiles, Retag, OtherPush, EditRelease
<1>7. CASE UNCHANGED vars
  BY <1>7 DEF vars
<1> QED
  BY <1>1, <1>2, <1>3, <1>4, <1>5, <1>6, <1>7 DEF Next, Others

\* What the script pushes was earned: the formula of PushesAreEarned for one step.
LEMMA PushesStep ==
  ASSUME ReleaseTypes, Noted, RunsArePushed, Promoting, [Next]_vars
  PROVE  LET pushes(ref) == promote' # promote /\ remote'[ref] # remote[ref]
             passed(branch) == ci[<<branch, SHA>>] = "passed"
         IN /\ \A branch \in {"dev", "main"} :
                 pushes(branch) => captured # None /\ (remote'[branch] = SHA \/ promote.raced)
            /\ pushes("main") => passed("dev") /\ Forward(SHA, remote.dev)
            /\ pushes("tag") => /\ passed("dev") /\ passed("main") /\ Forward(SHA, remote.main)
                                /\ remote'.tag = Tag(SHA, captured)
                                /\ promote.got = "accepted" \/ promote.raced
<1> SUFFICES ASSUME promote' # promote, remote' # remote
             PROVE  /\ remote'.dev # remote.dev => captured # None /\ (remote'.dev = SHA \/ promote.raced)
                    /\ remote'.main # remote.main => captured # None /\ (remote'.main = SHA \/ promote.raced)
                    /\ remote'.main # remote.main => Passed("dev") /\ Forward(SHA, remote.dev)
                    /\ remote'.tag # remote.tag =>
                         /\ Passed("dev") /\ Passed("main") /\ Forward(SHA, remote.main)
                         /\ remote'.tag = Tag(SHA, captured)
                         /\ promote.got = "accepted" \/ promote.raced
  BY DEF Passed
<1>1. PromotionTypes /\ remote \in Remotes /\ HEAD \in Commits
  BY HeadTyped DEF ReleaseTypes, PromotionTypes
<1>2. \/ promote.pc = "push dev" /\ remote' = [remote EXCEPT !.dev = HEAD]
      \/ promote.pc = "push main" /\ remote' = [remote EXCEPT !.main = HEAD]
      \/ promote.pc = "push tag" /\ remote' = [remote EXCEPT !.tag = local.tag]
  BY <1>1, PromotionPushes
<1>3. captured # None /\ (HEAD = SHA \/ promote.raced)
  BY <1>2 DEF Noted, Promoting
<1>4. CASE promote.pc = "push dev" /\ remote' = [remote EXCEPT !.dev = HEAD]
  BY <1>1, <1>3, <1>4 DEF Remotes
<1>5. CASE promote.pc = "push main" /\ remote' = [remote EXCEPT !.main = HEAD]
  <2>1. Passed("dev")
    BY <1>5 DEF Promoting, AfterDev
  <2>2. Forward(SHA, remote.dev)
    BY <2>1 DEF RunsArePushed, Passed
  <2> QED
    BY <1>1, <1>3, <1>5, <2>1, <2>2 DEF Remotes
<1>6. CASE promote.pc = "push tag" /\ remote' = [remote EXCEPT !.tag = local.tag]
  <2>1. Passed("dev") /\ Passed("main")
    BY <1>6 DEF Promoting, AfterMain
  <2>2. Forward(SHA, remote.main)
    BY <2>1 DEF RunsArePushed, Passed
  <2>3. local.tag = Tag(SHA, captured) /\ (promote.got = "accepted" \/ promote.raced)
    BY <1>6 DEF Promoting, Proven
  <2> QED
    BY <1>1, <1>6, <2>1, <2>2, <2>3 DEF Remotes
<1> QED
  BY <1>2, <1>4, <1>5, <1>6

-----------------------------------------------------------------------------
(* The publication.                                                         *)

Publishes == [pc: PublishLabels, id: Nat, sent: 0..Len(EXPECTED_PUBLIC)]

\* A publication that is over is one.
LEMMA NoPublicationTyped == NoPublication \in Publishes
<1>1. 0 \in 0..Len(EXPECTED_PUBLIC)
  BY DEF EXPECTED_PUBLIC
<1> QED
  BY <1>1 DEF NoPublication, PublishLabels, Publishes

\* There is no release at the beginning.
LEMMA InitPublication == Init => PublicationInv
<1> SUFFICES ASSUME Init PROVE PublicationInv
  OBVIOUS
<1>1. publish = NoPublication /\ releases = <<>> /\ published = None
  BY DEF Init
<1>2. PublicationTypes
  BY InitTypes DEF ReleaseTypes
<1> QED
  BY <1>1, <1>2 DEF PublicationInv, NoPublication, Shaped, Underway, Faithful, PublicIsAccepted,
                    Looking, Drafting, Releasing

\* A tag is not "no tag", so the tag of a release is not made a second time.
LEMMA TagIsSome == ASSUME GauntletTypes PROVE Tag(SHA, captured) # None
<1>1. Tag(SHA, captured) \in Tags
  BY DEF GauntletTypes
<1> QED
  BY <1>1

\* What leaves the publication, the releases and the accepted files alone, and sets
\* only a tag that was missing.
LEMMA PublicationKept ==
  ASSUME GauntletTypes, PublicationInv,
         UNCHANGED <<accepted, captured, releases, publish, published, swaps, retagged>>,
         remote'.tag = remote.tag \/ remote.tag = None
  PROVE  PublicationInv'
<1>1. Tag(SHA, captured) # None
  BY TagIsSome
<1>2. PublicationTypes' /\ Shaped'
  BY DEF PublicationInv, PublicationTypes, Shaped
<1>3. Underway'
  BY <1>1 DEF PublicationInv, Underway
<1>4. Faithful'
  BY DEF PublicationInv, Faithful, Carried, Ours, Intact, Complete
<1>5. PublicIsAccepted'
  BY <1>1 DEF PublicationInv, PublicIsAccepted, IsAccepted
<1> QED
  BY <1>2, <1>3, <1>4, <1>5 DEF PublicationInv

\* The release that another one takes the place of, and the rest.
LEMMA WithOne ==
  ASSUME releases \in Seq(Releases), NEW i \in DOMAIN releases, NEW e \in Releases
  PROVE  /\ With(i, e) \in Seq(Releases) /\ DOMAIN With(i, e) = DOMAIN releases
         /\ With(i, e)[i] = e
         /\ \A j \in DOMAIN releases : j # i => With(i, e)[j] = releases[j]
  BY DEF With

\* A run that stops leaves what there is.
LEMMA Stopped ==
  ASSUME GauntletTypes, PublicationInv, publish' = NoPublication,
         UNCHANGED <<accepted, captured, remote, releases, published, swaps, retagged>>
  PROVE  PublicationInv'
<1>1. publish' \in Publishes /\ publish'.pc = "idle" /\ publish'.sent = 0
  BY NoPublicationTyped DEF NoPublication
<1>2. PublicationTypes' /\ Shaped'
  BY <1>1 DEF PublicationInv, PublicationTypes, Shaped, Publishes
<1>3. Underway' /\ Faithful'
  BY <1>1 DEF Underway, Faithful, Looking, Drafting, Releasing
<1>4. PublicIsAccepted'
  BY DEF PublicationInv, PublicIsAccepted, IsAccepted
<1> QED
  BY <1>2, <1>3, <1>4 DEF PublicationInv

\* What the run must have seen before it goes on with pc.
Seen(pc) ==
  /\ pc \in {"idle", "verify"} \cup Looking => publish.sent = 0
  /\ pc = "upload" => publish.sent < Len(EXPECTED_PUBLIC)
  /\ pc \in Drafting \cup Releasing \cup {"check public again"} => publish.id \in DOMAIN releases
  /\ retagged \/ remote.tag = Tag(SHA, captured)
  /\ pc \in Looking => Intact \/ swaps >= 1
  /\ pc \in Drafting => \/ Intact /\ Carried(Ours)
                        \/ ~Intact /\ swaps >= 1
                        \/ swaps >= 2
  /\ pc \in Releasing => Carried(Ours) \/ (swaps >= 2 /\ Intact) \/ swaps >= 3
  /\ pc = "check public again" => Carried(Ours) \/ swaps >= 3
  /\ pc \in {"authenticated download", "verify again", "publish"} =>
       Ours.edited \/ Ours.gone \/ Complete(Ours)

\* Then it does, with nothing else changed.
LEMMA GoesOn ==
  ASSUME GauntletTypes, PublicationInv, NEW pc \in PublishLabels, Continues(pc), Seen(pc),
         UNCHANGED <<accepted, captured, remote, releases, published, swaps, retagged>>
  PROVE  PublicationInv'
<1>1. publish' \in Publishes /\ publish'.pc = pc /\ publish'.sent = publish.sent /\ publish'.id = publish.id
  BY DEF Continues, PublicationInv, PublicationTypes, Publishes
<1>2. PublicationTypes' /\ Shaped'
  BY <1>1 DEF PublicationInv, PublicationTypes, Shaped, Publishes
<1>3. Underway'
  BY <1>1 DEF Seen, Underway
<1>4. Ours' = Ours /\ Intact' = Intact /\ \A r : Carried(r)' = Carried(r)
  BY <1>1 DEF Ours, Intact, Carried
<1>5. Faithful'
  BY <1>1, <1>4 DEF Seen, Faithful, Complete
<1>6. PublicIsAccepted'
  BY DEF PublicationInv, PublicIsAccepted, IsAccepted
<1> QED
  BY <1>2, <1>3, <1>5, <1>6 DEF PublicationInv

\* publish-release.sh starts in front of the tag that names commit and digest.
LEMMA StartPublicationStep ==
  ASSUME GauntletTypes, PublicationInv, StartPublication PROVE PublicationInv'
<1>1. publish.pc = "idle" /\ local.tag = remote.tag /\ local.tag = Tag(SHA, captured) /\ Continues("verify")
  BY DEF StartPublication
<1>2. "verify" \in PublishLabels /\ Seen("verify")
  BY <1>1 DEF PublishLabels, Seen, PublicationInv, Underway, Looking, Drafting, Releasing
<1>3. UNCHANGED <<accepted, captured, remote, releases, published, swaps, retagged>>
  BY DEF StartPublication
<1> QED
  BY <1>1, <1>2, <1>3, GoesOn

\* What a step that only looks leaves alone.
LEMMA QuietKeeps ==
  ASSUME NEW pc, Publication(pc), Quiet
  PROVE  UNCHANGED <<accepted, captured, remote, releases, published, swaps, retagged>> /\ publish.pc = pc
  BY DEF Publication, Quiet

\* The files are those whose digest was noted.
LEMMA FilesAreIntact ==
  ASSUME GauntletTypes, accepted # None, FilesProven PROVE Intact
<1>1. accepted.receipt = captured /\ accepted.files = captured
  BY DEF FilesProven, ReceiptBinds, Receipt
<1>2. accepted \in Outputs
  BY DEF GauntletTypes
<1> QED
  BY <1>1, <1>2 DEF Intact

\* The first verification finds the files of the digest.
LEMMA VerifyBeforeStep ==
  ASSUME GauntletTypes, PublicationInv, accepted # None, VerifyBefore PROVE PublicationInv'
<1>1. UNCHANGED <<accepted, captured, remote, releases, published, swaps, retagged>> /\ publish.pc = "verify"
  BY QuietKeeps DEF VerifyBefore, VerifyFiles
<1>2. CASE FilesProven
  <2>1. Seen("candidate on dev")
    BY <1>1, <1>2, FilesAreIntact DEF Seen, PublicationInv, Underway, Looking, Drafting, Releasing
  <2> QED
    BY <1>1, <1>2, <2>1, GoesOn DEF VerifyBefore, VerifyFiles, PublishLabels, Looking
<1>3. CASE ~FilesProven
  BY <1>1, <1>3, Stopped DEF VerifyBefore, VerifyFiles, Stops
<1> QED
  BY <1>2, <1>3

\* Nothing but the files matters to the looks at GitHub before the release is made.
LEMMA LookingStep ==
  ASSUME GauntletTypes, PublicationInv,
         AwaitCandidateOnDev \/ AwaitCandidateOnMain \/ AwaitEvidence \/ ValidateEvidence
  PROVE  PublicationInv'
<1>1. PICK pc \in Looking : Publication(pc) /\ Quiet
  BY DEF AwaitCandidateOnDev, AwaitCandidateOnMain, AwaitEvidence, AwaitRun, ValidateEvidence, Looking
<1>2. UNCHANGED <<accepted, captured, remote, releases, published, swaps, retagged>> /\ publish.pc \in Looking
  BY <1>1, QuietKeeps
<1>3. Stops \/ \E next \in Looking : Continues(next)
  BY DEF AwaitCandidateOnDev, AwaitCandidateOnMain, AwaitEvidence, AwaitRun, ValidateEvidence, Looking
<1>4. CASE Stops
  BY <1>2, <1>4, Stopped DEF Stops
<1>5. ASSUME NEW next \in Looking, Continues(next) PROVE PublicationInv'
  <2>1. Seen(next)
    BY <1>2 DEF Seen, PublicationInv, Underway, Faithful, Looking, Drafting, Releasing
  <2> QED
    BY <1>2, <1>5, <2>1, GoesOn DEF PublishLabels
<1> QED
  BY <1>3, <1>4, <1>5

\* The looks at the draft.
LEMMA DraftingStep ==
  ASSUME GauntletTypes, PublicationInv, CheckDraft \/ AuthenticatedDownload PROVE PublicationInv'
<1>1. PICK pc \in {"check draft", "authenticated download"} : Publication(pc) /\ Quiet
  BY DEF CheckDraft, CheckState, AuthenticatedDownload
<1>2. /\ UNCHANGED <<accepted, captured, remote, releases, published, swaps, retagged>>
      /\ publish.pc \in {"check draft", "authenticated download"}
  BY <1>1, QuietKeeps
<1>3. CASE Stops
  BY <1>2, <1>3, Stopped DEF Stops
<1>4. CASE ~Stops
  <2>1. \E next \in {"authenticated download", "verify again"} : Continues(next)
    BY <1>4 DEF CheckDraft, CheckState, AuthenticatedDownload
  <2>2. PICK next \in {"authenticated download", "verify again"} : Continues(next)
    BY <2>1
  <2>3. Ours.edited \/ Ours.gone \/ Complete(Ours)
    <3>1. CASE publish.pc = "authenticated download"
      BY <3>1 DEF PublicationInv, Faithful
    <3>2. CASE publish.pc = "check draft"
      BY <1>4, <3>2 DEF CheckDraft, CheckState, AuthenticatedDownload, Publication, StateIs, Complete
    <3> QED
      BY <1>2, <3>1, <3>2
  <2>4. Seen(next)
    BY <1>2, <2>3 DEF Seen, PublicationInv, Underway, Faithful, Looking, Drafting, Releasing
  <2> QED
    BY <1>2, <2>2, <2>4, GoesOn DEF PublishLabels, Drafting
<1> QED
  BY <1>3, <1>4

\* The second verification finds the files of the digest again: if others were uploaded, they
\* were replaced and put back.
LEMMA VerifyAgainStep ==
  ASSUME GauntletTypes, PublicationInv, accepted # None, VerifyAgain PROVE PublicationInv'
<1>1. UNCHANGED <<accepted, captured, remote, releases, published, swaps, retagged>> /\ publish.pc = "verify again"
  BY QuietKeeps DEF VerifyAgain, VerifyFiles
<1>2. CASE FilesProven
  <2>1. Carried(Ours) \/ (swaps >= 2 /\ Intact)
    BY <1>1, <1>2, FilesAreIntact DEF PublicationInv, Faithful, Drafting
  <2>2. Seen("publish")
    BY <1>1, <2>1 DEF Seen, PublicationInv, Underway, Faithful, Looking, Drafting, Releasing
  <2> QED
    BY <1>1, <1>2, <2>2, GoesOn DEF VerifyAgain, VerifyFiles, PublishLabels, Releasing
<1>3. CASE ~FilesProven
  BY <1>1, <1>3, Stopped DEF VerifyAgain, VerifyFiles, Stops
<1> QED
  BY <1>2, <1>3

\* The look at the public release changes nothing.
LEMMA CheckPublicStep ==
  ASSUME GauntletTypes, PublicationInv, CheckPublic PROVE PublicationInv'
<1>1. UNCHANGED <<accepted, captured, remote, releases, published, swaps, retagged>> /\ publish.pc = "check public"
  BY QuietKeeps DEF CheckPublic, CheckState
<1>2. CASE Stops
  BY <1>1, <1>2, Stopped DEF Stops
<1>3. CASE Continues("public download")
  <2>1. Seen("public download")
    BY <1>1 DEF Seen, PublicationInv, Underway, Faithful, Looking, Drafting, Releasing
  <2> QED
    BY <1>1, <1>3, <2>1, GoesOn DEF PublishLabels, Releasing
<1> QED
  BY <1>2, <1>3 DEF CheckPublic, CheckState

\* What a release gives for a name is the one asset of that name.
LEMMA BytesOfAsset ==
  ASSUME NEW r, \A a, b \in r.assets : a.name = b.name => a = b, NEW a \in r.assets
  PROVE  a.name \in DOMAIN BytesOf(r) /\ BytesOf(r)[a.name] = a.bytes
  BY DEF BytesOf

\* The bytes that were downloaded are the accepted ones: they show what was uploaded,
\* unless the files were put back.
LEMMA PublicDownloadStep ==
  ASSUME GauntletTypes, PublicationInv, PublicDownload PROVE PublicationInv'
<1>1. UNCHANGED <<accepted, captured, remote, releases, published, swaps, retagged>> /\ publish.pc = "public download"
  BY QuietKeeps DEF PublicDownload
<1>2. CASE Stops
  BY <1>1, <1>2, Stopped DEF Stops
<1>3. CASE ~Stops
  <2>2. /\ Restrict(BytesOf(Ours), Names) = accepted.files /\ Continues("check public again")
        /\ publish.id \in DOMAIN releases
    BY <1>1, <1>3 DEF PublicDownload, Downloaded, PublicationInv, Underway, Releasing
  <2>3. /\ \A a, b \in Ours.assets : a.name = b.name => a = b
        /\ \A a \in Ours.assets : a.own => a.name \in Names
    <3>1. \A a, b \in releases[publish.id].assets : /\ a.name = b.name => a = b
                                                    /\ IF a.own THEN a.name \in Names ELSE a.bytes = None
      BY <2>2 DEF PublicationInv, Shaped
    <3> QED
      BY <3>1 DEF Ours
  <2>4. Intact => Carried(Ours)
    <3> SUFFICES ASSUME Intact, NEW a \in Ours.assets, a.own PROVE a.bytes = captured[a.name]
      BY DEF Carried
    <3>1. a.name \in Names /\ BytesOf(Ours)[a.name] = a.bytes
      BY <2>3, BytesOfAsset
    <3>2. accepted.files = captured
      BY DEF Intact
    <3>3. Restrict(BytesOf(Ours), Names)[a.name] = BytesOf(Ours)[a.name]
      BY <3>1 DEF Restrict
    <3> QED
      BY <2>2, <3>1, <3>2, <3>3
  <2>5. Carried(Ours) \/ swaps >= 3
    BY <1>1, <2>4 DEF PublicationInv, Faithful, Releasing
  <2>6. Seen("check public again")
    BY <1>1, <2>2, <2>5 DEF Seen, PublicationInv, Underway, Looking, Drafting, Releasing
  <2> QED
    BY <1>1, <2>2, <2>6, GoesOn DEF PublishLabels
<1> QED
  BY <1>2, <1>3

\* One release, and what holds of it when it is public.
ShapedRelease(r) == \A a, b \in r.assets : /\ a.name = b.name => a = b
                                           /\ IF a.own THEN a.name \in Names ELSE a.bytes = None
PublicRelease(r) == ~r.draft /\ ~r.gone /\ ~r.edited =>
                      (swaps < 2 => IsAccepted(r)) /\ (retagged \/ remote.tag = Tag(SHA, captured))

\* The two invariants, release by release.
LEMMA EachRelease ==
  /\ Shaped <=> \A i \in DOMAIN releases : ShapedRelease(releases[i])
  /\ PublicIsAccepted <=> /\ \A i \in DOMAIN releases : PublicRelease(releases[i])
                          /\ published # None /\ swaps < 3 => IsAccepted(published)
<1>1. Shaped <=> \A i \in DOMAIN releases : ShapedRelease(releases[i])
  BY DEF Shaped, ShapedRelease
<1>2. PublicIsAccepted <=> /\ \A i \in DOMAIN releases : PublicRelease(releases[i])
                           /\ published # None /\ swaps < 3 => IsAccepted(published)
  BY DEF PublicIsAccepted, PublicRelease
<1> QED
  BY <1>1, <1>2

\* One release takes the place of another.
LEMMA OneReplaced ==
  ASSUME PublicationInv, NEW i \in DOMAIN releases, NEW e \in Releases, releases' = With(i, e),
         UNCHANGED <<captured, swaps, retagged, published>>, retagged \/ UNCHANGED remote.tag,
         ShapedRelease(e), PublicRelease(e)
  PROVE  /\ releases' \in Seq(Releases) /\ DOMAIN releases' = DOMAIN releases /\ releases'[i] = e
         /\ \A j \in DOMAIN releases : j # i => releases'[j] = releases[j]
         /\ Shaped' /\ PublicIsAccepted'
<1>1. /\ releases' \in Seq(Releases) /\ DOMAIN releases' = DOMAIN releases /\ releases'[i] = e
      /\ \A j \in DOMAIN releases : j # i => releases'[j] = releases[j]
  BY WithOne DEF PublicationInv, PublicationTypes
<1>2. /\ \A j \in DOMAIN releases : ShapedRelease(releases[j]) /\ PublicRelease(releases[j])
      /\ published # None /\ swaps < 3 => IsAccepted(published)
  BY EachRelease DEF PublicationInv
<1>3. \A j \in DOMAIN releases : ShapedRelease(releases'[j]) /\ PublicRelease(releases'[j])
  BY <1>1, <1>2
<1>4. \A r : ShapedRelease(r) => ShapedRelease(r)'
  BY DEF ShapedRelease
<1>5. \A r : PublicRelease(r) => PublicRelease(r)'
  BY DEF PublicRelease, IsAccepted
<1>6. \A j \in DOMAIN releases' : ShapedRelease(releases[j])'
  BY <1>1, <1>3 DEF ShapedRelease
<1>7. \A j \in DOMAIN releases' : PublicRelease(releases[j])'
  BY <1>1, <1>3 DEF PublicRelease, IsAccepted
<1>8. Shaped'
  BY <1>6 DEF Shaped, ShapedRelease
<1>9. PublicIsAccepted'
  BY <1>2, <1>7 DEF PublicIsAccepted, PublicRelease, IsAccepted
<1> QED
  BY <1>1, <1>8, <1>9

\* A draft is made.
LEMMA CreateStep ==
  ASSUME GauntletTypes, PublicationInv, Create PROVE PublicationInv'
<1> DEFINE draft == [draft |-> TRUE, gone |-> FALSE, assets |-> {}, edited |-> FALSE]
           id == Len(releases) + 1
<1>1. /\ publish.pc = "create" /\ releases' = Append(releases, draft)
      /\ UNCHANGED <<accepted, captured, remote, published, swaps, retagged>>
  BY DEF Create, Publication
<1>2. draft \in Releases /\ releases \in Seq(Releases) /\ publish \in Publishes /\ swaps \in Nat /\ retagged \in BOOLEAN
  BY DEF Releases, PublicationInv, PublicationTypes, Publishes
<1>3. /\ releases' \in Seq(Releases) /\ DOMAIN releases' = DOMAIN releases \cup {id} /\ id \in Nat
      /\ releases'[id] = draft
      /\ \A i \in DOMAIN releases : releases'[i] = releases[i]
  BY <1>1, <1>2
<1>4. Shaped'
  <2>1. \A i \in DOMAIN releases' : releases'[i] = draft \/ (i \in DOMAIN releases /\ releases'[i] = releases[i])
    BY <1>3
  <2>2. \A i \in DOMAIN releases : ShapedRelease(releases[i])
    BY EachRelease DEF PublicationInv
  <2>3. \A i \in DOMAIN releases' : ShapedRelease(releases[i])'
    BY <2>1, <2>2 DEF ShapedRelease
  <2> QED
    BY <2>3 DEF Shaped, ShapedRelease
<1>5. PublicIsAccepted'
  <2>1. \A i \in DOMAIN releases' : releases'[i] = draft \/ (i \in DOMAIN releases /\ releases'[i] = releases[i])
    BY <1>3
  <2>2. /\ \A i \in DOMAIN releases : PublicRelease(releases[i])
        /\ published # None /\ swaps < 3 => IsAccepted(published)
    BY EachRelease DEF PublicationInv
  <2>3. \A i \in DOMAIN releases' : PublicRelease(releases[i])'
    BY <1>1, <2>1, <2>2 DEF PublicRelease, IsAccepted
  <2> QED
    BY <1>1, <2>2, <2>3 DEF PublicIsAccepted, PublicRelease, IsAccepted
<1>6. CASE Stops
  <2>1. publish' \in Publishes /\ publish'.pc = "idle" /\ publish'.sent = 0
    BY <1>6, NoPublicationTyped DEF NoPublication, Stops
  <2> QED
    BY <1>1, <1>2, <1>3, <1>4, <1>5, <2>1
       DEF PublicationInv, PublicationTypes, Publishes, Underway, Faithful, Looking, Drafting, Releasing
<1>7. CASE publish' = [publish EXCEPT !.pc = "upload", !.id = id]
  <2>1. publish' \in Publishes /\ publish'.pc = "upload" /\ publish'.id = id /\ publish'.sent = publish.sent
    BY <1>2, <1>3, <1>7 DEF Publishes, PublishLabels, Drafting
  <2>2. publish.sent = 0 /\ (retagged \/ remote.tag = Tag(SHA, captured)) /\ (Intact \/ swaps >= 1)
    BY <1>1 DEF PublicationInv, Underway, Faithful, Looking
  <2>3. Underway'
    <3>1. 0 < Len(EXPECTED_PUBLIC)
      BY DEF EXPECTED_PUBLIC
    <3> QED
      BY <1>1, <1>3, <2>1, <2>2, <3>1 DEF Underway, Looking, Drafting, Releasing
  <2>4. Ours' = draft
    BY <1>3, <2>1 DEF Ours
  <2>5. Carried(Ours)'
    BY <2>4 DEF Carried
  <2>6. Intact' = Intact
    BY <1>1 DEF Intact
  <2>7. Faithful'
    BY <1>1, <2>1, <2>2, <2>5, <2>6 DEF Faithful, Looking, Drafting, Releasing
  <2> QED
    BY <1>1, <1>2, <1>3, <1>4, <1>5, <2>1, <2>3, <2>7 DEF PublicationInv, PublicationTypes, Publishes
<1> QED
  BY <1>6, <1>7 DEF Create

\* One asset is added.
LEMMA UploadStep ==
  ASSUME GauntletTypes, accepted # None, PublicationInv, Upload PROVE PublicationInv'
<1> DEFINE name == EXPECTED_PUBLIC[publish.sent + 1]
           asset == Asset(name, accepted.files[name])
           e == [Ours EXCEPT !.assets = Ours.assets \cup {asset}]
<1>1. publish.pc = "upload" /\ UNCHANGED <<accepted, captured, remote, published, swaps, retagged>>
  BY DEF Upload, Publication
<1>2. /\ publish.id \in DOMAIN releases /\ publish \in Publishes
      /\ publish.sent \in Nat /\ publish.sent < Len(EXPECTED_PUBLIC)
      /\ releases \in Seq(Releases) /\ swaps \in Nat
  BY <1>1 DEF PublicationInv, PublicationTypes, Underway, Drafting, Publishes
<1>3. CASE Ours.gone \/ \E a \in Ours.assets : a.name = name
  BY <1>1, <1>3, Stopped DEF Upload, Stops
<1>4. CASE ~Ours.gone /\ ~\E a \in Ours.assets : a.name = name
  <2>1. /\ releases' = With(publish.id, e)
        /\ publish' = [publish EXCEPT !.sent = publish.sent + 1,
                              !.pc = IF publish.sent + 1 = Len(EXPECTED_PUBLIC) THEN "check draft" ELSE "upload"]
    BY <1>4 DEF Upload
  <2>2. name \in Names
    BY <1>2 DEF EXPECTED_PUBLIC, Names, Archives
  <2>3. Ours \in Releases
    BY <1>2 DEF Ours
  <2>4. accepted.files \in FileSets
    BY DEF GauntletTypes
  <2>5. asset \in Assets /\ asset.name = name /\ asset.own /\ asset.bytes = accepted.files[name]
    <3>1. accepted.files[name] \in Bytes
      BY <2>2, <2>4 DEF FileSets
    <3> QED
      BY <2>2, <3>1 DEF Asset, Assets
  <2> HIDE DEF name, asset
  <2>6. e \in Releases /\ e.assets = Ours.assets \cup {asset}
    BY <2>3, <2>5 DEF Releases
  <2>7. ShapedRelease(Ours) /\ PublicRelease(Ours)
    BY <1>2, EachRelease DEF PublicationInv, Ours
  <2>8. ShapedRelease(e)
    BY <1>4, <2>2, <2>5, <2>6, <2>7 DEF ShapedRelease
  <2>9. PublicRelease(e)
    <3>1. ~Ours.draft /\ ~Ours.gone /\ ~Ours.edited => swaps >= 2
      <4> SUFFICES ASSUME ~Ours.draft, ~Ours.gone, ~Ours.edited, swaps < 2 PROVE FALSE
        BY <1>2
      <4>1. IsAccepted(Ours)
        BY <2>7 DEF PublicRelease
      <4>2. Asset(name, captured[name]) \in Ours.assets
        BY <2>2, <4>1 DEF IsAccepted
      <4> QED
        BY <1>4, <4>2 DEF Asset
    <3>2. e.draft = Ours.draft /\ e.gone = Ours.gone /\ e.edited = Ours.edited
      BY <2>3 DEF Releases
    <3> QED
      BY <1>2, <2>7, <3>1, <3>2 DEF PublicRelease
  <2> HIDE DEF e
  <2>10. /\ releases' \in Seq(Releases) /\ DOMAIN releases' = DOMAIN releases /\ releases'[publish.id] = e
         /\ Shaped' /\ PublicIsAccepted'
    BY <1>1, <1>2, <2>1, <2>6, <2>8, <2>9, OneReplaced
  <2>11. /\ publish' \in Publishes /\ publish'.id = publish.id /\ publish'.sent = publish.sent + 1
         /\ publish'.pc = IF publish.sent + 1 = Len(EXPECTED_PUBLIC) THEN "check draft" ELSE "upload"
    <3>1. publish.sent + 1 \in 0..Len(EXPECTED_PUBLIC)
      BY <1>2 DEF EXPECTED_PUBLIC
    <3> QED
      BY <1>2, <2>1, <3>1 DEF Publishes, PublishLabels, Drafting
  <2>12. publish'.pc \in {"upload", "check draft"} /\ (publish'.pc = "upload" => publish'.sent < Len(EXPECTED_PUBLIC))
    <3>1. Len(EXPECTED_PUBLIC) \in Nat
      BY DEF EXPECTED_PUBLIC
    <3>2. publish.sent + 1 = Len(EXPECTED_PUBLIC) \/ publish.sent + 1 < Len(EXPECTED_PUBLIC)
      BY <1>2, <3>1
    <3>3. CASE publish.sent + 1 = Len(EXPECTED_PUBLIC)
      BY <2>11, <3>3
    <3>4. CASE publish.sent + 1 # Len(EXPECTED_PUBLIC)
      BY <2>11, <3>2, <3>4
    <3> QED
      BY <3>3, <3>4
  <2>13. Underway'
    <3>1. retagged \/ remote.tag = Tag(SHA, captured)
      BY <1>1 DEF PublicationInv, Underway
    <3> QED
      BY <1>1, <1>2, <2>10, <2>11, <2>12, <3>1 DEF Underway, Looking, Drafting, Releasing
  <2>14. Intact /\ Carried(Ours) => Carried(Ours)'
    <3> SUFFICES ASSUME Intact, Carried(Ours), NEW a \in Ours'.assets, a.own PROVE a.bytes = captured'[a.name]
      BY DEF Carried
    <3>3. Ours' = e
      BY <2>10, <2>11 DEF Ours
    <3>1. a \in Ours.assets \/ a = asset
      BY <2>6, <3>3
    <3>2. accepted.files = captured
      BY DEF Intact
    <3> QED
      BY <1>1, <2>5, <3>1, <3>2 DEF Carried
  <2>15. Intact' = Intact
    BY <1>1 DEF Intact
  <2>16. Faithful'
    <3>1. (Intact /\ Carried(Ours)) \/ (~Intact /\ swaps >= 1) \/ swaps >= 2
      BY <1>1 DEF PublicationInv, Faithful, Drafting
    <3> QED
      BY <1>1, <2>12, <2>14, <2>15, <3>1 DEF Faithful, Looking, Releasing
  <2> QED
    BY <1>1, <2>10, <2>11, <2>13, <2>16 DEF PublicationInv, PublicationTypes, Publishes
<1> QED
  BY <1>3, <1>4

\* Five own assets with the bytes of the digest are the accepted files.
LEMMA CompleteIsAccepted ==
  ASSUME NEW r \in Releases, Complete(r), Carried(r) PROVE IsAccepted(r)
<1>1. \A a \in r.assets : a \in Assets /\ a.own /\ a.name \in Names /\ a.bytes = captured[a.name]
  BY DEF Complete, Carried, Releases
<1>2. \A a \in r.assets : a = Asset(a.name, captured[a.name])
  BY <1>1 DEF Asset, Assets
<1>3. \A name \in Names : \E a \in r.assets : a.name = name
  BY DEF Complete
<1> QED
  BY <1>1, <1>2, <1>3 DEF IsAccepted

\* The release becomes public.
LEMMA PublishReleaseStep ==
  ASSUME GauntletTypes, PublicationInv, Publish PROVE PublicationInv'
<1> DEFINE e == [Ours EXCEPT !.draft = FALSE]
<1>1. publish.pc = "publish" /\ UNCHANGED <<accepted, captured, published, swaps, retagged>>
  BY DEF Publish, Publication
<1>2. publish.id \in DOMAIN releases /\ publish \in Publishes /\ releases \in Seq(Releases) /\ swaps \in Nat
  BY <1>1 DEF PublicationInv, PublicationTypes, Underway, Releasing, Publishes
<1>3. CASE UNCHANGED <<remote, releases>> /\ Stops
  BY <1>1, <1>3, Stopped DEF Stops
<1>4. CASE /\ ~Ours.gone /\ releases' = With(publish.id, e)
           /\ remote' = IF remote.tag = None THEN [remote EXCEPT !.tag = Tag(remote.main, None)] ELSE remote
           /\ Continues("check public") \/ Stops
  <2>1. Ours \in Releases
    BY <1>2 DEF Ours
  <2>2. /\ e \in Releases /\ e.assets = Ours.assets
        /\ ~e.draft /\ e.gone = Ours.gone /\ e.edited = Ours.edited
    BY <2>1 DEF Releases
  <2>3. ShapedRelease(e)
    BY <1>2, <2>2, EachRelease DEF PublicationInv, Ours, ShapedRelease
  <2>4. retagged \/ remote.tag = Tag(SHA, captured)
    BY <1>1 DEF PublicationInv, Underway
  <2>5. retagged \/ UNCHANGED remote.tag
    BY <1>4, <2>4, TagIsSome
  <2>6. Carried(Ours) \/ (swaps >= 2 /\ Intact) \/ swaps >= 3
    BY <1>1 DEF PublicationInv, Faithful, Releasing
  <2>7. Ours.edited \/ Ours.gone \/ Complete(Ours)
    BY <1>1 DEF PublicationInv, Faithful
  <2>8. PublicRelease(e)
    <3>1. ~e.gone /\ ~e.edited /\ swaps < 2 => IsAccepted(Ours)
      BY <1>2, <2>1, <2>2, <2>6, <2>7, CompleteIsAccepted
    <3> QED
      BY <2>2, <2>4, <3>1 DEF PublicRelease, IsAccepted
  <2> HIDE DEF e
  <2>9. /\ releases' \in Seq(Releases) /\ DOMAIN releases' = DOMAIN releases /\ releases'[publish.id] = e
        /\ Shaped' /\ PublicIsAccepted'
    BY <1>1, <1>2, <1>4, <2>2, <2>3, <2>5, <2>8, OneReplaced
  <2>10. CASE Stops
    <3>1. publish' \in Publishes /\ publish'.pc = "idle" /\ publish'.sent = 0
      BY <2>10, NoPublicationTyped DEF NoPublication, Stops
    <3> QED
      BY <1>1, <2>9, <3>1
         DEF PublicationInv, PublicationTypes, Publishes, Underway, Faithful, Looking, Drafting, Releasing
  <2>11. CASE Continues("check public")
    <3>1. /\ publish' \in Publishes /\ publish'.pc = "check public" /\ publish'.id = publish.id
          /\ publish'.sent = publish.sent
      BY <1>2, <2>11 DEF Continues, Publishes, PublishLabels, Releasing
    <3>2. Underway'
      BY <1>1, <1>2, <2>4, <2>5, <2>9, <3>1 DEF Underway, Looking, Drafting, Releasing
    <3>3. Ours'.assets = Ours.assets
      BY <2>2, <2>9, <3>1 DEF Ours
    <3>4. (Carried(Ours) => Carried(Ours)') /\ Intact' = Intact
      BY <1>1, <3>3 DEF Carried, Intact
    <3>5. Faithful'
      BY <1>1, <2>6, <3>1, <3>4 DEF Faithful, Looking, Drafting, Releasing
    <3> QED
      BY <1>1, <2>9, <3>1, <3>2, <3>5 DEF PublicationInv, PublicationTypes, Publishes
  <2> QED
    BY <1>4, <2>10, <2>11
<1> QED
  BY <1>3, <1>4 DEF Publish

\* PUBLICATION: OK
LEMMA FinishStep ==
  ASSUME GauntletTypes, PublicationInv, Finish PROVE PublicationInv'
<1>1. /\ publish.pc = "check public again" /\ publish' = NoPublication
      /\ UNCHANGED <<accepted, captured, remote, releases, swaps, retagged>>
  BY DEF Finish, Publication, Stops
<1>2. publish.id \in DOMAIN releases /\ releases \in Seq(Releases) /\ swaps \in Nat
  BY <1>1 DEF PublicationInv, PublicationTypes, Underway
<1>3. publish' \in Publishes /\ publish'.pc = "idle" /\ publish'.sent = 0
  BY <1>1, NoPublicationTyped DEF NoPublication
<1>4. published' # None /\ swaps < 3 => IsAccepted(published')
  <2>1. CASE StateIs(FALSE)
    <3>1. Complete(Ours) /\ Ours \in Releases
      BY <1>2, <2>1 DEF StateIs, Complete, Ours
    <3>2. Carried(Ours) \/ swaps >= 3
      BY <1>1 DEF PublicationInv, Faithful
    <3>3. swaps < 3 => IsAccepted(Ours)
      BY <1>2, <3>1, <3>2, CompleteIsAccepted
    <3> QED
      BY <2>1, <3>3 DEF Finish
  <2>2. CASE ~StateIs(FALSE)
    BY <2>2 DEF Finish, PublicationInv, PublicIsAccepted
  <2> QED
    BY <2>1, <2>2
<1>5. PublicIsAccepted'
  <2>1. \A i \in DOMAIN releases : PublicRelease(releases[i])
    BY EachRelease DEF PublicationInv
  <2> QED
    BY <1>1, <1>4, <2>1 DEF PublicIsAccepted, PublicRelease, IsAccepted
<1>6. PublicationTypes' /\ Shaped'
  BY <1>1, <1>3 DEF PublicationInv, PublicationTypes, Shaped, Publishes
<1>7. Underway' /\ Faithful'
  BY <1>3 DEF Underway, Faithful, Looking, Drafting, Releasing
<1> QED
  BY <1>5, <1>6, <1>7 DEF PublicationInv

\* Every step of publish-release.sh.
LEMMA PublicationStep ==
  ASSUME GauntletTypes, accepted # None, PublicationInv, PublishStep \/ PublicationEnds PROVE PublicationInv'
<1>1. CASE PublicationEnds
  BY <1>1, Stopped DEF PublicationEnds, Stops
<1> QED
  BY <1>1, VerifyBeforeStep, LookingStep, CreateStep, UploadStep, DraftingStep, VerifyAgainStep,
     PublishReleaseStep, CheckPublicStep, PublicDownloadStep, FinishStep DEF PublishStep

\* A replacement of accepted files is seen, or is the second at least.
LEMMA SwapStep ==
  ASSUME GauntletTypes, PublicationInv, SwapFiles PROVE PublicationInv'
<1>1. /\ accepted' # accepted /\ swaps' = IF publish.pc = "idle" THEN swaps ELSE swaps + 1
      /\ UNCHANGED <<captured, remote, releases, publish, published, retagged>>
  BY DEF SwapFiles
<1>2. swaps \in Nat
  BY DEF PublicationInv, PublicationTypes
<1>3. swaps' \in Nat /\ swaps' >= swaps
  BY <1>1, <1>2
<1>4. PublicationTypes' /\ Shaped' /\ Underway'
  <2>1. PublicationTypes'
    BY <1>1, <1>3 DEF PublicationInv, PublicationTypes
  <2>2. Shaped'
    BY <1>1 DEF PublicationInv, Shaped
  <2>3. Underway'
    BY <1>1 DEF PublicationInv, Underway
  <2> QED
    BY <2>1, <2>2, <2>3
<1>5. Faithful'
  <2>1. CASE publish.pc = "idle"
    BY <1>1, <2>1 DEF Faithful, Looking, Drafting, Releasing
  <2>2. CASE publish.pc # "idle"
    <3>1. swaps' = swaps + 1 /\ swaps' >= 1
      BY <1>1, <1>2, <2>2
    <3>2. Ours' = Ours /\ (Carried(Ours) => Carried(Ours)') /\ (Intact => ~Intact')
      BY <1>1 DEF Ours, Carried, Intact
    <3>7. /\ publish.pc \in Drafting => Intact \/ swaps >= 1
          /\ publish.pc \in Releasing => Carried(Ours) \/ swaps >= 2
          /\ publish.pc = "check public again" => Carried(Ours) \/ swaps >= 3
      <4>1. publish.pc \in Drafting => (Intact /\ Carried(Ours)) \/ (~Intact /\ swaps >= 1) \/ swaps >= 2
        BY DEF PublicationInv, Faithful
      <4>2. publish.pc \in Releasing => Carried(Ours) \/ (swaps >= 2 /\ Intact) \/ swaps >= 3
        BY DEF PublicationInv, Faithful
      <4>3. publish.pc = "check public again" => Carried(Ours) \/ swaps >= 3
        BY DEF PublicationInv, Faithful
      <4>4. (swaps >= 2 => swaps >= 1) /\ (swaps >= 3 => swaps >= 2)
        BY <1>2
      <4> QED
        BY <4>1, <4>2, <4>3, <4>4
    <3>8. (swaps >= 1 => swaps' >= 2) /\ (swaps >= 2 => swaps' >= 3) /\ (swaps >= 3 => swaps' >= 3)
      BY <1>2, <3>1
    <3>3. publish.pc \in Drafting => ~Intact' \/ swaps' >= 2
      BY <3>2, <3>7, <3>8
    <3>4. publish.pc \in Releasing => Carried(Ours)' \/ swaps' >= 3
      BY <3>2, <3>7, <3>8
    <3>5. publish.pc = "check public again" => Carried(Ours)' \/ swaps' >= 3
      BY <3>2, <3>7, <3>8
    <3>6. publish.pc \in {"authenticated download", "verify again", "publish"} =>
            (Ours.edited \/ Ours.gone \/ Complete(Ours))'
      BY <1>1, <3>2 DEF PublicationInv, Faithful, Complete
    <3> QED
      BY <1>1, <3>1, <3>3, <3>4, <3>5, <3>6 DEF Faithful
  <2> QED
    BY <2>1, <2>2
<1>6. PublicIsAccepted'
  <2>1. swaps' < 2 => swaps < 2
    BY <1>2, <1>3
  <2>2. swaps' < 3 => swaps < 3
    BY <1>2, <1>3
  <2> QED
    BY <1>1, <2>1, <2>2 DEF PublicationInv, PublicIsAccepted, IsAccepted
<1> QED
  BY <1>4, <1>5, <1>6 DEF PublicationInv

\* A tag that somebody has moved is noted as such.
LEMMA RetagStep ==
  ASSUME PublicationInv, Retag PROVE PublicationInv'
<1>1. retagged' = TRUE /\ UNCHANGED <<accepted, captured, releases, publish, published, swaps>>
  BY DEF Retag
<1>2. PublicationTypes' /\ Shaped'
  BY <1>1 DEF PublicationInv, PublicationTypes, Shaped
<1>3. Underway'
  BY <1>1 DEF PublicationInv, Underway
<1>4. Faithful'
  BY <1>1 DEF PublicationInv, Faithful, Carried, Ours, Intact, Complete
<1>5. PublicIsAccepted'
  BY <1>1 DEF PublicationInv, PublicIsAccepted, IsAccepted
<1> QED
  BY <1>2, <1>3, <1>4, <1>5 DEF PublicationInv

\* An edit adds no asset of the script's own, and shows when no check comes after it.
Late(i) == publish.id = i /\ publish.pc \in {"authenticated download", "verify again", "publish"}
EditOf(r, i, e) ==
  /\ e \in Releases /\ ShapedRelease(e) /\ (\A a \in e.assets : a.own => a \in r.assets)
  /\ Late(i) => e.edited \/ e.gone
  /\ ~e.draft => e.edited \/ e.gone
Foreign(name) == [name |-> name, own |-> FALSE, bytes |-> None]
Edited(r, i, assets) == [r EXCEPT !.assets = assets, !.edited = r.edited \/ (~r.draft \/ Late(i))]

\* An asset of somebody else's.
LEMMA ForeignAsset == ASSUME NEW name \in Names \cup {"extra"}
                      PROVE  Foreign(name) \in Assets /\ Foreign(name).name = name
                             /\ ~Foreign(name).own /\ Foreign(name).bytes = None
  BY DEF Foreign, Assets

\* Other assets instead of some are an edit.
LEMMA EditedIsEdit ==
  ASSUME NEW r \in Releases, NEW i, ShapedRelease(r), NEW assets, NEW name \in Names \cup {"extra"},
         assets \subseteq r.assets \cup {Foreign(name)},
         \A b \in assets : b.name = name => b = Foreign(name)
  PROVE  EditOf(r, i, Edited(r, i, assets))
<1>1. r.draft \in BOOLEAN /\ r.gone \in BOOLEAN /\ r.edited \in BOOLEAN /\ r.assets \subseteq Assets
  BY DEF Releases
<1>2. assets \subseteq Assets
  BY <1>1, ForeignAsset
<1>3. \A a, b \in assets : a.name = b.name => a = b
  BY ForeignAsset DEF ShapedRelease
<1>4. \A a \in assets : IF a.own THEN a.name \in Names ELSE a.bytes = None
  BY ForeignAsset DEF ShapedRelease
<1>5. \A a \in assets : a.own => a \in r.assets
  BY ForeignAsset
<1>6. (r.edited \/ (~r.draft \/ Late(i))) \in BOOLEAN
  OBVIOUS
<1> DEFINE e == Edited(r, i, assets)
<1>7. /\ e.assets = assets /\ e.draft = r.draft /\ e.gone = r.gone
      /\ e.edited = (r.edited \/ (~r.draft \/ Late(i))) /\ e \in Releases
  BY <1>1, <1>2, <1>6 DEF Releases, Edited
<1> HIDE DEF e
<1>8. EditOf(r, i, e)
  BY <1>3, <1>4, <1>5, <1>7 DEF EditOf, ShapedRelease
<1> QED
  BY <1>8 DEF e

\* What EditRelease does is an edit.
LEMMA EditsAreEdits ==
  ASSUME PublicationInv, NEW i \in DOMAIN releases, EditRelease(i)
  PROVE  \E e : EditOf(releases[i], i, e) /\ releases' = With(i, e)
<1> DEFINE r == releases[i]
<1>1. r \in Releases /\ ShapedRelease(r)
  BY EachRelease DEF PublicationInv, PublicationTypes
<1>2. r.draft \in BOOLEAN /\ r.gone \in BOOLEAN /\ r.edited \in BOOLEAN /\ r.assets \subseteq Assets
  BY <1>1 DEF Releases
<1>3. \/ releases' = With(i, [r EXCEPT !.gone = TRUE])
      \/ releases' = With(i, [r EXCEPT !.draft = FALSE, !.edited = TRUE])
      \/ \E a \in r.assets : \/ releases' = With(i, Edited(r, i, r.assets \ {a}))
                             \/ releases' = With(i, Edited(r, i, (r.assets \ {a}) \cup {Foreign(a.name)}))
      \/ releases' = With(i, Edited(r, i, r.assets \cup {Foreign("extra")}))
  BY DEF EditRelease, Edited, Late, Foreign
<1> HIDE DEF r
<1>4. EditOf(r, i, [r EXCEPT !.gone = TRUE])
  <2>1. /\ [r EXCEPT !.gone = TRUE] \in Releases /\ [r EXCEPT !.gone = TRUE].gone
        /\ [r EXCEPT !.gone = TRUE].assets = r.assets
    BY <1>1 DEF Releases
  <2> QED
    BY <1>1, <2>1 DEF EditOf, ShapedRelease
<1>5. EditOf(r, i, [r EXCEPT !.draft = FALSE, !.edited = TRUE])
  <2>1. /\ [r EXCEPT !.draft = FALSE, !.edited = TRUE] \in Releases
        /\ [r EXCEPT !.draft = FALSE, !.edited = TRUE].edited
        /\ [r EXCEPT !.draft = FALSE, !.edited = TRUE].assets = r.assets
    BY <1>1 DEF Releases
  <2> QED
    BY <1>1, <2>1 DEF EditOf, ShapedRelease
<1>6. ASSUME NEW a \in r.assets
      PROVE  /\ EditOf(r, i, Edited(r, i, r.assets \ {a}))
             /\ EditOf(r, i, Edited(r, i, (r.assets \ {a}) \cup {Foreign(a.name)}))
  <2>1. a.name \in Names \cup {"extra"}
    BY <1>2 DEF Assets
  <2>2. \A b \in r.assets \ {a} : b.name # a.name
    BY <1>1 DEF ShapedRelease
  <2> QED
    BY <1>1, <2>1, <2>2, EditedIsEdit
<1>7. EditOf(r, i, Edited(r, i, r.assets \cup {Foreign("extra")}))
  <2>1. "extra" \notin Names
    BY DEF Names, Archives
  <2>2. \A b \in r.assets : b.name = "extra" => ~b.own /\ b.bytes = None /\ b \in Assets
    BY <1>1, <1>2, <2>1 DEF ShapedRelease
  <2>3. \A b \in r.assets : b.name = "extra" => b = Foreign("extra")
    BY <2>2 DEF Foreign, Assets
  <2> QED
    BY <1>1, <2>3, EditedIsEdit
<1>8. \E e : EditOf(r, i, e) /\ releases' = With(i, e)
  BY <1>3, <1>4, <1>5, <1>6, <1>7
<1> QED
  BY <1>8 DEF r

\* An edit keeps what is claimed of a release.
LEMMA EditStep ==
  ASSUME PublicationInv, NEW i \in DOMAIN releases, EditRelease(i) PROVE PublicationInv'
<1>1. UNCHANGED <<accepted, captured, remote, publish, published, swaps, retagged>>
  BY DEF EditRelease
<1>2. PICK e : EditOf(releases[i], i, e) /\ releases' = With(i, e)
  BY EditsAreEdits
<1>3. e \in Releases /\ ShapedRelease(e) /\ PublicRelease(e)
  BY <1>2 DEF EditOf, PublicRelease
<1>4. /\ releases' \in Seq(Releases) /\ DOMAIN releases' = DOMAIN releases /\ releases'[i] = e
      /\ \A j \in DOMAIN releases : j # i => releases'[j] = releases[j]
      /\ Shaped' /\ PublicIsAccepted'
  BY <1>1, <1>2, <1>3, OneReplaced
<1>5. PublicationTypes' /\ Underway'
  <2>1. PublicationTypes'
    BY <1>1, <1>4 DEF PublicationInv, PublicationTypes
  <2>2. Underway'
    BY <1>1, <1>4 DEF PublicationInv, Underway
  <2> QED
    BY <2>1, <2>2
<1>6. Faithful'
  <2>1. CASE publish.id \notin DOMAIN releases
    <3>1. publish.pc \in {"idle", "verify"} \cup Looking
      BY <2>1 DEF PublicationInv, PublicationTypes, Underway, PublishLabels
    <3> QED
      BY <1>1, <3>1 DEF PublicationInv, Faithful, Looking, Drafting, Releasing, Intact
  <2>2. CASE publish.id \in DOMAIN releases
    <3>1. Carried(Ours) => Carried(Ours)'
      <4>1. \A a \in Ours'.assets : a.own => a \in Ours.assets
        <5>1. CASE publish.id = i
          BY <1>1, <1>2, <1>4, <5>1 DEF EditOf, Ours
        <5>2. CASE publish.id # i
          BY <1>1, <1>4, <2>2, <5>2 DEF Ours
        <5> QED
          BY <5>1, <5>2
      <4> QED
        BY <1>1, <4>1 DEF Carried
    <3>2. publish.pc \in {"authenticated download", "verify again", "publish"} =>
            (Ours.edited \/ Ours.gone \/ Complete(Ours))'
      <4>1. CASE publish.id = i
        BY <1>1, <1>2, <1>4, <4>1 DEF EditOf, Late, Ours
      <4>2. CASE publish.id # i
        <5>1. Ours' = Ours
          BY <1>1, <1>4, <2>2, <4>2 DEF Ours
        <5> QED
          BY <1>1, <5>1 DEF PublicationInv, Faithful, Complete
      <4> QED
        BY <4>1, <4>2
    <3>3. Intact' = Intact
      BY <1>1 DEF Intact
    <3> QED
      BY <1>1, <3>1, <3>2, <3>3 DEF PublicationInv, Faithful
  <2> QED
    BY <2>1, <2>2
<1> QED
  BY <1>4, <1>5, <1>6 DEF PublicationInv

\* Nothing is published when a digest is noted.
LEMMA AcceptStep ==
  ASSUME Noted, PublicationInv, Accept PROVE PublicationInv'
<1>1. /\ captured = None /\ publish.pc = "idle" /\ releases = <<>> /\ published = None
      /\ UNCHANGED <<remote, releases, publish, published, swaps, retagged>>
  BY DEF Accept, Noted
<1>2. PublicationTypes' /\ Shaped'
  BY <1>1 DEF PublicationInv, PublicationTypes, Shaped
<1>3. Underway' /\ Faithful'
  BY <1>1 DEF PublicationInv, Underway, Faithful, Looking, Drafting, Releasing
<1>4. PublicIsAccepted'
  BY <1>1 DEF PublicIsAccepted
<1> QED
  BY <1>2, <1>3, <1>4 DEF PublicationInv

\* Only the script tags, and only where no tag was.
LEMMA PromotionTags ==
  ASSUME PromotionTypes, StartPromotion \/ PromoteStep \/ PromotionEnds
  PROVE  /\ UNCHANGED <<accepted, captured, releases, publish, published, swaps, retagged>>
         /\ remote'.tag = remote.tag \/ remote.tag = None
<1>1. UNCHANGED <<accepted, captured, publish, published, swaps, retagged>>
  BY DEF StartPromotion, PromoteStep, PromotionEnds, Promotion, PushDev, AwaitDev, SwitchMain, PushMain,
         AwaitMain, ParityBefore, LocalInstall, ProductionInstall, ParityAfter, Parity, TagLocally, PushTag, Return
<1>2. CASE PushDev \/ PushMain
  BY <1>1, <1>2 DEF PushDev, PushMain, Push, Pushed, PromotionTypes, Remotes
<1>3. CASE PushTag
  BY <1>1, <1>3 DEF PushTag
<1>4. CASE ~PushDev /\ ~PushMain /\ ~PushTag
  <2>1. UNCHANGED hub
    BY <1>4 DEF StartPromotion, PromoteStep, PromotionEnds, AwaitDev, AwaitMain, AwaitCi, SwitchMain, ParityBefore,
       ParityAfter, Parity, LocalInstall, ProductionInstall, TagLocally, Return
  <2> QED
    BY <1>1, <2>1
<1> QED
  BY <1>2, <1>3, <1>4

\* Nobody else does, but for Retag.
LEMMA OtherTags ==
  ASSUME PromotionTypes, Build \/ Operator \/ GitHub \/ Interfere \/ OtherPush("dev") \/ OtherPush("main")
  PROVE  /\ UNCHANGED <<accepted, captured, releases, publish, published, swaps, retagged>>
         /\ remote'.tag = remote.tag
<1>1. CASE Build \/ Interfere
  BY <1>1 DEF Build, Interfere
<1>2. CASE Operator
  BY <1>2 DEF Operator, CommitEvidence, PushEvidence, SwitchBack, RerunCi, Pushed, PromotionTypes, Remotes
<1>3. CASE GitHub
  BY <1>3 DEF GitHub, Deploy, Expire, CiEnds
<1>4. CASE OtherPush("dev") \/ OtherPush("main")
  BY <1>4 DEF OtherPush, Pushed, PromotionTypes, Remotes
<1> QED
  BY <1>1, <1>2, <1>3, <1>4

\* Every step keeps what the publication has to.
LEMMA PublicationNext ==
  ASSUME ReleaseTypes, Noted, PublicationInv, [Next]_vars PROVE PublicationInv'
<1>1. GauntletTypes /\ PromotionTypes
  BY DEF ReleaseTypes
<1>2. CASE UNCHANGED vars
  BY <1>1, <1>2, PublicationKept DEF vars
<1>3. CASE StartPromotion \/ PromoteStep \/ PromotionEnds
  BY <1>1, <1>3, PromotionTags, PublicationKept
<1>4. CASE Build \/ Operator \/ GitHub \/ Interfere \/ OtherPush("dev") \/ OtherPush("main")
  BY <1>1, <1>4, OtherTags, PublicationKept
<1>5. CASE PublishStep \/ PublicationEnds
  <2>1. publish.pc # "idle"
    BY <1>5 DEF PublishStep, PublicationEnds, Publication, VerifyBefore, VerifyAgain, VerifyFiles,
         AwaitCandidateOnDev, AwaitCandidateOnMain, AwaitEvidence, AwaitRun, ValidateEvidence, Create, Upload,
         CheckDraft, CheckPublic, CheckState, AuthenticatedDownload, Publish, PublicDownload, Finish
  <2>2. accepted # None
    BY <2>1 DEF Noted
  <2> QED
    BY <1>1, <1>5, <2>2, PublicationStep
<1>6. CASE StartPublication \/ Accept \/ SwapFiles \/ Retag \/ \E i \in DOMAIN releases : EditRelease(i)
  BY <1>1, <1>6, StartPublicationStep, AcceptStep, SwapStep, RetagStep, EditStep
<1> QED
  BY <1>2, <1>3, <1>4, <1>5, <1>6 DEF Next, Others

\* The types of the gauntlet and of the accepted files hold after every step.
LEMMA GauntletStep == ASSUME GauntletTypes, [Next]_vars PROVE GauntletTypes'
<1>1. CASE UNCHANGED dist
  BY <1>1 DEF GauntletTypes
<1>2. CASE UNCHANGED vars
  BY <1>1, <1>2 DEF vars
<1>3. CASE StartPromotion \/ PromoteStep \/ PromotionEnds
  <2>1. UNCHANGED dist
    BY <1>3 DEF StartPromotion, PromoteStep, PromotionEnds, Promotion, PushDev, AwaitDev, SwitchMain, PushMain,
         AwaitMain, ParityBefore, LocalInstall, ProductionInstall, ParityAfter, Parity, TagLocally, PushTag, Return
  <2> QED
    BY <1>1, <2>1
<1>4. CASE StartPublication \/ PublishStep \/ PublicationEnds
  <2>1. UNCHANGED dist
    BY <1>4 DEF StartPublication, PublishStep, PublicationEnds, Publication, VerifyBefore, VerifyAgain, VerifyFiles,
         AwaitCandidateOnDev, AwaitCandidateOnMain, AwaitEvidence, AwaitRun, ValidateEvidence, Create, Upload,
         CheckDraft, CheckPublic, CheckState, AuthenticatedDownload, Publish, PublicDownload, Finish
  <2> QED
    BY <1>1, <2>1
<1>5. CASE Operator \/ GitHub \/ Interfere \/ Retag \/ (\E b \in {"dev", "main"} : OtherPush(b))
           \/ \E i \in DOMAIN releases : EditRelease(i)
  <2>1. UNCHANGED dist
    BY <1>5 DEF Operator, CommitEvidence, PushEvidence, SwitchBack, RerunCi, GitHub, Deploy, Expire, CiEnds,
         Interfere, Retag, OtherPush, EditRelease
  <2> QED
    BY <1>1, <2>1
<1> QED
  BY <1>2, <1>3, <1>4, <1>5, BuildTypes, AcceptTypes, SwapTypes DEF Next, Others

\* So do those of the bounds.
LEMMA BoundStep == ASSUME BoundTypes, [Next]_vars PROVE BoundTypes'
<1>1. CASE Sane \/ Odd \/ Fault
  BY <1>1, BoundSteps
<1>2. CASE UNCHANGED vars
  BY <1>2 DEF vars, BoundTypes
<1>3. Build \/ Accept \/ StartPromotion \/ PromotionEnds => Sane \/ Odd \/ Fault
  BY DEF Build, Accept, StartPromotion, PromotionEnds
<1>4. PromoteStep => Sane \/ Odd \/ Fault
  BY DEF PromoteStep, Push, AwaitCi, PushDev, AwaitDev, SwitchMain, PushMain,
         AwaitMain, ParityBefore, LocalInstall, ProductionInstall, ParityAfter, Parity, TagLocally, PushTag, Return
<1>5. StartPublication \/ PublishStep \/ PublicationEnds => Sane \/ Odd \/ Fault
  BY DEF StartPublication, PublishStep, PublicationEnds, Quiet, VerifyBefore, VerifyAgain, VerifyFiles,
         AwaitCandidateOnDev, AwaitCandidateOnMain, AwaitEvidence, AwaitRun, ValidateEvidence, Create, Upload,
         CheckDraft, CheckPublic, CheckState, AuthenticatedDownload, Publish, PublicDownload, Finish
<1>6. Operator \/ Others \/ GitHub => Sane \/ Odd \/ Fault
  BY DEF Operator, CommitEvidence, PushEvidence, SwitchBack, RerunCi, GitHub, Deploy, Expire, CiEnds,
         Others, Interfere, SwapFiles, Retag, OtherPush, EditRelease
<1> QED
  BY <1>1, <1>2, <1>3, <1>4, <1>5, <1>6 DEF Next

-----------------------------------------------------------------------------
(* The theorems.                                                            *)

\* The invariant is inductive, ...
LEMMA ReleaseStep == ASSUME ReleaseInv, [Next]_vars PROVE ReleaseInv'
<1>1. /\ ReleaseTypes /\ Noted /\ RunsArePushed /\ Promoting /\ PublicationInv
      /\ GauntletTypes /\ BoundTypes
  BY DEF ReleaseInv, ReleaseTypes
<1>2. PublicationTypes' /\ PublicationInv'
  <2>1. PublicationInv'
    BY <1>1, PublicationNext
  <2> QED
    BY <2>1 DEF PublicationInv
<1>3. GauntletTypes' /\ BoundTypes'
  BY <1>1, GauntletStep, BoundStep
<1>4. PromotionTypes' /\ RunsArePushed' /\ Promoting'
  BY <1>1, PromotionStep
<1>5. Noted'
  BY <1>1, NotedStep
<1> QED
  BY <1>2, <1>3, <1>4, <1>5 DEF ReleaseInv, ReleaseTypes

\* ... and holds at the beginning.
LEMMA ReleaseInit == Init => ReleaseInv
  BY InitTypes, InitNoted, InitPromoting, InitPublication DEF ReleaseInv

\* The inductive invariant holds in every state.
THEOREM ReleaseInvariant == Spec => []ReleaseInv
<1> HIDE DEF Init, Next, vars, ReleaseInv, Fairness
<1> QED
  BY ReleaseInit, ReleaseStep, PTL DEF Spec

\* For any pack, flaw of the commit and defect of the two builds: the files whose digest
\* release-gauntlet.sh printed give a client the pack of the commit, all of it and nothing
\* else, from both launcher archives and the Prism bootstrap.
THEOREM AcceptedIsPackHolds == Spec => []AcceptedIsPack
<1>1. ReleaseInv => AcceptedIsPack
  BY NotedIsPack DEF ReleaseInv
<1> HIDE DEF ReleaseInv, AcceptedIsPack, Spec
<1> QED
  BY <1>1, ReleaseInvariant, PTL

\* For any number of faults, crashes, replacements, pushes, tags and edits: the public
\* release has the accepted files under the tag that names it, and so had the one for which
\* publish-release.sh printed PUBLICATION: OK, but for the exceptions the property names.
THEOREM PublicIsAcceptedHolds == Spec => []PublicIsAccepted
<1>1. ReleaseInv => PublicIsAccepted
  BY DEF ReleaseInv, PublicationInv
<1> HIDE DEF ReleaseInv, PublicIsAccepted, Spec
<1> QED
  BY <1>1, ReleaseInvariant, PTL

\* For any number of the same: promote-release.sh pushes dev with a noted digest, main with
\* the CI of dev, and the tag with the CI of both, main holding the commit and a client that
\* has the accepted pack from the production address.
THEOREM PushesAreEarnedHolds == Spec => PushesAreEarned
<1> DEFINE Earned ==
      LET pushes(ref) == promote' # promote /\ remote'[ref] # remote[ref]
          passed(branch) == ci[<<branch, SHA>>] = "passed"
      IN /\ \A branch \in {"dev", "main"} :
              pushes(branch) => captured # None /\ (remote'[branch] = SHA \/ promote.raced)
         /\ pushes("main") => passed("dev") /\ Forward(SHA, remote.dev)
         /\ pushes("tag") => /\ passed("dev") /\ passed("main") /\ Forward(SHA, remote.main)
                             /\ remote'.tag = Tag(SHA, captured)
                             /\ promote.got = "accepted" \/ promote.raced
<1>1. ReleaseInv /\ [Next]_vars => [Earned]_vars
  BY PushesStep DEF ReleaseInv
<1>2. PushesAreEarned <=> [][Earned]_vars
  BY DEF PushesAreEarned
<1> HIDE DEF ReleaseInv, Earned, Next, vars, Init, Fairness
<1> QED
  BY <1>1, <1>2, ReleaseInvariant, PTL DEF Spec
=============================================================================
