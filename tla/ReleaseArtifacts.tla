-------------------------- MODULE ReleaseArtifacts --------------------------
(***************************************************************************)
(* What a release consists of (tools/release_artifacts.py): the Packwiz    *)
(* tree of a commit, the three archives built from it, the metadata, the   *)
(* checksums and the receipt that bind them, and the checks that decide    *)
(* whether a set of five files is the release of that commit.              *)
(*                                                                         *)
(* Bytes are known by what produced them: the bytes of an archive are the  *)
(* defect of its build, and a hash is the bytes themselves. Contents says  *)
(* what an archive built with that defect carries.                         *)
(***************************************************************************)
EXTENDS Integers, FiniteSets

CONSTANTS
  Authored,   \* the files the pack carries itself
  Mods,       \* the files its metafiles name
  Signal,     \* the mod that must be embedded
  Side,       \* Side[m]: "client", "server" or "both"
  CurseForge, \* the mods with a CurseForge project and file
  Path,       \* Path[i]: where a client finds item i
  Stray       \* an item that no pack names

\* The files of the Prism instance.
PrismParts == {"bootstrap", "installer", "instance.cfg", "mmc-pack.json"}

Items == Authored \cup Mods
Direct == Mods \ CurseForge

ASSUME ReleaseArtifactsParameters ==
  /\ IsFiniteSet(Items) /\ Authored \cap Mods = {}
  /\ Signal \in Direct /\ CurseForge \subseteq Mods /\ Stray \notin Items \cup PrismParts
  /\ Side \in [Mods -> {"client", "server", "both"}]
  /\ DOMAIN Path = Items

\* A launcher installs what an mrpack embeds on every side, and the check
\* wants every CurseForge mod embedded: no server-only mod of the pack is one.
ASSUME ServerOnlyIsDirect == \A m \in CurseForge : Side[m] # "server"

---------------------------------------------------------------------------
(* The Packwiz tree of a commit. Each item has one version that was meant   *)
(* (1) and one that was not (2).                                            *)

Flaws == {"none", "unsealed", "stale", "unlocked", "mislocked", "signalless", "clashing"}

\* Path is injective but for the items of Shadows, which hide another one.
Shadows == {i \in Authored : \E m \in Mods : Path[i] = Path[m]}

Tree(flaw) ==
  LET listed == (Items \ (IF flaw = "signalless" THEN {Signal} ELSE {}))
                  \ (IF flaw = "clashing" THEN {} ELSE Shadows)
      locked == (Direct \cap listed) \ (IF flaw = "unlocked" THEN {Signal} ELSE {})
  IN [blobs  |-> [i \in listed |-> IF flaw = "stale" THEN 2 ELSE 1],
      index  |-> [i \in listed |-> 1],
      sealed |-> flaw # "unsealed",
      lock   |-> [m \in locked |-> IF flaw = "mislocked" THEN 2 ELSE 1]]

\* git ls-tree and git cat-file of the commit, whatever the checkout holds
Tracked(tree) == DOMAIN tree.blobs

PackSealed(tree) == tree.sealed

IndexMatches(tree) ==
  \A i \in DOMAIN tree.index : i \in Tracked(tree) /\ tree.blobs[i] = tree.index[i]

SignalSound(tree) == Signal \in DOMAIN tree.index /\ Side[Signal] # "server"

LockMatches(tree) == DOMAIN tree.lock = Direct \cap DOMAIN tree.index

NoPathTwice(tree) ==
  \A i, j \in DOMAIN tree.index : Path[i] = Path[j] => i = j

PackwizInventory(tree) ==
  /\ PackSealed(tree) /\ IndexMatches(tree) /\ SignalSound(tree)
  /\ LockMatches(tree) /\ NoPathTwice(tree)

\* What packwiz-installer and client_install_support make of the tree itself.
ClientItems(tree) == {i \in DOMAIN tree.index : i \in Mods => Side[i] # "server"}
ClientPack(tree) == {<<i, tree.index[i]>> : i \in ClientItems(tree)}
ExpectedPayload(tree) ==
  /\ PackSealed(tree) /\ IndexMatches(tree)
  /\ \A i, j \in ClientItems(tree) : Path[i] = Path[j] => i = j

---------------------------------------------------------------------------
(* The archives. A listed file is one the launcher downloads.               *)

Archives == {"modrinth", "curseforge", "prism"}

Environment(side) == [client |-> side # "server", server |-> side # "client"]

Record(i, version) ==
  [item |-> i, file |-> version, sums |-> 1, required |-> TRUE,
   env |-> Environment(IF i \in Mods THEN Side[i] ELSE "both")]
Member(i, version) == [item |-> i, file |-> version]

\* packwiz export and build-prism-instance.sh, on the files of the commit
Exported(archive, tree) ==
  LET items == IF archive = "modrinth" THEN DOMAIN tree.blobs
               ELSE IF archive = "curseforge" THEN DOMAIN tree.blobs \cap ClientItems(tree) ELSE {}
      ids   == items \cap (IF archive = "modrinth" THEN Direct ELSE CurseForge)
  IN [listed   |-> {Record(i, tree.blobs[i]) : i \in ids},
      embedded |-> IF archive = "prism" THEN {Member(part, 1) : part \in PrismParts}
                   ELSE {Member(i, tree.blobs[i]) : i \in items \ ids}]

\* What may go wrong with a build or with a file it downloads.
Sound == [kind |-> "none", item |-> Stray]
BothDefects == [kind : {"dropped", "altered"}, item : Items]
                 \cup [kind : {"embedded", "listed"}, item : Items \cup {Stray}]
                 \cup [kind : {"misnamed"}, item : {Stray}]
Defects(archive) ==
  {Sound} \cup
  [prism      |-> [kind : {"altered"}, item : PrismParts] \cup [kind : {"embedded"}, item : {Stray}],
   modrinth   |-> BothDefects \cup [kind : {"sided", "measured"}, item : Direct],
   curseforge |-> BothDefects \cup [kind : {"optional"}, item : CurseForge]
                              \cup [kind : {"moved"}, item : Direct]][archive]

Other(version) == 3 - version
Flip(side) == IF side = "both" THEN "server" ELSE "both"

\* What the defect d makes of an entry for its item.
AlteredFile(e, d) == IF d.kind = "altered" THEN Other(e.file) ELSE e.file
Spoiled(r, d) ==
  [item |-> r.item, file |-> AlteredFile(r, d),
   sums |-> IF d.kind = "measured" THEN 2 ELSE r.sums,
   required |-> r.required /\ d.kind # "optional",
   env |-> IF d.kind = "sided" THEN Environment(Flip(Side[d.item])) ELSE r.env]

\* The bytes of an archive built with the defect d carry this.
Contents(archive, d, tree) ==
  LET a == Exported(archive, tree)
      but(S) == {e \in S : e.item # d.item}
      hit(S) == IF d.kind \in {"dropped", "moved"} THEN {} ELSE S \ but(S)
      new(kind, e) == IF d.kind = kind THEN {e} ELSE {}
  IN [identity |-> d.kind # "misnamed",
      listed   |-> but(a.listed) \cup {Spoiled(r, d) : r \in hit(a.listed)}
                     \cup new("listed", Record(d.item, 2)) \cup new("moved", Record(d.item, 1)),
      embedded |-> but(a.embedded) \cup {Member(e.item, AlteredFile(e, d)) : e \in hit(a.embedded)}
                     \cup new("embedded", Member(d.item, 2))]

\* What a client has when a launcher has installed the archive.
Installed(a) ==
  {<<e.item, e.file>> : e \in a.embedded}
    \cup {<<e.item, e.file>> : e \in {r \in a.listed : r.required /\ r.env.client}}

---------------------------------------------------------------------------
(* The inspections.                                                         *)

NamedOnce(S) == \A e, f \in S : e.item = f.item => e = f
ItemsOf(S) == {e.item : e \in S}
Has(S, i, version) == \E e \in S : e.item = i /\ e.file = version

ZipSafe(a) == NamedOnce(a.embedded)

AuthoredCarried(a, tree) ==
  \A i \in Authored \cap DOMAIN tree.index : Has(a.embedded, i, tree.index[i])

ModrinthFiles(a) == a.listed # {} /\ NamedOnce(a.listed)

\* mutant: whatever else the archive lists is not looked at
ModrinthCompleteForPack(a, tree) ==
  /\ AuthoredCarried(a, tree)
  /\ \A m \in Mods \cap DOMAIN tree.index :
       IF m \in Direct
       THEN \E r \in a.listed : r.item = m /\ r.file = tree.index[m] /\ r.env = Environment(Side[m])
       ELSE Has(a.embedded, m, tree.index[m])
  /\ ItemsOf(a.embedded) \subseteq DOMAIN tree.index \ Direct

ModrinthComplete(a, tree) ==
  /\ AuthoredCarried(a, tree)
  /\ \A m \in Mods \cap DOMAIN tree.index :
       IF m \in Direct
       THEN /\ m \notin ItemsOf(a.embedded)
            /\ \E r \in a.listed : /\ r.item = m /\ r.file = tree.index[m]
                                   /\ r.sums = tree.lock[m]
                                   /\ r.env = Environment(Side[m])
       ELSE m \notin ItemsOf(a.listed) /\ Has(a.embedded, m, tree.index[m])
  /\ ItemsOf(a.listed) \subseteq Direct \cap DOMAIN tree.index
  /\ ItemsOf(a.embedded) \subseteq DOMAIN tree.index \ Direct

InspectModrinth(a, tree) ==
  /\ ZipSafe(a) /\ a.identity /\ ModrinthFiles(a)
  /\ PackwizInventory(tree) /\ ModrinthComplete(a, tree)

\* A record is known by its project and file, so by its item and version.
CurseForgeFiles(a) == a.listed # {}

CurseForgeComplete(a, tree) ==
  LET mods == Mods \cap ClientItems(tree)
      recorded(m) == {r \in a.listed : m \in CurseForge /\ r.item = m /\ r.file = tree.index[m]}
      embedded(m) == {e \in a.embedded : e.item = m}
  IN /\ AuthoredCarried(a, tree)
     /\ \A m \in mods :
          /\ \A r \in recorded(m) : r.required
          /\ \A e \in embedded(m) : e.file = tree.index[m]
          /\ m = Signal => embedded(m) # {}
          /\ recorded(m) = {} <=> embedded(m) # {}
     /\ a.listed = UNION {recorded(m) : m \in mods}
     /\ ItemsOf(a.embedded) \subseteq ClientItems(tree)

InspectCurseForge(a, tree) ==
  /\ ZipSafe(a) /\ a.identity /\ CurseForgeFiles(a)
  /\ PackwizInventory(tree) /\ CurseForgeComplete(a, tree)

InspectPrism(a) == ZipSafe(a) /\ ItemsOf(a.embedded) = PrismParts /\ \A e \in a.embedded : e.file = 1

Inspect(archive, d, tree) ==
  LET a == Contents(archive, d, tree)
  IN /\ archive = "modrinth" => InspectModrinth(a, tree)
     /\ archive = "curseforge" => InspectCurseForge(a, tree)
     /\ archive = "prism" => InspectPrism(a)

\* The archives that pass for the commit of a tree, by their bytes.
Passing == [flaw \in Flaws |-> [archive \in Archives |-> {d \in Defects(archive) : Inspect(archive, d, Tree(flaw))}]]

---------------------------------------------------------------------------
(* The five files and the receipt.                                          *)

Names == Archives \cup {"metadata", "sums"}

\* write-metadata and write-checksums over the archives of a build
Metadata(build) == [archive \in Archives |-> build[archive]]
Sums(build) == [archives |-> Metadata(build), metadata |-> Metadata(build)]
Files(build) ==
  [name \in Names |-> IF name = "metadata" THEN Metadata(build)
                      ELSE IF name = "sums" THEN Sums(build) ELSE build[name]]

\* _classified_release_names and _verify_release_checksums
MetadataMatches(files) == files["metadata"] = Metadata(files)
ChecksumsMatch(files) == files["sums"] = [archives |-> Metadata(files), metadata |-> files["metadata"]]

Receipt(files) == files

\* Builds, and what five files can be.
Builds   == [Archives -> UNION {Defects(archive) : archive \in Archives}]
Bytes    == (UNION {Defects(archive) : archive \in Archives})
              \cup Builds \cup [archives: Builds, metadata: Builds]
FileSets == [Names -> Bytes]

VerifyPublicRelease(files, flaw) ==
  /\ MetadataMatches(files) /\ ChecksumsMatch(files)
  /\ \A archive \in Archives : files[archive] \in Passing[flaw][archive]

\* The receipt is the one whose digest was supplied, and it binds the files.
ReceiptBinds(receipt, digest, files) == receipt = digest /\ receipt = Receipt(files)
=============================================================================
