-------------------------- MODULE ServerTestProofs --------------------------
(***************************************************************************)
(* What a run of the headless server test may rely on, for any runs,       *)
(* checkouts, versions and bounds: a run that reports OK is this run, its  *)
(* evidence is its own, and it is refused for a reason.                    *)
(*                                                                         *)
(* The argument is about a run that is alone in its checkout, as long as   *)
(* it is (OwnInv): what it finds there at each label, whom it has to thank *)
(* for the nonces, what the oracle has compared, and how many edits it     *)
(* takes to come there with another version. Every step of a run leaves    *)
(* the others alone (Others), but for the directory of a checkout that is  *)
(* theirs, too, where it can write no nonce and no status but its own.     *)
(***************************************************************************)
EXTENDS ServerTest, FiniteSetTheorems, TLAPS

-----------------------------------------------------------------------------
(* What the steps of a run can rely on.                                     *)

Labels == {"idle", "port", "serve", "answer", "clear", "installers", "index", "install",
           "provenance", "seal", "item", "acquisition", "record", "gate", "boot", "running",
           "sources", "logs", "jars", "live", "cleanup", "capture", "done", "dead"}

\* From the emptied directory, the installed one, the rendered nonces and the boot on.
Booted    == {"running", "sources", "logs", "jars", "live"}
Rendered  == Booted \cup {"boot"}
Recorded  == Rendered \cup {"provenance", "seal", "item", "acquisition", "record", "gate"}
Cleared   == Recorded \cup {"installers", "index", "install"}
Begun     == Cleared \cup {"port", "serve", "answer", "clear"}

Running == {"starting", "loaded", "serving"}
Ended   == {"passed", "failed"}

Audits == {"item", "acquisition", "gate"}
DirFields == {"installed", "saved", "runtime", "packwiz", "audits", "provenance", "nonce",
              "log", "status", "ready"}
IsDir(d) == /\ DOMAIN d = DirFields /\ DOMAIN d.audits = Audits
            /\ d.installed \in [Parts -> Variants \cup {None}]
            /\ d.saved \in BOOLEAN /\ d.runtime \in BOOLEAN

\* What is left to install, and what is there meanwhile.
Suffixes == {IndexOrder, <<"data", "code", "mods">>, <<"code", "mods">>, <<"mods">>, <<>>}
Left(rest) == IF rest = IndexOrder THEN Parts
              ELSE IF rest = <<"data", "code", "mods">> THEN {"data", "code", "mods"}
              ELSE IF rest = <<"code", "mods">> THEN {"code", "mods"}
              ELSE IF rest = <<"mods">> THEN {"mods"} ELSE {}
Partly(p, rest) == [part \in Parts |-> IF part \in Left(rest) THEN None ELSE p[part]]

\* The types.
TestTypes ==
  /\ root \in [Checkouts -> [files: Versions, index: Versions]]
  /\ DOMAIN dir = Checkouts /\ \A c \in Checkouts : IsDir(dir[c])
  /\ cache \in {"absent", "good", "bad"}
  /\ serve \in [Runs -> {"none", "starting", "up"}]
  /\ server \in [Runs -> {"none"} \cup Running \cup Ended]
  /\ DOMAIN ran = Runs
  /\ \A r \in Runs : server[r] \in {"loaded", "serving"} => ran[r].pack \in [Parts -> Variants]
  /\ pc \in [Runs -> Labels] /\ where \in [Runs -> Checkouts]
  /\ manifest \in [Runs -> Versions \cup {None}] /\ plan \in [Runs -> Versions \cup {None}]
  /\ todo \in [Runs -> Suffixes] /\ fresh \in [Runs -> BOOLEAN]
  /\ verdict \in [Runs -> {None, "ok", "failed"}]
  /\ DOMAIN evidence = Runs /\ disturbed \in [Runs -> SUBSET {"crowd", "neighbour", "fault", "edit"}]
  /\ edits \in Nat /\ faults \in Nat

-----------------------------------------------------------------------------
(* What holds of a run in any company.                                      *)

\* The server of a run starts with its boot and its serve before.
Started(r) ==
  /\ pc[r] \in Begun \ Booted => server[r] = "none"
  /\ pc[r] = "idle" => server[r] = "none" /\ serve[r] = "none" /\ verdict[r] = None
                       /\ manifest[r] = None
  /\ pc[r] \in {"port", "serve"} => serve[r] = "none"
  /\ pc[r] \in Begun => manifest[r] # None /\ verdict[r] = None
  /\ pc[r] \in Cleared \ {"installers", "index"} => plan[r] # None
  /\ pc[r] \in {"idle", "port", "serve", "answer", "clear"} => ~fresh[r]
  /\ pc[r] \in {"done", "dead"} => ~fresh[r]

\* A run that shares its checkout with nobody alive.
Alone(r) == Active(r) /\ "crowd" \notin disturbed[r]
Apart(r) == \A q \in Runs : q # r /\ where[q] = where[r] /\ Alone(r) => ~Alive(q)

\* Only a server that has passed leaves a status of zero.
ZeroPassed == \A c \in Checkouts, r \in Runs :
  dir[c].status = [by |-> r, zero |-> TRUE] => server[r] = "passed"

\* As long as the three scripts hold the nonce of the run, its server has read it.
Announced(r) ==
  LET audits == Here(r).audits IN
  /\ /\ pc[r] \in {"boot", "running", "sources"} /\ server[r] \in {"loaded", "serving", "passed"}
     /\ \A a \in Audits : audits[a] = r
     => ran[r].nonces = {r}
  /\ pc[r] = "logs" => server[r] \in Ended /\ (server[r] = "passed" => ran[r].nonces = {r})
  /\ pc[r] \in {"jars", "live"} => server[r] = "passed" /\ ran[r].nonces = {r}
  /\ pc[r] \in {"sources"} => server[r] \in Ended

-----------------------------------------------------------------------------
(* What a run that is alone in its checkout finds there.                    *)

Own(d, r) ==
  /\ d.nonce \in {r, None} /\ d.provenance \in {r, None} /\ d.ready \in {r, None}
  /\ d.log # None => d.log.by = r
  /\ d.status # None => d.status.by = r

\* The scripts with a nonce, step by step.
AuditsAt(label, r) ==
  [item |-> IF label \in {"installers", "index"} THEN None
            ELSE IF label \in {"provenance", "seal", "item"} THEN Canonical ELSE r,
   acquisition |-> IF label \in {"installers", "index"} THEN None
            ELSE IF label \in {"provenance", "seal", "item", "acquisition"} THEN Canonical ELSE r,
   gate |-> IF label \in {"installers", "index"} THEN None
            ELSE IF label \in Rendered THEN r ELSE Canonical]

\* What the server has loaded is what was installed.
Loaded(r) ==
  server[r] \in {"loaded", "serving", "passed"} => ran[r].pack = plan[r] /\ ran[r].nonces = {r}

Sight(r) ==
  LET d == Here(r) IN
  /\ fresh[r] => Own(d, r)
  /\ pc[r] \in Cleared => fresh[r]
  /\ pc[r] \in Cleared \ {"installers"} => d.runtime
  /\ pc[r] \in {"installers", "index"} => d.installed = Absent
  /\ pc[r] = "install" =>
       /\ d.installed = Partly(plan[r], todo[r])
       /\ \A a \in Audits : d.audits[a] = IF "code" \in Left(todo[r]) THEN None ELSE Canonical
  /\ pc[r] \in Recorded => d.installed = plan[r] /\ d.packwiz = plan[r]
  /\ pc[r] \in Cleared \ {"install"} => \A a \in Audits : d.audits[a] = AuditsAt(pc[r], r)[a]
  /\ pc[r] \in Cleared \ (Rendered \cup {"gate"}) => d.provenance = None
  /\ pc[r] \in Rendered \cup {"gate"} => d.provenance = r
  /\ pc[r] \in Cleared \ Booted => ~d.saved
  /\ pc[r] \in Booted => Loaded(r)
  /\ pc[r] \in Booted \ {"running"} =>
       d.status = [by |-> r, zero |-> server[r] = "passed"]

\* What the oracle has found so far.
Reviewing(r) ==
  /\ pc[r] \in {"logs", "jars", "live"} => plan[r].code = "reviewed" /\ plan[r].data # "seal"
  /\ pc[r] = "live" => plan[r].mods = "reviewed"

\* Edits it takes to come here with another version than the run began with: the
\* manifest was compared before the installation was, after the boot and at the end.
Toll(r) ==
  plan[r] # manifest[r] =>
    /\ pc[r] = "provenance" /\ ~Unchanged(r) => edits >= 1
    /\ pc[r] \in {"seal", "item", "acquisition", "record", "gate", "boot", "running"} =>
         edits >= 1 /\ (Unchanged(r) => edits >= 2)
    /\ pc[r] \in {"sources", "logs"} => edits >= 2 /\ (~Unchanged(r) => edits >= 3)
    /\ pc[r] \in {"jars", "live"} => edits >= 3 /\ (Unchanged(r) => edits >= 4)

\* What is known of the runs that are alone.
AloneInv == \A r \in Runs : Alone(r) => Sight(r) /\ Reviewing(r) /\ Toll(r)

\* A run that reports OK has come to its end, and so has its server.
Late  == {"cleanup", "capture", "done", "dead"}
OkInv == \A r \in Runs : verdict[r] = "ok" => pc[r] \in Late /\ server[r] = "passed"

\* All that is known of one run ...
OwnInv(r) == Started(r) /\ Announced(r) /\ (Alone(r) => Sight(r) /\ Reviewing(r) /\ Toll(r))

\* ... and of all of them together: the inductive invariant.
TestInv ==
  /\ TestTypes /\ ZeroPassed /\ (\A r \in Runs : OwnInv(r) /\ Apart(r))
  /\ OkInv /\ OkIsThisRun /\ EvidenceIsOwn

-----------------------------------------------------------------------------
(* What a run finds that nothing disturbs.                                  *)

Promising(r) == Active(r) /\ disturbed[r] = {} /\ manifest[r] # None /\ Acceptable(manifest[r])
Untroubled(r) ==
  /\ verdict[r] # "failed"
  /\ Unchanged(r)
  /\ \A q \in Runs \ {r} : ~Alive(q)
  /\ pc[r] \in {"answer", "clear"} => serve[r] # "none"
  /\ pc[r] \in Cleared \cup {"clear"} => serve[r] = "up"
  /\ pc[r] \in Cleared \ {"installers", "index"} => plan[r] = manifest[r]
  /\ pc[r] \in Begun => server[r] # "failed"
UndisturbedInv == \A r \in Runs : Promising(r) => Untroubled(r)

\* The log of the server that it has in its own directory.
Logged(r) ==
  LET d == Here(r) IN
  pc[r] \in Booted =>
    /\ server[r] = "loaded" => d.log = [by |-> r, nonces |-> {}, whole |-> FALSE]
    /\ server[r] = "serving" => d.log = [by |-> r, nonces |-> {r}, whole |-> FALSE]
    /\ server[r] = "passed" => d.log = [by |-> r, nonces |-> {r}, whole |-> TRUE]
LoggedInv == \A r \in Runs : Alone(r) => Logged(r)

RefusalInv == TestInv /\ LoggedInv /\ UndisturbedInv /\ RefusalIsEarned

-----------------------------------------------------------------------------
(* Lemmas.                                                                  *)

USE DEF Labels, Booted, Rendered, Recorded, Cleared, Begun, Running, Ended, Audits, DirFields, Parts

\* An emptied directory has all its fields, and nothing in them.
LEMMA EmptyDir ==
  /\ IsDir(Empty) /\ Empty.installed = Absent /\ ~Empty.saved /\ ~Empty.runtime
  /\ Empty.packwiz = None /\ Empty.provenance = None /\ Empty.nonce = None /\ Empty.log = None
  /\ Empty.status = None /\ Empty.ready = None
  /\ \A a \in Audits : Empty.audits[a] = None
<1>1. DOMAIN Empty = DirFields
  BY DEF Empty
<1>2. DOMAIN Empty.audits = Audits
  BY DEF Empty
<1>3. Absent \in [Parts -> Variants \cup {None}]
  BY DEF Absent
<1>4. Empty.installed = Absent
  BY DEF Empty
<1>5. ~Empty.saved /\ ~Empty.runtime /\ Empty.saved \in BOOLEAN /\ Empty.runtime \in BOOLEAN
  BY DEF Empty
<1>6. /\ Empty.packwiz = None /\ Empty.provenance = None /\ Empty.nonce = None /\ Empty.log = None
      /\ Empty.status = None /\ Empty.ready = None
  BY DEF Empty
<1>7. \A a \in Audits : Empty.audits[a] = None
  BY DEF Empty
<1>8. IsDir(Empty)
  BY <1>1, <1>2, <1>3, <1>4, <1>5 DEF IsDir
<1> QED
  BY <1>4, <1>5, <1>6, <1>7, <1>8

\* Nor has the one that a run has emptied, but for the nonce of that run.
LEMMA EmptiedDir ==
  ASSUME NEW r
  PROVE  LET d == [Empty EXCEPT !.nonce = r] IN
         /\ IsDir(d) /\ d.installed = Absent /\ ~d.saved /\ ~d.runtime
         /\ d.packwiz = None /\ d.provenance = None /\ d.nonce = r /\ d.log = None
         /\ d.status = None /\ d.ready = None
         /\ \A a \in Audits : d.audits[a] = None
  BY EmptyDir DEF IsDir

\* The types hold at the beginning.
LEMMA InitTypes == Init => TestTypes
<1> SUFFICES ASSUME Init PROVE TestTypes
  OBVIOUS
<1>1. root \in [Checkouts -> [files: Versions, index: Versions]]
  BY ServerTestBounds DEF Init
<1>2. DOMAIN dir = Checkouts /\ \A c \in Checkouts : IsDir(dir[c])
  BY EmptyDir DEF Init
<1>3. /\ cache \in {"absent", "good", "bad"}
  /\ serve \in [Runs -> {"none", "starting", "up"}]
  /\ server \in [Runs -> {"none"} \cup Running \cup Ended]
  /\ DOMAIN ran = Runs
  /\ pc \in [Runs -> Labels] /\ where \in [Runs -> Checkouts]
  BY DEF Init
<1>4. /\ manifest \in [Runs -> Versions \cup {None}] /\ plan \in [Runs -> Versions \cup {None}]
  /\ todo \in [Runs -> Suffixes] /\ fresh \in [Runs -> BOOLEAN]
  BY DEF Init, Suffixes
<1>5. verdict \in [Runs -> {None, "ok", "failed"}]
  BY DEF Init
<1>6. /\ DOMAIN evidence = Runs /\ disturbed \in [Runs -> SUBSET {"crowd", "neighbour", "fault", "edit"}]
  BY DEF Init
<1>7. edits \in Nat /\ faults \in Nat
  <2> DEFINE drafted == {c \in Checkouts : root[c].files # Reviewed}
  <2>1. Cardinality(drafted) \in Nat
    BY ServerTestBounds, FS_Subset, FS_CardinalityType
  <2> QED
    BY <2>1 DEF Init
<1>8. \A r \in Runs : server[r] = "none"
  BY DEF Init
<1> QED
  BY <1>1, <1>2, <1>3, <1>4, <1>5, <1>6, <1>7, <1>8 DEF TestTypes

-----------------------------------------------------------------------------
(* Types, one lemma per group of steps.                                     *)

\* A step to another label keeps the labels.
LEMMA GotoTypes ==
  ASSUME TestTypes, NEW r \in Runs, NEW label \in Labels, Goto(r, label)
  PROVE  pc' \in [Runs -> Labels]
  BY DEF TestTypes, Goto

\* A refusal keeps labels and verdicts.
LEMMA RefuseTypes ==
  ASSUME TestTypes, NEW r \in Runs, Refuse(r)
  PROVE  pc' \in [Runs -> Labels] /\ verdict' \in [Runs -> {None, "ok", "failed"}]
  BY GotoTypes DEF TestTypes, Refuse

\* So does a check, passed or not.
LEMMA CheckTypes ==
  ASSUME TestTypes, NEW r \in Runs, NEW label, NEW passed, NEW next \in Labels,
         Check(r, label, passed, next)
  PROVE  pc' \in [Runs -> Labels] /\ verdict' \in [Runs -> {None, "ok", "failed"}]
  BY GotoTypes, RefuseTypes DEF TestTypes, Check

DirTyped == DOMAIN dir = Checkouts /\ \A c \in Checkouts : IsDir(dir[c])

\* A directory that is replaced by a directory leaves directories.
LEMMA WriteTypes ==
  ASSUME TestTypes, NEW r \in Runs, NEW d, IsDir(d), Write(r, d)
  PROVE  DirTyped'
  BY DEF TestTypes, DirTyped, Write

\* The directory of a run is one.
LEMMA HereTyped == ASSUME TestTypes, NEW r \in Runs
                   PROVE  IsDir(Here(r)) /\ where[r] \in Checkouts /\ Here(r) = dir[where[r]]
  BY DEF TestTypes, Here

\* A change of one field that is no set of files.
LEMMA PutTypes ==
  ASSUME TestTypes, NEW r \in Runs, NEW value,
         NEW field \in {"packwiz", "provenance", "nonce", "log", "status", "ready"},
         Put(r, field, value)
  PROVE  DirTyped'
<1> DEFINE d == [Here(r) EXCEPT ![field] = value]
<1>1. IsDir(d)
  BY HereTyped DEF IsDir
<1> QED
  BY <1>1, WriteTypes DEF Put

\* A change of the scripts leaves a directory.
LEMMA PutAuditsTypes ==
  ASSUME TestTypes, NEW r \in Runs, NEW audits, DOMAIN audits = Audits, Put(r, "audits", audits)
  PROVE  DirTyped'
<1> DEFINE d == [Here(r) EXCEPT !.audits = audits]
<1>1. IsDir(d)
  BY HereTyped DEF IsDir
<1> QED
  BY <1>1, WriteTypes DEF Put

\* What is blamed is one of the four disturbances.
LEMMA BlameTypes ==
  ASSUME TestTypes, NEW r \in Runs, NEW what \in {"crowd", "neighbour", "fault", "edit"}, Blame(r, what)
  PROVE  disturbed' \in [Runs -> SUBSET {"crowd", "neighbour", "fault", "edit"}]
  BY DEF TestTypes, Blame

\* A process that ends leaves plan, rest and freshness with their types.
LEMMA ForgetTypes ==
  ASSUME TestTypes, NEW r \in Runs, Forget(r)
  PROVE  /\ plan' \in [Runs -> Versions \cup {None}] /\ todo' \in [Runs -> Suffixes]
         /\ fresh' \in [Runs -> BOOLEAN]
  BY DEF TestTypes, Forget, Suffixes

\* A fault is counted.
LEMMA FaultTypes == ASSUME TestTypes, Fault PROVE faults' \in Nat
  BY DEF TestTypes, Fault

\* Begin keeps the types.
LEMMA BeginTypes == ASSUME TestTypes, NEW r \in Runs, Begin(r) PROVE TestTypes'
<1> USE DEF Begin
<1>1. disturbed' \in [Runs -> SUBSET {"crowd", "neighbour", "fault", "edit"}]
  BY DEF Company, TestTypes
<1>2. pc' \in [Runs -> Labels] /\ verdict' \in [Runs -> {None, "ok", "failed"}]
  BY GotoTypes, RefuseTypes DEF TestTypes
<1>3. manifest' \in [Runs -> Versions \cup {None}]
  BY DEF TestTypes
<1> QED
  BY <1>1, <1>2, <1>3 DEF TestTypes

USE DEF reading, outside, settled, processes, harness

\* The checks that change nothing but the label.
LEMMA ReadingTypes ==
  ASSUME TestTypes, NEW r \in Runs, NEW label, NEW passed, NEW next \in Labels,
         Check(r, label, passed, next), UNCHANGED reading
  PROVE  TestTypes'
  BY CheckTypes DEF TestTypes

\* StartServe keeps the types.
LEMMA StartServeTypes == ASSUME TestTypes, NEW r \in Runs, StartServe(r) PROVE TestTypes'
<1>1. pc' \in [Runs -> Labels]
  BY GotoTypes DEF StartServe
<1>2. serve' \in [Runs -> {"none", "starting", "up"}]
  BY DEF StartServe, TestTypes
<1> QED
  BY <1>1, <1>2 DEF StartServe, TestTypes

\* ClearDirectory keeps the types.
LEMMA ClearTypes == ASSUME TestTypes, NEW r \in Runs, ClearDirectory(r) PROVE TestTypes'
<1> USE DEF ClearDirectory
<1>1. pc' \in [Runs -> Labels] /\ verdict' \in [Runs -> {None, "ok", "failed"}]
  BY CheckTypes
<1>2. DirTyped'
  <2>1. IsDir([Empty EXCEPT !.nonce = r])
    BY EmptiedDir
  <2> QED
    BY <2>1, WriteTypes DEF TestTypes, DirTyped
<1>3. fresh' \in [Runs -> BOOLEAN]
  BY DEF TestTypes
<1> QED
  BY <1>1, <1>2, <1>3 DEF TestTypes, DirTyped

\* Installers keeps the types.
LEMMA InstallersTypes == ASSUME TestTypes, NEW r \in Runs, Installers(r) PROVE TestTypes'
<1> USE DEF Installers
<1>1. pc' \in [Runs -> Labels] /\ verdict' \in [Runs -> {None, "ok", "failed"}]
  BY CheckTypes
<1>2. IsDir([Here(r) EXCEPT !.runtime = TRUE])
  BY HereTyped DEF IsDir
<1>3. Put(r, "runtime", TRUE) => DirTyped'
  BY <1>2, WriteTypes DEF Put
<1>4. DirTyped'
  BY <1>3 DEF TestTypes, DirTyped
<1>5. disturbed' \in [Runs -> SUBSET {"crowd", "neighbour", "fault", "edit"}]
  BY BlameTypes DEF TestTypes
<1>6. cache' \in {"absent", "good", "bad"}
  OBVIOUS
<1> QED
  BY <1>1, <1>4, <1>5, <1>6 DEF TestTypes, DirTyped

\* ReadIndex keeps the types.
LEMMA ReadIndexTypes == ASSUME TestTypes, NEW r \in Runs, ReadIndex(r) PROVE TestTypes'
<1> USE DEF ReadIndex
<1>1. pc' \in [Runs -> Labels] /\ verdict' \in [Runs -> {None, "ok", "failed"}]
  BY CheckTypes
<1>2. PortBusy => Holder \in Runs
  BY DEF PortBusy, Holder
<1>3. PortBusy => root[where[Holder]].index \in Versions
  BY <1>2 DEF TestTypes
<1>4. plan' \in [Runs -> Versions \cup {None}]
  BY <1>3 DEF TestTypes
<1>5. IndexOrder \in Suffixes
  BY DEF Suffixes
<1>6. todo' \in [Runs -> Suffixes]
  BY <1>5 DEF TestTypes
<1> QED
  BY <1>1, <1>4, <1>6 DEF TestTypes

\* What is left to install gets shorter from the front.
LEMMA SuffixSteps ==
  ASSUME NEW t \in Suffixes, t # <<>>
  PROVE  /\ Head(t) \in Parts /\ Tail(t) \in Suffixes
         /\ Left(Tail(t)) = Left(t) \ {Head(t)} /\ Head(t) \in Left(t)
<1>1. CASE t = IndexOrder
  BY <1>1 DEF IndexOrder, Suffixes, Left
<1>2. CASE t = <<"data", "code", "mods">>
  BY <1>2 DEF IndexOrder, Suffixes, Left
<1>3. CASE t = <<"code", "mods">>
  BY <1>3 DEF IndexOrder, Suffixes, Left
<1>4. CASE t = <<"mods">>
  BY <1>4 DEF IndexOrder, Suffixes, Left
<1> QED
  BY <1>1, <1>2, <1>3, <1>4 DEF Suffixes

\* The directory with one more part in it, field by field.
LEMMA WithPartFields ==
  ASSUME NEW d, IsDir(d), NEW part \in Parts, NEW kind \in Variants
  PROVE  LET e == WithPart(d, part, kind) IN
         /\ IsDir(e) /\ e.installed = [d.installed EXCEPT ![part] = kind]
         /\ e.saved = (d.saved /\ part # "data")
         /\ \A a \in Audits : e.audits[a] = IF part = "code" THEN Canonical ELSE d.audits[a]
         /\ \A field \in DirFields \ {"installed", "saved", "audits"} : e[field] = d[field]
<1> DEFINE e == WithPart(d, part, kind)
           audits == IF part = "code" THEN [a \in DOMAIN d.audits |-> Canonical] ELSE d.audits
<1>1. DOMAIN e = DirFields /\ \A field \in DirFields \ {"installed", "saved", "audits"} : e[field] = d[field]
  BY DEF WithPart, IsDir
<1>2. e.installed = [d.installed EXCEPT ![part] = kind]
  BY DEF WithPart, IsDir
<1>3. e.saved = (d.saved /\ part # "data")
  BY DEF WithPart, IsDir
<1>4. e.audits = audits
  BY DEF WithPart, IsDir
<1>5. DOMAIN audits = Audits /\ \A a \in Audits : audits[a] = IF part = "code" THEN Canonical ELSE d.audits[a]
  BY DEF IsDir
<1>6. e.installed \in [Parts -> Variants \cup {None}]
  BY <1>2 DEF IsDir
<1>7. e.saved \in BOOLEAN /\ e.runtime \in BOOLEAN
  BY <1>1, <1>3 DEF IsDir
<1> HIDE DEF e, audits
<1>8. IsDir(e)
  BY <1>1, <1>4, <1>5, <1>6, <1>7 DEF IsDir
<1>9. \A a \in Audits : e.audits[a] = IF part = "code" THEN Canonical ELSE d.audits[a]
  BY <1>4, <1>5
<1> QED
  BY <1>1, <1>2, <1>3, <1>8, <1>9 DEF e

\* InstallPart keeps the types.
LEMMA InstallPartTypes ==
  ASSUME TestTypes, NEW r \in Runs, plan[r] # None, InstallPart(r) PROVE TestTypes'
<1> USE DEF InstallPart
<1>1. pc' \in [Runs -> Labels] /\ verdict' \in [Runs -> {None, "ok", "failed"}]
  BY CheckTypes
<1>2. Head(todo[r]) \in Parts /\ Tail(todo[r]) \in Suffixes
  BY SuffixSteps DEF TestTypes
<1>3. DirTyped'
  <2>1. plan[r][Head(todo[r])] \in Variants
    BY <1>2 DEF TestTypes, Versions
  <2>2. IsDir(WithPart(Here(r), Head(todo[r]), plan[r][Head(todo[r])]))
    BY <1>2, <2>1, WithPartFields, HereTyped
  <2> QED
    BY <2>2, WriteTypes DEF TestTypes, DirTyped
<1>4. todo' \in [Runs -> Suffixes]
  BY <1>2 DEF TestTypes
<1> QED
  BY <1>1, <1>3, <1>4 DEF TestTypes, DirTyped

\* InstallRecord keeps the types.
LEMMA InstallRecordTypes == ASSUME TestTypes, NEW r \in Runs, InstallRecord(r) PROVE TestTypes'
<1> USE DEF InstallRecord
<1>1. pc' \in [Runs -> Labels] /\ verdict' \in [Runs -> {None, "ok", "failed"}]
  BY CheckTypes
<1>2. DirTyped'
  BY PutTypes
<1> QED
  BY <1>1, <1>2 DEF TestTypes, DirTyped

\* WalkDisturbed keeps the types.
LEMMA WalkTypes == ASSUME TestTypes, NEW r \in Runs, WalkDisturbed(r) PROVE TestTypes'
  BY RefuseTypes DEF TestTypes, WalkDisturbed

\* RenderItem keeps the types.
LEMMA RenderItemTypes == ASSUME TestTypes, NEW r \in Runs, RenderItem(r) PROVE TestTypes'
<1> USE DEF RenderItem
<1>1. pc' \in [Runs -> Labels] /\ verdict' \in [Runs -> {None, "ok", "failed"}]
  BY CheckTypes
<1>2. DirTyped'
  <2>1. DOMAIN [Here(r).audits EXCEPT !.item = r] = Audits
    BY HereTyped DEF IsDir
  <2>2. Put(r, "audits", [Here(r).audits EXCEPT !.item = r]) => DirTyped'
    BY <2>1, PutAuditsTypes
  <2> QED
    BY <2>2 DEF TestTypes, DirTyped
<1> QED
  BY <1>1, <1>2 DEF TestTypes, DirTyped

\* RenderGate keeps the types.
LEMMA RenderGateTypes == ASSUME TestTypes, NEW r \in Runs, RenderGate(r) PROVE TestTypes'
<1> USE DEF RenderGate
<1>1. pc' \in [Runs -> Labels] /\ verdict' \in [Runs -> {None, "ok", "failed"}]
  BY CheckTypes
<1>2. DirTyped'
  <2>1. DOMAIN [Here(r).audits EXCEPT !.gate = r] = Audits
    BY HereTyped DEF IsDir
  <2>2. Put(r, "audits", [Here(r).audits EXCEPT !.gate = r]) => DirTyped'
    BY <2>1, PutAuditsTypes
  <2> QED
    BY <2>2 DEF TestTypes, DirTyped
<1> QED
  BY <1>1, <1>2 DEF TestTypes, DirTyped

\* The directory after the undoing, field by field.
LEMMA UnrenderedFields ==
  ASSUME NEW d, IsDir(d)
  PROVE  LET e == Unrendered(d) IN
         /\ IsDir(e) /\ e.provenance = None
         /\ e.audits.gate = d.audits.gate
         /\ \A a \in Audits : e.audits[a] \in {d.audits[a], Canonical}
         /\ \A field \in DirFields \ {"provenance", "audits"} : e[field] = d[field]
<1> DEFINE e == Unrendered(d)
           audits == [a \in DOMAIN d.audits |->
                        IF a = "gate" \/ d.audits[a] = None THEN d.audits[a] ELSE Canonical]
<1>1. DOMAIN e = DirFields /\ \A field \in DirFields \ {"provenance", "audits"} : e[field] = d[field]
  BY DEF Unrendered, IsDir
<1>2. e.provenance = None
  BY DEF Unrendered, IsDir
<1>3. e.audits = audits
  BY DEF Unrendered, IsDir
<1>4. DOMAIN audits = Audits /\ audits.gate = d.audits.gate
      /\ \A a \in Audits : audits[a] \in {d.audits[a], Canonical}
  BY DEF IsDir
<1> HIDE DEF e, audits
<1>5. IsDir(e)
  BY <1>1, <1>3, <1>4 DEF IsDir
<1> QED
  BY <1>1, <1>2, <1>3, <1>4, <1>5 DEF e

\* RenderAcquisition keeps the types.
LEMMA RenderAcquisitionTypes ==
  ASSUME TestTypes, NEW r \in Runs, RenderAcquisition(r)
  PROVE  TestTypes'
<1> USE DEF RenderAcquisition
<1>1. pc' \in [Runs -> Labels] /\ verdict' \in [Runs -> {None, "ok", "failed"}]
  BY CheckTypes
<1>2. DirTyped'
  <2> DEFINE audits == Here(r).audits
  <2>1. DOMAIN audits = Audits
    BY HereTyped DEF IsDir
  <2>2. CASE audits.acquisition # None
    <3>1. Put(r, "audits", [audits EXCEPT !.acquisition = r])
      BY <2>2
    <3> QED
      BY <2>1, <3>1, PutAuditsTypes
  <2>3. CASE audits.acquisition = None
    <3>1. Put(r, "audits", [audits EXCEPT !.item = IF audits.item = None THEN None ELSE Canonical])
      BY <2>3
    <3> QED
      BY <2>1, <3>1, PutAuditsTypes
  <2> QED
    BY <2>2, <2>3
<1> QED
  BY <1>1, <1>2 DEF TestTypes, DirTyped

\* RenderRecord keeps the types.
LEMMA RenderRecordTypes == ASSUME TestTypes, NEW r \in Runs, RenderRecord(r) PROVE TestTypes'
<1> USE DEF RenderRecord
<1>1. pc' \in [Runs -> Labels] /\ verdict' \in [Runs -> {None, "ok", "failed"}]
  BY CheckTypes
<1>2. Put(r, "provenance", r) => DirTyped'
  BY PutTypes
<1>3. Write(r, Unrendered(Here(r))) => DirTyped'
  BY UnrenderedFields, HereTyped, WriteTypes
<1> QED
  BY <1>1, <1>2, <1>3 DEF TestTypes, DirTyped

\* RenderFails keeps the types.
LEMMA RenderFailsTypes == ASSUME TestTypes, NEW r \in Runs, RenderFails(r) PROVE TestTypes'
<1> USE DEF RenderFails
<1>1. pc' \in [Runs -> Labels] /\ verdict' \in [Runs -> {None, "ok", "failed"}]
  BY RefuseTypes
<1>2. disturbed' \in [Runs -> SUBSET {"crowd", "neighbour", "fault", "edit"}]
  BY BlameTypes
<1>3. DirTyped'
  BY UnrenderedFields, HereTyped, WriteTypes
<1> QED
  BY <1>1, <1>2, <1>3, FaultTypes DEF TestTypes, DirTyped

\* Boot keeps the types.
LEMMA BootTypes == ASSUME TestTypes, NEW r \in Runs, Boot(r) PROVE TestTypes'
<1> USE DEF Boot
<1>1. pc' \in [Runs -> Labels] /\ verdict' \in [Runs -> {None, "ok", "failed"}]
  BY CheckTypes
<1>2. server' \in [Runs -> {"none"} \cup Running \cup Ended]
  BY DEF TestTypes
<1> QED
  BY <1>1, <1>2 DEF TestTypes

\* AwaitServer keeps the types.
LEMMA AwaitServerTypes == ASSUME TestTypes, NEW r \in Runs, AwaitServer(r) PROVE TestTypes'
<1> USE DEF AwaitServer
<1>1. pc' \in [Runs -> Labels] /\ verdict' \in [Runs -> {None, "ok", "failed"}]
  BY CheckTypes
<1>2. DirTyped'
  BY PutTypes
<1> QED
  BY <1>1, <1>2 DEF TestTypes, DirTyped

\* LiveTests keeps the types.
LEMMA LiveTypes == ASSUME TestTypes, NEW r \in Runs, LiveTests(r) PROVE TestTypes'
<1> USE DEF LiveTests
<1>1. pc' \in [Runs -> Labels]
  BY GotoTypes
<1>2. verdict' \in [Runs -> {None, "ok", "failed"}]
  BY DEF TestTypes
<1>3. DirTyped'
  BY PutTypes
<1> QED
  BY <1>1, <1>2, <1>3 DEF TestTypes, DirTyped

\* The end of a run keeps the types.
LEMMA EndingTypes ==
  ASSUME TestTypes, NEW r \in Runs, CleanUp(r) \/ Capture(r) \/ Interrupt(r) \/ Kill(r)
  PROVE  TestTypes'
<1>1. CASE CleanUp(r)
  <2>1. pc' \in [Runs -> Labels]
    BY <1>1, GotoTypes DEF CleanUp
  <2>2. serve' \in [Runs -> {"none", "starting", "up"}]
    BY <1>1 DEF CleanUp, TestTypes
  <2> QED
    BY <1>1, <2>1, <2>2 DEF CleanUp, TestTypes
<1>2. CASE Capture(r)
  <2>1. pc' \in [Runs -> Labels]
    BY <1>2, GotoTypes DEF Capture
  <2>2. DOMAIN evidence' = Runs
    BY <1>2 DEF Capture, TestTypes
  <2> QED
    BY <1>2, <2>1, <2>2, ForgetTypes DEF Capture, TestTypes
<1>3. CASE Interrupt(r)
  BY <1>3, RefuseTypes, BlameTypes, FaultTypes DEF Interrupt, TestTypes
<1>4. CASE Kill(r)
  <2>1. pc' \in [Runs -> Labels]
    BY <1>4, GotoTypes DEF Kill
  <2> QED
    BY <1>4, <2>1, ForgetTypes, FaultTypes DEF Kill, TestTypes
<1> QED
  BY <1>1, <1>2, <1>3, <1>4

-----------------------------------------------------------------------------
(* Types, for the processes and the world.                                  *)

\* The serve keeps the types.
LEMMA ServeTypes ==
  ASSUME TestTypes, NEW r \in Runs, ServeBinds(r) \/ KillServe(r) PROVE TestTypes'
<1>1. serve' \in [Runs -> {"none", "starting", "up"}]
  BY DEF ServeBinds, KillServe, TestTypes
<1> QED
  BY <1>1 DEF ServeBinds, KillServe, TestTypes

\* ServerLoads keeps the types.
LEMMA LoadsTypes == ASSUME TestTypes, NEW r \in Runs, ServerLoads(r) PROVE TestTypes'
<1> USE DEF ServerLoads
<1>1. server' \in [Runs -> {"none"} \cup Running \cup Ended]
  BY DEF TestTypes
<1>2. DOMAIN ran' = Runs
  BY DEF TestTypes
<1>3. server'[r] = "loaded" =>
        Here(r).installed \in [Parts -> Variants] /\ ran'[r].pack = Here(r).installed
  <2>1. server'[r] = "loaded" => None \notin Range(Here(r).installed) /\ ran'[r].pack = Here(r).installed
    BY DEF TestTypes
  <2> QED
    BY <2>1, HereTyped DEF Range, IsDir
<1>4. server'[r] \in {"loaded", "failed"}
  BY DEF TestTypes
<1>5. \A q \in Runs \ {r} : server'[q] = server[q] /\ ran'[q] = ran[q]
  BY DEF TestTypes
<1>6. \A q \in Runs : server'[q] \in {"loaded", "serving"} => ran'[q].pack \in [Parts -> Variants]
  BY <1>3, <1>4, <1>5 DEF TestTypes
<1>7. DirTyped'
  BY PutTypes
<1> QED
  BY <1>1, <1>2, <1>6, <1>7 DEF TestTypes, DirTyped

\* ServerServes keeps the types.
LEMMA ServesTypes == ASSUME TestTypes, NEW r \in Runs, ServerServes(r) PROVE TestTypes'
<1> DEFINE pack == [ran[r].pack EXCEPT !.data = Here(r).installed.data]
           new == [pack |-> pack, nonces |-> ran[r].nonces]
<1>1. server[r] = "loaded"
  BY DEF ServerServes
<1>2. \/ server' = [server EXCEPT ![r] = "failed"] /\ dir' = dir /\ ran' = ran
      \/ /\ server' = [server EXCEPT ![r] = "serving"] /\ Here(r).installed.data # None
         /\ ran' = [ran EXCEPT ![r] = new] /\ Put(r, "log", Log(r, ran[r].nonces, FALSE))
  BY Zenon DEF ServerServes
<1>3. server' \in [Runs -> {"none"} \cup Running \cup Ended]
  BY <1>2 DEF TestTypes
<1>4. new.pack = pack
  OBVIOUS
<1>5. Here(r).installed.data # None => pack \in [Parts -> Variants]
  <2>1. ran[r].pack \in [Parts -> Variants]
    BY <1>1 DEF TestTypes
  <2>2. Here(r).installed.data \in Variants \cup {None}
    BY HereTyped DEF IsDir
  <2> QED
    BY <2>1, <2>2
<1> HIDE DEF new, pack
<1>6. DOMAIN ran' = Runs
  BY <1>2 DEF TestTypes
<1>7. \A q \in Runs : server'[q] \in {"loaded", "serving"} => ran'[q].pack \in [Parts -> Variants]
  <2> SUFFICES ASSUME NEW q \in Runs, server'[q] \in {"loaded", "serving"}
               PROVE  ran'[q].pack \in [Parts -> Variants]
    OBVIOUS
  <2>1. CASE q = r
    BY <1>2, <1>4, <1>5, <2>1 DEF TestTypes
  <2>2. CASE q # r
    BY <1>2, <2>2 DEF TestTypes
  <2> QED
    BY <2>1, <2>2
<1>8. Put(r, "log", Log(r, ran[r].nonces, FALSE)) => DirTyped'
  BY PutTypes
<1>9. DirTyped'
  BY <1>2, <1>8 DEF TestTypes, DirTyped
<1> QED
  BY <1>3, <1>6, <1>7, <1>9 DEF TestTypes, DirTyped, ServerServes

\* The directory that a server leaves behind.
Saved(d, kind, log) ==
  [d EXCEPT !.installed = [d.installed EXCEPT !.data = kind], !.saved = TRUE, !.log = log]

\* It differs from the one before in the quests, their form and the log.
LEMMA SavedFields ==
  ASSUME NEW d, IsDir(d), NEW kind \in Variants, NEW log
  PROVE  LET e == Saved(d, kind, log) IN
         /\ IsDir(e) /\ e.installed = [d.installed EXCEPT !.data = kind] /\ e.log = log /\ e.saved
         /\ \A field \in DirFields \ {"installed", "saved", "log"} : e[field] = d[field]
<1> DEFINE e == Saved(d, kind, log)
<1>1. DOMAIN e = DirFields /\ \A field \in DirFields \ {"installed", "saved", "log"} : e[field] = d[field]
  BY DEF Saved, IsDir
<1>2. e.installed = [d.installed EXCEPT !.data = kind]
  BY DEF Saved, IsDir
<1>3. e.saved = TRUE /\ e.log = log
  BY DEF Saved, IsDir
<1>4. e.installed \in [Parts -> Variants \cup {None}]
  BY <1>2 DEF IsDir
<1> HIDE DEF e
<1>5. IsDir(e)
  BY <1>1, <1>3, <1>4 DEF IsDir
<1> QED
  BY <1>1, <1>2, <1>3, <1>5 DEF e

\* A server that is stopped leaves a directory.
LEMMA StoppedTypes ==
  ASSUME TestTypes, NEW r \in Runs, server[r] = "serving", NEW outcome \in Ended, Stopped(r, outcome)
  PROVE  DirTyped' /\ server' \in [Runs -> {"none"} \cup Running \cup Ended]
         /\ \A q \in Runs : server'[q] \in {"loaded", "serving"} => server'[q] = server[q]
<1>1. Write(r, Saved(Here(r), ran[r].pack.data, Log(r, ran[r].nonces, outcome = "passed")))
  BY DEF Stopped, Saved
<1>2. ran[r].pack.data \in Variants
  BY DEF TestTypes
<1>3. DirTyped'
  BY <1>1, <1>2, SavedFields, HereTyped, WriteTypes
<1> QED
  BY <1>3 DEF Stopped, TestTypes

\* ServerStops keeps the types.
LEMMA StopsTypes == ASSUME TestTypes, NEW r \in Runs, ServerStops(r) PROVE TestTypes'
  BY StoppedTypes DEF ServerStops, TestTypes, DirTyped

\* ServerEnds keeps the types.
LEMMA EndsTypes == ASSUME TestTypes, NEW r \in Runs, ServerEnds(r) PROVE TestTypes'
<1> USE DEF ServerEnds
<1>1. /\ DirTyped' /\ server' \in [Runs -> {"none"} \cup Running \cup Ended]
      /\ \A q \in Runs : server'[q] \in {"loaded", "serving"} => server'[q] = server[q]
  BY StoppedTypes DEF TestTypes, DirTyped
<1>2. disturbed' \in [Runs -> SUBSET {"crowd", "neighbour", "fault", "edit"}]
  BY BlameTypes DEF TestTypes
<1>3. faults' \in Nat
  BY FaultTypes DEF TestTypes
<1> QED
  BY <1>1, <1>2, <1>3 DEF TestTypes, DirTyped

\* Edit keeps the types.
LEMMA EditTypes ==
  ASSUME TestTypes, NEW c \in Checkouts, NEW p \in Drafts, NEW refreshed \in BOOLEAN,
         Edit(c, p, refreshed)
  PROVE  TestTypes'
<1> USE DEF Edit
<1>1. p \in Versions
  BY ServerTestBounds
<1>2. root[c].index \in Versions
  BY DEF TestTypes
<1>3. root' \in [Checkouts -> [files: Versions, index: Versions]]
  BY <1>1, <1>2 DEF TestTypes
<1>4. disturbed' \in [Runs -> SUBSET {"crowd", "neighbour", "fault", "edit"}]
  BY DEF Touched, TestTypes
<1>5. edits' \in Nat
  BY DEF TestTypes
<1> QED
  BY <1>3, <1>4, <1>5 DEF TestTypes

\* CacheTorn keeps the types.
LEMMA TornTypes == ASSUME TestTypes, CacheTorn PROVE TestTypes'
  BY FaultTypes DEF CacheTorn, TestTypes

-----------------------------------------------------------------------------
(* A step of a run, or of its processes, leaves the others alone.           *)

Others(r) ==
  /\ root' = root /\ where' = where /\ edits' = edits
  /\ \A c \in Checkouts \ {where[r]} : dir'[c] = dir[c]
  /\ \A q \in Runs \ {r} :
       /\ pc'[q] = pc[q] /\ manifest'[q] = manifest[q] /\ plan'[q] = plan[q]
       /\ todo'[q] = todo[q] /\ fresh'[q] = fresh[q] /\ verdict'[q] = verdict[q]
       /\ serve'[q] = serve[q] /\ server'[q] = server[q] /\ ran'[q] = ran[q]
       /\ evidence'[q] = evidence[q]
  /\ \A q \in Runs : disturbed[q] \subseteq disturbed'[q]

\* A check moves no other run.
LEMMA CheckOthers ==
  ASSUME TestTypes, NEW r \in Runs, NEW label, NEW passed, NEW next, Check(r, label, passed, next)
  PROVE  \A q \in Runs \ {r} : pc'[q] = pc[q] /\ verdict'[q] = verdict[q]
  BY DEF TestTypes, Check, Goto, Refuse

\* A run writes in no other checkout, and in its own what it says.
LEMMA WriteOthers ==
  ASSUME TestTypes, NEW r \in Runs, NEW d, Write(r, d)
  PROVE  Here(r) = dir[where[r]] /\ dir'[where[r]] = d
         /\ \A c \in Checkouts \ {where[r]} : dir'[c] = dir[c]
  BY DEF TestTypes, Write, Here

\* The same for one field.
LEMMA PutOthers ==
  ASSUME TestTypes, NEW r \in Runs, NEW field, NEW value, Put(r, field, value)
  PROVE  dir'[where[r]] = [Here(r) EXCEPT ![field] = value]
         /\ \A c \in Checkouts \ {where[r]} : dir'[c] = dir[c]
  BY WriteOthers DEF Put

\* Nor does a check that only reads.
LEMMA ReadingOthers ==
  ASSUME TestTypes, NEW r \in Runs, NEW label, NEW passed, NEW next,
         Check(r, label, passed, next), UNCHANGED reading
  PROVE  Others(r)
  BY CheckOthers DEF Others

\* No disturbance is forgotten.
LEMMA BlameOthers ==
  ASSUME TestTypes, NEW r \in Runs, NEW what, Blame(r, what) \/ UNCHANGED disturbed
  PROVE  \A q \in Runs : disturbed[q] \subseteq disturbed'[q]
  BY DEF TestTypes, Blame

\* Begin leaves the other runs alone.
LEMMA BeginOthers == ASSUME TestTypes, NEW r \in Runs, Begin(r) PROVE Others(r)
<1>1. \A q \in Runs : disturbed[q] \subseteq disturbed'[q]
  BY DEF Begin
<1>2. \A q \in Runs \ {r} : pc'[q] = pc[q] /\ verdict'[q] = verdict[q] /\ manifest'[q] = manifest[q]
  BY DEF Begin, TestTypes, Goto, Refuse
<1> QED
  BY <1>1, <1>2 DEF Begin, Others

\* StartServe leaves the other runs alone.
LEMMA StartServeOthers == ASSUME TestTypes, NEW r \in Runs, StartServe(r) PROVE Others(r)
  BY DEF StartServe, TestTypes, Goto, Others

\* ClearDirectory leaves the other runs alone.
LEMMA ClearOthers == ASSUME TestTypes, NEW r \in Runs, ClearDirectory(r) PROVE Others(r)
<1> DEFINE d == [Empty EXCEPT !.nonce = r]
<1>1. /\ \A q \in Runs \ {r} : pc'[q] = pc[q] /\ verdict'[q] = verdict[q]
      /\ (Write(r, d) \/ UNCHANGED dir) /\ \A q \in Runs \ {r} : fresh'[q] = fresh[q]
  BY CheckOthers DEF ClearDirectory, TestTypes
<1> HIDE DEF d
<1>2. \A c \in Checkouts \ {where[r]} : dir'[c] = dir[c]
  BY <1>1, WriteOthers
<1> QED
  BY <1>1, <1>2 DEF ClearDirectory, Others, TestTypes

\* Installers leaves the other runs alone.
LEMMA InstallersOthers == ASSUME TestTypes, NEW r \in Runs, Installers(r) PROVE Others(r)
<1>1. \A q \in Runs \ {r} : pc'[q] = pc[q] /\ verdict'[q] = verdict[q]
  BY CheckOthers DEF Installers
<1>2. \A c \in Checkouts \ {where[r]} : dir'[c] = dir[c]
  BY PutOthers DEF Installers
<1>3. \A q \in Runs : disturbed[q] \subseteq disturbed'[q]
  BY BlameOthers DEF Installers
<1> QED
  BY <1>1, <1>2, <1>3 DEF Installers, Others

\* ReadIndex leaves the other runs alone.
LEMMA ReadIndexOthers == ASSUME TestTypes, NEW r \in Runs, ReadIndex(r) PROVE Others(r)
<1>1. \A q \in Runs \ {r} : pc'[q] = pc[q] /\ verdict'[q] = verdict[q]
  BY CheckOthers DEF ReadIndex
<1>2. \A q \in Runs \ {r} : plan'[q] = plan[q] /\ todo'[q] = todo[q]
  BY DEF ReadIndex, TestTypes
<1> QED
  BY <1>1, <1>2 DEF ReadIndex, Others

\* InstallPart leaves the other runs alone.
LEMMA InstallPartOthers == ASSUME TestTypes, NEW r \in Runs, InstallPart(r) PROVE Others(r)
<1>1. \A q \in Runs \ {r} : pc'[q] = pc[q] /\ verdict'[q] = verdict[q]
  BY CheckOthers DEF InstallPart
<1>2. \A c \in Checkouts \ {where[r]} : dir'[c] = dir[c]
  BY WriteOthers DEF InstallPart
<1>3. \A q \in Runs \ {r} : todo'[q] = todo[q]
  BY DEF InstallPart, TestTypes
<1> QED
  BY <1>1, <1>2, <1>3 DEF InstallPart, Others

\* The renderer writes in its own checkout only.
LEMMA RenderOthers ==
  ASSUME TestTypes, NEW r \in Runs,
         \/ InstallRecord(r) \/ RenderItem(r) \/ RenderAcquisition(r) \/ RenderRecord(r)
         \/ RenderGate(r) \/ AwaitServer(r)
  PROVE  Others(r)
<1>1. \A q \in Runs \ {r} : pc'[q] = pc[q] /\ verdict'[q] = verdict[q]
  BY CheckOthers
     DEF InstallRecord, RenderItem, RenderAcquisition, RenderRecord, RenderGate, AwaitServer
<1>2. \A c \in Checkouts \ {where[r]} : dir'[c] = dir[c]
  <2>1. CASE InstallRecord(r)
    BY <2>1, PutOthers DEF InstallRecord
  <2>2. CASE RenderItem(r)
    BY <2>2, PutOthers DEF RenderItem
  <2>3. CASE RenderAcquisition(r)
    BY <2>3, PutOthers DEF RenderAcquisition
  <2>4. CASE RenderRecord(r)
    BY <2>4, PutOthers, WriteOthers DEF RenderRecord
  <2>5. CASE RenderGate(r)
    BY <2>5, PutOthers DEF RenderGate
  <2>6. CASE AwaitServer(r)
    BY <2>6, PutOthers DEF AwaitServer
  <2> QED
    BY <2>1, <2>2, <2>3, <2>4, <2>5, <2>6
<1>3. UNCHANGED <<outside, where, manifest, plan, todo, fresh>>
  BY DEF InstallRecord, RenderItem, RenderAcquisition, RenderRecord, RenderGate, AwaitServer
<1> QED
  BY <1>1, <1>2, <1>3 DEF Others

\* RenderFails leaves the other runs alone.
LEMMA RenderFailsOthers == ASSUME TestTypes, NEW r \in Runs, RenderFails(r) PROVE Others(r)
<1>1. \A q \in Runs \ {r} : pc'[q] = pc[q] /\ verdict'[q] = verdict[q]
  BY DEF RenderFails, Refuse, Goto, TestTypes
<1>2. \A c \in Checkouts \ {where[r]} : dir'[c] = dir[c]
  BY WriteOthers DEF RenderFails
<1>3. \A q \in Runs : disturbed[q] \subseteq disturbed'[q]
  BY BlameOthers DEF RenderFails
<1> QED
  BY <1>1, <1>2, <1>3 DEF RenderFails, Others

\* Boot leaves the other runs alone.
LEMMA BootOthers == ASSUME TestTypes, NEW r \in Runs, Boot(r) PROVE Others(r)
<1>1. \A q \in Runs \ {r} : pc'[q] = pc[q] /\ verdict'[q] = verdict[q]
  BY CheckOthers DEF Boot
<1>2. \A q \in Runs \ {r} : server'[q] = server[q]
  BY DEF Boot, TestTypes
<1> QED
  BY <1>1, <1>2 DEF Boot, Others

\* LiveTests leaves the other runs alone.
LEMMA LiveOthers == ASSUME TestTypes, NEW r \in Runs, LiveTests(r) PROVE Others(r)
<1>1. \A q \in Runs \ {r} : pc'[q] = pc[q] /\ verdict'[q] = verdict[q]
  BY DEF LiveTests, Goto, TestTypes
<1>2. \A c \in Checkouts \ {where[r]} : dir'[c] = dir[c]
  BY PutOthers DEF LiveTests
<1> QED
  BY <1>1, <1>2 DEF LiveTests, Others

\* The end of a run is its own.
LEMMA EndingOthers ==
  ASSUME TestTypes, NEW r \in Runs,
         CleanUp(r) \/ Capture(r) \/ Interrupt(r) \/ Kill(r) \/ WalkDisturbed(r)
  PROVE  Others(r)
<1>1. CASE CleanUp(r)
  BY <1>1 DEF CleanUp, Goto, TestTypes, Others
<1>2. CASE Capture(r)
  BY <1>2 DEF Capture, Forget, Goto, TestTypes, Others
<1>3. CASE Interrupt(r)
  BY <1>3, BlameOthers DEF Interrupt, Refuse, Goto, TestTypes, Others
<1>4. CASE Kill(r)
  BY <1>4 DEF Kill, Forget, Goto, TestTypes, Others
<1>5. CASE WalkDisturbed(r)
  BY <1>5 DEF WalkDisturbed, Refuse, Goto, TestTypes, Others
<1> QED
  BY <1>1, <1>2, <1>3, <1>4, <1>5

\* No process of a run writes elsewhere ...
LEMMA ProcessOthers == ASSUME TestTypes, NEW r \in Runs, Process(r) PROVE Others(r)
<1>1. CASE ServeBinds(r) \/ KillServe(r)
  BY <1>1 DEF ServeBinds, KillServe, TestTypes, Others
<1>2. CASE ServerLoads(r)
  <2>1. \A c \in Checkouts \ {where[r]} : dir'[c] = dir[c]
    BY <1>2, PutOthers DEF ServerLoads
  <2> QED
    BY <1>2, <2>1 DEF ServerLoads, TestTypes, Others
<1>3. CASE ServerServes(r)
  <2>1. \A c \in Checkouts \ {where[r]} : dir'[c] = dir[c]
    BY <1>3, PutOthers DEF ServerServes
  <2>2. \A q \in Runs \ {r} : server'[q] = server[q] /\ ran'[q] = ran[q]
    BY <1>3 DEF ServerServes, TestTypes
  <2> QED
    BY <1>3, <2>1, <2>2 DEF ServerServes, Others
<1>4. CASE ServerStops(r) \/ ServerEnds(r)
  <2>1. \A c \in Checkouts \ {where[r]} : dir'[c] = dir[c]
    BY <1>4, WriteOthers DEF ServerStops, ServerEnds, Stopped
  <2>2. \A q \in Runs \ {r} : server'[q] = server[q]
    BY <1>4 DEF ServerStops, ServerEnds, Stopped, TestTypes
  <2>3. \A q \in Runs : disturbed[q] \subseteq disturbed'[q]
    BY <1>4, BlameOthers DEF ServerStops, ServerEnds
  <2> QED
    BY <1>4, <2>1, <2>2, <2>3 DEF ServerStops, ServerEnds, Others
<1> QED
  BY <1>1, <1>2, <1>3, <1>4 DEF Process

\* ... nor does its harness.
LEMMA HarnessOthers == ASSUME TestTypes, NEW r \in Runs, Harness(r) PROVE Others(r)
<1>1. CASE \/ CheckPort(r) \/ AwaitAnswer(r) \/ VerifyProvenance(r) \/ VerifySeal(r)
           \/ VerifySources(r) \/ VerifyLogs(r) \/ VerifyJars(r)
  BY <1>1, ReadingOthers
     DEF CheckPort, AwaitAnswer, VerifyProvenance, VerifySeal, VerifySources, VerifyLogs, VerifyJars
<1> QED
  BY <1>1, BeginOthers, StartServeOthers, ClearOthers, InstallersOthers, ReadIndexOthers,
     InstallPartOthers, RenderOthers, RenderFailsOthers, BootOthers, LiveOthers, EndingOthers
     DEF Harness

-----------------------------------------------------------------------------
(* Who acts, and who is alone.                                              *)

\* Only a run that goes on, or begins, takes a step.
LEMMA HarnessActs ==
  ASSUME TestTypes, NEW r \in Runs, Harness(r)
  PROVE  Active(r) \/ Begin(r)
<1>1. pc[r] \notin {"idle", "dead", "done"} \/ Begin(r)
  BY DEF Harness, CheckPort, StartServe, AwaitAnswer, ClearDirectory, Installers, ReadIndex,
         InstallPart, InstallRecord, VerifyProvenance, VerifySeal, WalkDisturbed, RenderItem,
         RenderAcquisition, RenderRecord, RenderFails, RenderGate, Boot, AwaitServer,
         VerifySources, VerifyLogs, VerifyJars, LiveTests, CleanUp, Capture, Interrupt, Kill,
         Check, Active
<1> QED
  BY <1>1 DEF Active

\* A process that takes a step is alive ...
LEMMA ProcessActs == ASSUME TestTypes, NEW r \in Runs, Process(r) PROVE Alive(r)
  BY DEF Process, ServeBinds, KillServe, ServerLoads, ServerServes, ServerStops, ServerEnds, Alive

\* ... and does not move its run.
LEMMA ProcessKeepsPc == ASSUME NEW r, Process(r) PROVE pc' = pc
  BY DEF Process, ServeBinds, KillServe, ServerLoads, ServerServes, ServerStops, ServerEnds

\* A run that acts is in nobody's way who is alone afterwards.
LEMMA AloneOthers ==
  ASSUME TestTypes, \A q \in Runs : Apart(q), NEW r \in Runs, Harness(r) \/ Process(r),
         NEW q \in Runs, q # r, Alone(q)'
  PROVE  Alone(q) /\ where[q] # where[r] /\ Here(q)' = Here(q)
<1>1. Others(r)
  BY HarnessOthers, ProcessOthers
<1>2. Alone(q)
  BY <1>1 DEF Alone, Active, Others
<1>3. Begin(r) => where[q] # where[r]
  <2> SUFFICES ASSUME Begin(r), where[q] = where[r] PROVE FALSE
    OBVIOUS
  <2>1. disturbed'[q] = disturbed[q] \cup {Company(r, q)}
    BY <1>2 DEF Begin, Alone
  <2>2. Company(r, q) = "crowd"
    BY DEF Company
  <2> QED
    BY <2>1, <2>2 DEF Alone
<1>4. Alive(r) => where[q] # where[r]
  BY <1>2 DEF Apart
<1>5. where[q] # where[r]
  BY <1>3, <1>4, HarnessActs, ProcessActs DEF Alive
<1> QED
  BY <1>1, <1>2, <1>5 DEF Others, Here, TestTypes

\* A run that is alone stays so: whoever joins it is noted with both.
LEMMA ApartSteps ==
  ASSUME TestTypes, \A q \in Runs : Apart(q), NEW r \in Runs, Harness(r) \/ Process(r)
  PROVE  \A q \in Runs : Apart(q)'
<1>1. Others(r)
  BY HarnessOthers, ProcessOthers
<1> SUFFICES ASSUME NEW x \in Runs, NEW q \in Runs, q # x, where'[q] = where'[x], Alone(x)'
             PROVE  ~Alive(q)'
  BY DEF Apart
<1>2. where[q] = where[x]
  BY <1>1 DEF Others
<1>3. CASE x # r
  <2>1. Alone(x) /\ where[x] # where[r]
    BY <1>3, AloneOthers
  <2>2. q # r /\ ~Alive(q)
    BY <1>2, <2>1 DEF Apart
  <2> QED
    BY <1>1, <2>2 DEF Others, Alive, Active
<1>4. CASE x = r
  <2>1. CASE Active(r)
    <3>1. Alone(r)
      BY <1>1, <1>4, <2>1 DEF Alone, Others
    <3>2. ~Alive(q)
      BY <1>2, <1>4, <3>1 DEF Apart
    <3> QED
      BY <1>1, <1>4, <3>2 DEF Others, Alive, Active
  <2>2. CASE Begin(r)
    <3>1. disturbed'[r] = disturbed[r] \cup {Company(r, o) : o \in {o \in Runs \ {r} : Alive(o)}}
      BY <2>2 DEF Begin
    <3>2. Company(r, q) = "crowd"
      BY <1>2, <1>4 DEF Company
    <3>3. ~Alive(q)
      BY <1>4, <3>1, <3>2 DEF Alone
    <3> QED
      BY <1>1, <1>4, <3>3 DEF Others, Alive, Active
  <2>3. CASE Process(r)
    <3>1. pc'[r] = pc[r]
      BY <2>3, ProcessKeepsPc
    <3> QED
      BY <1>4, <2>1, <3>1 DEF Alone, Active
  <2> QED
    BY <2>1, <2>2, <2>3, HarnessActs
<1> QED
  BY <1>3, <1>4

\* What holds of a run that is alone, when another acts.
LEMMA AloneKept ==
  ASSUME TestTypes, \A q \in Runs : Apart(q), AloneInv, NEW r \in Runs, Harness(r) \/ Process(r)
  PROVE  \A q \in Runs \ {r} : Alone(q)' => Sight(q)' /\ Reviewing(q)' /\ Toll(q)'
<1>1. Others(r)
  BY HarnessOthers, ProcessOthers
<1> SUFFICES ASSUME NEW q \in Runs \ {r}, Alone(q)' PROVE Sight(q)' /\ Reviewing(q)' /\ Toll(q)'
  OBVIOUS
<1>2. Alone(q) /\ Here(q)' = Here(q)
  BY AloneOthers
<1>3. Sight(q) /\ Reviewing(q) /\ Toll(q)
  BY <1>2 DEF AloneInv
<1>4. /\ pc'[q] = pc[q] /\ manifest'[q] = manifest[q] /\ plan'[q] = plan[q]
      /\ todo'[q] = todo[q] /\ fresh'[q] = fresh[q] /\ server'[q] = server[q] /\ ran'[q] = ran[q]
      /\ where' = where /\ root' = root /\ edits' = edits
  BY <1>1 DEF Others
<1>5. Loaded(q) => Loaded(q)'
  BY <1>2, <1>4 DEF Loaded
<1>6. Sight(q)'
  BY <1>2, <1>3, <1>4, <1>5 DEF Sight
<1>7. Reviewing(q)'
  BY <1>3, <1>4 DEF Reviewing
<1>8. Unchanged(q)' = Unchanged(q)
  BY <1>4 DEF Unchanged, ManifestValid
<1>9. Toll(q)'
  BY <1>3, <1>4, <1>8 DEF Toll
<1> QED
  BY <1>6, <1>7, <1>9

-----------------------------------------------------------------------------
(* What a step keeps of the run that takes it.                              *)

\* Both outcomes of a check, for the run that makes it.
LEMMA CheckOwn ==
  ASSUME TestTypes, NEW r \in Runs, NEW label, NEW passed, NEW next, Check(r, label, passed, next)
  PROVE  /\ pc[r] = label
         /\ \/ passed /\ pc'[r] = next /\ verdict'[r] = verdict[r]
            \/ ~passed /\ pc'[r] = "cleanup" /\ verdict'[r] = "failed"
  BY DEF Check, Goto, Refuse, TestTypes

\* A run that has come to its end, in a directory that still is its own.
LEMMA EndOwn ==
  ASSUME TestTypes, NEW r \in Runs, Active(r), OwnInv(r), Others(r), DirTyped',
         pc'[r] = "cleanup" \/ pc'[r] = "capture",
         fresh'[r] = fresh[r],
         Own(Here(r), r) => Own(Here(r)', r)
  PROVE  OwnInv(r)'
<1>1. Started(r)' /\ Announced(r)' /\ Reviewing(r)' /\ Toll(r)'
  BY DEF Started, Announced, Reviewing, Toll
<1>2. Alone(r)' => Alone(r)
  BY DEF Others, Alone
<1>3. Alone(r)' => Sight(r)'
  BY <1>2 DEF OwnInv, Sight
<1> QED
  BY <1>1, <1>3 DEF OwnInv

\* Begin keeps what is known of the run.
LEMMA BeginOwn == ASSUME TestTypes, NEW r \in Runs, OwnInv(r), Begin(r) PROVE OwnInv(r)'
<1>1. /\ pc'[r] \in {"port", "cleanup"} /\ pc[r] = "idle"
      /\ pc'[r] = "port" => manifest'[r] \in Versions /\ verdict'[r] = verdict[r]
  BY DEF Begin, Goto, Refuse, TestTypes
<1>2. UNCHANGED <<root, dir, serve, server, ran, where, plan, todo, fresh>>
  BY DEF Begin
<1>3. ~fresh[r] /\ server[r] = "none" /\ serve[r] = "none" /\ verdict[r] = None
  BY <1>1 DEF OwnInv, Started
<1>4. Started(r)'
  BY <1>1, <1>2, <1>3, ServerTestBounds DEF Started
<1>5. Announced(r)' /\ Reviewing(r)' /\ Toll(r)'
  BY <1>1 DEF Announced, Reviewing, Toll
<1>6. Sight(r)'
  BY <1>1, <1>2, <1>3 DEF Sight
<1> QED
  BY <1>4, <1>5, <1>6 DEF OwnInv

\* The steps before the directory is emptied.
LEMMA EarlyOwn ==
  ASSUME TestTypes, NEW r \in Runs, OwnInv(r), CheckPort(r) \/ StartServe(r) \/ AwaitAnswer(r)
  PROVE  OwnInv(r)'
<1>1. \/ pc[r] = "port" /\ pc'[r] = "serve" /\ serve' = serve
      \/ pc[r] = "serve" /\ pc'[r] = "answer"
      \/ pc[r] = "answer" /\ pc'[r] = "clear"
      \/ pc'[r] = "cleanup" /\ Active(r) /\ Others(r)
  <2>1. CASE CheckPort(r)
    BY <2>1, CheckOwn, ReadingOthers DEF CheckPort, Active
  <2>2. CASE StartServe(r)
    BY <2>2 DEF StartServe, Goto, TestTypes
  <2>3. CASE AwaitAnswer(r)
    BY <2>3, CheckOwn, ReadingOthers DEF AwaitAnswer, Active
  <2> QED
    BY <2>1, <2>2, <2>3
<1>2. /\ UNCHANGED <<root, dir, server, ran, where, plan, todo, fresh, manifest>>
      /\ pc'[r] # "cleanup" => verdict'[r] = verdict[r]
  BY CheckOwn DEF CheckPort, StartServe, AwaitAnswer
<1>3. CASE pc'[r] = "cleanup"
  BY <1>1, <1>2, <1>3, EndOwn DEF Here, TestTypes, DirTyped
<1>4. CASE pc'[r] # "cleanup"
  <2>1. ~fresh[r]
    BY <1>1, <1>4 DEF OwnInv, Started
  <2>2. Started(r)'
    BY <1>1, <1>2, <1>4 DEF OwnInv, Started
  <2>3. Announced(r)' /\ Reviewing(r)' /\ Toll(r)'
    BY <1>1, <1>4 DEF Announced, Reviewing, Toll
  <2>4. Sight(r)'
    BY <1>1, <1>2, <1>4, <2>1 DEF Sight
  <2> QED
    BY <2>2, <2>3, <2>4 DEF OwnInv
<1> QED
  BY <1>3, <1>4

\* ClearDirectory keeps what is known of the run.
LEMMA ClearOwn ==
  ASSUME TestTypes, NEW r \in Runs, OwnInv(r), ClearDirectory(r)
  PROVE  OwnInv(r)'
<1> DEFINE d == [Empty EXCEPT !.nonce = r]
<1>1. /\ pc[r] = "clear"
      /\ \/ pc'[r] = "installers" /\ verdict'[r] = verdict[r] /\ Write(r, d) /\ fresh'[r] = TRUE
         \/ pc'[r] = "cleanup" /\ UNCHANGED <<dir, fresh>>
  BY CheckOwn DEF ClearDirectory, TestTypes
<1>2. UNCHANGED <<root, serve, server, ran, where, manifest, plan, todo>>
  BY DEF ClearDirectory
<1>3. CASE pc'[r] = "cleanup"
  BY <1>1, <1>2, <1>3, EndOwn, ClearOthers DEF Here, TestTypes, DirTyped, Active
<1>4. CASE pc'[r] = "installers"
  <2>1. Here(r)' = d
    BY <1>1, <1>2, <1>4, WriteOthers DEF Here
  <2>2. /\ d.installed = Absent /\ ~d.saved /\ d.provenance = None /\ d.nonce = r /\ d.log = None
        /\ d.status = None /\ d.ready = None /\ \A a \in Audits : d.audits[a] = None
    BY EmptiedDir
  <2> HIDE DEF d
  <2>3. Started(r)'
    BY <1>1, <1>2, <1>4 DEF OwnInv, Started
  <2>4. Announced(r)' /\ Reviewing(r)' /\ Toll(r)'
    BY <1>4 DEF Announced, Reviewing, Toll
  <2>5. Own(d, r)
    BY <2>2 DEF Own
  <2>6. \A a \in Audits : AuditsAt("installers", r)[a] = None
    BY DEF AuditsAt
  <2>7. Sight(r)'
    BY <1>1, <1>4, <2>1, <2>2, <2>5, <2>6 DEF Sight
  <2> QED
    BY <2>3, <2>4, <2>7 DEF OwnInv
<1> QED
  BY <1>1, <1>3, <1>4

\* A change of one field of one's own directory.
LEMMA FieldOwn ==
  ASSUME TestTypes, NEW r \in Runs, NEW field \in DirFields, NEW value, Put(r, field, value), where' = where
  PROVE  /\ Here(r)'[field] = value
         /\ \A other \in DirFields \ {field} : Here(r)'[other] = Here(r)[other]
<1>1. Here(r)' = [Here(r) EXCEPT ![field] = value]
  <2>1. dir'[where[r]] = [Here(r) EXCEPT ![field] = value]
    BY WriteOthers DEF Put
  <2>2. Here(r)' = dir'[where[r]]
    BY DEF Here
  <2> QED
    BY <2>1, <2>2
<1>2. DOMAIN Here(r) = DirFields
  BY HereTyped DEF IsDir
<1> QED
  BY <1>1, <1>2

\* Installers keeps what is known of the run.
LEMMA InstallersOwn ==
  ASSUME TestTypes, NEW r \in Runs, OwnInv(r), Installers(r)
  PROVE  OwnInv(r)'
<1>1. /\ pc[r] = "installers"
      /\ \/ pc'[r] = "index" /\ verdict'[r] = verdict[r] /\ Put(r, "runtime", TRUE)
         \/ pc'[r] = "cleanup"
      /\ dir' = dir \/ Put(r, "runtime", TRUE)
  BY CheckOwn DEF Installers
<1>2. UNCHANGED <<root, serve, server, ran, where, manifest, plan, todo, fresh>>
  BY DEF Installers
<1>3. \A field \in DirFields \ {"runtime"} : Here(r)'[field] = Here(r)[field]
  BY <1>1, <1>2, FieldOwn DEF Here
<1>4. Others(r) /\ DirTyped' /\ Active(r)
  BY <1>1, InstallersOthers, InstallersTypes DEF TestTypes, DirTyped, Active
<1>5. CASE pc'[r] = "cleanup"
  BY <1>2, <1>3, <1>4, <1>5, EndOwn DEF Own
<1>6. CASE pc'[r] = "index"
  <2>1. Here(r)'.runtime
    BY <1>1, <1>2, <1>6, FieldOwn
  <2>2. Started(r)'
    BY <1>1, <1>2, <1>6 DEF OwnInv, Started
  <2>3. Announced(r)' /\ Reviewing(r)' /\ Toll(r)'
    BY <1>6 DEF Announced, Reviewing, Toll
  <2>4. Alone(r)' => Sight(r)
    BY <1>4 DEF Alone, Others, OwnInv
  <2>5. Own(Here(r), r) => Own(Here(r)', r)
    BY <1>3 DEF Own
  <2>6. \A a \in Audits : AuditsAt("installers", r)[a] = None /\ AuditsAt("index", r)[a] = None
    BY DEF AuditsAt
  <2>7. Alone(r)' => Sight(r)'
    BY <1>1, <1>2, <1>3, <1>6, <2>1, <2>4, <2>5, <2>6 DEF Sight
  <2> QED
    BY <2>2, <2>3, <2>7 DEF OwnInv
<1> QED
  BY <1>1, <1>5, <1>6

-----------------------------------------------------------------------------
(* The installation.                                                        *)

\* ReadIndex keeps what is known of the run.
LEMMA ReadIndexOwn == ASSUME TestTypes, NEW r \in Runs, OwnInv(r), ReadIndex(r) PROVE OwnInv(r)'
<1>1. /\ pc[r] = "index"
      /\ \/ pc'[r] = "install" /\ verdict'[r] = verdict[r] /\ todo'[r] = IndexOrder /\ plan'[r] \in Versions
         \/ pc'[r] = "cleanup"
  <2>1. PortBusy => Holder \in Runs
    BY DEF PortBusy, Holder
  <2>2. PortBusy => root[where[Holder]].index \in Versions
    BY <2>1 DEF TestTypes
  <2> QED
    BY <2>2, CheckOwn DEF ReadIndex, TestTypes
<1>2. UNCHANGED <<root, dir, serve, server, ran, where, manifest, fresh>>
  BY DEF ReadIndex
<1>3. Others(r) /\ DirTyped' /\ Active(r) /\ Here(r)' = Here(r)
  BY <1>1, <1>2, ReadIndexOthers, ReadIndexTypes DEF TestTypes, DirTyped, Active, Here
<1>4. CASE pc'[r] = "cleanup"
  BY <1>2, <1>3, <1>4, EndOwn
<1>5. CASE pc'[r] = "install"
  <2>1. Started(r)'
    BY <1>1, <1>2, <1>5, ServerTestBounds DEF OwnInv, Started
  <2>2. Announced(r)' /\ Reviewing(r)' /\ Toll(r)'
    BY <1>5 DEF Announced, Reviewing, Toll
  <2>3. Alone(r)' => Sight(r)
    BY <1>3 DEF Alone, Others, OwnInv
  <2>4. Left(IndexOrder) = Parts /\ Partly(plan'[r], IndexOrder) = Absent
    BY DEF Left, Partly, Absent
  <2>5. \A a \in Audits : AuditsAt("index", r)[a] = None
    BY DEF AuditsAt
  <2>6. Alone(r)' => Sight(r)'
    BY <1>1, <1>2, <1>3, <1>5, <2>3, <2>4, <2>5 DEF Sight
  <2> QED
    BY <2>1, <2>2, <2>6 DEF OwnInv
<1> QED
  BY <1>1, <1>4, <1>5

\* InstallPart keeps what is known of the run.
LEMMA InstallPartOwn ==
  ASSUME TestTypes, NEW r \in Runs, OwnInv(r), InstallPart(r)
  PROVE  OwnInv(r)'
<1> DEFINE part == Head(todo[r])
           kind == plan[r][Head(todo[r])]
           d == WithPart(Here(r), part, kind)
<1>1. /\ pc[r] = "install" /\ todo[r] # <<>>
      /\ \/ pc'[r] = "install" /\ verdict'[r] = verdict[r] /\ Write(r, d) /\ todo' = [todo EXCEPT ![r] = Tail(todo[r])]
         \/ pc'[r] = "cleanup" /\ UNCHANGED <<dir, todo>>
  BY CheckOwn DEF InstallPart
<1>2. UNCHANGED <<root, serve, server, ran, where, manifest, plan, fresh>>
  BY DEF InstallPart
<1>3. plan[r] # None /\ plan[r] \in Versions
  BY <1>1 DEF OwnInv, Started, TestTypes
<1>4. Others(r) /\ DirTyped' /\ Active(r)
  BY <1>1, <1>3, InstallPartOthers, InstallPartTypes DEF TestTypes, DirTyped, Active
<1>5. CASE pc'[r] = "cleanup"
  BY <1>1, <1>2, <1>4, <1>5, EndOwn DEF Here
<1>6. CASE pc'[r] = "install"
  <2>1. /\ part \in Parts /\ Tail(todo[r]) \in Suffixes
        /\ Left(Tail(todo[r])) = Left(todo[r]) \ {part} /\ part \in Left(todo[r])
    BY <1>1, SuffixSteps DEF TestTypes
  <2>2. kind \in Variants
    BY <1>3, <2>1 DEF Versions
  <2>3. /\ d.installed = [Here(r).installed EXCEPT ![part] = kind]
        /\ d.saved = (Here(r).saved /\ part # "data")
        /\ \A a \in Audits : d.audits[a] = IF part = "code" THEN Canonical ELSE Here(r).audits[a]
        /\ \A field \in DirFields \ {"installed", "saved", "audits"} : d[field] = Here(r)[field]
    BY <2>1, <2>2, WithPartFields, HereTyped
  <2>4. Here(r)' = d /\ todo'[r] = Tail(todo[r])
    BY <1>1, <1>2, <1>6, WriteOthers DEF Here, TestTypes
  <2> HIDE DEF d
  <2>5. Started(r)'
    BY <1>1, <1>2, <1>6 DEF OwnInv, Started
  <2>6. Announced(r)' /\ Reviewing(r)' /\ Toll(r)'
    BY <1>6 DEF Announced, Reviewing, Toll
  <2>7. Alone(r)' => Sight(r)
    BY <1>4 DEF Alone, Others, OwnInv
  <2>8. Here(r).installed = Partly(plan[r], todo[r]) => d.installed = Partly(plan[r], Tail(todo[r]))
    <3> HIDE DEF part
    <3>1. kind = plan[r][part]
      BY DEF part
    <3> HIDE DEF kind
    <3> QED
      BY <2>1, <2>3, <3>1 DEF Partly
  <2>9. Own(Here(r), r) => Own(d, r)
    BY <2>3 DEF Own
  <2>10. (\A a \in Audits : Here(r).audits[a] = IF "code" \in Left(todo[r]) THEN None ELSE Canonical)
         => (\A a \in Audits : d.audits[a] = IF "code" \in Left(Tail(todo[r])) THEN None ELSE Canonical)
    BY <2>1, <2>3
  <2> HIDE DEF part, kind
  <2>11. Alone(r)' => Sight(r)'
    BY <1>1, <1>2, <1>6, <2>3, <2>4, <2>7, <2>8, <2>9, <2>10 DEF Sight
  <2> QED
    BY <2>5, <2>6, <2>11 DEF OwnInv
<1> QED
  BY <1>1, <1>5, <1>6

\* InstallRecord keeps what is known of the run.
LEMMA InstallRecordOwn ==
  ASSUME TestTypes, NEW r \in Runs, OwnInv(r), InstallRecord(r) PROVE OwnInv(r)'
<1>1. /\ pc[r] = "install" /\ todo[r] = <<>> /\ Put(r, "packwiz", plan[r])
      /\ \/ pc'[r] = "provenance" /\ verdict'[r] = verdict[r] /\ Unchanged(r)
         \/ pc'[r] = "cleanup"
  BY CheckOwn DEF InstallRecord
<1>2. UNCHANGED <<root, edits, serve, server, ran, where, manifest, plan, todo, fresh>>
  BY DEF InstallRecord
<1>3. Here(r)'.packwiz = plan[r] /\ \A field \in DirFields \ {"packwiz"} : Here(r)'[field] = Here(r)[field]
  BY <1>1, <1>2, FieldOwn
<1>4. Others(r) /\ DirTyped' /\ Active(r)
  BY <1>1, RenderOthers, InstallRecordTypes DEF TestTypes, DirTyped, Active
<1>5. CASE pc'[r] = "cleanup"
  BY <1>2, <1>3, <1>4, <1>5, EndOwn DEF Own
<1>6. CASE pc'[r] = "provenance"
  <2>1. Started(r)'
    BY <1>1, <1>2, <1>6 DEF OwnInv, Started
  <2>2. Announced(r)' /\ Reviewing(r)'
    BY <1>6 DEF Announced, Reviewing
  <2>3. Alone(r)' => Sight(r)
    BY <1>4 DEF Alone, Others, OwnInv
  <2>4. Unchanged(r)'
    BY <1>1, <1>2, <1>6 DEF Unchanged, ManifestValid
  <2>5. Toll(r)'
    BY <1>6, <2>4 DEF Toll
  <2>6. plan[r] \in Versions
    BY <1>1 DEF OwnInv, Started, TestTypes
  <2>7. Left(<<>>) = {} /\ Partly(plan[r], <<>>) = plan[r]
    BY <2>6 DEF Left, Partly, Versions, IndexOrder
  <2>8. Own(Here(r), r) => Own(Here(r)', r)
    BY <1>3 DEF Own
  <2>9. \A a \in Audits : AuditsAt("provenance", r)[a] = Canonical
    BY DEF AuditsAt
  <2>10. Alone(r)' => Sight(r)'
    BY <1>1, <1>2, <1>3, <1>6, <2>3, <2>7, <2>8, <2>9 DEF Sight
  <2> QED
    BY <2>1, <2>2, <2>5, <2>10 DEF OwnInv
<1> QED
  BY <1>1, <1>5, <1>6

-----------------------------------------------------------------------------
(* The checks of the installation and the rendering.                        *)

\* A check that reads, passed between two labels that ask for the same.
LEMMA VerifyProvenanceOwn ==
  ASSUME TestTypes, NEW r \in Runs, OwnInv(r), VerifyProvenance(r) PROVE OwnInv(r)'
<1>1. /\ pc[r] = "provenance"
      /\ \/ pc'[r] = "seal" /\ verdict'[r] = verdict[r] /\ RecordMatches(r)
         \/ pc'[r] = "cleanup"
  BY CheckOwn DEF VerifyProvenance, InstallProven
<1>2. UNCHANGED <<root, dir, serve, server, ran, where, manifest, plan, todo, fresh, edits>>
  BY DEF VerifyProvenance
<1>3. Others(r) /\ DirTyped' /\ Active(r) /\ Here(r)' = Here(r)
  BY <1>1, <1>2, ReadingOthers DEF VerifyProvenance, TestTypes, DirTyped, Active, Here
<1>4. CASE pc'[r] = "cleanup"
  BY <1>2, <1>3, <1>4, EndOwn
<1>5. CASE pc'[r] = "seal"
  <2>1. Started(r)'
    BY <1>1, <1>2, <1>5 DEF OwnInv, Started
  <2>2. Announced(r)' /\ Reviewing(r)'
    BY <1>5 DEF Announced, Reviewing
  <2>3. Alone(r)' => Sight(r) /\ Toll(r)
    BY <1>3 DEF Alone, Others, OwnInv
  <2>4. \A a \in Audits : AuditsAt("provenance", r)[a] = AuditsAt("seal", r)[a]
    BY DEF AuditsAt
  <2>5. Alone(r)' => Sight(r)'
    BY <1>1, <1>2, <1>3, <1>5, <2>3, <2>4 DEF Sight
  <2>6. Sight(r) /\ plan[r] # manifest[r] => ~Unchanged(r)
    BY <1>1, <1>5 DEF Sight, RecordMatches, Unchanged, ManifestValid, Root
  <2>7. Unchanged(r)' = Unchanged(r)
    BY <1>2 DEF Unchanged, ManifestValid
  <2>8. Alone(r)' => Toll(r)'
    BY <1>1, <1>2, <1>5, <2>3, <2>6, <2>7 DEF Toll
  <2> QED
    BY <2>1, <2>2, <2>5, <2>8 DEF OwnInv
<1> QED
  BY <1>1, <1>4, <1>5

\* The toll does not change from the check of the installation to the boot.
Paying == {"seal", "item", "acquisition", "record", "gate", "boot", "running"}
LEMMA TollKept ==
  ASSUME NEW r \in Runs, pc[r] \in Paying, pc'[r] \in Paying, Toll(r),
         UNCHANGED <<root, where, manifest, plan, edits>>
  PROVE  Toll(r)'
<1>1. Unchanged(r)' = Unchanged(r)
  BY DEF Unchanged, ManifestValid
<1> QED
  BY <1>1 DEF Toll, Paying

\* VerifySeal keeps what is known of the run.
LEMMA VerifySealOwn ==
  ASSUME TestTypes, NEW r \in Runs, OwnInv(r), VerifySeal(r)
  PROVE  OwnInv(r)'
<1>1. pc[r] = "seal" /\ ((pc'[r] = "item" /\ verdict'[r] = verdict[r]) \/ pc'[r] = "cleanup")
  BY CheckOwn DEF VerifySeal
<1>2. UNCHANGED <<root, dir, serve, server, ran, where, manifest, plan, todo, fresh, edits>>
  BY DEF VerifySeal
<1>3. Others(r) /\ DirTyped' /\ Active(r) /\ Here(r)' = Here(r)
  BY <1>1, <1>2, ReadingOthers DEF VerifySeal, TestTypes, DirTyped, Active, Here
<1>4. CASE pc'[r] = "cleanup"
  BY <1>2, <1>3, <1>4, EndOwn
<1>5. CASE pc'[r] = "item"
  <2>1. Started(r)'
    BY <1>1, <1>2, <1>5 DEF OwnInv, Started
  <2>2. Announced(r)' /\ Reviewing(r)'
    BY <1>5 DEF Announced, Reviewing
  <2>3. Alone(r)' => Sight(r) /\ Toll(r)
    BY <1>3 DEF Alone, Others, OwnInv
  <2>4. \A a \in Audits : AuditsAt("seal", r)[a] = AuditsAt("item", r)[a]
    BY DEF AuditsAt
  <2>5. Alone(r)' => Sight(r)'
    BY <1>1, <1>2, <1>3, <1>5, <2>3, <2>4 DEF Sight
  <2>6. Alone(r)' => Toll(r)'
    BY <1>1, <1>2, <1>5, <2>3, TollKept DEF Paying
  <2> QED
    BY <2>1, <2>2, <2>5, <2>6 DEF OwnInv
<1> QED
  BY <1>1, <1>4, <1>5

\* A run renders its nonce into one of the scripts.
LEMMA AuditOwn ==
  ASSUME TestTypes, NEW r \in Runs, NEW a \in Audits, NEW value, where' = where,
         Put(r, "audits", [Here(r).audits EXCEPT ![a] = value])
  PROVE  /\ Here(r)'.audits[a] = value
         /\ \A b \in Audits \ {a} : Here(r)'.audits[b] = Here(r).audits[b]
         /\ \A field \in DirFields \ {"audits"} : Here(r)'[field] = Here(r)[field]
<1> DEFINE audits == [Here(r).audits EXCEPT ![a] = value]
<1>1. audits[a] = value /\ \A b \in Audits \ {a} : audits[b] = Here(r).audits[b]
  BY HereTyped DEF IsDir
<1> HIDE DEF audits
<1>2. Here(r)'.audits = audits /\ \A field \in DirFields \ {"audits"} : Here(r)'[field] = Here(r)[field]
  BY FieldOwn DEF audits
<1> QED
  BY <1>1, <1>2

\* RenderItem keeps what is known of the run.
LEMMA RenderItemOwn ==
  ASSUME TestTypes, NEW r \in Runs, OwnInv(r), RenderItem(r)
  PROVE  OwnInv(r)'
<1>1. /\ pc[r] = "item"
      /\ \/ pc'[r] = "acquisition" /\ verdict'[r] = verdict[r]
            /\ Put(r, "audits", [Here(r).audits EXCEPT !["item"] = r])
         \/ pc'[r] = "cleanup" /\ UNCHANGED dir
  BY CheckOwn DEF RenderItem
<1>2. UNCHANGED <<root, serve, server, ran, where, manifest, plan, todo, fresh, edits>>
  BY DEF RenderItem
<1>3. Others(r) /\ DirTyped' /\ Active(r)
  BY <1>1, RenderOthers, RenderItemTypes DEF TestTypes, DirTyped, Active
<1>4. CASE pc'[r] = "cleanup"
  BY <1>1, <1>2, <1>3, <1>4, EndOwn DEF Here
<1>5. CASE pc'[r] = "acquisition"
  <2>1. /\ Here(r)'.audits.item = r /\ Here(r)'.audits.acquisition = Here(r).audits.acquisition
        /\ Here(r)'.audits.gate = Here(r).audits.gate
        /\ \A field \in DirFields \ {"audits"} : Here(r)'[field] = Here(r)[field]
    BY <1>1, <1>2, <1>5, AuditOwn
  <2>2. Started(r)'
    BY <1>1, <1>2, <1>5 DEF OwnInv, Started
  <2>3. Announced(r)' /\ Reviewing(r)'
    BY <1>5 DEF Announced, Reviewing
  <2>4. Alone(r)' => Sight(r) /\ Toll(r)
    BY <1>3 DEF Alone, Others, OwnInv
  <2>5. /\ AuditsAt("item", r).acquisition = Canonical /\ AuditsAt("item", r).gate = Canonical
        /\ AuditsAt("acquisition", r).item = r /\ AuditsAt("acquisition", r).acquisition = Canonical
        /\ AuditsAt("acquisition", r).gate = Canonical
    BY DEF AuditsAt
  <2>6. Own(Here(r), r) => Own(Here(r)', r)
    BY <2>1 DEF Own
  <2>7. Sight(r) => Sight(r)'
    BY <1>1, <1>2, <1>5, <2>1, <2>5, <2>6 DEF Sight
  <2>8. Alone(r)' => Toll(r)'
    BY <1>1, <1>2, <1>5, <2>4, TollKept DEF Paying
  <2> QED
    BY <2>2, <2>3, <2>4, <2>7, <2>8 DEF OwnInv
<1> QED
  BY <1>1, <1>4, <1>5

\* RenderAcquisition keeps what is known of the run.
LEMMA RenderAcquisitionOwn ==
  ASSUME TestTypes, NEW r \in Runs, OwnInv(r), RenderAcquisition(r) PROVE OwnInv(r)'
<1>1. /\ pc[r] = "acquisition"
      /\ \/ pc'[r] = "record" /\ verdict'[r] = verdict[r]
            /\ Put(r, "audits", [Here(r).audits EXCEPT !["acquisition"] = r])
         \/ pc'[r] = "cleanup" /\ \E audits : Put(r, "audits", audits)
  BY CheckOwn DEF RenderAcquisition
<1>2. UNCHANGED <<root, serve, server, ran, where, manifest, plan, todo, fresh, edits>>
  BY DEF RenderAcquisition
<1>3. Others(r) /\ DirTyped' /\ Active(r)
  BY <1>1, RenderOthers, RenderAcquisitionTypes DEF TestTypes, DirTyped, Active
<1>4. CASE pc'[r] = "cleanup"
  <2>1. PICK audits : Put(r, "audits", audits)
    BY <1>1, <1>4
  <2>2. \A field \in DirFields \ {"audits"} : Here(r)'[field] = Here(r)[field]
    BY <1>2, <2>1, FieldOwn
  <2>3. Own(Here(r), r) => Own(Here(r)', r)
    BY <2>2 DEF Own
  <2> QED
    BY <1>2, <1>3, <1>4, <2>3, EndOwn
<1>5. CASE pc'[r] = "record"
  <2>1. /\ Here(r)'.audits.acquisition = r /\ Here(r)'.audits.item = Here(r).audits.item
        /\ Here(r)'.audits.gate = Here(r).audits.gate
        /\ \A field \in DirFields \ {"audits"} : Here(r)'[field] = Here(r)[field]
    BY <1>1, <1>2, <1>5, AuditOwn
  <2>2. Started(r)'
    BY <1>1, <1>2, <1>5 DEF OwnInv, Started
  <2>3. Announced(r)' /\ Reviewing(r)'
    BY <1>5 DEF Announced, Reviewing
  <2>4. Alone(r)' => Sight(r) /\ Toll(r)
    BY <1>3 DEF Alone, Others, OwnInv
  <2>5. /\ AuditsAt("acquisition", r).item = r /\ AuditsAt("acquisition", r).gate = Canonical
        /\ AuditsAt("record", r).item = r /\ AuditsAt("record", r).acquisition = r
        /\ AuditsAt("record", r).gate = Canonical
    BY DEF AuditsAt
  <2>6. Own(Here(r), r) => Own(Here(r)', r)
    BY <2>1 DEF Own
  <2>7. Sight(r) => Sight(r)'
    BY <1>1, <1>2, <1>5, <2>1, <2>5, <2>6 DEF Sight
  <2>8. Alone(r)' => Toll(r)'
    BY <1>1, <1>2, <1>5, <2>4, TollKept DEF Paying
  <2> QED
    BY <2>2, <2>3, <2>4, <2>7, <2>8 DEF OwnInv
<1> QED
  BY <1>1, <1>4, <1>5

\* What is undone is still one's own.
LEMMA UnrenderedOwn ==
  ASSUME TestTypes, NEW r \in Runs, Write(r, Unrendered(Here(r))), where' = where
  PROVE  Own(Here(r), r) => Own(Here(r)', r)
<1>1. Here(r)' = Unrendered(Here(r))
  <2>1. dir'[where[r]] = Unrendered(Here(r))
    BY WriteOthers
  <2> QED
    BY <2>1 DEF Here
<1>2. LET e == Unrendered(Here(r)) IN
      e.provenance = None /\ \A field \in DirFields \ {"provenance", "audits"} : e[field] = Here(r)[field]
  BY UnrenderedFields, HereTyped
<1> QED
  BY <1>1, <1>2 DEF Own

\* RenderRecord keeps what is known of the run.
LEMMA RenderRecordOwn ==
  ASSUME TestTypes, NEW r \in Runs, OwnInv(r), RenderRecord(r) PROVE OwnInv(r)'
<1>1. /\ pc[r] = "record"
      /\ \/ pc'[r] = "gate" /\ verdict'[r] = verdict[r] /\ Put(r, "provenance", r)
         \/ pc'[r] = "cleanup" /\ Write(r, Unrendered(Here(r)))
  BY CheckOwn DEF RenderRecord
<1>2. UNCHANGED <<root, serve, server, ran, where, manifest, plan, todo, fresh, edits>>
  BY DEF RenderRecord
<1>3. Others(r) /\ DirTyped' /\ Active(r)
  BY <1>1, RenderOthers, RenderRecordTypes DEF TestTypes, DirTyped, Active
<1>4. CASE pc'[r] = "cleanup"
  BY <1>1, <1>2, <1>3, <1>4, EndOwn, UnrenderedOwn
<1>5. CASE pc'[r] = "gate"
  <2>1. Here(r)'.provenance = r /\ \A field \in DirFields \ {"provenance"} : Here(r)'[field] = Here(r)[field]
    BY <1>1, <1>2, <1>5, FieldOwn
  <2>2. Started(r)'
    BY <1>1, <1>2, <1>5 DEF OwnInv, Started
  <2>3. Announced(r)' /\ Reviewing(r)'
    BY <1>5 DEF Announced, Reviewing
  <2>4. Alone(r)' => Sight(r) /\ Toll(r)
    BY <1>3 DEF Alone, Others, OwnInv
  <2>5. \A a \in Audits : AuditsAt("record", r)[a] = AuditsAt("gate", r)[a]
    BY DEF AuditsAt
  <2>6. Own(Here(r), r) => Own(Here(r)', r)
    BY <2>1 DEF Own
  <2>7. Sight(r) => Sight(r)'
    BY <1>1, <1>2, <1>5, <2>1, <2>5, <2>6 DEF Sight
  <2>8. Alone(r)' => Toll(r)'
    BY <1>1, <1>2, <1>5, <2>4, TollKept DEF Paying
  <2> QED
    BY <2>2, <2>3, <2>4, <2>7, <2>8 DEF OwnInv
<1> QED
  BY <1>1, <1>4, <1>5

\* RenderGate keeps what is known of the run.
LEMMA RenderGateOwn ==
  ASSUME TestTypes, NEW r \in Runs, OwnInv(r), RenderGate(r)
  PROVE  OwnInv(r)'
<1>1. /\ pc[r] = "gate"
      /\ \/ pc'[r] = "boot" /\ verdict'[r] = verdict[r]
            /\ Put(r, "audits", [Here(r).audits EXCEPT !["gate"] = r])
         \/ pc'[r] = "cleanup" /\ UNCHANGED dir
  BY CheckOwn DEF RenderGate
<1>2. UNCHANGED <<root, serve, server, ran, where, manifest, plan, todo, fresh, edits>>
  BY DEF RenderGate
<1>3. Others(r) /\ DirTyped' /\ Active(r)
  BY <1>1, RenderOthers, RenderGateTypes DEF TestTypes, DirTyped, Active
<1>4. CASE pc'[r] = "cleanup"
  BY <1>1, <1>2, <1>3, <1>4, EndOwn DEF Here
<1>5. CASE pc'[r] = "boot"
  <2>1. /\ Here(r)'.audits.gate = r /\ Here(r)'.audits.item = Here(r).audits.item
        /\ Here(r)'.audits.acquisition = Here(r).audits.acquisition
        /\ \A field \in DirFields \ {"audits"} : Here(r)'[field] = Here(r)[field]
    BY <1>1, <1>2, <1>5, AuditOwn
  <2>2. Started(r)'
    BY <1>1, <1>2, <1>5 DEF OwnInv, Started
  <2>3. server'[r] = "none"
    BY <1>1, <1>2 DEF OwnInv, Started
  <2>4. Announced(r)' /\ Reviewing(r)'
    BY <1>5, <2>3 DEF Announced, Reviewing
  <2>5. Alone(r)' => Sight(r) /\ Toll(r)
    BY <1>3 DEF Alone, Others, OwnInv
  <2>6. /\ AuditsAt("gate", r).item = r /\ AuditsAt("gate", r).acquisition = r
        /\ \A a \in Audits : AuditsAt("boot", r)[a] = r
    BY DEF AuditsAt
  <2>7. Own(Here(r), r) => Own(Here(r)', r)
    BY <2>1 DEF Own
  <2>8. Sight(r) => Sight(r)'
    BY <1>1, <1>2, <1>5, <2>1, <2>6, <2>7 DEF Sight
  <2>9. Alone(r)' => Toll(r)'
    BY <1>1, <1>2, <1>5, <2>5, TollKept DEF Paying
  <2> QED
    BY <2>2, <2>4, <2>5, <2>8, <2>9 DEF OwnInv
<1> QED
  BY <1>1, <1>4, <1>5

\* Boot keeps what is known of the run.
LEMMA BootOwn == ASSUME TestTypes, NEW r \in Runs, OwnInv(r), Boot(r) PROVE OwnInv(r)'
<1>1. /\ pc[r] = "boot"
      /\ \/ pc'[r] = "running" /\ verdict'[r] = verdict[r] /\ server'[r] = "starting"
         \/ pc'[r] = "cleanup"
  BY CheckOwn DEF Boot, TestTypes
<1>2. UNCHANGED <<root, dir, serve, ran, where, manifest, plan, todo, fresh, edits>>
  BY DEF Boot
<1>3. Others(r) /\ DirTyped' /\ Active(r) /\ Here(r)' = Here(r)
  BY <1>1, <1>2, BootOthers, BootTypes DEF TestTypes, DirTyped, Active, Here
<1>4. CASE pc'[r] = "cleanup"
  BY <1>2, <1>3, <1>4, EndOwn
<1>5. CASE pc'[r] = "running"
  <2>1. Started(r)'
    BY <1>1, <1>2, <1>5 DEF OwnInv, Started
  <2>2. Announced(r)' /\ Reviewing(r)'
    BY <1>1, <1>5 DEF Announced, Reviewing
  <2>3. Alone(r)' => Sight(r) /\ Toll(r)
    BY <1>3 DEF Alone, Others, OwnInv
  <2>4. \A a \in Audits : AuditsAt("boot", r)[a] = AuditsAt("running", r)[a]
    BY DEF AuditsAt
  <2>5. Loaded(r)'
    BY <1>1, <1>5 DEF Loaded
  <2>6. Sight(r) => Sight(r)'
    BY <1>1, <1>2, <1>3, <1>5, <2>4, <2>5 DEF Sight
  <2>7. Alone(r)' => Toll(r)'
    BY <1>1, <1>2, <1>5, <2>3, TollKept DEF Paying
  <2> QED
    BY <2>1, <2>2, <2>3, <2>6, <2>7 DEF OwnInv
<1> QED
  BY <1>1, <1>4, <1>5

\* A run that is refused for no fault of its own.
LEMMA InterruptedOwn ==
  ASSUME TestTypes, NEW r \in Runs, OwnInv(r), WalkDisturbed(r) \/ Interrupt(r) \/ CleanUp(r)
  PROVE  OwnInv(r)'
<1>1. pc'[r] \in {"cleanup", "capture"} /\ Active(r) /\ UNCHANGED <<dir, where, fresh>>
  BY DEF WalkDisturbed, Interrupt, CleanUp, Refuse, Goto, TestTypes, Active
<1>2. Others(r) /\ DirTyped' /\ Here(r)' = Here(r)
  BY <1>1, EndingOthers DEF TestTypes, DirTyped, Here
<1> QED
  BY <1>1, <1>2, EndOwn

\* RenderFails keeps what is known of the run.
LEMMA RenderFailsOwn ==
  ASSUME TestTypes, NEW r \in Runs, OwnInv(r), RenderFails(r)
  PROVE  OwnInv(r)'
<1>1. pc'[r] = "cleanup" /\ Active(r) /\ UNCHANGED <<where, fresh>> /\ Write(r, Unrendered(Here(r)))
  BY DEF RenderFails, Refuse, Goto, TestTypes, Active
<1>2. Others(r) /\ DirTyped'
  BY RenderFailsOthers, RenderFailsTypes DEF TestTypes, DirTyped
<1> QED
  BY <1>1, <1>2, EndOwn, UnrenderedOwn

\* A run that ends forgets.
LEMMA LeftOwn ==
  ASSUME TestTypes, NEW r \in Runs, OwnInv(r), Capture(r) \/ Kill(r)
  PROVE  OwnInv(r)'
<1>1. pc'[r] \in {"done", "dead"} /\ ~fresh'[r]
  BY DEF Capture, Kill, Forget, Goto, TestTypes
<1> QED
  BY <1>1 DEF OwnInv, Started, Alone, Active, Announced

-----------------------------------------------------------------------------
(* The processes of a run.                                                  *)

\* A server has started only after the boot.
LEMMA ServerAt ==
  ASSUME TestTypes, NEW r \in Runs, OwnInv(r), server[r] \in Running
  PROVE  pc[r] \in {"running", "cleanup", "capture", "done", "dead"}
  BY DEF TestTypes, OwnInv, Started, Announced

\* A process of a run that has ended.
LEMMA LateOwn ==
  ASSUME TestTypes, NEW r \in Runs, pc[r] \in {"cleanup", "capture", "done", "dead"}, OwnInv(r),
         Others(r), DirTyped', pc' = pc, fresh' = fresh,
         Own(Here(r), r) => Own(Here(r)', r)
  PROVE  OwnInv(r)'
<1>1. CASE pc[r] \in {"cleanup", "capture"}
  BY <1>1, EndOwn DEF Active
<1>2. CASE pc[r] \in {"done", "dead"}
  BY <1>2 DEF OwnInv, Started, Alone, Active, Announced
<1> QED
  BY <1>1, <1>2

\* The serve has no part in what is known of the directory.
LEMMA ServeOwn ==
  ASSUME TestTypes, NEW r \in Runs, OwnInv(r), ServeBinds(r) \/ KillServe(r) PROVE OwnInv(r)'
<1>1. /\ UNCHANGED <<processes, dir, server, ran, disturbed>>
      /\ serve[r] # "none" /\ (serve'[r] # serve[r] => serve[r] = "starting" \/ pc[r] = "dead")
  BY DEF ServeBinds, KillServe
<1>2. Here(r)' = Here(r) /\ Unchanged(r)' = Unchanged(r)
  BY <1>1 DEF Here, Unchanged, ManifestValid
<1>3. Started(r)' /\ Announced(r)'
  BY <1>1, <1>2 DEF OwnInv, Started, Announced
<1>4. Alone(r)' = Alone(r) /\ Reviewing(r)' = Reviewing(r) /\ Toll(r)' = Toll(r)
  BY <1>1, <1>2 DEF Alone, Active, Reviewing, Toll
<1>5. Loaded(r)' = Loaded(r)
  BY <1>1 DEF Loaded
<1>6. Sight(r) => Sight(r)'
  BY <1>1, <1>2, <1>5 DEF Sight
<1> QED
  BY <1>3, <1>4, <1>6 DEF OwnInv

\* A step of the server while its run waits for it.
LEMMA WaitingOwn ==
  ASSUME TestTypes, NEW r \in Runs, pc[r] = "running", OwnInv(r), Others(r), server'[r] # "none",
         pc' = pc, UNCHANGED <<root, serve, where, manifest, plan, todo, fresh, verdict, edits>>,
         Announced(r)',
         Sight(r) => Loaded(r)' /\ Here(r)'.installed = Here(r).installed,
         Own(Here(r), r) => Own(Here(r)', r),
         \A field \in {"runtime", "packwiz", "audits", "provenance"} : Here(r)'[field] = Here(r)[field]
  PROVE  OwnInv(r)'
<1>1. Started(r)'
  BY DEF OwnInv, Started
<1>2. Alone(r)' => Alone(r)
  BY DEF Alone, Active, Others
<1>3. Reviewing(r)'
  BY DEF Reviewing
<1>4. Toll(r) => Toll(r)'
  BY TollKept DEF Paying
<1>5. Sight(r) => Sight(r)'
  BY DEF Sight
<1> QED
  BY <1>1, <1>2, <1>3, <1>4, <1>5 DEF OwnInv

\* ServerLoads keeps what is known of the run.
LEMMA LoadsOwn == ASSUME TestTypes, NEW r \in Runs, OwnInv(r), ServerLoads(r) PROVE OwnInv(r)'
<1> DEFINE log == [by |-> r, nonces |-> {}, whole |-> FALSE]
           new == [pack |-> Here(r).installed, nonces |-> Range(Here(r).audits)]
<1>1. /\ server[r] = "starting" /\ Put(r, "log", log)
      /\ \/ server'[r] = "loaded" /\ ran'[r] = new
         \/ server'[r] = "failed"
      /\ UNCHANGED <<processes, serve>>
  BY DEF ServerLoads, TestTypes
<1>2. new.pack = Here(r).installed /\ new.nonces = Range(Here(r).audits) /\ log.by = r
  OBVIOUS
<1> HIDE DEF log, new
<1>3. Here(r)'.log = log /\ \A field \in DirFields \ {"log"} : Here(r)'[field] = Here(r)[field]
  BY <1>1, FieldOwn
<1>4. Others(r) /\ DirTyped'
  BY ProcessOthers, LoadsTypes DEF Process, TestTypes, DirTyped
<1>5. Own(Here(r), r) => Own(Here(r)', r)
  BY <1>2, <1>3 DEF Own
<1>6. (\A a \in Audits : Here(r).audits[a] = r) => Range(Here(r).audits) = {r}
  BY HereTyped DEF Range, IsDir
<1>7. pc[r] \in {"running", "cleanup", "capture", "done", "dead"}
  BY <1>1, ServerAt
<1>8. CASE pc[r] = "running"
  <2>1. Announced(r)'
    BY <1>1, <1>2, <1>3, <1>6, <1>8 DEF Announced
  <2>2. \A a \in Audits : AuditsAt("running", r)[a] = r
    BY DEF AuditsAt
  <2>3. Sight(r) => Here(r).installed = plan[r] /\ \A a \in Audits : Here(r).audits[a] = r
    BY <1>8, <2>2 DEF Sight
  <2>4. Sight(r) => Loaded(r)'
    BY <1>1, <1>2, <1>6, <2>3 DEF Loaded
  <2> QED
    BY <1>1, <1>3, <1>4, <1>5, <1>8, <2>1, <2>4, WaitingOwn
<1>9. CASE pc[r] \in {"cleanup", "capture", "done", "dead"}
  BY <1>1, <1>4, <1>5, <1>9, LateOwn
<1> QED
  BY <1>7, <1>8, <1>9

\* Whatever a server writes to the log, the file is there for it only if it is its own.
LEMMA LogOwn ==
  ASSUME NEW r \in Runs, NEW nonces, NEW whole, Own(Here(r), r)
  PROVE  Log(r, nonces, whole) # None => Log(r, nonces, whole).by = r
  BY DEF Log, Own

\* ServerServes keeps what is known of the run.
LEMMA ServesOwn == ASSUME TestTypes, NEW r \in Runs, OwnInv(r), ServerServes(r) PROVE OwnInv(r)'
<1> DEFINE pack == [ran[r].pack EXCEPT !.data = Here(r).installed.data]
           new == [pack |-> pack, nonces |-> ran[r].nonces]
           log == Log(r, ran[r].nonces, FALSE)
<1>1. /\ server[r] = "loaded"
      /\ \/ server'[r] = "failed" /\ dir' = dir
         \/ server'[r] = "serving" /\ ran'[r] = new /\ Put(r, "log", log)
      /\ UNCHANGED <<processes, serve>>
  BY DEF ServerServes, TestTypes
<1>2. new.pack = pack /\ new.nonces = ran[r].nonces
  OBVIOUS
<1>3. ran[r].pack \in [Parts -> Variants]
  BY <1>1 DEF TestTypes
<1>4. Here(r).installed = ran[r].pack => pack = ran[r].pack
  BY <1>3
<1> HIDE DEF pack, new, log
<1>5. Others(r) /\ DirTyped'
  BY ProcessOthers, ServesTypes DEF Process, TestTypes, DirTyped
<1>6. \A field \in DirFields \ {"log"} : Here(r)'[field] = Here(r)[field]
  BY <1>1, FieldOwn DEF Here
<1>7. Own(Here(r), r) => Own(Here(r)', r)
  <2>1. CASE dir' = dir
    BY <1>1, <2>1 DEF Here
  <2>2. CASE Put(r, "log", log)
    <3>1. Here(r)'.log = log
      BY <1>1, <2>2, FieldOwn
    <3>2. Own(Here(r), r) => (log # None => log.by = r)
      BY LogOwn DEF log
    <3> QED
      BY <1>6, <3>1, <3>2 DEF Own
  <2> QED
    BY <1>1, <2>1, <2>2
<1>8. pc[r] \in {"running", "cleanup", "capture", "done", "dead"}
  BY <1>1, ServerAt
<1>9. CASE pc[r] = "running"
  <2>1. Announced(r)'
    BY <1>1, <1>2, <1>6, <1>9 DEF OwnInv, Announced
  <2>2. Sight(r) => Loaded(r)'
    BY <1>1, <1>2, <1>4, <1>9 DEF Sight, Loaded
  <2> QED
    BY <1>1, <1>5, <1>6, <1>7, <1>9, <2>1, <2>2, WaitingOwn
<1>10. CASE pc[r] \in {"cleanup", "capture", "done", "dead"}
  BY <1>1, <1>5, <1>7, <1>10, LateOwn
<1> QED
  BY <1>8, <1>9, <1>10

\* A server that ends writes the quests it had loaded, and its own log.
LEMMA StoppedOwn ==
  ASSUME TestTypes, NEW r \in Runs, OwnInv(r), server[r] = "serving", NEW outcome \in Ended,
         Stopped(r, outcome), Others(r), UNCHANGED <<processes, serve, ran>>
  PROVE  OwnInv(r)'
<1> DEFINE kind == ran[r].pack.data
           log == Log(r, ran[r].nonces, outcome = "passed")
           d == Saved(Here(r), kind, log)
<1>1. DirTyped'
  BY StoppedTypes
<1>2. server'[r] = outcome
  BY DEF Stopped, TestTypes
<1>3. ran[r].pack \in [Parts -> Variants]
  BY DEF TestTypes
<1>4. Here(r)' = d
  <2>1. Write(r, d)
    BY DEF Stopped, Saved
  <2> HIDE DEF d
  <2>2. dir'[where[r]] = d
    BY <2>1, WriteOthers
  <2> QED
    BY <2>2 DEF Here
<1>5. /\ d.installed = [Here(r).installed EXCEPT !.data = kind] /\ d.log = log
      /\ \A field \in DirFields \ {"installed", "saved", "log"} : d[field] = Here(r)[field]
  BY <1>3, SavedFields, HereTyped
<1> HIDE DEF d
<1>6. Own(Here(r), r) => Own(d, r)
  <2>1. Own(Here(r), r) => (log # None => log.by = r)
    BY LogOwn
  <2> HIDE DEF log
  <2> QED
    BY <1>5, <2>1 DEF Own
<1>7. Here(r).installed = ran[r].pack => d.installed = Here(r).installed
  BY <1>3, <1>5
<1>8. pc[r] \in {"running", "cleanup", "capture", "done", "dead"}
  BY ServerAt
<1> HIDE DEF kind, log
<1>9. CASE pc[r] = "running"
  <2>1. Announced(r)'
    BY <1>2, <1>4, <1>5, <1>9 DEF OwnInv, Announced
  <2>2. Sight(r) => Loaded(r)' /\ d.installed = Here(r).installed
    BY <1>2, <1>7, <1>9 DEF Sight, Loaded
  <2> QED
    BY <1>2, <1>4, <1>5, <1>6, <1>9, <2>1, <2>2, WaitingOwn
<1>10. CASE pc[r] \in {"cleanup", "capture", "done", "dead"}
  BY <1>1, <1>4, <1>6, <1>10, LateOwn
<1> QED
  BY <1>8, <1>9, <1>10

\* However it ends.
LEMMA EndsOwn ==
  ASSUME TestTypes, NEW r \in Runs, OwnInv(r), ServerStops(r) \/ ServerEnds(r) PROVE OwnInv(r)'
<1>1. Others(r)
  BY ProcessOthers DEF Process
<1>2. UNCHANGED <<processes, serve, ran>>
  BY DEF ServerStops, ServerEnds
<1>3. CASE server[r] = "serving"
  <2>1. Stopped(r, "passed") \/ Stopped(r, "failed")
    BY <1>3 DEF ServerStops, ServerEnds
  <2> QED
    BY <1>1, <1>2, <1>3, <2>1, StoppedOwn
<1>4. CASE server[r] # "serving"
  <2>1. server[r] \in {"starting", "loaded"} /\ server'[r] = "failed" /\ dir' = dir
    BY <1>4 DEF ServerStops, ServerEnds, TestTypes
  <2>2. Here(r)' = Here(r) /\ DirTyped'
    BY <1>2, <2>1 DEF Here, TestTypes, DirTyped
  <2>3. pc[r] \in {"running", "cleanup", "capture", "done", "dead"}
    BY <2>1, ServerAt
  <2>4. CASE pc[r] = "running"
    <3>1. Announced(r)' /\ Loaded(r)'
      BY <1>2, <2>1, <2>4 DEF Announced, Loaded
    <3> QED
      BY <1>1, <1>2, <2>1, <2>2, <2>4, <3>1, WaitingOwn
  <2>5. CASE pc[r] \in {"cleanup", "capture", "done", "dead"}
    BY <1>1, <1>2, <2>2, <2>5, LateOwn
  <2> QED
    BY <2>3, <2>4, <2>5
<1> QED
  BY <1>3, <1>4

-----------------------------------------------------------------------------
(* After the boot.                                                          *)

\* AwaitServer keeps what is known of the run.
LEMMA AwaitServerOwn ==
  ASSUME TestTypes, NEW r \in Runs, OwnInv(r), AwaitServer(r)
  PROVE  OwnInv(r)'
<1> DEFINE status == [by |-> r, zero |-> server[r] = "passed"]
<1>1. /\ pc[r] = "running" /\ server[r] \in Ended /\ Put(r, "status", status)
      /\ \/ pc'[r] = "sources" /\ verdict'[r] = verdict[r] /\ Unchanged(r)
         \/ pc'[r] = "cleanup"
  BY CheckOwn DEF AwaitServer
<1>2. UNCHANGED <<root, edits, serve, server, ran, where, manifest, plan, todo, fresh>>
  BY DEF AwaitServer
<1>3. status.by = r /\ status = [by |-> r, zero |-> server'[r] = "passed"]
  BY <1>2
<1> HIDE DEF status
<1>4. Here(r)'.status = status /\ \A field \in DirFields \ {"status"} : Here(r)'[field] = Here(r)[field]
  BY <1>1, <1>2, FieldOwn
<1>5. Others(r) /\ DirTyped' /\ Active(r)
  BY <1>1, RenderOthers, AwaitServerTypes DEF TestTypes, DirTyped, Active
<1>6. Own(Here(r), r) => Own(Here(r)', r)
  BY <1>3, <1>4 DEF Own
<1>7. CASE pc'[r] = "cleanup"
  BY <1>2, <1>5, <1>6, <1>7, EndOwn
<1>8. CASE pc'[r] = "sources"
  <2>1. Started(r)'
    BY <1>1, <1>2, <1>8 DEF OwnInv, Started
  <2>2. Announced(r)'
    BY <1>1, <1>2, <1>4, <1>8 DEF OwnInv, Announced
  <2>3. Reviewing(r)'
    BY <1>8 DEF Reviewing
  <2>4. Alone(r)' => Sight(r) /\ Toll(r)
    BY <1>5 DEF Alone, Others, OwnInv
  <2>5. \A a \in Audits : AuditsAt("running", r)[a] = AuditsAt("sources", r)[a]
    BY DEF AuditsAt
  <2>6. Loaded(r) => Loaded(r)'
    BY <1>2 DEF Loaded
  <2>7. Sight(r) => Sight(r)'
    BY <1>1, <1>2, <1>3, <1>4, <1>6, <1>8, <2>5, <2>6 DEF Sight
  <2>8. Unchanged(r)'
    BY <1>1, <1>2, <1>8 DEF Unchanged, ManifestValid
  <2>9. Toll(r) => Toll(r)'
    BY <1>1, <1>2, <1>8, <2>8 DEF Toll
  <2> QED
    BY <2>1, <2>2, <2>3, <2>4, <2>7, <2>9 DEF OwnInv
<1> QED
  BY <1>1, <1>7, <1>8

\* VerifySources keeps what is known of the run.
LEMMA VerifySourcesOwn ==
  ASSUME TestTypes, NEW r \in Runs, OwnInv(r), VerifySources(r) PROVE OwnInv(r)'
<1>1. /\ pc[r] = "sources"
      /\ \/ pc'[r] = "logs" /\ verdict'[r] = verdict[r] /\ SourcesProven(r)
         \/ pc'[r] = "cleanup"
  BY CheckOwn DEF VerifySources
<1>2. UNCHANGED <<root, dir, serve, server, ran, where, manifest, plan, todo, fresh, edits>>
  BY DEF VerifySources
<1>3. Others(r) /\ DirTyped' /\ Active(r) /\ Here(r)' = Here(r)
  BY <1>1, <1>2, ReadingOthers DEF VerifySources, TestTypes, DirTyped, Active, Here
<1>4. CASE pc'[r] = "cleanup"
  BY <1>2, <1>3, <1>4, EndOwn
<1>5. CASE pc'[r] = "logs"
  <2>1. Started(r)'
    BY <1>1, <1>2, <1>5 DEF OwnInv, Started
  <2>2. \A a \in Audits : Here(r).audits[a] = r
    BY <1>1, <1>5 DEF SourcesProven, GateRendered, AuditsRendered
  <2>3. Announced(r)'
    BY <1>1, <1>2, <1>3, <1>5, <2>2 DEF OwnInv, Announced
  <2>4. Alone(r)' => Sight(r) /\ Toll(r)
    BY <1>3 DEF Alone, Others, OwnInv
  <2>5. \A a \in Audits : AuditsAt("sources", r)[a] = AuditsAt("logs", r)[a]
    BY DEF AuditsAt
  <2>6. Loaded(r) => Loaded(r)'
    BY <1>2 DEF Loaded
  <2>7. Sight(r) => Sight(r)'
    BY <1>1, <1>2, <1>3, <1>5, <2>5, <2>6 DEF Sight
  <2>8. Here(r).installed.code = "reviewed" /\ Here(r).installed.data # "seal"
    BY <1>1, <1>5 DEF SourcesProven, SealSources, CodeCorpus, SealOccurrences
  <2>9. Sight(r) => plan[r].code = "reviewed" /\ plan[r].data # "seal"
    BY <1>1, <2>8 DEF Sight
  <2>10. Sight(r) => Reviewing(r)'
    BY <1>2, <1>5, <2>9 DEF Reviewing
  <2>11. Unchanged(r)' = Unchanged(r)
    BY <1>2 DEF Unchanged, ManifestValid
  <2>12. Toll(r) => Toll(r)'
    BY <1>1, <1>2, <1>5, <2>11 DEF Toll
  <2> QED
    BY <2>1, <2>3, <2>4, <2>7, <2>10, <2>12 DEF OwnInv
<1> QED
  BY <1>1, <1>4, <1>5

\* VerifyLogs keeps what is known of the run.
LEMMA VerifyLogsOwn ==
  ASSUME TestTypes, ZeroPassed, NEW r \in Runs, OwnInv(r), VerifyLogs(r) PROVE OwnInv(r)'
<1>1. /\ pc[r] = "logs"
      /\ \/ pc'[r] = "jars" /\ verdict'[r] = verdict[r] /\ RecordMatches(r) /\ LogsProven(r)
         \/ pc'[r] = "cleanup"
  BY CheckOwn DEF VerifyLogs
<1>2. UNCHANGED <<root, dir, serve, server, ran, where, manifest, plan, todo, fresh, edits>>
  BY DEF VerifyLogs
<1>3. Others(r) /\ DirTyped' /\ Active(r) /\ Here(r)' = Here(r)
  BY <1>1, <1>2, ReadingOthers DEF VerifyLogs, TestTypes, DirTyped, Active, Here
<1>4. CASE pc'[r] = "cleanup"
  BY <1>2, <1>3, <1>4, EndOwn
<1>5. CASE pc'[r] = "jars"
  <2>1. Started(r)'
    BY <1>1, <1>2, <1>5 DEF OwnInv, Started
  <2>2. server[r] = "passed"
    BY <1>1, <1>5, HereTyped DEF ZeroPassed, LogsProven
  <2>3. Announced(r)'
    BY <1>1, <1>2, <1>5, <2>2 DEF OwnInv, Announced
  <2>4. Alone(r)' => Sight(r) /\ Toll(r) /\ Reviewing(r)
    BY <1>3 DEF Alone, Others, OwnInv
  <2>5. \A a \in Audits : AuditsAt("logs", r)[a] = AuditsAt("jars", r)[a]
    BY DEF AuditsAt
  <2>6. Loaded(r) => Loaded(r)'
    BY <1>2 DEF Loaded
  <2>7. Sight(r) => Sight(r)'
    BY <1>1, <1>2, <1>3, <1>5, <2>5, <2>6 DEF Sight
  <2>8. Reviewing(r) => Reviewing(r)'
    BY <1>1, <1>2, <1>5 DEF Reviewing
  <2>9. Sight(r) /\ plan[r] # manifest[r] => ~Unchanged(r)
    BY <1>1, <1>5 DEF Sight, RecordMatches, Unchanged, ManifestValid, Root
  <2>10. Unchanged(r)' = Unchanged(r)
    BY <1>2 DEF Unchanged, ManifestValid
  <2>11. Sight(r) /\ Toll(r) => Toll(r)'
    BY <1>1, <1>2, <1>5, <2>9, <2>10 DEF Toll
  <2> QED
    BY <2>1, <2>3, <2>4, <2>7, <2>8, <2>11 DEF OwnInv
<1> QED
  BY <1>1, <1>4, <1>5

\* VerifyJars keeps what is known of the run.
LEMMA VerifyJarsOwn ==
  ASSUME TestTypes, NEW r \in Runs, OwnInv(r), VerifyJars(r) PROVE OwnInv(r)'
<1>1. /\ pc[r] = "jars"
      /\ \/ pc'[r] = "live" /\ verdict'[r] = verdict[r] /\ SableSource(r)
         \/ pc'[r] = "cleanup"
  BY CheckOwn DEF VerifyJars
<1>2. UNCHANGED <<root, dir, serve, server, ran, where, manifest, plan, todo, fresh, edits>>
  BY DEF VerifyJars
<1>3. Others(r) /\ DirTyped' /\ Active(r) /\ Here(r)' = Here(r)
  BY <1>1, <1>2, ReadingOthers DEF VerifyJars, TestTypes, DirTyped, Active, Here
<1>4. CASE pc'[r] = "cleanup"
  BY <1>2, <1>3, <1>4, EndOwn
<1>5. CASE pc'[r] = "live"
  <2>1. Started(r)' /\ Announced(r)'
    BY <1>1, <1>2, <1>5 DEF OwnInv, Started, Announced
  <2>2. Alone(r)' => Sight(r) /\ Toll(r) /\ Reviewing(r)
    BY <1>3 DEF Alone, Others, OwnInv
  <2>3. \A a \in Audits : AuditsAt("jars", r)[a] = AuditsAt("live", r)[a]
    BY DEF AuditsAt
  <2>4. Loaded(r) => Loaded(r)'
    BY <1>2 DEF Loaded
  <2>5. Sight(r) => Sight(r)'
    BY <1>1, <1>2, <1>3, <1>5, <2>3, <2>4 DEF Sight
  <2>6. Sight(r) => plan[r].mods = "reviewed"
    BY <1>1, <1>5 DEF Sight, SableSource, ArtifactsReviewed
  <2>7. Sight(r) /\ Reviewing(r) => Reviewing(r)'
    BY <1>1, <1>2, <1>5, <2>6 DEF Reviewing
  <2>8. Unchanged(r)' = Unchanged(r)
    BY <1>2 DEF Unchanged, ManifestValid
  <2>9. Toll(r) => Toll(r)'
    BY <1>1, <1>2, <1>5, <2>8 DEF Toll
  <2> QED
    BY <2>1, <2>2, <2>5, <2>7, <2>9 DEF OwnInv
<1> QED
  BY <1>1, <1>4, <1>5

\* LiveTests keeps what is known of the run.
LEMMA LiveOwn == ASSUME TestTypes, NEW r \in Runs, OwnInv(r), LiveTests(r) PROVE OwnInv(r)'
<1>1. pc'[r] = "cleanup" /\ Active(r) /\ UNCHANGED <<where, fresh>> /\ Put(r, "ready", r)
  BY DEF LiveTests, Goto, TestTypes, Active
<1>2. Others(r) /\ DirTyped'
  BY LiveOthers, LiveTypes DEF TestTypes, DirTyped
<1>3. Here(r)'.ready = r /\ \A field \in DirFields \ {"ready"} : Here(r)'[field] = Here(r)[field]
  BY <1>1, FieldOwn
<1>4. Own(Here(r), r) => Own(Here(r)', r)
  BY <1>3 DEF Own
<1> QED
  BY <1>1, <1>2, <1>4, EndOwn

\* What is known of a run is kept by each of its steps.
LEMMA OwnSteps ==
  ASSUME TestTypes, ZeroPassed, NEW r \in Runs, OwnInv(r), Harness(r) \/ Process(r)
  PROVE  OwnInv(r)'
<1>1. CASE Harness(r)
  BY <1>1, BeginOwn, EarlyOwn, ClearOwn, InstallersOwn, ReadIndexOwn, InstallPartOwn,
     InstallRecordOwn, VerifyProvenanceOwn, VerifySealOwn, RenderItemOwn, RenderAcquisitionOwn,
     RenderRecordOwn, RenderGateOwn, BootOwn, InterruptedOwn, RenderFailsOwn, LeftOwn,
     AwaitServerOwn, VerifySourcesOwn, VerifyLogsOwn, VerifyJarsOwn, LiveOwn
     DEF Harness
<1>2. CASE Process(r)
  BY <1>2, ServeOwn, LoadsOwn, ServesOwn, EndsOwn DEF Process
<1> QED
  BY <1>1, <1>2

-----------------------------------------------------------------------------
(* What a run writes, in its directory, about others: nothing.              *)

DirStep(r) ==
  LET d == Here(r)
      e == dir'[where[r]]
  IN
  /\ \/ e.status = d.status \/ e.status = None
     \/ e.status = [by |-> r, zero |-> server[r] = "passed"]
  /\ \A a \in Audits : e.audits[a] \in {d.audits[a], r, Canonical, None}

\* A field that is neither the status nor a script tells nothing of others ...
LEMMA PutSteps ==
  ASSUME TestTypes, NEW r \in Runs, NEW value,
         NEW field \in DirFields \ {"status", "audits"}, Put(r, field, value)
  PROVE  DirStep(r)
<1>1. dir'[where[r]] = [Here(r) EXCEPT ![field] = value]
  BY WriteOthers DEF Put
<1>2. DOMAIN Here(r) = DirFields
  BY HereTyped DEF IsDir
<1> QED
  BY <1>1, <1>2 DEF DirStep

\* ... nor does an unchanged directory ...
LEMMA SameSteps == ASSUME TestTypes, NEW r \in Runs, UNCHANGED dir PROVE DirStep(r)
  BY DEF DirStep, Here

\* ... nor a script with the own nonce ...
LEMMA AuditSteps ==
  ASSUME TestTypes, NEW r \in Runs, NEW audits, Put(r, "audits", audits),
         \A a \in Audits : audits[a] \in {Here(r).audits[a], r, Canonical, None}
  PROVE  DirStep(r)
<1>1. dir'[where[r]] = [Here(r) EXCEPT !.audits = audits]
  BY WriteOthers DEF Put
<1>2. DOMAIN Here(r) = DirFields
  BY HereTyped DEF IsDir
<1> QED
  BY <1>1, <1>2 DEF DirStep

\* ... so neither the renderer ...
LEMMA RenderSteps ==
  ASSUME TestTypes, NEW r \in Runs,
         RenderItem(r) \/ RenderAcquisition(r) \/ RenderRecord(r) \/ RenderGate(r) \/ RenderFails(r)
  PROVE  DirStep(r)
<1> DEFINE audits == Here(r).audits
           done(a) == [audits EXCEPT ![a] = r]
           undone == [audits EXCEPT !.item = IF audits.item = None THEN None ELSE Canonical]
<1>1. /\ \A a \in Audits, b \in Audits : done(a)[b] \in {Here(r).audits[b], r, Canonical, None}
      /\ \A b \in Audits : undone[b] \in {Here(r).audits[b], r, Canonical, None}
  BY HereTyped DEF IsDir
<1>2. Write(r, Unrendered(Here(r))) => DirStep(r)
  <2> SUFFICES ASSUME Write(r, Unrendered(Here(r))) PROVE DirStep(r)
    OBVIOUS
  <2>1. dir'[where[r]] = Unrendered(Here(r))
    BY WriteOthers
  <2>2. LET e == Unrendered(Here(r)) IN
        e.status = Here(r).status /\ \A a \in Audits : e.audits[a] \in {Here(r).audits[a], Canonical}
    BY UnrenderedFields, HereTyped
  <2> QED
    BY <2>1, <2>2 DEF DirStep
<1>3. \/ UNCHANGED dir \/ (\E a \in Audits : Put(r, "audits", done(a))) \/ Put(r, "audits", undone)
      \/ Put(r, "provenance", r) \/ Write(r, Unrendered(Here(r)))
  BY DEF RenderItem, RenderAcquisition, RenderRecord, RenderGate, RenderFails
<1> HIDE DEF done, undone
<1> QED
  BY <1>1, <1>2, <1>3, SameSteps, AuditSteps, PutSteps

\* ... nor the clearing and the installer ...
LEMMA FillSteps ==
  ASSUME TestTypes, NEW r \in Runs, Started(r),
         ClearDirectory(r) \/ Installers(r) \/ InstallPart(r) \/ InstallRecord(r)
  PROVE  DirStep(r)
<1>1. CASE ClearDirectory(r)
  <2> DEFINE d == [Empty EXCEPT !.nonce = r]
  <2>1. UNCHANGED dir \/ Write(r, d)
    BY <1>1 DEF ClearDirectory
  <2>2. d.status = None /\ \A a \in Audits : d.audits[a] = None
    BY EmptiedDir
  <2> HIDE DEF d
  <2>3. Write(r, d) => DirStep(r)
    BY <2>2, WriteOthers DEF DirStep
  <2> QED
    BY <2>1, <2>3, SameSteps
<1>2. CASE Installers(r)
  BY <1>2, SameSteps, PutSteps DEF Installers
<1>3. CASE InstallPart(r)
  <2> DEFINE part == Head(todo[r])
             kind == plan[r][part]
             d == WithPart(Here(r), part, kind)
  <2>1. pc[r] = "install" /\ todo[r] # <<>> /\ (UNCHANGED dir \/ Write(r, d))
    BY <1>3 DEF InstallPart, Check
  <2>2. part \in Parts /\ kind \in Variants
    BY <2>1, SuffixSteps DEF Started, TestTypes, Versions
  <2>3. /\ d.installed = [Here(r).installed EXCEPT ![part] = kind]
        /\ d.saved = (Here(r).saved /\ part # "data")
        /\ \A a \in Audits : d.audits[a] = IF part = "code" THEN Canonical ELSE Here(r).audits[a]
        /\ \A field \in DirFields \ {"installed", "saved", "audits"} : d[field] = Here(r)[field]
    BY <2>2, WithPartFields, HereTyped
  <2> HIDE DEF d
  <2>4. Write(r, d) => DirStep(r)
    BY <2>3, WriteOthers DEF DirStep
  <2> QED
    BY <2>1, <2>4, SameSteps
<1>4. CASE InstallRecord(r)
  BY <1>4, PutSteps DEF InstallRecord
<1> QED
  BY <1>1, <1>2, <1>3, <1>4

\* ... nor the server writes anything about others ...
LEMMA ServerSteps ==
  ASSUME TestTypes, NEW r \in Runs,
         \/ AwaitServer(r) \/ LiveTests(r) \/ ServerLoads(r) \/ ServerServes(r)
         \/ ServerStops(r) \/ ServerEnds(r)
  PROVE  DirStep(r)
<1>1. CASE AwaitServer(r)
  <2>1. dir'[where[r]] = [Here(r) EXCEPT !.status = [by |-> r, zero |-> server[r] = "passed"]]
    BY <1>1, WriteOthers DEF AwaitServer, Put
  <2>2. DOMAIN Here(r) = DirFields
    BY HereTyped DEF IsDir
  <2> QED
    BY <2>1, <2>2 DEF DirStep
<1>2. CASE LiveTests(r)
  BY <1>2, PutSteps DEF LiveTests
<1>3. CASE ServerLoads(r)
  BY <1>3, PutSteps DEF ServerLoads
<1>4. CASE ServerServes(r)
  BY <1>4, SameSteps, PutSteps DEF ServerServes
<1>5. CASE ServerStops(r) \/ ServerEnds(r)
  <2>1. \/ UNCHANGED dir
        \/ /\ server[r] = "serving"
           /\ \E log : Write(r, Saved(Here(r), ran[r].pack.data, log))
    BY <1>5 DEF ServerStops, ServerEnds, Stopped, Saved
  <2>2. ASSUME server[r] = "serving", NEW log, Write(r, Saved(Here(r), ran[r].pack.data, log))
        PROVE  DirStep(r)
    <3>1. ran[r].pack.data \in Variants
      BY <2>2 DEF TestTypes
    <3>2. LET e == Saved(Here(r), ran[r].pack.data, log) IN
          /\ e.installed = [Here(r).installed EXCEPT !.data = ran[r].pack.data] /\ e.log = log
          /\ \A field \in DirFields \ {"installed", "saved", "log"} : e[field] = Here(r)[field]
      BY <3>1, SavedFields, HereTyped
    <3>3. dir'[where[r]] = Saved(Here(r), ran[r].pack.data, log)
      BY <2>2, WriteOthers
    <3> QED
      BY <3>2, <3>3 DEF DirStep
  <2> QED
    BY <2>1, <2>2, SameSteps
<1> QED
  BY <1>1, <1>2, <1>3, <1>4, <1>5

\* ... nor does any other step.
LEMMA DirSteps ==
  ASSUME TestTypes, NEW r \in Runs, Started(r), Harness(r) \/ Process(r) PROVE DirStep(r)
<1>1. CASE Harness(r)
  <2>1. CASE \/ Begin(r) \/ CheckPort(r) \/ StartServe(r) \/ AwaitAnswer(r) \/ ReadIndex(r)
             \/ VerifyProvenance(r) \/ VerifySeal(r) \/ WalkDisturbed(r) \/ Boot(r)
             \/ VerifySources(r) \/ VerifyLogs(r) \/ VerifyJars(r)
             \/ CleanUp(r) \/ Capture(r) \/ Interrupt(r) \/ Kill(r)
    <3>1. UNCHANGED dir
      BY <2>1 DEF Begin, CheckPort, StartServe, AwaitAnswer, ReadIndex, VerifyProvenance,
                  VerifySeal, WalkDisturbed, Boot, VerifySources, VerifyLogs, VerifyJars,
                  CleanUp, Capture, Interrupt, Kill
    <3> QED
      BY <3>1, SameSteps
  <2> QED
    BY <1>1, <2>1, FillSteps, RenderSteps, ServerSteps DEF Harness
<1>2. CASE Process(r)
  <2>1. CASE ServeBinds(r) \/ KillServe(r)
    BY <2>1, SameSteps DEF ServeBinds, KillServe
  <2> QED
    BY <1>2, <2>1, ServerSteps DEF Process
<1> QED
  BY <1>1, <1>2

-----------------------------------------------------------------------------
(* What a step keeps of the other runs.                                     *)

\* The types after a step of a run: nothing is installed without a plan.
LEMMA RunTypes ==
  ASSUME TestTypes, NEW r \in Runs, Started(r), Harness(r) \/ Process(r) PROVE TestTypes'
<1>1. CASE Harness(r)
  <2>1. CASE \/ CheckPort(r) \/ AwaitAnswer(r) \/ VerifyProvenance(r) \/ VerifySeal(r)
             \/ VerifySources(r) \/ VerifyLogs(r) \/ VerifyJars(r)
    BY <2>1, ReadingTypes
       DEF CheckPort, AwaitAnswer, VerifyProvenance, VerifySeal, VerifySources, VerifyLogs, VerifyJars
  <2>2. CASE InstallPart(r)
    <3>1. plan[r] # None
      BY <2>2 DEF InstallPart, Check, Started
    <3> QED
      BY <2>2, <3>1, InstallPartTypes
  <2> QED
    BY <1>1, <2>1, <2>2, BeginTypes, StartServeTypes, ClearTypes, InstallersTypes, ReadIndexTypes,
       InstallRecordTypes, WalkTypes, RenderItemTypes, RenderAcquisitionTypes, RenderRecordTypes,
       RenderFailsTypes, RenderGateTypes, BootTypes, AwaitServerTypes, LiveTypes, EndingTypes
       DEF Harness
<1>2. CASE Process(r)
  BY <1>2, ServeTypes, LoadsTypes, ServesTypes, StopsTypes, EndsTypes DEF Process
<1> QED
  BY <1>1, <1>2

\* A server that has passed stays so.
LEMMA PassedStays ==
  ASSUME TestTypes, NEW r \in Runs, OwnInv(r), Harness(r) \/ Process(r), NEW q \in Runs,
         server[q] = "passed"
  PROVE  server'[q] = "passed"
<1>1. CASE q # r
  BY <1>1, HarnessOthers, ProcessOthers DEF Others
<1>2. CASE q = r
  <2>1. CASE Boot(r)
    BY <1>2, <2>1 DEF Boot, Check, OwnInv, Started
  <2>2. CASE Process(r)
    BY <1>2, <2>2 DEF Process, ServeBinds, KillServe, ServerLoads, ServerServes, ServerStops, ServerEnds
  <2>3. CASE Harness(r) /\ ~Boot(r)
    <3>1. server' = server
      BY <2>3 DEF Harness, Begin, CheckPort, StartServe, AwaitAnswer, ClearDirectory, Installers,
             ReadIndex, InstallPart, InstallRecord, VerifyProvenance, VerifySeal, WalkDisturbed,
             RenderItem, RenderAcquisition, RenderRecord, RenderFails, RenderGate, AwaitServer,
             VerifySources, VerifyLogs, VerifyJars, LiveTests, CleanUp, Capture, Interrupt, Kill
    <3> QED
      BY <1>2, <3>1
  <2> QED
    BY <2>1, <2>2, <2>3
<1> QED
  BY <1>1, <1>2

\* So a status of zero keeps meaning a server that has passed.
LEMMA ZeroSteps ==
  ASSUME TestTypes, ZeroPassed, NEW r \in Runs, OwnInv(r), Harness(r) \/ Process(r)
  PROVE  ZeroPassed'
<1> SUFFICES ASSUME NEW c \in Checkouts, NEW q \in Runs, dir'[c].status = [by |-> q, zero |-> TRUE]
             PROVE  server'[q] = "passed"
  BY DEF ZeroPassed
<1>1. Others(r) /\ DirStep(r)
  BY HarnessOthers, ProcessOthers, DirSteps DEF OwnInv
<1>2. CASE c # where[r]
  <2>1. server[q] = "passed"
    BY <1>1, <1>2 DEF Others, ZeroPassed
  <2> QED
    BY <2>1, PassedStays
<1>3. CASE c = where[r]
  <2>1. [by |-> q, zero |-> TRUE] \in Statuses
    BY DEF Statuses
  <2>2. dir'[c].status # None
    BY <2>1, ServerTestBounds
  <2>3. dir'[c].status = dir[c].status \/ dir'[c].status = [by |-> r, zero |-> server[r] = "passed"]
    BY <1>1, <1>3, <2>2, HereTyped DEF DirStep
  <2>4. server[q] = "passed"
    <3>1. CASE dir'[c].status = dir[c].status
      BY <3>1 DEF ZeroPassed
    <3>2. CASE dir'[c].status = [by |-> r, zero |-> server[r] = "passed"]
      <4>1. [by |-> q, zero |-> TRUE] = [by |-> r, zero |-> server[r] = "passed"]
        BY <3>2
      <4>2. [by |-> q, zero |-> TRUE].by = q /\ [by |-> r, zero |-> server[r] = "passed"].by = r
            /\ [by |-> q, zero |-> TRUE].zero = TRUE
            /\ [by |-> r, zero |-> server[r] = "passed"].zero = (server[r] = "passed")
        OBVIOUS
      <4> QED
        BY <4>1, <4>2
    <3> QED
      BY <2>3, <3>1, <3>2
  <2> QED
    BY <2>4, PassedStays
<1> QED
  BY <1>2, <1>3

\* What is known of a run is kept by the steps of the others: their nonces are not its own.
LEMMA OthersKept ==
  ASSUME TestTypes, \A q \in Runs : OwnInv(q) /\ Apart(q), NEW r \in Runs, Harness(r) \/ Process(r)
  PROVE  \A q \in Runs \ {r} : OwnInv(q)'
<1> SUFFICES ASSUME NEW q \in Runs \ {r} PROVE OwnInv(q)'
  OBVIOUS
<1>1. Others(r) /\ DirStep(r)
  BY HarnessOthers, ProcessOthers, DirSteps DEF OwnInv
<1>2. Started(q)'
  BY <1>1 DEF OwnInv, Started, Others
<1>3. \A a \in Audits : Here(q)'.audits[a] = q => Here(q).audits[a] = q
  <2>1. CASE where[q] # where[r]
    <3>1. Here(q)' = Here(q)
      BY <1>1, <2>1 DEF Others, Here, TestTypes
    <3> QED
      BY <3>1
  <2>2. CASE where[q] = where[r]
    <3>1. Here(q) = Here(r) /\ Here(q)' = dir'[where[r]]
      BY <1>1, <2>2 DEF Others, Here
    <3>2. q # Canonical /\ q # None /\ q # r
      BY ServerTestBounds
    <3> QED
      BY <1>1, <3>1, <3>2 DEF DirStep
  <2> QED
    BY <2>1, <2>2
<1>4. Announced(q)'
  BY <1>1, <1>3 DEF OwnInv, Announced, Others
<1>5. Alone(q)' => Sight(q)' /\ Reviewing(q)' /\ Toll(q)'
  BY AloneKept DEF OwnInv, AloneInv
<1> QED
  BY <1>2, <1>4, <1>5 DEF OwnInv

-----------------------------------------------------------------------------
(* The verdict and the evidence.                                            *)

\* Only the live tests say OK.
LEMMA VerdictSteps ==
  ASSUME TestTypes, NEW r \in Runs, Harness(r) \/ Process(r), verdict'[r] = "ok"
  PROVE  LiveTests(r) \/ verdict[r] = "ok"
<1>1. CASE Process(r)
  BY <1>1 DEF Process, ServeBinds, KillServe, ServerLoads, ServerServes, ServerStops, ServerEnds
<1>2. CASE \/ Begin(r) \/ StartServe(r) \/ WalkDisturbed(r) \/ RenderFails(r) \/ CleanUp(r)
           \/ Capture(r) \/ Interrupt(r) \/ Kill(r)
  BY <1>2 DEF Begin, StartServe, WalkDisturbed, RenderFails, CleanUp, Capture, Interrupt, Kill,
              Refuse, TestTypes
<1>3. ASSUME NEW label, NEW passed, NEW next, Check(r, label, passed, next) PROVE verdict[r] = "ok"
  BY <1>3, CheckOwn
<1>4. CASE Harness(r)
  BY <1>2, <1>3, <1>4
     DEF Harness, CheckPort, AwaitAnswer, ClearDirectory, Installers, ReadIndex, InstallPart,
         InstallRecord, VerifyProvenance, VerifySeal, RenderItem, RenderAcquisition, RenderRecord,
         RenderGate, Boot, AwaitServer, VerifySources, VerifyLogs, VerifyJars
<1> QED
  BY <1>1, <1>4

\* A run that has ended, with its server, ends nowhere else.
LEMMA LateSteps ==
  ASSUME TestTypes, NEW r \in Runs, Harness(r) \/ Process(r), pc[r] \in Late, server[r] = "passed"
  PROVE  pc'[r] \in Late /\ UNCHANGED <<server, ran, manifest>>
<1>1. CASE Process(r)
  BY <1>1 DEF Process, ServeBinds, KillServe, ServerLoads, ServerServes, ServerStops, ServerEnds, Late
<1>2. CASE CleanUp(r) \/ Capture(r) \/ Kill(r)
  BY <1>2 DEF CleanUp, Capture, Kill, Goto, Late, TestTypes
<1>3. CASE Harness(r)
  <2>1. ASSUME NEW label \in Labels \ Late, NEW passed, NEW next, Check(r, label, passed, next) PROVE FALSE
    BY <2>1, CheckOwn
  <2>2. CleanUp(r) \/ Capture(r) \/ Kill(r)
    BY <1>3, <2>1 DEF Harness, Begin, StartServe, WalkDisturbed, RenderFails, LiveTests, Interrupt,
         CheckPort, AwaitAnswer, ClearDirectory, Installers, ReadIndex, InstallPart,
         InstallRecord, VerifyProvenance, VerifySeal, RenderItem, RenderAcquisition, RenderRecord,
         RenderGate, Boot, AwaitServer, VerifySources, VerifyLogs, VerifyJars, Late, Active
  <2> QED
    BY <1>2, <2>2
<1> QED
  BY <1>1, <1>3

\* What a run has shown that reports OK.
OkOf(r) ==
  verdict[r] = "ok" =>
    /\ pc[r] \in Late /\ server[r] = "passed" /\ ran[r].nonces = {r}
    /\ "crowd" \notin disturbed[r] =>
         /\ ran[r].pack.mods = "reviewed" /\ ran[r].pack.code = "reviewed" /\ ran[r].pack.data # "seal"
         /\ ran[r].pack = manifest[r] \/ edits > 3

\* The two invariants about OK, for each run.
LEMMA OkMeans == OkInv /\ OkIsThisRun <=> \A r \in Runs : OkOf(r)
  BY DEF OkInv, OkIsThisRun, OkOf, Late

\* The last check finds what the invariant of the run says, and nothing changes it later.
LEMMA OkOwn ==
  ASSUME TestTypes, NEW r \in Runs, OwnInv(r), OkOf(r), Harness(r) \/ Process(r) PROVE OkOf(r)'
<1> SUFFICES ASSUME verdict'[r] = "ok" PROVE OkOf(r)'
  BY DEF OkOf
<1>1. Others(r)
  BY HarnessOthers, ProcessOthers
<1>2. CASE LiveTests(r)
  <2>1. /\ pc[r] = "live" /\ pc'[r] = "cleanup" /\ Unchanged(r)
        /\ UNCHANGED <<server, ran, manifest, disturbed, edits>>
    BY <1>2 DEF LiveTests, Goto, TestTypes
  <2>2. server[r] = "passed" /\ ran[r].nonces = {r}
    BY <2>1 DEF OwnInv, Announced
  <2>3. ASSUME "crowd" \notin disturbed[r]
        PROVE  /\ ran[r].pack.mods = "reviewed" /\ ran[r].pack.code = "reviewed" /\ ran[r].pack.data # "seal"
               /\ ran[r].pack = manifest[r] \/ edits > 3
    <3>1. Sight(r) /\ Reviewing(r) /\ Toll(r)
      BY <2>1, <2>3 DEF OwnInv, Alone, Active
    <3>2. ran[r].pack = plan[r]
      BY <2>1, <2>2, <3>1 DEF Sight, Loaded
    <3>3. plan[r] = manifest[r] \/ edits > 3
      BY <2>1, <3>1 DEF Toll, TestTypes
    <3> QED
      BY <2>1, <3>1, <3>2, <3>3 DEF Reviewing
  <2> QED
    BY <2>1, <2>2, <2>3 DEF OkOf, Late
<1>3. CASE ~LiveTests(r)
  <2>1. verdict[r] = "ok"
    BY <1>3, VerdictSteps
  <2>2. pc[r] \in Late /\ server[r] = "passed"
    BY <2>1 DEF OkOf
  <2>3. pc'[r] \in Late /\ UNCHANGED <<server, ran, manifest>>
    BY <2>2, LateSteps
  <2> QED
    BY <1>1, <2>1, <2>3 DEF OkOf, Others
<1> QED
  BY <1>2, <1>3

\* So every step keeps it.
LEMMA OkSteps ==
  ASSUME TestTypes, \A q \in Runs : OkOf(q), NEW r \in Runs, OwnInv(r), Harness(r) \/ Process(r)
  PROVE  \A q \in Runs : OkOf(q)'
<1>1. OkOf(r)'
  BY OkOwn
<1>2. ASSUME NEW q \in Runs \ {r} PROVE OkOf(q)'
  BY HarnessOthers, ProcessOthers DEF Others, OkOf
<1> QED
  BY <1>1, <1>2

\* The evidence is taken from a directory that is the run's own, or in company.
LEMMA EvidenceSteps ==
  ASSUME TestTypes, EvidenceIsOwn, NEW r \in Runs, OwnInv(r), Harness(r) \/ Process(r)
  PROVE  EvidenceIsOwn'
<1>1. Others(r)
  BY HarnessOthers, ProcessOthers
<1> SUFFICES ASSUME NEW q \in Runs, "crowd" \notin disturbed'[q] PROVE evidence'[q] \subseteq {q}
  BY DEF EvidenceIsOwn
<1>2. evidence[q] \subseteq {q}
  BY <1>1 DEF EvidenceIsOwn, Others
<1>3. CASE Capture(r) /\ q = r
  <2>1. pc[r] = "capture" /\ "crowd" \notin disturbed[r]
    BY <1>1, <1>3 DEF Capture, Others
  <2>2. fresh[r] => Own(Here(r), r)
    BY <2>1 DEF OwnInv, Alone, Active, Sight
  <2> DEFINE d == Here(r)
             found == {d.nonce, d.provenance, d.ready} \cup {x.by : x \in {d.log, d.status} \ {None}}
  <2>3. evidence'[r] = IF fresh[r] THEN found \ {None} ELSE {}
    BY <1>3 DEF Capture, TestTypes
  <2>4. Own(d, r) => found \ {None} \subseteq {r}
    <3> HIDE DEF d
    <3> QED
      BY DEF Own
  <2> HIDE DEF d, found
  <2>5. found \ {None} \subseteq {r} \/ ~fresh[r]
    BY <2>2, <2>4 DEF d
  <2> QED
    BY <1>3, <2>3, <2>5
<1>4. CASE q # r
  BY <1>1, <1>2, <1>4 DEF Others
<1>5. CASE ~Capture(r)
  <2>1. evidence' = evidence
    <3>1. CASE Process(r)
      BY <3>1 DEF Process, ServeBinds, KillServe, ServerLoads, ServerServes, ServerStops, ServerEnds
    <3>2. CASE Harness(r)
      BY <1>5, <3>2 DEF Harness, Begin, CheckPort, StartServe, AwaitAnswer, ClearDirectory, Installers,
             ReadIndex, InstallPart, InstallRecord, VerifyProvenance, VerifySeal, WalkDisturbed,
             RenderItem, RenderAcquisition, RenderRecord, RenderFails, RenderGate, Boot, AwaitServer,
             VerifySources, VerifyLogs, VerifyJars, LiveTests, CleanUp, Interrupt, Kill
    <3> QED
      BY <3>1, <3>2
  <2> QED
    BY <1>2, <2>1
<1> QED
  BY <1>3, <1>4, <1>5

-----------------------------------------------------------------------------
(* Edits and the cache.                                                     *)

\* An edit pays the toll of the runs at work in its checkout and touches nothing else.
LEMMA EditKept ==
  ASSUME TestInv, NEW c \in Checkouts, NEW p \in Drafts, NEW refreshed \in BOOLEAN,
         Edit(c, p, refreshed)
  PROVE  TestInv'
<1> USE DEF TestInv
<1>1. /\ UNCHANGED <<dir, cache, serve, server, ran, harness, evidence, faults>> /\ edits' = edits + 1
      /\ \A q \in Runs : disturbed[q] \subseteq disturbed'[q]
  BY DEF Edit, Touched, TestTypes
<1>2. edits \in Nat
  BY DEF TestTypes
<1>3. TestTypes'
  BY EditTypes
<1>4. ZeroPassed'
  BY <1>1 DEF ZeroPassed
<1>5. ASSUME NEW r \in Runs PROVE OwnInv(r)'
  <2>1. Here(r)' = Here(r) /\ Loaded(r)' = Loaded(r) /\ (Alone(r)' => Alone(r))
    BY <1>1 DEF Here, Loaded, Alone, Active
  <2>2. Started(r)' /\ Announced(r)'
    BY <1>1, <1>5, <2>1 DEF OwnInv, Started, Announced
  <2>3. Sight(r) => Sight(r)'
    BY <1>1, <2>1 DEF Sight
  <2>4. Reviewing(r) => Reviewing(r)'
    BY <1>1 DEF Reviewing
  <2>5. Toll(r) => Toll(r)'
    BY <1>1, <1>2 DEF Toll
  <2> QED
    BY <1>5, <2>1, <2>2, <2>3, <2>4, <2>5 DEF OwnInv
<1>6. ASSUME NEW r \in Runs PROVE Apart(r)'
  BY <1>1, <1>6 DEF Apart, Alone, Alive, Active
<1>7. \A r \in Runs : OkOf(r)
  BY OkMeans
<1>8. \A r \in Runs : OkOf(r)'
  BY <1>1, <1>2, <1>7 DEF OkOf
<1>9. OkInv' /\ OkIsThisRun'
  BY <1>8 DEF OkInv, OkIsThisRun, OkOf, Late
<1>10. EvidenceIsOwn'
  BY <1>1 DEF EvidenceIsOwn
<1> QED
  BY <1>3, <1>4, <1>5, <1>6, <1>9, <1>10

\* The rest does not depend on the cache.
LEMMA StutterKept ==
  ASSUME TestInv, TestTypes',
         UNCHANGED <<root, dir, serve, server, ran, harness, evidence, disturbed, edits>>
  PROVE  TestInv'
<1> USE DEF TestInv
<1>1. ZeroPassed'
  BY DEF ZeroPassed
<1>2. ASSUME NEW r \in Runs PROVE OwnInv(r)'
  <2>1. Here(r)' = Here(r) /\ Loaded(r)' = Loaded(r) /\ Alone(r)' = Alone(r)
        /\ Unchanged(r)' = Unchanged(r)
    BY DEF Here, Loaded, Alone, Active, Unchanged, ManifestValid
  <2>2. Started(r)' /\ Announced(r)'
    BY <1>2, <2>1 DEF OwnInv, Started, Announced
  <2>3. Sight(r) => Sight(r)'
    BY <2>1 DEF Sight
  <2>4. (Reviewing(r) => Reviewing(r)') /\ (Toll(r) => Toll(r)')
    BY <2>1 DEF Reviewing, Toll
  <2> QED
    BY <1>2, <2>1, <2>2, <2>3, <2>4 DEF OwnInv
<1>3. ASSUME NEW r \in Runs PROVE Apart(r)'
  BY <1>3 DEF Apart, Alone, Alive, Active
<1>4. OkInv' /\ OkIsThisRun' /\ EvidenceIsOwn'
  BY DEF OkInv, OkIsThisRun, EvidenceIsOwn
<1> QED
  BY <1>1, <1>2, <1>3, <1>4

\* The inductive invariant holds at the beginning ...
LEMMA InitTest == Init => TestInv
<1> SUFFICES ASSUME Init PROVE TestInv
  OBVIOUS
<1>1. TestTypes
  BY InitTypes
<1>2. ZeroPassed
  <2> SUFFICES ASSUME NEW c \in Checkouts, NEW r \in Runs, dir[c].status = [by |-> r, zero |-> TRUE]
               PROVE  FALSE
    BY DEF ZeroPassed
  <2>1. [by |-> r, zero |-> TRUE] \in Statuses
    BY DEF Statuses
  <2>2. dir[c].status = None
    BY EmptyDir DEF Init
  <2> QED
    BY <2>1, <2>2, ServerTestBounds
<1>3. ASSUME NEW r \in Runs PROVE OwnInv(r) /\ Apart(r)
  BY <1>3 DEF Init, OwnInv, Started, Announced, Alone, Active, Apart
<1>4. OkInv /\ OkIsThisRun
  <2>1. \A r \in Runs : verdict[r] # "ok"
    BY ServerTestBounds DEF Init
  <2> QED
    BY <2>1 DEF OkInv, OkIsThisRun
<1>5. EvidenceIsOwn
  BY DEF Init, EvidenceIsOwn
<1> QED
  BY <1>1, <1>2, <1>3, <1>4, <1>5 DEF TestInv

\* ... every step of a run keeps it ...
LEMMA RunKept ==
  ASSUME TestInv, NEW r \in Runs, Harness(r) \/ Process(r) PROVE TestInv'
<1> USE DEF TestInv
<1>1. TestTypes'
  BY RunTypes DEF OwnInv
<1>2. ZeroPassed'
  BY ZeroSteps
<1>3. \A q \in Runs : OwnInv(q)'
  BY OwnSteps, OthersKept
<1>4. \A q \in Runs : Apart(q)'
  BY ApartSteps
<1>5. \A q \in Runs : OkOf(q)'
  BY OkSteps, OkMeans
<1>6. OkInv' /\ OkIsThisRun'
  BY <1>5 DEF OkInv, OkIsThisRun, OkOf, Late
<1>7. EvidenceIsOwn'
  BY EvidenceSteps
<1> QED
  BY <1>1, <1>2, <1>3, <1>4, <1>6, <1>7

\* ... and so does every step there is.
LEMMA TestSteps == TestInv /\ [Next]_vars => TestInv'
<1> SUFFICES ASSUME TestInv, [Next]_vars PROVE TestInv'
  OBVIOUS
<1>1. ASSUME NEW r \in Runs, Harness(r) \/ Process(r) PROVE TestInv'
  BY <1>1, RunKept
<1>2. ASSUME NEW c \in Checkouts, NEW p \in Drafts, NEW refreshed \in BOOLEAN, Edit(c, p, refreshed)
      PROVE  TestInv'
  BY <1>2, EditKept
<1>3. CASE CacheTorn
  BY <1>3, TornTypes, StutterKept DEF CacheTorn, TestInv
<1>4. CASE UNCHANGED vars
  <2>1. TestTypes'
    BY <1>4 DEF TestInv, TestTypes, vars
  <2> QED
    BY <1>4, <2>1, StutterKept DEF vars
<1> QED
  BY <1>1, <1>2, <1>3, <1>4 DEF Next

\* In every state of a run of the model the inductive invariant holds.
THEOREM TestInvariant == Spec => []TestInv
<1> HIDE DEF TestInv, Init, Next, vars
<1> QED
  BY InitTest, TestSteps, PTL DEF Spec

\* A run that reports OK has booted a reviewed version, the one that its checkout
\* held when it began, and the nonces that were announced are its own.
THEOREM OkIsThisRunHolds == Spec => []OkIsThisRun
<1>1. TestInv => OkIsThisRun
  BY DEF TestInv
<1> QED
  BY <1>1, TestInvariant, PTL

\* A run that is alone in its checkout keeps no evidence of another.
THEOREM EvidenceIsOwnHolds == Spec => []EvidenceIsOwn
<1>1. TestInv => EvidenceIsOwn
  BY DEF TestInv
<1> QED
  BY <1>1, TestInvariant, PTL

-----------------------------------------------------------------------------
(* The log of a run that is alone.                                          *)

\* The steps by which a run comes past its boot.
LEMMA BootedSteps ==
  ASSUME TestTypes, NEW r \in Runs, Harness(r), pc'[r] \in Booted
  PROVE  Boot(r) \/ AwaitServer(r) \/ VerifySources(r) \/ VerifyLogs(r) \/ VerifyJars(r)
<1>1. ASSUME NEW label, NEW passed, NEW next, next \notin Booted, Check(r, label, passed, next) PROVE FALSE
  BY <1>1, CheckOwn
<1>2. ~(Begin(r) \/ StartServe(r) \/ WalkDisturbed(r) \/ RenderFails(r) \/ LiveTests(r) \/ CleanUp(r)
        \/ Capture(r) \/ Interrupt(r) \/ Kill(r))
  BY DEF Begin, StartServe, WalkDisturbed, RenderFails, LiveTests, CleanUp, Capture, Interrupt, Kill,
         Refuse, Goto, TestTypes
<1> QED
  BY <1>1, <1>2 DEF Harness, CheckPort, AwaitAnswer, ClearDirectory, Installers, ReadIndex, InstallPart,
       InstallRecord, VerifyProvenance, VerifySeal, RenderItem, RenderAcquisition, RenderRecord, RenderGate

\* A log that is one's own is a log.
LEMMA LogThere ==
  ASSUME NEW r \in Runs, NEW nonces \in SUBSET Runs, NEW whole \in BOOLEAN,
         NEW log, log = [by |-> r, nonces |-> nonces, whole |-> whole]
  PROVE  log # None /\ log.by = r
<1>1. log \in Logs
  BY DEF Logs
<1> QED
  BY <1>1, ServerTestBounds

\* The harness does not write the log ...
LEMMA HarnessLogged ==
  ASSUME TestTypes, NEW r \in Runs, OwnInv(r), Alone(r) => Logged(r), Harness(r), Alone(r)'
  PROVE  Logged(r)'
<1> SUFFICES ASSUME pc'[r] \in Booted PROVE Logged(r)'
  BY DEF Logged
<1>1. Others(r)
  BY HarnessOthers
<1>2. CASE Boot(r)
  <2>1. server'[r] = "starting"
    BY <1>2, CheckOwn DEF Boot, TestTypes
  <2> QED
    BY <2>1 DEF Logged
<1>3. CASE AwaitServer(r) \/ VerifySources(r) \/ VerifyLogs(r) \/ VerifyJars(r)
  <2>1. pc[r] \in Booted /\ server' = server
    BY <1>3 DEF AwaitServer, VerifySources, VerifyLogs, VerifyJars, Check
  <2>2. Logged(r)
    BY <1>1, <2>1 DEF Alone, Active, Others
  <2>3. Here(r)'.log = Here(r).log
    <3>1. CASE AwaitServer(r)
      <4> DEFINE status == [by |-> r, zero |-> server[r] = "passed"]
      <4>1. Put(r, "status", status) /\ where' = where
        BY <3>1 DEF AwaitServer
      <4> HIDE DEF status
      <4> QED
        BY <4>1, FieldOwn
    <3>2. CASE ~AwaitServer(r)
      BY <1>3, <3>2 DEF VerifySources, VerifyLogs, VerifyJars, Here
    <3> QED
      BY <3>1, <3>2
  <2> QED
    BY <2>1, <2>2, <2>3 DEF Logged
<1> QED
  BY <1>2, <1>3, BootedSteps

\* ... but the server of the run does, and no other while it is alone.
LEMMA ProcessLogged ==
  ASSUME TestTypes, NEW r \in Runs, OwnInv(r), Alone(r) => Logged(r), Process(r), Alone(r)'
  PROVE  Logged(r)'
<1> SUFFICES ASSUME pc'[r] \in Booted PROVE Logged(r)'
  BY DEF Logged
<1>1. Others(r) /\ pc' = pc
  BY ProcessOthers, ProcessKeepsPc
<1>2. Alone(r) /\ Logged(r) /\ Sight(r)
  BY <1>1 DEF Alone, Active, Others, OwnInv
<1>3. CASE ServeBinds(r) \/ KillServe(r)
  BY <1>1, <1>2, <1>3 DEF ServeBinds, KillServe, Logged, Here
<1>4. CASE ServerLoads(r)
  <2> DEFINE log == [by |-> r, nonces |-> {}, whole |-> FALSE]
  <2>1. Put(r, "log", log) /\ where' = where /\ server'[r] \in {"loaded", "failed"}
    BY <1>4 DEF ServerLoads, TestTypes
  <2> HIDE DEF log
  <2>2. Here(r)'.log = log
    BY <2>1, FieldOwn
  <2> QED
    BY <2>1, <2>2 DEF log, Logged
<1>5. CASE ServerServes(r)
  <2> DEFINE log == Log(r, ran[r].nonces, FALSE)
  <2>1. /\ server[r] = "loaded" /\ where' = where
        /\ server'[r] = "failed" \/ (server'[r] = "serving" /\ Put(r, "log", log))
    BY <1>5 DEF ServerServes, TestTypes
  <2>2. Here(r).log = [by |-> r, nonces |-> {}, whole |-> FALSE] /\ ran[r].nonces = {r}
    BY <1>1, <1>2, <2>1 DEF Logged, Sight, Loaded
  <2>3. Here(r).log # None /\ Here(r).log.by = r
    BY <2>2, LogThere
  <2>4. log = [by |-> r, nonces |-> {r}, whole |-> FALSE]
    BY <2>2, <2>3 DEF Log
  <2> HIDE DEF log
  <2>5. server'[r] = "serving" => Here(r)'.log = log
    BY <2>1, FieldOwn
  <2> QED
    BY <2>1, <2>4, <2>5 DEF Logged
<1>6. CASE ServerStops(r) \/ ServerEnds(r)
  <2>1. CASE server'[r] = "failed"
    BY <2>1 DEF Logged
  <2>2. CASE server'[r] # "failed"
    <3> DEFINE log == Log(r, ran[r].nonces, TRUE)
    <3>1. /\ server[r] = "serving" /\ server'[r] = "passed" /\ where' = where
          /\ Write(r, Saved(Here(r), ran[r].pack.data, log))
      BY <1>6, <2>2 DEF ServerStops, ServerEnds, Stopped, Saved, TestTypes
    <3>2. Here(r).log = [by |-> r, nonces |-> {r}, whole |-> FALSE] /\ ran[r].nonces = {r}
      BY <1>1, <1>2, <3>1 DEF Logged, Sight, Loaded
    <3>3. Here(r).log # None /\ Here(r).log.by = r
      BY <3>2, LogThere
    <3>4. log = [by |-> r, nonces |-> {r}, whole |-> TRUE]
      BY <3>2, <3>3 DEF Log
    <3> HIDE DEF log
    <3>5. ran[r].pack.data \in Variants
      BY <3>1 DEF TestTypes
    <3>6. Here(r)' = Saved(Here(r), ran[r].pack.data, log)
      <4>1. dir'[where[r]] = Saved(Here(r), ran[r].pack.data, log)
        BY <3>1, WriteOthers
      <4> QED
        BY <3>1, <4>1 DEF Here
    <3>7. Here(r)'.log = log
      <4>1. LET e == Saved(Here(r), ran[r].pack.data, log) IN
            /\ e.installed = [Here(r).installed EXCEPT !.data = ran[r].pack.data] /\ e.log = log
        BY <3>5, SavedFields, HereTyped
      <4> QED
        BY <3>6, <4>1
    <3> QED
      BY <3>1, <3>4, <3>7 DEF Logged
  <2> QED
    BY <2>1, <2>2
<1> QED
  BY <1>3, <1>4, <1>5, <1>6 DEF Process

\* So the log is what the server has come to.
LEMMA LoggedSteps ==
  ASSUME TestInv, LoggedInv, NEW r \in Runs, Harness(r) \/ Process(r) PROVE LoggedInv'
<1> SUFFICES ASSUME NEW q \in Runs, Alone(q)' PROVE Logged(q)'
  BY DEF LoggedInv
<1>1. CASE q = r
  BY <1>1, HarnessLogged, ProcessLogged DEF TestInv, LoggedInv
<1>2. CASE q # r
  <2>1. Alone(q) /\ Here(q)' = Here(q)
    BY <1>2, AloneOthers DEF TestInv
  <2>2. pc'[q] = pc[q] /\ server'[q] = server[q]
    BY <1>2, HarnessOthers, ProcessOthers DEF Others, TestInv
  <2> QED
    BY <2>1, <2>2 DEF LoggedInv, Logged
<1> QED
  BY <1>1, <1>2

-----------------------------------------------------------------------------
(* A run that nothing disturbs.                                             *)

\* What such a run can count on.
LEMMA Promise ==
  ASSUME TestInv, UndisturbedInv, NEW r \in Runs, Promising(r)
  PROVE  /\ Alone(r) /\ Sight(r) /\ Untroubled(r) /\ OwnInv(r) /\ TestTypes
         /\ manifest[r] \in Versions /\ manifest[r].mods = "reviewed" /\ manifest[r].code = "reviewed"
         /\ manifest[r].data \notin {"seal", None} /\ manifest[r].config \notin {"jdt", None}
         /\ root[where[r]].files = manifest[r] /\ Root(r) = manifest[r] /\ ManifestValid(where[r])
         /\ \A q \in Runs \ {r} : serve[q] = "none" /\ server[q] \notin Running
<1>1. TestTypes /\ OwnInv(r) /\ Alone(r) /\ Untroubled(r)
  BY DEF TestInv, Promising, Alone, UndisturbedInv
<1>2. Sight(r)
  BY <1>1 DEF OwnInv
<1>3. manifest[r] \in Versions
  BY <1>1 DEF Promising, TestTypes
<1>4. \A part \in Parts : manifest[r][part] \in Kinds[part] /\ manifest[r][part] # None
  BY <1>3, ServerTestBounds DEF Versions
<1>5. /\ manifest[r].mods = "reviewed" /\ manifest[r].code = "reviewed"
      /\ manifest[r].data \notin {"seal", None} /\ manifest[r].config \notin {"jdt", None}
  BY <1>4 DEF Promising, Acceptable
<1>6. root[where[r]].files = manifest[r] /\ Root(r) = manifest[r] /\ ManifestValid(where[r])
  BY <1>1 DEF Untroubled, Unchanged, ManifestValid, Root
<1>7. \A q \in Runs \ {r} : serve[q] = "none" /\ server[q] \notin Running
  BY <1>1 DEF Untroubled, Alive
<1> QED
  BY <1>1, <1>2, <1>3, <1>5, <1>6, <1>7

\* Its own serve holds the port, or nobody's does.
LEMMA PortOwn ==
  ASSUME TestInv, UndisturbedInv, NEW r \in Runs, Promising(r)
  PROVE  PortBusy = (serve[r] = "up") /\ (PortBusy => Holder = r)
<1>1. \A q \in Runs : Served(q) => q = r
  BY Promise DEF Served
<1>2. PortBusy = (serve[r] = "up")
  BY <1>1 DEF PortBusy, Served
<1>3. PortBusy => Holder \in Runs /\ Served(Holder)
  BY DEF PortBusy, Holder
<1> QED
  BY <1>1, <1>2, <1>3

\* While a run goes on undisturbed it is alone and was before.
LEMMA PromisingBefore ==
  ASSUME TestTypes, NEW r \in Runs, Harness(r) \/ Process(r), ~Begin(r), Promising(r)'
  PROVE  Promising(r)
<1>1. Others(r)
  BY HarnessOthers, ProcessOthers
<1>2. Active(r)
  BY HarnessActs, ProcessKeepsPc DEF Promising, Active
<1>3. manifest' = manifest
  <2>1. CASE Process(r)
    BY <2>1 DEF Process, ServeBinds, KillServe, ServerLoads, ServerServes, ServerStops, ServerEnds
  <2>2. CASE Harness(r)
    BY <2>2 DEF Harness, CheckPort, StartServe, AwaitAnswer, ClearDirectory, Installers,
           ReadIndex, InstallPart, InstallRecord, VerifyProvenance, VerifySeal, WalkDisturbed,
           RenderItem, RenderAcquisition, RenderRecord, RenderFails, RenderGate, Boot, AwaitServer,
           VerifySources, VerifyLogs, VerifyJars, LiveTests, CleanUp, Capture, Interrupt, Kill
  <2> QED
    BY <2>1, <2>2
<1> QED
  BY <1>1, <1>2, <1>3 DEF Promising, Others

\* A step that passes, and starts or ends no process.
LEMMA UntroubledKept ==
  ASSUME TestTypes, NEW r \in Runs, Untroubled(r), Others(r), verdict'[r] # "failed",
         UNCHANGED <<serve, server, manifest, plan>>,
         pc'[r] \notin {"answer", "clear"},
         pc'[r] \in Cleared => pc[r] \in Cleared \cup {"clear"},
         pc'[r] \in Cleared \ {"installers", "index"} => pc[r] \in Cleared \ {"installers", "index"},
         pc'[r] \in Begun => pc[r] \in Begun
  PROVE  Untroubled(r)'
<1>1. Unchanged(r)' = Unchanged(r)
  BY DEF Others, Unchanged, ManifestValid
<1>2. \A q \in Runs \ {r} : ~Alive(q)'
  BY DEF Others, Untroubled, Alive, Active
<1> QED
  BY <1>1, <1>2 DEF Untroubled

\* The audits in such a directory, as the corpus wants them.
LEMMA OneNonce ==
  ASSUME TestInv, UndisturbedInv, NEW r \in Runs, Promising(r),
         \/ pc[r] = "seal"
         \/ pc[r] = "sources"
  PROVE  SealSources(r)
<1> DEFINE audits == Here(r).audits
<1>1. /\ Here(r).installed = plan[r] /\ plan[r] = manifest[r]
      /\ \A a \in Audits : audits[a] = AuditsAt(pc[r], r)[a]
  BY Promise DEF Sight, Untroubled
<1>2. DOMAIN audits = Audits
  BY Promise, HereTyped DEF IsDir
<1> HIDE DEF audits
<1>3. None \notin Range(audits) /\ Cardinality(Range(audits) \ {Canonical}) <= 1
      /\ (audits.item = Canonical) = (audits.gate = Canonical)
  <2>1. CASE pc[r] = "seal"
    <3>1. \A a \in Audits : audits[a] = Canonical
      BY <1>1, <2>1 DEF AuditsAt
    <3>2. Range(audits) \ {Canonical} = {} /\ None \notin Range(audits)
      BY <1>2, <3>1, ServerTestBounds DEF Range
    <3> QED
      BY <3>1, <3>2, FS_EmptySet
  <2>2. CASE pc[r] = "sources"
    <3>1. \A a \in Audits : audits[a] = r
      BY <1>1, <2>2 DEF AuditsAt
    <3>2. r # None /\ r # Canonical
      BY ServerTestBounds
    <3>3. Range(audits) \ {Canonical} = {r} /\ None \notin Range(audits)
      BY <1>2, <3>1, <3>2 DEF Range
    <3>4. Cardinality({r}) = 1
      BY FS_Singleton
    <3> QED
      BY <3>1, <3>2, <3>3, <3>4
  <2> QED
    BY <2>1, <2>2
<1>4. CodeCorpus(r)
  BY <1>1, <1>3, Promise DEF CodeCorpus, audits
<1>5. SealOccurrences(r)
  BY <1>1, Promise, ServerTestBounds DEF SealOccurrences, Kinds
<1> QED
  BY <1>4, <1>5 DEF SealSources

\* None of the checks of such a run fails ...
LEMMA InstallChecks ==
  ASSUME TestInv, UndisturbedInv, NEW r \in Runs, Promising(r)
  PROVE  /\ pc[r] = "port" => ~PortBusy
         /\ pc[r] \in {"answer", "clear"} => serve[r] # "none"
         /\ Unchanged(r)
         /\ pc[r] = "index" => PortBusy
         /\ pc[r] = "install" => \A part \in Parts :
              PortBusy /\ root[where[Holder]].files[part] = plan[r][part]
         /\ pc[r] = "provenance" => Locked(r) /\ InstallProven(r)
<1>1. pc[r] = "port" => ~PortBusy
  BY PortOwn, Promise DEF OwnInv, Started
<1>2. (pc[r] \in {"answer", "clear"} => serve[r] # "none") /\ Unchanged(r)
  BY Promise DEF Untroubled
<1>3. pc[r] \in {"index", "install"} => PortBusy /\ Holder = r
  BY PortOwn, Promise DEF Untroubled
<1>4. pc[r] \in {"install", "provenance"} => plan[r] = manifest[r]
  BY Promise DEF Untroubled
<1>5. pc[r] = "provenance" => /\ Here(r).installed = manifest[r] /\ Here(r).packwiz = manifest[r] /\ ~Here(r).saved
                              /\ \A a \in Audits : Here(r).audits[a] = Canonical
  <2>1. \A a \in Audits : AuditsAt("provenance", r)[a] = Canonical
    BY DEF AuditsAt
  <2>2. Sight(r)
    BY Promise
  <2> QED
    BY <1>4, <2>1, <2>2 DEF Sight
<1>6. pc[r] = "provenance" => Locked(r) /\ InstallProven(r)
  BY <1>5, Promise DEF Locked, InstallProven, RecordMatches, FilesMatch, AuditsCanonical
<1>7. pc[r] = "install" => \A part \in Parts :
              PortBusy /\ root[where[Holder]].files[part] = plan[r][part]
  BY <1>3, <1>4, Promise
<1> QED
  BY <1>1, <1>2, <1>3, <1>6, <1>7

\* ... not in the rendering ...
LEMMA RenderChecks ==
  ASSUME TestInv, UndisturbedInv, NEW r \in Runs, Promising(r)
  PROVE  /\ pc[r] = "seal" => SealSources(r)
         /\ pc[r] = "item" => AuditsCanonical(r) /\ Here(r).provenance = None
         /\ pc[r] = "acquisition" => Here(r).audits.acquisition # None
         /\ pc[r] = "record" => Here(r).audits.item = r /\ Here(r).audits.acquisition = r
         /\ pc[r] = "gate" => AuditsRendered(r) /\ Here(r).audits.gate = Canonical
         /\ pc[r] = "boot" => GateRendered(r)
<1>1. pc[r] = "seal" => SealSources(r)
  BY OneNonce
<1>2. pc[r] = "item" => AuditsCanonical(r) /\ Here(r).provenance = None
  BY Promise DEF Sight, AuditsAt, AuditsCanonical
<1>3. pc[r] = "acquisition" => Here(r).audits.acquisition # None
  BY Promise, ServerTestBounds DEF Sight, AuditsAt
<1>4. pc[r] = "record" => Here(r).audits.item = r /\ Here(r).audits.acquisition = r
  BY Promise DEF Sight, AuditsAt
<1>5. pc[r] = "gate" => AuditsRendered(r) /\ Here(r).audits.gate = Canonical
  BY Promise DEF Sight, AuditsAt, AuditsRendered
<1>6. pc[r] = "boot" => GateRendered(r)
  BY Promise DEF Sight, AuditsAt, GateRendered
<1> QED
  BY <1>1, <1>2, <1>3, <1>4, <1>5, <1>6

\* ... and not after the boot ...
LEMMA BootChecks ==
  ASSUME TestInv, LoggedInv, UndisturbedInv, NEW r \in Runs, Promising(r)
  PROVE  /\ pc[r] = "sources" => SourcesProven(r)
         /\ pc[r] = "logs" => RecordMatches(r) /\ JdtEvidence(r) /\ LogsProven(r)
         /\ pc[r] = "jars" => SableSource(r) /\ CompatSource(r)
<1>1. pc[r] \in {"sources", "logs", "jars"} =>
        /\ Here(r).installed = manifest[r] /\ Here(r).packwiz = manifest[r] /\ Here(r).runtime
        /\ Here(r).provenance = r /\ \A a \in Audits : Here(r).audits[a] = r
        /\ server[r] = "passed" /\ Here(r).status = [by |-> r, zero |-> server[r] = "passed"]
        /\ Logged(r)
  <2> SUFFICES ASSUME pc[r] \in {"sources", "logs", "jars"}
               PROVE  /\ Here(r).installed = manifest[r] /\ Here(r).packwiz = manifest[r] /\ Here(r).runtime
                      /\ Here(r).provenance = r /\ \A a \in Audits : Here(r).audits[a] = r
                      /\ server[r] = "passed" /\ Here(r).status = [by |-> r, zero |-> server[r] = "passed"]
                      /\ Logged(r)
    OBVIOUS
  <2>1. plan[r] = manifest[r] /\ server[r] # "failed"
    BY Promise DEF Untroubled
  <2>2. server[r] \in Ended
    BY Promise DEF OwnInv, Announced
  <2>3. \A a \in Audits : AuditsAt(pc[r], r)[a] = r
    BY DEF AuditsAt
  <2>4. Logged(r)
    BY Promise DEF LoggedInv
  <2> QED
    BY <2>1, <2>2, <2>3, <2>4, Promise DEF Sight
<1>2. pc[r] = "sources" => SourcesProven(r)
  BY <1>1, OneNonce, Promise DEF SourcesProven, QuestIdentity, GateRendered, AuditsRendered
<1>3. pc[r] = "logs" => RecordMatches(r) /\ JdtEvidence(r)
  BY <1>1, Promise DEF RecordMatches, JdtEvidence, JarsMatch
<1>4. pc[r] = "logs" => LogsProven(r)
  <2> SUFFICES ASSUME pc[r] = "logs" PROVE LogsProven(r)
    OBVIOUS
  <2>1. Here(r).log = [by |-> r, nonces |-> {r}, whole |-> TRUE]
    BY <1>1 DEF Logged
  <2>2. Here(r).log # None /\ Here(r).log.by = r
    BY <2>1, LogThere
  <2>3. Here(r).log.nonces = {r} /\ Here(r).log.whole
    BY <2>1
  <2>4. Here(r).status = [by |-> r, zero |-> TRUE]
    BY <1>1
  <2> QED
    BY <2>2, <2>3, <2>4 DEF LogsProven
<1>5. pc[r] = "jars" => SableSource(r) /\ CompatSource(r)
  BY <1>1, Promise DEF SableSource, CompatSource, JarsMatch, ArtifactsReviewed, MixinsReviewed
<1> QED
  BY <1>2, <1>3, <1>4, <1>5

\* ... so no step of its own troubles it.
LEMMA UntroubledWorld ==
  ASSUME TestTypes, NEW r \in Runs, Untroubled(r), Others(r), manifest' = manifest
  PROVE  Unchanged(r)' /\ \A q \in Runs \ {r} : ~Alive(q)'
<1>1. Unchanged(r)' = Unchanged(r)
  BY DEF Others, Unchanged, ManifestValid
<1>2. \A q \in Runs \ {r} : ~Alive(q)'
  BY DEF Others, Untroubled, Alive, Active
<1> QED
  BY <1>1, <1>2 DEF Untroubled

\* A check that is passed.
LEMMA CheckPasses ==
  ASSUME TestTypes, NEW r \in Runs, NEW label, NEW passed, NEW next, Check(r, label, passed, next), passed
  PROVE  pc[r] = label /\ pc'[r] = next /\ verdict'[r] = verdict[r]
  BY CheckOwn

\* A disturbance is noted.
LEMMA BlameSeen ==
  ASSUME TestTypes, NEW r \in Runs, NEW what, Blame(r, what) PROVE disturbed'[r] # {}
<1>1. what \in disturbed'[r]
  BY DEF Blame, TestTypes
<1> QED
  BY <1>1

\* The beginning: nobody else is there.
LEMMA BeginUntroubled ==
  ASSUME TestInv, NEW r \in Runs, Begin(r), Promising(r)' PROVE Untroubled(r)'
<1>1. TestTypes /\ Others(r) /\ pc[r] = "idle" /\ server[r] = "none" /\ verdict[r] = None
      /\ manifest[r] = None
  BY HarnessOthers DEF TestInv, Harness, Begin, OwnInv, Started
<1>2. /\ ManifestValid(where[r]) /\ pc'[r] = "port" /\ manifest'[r] = root[where[r]].index
      /\ verdict' = verdict /\ server' = server
  BY <1>1 DEF Begin, Promising, Goto, TestTypes
<1>3. Unchanged(r)'
  BY <1>1, <1>2 DEF Unchanged, ManifestValid, Others
<1>4. ASSUME NEW q \in Runs \ {r} PROVE ~Alive(q)'
  <2>1. disturbed'[r] = disturbed[r] \cup {Company(r, o) : o \in {o \in Runs \ {r} : Alive(o)}}
    BY DEF Begin
  <2>2. ~Alive(q)
    BY <1>4, <2>1 DEF Promising
  <2> QED
    BY <1>1, <1>4, <2>2 DEF Others, Alive, Active
<1> QED
  BY <1>1, <1>2, <1>3, <1>4, ServerTestBounds DEF Untroubled

\* Serve, port and answer, as nobody else holds the port.
LEMMA ServeUntroubled ==
  ASSUME TestInv, UndisturbedInv, NEW r \in Runs, Promising(r),
         StartServe(r) \/ AwaitAnswer(r) \/ CleanUp(r) \/ ServeBinds(r) \/ KillServe(r), Active(r)'
  PROVE  Untroubled(r)'
<1>1. TestTypes /\ Untroubled(r) /\ Others(r) /\ manifest' = manifest
  BY Promise, HarnessOthers, ProcessOthers
     DEF Harness, Process, StartServe, AwaitAnswer, CleanUp, ServeBinds, KillServe
<1>2. Unchanged(r)' /\ \A q \in Runs \ {r} : ~Alive(q)'
  BY <1>1, UntroubledWorld
<1>3. CASE StartServe(r)
  <2>1. pc[r] = "serve" /\ pc'[r] = "answer" /\ serve'[r] = "starting" /\ UNCHANGED <<server, verdict>>
    BY <1>1, <1>3 DEF StartServe, Goto, TestTypes
  <2> QED
    BY <1>1, <1>2, <2>1 DEF Untroubled
<1>4. CASE AwaitAnswer(r)
  <2>1. pc[r] = "answer" /\ pc'[r] = "clear" /\ serve[r] = "up" /\ verdict'[r] = verdict[r]
    <3>1. Check(r, "answer", serve[r] # "none", "clear") /\ (PortBusy \/ serve[r] = "none")
      BY <1>4 DEF AwaitAnswer
    <3>2. serve[r] # "none" /\ pc[r] = "answer"
      BY <1>1, <3>1, CheckOwn DEF Untroubled
    <3>3. serve[r] = "up"
      BY <3>1, <3>2, PortOwn
    <3> QED
      BY <1>1, <3>1, <3>2, <3>3, CheckPasses
  <2>2. UNCHANGED <<server, serve>>
    BY <1>4 DEF AwaitAnswer
  <2> QED
    BY <1>1, <1>2, <2>1, <2>2 DEF Untroubled
<1>5. CASE CleanUp(r)
  <2>1. pc'[r] = "capture" /\ verdict' = verdict
    BY <1>1, <1>5 DEF CleanUp, Goto, TestTypes
  <2> QED
    BY <1>1, <1>2, <2>1 DEF Untroubled
<1>6. CASE ServeBinds(r)
  <2>1. serve[r] = "starting" /\ serve'[r] = "up" /\ UNCHANGED <<server, verdict, pc, plan>>
    <3>1. serve[r] = "starting"
      BY <1>6 DEF ServeBinds
    <3>2. ~PortBusy
      BY <3>1, PortOwn
    <3> QED
      BY <1>1, <1>6, <3>1, <3>2 DEF ServeBinds, TestTypes
  <2> QED
    BY <1>1, <1>2, <2>1 DEF Untroubled
<1>7. CASE KillServe(r)
  BY <1>7 DEF KillServe, Active
<1> QED
  BY <1>3, <1>4, <1>5, <1>6, <1>7

\* The index that is read is that of the own checkout.
LEMMA ReadIndexUntroubled ==
  ASSUME TestInv, UndisturbedInv, NEW r \in Runs, Promising(r), ReadIndex(r) PROVE Untroubled(r)'
<1>1. TestTypes /\ Untroubled(r) /\ Others(r) /\ manifest' = manifest
  BY Promise, HarnessOthers DEF Harness, ReadIndex
<1>2. Unchanged(r)' /\ \A q \in Runs \ {r} : ~Alive(q)'
  BY <1>1, UntroubledWorld
<1>3. pc[r] = "index" /\ Check(r, "index", PortBusy, "install")
  BY <1>1, CheckOwn DEF ReadIndex
<1>4. PortBusy /\ Holder = r /\ serve[r] = "up"
  BY <1>3, InstallChecks, PortOwn
<1>5. pc'[r] = "install" /\ verdict'[r] = verdict[r]
  BY <1>1, <1>3, <1>4, CheckOwn
<1>6. plan'[r] = root[where[r]].index
  BY <1>1, <1>4 DEF ReadIndex, TestTypes
<1>7. plan'[r] = manifest[r] /\ UNCHANGED <<serve, server>>
  BY <1>1, <1>6 DEF Untroubled, Unchanged, ReadIndex
<1> QED
  BY <1>1, <1>2, <1>3, <1>4, <1>5, <1>7 DEF Untroubled

\* The boot finds the nonce in its script.
LEMMA BootUntroubled ==
  ASSUME TestInv, UndisturbedInv, NEW r \in Runs, Promising(r), Boot(r) PROVE Untroubled(r)'
<1>1. TestTypes /\ Untroubled(r) /\ Others(r) /\ manifest' = manifest
  BY Promise, HarnessOthers DEF Harness, Boot
<1>2. Unchanged(r)' /\ \A q \in Runs \ {r} : ~Alive(q)'
  BY <1>1, UntroubledWorld
<1>3. pc[r] = "boot" /\ pc'[r] = "running" /\ verdict'[r] = verdict[r] /\ UNCHANGED <<serve, plan>>
      /\ server'[r] = "starting"
  BY <1>1, CheckOwn, RenderChecks DEF Boot, TestTypes
<1> QED
  BY <1>1, <1>2, <1>3 DEF Untroubled

\* The server fails for no reason of its own.
LEMMA ServerUntroubled ==
  ASSUME TestInv, UndisturbedInv, NEW r \in Runs, Promising(r),
         ServerLoads(r) \/ ServerServes(r) \/ ServerStops(r) \/ ServerEnds(r), disturbed'[r] = {}
  PROVE  Untroubled(r)'
<1>1. TestTypes /\ OwnInv(r) /\ Untroubled(r) /\ Others(r) /\ Sight(r)
  BY Promise, ProcessOthers DEF Process
<1>2. UNCHANGED <<manifest, serve, plan, pc, verdict>>
  BY DEF ServerLoads, ServerServes, ServerStops, ServerEnds
<1>3. Unchanged(r)' /\ \A q \in Runs \ {r} : ~Alive(q)'
  BY <1>1, <1>2, UntroubledWorld
<1>4. pc[r] \in Begun => server'[r] # "failed"
  <2> SUFFICES ASSUME pc[r] \in Begun PROVE server'[r] # "failed"
    OBVIOUS
  <2>1. server[r] \in Running
    BY DEF ServerLoads, ServerServes, ServerStops, ServerEnds
  <2>2. pc[r] = "running"
    BY <1>1, <2>1, ServerAt
  <2>3. Here(r).installed = manifest[r] /\ Here(r).runtime
    BY <1>1, <2>2 DEF Sight, Untroubled
  <2>4. \A part \in Parts : manifest[r][part] # None
    BY Promise, ServerTestBounds DEF Versions
  <2>5. CASE ServerLoads(r)
    <3>1. None \notin Range(Here(r).installed)
      BY <2>3, <2>4, Promise DEF Range, Versions
    <3> QED
      BY <1>1, <2>3, <2>5, <3>1 DEF ServerLoads, TestTypes
  <2>6. CASE ServerServes(r)
    <3>1. server[r] = "loaded"
      BY <2>6 DEF ServerServes
    <3>2. ~GameBusy
      BY <3>1, Promise DEF GameBusy
    <3>3. Here(r).installed.data # None
      BY <2>3, <2>4
    <3> QED
      BY <1>1, <2>6, <3>2, <3>3 DEF ServerServes, TestTypes
  <2>7. CASE ServerStops(r)
    BY <1>1, <2>7 DEF ServerStops, Stopped, TestTypes
  <2>8. CASE ServerEnds(r)
    BY <1>1, <2>2, <2>8, BlameSeen DEF ServerEnds
  <2> QED
    BY <2>5, <2>6, <2>7, <2>8
<1> QED
  BY <1>1, <1>2, <1>3, <1>4 DEF Untroubled

\* The checks that pass, one by one.
LEMMA ReadUntroubled ==
  ASSUME TestInv, LoggedInv, UndisturbedInv, NEW r \in Runs, Promising(r),
         \/ CheckPort(r) \/ VerifyProvenance(r) \/ VerifySeal(r)
         \/ VerifySources(r) \/ VerifyLogs(r) \/ VerifyJars(r)
  PROVE  Untroubled(r)'
<1>1. TestTypes /\ Untroubled(r) /\ Others(r)
  BY Promise, HarnessOthers DEF Harness
<1>2. UNCHANGED <<serve, server, manifest, plan>>
  BY DEF CheckPort, VerifyProvenance, VerifySeal, VerifySources, VerifyLogs, VerifyJars
<1>3. /\ verdict'[r] = verdict[r]
      /\ \/ pc[r] = "port" /\ pc'[r] = "serve"
         \/ pc[r] = "provenance" /\ pc'[r] = "seal"
         \/ pc[r] = "seal" /\ pc'[r] = "item"
         \/ pc[r] = "sources" /\ pc'[r] = "logs"
         \/ pc[r] = "logs" /\ pc'[r] = "jars"
         \/ pc[r] = "jars" /\ pc'[r] = "live"
  <2>1. CASE CheckPort(r)
    BY <1>1, <2>1, CheckOwn, InstallChecks DEF CheckPort
  <2>2. CASE VerifyProvenance(r)
    BY <1>1, <2>2, CheckOwn, InstallChecks DEF VerifyProvenance
  <2>3. CASE VerifySeal(r)
    BY <1>1, <2>3, CheckOwn, RenderChecks DEF VerifySeal
  <2>4. CASE VerifySources(r)
    BY <1>1, <2>4, CheckOwn, BootChecks DEF VerifySources
  <2>5. CASE VerifyLogs(r)
    BY <1>1, <2>5, CheckOwn, BootChecks DEF VerifyLogs
  <2>6. CASE VerifyJars(r)
    BY <1>1, <2>6, CheckOwn, BootChecks DEF VerifyJars
  <2> QED
    BY <2>1, <2>2, <2>3, <2>4, <2>5, <2>6
<1> QED
  BY <1>1, <1>2, <1>3, UntroubledKept DEF Untroubled

\* Those that write, too.
LEMMA WriteUntroubled ==
  ASSUME TestInv, UndisturbedInv, NEW r \in Runs, Promising(r), disturbed'[r] = {},
         \/ ClearDirectory(r) \/ Installers(r) \/ InstallPart(r) \/ InstallRecord(r)
         \/ RenderItem(r) \/ RenderAcquisition(r) \/ RenderRecord(r) \/ RenderGate(r)
         \/ AwaitServer(r) \/ LiveTests(r)
  PROVE  Untroubled(r)'
<1>1. TestTypes /\ OwnInv(r) /\ Untroubled(r) /\ Others(r)
  BY Promise, HarnessOthers DEF Harness
<1>2. UNCHANGED <<serve, server, manifest, plan>>
  BY DEF ClearDirectory, Installers, InstallPart, InstallRecord, RenderItem, RenderAcquisition,
         RenderRecord, RenderGate, AwaitServer, LiveTests
<1>4. verdict[r] # "failed"
  BY <1>1 DEF Untroubled
<1>3. /\ verdict'[r] # "failed"
      /\ \/ pc[r] = "clear" /\ pc'[r] = "installers"
         \/ pc[r] = "installers" /\ pc'[r] = "index"
         \/ pc[r] = "install" /\ pc'[r] \in {"install", "provenance"}
         \/ pc[r] = "item" /\ pc'[r] = "acquisition"
         \/ pc[r] = "acquisition" /\ pc'[r] = "record"
         \/ pc[r] = "record" /\ pc'[r] = "gate"
         \/ pc[r] = "gate" /\ pc'[r] = "boot"
         \/ pc[r] = "running" /\ pc'[r] = "sources"
         \/ pc[r] = "live" /\ pc'[r] = "cleanup"
  <2>1. CASE ClearDirectory(r)
    BY <1>1, <2>1, CheckOwn, InstallChecks DEF ClearDirectory, Untroubled
  <2>2. CASE Installers(r)
    <3>1. cache # "bad"
      BY <1>1, <2>2, BlameSeen DEF Installers
    <3> QED
      BY <1>1, <2>2, <3>1, CheckOwn, InstallChecks DEF Installers, Untroubled
  <2>3. CASE InstallPart(r)
    <3>1. pc[r] = "install" /\ todo[r] # <<>>
      BY <2>3 DEF InstallPart, Check
    <3>2. Head(todo[r]) \in Parts
      BY <1>1, <3>1, SuffixSteps DEF TestTypes
    <3>3. PortBusy /\ root[where[Holder]].files[Head(todo[r])] = plan[r][Head(todo[r])]
      BY <3>1, <3>2, InstallChecks
    <3>4. Check(r, "install", TRUE, "install")
      BY <2>3, <3>3 DEF InstallPart, Check
    <3> QED
      BY <1>1, <3>1, <3>4, CheckOwn DEF Untroubled
  <2>4. CASE InstallRecord(r)
    <3>1. Check(r, "install", Unchanged(r), "provenance")
      BY <2>4 DEF InstallRecord
    <3>2. pc[r] = "install"
      BY <1>1, <3>1, CheckOwn
    <3>3. Unchanged(r)
      BY <3>2, InstallChecks
    <3> QED
      BY <1>1, <1>4, <3>1, <3>3, CheckPasses
  <2>5. CASE RenderItem(r)
    <3>1. Check(r, "item", AuditsCanonical(r) /\ Here(r).provenance = None, "acquisition")
      BY <2>5 DEF RenderItem
    <3>2. pc[r] = "item"
      BY <1>1, <3>1, CheckOwn
    <3>3. AuditsCanonical(r) /\ Here(r).provenance = None
      BY <3>2, RenderChecks
    <3> QED
      BY <1>1, <1>4, <3>1, <3>3, CheckPasses
  <2>6. CASE RenderAcquisition(r)
    <3>1. Check(r, "acquisition", Here(r).audits.acquisition # None, "record")
      BY <2>6 DEF RenderAcquisition
    <3>2. pc[r] = "acquisition"
      BY <1>1, <3>1, CheckOwn
    <3>3. Here(r).audits.acquisition # None
      BY <3>2, RenderChecks
    <3>4. Check(r, "acquisition", TRUE, "record")
      BY <3>1, <3>3 DEF Check
    <3> QED
      BY <1>1, <1>4, <3>4, CheckPasses
  <2>7. CASE RenderRecord(r)
    <3>1. Check(r, "record", Here(r).audits.item = r /\ Here(r).audits.acquisition = r, "gate")
      BY <2>7 DEF RenderRecord
    <3>2. pc[r] = "record"
      BY <1>1, <3>1, CheckOwn
    <3>3. Here(r).audits.item = r /\ Here(r).audits.acquisition = r
      BY <3>2, RenderChecks
    <3> QED
      BY <1>1, <1>4, <3>1, <3>3, CheckPasses
  <2>8. CASE RenderGate(r)
    <3>1. Check(r, "gate", AuditsRendered(r) /\ Here(r).audits.gate = Canonical, "boot")
      BY <2>8 DEF RenderGate
    <3>2. pc[r] = "gate"
      BY <1>1, <3>1, CheckOwn
    <3>3. AuditsRendered(r) /\ Here(r).audits.gate = Canonical
      BY <3>2, RenderChecks
    <3> QED
      BY <1>1, <1>4, <3>1, <3>3, CheckPasses
  <2>9. CASE AwaitServer(r)
    <3>1. Check(r, "running", Unchanged(r), "sources")
      BY <2>9 DEF AwaitServer
    <3>2. pc[r] = "running"
      BY <1>1, <3>1, CheckOwn
    <3>3. Unchanged(r)
      BY <3>2, InstallChecks
    <3> QED
      BY <1>1, <1>4, <3>1, <3>3, CheckPasses
  <2>10. CASE LiveTests(r)
    BY <1>1, <2>10, InstallChecks DEF LiveTests, Goto, TestTypes
  <2> QED
    BY <2>1, <2>2, <2>3, <2>4, <2>5, <2>6, <2>7, <2>8, <2>9, <2>10
<1> QED
  BY <1>1, <1>2, <1>3, UntroubledKept

\* All of them together.
LEMMA UndisturbedOwn ==
  ASSUME TestInv, LoggedInv, UndisturbedInv, NEW r \in Runs, Harness(r) \/ Process(r), Promising(r)'
  PROVE  Untroubled(r)'
<1>1. CASE Begin(r)
  BY <1>1, BeginUntroubled
<1>2. CASE ~Begin(r)
  <2>1. Promising(r) /\ TestTypes /\ Active(r)' /\ disturbed'[r] = {}
    BY <1>2, PromisingBefore DEF TestInv, Promising
  <2>2. ~(RenderFails(r) \/ Interrupt(r))
    BY <2>1, BlameSeen DEF RenderFails, Interrupt
  <2>3. ~WalkDisturbed(r)
    BY <2>1, Promise DEF WalkDisturbed, Untroubled
  <2>4. ~(Capture(r) \/ Kill(r))
    BY <2>1 DEF Capture, Kill, Goto, Active, TestTypes
  <2> QED
    BY <1>2, <2>1, <2>2, <2>3, <2>4, ServeUntroubled, ReadIndexUntroubled, BootUntroubled,
       ServerUntroubled, ReadUntroubled, WriteUntroubled DEF Harness, Process
<1> QED
  BY <1>1, <1>2

\* While a run is undisturbed nobody else takes a step.
LEMMA UndisturbedOthers ==
  ASSUME TestInv, UndisturbedInv, NEW r \in Runs, Harness(r) \/ Process(r),
         NEW q \in Runs, q # r, Promising(q)'
  PROVE  FALSE
<1>1. TestTypes /\ Others(r)
  BY HarnessOthers, ProcessOthers DEF TestInv
<1>2. Promising(q)
  BY <1>1 DEF Promising, Active, Others
<1>3. ~Alive(r)
  BY <1>2, Promise DEF Untroubled
<1>4. Begin(r)
  BY <1>1, <1>3, HarnessActs, ProcessActs DEF Alive
<1>5. disturbed'[q] = disturbed[q] \cup {Company(r, q)}
  BY <1>2, <1>4 DEF Begin, Promising
<1> QED
  BY <1>5 DEF Promising

\* So no step troubles an undisturbed run.
LEMMA UndisturbedSteps ==
  ASSUME TestInv, LoggedInv, UndisturbedInv, NEW r \in Runs, Harness(r) \/ Process(r)
  PROVE  UndisturbedInv'
<1> SUFFICES ASSUME NEW q \in Runs, Promising(q)' PROVE Untroubled(q)'
  BY DEF UndisturbedInv
<1> QED
  BY UndisturbedOwn, UndisturbedOthers

\* A refusal that nothing else explains.
LEMMA RefusalSteps ==
  ASSUME TestInv, RefusalIsEarned, NEW r \in Runs, Harness(r) \/ Process(r), UndisturbedInv'
  PROVE  RefusalIsEarned'
<1>1. TestTypes /\ Others(r)
  BY HarnessOthers, ProcessOthers DEF TestInv
<1> SUFFICES ASSUME NEW q \in Runs, verdict'[q] = "failed"
             PROVE  disturbed'[q] # {} \/ manifest'[q] = None \/ ~Acceptable(manifest'[q])
  BY DEF RefusalIsEarned
<1>2. CASE Active(q)'
  BY <1>2 DEF UndisturbedInv, Promising, Untroubled
<1>3. CASE ~Active(q)'
  <2>1. verdict'[q] = verdict[q] /\ manifest'[q] = manifest[q]
    <3>1. CASE q # r
      BY <1>1, <3>1 DEF Others
    <3>2. CASE q = r
      <4>1. CASE Process(r)
        BY <3>2, <4>1 DEF Process, ServeBinds, KillServe, ServerLoads, ServerServes, ServerStops, ServerEnds
      <4>2. CASE Capture(r) \/ Kill(r)
        BY <3>2, <4>2 DEF Capture, Kill
      <4>3. CASE Harness(r) /\ ~Capture(r) /\ ~Kill(r)
        <5>1. ASSUME NEW label, NEW passed, NEW next, next \notin {"done", "dead", "idle"},
                     Check(r, label, passed, next)
              PROVE  FALSE
          BY <1>1, <1>3, <3>2, <5>1, CheckOwn DEF Active
        <5>2. ~(Begin(r) \/ StartServe(r) \/ WalkDisturbed(r) \/ RenderFails(r) \/ LiveTests(r)
                \/ CleanUp(r) \/ Interrupt(r))
          BY <1>1, <1>3, <3>2 DEF Begin, StartServe, WalkDisturbed, RenderFails, LiveTests, CleanUp,
             Interrupt, Refuse, Goto, TestTypes, Active
        <5> QED
          BY <4>3, <5>1, <5>2 DEF Harness, CheckPort, AwaitAnswer, ClearDirectory, Installers, ReadIndex,
             InstallPart, InstallRecord, VerifyProvenance, VerifySeal, RenderItem, RenderAcquisition,
             RenderRecord, RenderGate, Boot, AwaitServer, VerifySources, VerifyLogs, VerifyJars
      <4> QED
        BY <4>1, <4>2, <4>3
    <3> QED
      BY <3>1, <3>2
  <2> QED
    BY <1>1, <2>1 DEF Others, RefusalIsEarned
<1> QED
  BY <1>2, <1>3

\* An edit disturbs whom it concerns.
LEMMA EditRefusal ==
  ASSUME RefusalInv, NEW c \in Checkouts, NEW p \in Drafts, NEW refreshed \in BOOLEAN,
         Edit(c, p, refreshed)
  PROVE  LoggedInv' /\ UndisturbedInv' /\ RefusalIsEarned'
<1>1. /\ UNCHANGED <<dir, cache, serve, server, ran, harness, evidence, faults>>
      /\ \A q \in Runs : disturbed[q] \subseteq disturbed'[q]
      /\ \A d \in Checkouts \ {c} : root'[d] = root[d]
  BY DEF RefusalInv, TestInv, Edit, Touched, TestTypes
<1>2. LoggedInv'
  BY <1>1 DEF RefusalInv, LoggedInv, Logged, Here, Alone, Active
<1>3. ASSUME NEW r \in Runs, Promising(r)' PROVE Untroubled(r)'
  <2>1. Promising(r)
    BY <1>1, <1>3 DEF Promising, Active
  <2>2. where[r] # c
    BY <1>1, <1>3 DEF Edit, Touched, Promising, Active
  <2>3. where[r] \in Checkouts
    BY DEF RefusalInv, TestInv, TestTypes
  <2>4. Unchanged(r)' = Unchanged(r)
    BY <1>1, <2>2, <2>3 DEF Unchanged, ManifestValid
  <2> QED
    BY <1>1, <2>1, <2>4 DEF RefusalInv, UndisturbedInv, Untroubled, Alive, Active
<1>4. UndisturbedInv'
  BY <1>3 DEF UndisturbedInv
<1>5. RefusalIsEarned'
  BY <1>1 DEF RefusalInv, RefusalIsEarned
<1> QED
  BY <1>2, <1>4, <1>5

\* The cache is checked by its own step.
LEMMA StutterRefusal ==
  ASSUME RefusalInv, UNCHANGED <<root, dir, serve, server, ran, harness, evidence, disturbed, edits>>
  PROVE  LoggedInv' /\ UndisturbedInv' /\ RefusalIsEarned'
<1>1. LoggedInv'
  BY DEF RefusalInv, LoggedInv, Logged, Here, Alone, Active
<1>2. \A r \in Runs : Unchanged(r)' = Unchanged(r)
  BY DEF Unchanged, ManifestValid
<1>3. UndisturbedInv'
  BY <1>2 DEF RefusalInv, UndisturbedInv, Promising, Untroubled, Alive, Active
<1>4. RefusalIsEarned'
  BY DEF RefusalInv, RefusalIsEarned
<1> QED
  BY <1>1, <1>3, <1>4

\* The invariant with the undisturbed runs is kept by every step ...
LEMMA RefusalInvSteps == RefusalInv /\ [Next]_vars => RefusalInv'
<1> SUFFICES ASSUME RefusalInv, [Next]_vars PROVE LoggedInv' /\ UndisturbedInv' /\ RefusalIsEarned'
  BY TestSteps DEF RefusalInv
<1>1. ASSUME NEW r \in Runs, Harness(r) \/ Process(r)
      PROVE  LoggedInv' /\ UndisturbedInv' /\ RefusalIsEarned'
  <2>1. LoggedInv' /\ UndisturbedInv'
    BY <1>1, LoggedSteps, UndisturbedSteps DEF RefusalInv
  <2> QED
    BY <1>1, <2>1, RefusalSteps DEF RefusalInv
<1>2. ASSUME NEW c \in Checkouts, NEW p \in Drafts, NEW refreshed \in BOOLEAN, Edit(c, p, refreshed)
      PROVE  LoggedInv' /\ UndisturbedInv' /\ RefusalIsEarned'
  BY <1>2, EditRefusal
<1>3. CASE CacheTorn
  BY <1>3, StutterRefusal DEF CacheTorn
<1>4. CASE UNCHANGED vars
  BY <1>4, StutterRefusal DEF vars
<1> QED
  BY <1>1, <1>2, <1>3, <1>4 DEF Next

\* ... and holds at the beginning.
LEMMA InitRefusal == Init => RefusalInv
<1> SUFFICES ASSUME Init PROVE RefusalInv
  OBVIOUS
<1>1. \A r \in Runs : ~Active(r) /\ verdict[r] # "failed"
  BY ServerTestBounds DEF Init, Active
<1> QED
  BY <1>1, InitTest DEF RefusalInv, LoggedInv, Alone, UndisturbedInv, Promising, RefusalIsEarned

\* A run that nobody disturbs and whose version is reviewed is not refused, whatever
\* killed runs have left behind.
THEOREM RefusalIsEarnedHolds == Spec => []RefusalIsEarned
<1>1. RefusalInv => RefusalIsEarned
  BY DEF RefusalInv
<1> HIDE DEF RefusalInv, RefusalIsEarned, Init, Next, vars
<1> QED
  BY <1>1, InitRefusal, RefusalInvSteps, PTL DEF Spec

=============================================================================
