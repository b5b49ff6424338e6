------------------------------ MODULE SealScan ------------------------------
(***************************************************************************)
(* The scan that proves the Ascendancy Seal to be mentioned only where the *)
(* review saw it (tools/rc_hygiene.py, verify_seal_sources, of one tree):  *)
(* the code is authenticated, the labels of the jars are read, the tree is *)
(* walked, and every file is searched, through archives in archives and    *)
(* compressed payloads, within shared budgets. Somebody writes the files   *)
(* while it runs.                                                          *)
(*                                                                         *)
(* A payload is a tree. Of a text the model keeps which tokens stand in    *)
(* each of its chunks of 1 MiB, and one chunk counts as one unit of size.  *)
(***************************************************************************)
EXTENDS Integers, FiniteSets, Sequences, SequencesExt

CONSTANTS
  Files,      \* below the scanned roots
  Suffix,     \* Suffix[f]: "jar", "code", "json", "snbt" or "data"
  ItemAudit,  \* the one code file of which the digest leaves out the item list
  Trees,      \* what the files may be at first
  Drafts,     \* Drafts[f]: what a write may make of f
  Metas,      \* the sets of metadata files: each a set of [label, jar]
  Authentic,  \* the digests of the code files
  Duplicates, \* the reviewed ones: a set of [label, member, count, content]
  None,
  MaxDepth, MaxMembers, MaxTotalMembers, MaxSize, MaxExpanded, MaxTotalExpanded,
  MaxOccurrences, MaxCode,   \* the limits of the code
  MaxWrites                  \* bound on writes

Tokens == {"literal",    \* ascendancy_seal inside a string
           "comment",    \* the same outside of any
           "listed",     \* the same in the item list of the audit
           "symbol",     \* AFTERLIGHT.SEAL
           "escaped",    \* ascendancy_seal with a \u in it
           "unicode",    \* some other \u
           "signature",  \* of a zip, neither first nor in the tail
           "garbled"}    \* not UTF-8

ASSUME SealScanBounds ==
  /\ IsFiniteSet(Files) /\ ItemAudit \in Files /\ Suffix[ItemAudit] = "code"
  /\ \A n \in {MaxDepth, MaxMembers, MaxTotalMembers, MaxSize, MaxExpanded, MaxTotalExpanded,
               MaxOccurrences, MaxCode, MaxWrites} : n \in Nat

VARIABLES
  content, stamp,  \* of each file; the stamp is its identity as stat shows it
  settled,         \* the files whose next write will change that identity
  reviewed,        \* the mentions the review has seen
  meta,            \* the metadata files
  pc, verdict,
  label,           \* label[f]: the name under which the review knows f
  queue,           \* the files listed and not yet opened, with their stamps
  open,            \* the open file: its name, stamp and content at the first hash
  stack,           \* what is left to do in it, innermost first
  found, members, expanded, code,   \* what is counted
  closed,          \* history: closed[f] is what f was when it passed
  touched,         \* history: the files written while the scan ran
  blurred,         \* history: those written twice behind one identity
  writes

disk  == <<content, stamp, settled, touched, blurred, writes>>
given == <<reviewed, meta>>
count == <<found, members, expanded, code>>
vars  == <<disk, given, pc, verdict, label, queue, open, stack, count, closed>>

Size(p) == CASE p.form = "plain" -> Len(p.chunks) [] OTHER -> 1
Text(p) == UNION ToSet(p.chunks)

-----------------------------------------------------------------------------
(* What a mention is: a reference, by recursion over the tree.              *)

\* Which tokens mention the Seal, to the program that reads such a file.
Speaks == [json |-> {"literal", "escaped"}, snbt |-> {"literal"},
           code |-> {"literal", "listed", "comment", "symbol"},
           data |-> {"literal", "comment", "symbol"}, jar |-> {}]

RECURSIVE Mentions(_, _, _)
Mentions(path, suffix, p) ==
  CASE p.form = "plain" ->
         UNION {{<<path, i, t>> : t \in p.chunks[i] \cap Speaks[suffix]} : i \in DOMAIN p.chunks}
    [] p.form = "zip" ->
         UNION {Mentions(Append(path, m.name), m.suffix, m.content) : m \in ToSet(p.members)}
    [] p.form = "packed" ->
         Mentions(Append(path, "inside"), "data", p.inside)
           \cup IF p.trailing = None THEN {}
                ELSE Mentions(Append(path, "trailing"), "data", p.trailing)

\* The containers one has to open to get to the bottom.
RECURSIVE Nesting(_)
Nesting(p) ==
  LET deepest(S) == IF S = {} THEN 0 ELSE CHOOSE n \in S : \A k \in S : k <= n
  IN CASE p.form = "plain"  -> 0
       [] p.form = "zip"    -> 1 + deepest({Nesting(m.content) : m \in ToSet(p.members)})
       [] p.form = "packed" -> 1 + deepest({Nesting(q) : q \in {p.inside, p.trailing} \ {None}})

-----------------------------------------------------------------------------
(* Reading a payload.                                                       *)

\* The end record of a zip: there must be one, and it must agree with what it
\* describes. "none" is a payload that is no zip.
EndRecord(p) ==
  IF p.form # "zip" THEN "none" ELSE IF p.ends = 1 /\ p.located THEN "sound" ELSE "unsound"

\* _seal_zip_preflight: a zip, none, or a refusal. The directory must hold as
\* many entries as the end record declares.
Preflight(p, required) ==
  CASE EndRecord(p) = "none"    -> IF required THEN "refused" ELSE "none"
    [] EndRecord(p) = "unsound" -> "refused"
    [] OTHER -> IF p.declared = Len(p.members) /\ p.declared <= MaxMembers THEN "zip" ELSE "refused"

\* What a text of each kind gives: the tokens reported, chunk by chunk, or None
\* for a refusal.
Report(p, S) == [i \in DOMAIN p.chunks |-> p.chunks[i] \cap S]
Silent(p)    == Report(p, {})
Literals     == {"literal", "comment", "listed"}

ReadJson(p) ==
  IF Text(p) \cap (Literals \cup {"escaped", "unicode"}) = {} THEN Silent(p)
  ELSE IF "garbled" \in Text(p) THEN None
  ELSE IF Text(p) \cap (Literals \cup {"escaped"}) = {} THEN Silent(p)
  ELSE IF "comment" \in Text(p) THEN None
  ELSE Report(p, {"literal", "escaped"})

\* The semantic mentions must be as many as the textual ones.
ReadSnbt(p) ==
  IF Text(p) \cap Literals = {} THEN Silent(p)
  ELSE IF "garbled" \in Text(p) \/ "comment" \in Text(p) THEN None
  ELSE Report(p, {"literal"})

ReadCode(p) ==
  IF "garbled" \in Text(p)
  THEN IF Text(p) \cap (Literals \cup {"symbol"}) = {} THEN Silent(p) ELSE None
  ELSE Report(p, Literals \cup {"symbol"})

ReadText(suffix, p) ==
  CASE suffix = "json" -> ReadJson(p)
    [] suffix = "snbt" -> ReadSnbt(p)
    [] suffix = "code" -> ReadCode(p)
    [] OTHER           -> Report(p, Literals \cup {"symbol"})

\* stream_member_flags: what makes a member worth reading, up to and with the
\* first chunk in which anything does.
Needles(suffix) ==
  Literals \cup {"symbol"} \cup IF suffix = "json" THEN {"escaped", "unicode"} ELSE {}
Flags(suffix, p) ==
  CASE p.form = "zip"    -> {"archive"}
    [] p.form = "packed" -> {"compressed"}
    [] OTHER ->
       LET seal(i) == p.chunks[i] \cap Needles(suffix) # {}
           zip(i)  == "signature" \in p.chunks[i]
           hits    == {i \in DOMAIN p.chunks : seal(i) \/ zip(i)}
           first   == CHOOSE i \in hits : \A k \in hits : i <= k
       IN IF hits = {} THEN {}
          ELSE {f \in {"seal", "archive"} : IF f = "seal" THEN seal(first) ELSE zip(first)}

\* _seal_code_digest_payload: the item list of the audit is not digested.
DigestPayload(f, p) ==
  IF f # ItemAudit \/ p.form # "plain" THEN p
  ELSE [p EXCEPT !.chunks = [i \in DOMAIN @ |-> @[i] \ {"listed"}]]

-----------------------------------------------------------------------------
(* The scan.                                                                *)

Init ==
  /\ content \in Trees
  /\ stamp = [f \in Files |-> 0]
  /\ settled \in {Files, {}}
  /\ meta \in Metas
  /\ reviewed \in {UNION {Mentions(<<f>>, Suffix[f], content[f]) : f \in S} : S \in {Files, {ItemAudit}}}
  /\ pc = "code" /\ verdict = None
  /\ label = [f \in Files |-> <<f>>]
  /\ queue = <<>> /\ open = None /\ stack = <<>>
  /\ found = <<>> /\ members = 0 /\ expanded = 0 /\ code = 0
  /\ closed = [f \in Files |-> None]
  /\ touched = {} /\ blurred = {} /\ writes = 0

Refuse == pc' = "done" /\ verdict' = "refused" /\ stack' = <<>> /\ open' = None
Go(next) == pc' = next /\ UNCHANGED verdict

\* _verify_seal_code_corpus: the code of the tree is the reviewed one.
Inventory ==
  /\ pc = "code"
  /\ IF \A f \in DOMAIN Authentic : content[f] # None /\ DigestPayload(f, content[f]) = Authentic[f]
     THEN Go("labels") /\ UNCHANGED <<stack, open>> ELSE Refuse
  /\ UNCHANGED <<disk, given, label, queue, count, closed>>

\* _seal_archive_review_labels: the metadata name each jar once.
ReadLabels ==
  LET jars == {m.jar : m \in meta} IN
  /\ pc = "labels"
  /\ IF Cardinality(jars) = Cardinality(meta)
     THEN /\ Go("walk")
          /\ label' = [f \in Files |->
                         IF f \in jars THEN <<(CHOOSE m \in meta : m.jar = f).label>> ELSE <<f>>]
          /\ UNCHANGED <<stack, open>>
     ELSE Refuse /\ UNCHANGED label
  /\ UNCHANGED <<disk, given, queue, count, closed>>

Listed == {f \in Files : content[f] # None}

Walk ==
  /\ pc = "walk"
  /\ Go("scan")
  /\ queue' = [i \in 1..Cardinality(Listed) |->
                 LET f == SetToSeq(Listed)[i] IN [file |-> f, stamp |-> stamp[f]]]
  /\ UNCHANGED <<disk, given, label, open, stack, count, closed>>

Payload(path, suffix, name, p, depth) ==
  [op |-> "payload", path |-> path, suffix |-> suffix, label |-> name, p |-> p, depth |-> depth]
Archive(path, name, p, depth) ==
  [op |-> "archive", path |-> path, suffix |-> "jar", label |-> name, p |-> p, depth |-> depth]
Member(path, suffix, name, p, depth, alias) ==
  [op |-> IF alias THEN "alias" ELSE "member",
   path |-> path, suffix |-> suffix, label |-> name, p |-> p, depth |-> depth]

\* The file must be the one that was listed; a zip is read from it on demand.
OpenFile ==
  LET f    == Head(queue).file
      p    == content[f]
      pre  == Preflight(p, Suffix[f] = "jar")
      more == IF Suffix[f] = "code" THEN Size(p) ELSE 0
  IN
  /\ pc = "scan" /\ open = None /\ queue # <<>>
  /\ IF \/ p = None \/ stamp[f] # Head(queue).stamp \/ pre = "refused"
        \/ pre # "zip" /\ Size(p) > MaxSize
        \/ code + more > MaxCode
     THEN Refuse /\ UNCHANGED <<queue, code>>
     ELSE /\ open' = [file |-> f, stamp |-> stamp[f], hash |-> p]
          /\ stack' = <<IF pre = "zip" THEN Archive(<<f>>, label[f], p, 1)
                        ELSE Payload(<<f>>, Suffix[f], <<f>>, p, 0)>>
          /\ queue' = Tail(queue)
          /\ code' = code + more
          /\ UNCHANGED <<pc, verdict>>
  /\ UNCHANGED <<disk, given, label, found, members, expanded, closed>>

\* Mutant: the identity alone is compared.
CloseFileByIdentity ==
  LET f == open.file IN
  /\ open # None /\ stack = <<>>
  /\ IF content[f] # None /\ stamp[f] = open.stamp
     THEN /\ open' = None
          /\ closed' = [closed EXCEPT ![f] = content[f]]
          /\ UNCHANGED <<pc, verdict, stack>>
     ELSE Refuse /\ UNCHANGED closed
  /\ UNCHANGED <<disk, given, label, queue, count>>

\* The hash and the identity, of the descriptor and of the name, are compared.
CloseFile ==
  LET f == open.file IN
  /\ open # None /\ stack = <<>>
  /\ IF content[f] = open.hash /\ stamp[f] = open.stamp
     THEN /\ open' = None
          /\ closed' = [closed EXCEPT ![f] = content[f]]
          /\ UNCHANGED <<pc, verdict, stack>>
     ELSE Refuse /\ UNCHANGED closed
  /\ UNCHANGED <<disk, given, label, queue, count>>

Top == Head(stack)
Replace(tasks) == stack' = tasks \o Tail(stack) /\ UNCHANGED <<pc, verdict, open>>
Scanning(op) == stack # <<>> /\ Top.op = op
outer == <<disk, given, label, queue, code, closed>>

\* record_occurrences: one entry per mention.
Record(report) ==
  LET new == UNION {{<<Top.path, i, t>> : t \in report[i]} : i \in DOMAIN report} IN
  IF Len(found) + Cardinality(new) > MaxOccurrences
  THEN Refuse /\ UNCHANGED found
  ELSE Replace(<<>>) /\ found' = found \o SetToSeq(new)

\* scan_payload, of what is no zip and not compressed.
ScanText ==
  LET report == ReadText(Top.suffix, Top.p) IN
  /\ Scanning("payload") /\ Top.p.form = "plain" /\ Top.depth <= MaxDepth
  /\ IF report = None THEN Refuse /\ UNCHANGED found ELSE Record(report)
  /\ UNCHANGED <<outer, members, expanded>>

\* What is compressed is charged and searched, and what stands behind it too.
Unpacked(t) ==
  <<Payload(Append(t.path, "inside"), "data", t.label, t.p.inside, t.depth + 1)>>
    \o IF t.p.trailing = None THEN <<>>
       ELSE <<Payload(Append(t.path, "trailing"), "data", t.label, t.p.trailing, t.depth + 1)>>

\* account_compressed_payload.
Affordable(size) == size <= MaxSize /\ expanded + size <= MaxTotalExpanded

ScanPacked ==
  LET size == Size(Top.p.inside) IN
  /\ Scanning("payload") /\ Top.p.form = "packed" /\ Top.depth <= MaxDepth
  /\ expanded' = expanded + size
  /\ IF Top.p.whole /\ Affordable(size) THEN Replace(Unpacked(Top)) ELSE Refuse
  /\ UNCHANGED <<outer, found, members>>

\* A payload that is a zip, whatever its name.
ScanZip ==
  /\ Scanning("payload") /\ Top.p.form = "zip" /\ Top.depth <= MaxDepth
  /\ IF Preflight(Top.p, FALSE) = "refused" THEN Refuse
     ELSE Replace(<<Archive(Top.path, Top.label, Top.p, Top.depth + 1)>>)
  /\ UNCHANGED <<outer, found, members, expanded>>

TooDeep ==
  /\ stack # <<>> /\ Top.op \in {"payload", "archive"} /\ Top.depth > MaxDepth
  /\ Refuse
  /\ UNCHANGED <<outer, found, members, expanded>>

\* Members of one name must be a reviewed exception, and aliases of one entry.
Namesakes(p, name) == SelectSeq(p.members, LAMBDA m : m.name = name)
Unrepeated(p, name) == Len(Namesakes(p, name)) = 1
ReviewedDuplicate(archive, p, name) ==
  LET same == Namesakes(p, name) IN
  /\ Cardinality(ToSet(same)) = 1
  /\ [label |-> archive, member |-> name, count |-> Len(same), content |-> Head(same).content] \in Duplicates

Names(p) == {m.name : m \in ToSet(p.members)}
SizeOf(p) == FoldSeq(LAMBDA m, n : Size(m.content) + n, 0, p.members)

\* Mutant: every entry is searched.
MembersOfEach(t) ==
  [i \in DOMAIN t.p.members |->
     LET m == t.p.members[i]
     IN Member(Append(t.path, m.name), m.suffix, Append(t.label, m.name), m.content, t.depth, FALSE)]

\* Each name is searched once.
MembersOf(t) ==
  [i \in 1..Cardinality(Names(t.p)) |->
     LET name == SetToSeq(Names(t.p))[i]
         m    == Head(Namesakes(t.p, name))
     IN Member(Append(t.path, name), m.suffix, Append(t.label, name), m.content, t.depth,
               ~Unrepeated(t.p, name))]

\* scan_archive, up to its members.
ScanArchive ==
  LET p == Top.p IN
  /\ Scanning("archive") /\ Top.depth <= MaxDepth
  /\ members' = members + Len(p.members)
  /\ expanded' = expanded + SizeOf(p)
  /\ IF \/ members + Len(p.members) > MaxTotalMembers
        \/ \E m \in ToSet(p.members) : Size(m.content) > MaxSize
        \/ SizeOf(p) > MaxExpanded \/ expanded + SizeOf(p) > MaxTotalExpanded
        \/ \E name \in Names(p) : ~Unrepeated(p, name) /\ ~ReviewedDuplicate(Top.label, p, name)
        \/ \E m \in ToSet(p.members) : ~m.safe
     THEN Refuse ELSE Replace(MembersOf(Top))
  /\ UNCHANGED <<outer, found>>

Inner(t) == Archive(t.path, t.label, t.p, t.depth + 1)
AsPayload(t) == Payload(t.path, t.suffix, t.label, t.p, t.depth)

\* scan_archive, a member: one that is called a jar must be one, and any other
\* is searched as far as its bytes give reason to.
ScanMember ==
  LET declared == Top.suffix = "jar"
      flags    == CASE declared                        -> {}
                    [] ~declared /\ Top.op = "alias"  -> {"archive", "seal"}
                    [] ~declared /\ Top.op = "member" -> Flags(Top.suffix, Top.p)
      pre      == Preflight(Top.p, declared)
  IN
  /\ stack # <<>> /\ Top.op \in {"member", "alias"}
  /\ CASE declared            -> IF pre = "zip" THEN Replace(<<Inner(Top)>>) ELSE Refuse
       [] "archive" \in flags -> IF pre = "zip" THEN Replace(<<Inner(Top)>>)
                                 ELSE IF pre = "refused" THEN Refuse
                                 ELSE Replace(IF flags = {"archive"} THEN <<>> ELSE <<AsPayload(Top)>>)
       [] OTHER               -> Replace(IF flags = {} THEN <<>> ELSE <<AsPayload(Top)>>)
  /\ UNCHANGED <<outer, found, members, expanded>>

\* The mentions found must be those of the review, each as often.
Compare ==
  /\ pc = "scan" /\ open = None /\ queue = <<>>
  /\ IF ToSet(found) = reviewed /\ Len(found) = Cardinality(reviewed)
     THEN pc' = "done" /\ verdict' = "ok" /\ UNCHANGED <<stack, open>>
     ELSE Refuse
  /\ UNCHANGED <<disk, given, label, queue, count, closed>>

-----------------------------------------------------------------------------
(* Somebody writes.                                                         *)

\* The clock of the file system ticks: the next write to any file shows.
ClockTicks ==
  /\ settled # Files /\ pc # "done"
  /\ settled' = Files
  /\ UNCHANGED <<content, stamp, touched, blurred, writes, given, pc, verdict, label, queue, open,
                 stack, count, closed>>

\* A write or a removal. Within the tick of the last one, a write in place leaves
\* the identity as it was; what is read of the open file from now on is what was
\* written, in which there may be nothing to find.
Write(f, c) ==
  LET hidden  == f \notin settled /\ c # None /\ content[f] # None
      reading == hidden /\ open # None /\ open.file = f
  IN
  /\ pc # "done" /\ writes < MaxWrites /\ c # content[f]
  /\ writes' = writes + 1
  /\ touched' = touched \cup {f}
  /\ content' = [content EXCEPT ![f] = c]
  /\ stamp' = IF hidden THEN stamp ELSE [stamp EXCEPT ![f] = @ + 1]
  /\ settled' = settled \ {f}
  /\ stack' \in {stack} \cup IF reading /\ stack # <<>> THEN {<<>>} ELSE {}
  /\ blurred' = IF reading /\ c = open.hash THEN blurred \cup {f} ELSE blurred
  /\ UNCHANGED <<given, pc, verdict, label, queue, open, count, closed>>

Next ==
  \/ Inventory \/ ReadLabels \/ Walk \/ OpenFile \/ CloseFile
  \/ ScanText \/ ScanPacked \/ ScanZip \/ TooDeep \/ ScanArchive \/ ScanMember \/ Compare
  \/ ClockTicks \/ \E f \in Files : \E c \in Drafts[f] : Write(f, c)

Spec == Init /\ [][Next]_vars

-----------------------------------------------------------------------------

\* A member of more than one chunk that looks like a zip before anything in it
\* looks like the Seal, and is none: it is not searched any further.
Shadowed(suffix, p) ==
  \E i \in DOMAIN p.chunks :
    /\ "signature" \in p.chunks[i]
    /\ \A k \in 1..i : p.chunks[k] \cap Needles(suffix) = {}
RECURSIVE HasShadow(_)
HasShadow(p) ==
  CASE p.form = "plain"  -> FALSE
    [] p.form = "zip"    -> \E m \in ToSet(p.members) :
                              \/ m.content.form = "plain" /\ Shadowed(m.suffix, m.content)
                              \/ HasShadow(m.content)
    [] p.form = "packed" -> \E q \in {p.inside, p.trailing} \ {None} : HasShadow(q)

\* An accepted tree mentions the Seal where the review saw it and nowhere else,
\* however deep the mention lies, in each file as it was when the scan left it;
\* and no file that stayed as it was is left out. Excepted are a file that was
\* changed and changed back within one tick of the clock while it was read, and a
\* mention in the shadow of what looks like a zip.
AcceptedAsReviewed ==
  verdict = "ok" =>
    \A f \in Files :
      \/ f \in touched /\ closed[f] = None
      \/ content[f] = None
      \/ f \in blurred
      \/ /\ closed[f] # None
         /\ \/ HasShadow(closed[f])
            \/ Mentions(<<f>>, Suffix[f], closed[f]) = {m \in reviewed : m[1][1] = f}

\* By recursion over the tree: what the scan can read.
RECURSIVE Readable(_, _, _)
Readable(name, suffix, p) ==
  CASE p.form = "plain"  -> suffix # "jar" /\ ReadText(suffix, p) # None /\ Size(p) <= MaxSize
    [] p.form = "zip"    -> /\ Preflight(p, TRUE) = "zip" /\ SizeOf(p) <= MaxExpanded
                            /\ \A m \in ToSet(p.members) :
                                 /\ Unrepeated(p, m.name) \/ ReviewedDuplicate(name, p, m.name)
                                 /\ m.safe /\ Readable(Append(name, m.name), m.suffix, m.content)
    [] p.form = "packed" -> /\ p.whole /\ suffix # "jar" /\ Readable(name, "data", p.inside)
                            /\ p.trailing = None \/ Readable(name, "data", p.trailing)

\* What a tree costs: [members, expanded].
RECURSIVE Cost(_)
Cost(p) ==
  LET sum(S) == [members  |-> FoldSet(LAMBDA x, n : Cost(x.q).members + n, 0, S),
                 expanded |-> FoldSet(LAMBDA x, n : Cost(x.q).expanded + n, 0, S)]
      under  == CASE p.form = "plain"  -> {}
                  [] p.form = "zip"    -> {[at |-> m.name, q |-> m.content] : m \in ToSet(p.members)}
                  [] p.form = "packed" -> {[at |-> s, q |-> p[s]] :
                                             s \in {s \in {"inside", "trailing"} : p[s] # None}}
      own    == CASE p.form = "plain"  -> [members |-> 0, expanded |-> 0]
                  [] p.form = "zip"    -> [members |-> Len(p.members), expanded |-> SizeOf(p)]
                  [] p.form = "packed" -> [members |-> 0, expanded |-> Size(p.inside)]
  IN [members |-> own.members + sum(under).members, expanded |-> own.expanded + sum(under).expanded]

Total(field) == FoldSet(LAMBDA f, n : Cost(content[f])[field] + n, 0, Files)
AllMentions == UNION {Mentions(<<f>>, Suffix[f], content[f]) : f \in Files}

\* A tree that nobody writes is refused for a reason: its code is not the
\* authentic one, two metadata files claim one jar, something in it cannot be
\* read, lies too deep or costs too much, or the mentions are not the reviewed.
RefusedForCause ==
  (verdict = "refused" /\ touched = {}) =>
    \/ \E f \in Files : content[f] = None
    \/ \E f \in DOMAIN Authentic : DigestPayload(f, content[f]) # Authentic[f]
    \/ \E m, n \in meta : m # n /\ m.jar = n.jar
    \/ \E f \in Files : ~Readable(label[f], Suffix[f], content[f]) \/ Nesting(content[f]) > MaxDepth
    \/ Total("members") > MaxTotalMembers \/ Total("expanded") > MaxTotalExpanded
    \/ Cardinality(AllMentions) > MaxOccurrences
    \/ FoldSet(LAMBDA f, n : Size(content[f]) + n, 0, {f \in Files : Suffix[f] = "code"}) > MaxCode
    \/ AllMentions # reviewed
    \/ \E f \in Files : HasShadow(content[f])

=============================================================================
