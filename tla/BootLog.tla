------------------------------- MODULE BootLog -------------------------------
(***************************************************************************)
(* The boot of the test server and the oracle that reads its logs          *)
(* (tools/rc_hygiene.py, verify_boot_run). The threads of the server write *)
(* records concurrently; a record goes to the console and latest.log, from *)
(* INFO up, and then to debug.log, and a thread may be overtaken between   *)
(* the two. KubeJS has a log of its own. Afterwards the oracle demands     *)
(* that the boot was the reviewed one, whatever the interleaving was.      *)
(*                                                                         *)
(* A record is its thread, its level, what it says, and the continuation   *)
(* lines. Records that no check looks at are left out, and of records that *)
(* the checks treat alike one or two stand for all.                        *)
(***************************************************************************)
EXTENDS Integers, Sequences, SequencesExt, FiniteSetsExt, Bags

CONSTANTS
  Workers,     \* the numbers of worker threads, which vary between boots
  MaxOddities  \* bound on records overtaken on their way to debug.log, lines
               \* written past the logging and deviations, in all

ASSUME BootLogBounds ==
  /\ IsFiniteSet(Workers) /\ Workers # {}
  /\ MaxOddities \in Nat

VARIABLES
  stage,      \* of the boot: early, mixins, mods, world, serving, over
  todo,       \* todo[t]: what thread t still writes in this stage
  worker,     \* the number of the worker thread of this boot
  console, latest, debug, kubejs,   \* the logs
  held,       \* the record that is on its way to debug.log, if any
  stray,      \* history: the line written to the console past the logging
  status,     \* exit status of the server
  deviation,  \* history: how this boot differs from the reviewed one
  verdict,    \* of the oracle
  overtakes, output   \* records overtaken, lines written past the logging

logs == <<console, latest, debug, kubejs, held>>
vars == <<stage, todo, worker, logs, stray, status, deviation, verdict, overtakes, output>>

Threads == {"main", "sync", "loader", "worker", "server", "lan"}
Levels  == {"TRACE", "DEBUG", "INFO", "WARN", "ERROR"}

Record(thread, level, id, tail) == [thread |-> <<thread, 0>>, level |-> level, id |-> id, tail |-> tail]
Plain(thread, level, id) == Record(thread, level, id, <<>>)

-----------------------------------------------------------------------------
(* The reviewed boot: what each thread writes, in five stages that the      *)
(* markers tell apart.                                                      *)

Field    == Plain("main", "DEBUG", "field")
Method   == Plain("main", "DEBUG", "method")
Sable    == Plain("main", "ERROR", "sable")
Catching(stack) == Record("main", "TRACE", "catching", <<stack>>)
Skipping == Plain("main", "DEBUG", "skipping")
LoadWarn == Plain("main", "WARN", "load")
Metadata == Plain("main", "TRACE", "metadata")
Start    == Plain("main", "TRACE", "start")
End      == Plain("main", "DEBUG", "end")
Mixing   == Plain("main", "DEBUG", "mixing")

\* Sable's mixins are prepared, validated twice and applied.
Prepare  == <<Field, Method, Sable, Catching("prepare"), Skipping>>
Validate(stack) == <<Field, Method, Sable, Catching(stack), LoadWarn, Metadata>>
Apply    == <<Mixing, Sable, LoadWarn>>

Moonlight == Record("sync", "ERROR", "moonlight", <<"jar">>)
Overlays  == Plain("main", "ERROR", "overlays")
Ready     == Plain("loader", "INFO", "ready")
Sanitized == <<Plain("worker", "INFO", "sanitized 1"), Plain("worker", "INFO", "sanitized 2")>>
Apothic   == Plain("worker", "WARN", "apothic")
NoRoute   == Plain("lan", "WARN", "no route")

Serve(id) == Plain("server", "INFO", id)
ItemAudit == <<Serve("item ok"), Serve("commodity ok")>>
Acquisition == <<Serve("acquisition begin"), Serve("acquisition node"), Serve("acquisition ok")>>
GateAudit == <<Serve("gate ok")>>
Stopping  == <<Serve("ftb"), Serve("saved")>>
Audited   == ItemAudit \o Acquisition \o GateAudit

Silent == [t \in Threads |-> <<>>]
Programme ==
  << [Silent EXCEPT !["main"] = Prepare \o <<Start>> \o Validate("validate") \o Validate("changes") \o <<End>>],
     [Silent EXCEPT !["main"] = Apply, !["sync"] = <<Moonlight>>],
     [Silent EXCEPT !["main"] = <<Overlays>>, !["loader"] = <<Ready>>],
     [Silent EXCEPT !["worker"] = Sanitized \o <<Apothic>>],
     [Silent EXCEPT !["server"] = <<Serve("done")>> \o Audited \o Stopping, !["lan"] = <<NoRoute>>] >>

\* All of it, in one of its orders.
Reviewed == LET Whole(s) == FlattenSeq([i \in 1 .. 6 |->
                  Programme[s][<<"main", "sync", "loader", "worker", "server", "lan">>[i]]])
            IN FlattenSeq([s \in 1 .. Len(Programme) |-> Whole(s)])

-----------------------------------------------------------------------------
(* The server writes. *)

Numbered(rec) == IF rec.thread[1] = "worker" /\ rec.thread[2] = 0
                 THEN [rec EXCEPT !.thread[2] = worker] ELSE rec
Shown(rec) == rec.level \notin {"TRACE", "DEBUG"}
IsKubeJS(rec) == rec \in {Audited[i] : i \in DOMAIN Audited} \/ rec.id \in {"item invalid", "stale ok"}
Put(log, rec, goes) == IF goes THEN Append(log, rec) ELSE log

Room == overtakes + output + (IF deviation \in {"none", "output"} THEN 0 ELSE 1) < MaxOddities

\* A record arrives in every log, or is overtaken on its way to debug.log by
\* the next one.
Log(rec) ==
  /\ console' = Put(console, rec, Shown(rec)) /\ latest' = Put(latest, rec, Shown(rec))
  /\ kubejs' = Put(kubejs, rec, IsKubeJS(rec))
  /\ \/ held = <<>> /\ debug' = Append(debug, rec) /\ UNCHANGED <<held, overtakes>>
     \/ /\ held = <<>> /\ Shown(rec) /\ Room
        /\ held' = <<rec>> /\ overtakes' = overtakes + 1 /\ UNCHANGED debug
     \/ /\ held # <<>> /\ held[1].thread # rec.thread
        /\ debug' = debug \o <<rec, held[1]>> /\ held' = <<>> /\ UNCHANGED overtakes

\* The record arrives after all without being overtaken.
Arrive == held # <<>> /\ debug' = Append(debug, held[1]) /\ held' = <<>>
          /\ UNCHANGED <<stage, todo, worker, console, latest, kubejs, stray, status, deviation,
                         verdict, overtakes, output>>

Booting == stage <= Len(Programme) /\ status = 0
Waiting(t) == Booting /\ todo[t] # <<>>
Advance(t) == todo' = [todo EXCEPT ![t] = Tail(@)]
Else == UNCHANGED <<stage, worker, stray, status, verdict, output>>

Write(t) ==
  /\ Waiting(t) /\ Log(Numbered(Head(todo[t]))) /\ Advance(t)
  /\ Else /\ UNCHANGED deviation

\* The address the LAN pinger tries may well be reachable.
PingSucceeds ==
  /\ Waiting("lan") /\ Advance("lan")
  /\ Else /\ UNCHANGED <<logs, deviation, overtakes>>

NextStage ==
  /\ Booting /\ (\A t \in Threads : todo[t] = <<>>) /\ held = <<>>
  /\ stage' = stage + 1
  /\ todo' = IF stage < Len(Programme) THEN Programme[stage + 1] ELSE Silent
  /\ UNCHANGED <<worker, logs, stray, status, deviation, verdict, overtakes, output>>

-----------------------------------------------------------------------------
(* A boot that is not the reviewed one: one deviation of those below.       *)

Deviates(how) == Room /\ deviation = "none" /\ deviation' = how

Unreviewed == {Plain("main", "ERROR", "unknown"), Plain("worker", "ERROR", "air"),
               Plain("loader", "WARN", "ready"), Serve("stale ok")}
Repeated == {Sable, LoadWarn, Apothic, Ready, Serve("acquisition node"), Serve("gate ok"), Start}

WritesMore ==
  /\ Booting /\ Deviates("more")
  /\ \E rec \in Unreviewed \union Repeated : Log(Numbered(rec))
  /\ Else /\ UNCHANGED todo

WritesLess(t) ==
  /\ Waiting(t) /\ t # "lan" /\ Deviates("less") /\ Advance(t)
  /\ Else /\ UNCHANGED <<logs, overtakes>>

\* With a stack trace, or from another thread of those that vary.
WritesOtherwise(t) ==
  /\ Waiting(t) /\ Deviates("otherwise") /\ Advance(t)
  /\ LET rec == Numbered(Head(todo[t])) IN
     \/ Log([rec EXCEPT !.tail = Append(@, "exception")])
     \/ rec.id \notin {"ready", "apothic"} /\ rec.thread[1] # "server" /\ Log([rec EXCEPT !.thread[2] = @ + 1])
  /\ Else

\* An item of a quest does not exist; the script of the audit returns.
AuditFails ==
  /\ Waiting("server") /\ Head(todo["server"]).id = "item ok" /\ Deviates("audit")
  /\ Log(Plain("server", "ERROR", "item invalid"))
  /\ todo' = [todo EXCEPT !["server"] = SubSeq(@, 3, Len(@))] /\ Else

\* The timeout ends the server.
TimesOut ==
  /\ Booting /\ stage = Len(Programme) /\ Deviates("timeout") /\ status' = 124
  /\ UNCHANGED <<stage, todo, worker, logs, stray, verdict, overtakes, output>>

\* The JVM, or the listener of the logging itself, writes to the console; the
\* line follows whatever record was last.
Output ==
  /\ Booting /\ Room /\ output' = output + 1 /\ Len(console) > 0
  /\ \E line \in {"noise", "line", "exception"} :
       /\ stray' = <<line, Last(console).level>>
       /\ console' = [console EXCEPT ![Len(console)].tail = Append(@, line)]
       /\ IF line = "exception" THEN Deviates("output") ELSE UNCHANGED deviation
  /\ UNCHANGED <<stage, todo, worker, latest, debug, kubejs, held, status, verdict, overtakes>>

-----------------------------------------------------------------------------
(* The oracle. *)

\* What the record is once the parts that vary between boots are normalised.
VolatileThreads == {"ready", "sanitized 1", "sanitized 2", "apothic"}
CanonicalExact(rec) == rec   \* mutant: thread numbers are compared
Canonical(rec) == IF rec.id \in VolatileThreads THEN [rec EXCEPT !.thread[2] = 0] ELSE rec

Projection(log, Chosen(_)) ==
  LET chosen == SelectSeq(log, Chosen) IN [i \in DOMAIN chosen |-> Canonical(chosen[i])]
Counter(seq) == [rec \in Range(seq) |-> Cardinality({i \in DOMAIN seq : seq[i] = rec})]

IsError(rec) == rec.level = "ERROR"
IsWarning(rec) == rec.level = "WARN"
Indices(log, id) == {i \in DOMAIN log : log[i].id = id}

\* Every error is a reviewed one and each occurs as often as reviewed.
Allowances == {"moonlight", "overlays", "sable"}
AllowedErrors(log) ==
  /\ \A i \in DOMAIN log : IsError(log[i]) => \E rec \in Range(Reviewed) :
       rec.id \in Allowances /\ Canonical(log[i]) = rec
  /\ \A id \in Allowances : Cardinality(Indices(log, id)) = Cardinality(Indices(Reviewed, id))

\* The warnings as a multiset; those of the environment occur once at most.
IsOptional(rec) == rec = NoRoute
CountsAsWarning(rec) == IsWarning(rec) /\ ~IsOptional(rec)
ReviewedWarnings(log) ==
  /\ Counter(Projection(log, CountsAsWarning)) = Counter(Projection(Reviewed, CountsAsWarning))
  /\ Cardinality({i \in DOMAIN log : IsOptional(log[i])}) <= 1

\* The residual warnings with an allowance of their own.
IsResidual(rec) == rec.level = "WARN" /\ rec.id = "apothic"
Residual(log) ==
  Projection(log, IsResidual) = <<Apothic>>

SameOrderOfErrors == Projection(latest, IsError) = Projection(debug, IsError)

\* Both logs tell of the same errors and warnings, in the same order.
CanonicalPair ==
  /\ AllowedErrors(latest) /\ AllowedErrors(debug) /\ SameOrderOfErrors
  /\ ReviewedWarnings(latest) /\ ReviewedWarnings(debug)
  /\ Len(SelectSeq(latest, IsOptional)) = Len(SelectSeq(debug, IsOptional))
  /\ Residual(latest) /\ Residual(debug)
  /\ Projection(latest, IsResidual) = Projection(debug, IsResidual)

\* Sable's errors stand in their context in debug.log: what is transformed
\* before, what catches them after, where they come from.
Context(log, i, rec) == i \in DOMAIN log /\ log[i] = rec
Lifecycle(log, i) ==
  /\ Context(log, i - 2, Field) /\ Context(log, i - 1, Method)
  /\ i + 1 \in DOMAIN log /\ log[i + 1].id = "catching" /\ log[i + 1].thread = Sable.thread
Validated(log, i, stack) ==
  Context(log, i + 1, Catching(stack)) /\ Context(log, i + 2, LoadWarn) /\ Context(log, i + 3, Metadata)
Unique(log, rec) == Cardinality(Indices(log, rec.id)) = 1 /\ log[Min(Indices(log, rec.id))] = rec

SableContext(log) ==
  LET errors == SetToSortSeq({i \in DOMAIN log : log[i] = Sable}, <) IN
  /\ Len(errors) = 4
  /\ \A n \in 1 .. 3 : Lifecycle(log, errors[n])
  /\ Context(log, errors[1] + 1, Catching("prepare"))
  /\ LET sources == {i \in Indices(log, "skipping") : i > errors[1] + 1 /\ i < errors[2]}
     IN Cardinality(sources) = 1 /\ \A i \in sources : log[i] = Skipping
  /\ Unique(log, Start) /\ Unique(log, End)
  /\ LET from == Min(Indices(log, "start"))   to == Min(Indices(log, "end"))
     IN {n \in 1 .. 4 : from < errors[n] /\ errors[n] < to} = {2, 3}
  /\ Validated(log, errors[2], "validate") /\ Validated(log, errors[3], "changes")
  /\ Context(log, errors[4] - 1, Mixing) /\ Context(log, errors[4] + 1, LoadWarn)

\* The state markers occur once and in order, the audits between the first and
\* the last stage of serving, and one worker sanitized every template.
Ordered == <<"ready", "sanitized 1", "sanitized 2", "done", "ftb", "saved">>
Once(log, id) == Cardinality({i \in DOMAIN log : log[i].id = id /\ log[i].level = "INFO"
                                                 /\ log[i].tail = <<>> /\ log[i].thread[1] \in {"loader", "worker", "server"}}) = 1
PlaceOf(log, id) == Min({i \in Indices(log, id) : log[i].level = "INFO"})
Markers(log) ==
  /\ \A id \in Range(Ordered) \union {"item ok", "gate ok"} : Once(log, id)
  /\ \A n \in 1 .. Len(Ordered) - 1 : PlaceOf(log, Ordered[n]) < PlaceOf(log, Ordered[n + 1])
  /\ \A id \in {"item ok", "gate ok"} :
       PlaceOf(log, "done") < PlaceOf(log, id) /\ PlaceOf(log, id) < PlaceOf(log, "ftb")
  /\ log[PlaceOf(log, "sanitized 1")].thread = log[PlaceOf(log, "sanitized 2")].thread
  /\ \A id \in {"done", "item ok", "gate ok", "ftb", "saved"} :
       log[PlaceOf(log, id)] = Serve(id)

\* The compatibility mod: ready once, then every template once, nothing else,
\* the same in both logs.
IsIdas(rec) == rec.id \in {"ready", "sanitized 1", "sanitized 2"}
IdasAudits ==
  /\ Projection(latest, IsIdas) = Projection(debug, IsIdas)
  /\ \A log \in {latest, debug} : Indices(log, "air") = {}
  /\ Projection(latest, IsIdas) = <<Ready>> \o Sanitized

\* The transcripts of the audits, in each of three logs: lines are looked for
\* by their prefix, whatever record they are in.
IsItem(rec) == rec.id \in {"item ok", "item invalid", "stale ok"}
IsCommodity(rec) == rec.id = "commodity ok"
IsAcquisition(rec) == rec.id \in {"acquisition begin", "acquisition node", "acquisition ok"}
Ids(log, Chosen(_)) == LET chosen == SelectSeq(log, Chosen) IN [i \in DOMAIN chosen |-> chosen[i].id]
ItemTranscript(log) == Ids(log, IsItem) = <<"item ok">> /\ Ids(log, IsCommodity) = <<"commodity ok">>
AcquisitionTranscript(log) ==
  Ids(log, IsAcquisition) = <<"acquisition begin", "acquisition node", "acquisition ok">>
RuntimeAudits == \A log \in {latest, debug, kubejs} : ItemTranscript(log) /\ AcquisitionTranscript(log)

\* What looks severe, by its level or its text, on the console and in the logs.
LooksSevere(rec) ==
  IsError(rec) \/ rec.id \in {"load", "catching"} \/ Contains(rec.tail, "exception")
Quiet(line) == line # "noise"
WithoutNoise(rec) == [rec EXCEPT !.tail = SelectSeq(@, Quiet)]
OnConsole == [i \in DOMAIN console |-> WithoutNoise(console[i])]
ConsoleUnchecked == TRUE   \* mutant
ConsoleProjection ==
  LET shown == Projection(OnConsole, LooksSevere)
      inLatest == Counter(Projection(latest, LooksSevere))
      visible == SelectSeq(Reviewed, Shown)
  IN /\ inLatest = Counter(Projection(visible, LooksSevere))
     /\ Counter(Projection(debug, LooksSevere)) = Counter(Projection(Reviewed, LooksSevere))
     /\ Counter(shown) = inLatest

\* verify_boot_run, as far as it reads logs.
Accepted ==
  /\ status = 0
  /\ RuntimeAudits
  /\ Markers(latest) /\ Markers(debug)
  /\ CanonicalPair /\ SableContext(debug) /\ IdasAudits
  /\ ConsoleProjection

Verify ==
  /\ verdict = "none" /\ held = <<>> /\ (stage > Len(Programme) \/ status # 0)
  /\ verdict' = IF Accepted THEN "accepted" ELSE "refused"
  /\ UNCHANGED <<stage, todo, worker, logs, stray, status, deviation, overtakes, output>>

-----------------------------------------------------------------------------

Init ==
  /\ stage = 1 /\ todo = Programme[1] /\ worker \in Workers
  /\ console = <<>> /\ latest = <<>> /\ debug = <<>> /\ kubejs = <<>> /\ held = <<>>
  /\ stray = <<>> /\ status = 0 /\ deviation = "none" /\ verdict = "none"
  /\ overtakes = 0 /\ output = 0

Boot == (\E t \in Threads : Write(t)) \/ Arrive \/ PingSucceeds \/ NextStage
Differs == \/ WritesMore \/ AuditFails \/ TimesOut \/ Output
           \/ \E t \in Threads : WritesLess(t) \/ WritesOtherwise(t)
Next == Boot \/ Differs \/ Verify

Spec == Init /\ [][Next]_vars

-----------------------------------------------------------------------------
(* Properties. *)

\* A boot the oracle accepts is the reviewed one: no thread wrote more, less or
\* anything else, no audit failed, it ended by itself, and nothing severe was
\* written past the logging. verify_boot_run
OnlyReviewedBoots == verdict = "accepted" => deviation = "none"

\* A reviewed boot that is refused all the same was one of three, and there
\* are no others: two errors, or two markers, stand in debug.log in the other
\* order; a record of another thread fell between a Sable error and its
\* context; or a line was written to the console behind a record that looks
\* severe. So a refusal for the numbers of threads, for an unreachable LAN or
\* for the other interleavings never happens. verify_boot_run
IsMarker(rec) == rec.id \in Range(Ordered)
Alike(a, b) == (IsError(a) /\ IsError(b)) \/ (IsMarker(a) /\ IsMarker(b))
Disturbed ==
  \/ \E i, j \in DOMAIN latest : /\ i < j /\ Alike(latest[i], latest[j])
       /\ \A k, m \in DOMAIN debug : debug[k] = latest[i] /\ debug[m] = latest[j] => m < k
  \/ \E i \in 2 .. Len(debug) - 1 : debug[i].thread[1] # "main" /\ debug[i - 1].id \in {"mixing", "sable"}
  \/ stray # <<>> /\ stray[1] = "line" /\ stray[2] \in {"ERROR", "WARN"}
ReviewedBootsPass == verdict = "refused" /\ deviation = "none" => Disturbed
=============================================================================
