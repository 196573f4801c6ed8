---------------------------- MODULE MCAlgorithms ----------------------------
(***************************************************************************)
(* The program's algorithms on every small input: a state is one call with *)
(* its input, and each invariant is about the calls of one kind.           *)
(***************************************************************************)
EXTENDS SessionHistory, HttpLayers, WorkspaceSearch, ToolArguments, WebFetch, Configuration, WorkspaceSetup,
    SessionTransfer, ChatAnswers

VARIABLE call

\* All sequences over S of the given lengths.
SeqsOf(S, lengths) == UNION {[1 .. n -> S] : n \in lengths}

-----------------------------------------------------------------------------
\* Conversations of up to seven messages.

Conversations ==
    {[i \in DOMAIN roles |-> [role |-> roles[i], turn |-> i]] :
        roles \in SeqsOf({"user", "assistant", "system"}, 0 .. 7)}

\* Requests to the HTTP server, and the times at which they come.

Arrivals == {times \in SeqsOf(0 .. 6, 1 .. 5) : \A i \in 2 .. Len(times) : times[i - 1] <= times[i]}

Requests ==
    [path : {"/health", "/api/chat", "/hooks/slack"}, method : {"GET", "POST", "OPTIONS"}, takesBody : BOOLEAN,
     body : {1, 3}, declared : {NoHeader, 1, 3}, bearer : {NoHeader, "t", "x"}, apiToken : {NoHeader, "t"},
     id : {NoHeader}, origin : {"o"}]

MCCors == [enabled : BOOLEAN, origins : {{}, {"o"}}]

\* Globs and paths.

Globs == SeqsOf({"a", "b", "?", "*"}, 0 .. 4)
Names == SeqsOf({"a", "b"}, 0 .. 4)
PathGlobs == SeqsOf({<<"a">>, <<"*">>, <<"*", "*">>, <<"a", "*">>}, 0 .. 3)
PathsOf == SeqsOf({<<"a">>, <<"b">>, <<"a", "b">>}, 1 .. 3)

\* Files of up to four lines.
FileLines == {[i \in 1 .. n |-> i] : n \in 0 .. 4}

\* Directory trees of up to four entries.

File(hits, wanted, text) == [kind |-> "file", hits |-> hits, wanted |-> wanted, text |-> text]
Dir(kind) == [kind |-> kind, hits |-> 0, wanted |-> FALSE, text |-> FALSE]

Entries ==
    {File(0, TRUE, TRUE), File(1, TRUE, TRUE), File(2, TRUE, TRUE), File(1, FALSE, TRUE), File(1, TRUE, FALSE),
     Dir("dir"), Dir("closed"), Dir("git"), Dir("link")}
Common == {File(1, TRUE, TRUE), File(2, TRUE, TRUE), Dir("dir")}

IsTree(tree) ==
    \A i \in DOMAIN tree :
        IF i = 1 THEN tree[1].depth = 1
        ELSE \/ tree[i].depth <= tree[i - 1].depth
             \/ tree[i].depth = tree[i - 1].depth + 1 /\ tree[i - 1].kind \in {"dir", "git"}

EntryAt(entry, depth) == [kind |-> entry.kind, hits |-> entry.hits, wanted |-> entry.wanted, text |-> entry.text, depth |-> depth]
TreesOf(entries, lengths) ==
    {tree \in SeqsOf({EntryAt(entry, depth) : entry \in entries, depth \in 1 .. 3}, lengths) : IsTree(tree)}

Trees == TreesOf(Entries, 0 .. 3) \cup TreesOf(Common, {4})

\* Arguments of tools: at most two of them are not what they usually are.

Values ==
    {Absent, Null, Other, Flag(TRUE), Flag(FALSE), Array(<<>>), Array(<<Text("text")>>), Array(<<Other>>),
     Array(<<Text("blank")>>)}
    \cup {Text(word) : word \in {"empty", "blank", "padded", "text", "long", "overwrite", "MEMORY.md"}}
    \cup {Number(n) : n \in {-1, 0, 1, 2, 3, 9}}

Usual(property) == IF property.required THEN Text("text") ELSE Absent

ArgumentsOf(tool) ==
    LET names == DOMAIN Schemas[tool]
    IN  {[p \in names |-> IF p = p1 THEN v1 ELSE IF p = p2 THEN v2 ELSE Usual(Schemas[tool][p])] :
            p1 \in names, p2 \in names, v1 \in Values, v2 \in Values}

MCMaxOf == [tool \in Limited |-> 3]
MCDefaultOf == [tool \in Limited |-> 2]

\* Fetches: chains of up to three replies, of which every redirect is followed.

Url(scheme, host, port) == [scheme |-> scheme, host |-> host, port |-> port, path |-> <<"dir", "page">>]
Locations ==
    {[kind |-> "none"], [kind |-> "root", path |-> <<"top">>], [kind |-> "beside", path |-> <<"other">>],
     [kind |-> "url", url |-> Url("http", "public", 81)], [kind |-> "url", url |-> Url("ftp", "public", NoPort)],
     [kind |-> "host", url |-> Url("", "private", NoPort)], [kind |-> "host", url |-> Url("", "name", NoPort)]}
Replies ==
    [status : {"ok"}, location : {[kind |-> "none"]}, found : {"public", "private", "nothing"}, lookup : {0}, takes : {1}]
    \cup [status : {"error"}, location : {[kind |-> "none"]}, found : {"public"}, lookup : {0}, takes : {1}]
    \cup [status : {"redirect"}, location : Locations, found : {"public"}, lookup : {0}, takes : {2}]
    \cup [status : {"redirect"}, location : {[kind |-> "root", path |-> <<"top">>]}, found : {"public"},
          lookup : {0, 3}, takes : {1, 3, 4}]
Starts ==
    {Url("https", "public", NoPort), Url("https", "name", NoPort), Url("http", "private", NoPort),
     Url("http", "public", MaxPort + 1)}

\* Pages of up to three parts.

Shows(page, text) == [page |-> page, shows |-> text]
PartsAt(w) ==
    {Shows(<<w>>, <<w>>), Shows(<<"space">>, <<"space">>), Shows(<<"newline">>, <<"newline">>),
     Shows(<<"<", "p", ">">>, <<"newline">>), Shows(<<"<", "/p", ">">>, <<"newline">>),
     Shows(<<"<", "p", w, ">">>, <<"space">>), Shows(<<"<", "b", "space", w, ">">>, <<"space">>),
     Shows(<<"&", "lt", ";">>, <<"<">>), Shows(<<"&", "gt", ";">>, <<">">>), Shows(<<"&", "copy", ";">>, <<"&", "copy", ";">>),
     Shows(<<"<", "script", ">", w, "<", "p", ">", "<", "/script", ">">>, <<>>),
     Shows(<<"<", "style", "space", w, ">", "<", "!--", "<", "/style", ">">>, <<>>),
     Shows(<<"<", "script", w, ">">>, <<"space">>),
     Shows(<<"<", "!--", w, "<", "p", ">", ">", "--", "<", ">", "--", ">">>, <<>>),
     Shows(<<"<", "title", ">", w, "<", "/title", ">">>, <<"space", w, "space">>),
     Shows(<<"[truncated]">>, <<"[truncated]">>)}

Pages == UNION {{parts \in [1 .. n -> UNION {PartsAt(w) : w \in {"w1", "w2", "w3"}}] :
                    \A i \in 1 .. n : parts[i] \in PartsAt(<<"w1", "w2", "w3">>[i])} : n \in 0 .. 3}

\* Settings: a text of the environment, and what the two sections of the file may say.

TextsOf(rule) ==
    {"blank", "bad"} \cup
        (CASE rule \in {"limit", "amount", "iterations"} -> DOMAIN NumberTexts
           [] rule \in {"flag", "public"} -> DOMAIN FlagTexts
           [] rule = "format" -> DOMAIN FormatTexts
           [] rule = "list" -> DOMAIN ListTexts
           [] OTHER -> {"good"})

ConfiguredOf(rule) ==
    CASE rule \in {"limit", "amount", "iterations"} -> {0, 1, 40}
      [] rule \in {"flag", "public"} -> BOOLEAN
      [] rule = "format" -> {"text", "json"}
      [] rule = "list" -> DOMAIN ListTexts
      [] OTHER -> {"blank", "bad", "good"}

AtMostOne(S) == {{}} \cup {{x} : x \in S}
SectionsOf(setting) == AtMostOne([{setting} -> AtMostOne(ConfiguredOf(Settings[setting].rule))])
EnabledTools == {Optional \ {tool1, tool2} : tool1 \in Optional, tool2 \in Optional}

\* Files of the prompt and of memory_search.

Texts(lengths) == SeqsOf({"a", "wide", "newline", "blank"}, lengths)
NoFiles == {Entry(kind, <<>>) : kind \in {"missing", "dir", "outside", "refused"}}
Odd == NoFiles \cup {Entry(kind, <<"a">>) : kind \in {"garbled", "closed"}}
Written == Odd \cup {Entry("file", text) : text \in Texts(0 .. 3) \cup SeqsOf({"a", "wide"}, {4})}

Loaded == Odd \cup {Entry("file", text) : text \in {<<>>, <<"a">>, <<"blank">>, <<"a", "wide", "wide">>}}

SearchedTexts ==
    {<<"a">>, <<"blank", "newline", "a">>, <<"a", "newline", "a", "newline", "a">>, <<"a", "newline", "wide", "newline", "a">>,
     <<"newline", "newline", "a", "newline">>}
SearchedFiles == [{"memory", "notes"} -> Odd \cup {Entry("file", text) : text \in SearchedTexts}]

\* Workspaces, with at most one skill of the user's and perhaps a changed example.

SkillFiles ==
    {[BlankSkill EXCEPT !.kind = kind] : kind \in {"missing", "closed"}}
        \cup {SkillFile(head, name, {}, {"english"}) : head \in {"none", "open", "bad", "good"}, name \in AtMostOne({"search"})}

NoWorkspace ==
    [exists |-> FALSE, files |-> [file \in DefaultFiles |-> "missing"], hasSkills |-> FALSE, listable |-> TRUE, skills |-> <<>>]
BeforeSkills(files) == [exists |-> TRUE, files |-> files, hasSkills |-> FALSE, listable |-> TRUE, skills |-> <<>>]
WithSkills(files, skills, listable) ==
    [exists |-> TRUE, files |-> files, hasSkills |-> TRUE, listable |-> listable, skills |-> skills]
Started ==
    UNION {{BeforeSkills([NoWorkspace.files EXCEPT !["SOUL.md"] = soul, !["MEMORY.md"] = memory]) :
                soul \in {"missing", "broken"}} : memory \in {"missing", "mine", "blank"}}
Skilled ==
    UNION {UNION {{WithSkills([NoWorkspace.files EXCEPT !["SOUL.md"] = soul], skills, TRUE) : skills \in [dirs -> SkillFiles]} :
                      soul \in {"missing", "mine"}} : dirs \in SUBSET {"mine", "search"}}
Unlistable ==
    UNION {{WithSkills(NoWorkspace.files, skills, FALSE) : skills \in [dirs -> SkillFiles]} : dirs \in SUBSET {"mine"}}
Workspaces == {NoWorkspace} \cup Started \cup Skilled \cup Unlistable

\* Bodies of imports, and the sessions they meet.

User == [role |-> "user", turn |-> 1]
SomeLines == {Line("message", <<User>>), Line("message", <<[User EXCEPT !.turn = 2]>>), Line("blank", <<>>), Line("bad", <<>>)}
LineBodies == {JsonLines(lines) : lines \in SeqsOf(SomeLines, 0 .. 3)}
Documents == UNION {{Document(id, messages) : id \in AtMostOne({"blank", "s1", " s1 "})} : messages \in {<<>>, <<User>>}}
Bodies == {Garbled} \cup LineBodies \cup Documents
SomeSessions == {<<>>, "s1" :> <<User>> @@ "s2" :> <<>>}
BodyTypes == AtMostOne({"text/plain", "Application/JSON; charset=utf-8"})

\* Replies, inputs of the command line, and messages to the stub.

Outcomes ==
    {[failed |-> TRUE]}
        \cup [failed : {FALSE}, text : SeqsOf({"a", "mark"}, 0 .. 6),
              calls : {<<>>, <<[name |-> "t1", result |-> "error"], [name |-> "t2", result |-> "text"]>>}]
Inputs == {Input(word, FALSE) : word \in {"q1", "q2", "blank", "exit", "end"}} \cup {Input("q1", TRUE)}
Keywords == {"succeeded", "list workspace", "read memory", "memory", "read", "time", "list", "files", "hello", "skill", "block"}
Asked(words) == [role |-> "user", words |-> WordsOf(words)]

\* The calls written in the configuration and in the descriptions of skills.
CallNames == {"t1", "t2"}
NothingWritten == [rule \in Quoting |-> <<>>]
CallsWritten == {NothingWritten, [NothingWritten EXCEPT !["hello"] = <<"t1">>, !["skill"] = <<"t1", "t2">>]}

-----------------------------------------------------------------------------

Init == call = [kind |-> "none"]

\* Conversations.
HistoryCalls ==
    \E h \in Conversations : call' = [kind |-> "conversation", history |-> h]

\* Requests to the server, and the times at which they come.
LayerCalls ==
    \/ \E times \in Arrivals : call' = [kind |-> "arrivals", times |-> times]
    \/ \E cors \in MCCors, request \in Requests, tat \in {0, 4, 9} :
          call' = [kind |-> "request", cors |-> cors, request |-> request, tat |-> tat]

\* Globs, paths, files to be read, trees, and files to be searched.
SearchCalls ==
    \/ \E glob \in Globs, name \in Names : call' = [kind |-> "glob", glob |-> glob, text |-> name]
    \/ \E glob \in PathGlobs, slash \in BOOLEAN, path \in PathsOf :
          (~slash => Len(glob) <= 1) /\
          call' = [kind |-> "path", glob |-> glob, slash |-> slash, text |-> path]
    \/ \E lines \in FileLines, offset \in 1 .. 6, limit \in 1 .. 5 :
          call' = [kind |-> "lines", lines |-> lines, offset |-> offset, limit |-> limit]
    \/ \E tree \in Trees : call' = [kind |-> "tree", tree |-> tree]
    \/ \E files \in SearchedFiles, override \in SeqsOf({"memory", "notes"}, 0 .. 3), max \in 1 .. 3 :
          call' = [kind |-> "memory", files |-> files, override |-> override, max |-> max]

\* Arguments of tools, and what the web answers.
ToolCalls ==
    \/ \E tool \in DOMAIN Schemas : \E args \in ArgumentsOf(tool) :
          call' = [kind |-> "tool", tool |-> tool, args |-> args]
    \/ \E start \in Starts, allowPrivate \in BOOLEAN, replies \in SeqsOf(Replies, 0 .. 3) :
          call' = [kind |-> "fetch", start |-> start, allowPrivate |-> allowPrivate, replies |-> replies]
    \/ \E parts \in Pages : call' = [kind |-> "page", parts |-> parts]
    \/ \E hits \in 0 .. 3, widths \in SeqsOf(1 .. 3, 0 .. 4) :
          call' = [kind |-> "answer", hits |-> [i \in 1 .. hits |-> i], widths |-> widths]

\* Settings, and the agent they make.
SettingCalls ==
    \/ \E setting \in DOMAIN Settings : \E env \in AtMostOne(TextsOf(Settings[setting].rule)),
          rust \in AtMostOne({"blank", "debug"}), top \in SectionsOf(setting), agent \in SectionsOf(setting) :
          call' = [kind |-> "setting", setting |-> setting, env |-> env, rust |-> rust,
                   configured |-> FromFile(top, agent, setting)]
    \/ \E enabled \in EnabledTools, provider \in {"brokerrouter", "openai_compatible", "other"},
          env \in AtMostOne({"blank", "key"}), configured \in AtMostOne({"blank", "key"}) :
          call' = [kind |-> "agent", enabled |-> enabled, provider |-> provider, env |-> env,
                   configured |-> configured]

\* Files of the prompt, and workspaces.
FileCalls ==
    \/ \E entry \in Written, content \in Texts(0 .. 2) :
          call' = [kind |-> "write", entry |-> entry, content |-> content]
    \/ \E files \in [{"soul", "user", "memory"} -> Loaded] : call' = [kind |-> "prompt", files |-> files]
    \/ \E ws \in Workspaces, force \in BOOLEAN, failing \in 1 .. NoFailing, torn \in BOOLEAN :
          (failing = NoFailing => ~torn) /\
          call' = [kind |-> "init", ws |-> ws, force |-> force, failing |-> failing, torn |-> torn]

\* Imports.
TransferCalls ==
    \E sessions \in SomeSessions, body \in Bodies, asked \in AtMostOne({"blank", " s1 ", "s3"}),
       format \in AtMostOne({"json"}), type \in BodyTypes, overwrite \in BOOLEAN :
       call' = [kind |-> "import", sessions |-> sessions, body |-> body, asked |-> asked, format |-> format,
                type |-> type, overwrite |-> overwrite]

\* Streams, conversations of the command line, and turns of the stub.
AnswerCalls ==
    \/ \E authorised \in BOOLEAN, field \in BOOLEAN, accept \in AtMostOne({"Text/Event-Stream;q=0.9", "*/*"}),
          session \in AtMostOne({"s1"}), outcome \in Outcomes :
          call' = [kind |-> "stream", authorised |-> authorised, field |-> field, accept |-> accept,
                   session |-> session, outcome |-> outcome]
    \/ \E inputs \in SeqsOf(Inputs, 0 .. 4) : call' = [kind |-> "repl", inputs |-> inputs]
    \/ \E words \in SUBSET Keywords, quoted \in CallsWritten, output \in {{}, {"list", "files", "block"}}, limit \in 1 .. 3 :
          call' = [kind |-> "stub", messages |-> <<Asked({"time"}), [role |-> "assistant", words |-> {}], Asked(words)>>,
                   quoted |-> quoted, output |-> output, limit |-> limit]

Next ==
    /\ call.kind = "none"
    /\ \/ HistoryCalls
       \/ LayerCalls
       \/ SearchCalls
       \/ ToolCalls
       \/ SettingCalls
       \/ FileCalls
       \/ TransferCalls
       \/ AnswerCalls

Spec == Init /\ [][Next]_call

Asks(kind) == call.kind = kind

-----------------------------------------------------------------------------

\* filter and collect: the elements of h at I, in one pass.
Filtered(h, I) ==
    LET upTo[n \in 0 .. Len(h)] ==
            IF n = 0 THEN <<>> ELSE IF n \in I THEN Append(upTo[n - 1], h[n]) ELSE upTo[n - 1]
    IN  upTo[Len(h)]

(***************************************************************************)
(* hard_truncate_session_messages as it is written in session.rs, with two *)
(* filters and a skip.                                                     *)
(***************************************************************************)
ReferenceTruncate(h) ==
    LET system == Filtered(h, {i \in DOMAIN h : IsSystem(h[i])})
        others == Filtered(h, {i \in DOMAIN h : ~IsSystem(h[i])})
        skip == SaturatingSub(Len(others), SaturatingSub(MaxMessages, Len(system)))
    IN  IF Len(h) <= MaxMessages THEN h
        ELSE system \o SubSeq(others, skip + 1, Len(others))

(***************************************************************************)
(* The truncation SessionHistory defines by positions is the one in the    *)
(* code, and truncating a session at every request loses no more than      *)
(* truncating the whole conversation once: the limit is applied to the     *)
(* history a session holds, which an earlier request has truncated already *)
(* (main.rs:2278).                                                         *)
(***************************************************************************)
TruncationComposes ==
    Asks("conversation") =>
        /\ HardTruncate(call.history) = ReferenceTruncate(call.history)
        /\ \A n \in 0 .. Len(call.history) :
              LET earlier == SubSeq(call.history, 1, n)
                  later == SubSeq(call.history, n + 1, Len(call.history))
              IN  HardTruncate(HardTruncate(earlier) \o later) = HardTruncate(call.history)

(***************************************************************************)
(* Whatever way a history is compacted, the newest KeepRecent messages     *)
(* survive at its end unless system messages crowd them out, and it fits   *)
(* the limit unless it is nothing but system messages.                     *)
(***************************************************************************)
CompactionKeepsRecent ==
    Asks("conversation") =>
        \A h \in Compactions(call.history) \cup {ImportCompaction(call.history)} :
            /\ Len(h) <= MaxMessages \/ Len(h) = Cardinality(SystemPositions(h))
            /\ SystemPositions(call.history) = {} /\ KeepRecent <= Len(call.history) =>
                  SubSeq(h, Len(h) - KeepRecent + 1, Len(h)) =
                  SubSeq(call.history, Len(call.history) - KeepRecent + 1, Len(call.history))

(***************************************************************************)
(* The layers around the handlers are nested as they should, and the rate  *)
(* limit among them is honest about its quota, but for one second (see     *)
(* HttpLayers).                                                            *)
(***************************************************************************)
LayersAreNested ==
    /\ Asks("request") => LayersNest(call.cors, call.request, 0, call.tat)
    /\ Asks("arrivals") => HeadersAreHonest(call.times)

\* Globs match what they mean (see WorkspaceSearch).
GlobsMatchMeaning ==
    /\ Asks("glob") => SegmentMatchesMeaning(call.glob, call.text)
    /\ Asks("path") => PathMatchesMeaning(call.glob, call.slash, call.text)

\* Searches, and readings of a file, are complete or say that they are not (see WorkspaceSearch and PromptFiles).
SearchesAreComplete ==
    /\ Asks("tree") =>
          /\ \A max \in 1 .. 3, maxFiles \in 1 .. 3, maxFound \in 1 .. 3 :
                max <= maxFound => SearchIsComplete(call.tree, max, maxFiles, maxFound)
          /\ \A recursive \in BOOLEAN, max \in 1 .. 3 : ListingTellsCut(call.tree, recursive, max)
    /\ Asks("lines") => PagesJoin(call.lines, call.offset, call.limit)
    /\ Asks("memory") => MemorySearchIsComplete(call.files, call.override, <<"memory">>, call.max)

\* Parsers keep the schemas of their tools (see ToolArguments).
ParsersKeepSchemas == Asks("tool") => ParserKeepsSchema(call.tool, call.args)

\* Requests to the web are bounded, and so is what they bring (see WebFetch).
WebAnswersAreBounded ==
    /\ Asks("fetch") => FetchStaysBounded(call.start, call.allowPrivate, call.replies)
    /\ Asks("answer") => \A max \in 1 .. 3, limit \in 1 .. 5 : AnswersAreBounded(call.hits, max, call.widths, limit)

\* Pages show what their parts show (see WebFetch).
PagesShowTheirParts == Asks("page") => \A maxChars \in {1, 3, 20}, maxSymbols \in {2, 5} : PageShowsItsParts(call.parts, maxSymbols, maxChars)

(***************************************************************************)
(* What serve and doctor report of a setting and of the agent is so (see   *)
(* Configuration), and whatever keep_recent the file asks for, a           *)
(* compaction keeps at least one message and fits the limit.               *)
(***************************************************************************)
ReportsAreTrue ==
    /\ Asks("setting") =>
          \A other \in AtMostOne(ConfiguredOf(Settings[call.setting].rule)) :
              ReportIsTrue(call.setting, call.env, call.rust, call.configured, Else(other, Settings[call.setting].default))
    /\ Asks("agent") => AgentIsAsReported(call.enabled, call.provider, call.env, call.configured)
    /\ Asks("none") => \A n \in 0 .. MaxMessages + 1 : KeepRecentOf(n, MaxMessages) \in 1 .. MaxMessages - 1

(***************************************************************************)
(* What a tool has written to a file of the prompt is in the prompt, and   *)
(* no file keeps another from it (see PromptFiles).                        *)
(***************************************************************************)
MemoryReachesPrompt ==
    /\ Asks("write") =>
          /\ \A mode \in {"append", "overwrite"} : AcceptedReachesPrompt(call.entry, call.content, mode)
          /\ ShowAgreesWithPrompt(call.entry)
          /\ \A replace \in BOOLEAN : AppendedIsCutLate(call.entry, call.content, replace)
    /\ Asks("prompt") => FilesReachPrompt(call.files)

(***************************************************************************)
(* A workspace is set up in one go or in several, and all commands find    *)
(* the same skills in it (see WorkspaceSetup).                             *)
(***************************************************************************)
SetupIsRepeatable ==
    Asks("init") =>
        InitIsRepeatable(call.ws, call.force, call.failing, call.torn) /\ SkillListsAgree(call.ws)

(***************************************************************************)
(* A session comes back from its export, and an import is whole or nothing *)
(* (see SessionTransfer).                                                  *)
(***************************************************************************)
ExportsComeBack ==
    /\ Asks("conversation") => ExportComesBack(call.history)
    /\ Asks("import") =>
          ImportIsWhole(call.sessions, call.body, call.asked, call.format, call.type, call.overwrite)

(***************************************************************************)
(* An answer reaches whoever asked as a whole, stays in the conversation,  *)
(* and the stub's comes to an end (see ChatAnswers).                       *)
(***************************************************************************)
AnswersAreKept ==
    /\ Asks("stream") => StreamShowsReply(call.authorised, call.field, call.accept, call.session, call.outcome)
    /\ Asks("repl") => ReplKeepsTurns(call.inputs)
    /\ Asks("stub") => StubTurnEnds(call.messages, call.quoted, call.output, call.limit)
=============================================================================
