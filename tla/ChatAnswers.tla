---------------------------- MODULE ChatAnswers ----------------------------
(***************************************************************************)
(* How an answer reaches whoever asked: the events of a stream, the        *)
(* conversation of `jiaclaw chat` (jiaclaw-host/src/main.rs), and the stub *)
(* that answers without a model (jiaclaw/src/lib.rs).                      *)
(***************************************************************************)
EXTENDS Naturals, Sequences, FiniteSets, SequencesExt

CONSTANT ChunkMax \* MAX_CHARS, the characters of a chunk

ASSUME ChunkAssumption == ChunkMax \in Nat \ {0}

-----------------------------------------------------------------------------
(***************************************************************************)
(* A text is a sequence of characters, of which "mark" ends a sentence.    *)
(* chunk_assistant_text cuts it there and where a chunk is full.           *)
(***************************************************************************)
Cut(chunks, char) ==
    LET current == Append(Last(chunks), char)
        grown == Append(Front(chunks), current)
    IN  IF char = "mark" \/ Len(current) >= ChunkMax THEN Append(grown, <<>>) ELSE grown

\* The chunks after each character: the last of them is not over.
ChunksUpTo(text) ==
    LET upTo[n \in 0 .. Len(text)] == IF n = 0 THEN <<<<>>>> ELSE Cut(upTo[n - 1], text[n])
    IN  upTo

Chunks(text) ==
    LET chunks == ChunksUpTo(text)[Len(text)]
    IN  IF Last(chunks) = <<>> THEN Front(chunks) ELSE chunks

\* tool_sse_payload: a call failed if its result is an object with an error that is a text.
ToolEvent(call) == [event |-> "tool", name |-> call.name, ok |-> call.result # "error"]

ToolEvents(calls) == [i \in DOMAIN calls |-> ToolEvent(calls[i])]

TokenEvent(chunk) == [event |-> "token", text |-> chunk]
TokenEvents(chunks) == [i \in DOMAIN chunks |-> TokenEvent(chunks[i])]

\* build_chat_sse_events; the outcome is an error, or a reply and the calls it took.
Events(session, outcome) ==
    <<[event |-> "meta", session |-> session]>> \o
    IF outcome.failed THEN <<[event |-> "error"]>>
    ELSE ToolEvents(outcome.calls) \o TokenEvents(Chunks(outcome.text))
             \o <<[event |-> "done", reply |-> outcome.text, session |-> session]>>

\* wants_event_stream: the body asks for it, or the Accept header names it (not by "*/*").
EventStreams == {"text/event-stream", "Text/Event-Stream;q=0.9"}
WantsStream(field, accept) == field \/ accept \cap EventStreams # {}

\* What chat_handler answers with.
ChatResponse(authorised, field, accept, session, outcome) ==
    IF ~authorised THEN [status |-> 401]
    ELSE IF WantsStream(field, accept) THEN [status |-> 200, events |-> Events(session, outcome)]
    ELSE IF outcome.failed THEN [status |-> 500]
    ELSE [status |-> 200, text |-> outcome.text, calls |-> outcome.calls, session |-> session]

-----------------------------------------------------------------------------
(***************************************************************************)
(* repl_chat: an input is the "end" of the input, a "broken" read, or a    *)
(* line that is "blank", "exit" or "quit", or asks something; chatting     *)
(* about it then answers or fails. The state has the conversation, and the *)
(* requests that were sent.                                                *)
(***************************************************************************)
Input(word, fails) == [word |-> word, fails |-> fails]
Stops(input) == input.word \in {"end", "broken", "exit", "quit"}
Said(role, word) == [role |-> role, word |-> word]

ReplStart == [runs |-> TRUE, requests |-> <<>>, history |-> <<>>]

ReplStep_KeepsFailed(repl, input) ==
    IF ~repl.runs \/ input.word = "blank" THEN repl
    ELSE IF Stops(input) THEN [runs |-> FALSE, requests |-> repl.requests, history |-> repl.history]
    ELSE LET asked == Append(repl.history, Said("user", input.word))
         IN  [runs |-> TRUE, requests |-> Append(repl.requests, asked),
              history |-> IF input.fails THEN asked ELSE Append(asked, Said("assistant", input.word))]

ReplStep(repl, input) ==
    IF ~repl.runs \/ input.word = "blank" THEN repl
    ELSE IF Stops(input) THEN [runs |-> FALSE, requests |-> repl.requests, history |-> repl.history]
    ELSE LET asked == Append(repl.history, Said("user", input.word))
         IN  [runs |-> TRUE, requests |-> Append(repl.requests, asked),
              history |-> IF input.fails THEN repl.history ELSE Append(asked, Said("assistant", input.word))]

ReplUpTo(inputs) ==
    LET upTo[n \in 0 .. Len(inputs)] == IF n = 0 THEN ReplStart ELSE ReplStep(upTo[n - 1], inputs[n])
    IN  upTo

Repl(inputs) == ReplUpTo(inputs)[Len(inputs)]

\* single_chat sends the one message, whatever it is.
SingleChat(word) == <<Said("user", word)>>

-----------------------------------------------------------------------------
(***************************************************************************)
(* The stub. A text is the set of the keywords it has ("block": a call of  *)
(* a tool, which begins with "```tool"). The first rule that fits answers. *)
(* Answers quote text: that of each rule in Quoting the names and          *)
(* descriptions of skills or of the configuration, and where no rule fits  *)
(* the message. The calls written in the quoted text are calls of the      *)
(* answer (parse_tool_calls): an input, and "message" for the last one.    *)
(***************************************************************************)
ToolRules ==
    <<[words |-> {{"list workspace"}}, tool |-> "workspace_list"],
      [words |-> {{"read memory"}, {"memory", "read"}}, tool |-> "memory_read"],
      [words |-> {{"time"}}, tool |-> "datetime_now"],
      [words |-> {{"list", "files"}}, tool |-> "file_list"]>>
TextRules == <<"hello", "tool", "skill", "features", "help", "status">>
Quoting == {"hello", "skill", "features", "status"}

WordsOf(words) == IF "block" \in words THEN words \cup {"tool"} ELSE words
Fits(rule, text) == \E words \in rule.words : words \subseteq text

FirstOf(rules) == CHOOSE i \in rules : \A j \in rules : i <= j

\* generate_stub_response: the calls in the answer
StubCalls(text, quoted) ==
    LET tools == {i \in DOMAIN ToolRules : Fits(ToolRules[i], text)}
        texts == {i \in DOMAIN TextRules : TextRules[i] \in text}
        rule == TextRules[FirstOf(texts)]
    IN  IF text \cap {"results", "succeeded"} # {} THEN <<>>
        ELSE IF tools # {} THEN <<ToolRules[FirstOf(tools)].tool>>
        ELSE IF texts # {} THEN IF rule \in Quoting THEN quoted[rule] ELSE <<>>
        ELSE IF "block" \in text THEN <<"message">> ELSE <<>>

\* stub_chat answers the last message of the user.
StubChat(messages, quoted) ==
    LET asked == {i \in DOMAIN messages : messages[i].role = "user"}
    IN  StubCalls(IF asked = {} THEN {} ELSE messages[CHOOSE i \in asked : \A j \in asked : j <= i].words, quoted)

(***************************************************************************)
(* execute_tool_loop with the stub: the results of a round come back as a  *)
(* message of the user that says so, whatever else is in them (output).    *)
(***************************************************************************)
Feedback(output) == [role |-> "user", words |-> WordsOf({"results"} \cup output)]

TurnOf(said, executed, messages) == [said |-> said, executed |-> executed, messages |-> messages]

\* One round: the answer, then the calls it has, but for those of the last round allowed.
Round(turn, quoted, output, limit, round) ==
    LET calls == StubChat(turn.messages, quoted)
    IN  IF turn.said # "running" THEN turn
        ELSE IF calls = <<>> THEN TurnOf("answered", turn.executed, turn.messages)
        ELSE IF round >= limit THEN TurnOf("stopped", turn.executed, turn.messages)
        ELSE TurnOf("running", turn.executed \o calls,
                  turn.messages \o <<[role |-> "assistant", words |-> {}], Feedback(output)>>)

TurnUpTo(messages, quoted, output, limit) ==
    LET upTo[n \in 0 .. limit] ==
            IF n = 0 THEN TurnOf("running", <<>>, messages) ELSE Round(upTo[n - 1], quoted, output, limit, n)
    IN  upTo

StubTurn(messages, quoted, output, limit) == TurnUpTo(messages, quoted, output, limit)[limit]

-----------------------------------------------------------------------------
\* The texts of some chunks, put together.
AddChunk(joined, chunk) == joined \o chunk
JoinedUpTo(chunks) ==
    LET upTo[n \in 0 .. Len(chunks)] == IF n = 0 THEN <<>> ELSE AddChunk(upTo[n - 1], chunks[n])
    IN  upTo
Joined(chunks) == JoinedUpTo(chunks)[Len(chunks)]

\* After the first event each call, then the text in chunks that are full or end a sentence, but for the last.
EventsTell(events, calls, text) ==
    LET before == 1 + Len(calls)
        chunks == [i \in 1 .. Len(events) - before - 1 |-> events[before + i].text]
    IN  /\ \A i \in DOMAIN events : events[i].event = "tool" <=> i \in 2 .. before
        /\ \A i \in DOMAIN calls : events[i + 1].name = calls[i].name
        /\ \A i \in DOMAIN events : events[i].event = "token" <=> i \in before + 1 .. Len(events) - 1
        /\ Joined(chunks) = text
        /\ \A i \in DOMAIN chunks :
              /\ Len(chunks[i]) \in 1 .. ChunkMax
              /\ i < Len(chunks) => Last(chunks[i]) = "mark" \/ Len(chunks[i]) = ChunkMax

(***************************************************************************)
(* A client that puts the tokens together has the very reply, however the  *)
(* reply was cut; it learns of each call before, once and in order, and of *)
(* the end (or the error) once and last. Asking for a stream changes only  *)
(* the form of an answer, and a refusal not even that.                     *)
(***************************************************************************)
StreamShowsReply(authorised, field, accept, session, outcome) ==
    LET streamed == ChatResponse(authorised, TRUE, accept, session, outcome)
        plain == ChatResponse(authorised, FALSE, {}, session, outcome)
        asked == ChatResponse(authorised, field, accept, session, outcome)
    IN  /\ asked \in {streamed, plain}
        /\ ~authorised => streamed = plain
        /\ authorised =>
              LET events == streamed.events
                  Ends(e) == e.event \in {"done", "error"}
              IN  /\ events[1].event = "meta"
                  /\ \A i \in DOMAIN events : Ends(events[i]) <=> i = Len(events)
                  /\ plain.status = 500 <=> Last(events).event = "error"
                  /\ plain.status = 200 => Last(events).reply = plain.text /\ EventsTell(events, plain.calls, plain.text)

\* How many of some inputs there are up to the n-th, and whether messages are their turns in order.
NumberOf(some, n) == Cardinality({i \in some : i <= n})
HasTurns(messages, inputs, answered, n) ==
    \A i \in answered :
        i <= n =>
            /\ messages[2 * NumberOf(answered, i) - 1] = Said("user", inputs[i].word)
            /\ messages[2 * NumberOf(answered, i)] = Said("assistant", inputs[i].word)

(***************************************************************************)
(* The conversation of the command line has each answered turn, a question *)
(* with its answer, and nothing of the turns that failed; so every request *)
(* has the whole of it and then one more question, and nothing is sent     *)
(* after the end.                                                          *)
(***************************************************************************)
ReplKeepsTurns(inputs) ==
    LET repl == Repl(inputs)
        sent == {i \in DOMAIN inputs : inputs[i].word # "blank" /\ \A j \in 1 .. i : ~Stops(inputs[j])}
        answered == {i \in sent : ~inputs[i].fails}
    IN  /\ Len(repl.requests) = Cardinality(sent)
        /\ \A i \in sent :
              LET request == repl.requests[NumberOf(sent, i)]
              IN  /\ Len(request) = 2 * NumberOf(answered, i - 1) + 1 /\ HasTurns(request, inputs, answered, i - 1)
                  /\ <<Last(request)>> = SingleChat(inputs[i].word)
        /\ Len(repl.history) = 2 * Cardinality(answered) /\ HasTurns(repl.history, inputs, answered, Len(inputs))
        /\ repl.runs <=> \A i \in DOMAIN inputs : ~Stops(inputs[i])

(***************************************************************************)
(* A turn of the stub ends, whatever the tools put out and the texts of    *)
(* skills and configuration have in them: only its first answer can hold   *)
(* calls, one of its own or those that the text it quotes has written out. *)
(* It never executes a call that a message of the user has written out.    *)
(* It is stopped only where a single answer is allowed.                    *)
(***************************************************************************)
StubTurnEnds(messages, quoted, output, limit) ==
    LET turn == StubTurn(messages, quoted, output, limit)
        calls == StubChat(messages, quoted)
    IN  /\ turn.said # "running"
        /\ Len(turn.executed) <= 1 \/ \E rule \in Quoting : turn.executed = quoted[rule]
        /\ "message" \notin ToSet(turn.executed)
        /\ limit > 1 => turn.said = "answered" /\ turn.executed = calls
        /\ limit = 1 => turn.executed = <<>> /\ (turn.said = "stopped" <=> calls # <<>>)
=============================================================================
