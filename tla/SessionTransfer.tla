-------------------------- MODULE SessionTransfer --------------------------
(***************************************************************************)
(* Export and import of a session, by the server and by `jiaclaw session`, *)
(* which reads and rewrites the file of the sessions                       *)
(* (jiaclaw-host/src/main.rs). Authorisation is in HttpLayers, and what    *)
(* other requests do meanwhile in SessionStore.                            *)
(*                                                                         *)
(* A body is a "document" (a JSON object with the messages and perhaps an  *)
(* id), "lines" of which each is a message, "blank" or "bad", or "garbled" *)
(* (not UTF-8). Optional values are sets with at most one element.         *)
(***************************************************************************)
EXTENDS SessionHistory

Line(kind, messages) == [kind |-> kind, messages |-> messages]
Body(kind, lines, id, messages) == [kind |-> kind, lines |-> lines, id |-> id, messages |-> messages]
JsonLines(lines) == Body("lines", lines, {}, <<>>)
Document(id, messages) == Body("document", <<>>, id, messages)
Garbled == Body("garbled", <<>>, {}, <<>>)

-----------------------------------------------------------------------------
\* wants_json_export, whose comparison ignores case
WantsJson(format) == format \cap {"json", "JSON"} # {}

\* encode_messages_jsonl
EncodeJsonl(h) == JsonLines([i \in DOMAIN h |-> Line("message", <<h[i]>>)])

\* export_session_handler: the body, if there is such a session
ExportSession(sessions, id, format) ==
    {IF WantsJson(format) THEN Document({id}, sessions[i]) ELSE EncodeJsonl(sessions[i]) :
        i \in {id} \cap DOMAIN sessions}

-----------------------------------------------------------------------------
Rejected == [rejected |-> TRUE]
Parsed(id, messages) == [rejected |-> FALSE, id |-> id, messages |-> messages]

\* The messages of the first lines of a body, of none, one, two and so on.
AddLine(messages, line) == messages \o line.messages

MessagesUpTo(lines) ==
    LET upTo[n \in 0 .. Len(lines)] == IF n = 0 THEN <<>> ELSE AddLine(upTo[n - 1], lines[n])
    IN  upTo

MessagesOf(lines) == MessagesUpTo(lines)[Len(lines)]

\* parse_session_import_jsonl, for which one bad line makes the whole body bad
ParseJsonl_SkipsBad(body) ==
    IF body.kind = "lines" THEN Parsed({}, MessagesOf(body.lines)) ELSE Rejected

ParseJsonl(body) ==
    IF body.kind = "lines" /\ \A i \in DOMAIN body.lines : body.lines[i].kind # "bad"
    THEN Parsed({}, MessagesOf(body.lines)) ELSE Rejected

ParseJson(body) == IF body.kind = "document" THEN Parsed(body.id, body.messages) ELSE Rejected

\* parse_session_import_file
ParseFile(body) == IF ParseJson(body).rejected THEN ParseJsonl(body) ELSE ParseJson(body)

\* wants_json_import; the type of a body may have parameters
JsonTypes == {"application/json", "Application/JSON; charset=utf-8"}
WantsJsonImport(format, type) == WantsJson(format) \/ type \cap JsonTypes # {}

\* first_nonempty_id and resolve_import_session_id
NewId == "uuid"
Nonempty(id) == {IF i = " s1 " THEN "s1" ELSE i : i \in id} \ {"blank"}
ResolveId(asked, own) ==
    CHOOSE id \in IF Nonempty(asked) # {} THEN Nonempty(asked)
                  ELSE IF Nonempty(own) # {} THEN Nonempty(own) ELSE {NewId} : TRUE

(***************************************************************************)
(* What both imports do with the sessions they have.                       *)
(***************************************************************************)
Insert(sessions, parsed, asked, overwrite) ==
    IF parsed.rejected THEN [said |-> "invalid", sessions |-> sessions]
    ELSE LET id == ResolveId(asked, parsed.id)
         IN  IF id \in DOMAIN sessions /\ ~overwrite THEN [said |-> "exists", sessions |-> sessions]
             ELSE [said |-> "imported", id |-> id,
                   sessions |-> [s \in DOMAIN sessions \cup {id} |->
                                    IF s = id THEN ImportCompaction(parsed.messages) ELSE sessions[s]]]

\* import_session_handler
ImportSession(sessions, body, asked, format, type, overwrite) ==
    Insert(sessions, IF WantsJsonImport(format, type) THEN ParseJson(body) ELSE ParseJsonl(body), asked, overwrite)

-----------------------------------------------------------------------------
(***************************************************************************)
(* The command line. The disk has a "file" of sessions, or it is "missing" *)
(* or "unreadable" (also if it cannot be parsed): then there are none.     *)
(***************************************************************************)
Disk(kind, sessions) == [kind |-> kind, sessions |-> sessions]
LoadSessions(disk) == IF disk.kind = "file" THEN disk.sessions ELSE <<>>

\* export_session_from_persist_file
ExportCommand(disk, id) == ExportSession(LoadSessions(disk), id, {})

\* import_session_into_persist_file; a save that fails leaves the file as it was.
ImportCommand(disk, body, asked, overwrite, saves) ==
    LET done == Insert(LoadSessions(disk), ParseFile(body), asked, overwrite)
    IN  IF done.said # "imported" THEN [said |-> done.said, disk |-> disk]
        ELSE IF ~saves THEN [said |-> "not saved", disk |-> disk]
        ELSE [said |-> "imported", id |-> done.id, disk |-> Disk("file", done.sessions)]

-----------------------------------------------------------------------------
(***************************************************************************)
(* What was exported can be imported again, in either format, by the       *)
(* server and by the command, and is the same session then; but the server *)
(* must be told which format it gets.                                      *)
(***************************************************************************)
ExportComesBack(history) ==
    LET sessions == [s \in {"s1"} |-> history]
        Back(done, id) == done.said = "imported" /\ done.id = id /\ done.sessions[id] = ImportCompaction(history)
    IN  \A format \in {{}, {"json"}, {"JSON"}} : \A body \in ExportSession(sessions, "s1", format) :
            LET own == IF format = {} THEN NewId ELSE "s1"
            IN  /\ Back(ImportSession(<<>>, body, {}, format, {}, FALSE), own)
                /\ Back(ImportSession(sessions, body, {" s1 "}, format, {}, TRUE), "s1")
                /\ ImportSession(sessions, body, {"s1"}, format, {}, FALSE).said = "exists"
                /\ ImportSession(sessions, body, {}, {}, JsonTypes, TRUE).said = "invalid" <=> format = {}
                /\ LET byCommand == ImportCommand(Disk("missing", <<>>), body, {"s2"}, FALSE, TRUE)
                   IN  /\ byCommand.said = "imported"
                       /\ ExportCommand(byCommand.disk, "s2") = {EncodeJsonl(ImportCompaction(history))}

(***************************************************************************)
(* An import takes every line of its body or nothing, and changes no other *)
(* session, by either way; and what the server takes, the command does. An *)
(* import that could not be saved leaves the file, even an unreadable one. *)
(***************************************************************************)
ImportIsWhole(sessions, body, asked, format, type, overwrite) ==
    LET server == ImportSession(sessions, body, asked, format, type, overwrite)
        command == ImportCommand(Disk("file", sessions), body, asked, overwrite, TRUE)
        Whole(said, id, after) ==
            /\ said = "imported" =>
                  /\ DOMAIN after = DOMAIN sessions \cup {id}
                  /\ \A other \in DOMAIN sessions \ {id} : after[other] = sessions[other]
                  /\ id \in DOMAIN sessions => overwrite
                  /\ body.kind = "lines" =>
                        LET given == Cardinality({i \in DOMAIN body.lines : body.lines[i].kind # "blank"})
                        IN  given <= MaxMessages => Len(after[id]) = given
            /\ said # "imported" => after = sessions
    IN  /\ Whole(server.said, IF server.said = "imported" THEN server.id ELSE "", server.sessions)
        /\ Whole(command.said, IF command.said = "imported" THEN command.id ELSE "", command.disk.sessions)
        /\ server.said # "invalid" => command.said = server.said
        /\ LET failed == ImportCommand(Disk("unreadable", sessions), body, asked, overwrite, FALSE)
           IN  failed.said # "imported" /\ failed.disk.sessions = sessions
=============================================================================
