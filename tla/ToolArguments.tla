--------------------------- MODULE ToolArguments ---------------------------
(***************************************************************************)
(* The arguments of the tools a model may call: the schema that each tool  *)
(* declares to the model, and the parser that its arguments go through     *)
(* (crates/jiaclaw/src/files.rs, tools.rs and memory.rs).                  *)
(*                                                                         *)
(* A JSON value is a record with one field that names its type.  Of a text *)
(* the parsers tell apart whether it is empty, blank, padded with blanks,  *)
(* too long, or a word they know.  Numbers are small, and so are the       *)
(* limits: MaxOf is the cap of each tool's results.                        *)
(***************************************************************************)
EXTENDS Integers, Sequences

CONSTANTS MaxOf,     \* the cap of the number of results, by tool
          DefaultOf, \* what a tool returns at most if nothing is asked for
          MinChars   \* the least max_chars of web_fetch

\* The tools that are asked for a number of lines, results or characters.
Limited == {"read_file", "list_dir", "grep", "glob", "memory_search", "web_search", "web_fetch"}

\* By default a tool returns something, and no more than it can (the constants of each of them).
ASSUME ArgumentsAssumption ==
    /\ MaxOf \in [Limited -> Nat \ {0}]
    /\ DefaultOf \in [Limited -> Nat \ {0}] /\ \A tool \in Limited : DefaultOf[tool] <= MaxOf[tool]
    /\ MinChars \in 1 .. DefaultOf["web_fetch"]

Absent == [absent |-> TRUE]
Null == [null |-> TRUE]
Text(word) == [text |-> word]
Number(n) == [integer |-> n]
Flag(b) == [boolean |-> b]
Array(items) == [array |-> items]
Other == [other |-> TRUE]

Is(v, type) == type \in DOMAIN v
Missing(v) == v \in {Absent, Null}

Refused == [refused |-> TRUE]
Unset == [unset |-> TRUE]
Got(value) == [got |-> value]

Trim(word) == CASE word = "blank" -> "empty"
                [] word = "padded" -> "text"
                [] OTHER -> word

-----------------------------------------------------------------------------
\* What the parsers do with one value.

\* as_str, trim, and not empty: no text at all is refused too.
RequiredText(v) == IF Is(v, "text") /\ Trim(v.text) # "empty" THEN Got(Trim(v.text)) ELSE Refused

\* Any text, even an empty one.
AnyText(v) == IF Is(v, "text") THEN Got(v.text) ELSE Refused

\* A text to search for: not trimmed, not empty, and not too long.
SearchText(v, limited) ==
    IF Is(v, "text") /\ v.text # "empty" /\ (limited => v.text # "long") THEN Got(v.text) ELSE Refused

\* An optional path, by default the workspace.
PathOrRoot(v) ==
    IF Missing(v) THEN Got(".")
    ELSE IF ~Is(v, "text") THEN Refused
    ELSE IF Trim(v.text) = "empty" THEN Got(".") ELSE Got(Trim(v.text))

OptionalFlag(v, default) ==
    IF Missing(v) THEN Got(default) ELSE IF Is(v, "boolean") THEN Got(v.boolean) ELSE Refused

\* parse_positive_usize, which a zero passes too.
Unsigned(v) == Is(v, "integer") /\ v.integer >= 0

Clamp(n, low, high) == IF n < low THEN low ELSE IF n > high THEN high ELSE n

AtLeastOne(v, default) ==
    IF Missing(v) THEN Got(default)
    ELSE IF Unsigned(v) THEN Got(IF v.integer < 1 THEN 1 ELSE v.integer) ELSE Refused

\* A number of results that is taken as it is given.
Results_Raw(v, tool, low) ==
    IF Missing(v) THEN Got(DefaultOf[tool])
    ELSE IF Unsigned(v) THEN Got(v.integer) ELSE Refused

\* A number of results, clamped to what the tool returns.
Results(v, tool, low) ==
    IF Missing(v) THEN Got(DefaultOf[tool])
    ELSE IF Unsigned(v) THEN Got(Clamp(v.integer, low, MaxOf[tool])) ELSE Refused

\* The same, where null is a value that is no number.
ResultsNotNull(v, tool, low) == IF v = Null THEN Refused ELSE Results(v, tool, low)

Mode(v, default) ==
    IF Missing(v) THEN Got(default)
    ELSE IF Is(v, "text") /\ Trim(v.text) \in {"overwrite", "append"} THEN Got(Trim(v.text)) ELSE Refused

\* Two names of one parameter, which must agree if both are given.
Alias(a, b, default) ==
    IF Refused \in {a, b} THEN Refused
    ELSE IF a = Unset THEN (IF b = Unset THEN default ELSE b)
    ELSE IF b \in {Unset, a} THEN a ELSE Refused

FlagAlias(v) == IF Missing(v) THEN Unset ELSE OptionalFlag(v, TRUE)
PathAlias(v) == IF Missing(v) THEN Unset ELSE RequiredText(v)

\* A list of paths: none of them blank.
Paths(v) ==
    IF Missing(v) \/ v = Array(<<>>) THEN Got("default paths")
    ELSE IF Is(v, "array") /\ \A i \in DOMAIN v.array : RequiredText(v.array[i]) # Refused
    THEN Got("given paths") ELSE Refused

\* The texts of a list; what is no text is left out, what is no list is empty.
LooseTexts(v) == Got(IF Is(v, "array") THEN SelectSeq(v.array, LAMBDA item : Is(item, "text")) ELSE <<>>)
LooseText(v) == Got(IF Is(v, "text") THEN v.text ELSE "empty")

-----------------------------------------------------------------------------
\* The parsers.

ReadFileArgs(a) ==
    [path |-> RequiredText(a.path), offset |-> AtLeastOne(a.offset, 1), limit |-> AtLeastOne(a.limit, MaxOf["read_file"])]
ListDirArgs(a) ==
    [path |-> PathOrRoot(a.path), max_entries |-> Results(a.max_entries, "list_dir", 1),
     recursive |-> OptionalFlag(a.recursive, FALSE)]
WriteFileArgs(a) ==
    [path |-> RequiredText(a.path), content |-> AnyText(a.content), mode |-> Mode(a.mode, "overwrite")]
DeleteFileArgs(a) == [path |-> RequiredText(a.path)]
StrReplaceArgs(a) ==
    [path |-> RequiredText(a.path), old_str |-> SearchText(a.old_str, FALSE), new_str |-> AnyText(a.new_str),
     replace_all |-> OptionalFlag(a.replace_all, FALSE)]
GrepArgs(a) ==
    [pattern |-> SearchText(a.pattern, TRUE), path |-> PathOrRoot(a.path),
     glob |-> IF Is(a.glob, "text") /\ a.glob.text = "long" THEN Refused ELSE PathOrRoot(a.glob),
     case_insensitive |-> OptionalFlag(a.case_insensitive, FALSE),
     max_matches |-> Results(a.max_matches, "grep", 1)]
GlobArgs(a) ==
    [pattern |-> IF Is(a.pattern, "text") /\ a.pattern.text = "long" THEN Refused ELSE RequiredText(a.pattern),
     path |-> PathOrRoot(a.path), max_results |-> Results(a.max_results, "glob", 1)]
MkdirArgs(a) ==
    [path |-> RequiredText(a.path), recursive |-> Alias(FlagAlias(a.recursive), FlagAlias(a.parents), Got(TRUE))]
MoveArgs(a) ==
    [from |-> Alias(PathAlias(a.from), PathAlias(a.source), Refused),
     to |-> Alias(PathAlias(a.to), PathAlias(a.destination), Refused),
     overwrite |-> OptionalFlag(a.overwrite, FALSE)]
MemoryWriteArgs(a) == [content |-> AnyText(a.content), mode |-> Mode(a.mode, "append")]
MemoryAppendArgs(a) ==
    [content |-> AnyText(a.content), replace |-> Got(Is(a.replace, "boolean") /\ a.replace.boolean)]
MemorySearchArgs(a) ==
    [query |-> RequiredText(a.query), max_results |-> ResultsNotNull(a.max_results, "memory_search", 1),
     paths |-> Paths(a.paths)]
WebSearchArgs(a) ==
    [query |-> RequiredText(a.query), max_results |-> ResultsNotNull(a.max_results, "web_search", 1)]
WebFetchArgs(a) ==
    [url |-> RequiredText(a.url), max_chars |-> ResultsNotNull(a.max_chars, "web_fetch", MinChars)]

MemoryReadArgs(a) == [file |-> IF Is(a.file, "text") /\ a.file.text = "MEMORY.md" THEN Got("MEMORY.md") ELSE Refused]
FileReadArgs(a) == [path |-> AnyText(a.path)]
FileWriteArgs(a) == [path |-> AnyText(a.path), content |-> AnyText(a.content)]
FileListArgs(a) == [path |-> LooseText(a.path)]
FileCopyArgs(a) == [source |-> AnyText(a.source), destination |-> AnyText(a.destination)]
HttpGetArgs(a) == [url |-> IF Is(a.url, "text") /\ a.url.text = "text" THEN Got("text") ELSE Refused]
JsonQueryArgs(a) == [json |-> AnyText(a.json), path |-> LooseText(a.path)]
ShellExecArgs(a) ==
    [command |-> IF Is(a.command, "text") /\ a.command.text = "text" THEN Got("text") ELSE Refused,
     args |-> LooseTexts(a.args)]

-----------------------------------------------------------------------------
\* The schemas: the type of each property, and those that are required.

String == [type |-> {"text"}, required |-> FALSE]
Boolean == [type |-> {"boolean"}, required |-> FALSE]
Strings == [type |-> {"array"}, required |-> FALSE]
Enum(words) == [type |-> {"text"}, required |-> FALSE, words |-> words]
Integer(low, high) == [type |-> {"integer"}, required |-> FALSE, low |-> low, high |-> high]
Needed(property) == [property EXCEPT !.required = TRUE]
Unbounded == 1000000

ReadFileSchema == [path |-> Needed(String), offset |-> Integer(1, Unbounded), limit |-> Integer(1, Unbounded)]
ListDirSchema == [path |-> String, max_entries |-> Integer(1, Unbounded), recursive |-> Boolean]
WriteFileSchema == [path |-> Needed(String), content |-> Needed(String), mode |-> Enum({"overwrite", "append"})]
DeleteFileSchema == [path |-> Needed(String)]
StrReplaceSchema ==
    [path |-> Needed(String), old_str |-> Needed(String), new_str |-> Needed(String), replace_all |-> Boolean]
GrepSchema ==
    [pattern |-> Needed(String), path |-> String, glob |-> String, case_insensitive |-> Boolean,
     max_matches |-> Integer(1, Unbounded)]
GlobSchema == [pattern |-> Needed(String), path |-> String, max_results |-> Integer(1, Unbounded)]
MkdirSchema == [path |-> Needed(String), recursive |-> Boolean, parents |-> Boolean]
MoveSchema ==
    [from |-> Needed(String), source |-> String, to |-> Needed(String), destination |-> String,
     overwrite |-> Boolean]
MemoryWriteSchema == [content |-> Needed(String), mode |-> Enum({"overwrite", "append"})]
MemoryAppendSchema == [content |-> Needed(String), replace |-> Boolean]
MemorySearchSchema ==
    [query |-> Needed(String), max_results |-> Integer(1, MaxOf["memory_search"]), paths |-> Strings]
WebSearchSchema == [query |-> Needed(String), max_results |-> Integer(1, MaxOf["web_search"])]
WebFetchSchema == [url |-> Needed(String), max_chars |-> Integer(MinChars, MaxOf["web_fetch"])]
MemoryReadSchema == [file |-> Needed(Enum({"MEMORY.md"}))]
FileReadSchema == [path |-> Needed(String)]
FileWriteSchema == [path |-> Needed(String), content |-> Needed(String)]
FileListSchema == [path |-> String]
FileCopySchema == [source |-> Needed(String), destination |-> Needed(String)]
HttpGetSchema == [url |-> Needed(String)]
JsonQuerySchema == [json |-> Needed(String), path |-> String]
ShellExecSchema == [command |-> Needed(String), args |-> Strings]

Schemas ==
    [read_file |-> ReadFileSchema, list_dir |-> ListDirSchema, write_file |-> WriteFileSchema,
     delete_file |-> DeleteFileSchema, str_replace |-> StrReplaceSchema, grep |-> GrepSchema,
     glob |-> GlobSchema, mkdir |-> MkdirSchema, move |-> MoveSchema, memory_write |-> MemoryWriteSchema,
     memory_append |-> MemoryAppendSchema, memory_search |-> MemorySearchSchema, web_search |-> WebSearchSchema, web_fetch |-> WebFetchSchema,
     memory_read |-> MemoryReadSchema, file_read |-> FileReadSchema, file_write |-> FileWriteSchema,
     file_list |-> FileListSchema, file_copy |-> FileCopySchema, http_get |-> HttpGetSchema,
     json_query |-> JsonQuerySchema, shell_exec |-> ShellExecSchema]

ParseArgs(tool, a) ==
    CASE tool = "read_file" -> ReadFileArgs(a) [] tool = "list_dir" -> ListDirArgs(a)
      [] tool = "write_file" -> WriteFileArgs(a) [] tool = "delete_file" -> DeleteFileArgs(a)
      [] tool = "str_replace" -> StrReplaceArgs(a) [] tool = "grep" -> GrepArgs(a)
      [] tool = "glob" -> GlobArgs(a) [] tool = "mkdir" -> MkdirArgs(a) [] tool = "move" -> MoveArgs(a)
      [] tool = "memory_append" -> MemoryAppendArgs(a)
      [] tool = "memory_write" -> MemoryWriteArgs(a) [] tool = "memory_search" -> MemorySearchArgs(a)
      [] tool = "web_search" -> WebSearchArgs(a) [] tool = "web_fetch" -> WebFetchArgs(a)
      [] tool = "memory_read" -> MemoryReadArgs(a) [] tool = "file_read" -> FileReadArgs(a)
      [] tool = "file_write" -> FileWriteArgs(a) [] tool = "file_list" -> FileListArgs(a)
      [] tool = "file_copy" -> FileCopyArgs(a) [] tool = "http_get" -> HttpGetArgs(a)
      [] tool = "json_query" -> JsonQueryArgs(a) [] tool = "shell_exec" -> ShellExecArgs(a)

-----------------------------------------------------------------------------

Conforms(v, property) ==
    \/ v = Absent /\ ~property.required
    \/ \E type \in property.type :
          /\ Is(v, type)
          /\ "words" \in DOMAIN property => v.text \in property.words
          /\ type = "integer" => v.integer \in property.low .. property.high
          /\ type = "array" => \A i \in DOMAIN v.array : Is(v.array[i], "text")

\* What no schema can say: a text to act on is neither blank nor too long.
Usable(v, property) ==
    /\ Is(v, "text") /\ "words" \notin DOMAIN property => v.text \in {"text", "padded"}
    /\ Is(v, "array") => \A i \in DOMAIN v.array : v.array[i] = Text("text")

Aliases == {<<"recursive", "parents">>, <<"from", "source">>, <<"to", "destination">>}
Agree(a) ==
    \A pair \in Aliases :
        pair[1] \in DOMAIN a /\ pair[2] \in DOMAIN a =>
            a[pair[1]] = a[pair[2]] \/ Absent \in {a[pair[1]], a[pair[2]]}

(***************************************************************************)
(* The parser of every tool keeps to the schema the tool declares: what    *)
(* conforms is accepted, what is accepted has every required property, and *)
(* every number of results is one the tool can return, the one asked for   *)
(* if the tool can.  Aliases must agree, and stand for each other.         *)
(***************************************************************************)
ParserKeepsSchema(tool, a) ==
    LET schema == Schemas[tool]
        parsed == ParseArgs(tool, a)
        accepted == \A p \in DOMAIN parsed : parsed[p] # Refused
        exact == tool \in {"http_get", "shell_exec"} => \A p \in DOMAIN a : a[p] # Text("padded")
    IN  /\ (\A p \in DOMAIN schema : Conforms(a[p], schema[p]) /\ Usable(a[p], schema[p])) /\ Agree(a) /\ exact
              => accepted
        /\ accepted /\ tool # "move" =>
              \A p \in DOMAIN schema : schema[p].required => ~Missing(a[p])
        /\ accepted =>
              \A p \in DOMAIN schema \cap DOMAIN parsed :
                  "low" \in DOMAIN schema[p] =>
                      /\ parsed[p].got >= schema[p].low
                      /\ tool # "read_file" => parsed[p].got <= MaxOf[tool]
                      /\ Is(a[p], "integer") /\ a[p].integer \in schema[p].low .. MaxOf[tool]
                            => parsed[p].got = a[p].integer
=============================================================================
