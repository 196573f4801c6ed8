---------------------------- MODULE PromptFiles ----------------------------
(***************************************************************************)
(* The files of the workspace that the program reads by itself: SOUL.md,   *)
(* USER.md and MEMORY.md, which every chat takes into its prompt, and      *)
(* HEARTBEAT.md; how tools write them, and the search through them         *)
(* (jiaclaw/src/memory.rs, identity.rs, heartbeat.rs).                     *)
(*                                                                         *)
(* A text is a sequence of characters. What a configured path leads to is  *)
(* an entry: a "file" with its text, one that is "garbled" (not UTF-8) or  *)
(* "closed" (cannot be read), a "dir", nothing ("missing"), something      *)
(* outside the workspace ("outside"), or the path is "refused" at once: it *)
(* is empty, absolute or has a "..".                                       *)
(***************************************************************************)
EXTENDS Naturals, Sequences, FiniteSets, SequencesExt

CONSTANTS
    PromptMax,  \* bytes of a file that are taken into the prompt, and that memory_write may leave in one
    SearchMax,  \* bytes of a file that memory_search reads
    Radius      \* lines around a hit that memory_search shows

ASSUME PromptAssumption == PromptMax \in Nat /\ SearchMax \in Nat /\ Radius \in Nat

\* The bytes of a character; "wide" is any that takes more than one.
Width(c) == IF c = "wide" THEN 3 ELSE 1
BytesUpTo(text) ==
    LET bytes[n \in 0 .. Len(text)] == IF n = 0 THEN 0 ELSE bytes[n - 1] + Width(text[n])
    IN  bytes
BytesOf(text) == BytesUpTo(text)[Len(text)]
IsBlankText(text) == \A i \in DOMAIN text : text[i] \in {"blank", "newline"}

Entry(kind, text) == [kind |-> kind, text |-> text]
IsFile(entry) == entry.kind \in {"file", "garbled", "closed"}

\* A Result<Option<..>>: it failed, or it has at most one value.
Failure == [failed |-> TRUE, value |-> {}]
Result(value) == [failed |-> FALSE, value |-> value]

-----------------------------------------------------------------------------
\* resolve_workspace_relative_path with the checks that follow it.
Resolves(entry) == entry.kind \notin {"refused", "outside"}

\* truncate_utf8: the longest beginning that has no more bytes.
Truncated(text, max) ==
    CHOOSE prefix \in Prefixes(text) :
        /\ BytesOf(prefix) <= max
        /\ \A other \in Prefixes(text) : BytesOf(other) <= max => Len(other) <= Len(prefix)

\* The text of a file as a whole, if it has one that is more than blanks.
WholeText(entry) ==
    IF ~Resolves(entry) \/ entry.kind \in {"garbled", "closed"} THEN Failure
    ELSE Result({text \in {entry.text} : entry.kind = "file" /\ ~IsBlankText(text)})

\* load_prompt_file, for which only the beginning of a long file counts.
LoadPromptFile(entry) ==
    LET whole == WholeText(entry)
    IN  [whole EXCEPT !.value = {Truncated(text, PromptMax) : text \in @}]

\* load_heartbeat_message: the whole text is the message of the heartbeat's turn.
LoadHeartbeatMessage(entry) == WholeText(entry)

\* inspect_workspace_file, for doctor: the bytes of the file, if there is one.
Inspect(entry) ==
    IF ~Resolves(entry) THEN Failure ELSE Result({BytesOf(e.text) : e \in {x \in {entry} : IsFile(x)}})

\* memory_show_command and identity_show_command: what they say of the file.
Show(entry) ==
    IF ~Resolves(entry) \/ entry.kind \in {"garbled", "closed"} THEN "error"
    ELSE IF ~IsFile(entry) THEN "missing"
    ELSE IF IsBlankText(entry.text) THEN "blank" ELSE "shown"

-----------------------------------------------------------------------------
\* join_memory_append: an empty line stands between what was there and what is added.
JoinAppend(existing, addition) ==
    IF existing = <<>> THEN addition
    ELSE existing \o (IF Last(existing) = "newline" THEN <<>> ELSE <<"newline">>) \o <<"newline">> \o addition

NewContents(entry, content, replace) ==
    IF replace \/ entry.kind = "missing" THEN content ELSE JoinAppend(entry.text, content)

(***************************************************************************)
(* write_workspace_file_with_limit: the entry that is there afterwards.    *)
(* limits holds the limit, if there is one; it is on the whole new file.   *)
(***************************************************************************)
WriteRefused(entry, replace) ==
    ~Resolves(entry) \/ entry.kind = "dir" \/ (entry.kind \in {"garbled", "closed"} /\ ~replace)

WriteFile_LimitsAddition(entry, content, replace, limits) ==
    IF WriteRefused(entry, replace) \/ \E limit \in limits : BytesOf(content) > limit THEN Failure
    ELSE Result({Entry("file", NewContents(entry, content, replace))})

WriteFile(entry, content, replace, limits) ==
    IF WriteRefused(entry, replace) \/ \E limit \in limits : BytesOf(NewContents(entry, content, replace)) > limit
    THEN Failure
    ELSE Result({Entry("file", NewContents(entry, content, replace))})

\* The tools: memory_write, memory_append, and soul_write or user_write.
MemoryWrite(entry, content, mode) == WriteFile(entry, content, mode = "overwrite", {PromptMax})
MemoryAppend(entry, content, replace) == WriteFile(entry, content, replace, {})
IdentityWrite(entry, content, replace) == WriteFile(entry, content, replace, {})

-----------------------------------------------------------------------------
\* build_system_prompt_with_skills takes the files in this order.
SectionOrder == <<"soul", "user", "memory">>

\* inject_prompt_section: a file that fails, or has nothing, is left out.
Inject(prompt, section, loaded) ==
    IF loaded.value = {} THEN prompt
    ELSE Append(prompt, [section |-> section, text |-> CHOOSE text \in loaded.value : TRUE])

PromptUpTo(files) ==
    LET prompt[n \in 0 .. Len(SectionOrder)] ==
            IF n = 0 THEN <<>>
            ELSE Inject(prompt[n - 1], SectionOrder[n], LoadPromptFile(files[SectionOrder[n]]))
    IN  prompt
PromptOf(files) == PromptUpTo(files)[Len(SectionOrder)]

-----------------------------------------------------------------------------
(***************************************************************************)
(* memory_search. The query is found in a line that has an "a"; a match is *)
(* a path, the number of the line and the lines shown with it.             *)
(***************************************************************************)

\* A character ends the last line or goes on with it.
AddCharacter(lines, c) ==
    IF c = "newline" THEN Append(lines, <<>>) ELSE [lines EXCEPT ![Len(lines)] = Append(@, c)]

LinesUpTo(text) ==
    LET lines[n \in 0 .. Len(text)] == IF n = 0 THEN <<<<>>>> ELSE AddCharacter(lines[n - 1], text[n])
    IN  lines

\* The lines of a text; a newline at its end starts no further line.
LinesOf(text) ==
    LET lines == LinesUpTo(text)[Len(text)]
    IN  IF Last(lines) = <<>> THEN Front(lines) ELSE lines

Hit(line) == "a" \in ToSet(line)

\* The lines shown with a hit.
Window(path, lines, i) ==
    [path |-> path, line |-> i,
     from |-> IF i > Radius THEN i - Radius ELSE 1,
     to |-> IF i + Radius > Len(lines) THEN Len(lines) ELSE i + Radius]

\* search_memory_windows: what each line adds, until there are enough.
AddWindow(path, lines, max, windows, i) ==
    IF Hit(lines[i]) /\ Len(windows) < max THEN Append(windows, Window(path, lines, i)) ELSE windows

WindowsUpTo(path, lines, max) ==
    LET windows[n \in 0 .. Len(lines)] == IF n = 0 THEN <<>> ELSE AddWindow(path, lines, max, windows[n - 1], n)
    IN  windows

Windows(path, text, max) == WindowsUpTo(path, LinesOf(text), max)[Len(LinesOf(text))]

\* unique_relative_paths; the paths of the call count instead of the configured ones.
AddPath(seen, path) == IF path \in ToSet(seen) THEN seen ELSE Append(seen, path)

UniqueUpTo(paths) ==
    LET seen[n \in 0 .. Len(paths)] == IF n = 0 THEN <<>> ELSE AddPath(seen[n - 1], paths[n])
    IN  seen
Unique(paths) == UniqueUpTo(paths)[Len(paths)]

SearchTargets(override, defaults) == IF override = <<>> THEN Unique(defaults) ELSE Unique(override)

\* open_search_target and read_search_file_limited: the text that is searched, or why there is none.
Searched(entry) ==
    IF ~Resolves(entry) \/ entry.kind = "closed" THEN [told |-> "failed", text |-> <<>>]
    ELSE IF ~IsFile(entry) THEN [told |-> "skipped", text |-> <<>>]
    ELSE [told |-> IF BytesOf(entry.text) > SearchMax THEN "cut" ELSE "whole", text |-> Truncated(entry.text, SearchMax)]

\* The loop over the targets, which ends with the first that fails or when there are enough matches.
SearchOne(files, max, so, path) ==
    LET searched == Searched(files[path])
    IN  IF so.failed \/ Len(so.matches) >= max THEN so
        ELSE [failed |-> searched.told = "failed",
              matches |-> so.matches \o Windows(path, searched.text, max - Len(so.matches)),
              warned |-> so.warned \cup (IF searched.told \in {"skipped", "cut"} THEN {path} ELSE {})]

SearchUpTo(files, targets, max) ==
    LET search[n \in 0 .. Len(targets)] ==
            IF n = 0 THEN [failed |-> targets = <<>>, matches |-> <<>>, warned |-> {}]
            ELSE SearchOne(files, max, search[n - 1], targets[n])
    IN  search

SearchMemory(files, targets, max) == SearchUpTo(files, targets, max)[Len(targets)]

-----------------------------------------------------------------------------
(***************************************************************************)
(* What memory_write has accepted is in the next prompt as a whole, after  *)
(* all that the prompt showed of the file before; and an empty line keeps  *)
(* the two apart. A file that grew beyond the limit by memory_append is    *)
(* cut inside the prompt by less than a character too much.                *)
(***************************************************************************)
AcceptedReachesPrompt(entry, content, mode) ==
    LET written == MemoryWrite(entry, content, mode)
    IN  \A new \in written.value :
            LET shown == LoadPromptFile(new)
            IN  /\ ~shown.failed
                /\ ~IsBlankText(content) => \E text \in shown.value : IsSuffix(content, text)
                /\ mode = "append" => \A before \in LoadPromptFile(entry).value, text \in shown.value :
                       /\ IsPrefix(before, text)
                       /\ IsSuffix(<<"newline">> \o content, text)

AppendedIsCutLate(entry, content, replace) ==
    \A new \in MemoryAppend(entry, content, replace).value : \A text \in LoadPromptFile(new).value :
        /\ IsPrefix(text, new.text)
        /\ BytesOf(text) <= PromptMax
        /\ text # new.text => BytesOf(text) + 2 >= PromptMax
        /\ Inspect(new).value = {BytesOf(new.text)}

\* The command line shows a file exactly if the prompt does, and fails with it.
ShowAgreesWithPrompt(entry) ==
    /\ Show(entry) = "error" <=> LoadPromptFile(entry).failed
    /\ Show(entry) = "shown" <=> LoadPromptFile(entry).value # {}
    /\ Show(entry) # "missing" /\ LoadHeartbeatMessage(entry).value # {} => Inspect(entry).value # {}

(***************************************************************************)
(* A file that cannot be read, or is not there, hides no other file from   *)
(* the prompt, and those that are shown keep their order.                  *)
(***************************************************************************)
FilesReachPrompt(files) ==
    LET prompt == PromptOf(files)
    IN  /\ \A section \in ToSet(SectionOrder) : \A text \in LoadPromptFile(files[section]).value :
              [section |-> section, text |-> text] \in ToSet(prompt)
        /\ \A i \in DOMAIN prompt : prompt[i].text \in LoadPromptFile(files[prompt[i].section]).value
        /\ \A i, j \in DOMAIN prompt : i < j =>
              \E m, n \in DOMAIN SectionOrder :
                  m < n /\ prompt[i].section = SectionOrder[m] /\ prompt[j].section = SectionOrder[n]

(***************************************************************************)
(* A memory search that ends well has found every line that has the query  *)
(* in every target it has not warned about, unless it has as many matches  *)
(* as it may have; and it shows no line twice as a match.                  *)
(***************************************************************************)
MemorySearchIsComplete(files, override, defaults, max) ==
    LET targets == SearchTargets(override, defaults)
        result == SearchMemory(files, targets, max)
        found == {<<m.path, m.line>> : m \in ToSet(result.matches)}
    IN  /\ Cardinality(found) = Len(result.matches)
        /\ \A m \in ToSet(result.matches) :
              LET lines == LinesOf(Truncated(files[m.path].text, SearchMax))
              IN  m.line \in m.from .. m.to /\ {m.from, m.to} \subseteq DOMAIN lines /\ Hit(lines[m.line])
        /\ ~result.failed /\ Len(result.matches) < max =>
              \A path \in ToSet(targets) \ result.warned :
                  /\ files[path].kind \in {"file", "garbled"}
                  /\ \A i \in DOMAIN LinesOf(files[path].text) : Hit(LinesOf(files[path].text)[i]) => <<path, i>> \in found
=============================================================================
