--------------------------- MODULE SkillRegistry ---------------------------
(***************************************************************************)
(* The skills of a running agent (crates/jiaclaw/src/skills.rs): one table *)
(* behind a read-write lock, replaced by POST /api/skills/reload and by    *)
(* SIGHUP, and copied by every chat when it starts.                        *)
(*                                                                         *)
(* A reload lists the directories under skills/, reads their SKILL.md one  *)
(* by one without the lock, while the user may be editing them, and only   *)
(* then takes the write lock for the replacement.  Reloads may overlap.    *)
(*                                                                         *)
(* A skill is named by its directory.  A content is the number of the edit *)
(* that wrote it, and whether it parses.  What the process may not even    *)
(* look up does not exist to it, and is not there in the model either.     *)
(***************************************************************************)
EXTENDS Naturals, Sequences

CONSTANTS Dir,         \* the subdirectories of skills/
          Task,        \* the reloads and chats in flight
          NoSkill,     \* "no SKILL.md here", "no such skill in the table"
          ReadMayFail, \* whether skills/ or a SKILL.md may be unreadable
          MaxEdits     \* bound: edits of the directory

Content == [edit : Nat, valid : BOOLEAN]

ASSUME SkillAssumption ==
    /\ NoSkill \notin Content
    /\ ReadMayFail \in BOOLEAN
    /\ MaxEdits \in Nat

VARIABLES
    versions,  \* history variable: what skills/ held, edit after edit
    registry,  \* SkillRegistry.inner
    tasks,     \* the stage of every task
    installed, \* history variable: the versions seen by the scan installed last
    latest     \* history variable: the newest version a finished reload began at

vars == <<versions, registry, tasks, installed, latest>>

Table == [Dir -> Content \cup {NoSkill}]

Idle == [pc |-> "idle"]
Scanning == [pc : {"scanning"}, todo : SUBSET Dir, found : Table,
             failed : BOOLEAN, from : Nat]
Chatting == [pc : {"chatting"}, skills : Table, enabled : SUBSET Dir]
Prompted == [pc : {"prompted"}, enabled : SUBSET Dir, details : SUBSET Dir]

TypeOK ==
    /\ versions \in Seq(Table) /\ versions # <<>>
    /\ registry \in Table
    /\ tasks \in [Task -> {Idle} \cup Scanning \cup Chatting \cup Prompted]
    /\ installed \in [from : 1 .. Len(versions), to : 1 .. Len(versions)]
    /\ latest \in 0 .. Len(versions)

-----------------------------------------------------------------------------

Now == Len(versions)

Files == versions[Now]

Skills(table) == {d \in Dir : table[d] # NoSkill}

Goto(t, stage) == tasks' = [tasks EXCEPT ![t] = stage]

\* SkillDiscovery::discover, at the start: a file that does not parse or is
\* not readable is skipped.
Discover(files, readable) ==
    [d \in Dir |-> IF d \in readable /\ files[d] # NoSkill /\ files[d].valid
                   THEN files[d] ELSE NoSkill]

\* The user writes, breaks or removes a skill.
Edit(d) ==
    /\ Now <= MaxEdits
    /\ \E new \in {NoSkill} \cup [edit : {Now}, valid : BOOLEAN] :
          versions' = Append(versions, [Files EXCEPT ![d] = new])
    /\ UNCHANGED <<registry, tasks, installed, latest>>

\* SkillDiscovery::skill_directories: the directories are listed once, those
\* that have no SKILL.md yet included.  A listing that fails, fails the reload.
StartReload(t) ==
    /\ tasks[t].pc = "idle"
    /\ \E listed \in SUBSET Dir, failed \in BOOLEAN :
          /\ IF failed THEN ReadMayFail /\ listed = {} ELSE Skills(Files) \subseteq listed
          /\ Goto(t, [pc |-> "scanning", todo |-> listed, found |-> [d \in Dir |-> NoSkill],
                      failed |-> failed, from |-> Now])
    /\ UNCHANGED <<versions, registry, installed, latest>>

\* A scan that skips an invalid file, as the one at the start does.
ReadSkill_Lenient(t, d) ==
    /\ tasks[t].pc = "scanning" /\ d \in tasks[t].todo
    /\ Goto(t, [tasks[t] EXCEPT !.todo = @ \ {d}, !.found[d] = Discover(Files, Dir)[d]])
    /\ UNCHANGED <<versions, registry, installed, latest>>

(***************************************************************************)
(* discover_strict, one directory: a SKILL.md that is gone is no skill,    *)
(* one that cannot be read or parsed fails the reload, in the end.         *)
(***************************************************************************)
ReadSkill(t, d) ==
    /\ tasks[t].pc = "scanning" /\ d \in tasks[t].todo
    /\ \E readable \in (IF ReadMayFail THEN BOOLEAN ELSE {TRUE}) :
          LET ok == Files[d] = NoSkill \/ (readable /\ Files[d].valid)
          IN  Goto(t, [tasks[t] EXCEPT !.todo = @ \ {d},
                                       !.found[d] = IF ok THEN Files[d] ELSE @,
                                       !.failed = @ \/ ~ok])
    /\ UNCHANGED <<versions, registry, installed, latest>>

Scanned(t) == tasks[t].pc = "scanning" /\ tasks[t].todo = {}

\* An install that adds to the table and forgets to take skills away.
InstallSkills_Merged(t) ==
    /\ Scanned(t) /\ ~tasks[t].failed
    /\ registry' = [d \in Dir |-> IF tasks[t].found[d] = NoSkill
                                  THEN registry[d] ELSE tasks[t].found[d]]
    /\ installed' = [from |-> tasks[t].from, to |-> Now]
    /\ latest' = IF tasks[t].from > latest THEN tasks[t].from ELSE latest
    /\ Goto(t, Idle)
    /\ UNCHANGED versions

(***************************************************************************)
(* SkillRegistry::reload has scanned without an error: the write lock is   *)
(* held for the replacement only, whatever has been installed meanwhile.   *)
(***************************************************************************)
InstallSkills(t) ==
    /\ Scanned(t) /\ ~tasks[t].failed
    /\ registry' = tasks[t].found
    /\ installed' = [from |-> tasks[t].from, to |-> Now]
    /\ latest' = IF tasks[t].from > latest THEN tasks[t].from ELSE latest
    /\ Goto(t, Idle)
    /\ UNCHANGED versions

\* The scan failed: the table stays as it is.
FailReload(t) ==
    /\ Scanned(t) /\ tasks[t].failed
    /\ Goto(t, Idle)
    /\ UNCHANGED <<versions, registry, installed, latest>>

\* JiaClawAgent::chat copies the table and picks the skills whose triggers
\* the last user message contains.  (The skills a request names join them, and
\* are dropped if the table does not have them; they are left out.)
StartChat(t) ==
    /\ tasks[t].pc = "idle"
    /\ \E triggered \in SUBSET Skills(registry) :
          Goto(t, [pc |-> "chatting", skills |-> registry, enabled |-> triggered])
    /\ UNCHANGED <<versions, registry, installed, latest>>

\* A prompt built from the table as it is by now.
BuildPrompt_Rereads(t) ==
    /\ tasks[t].pc = "chatting"
    /\ Goto(t, [pc |-> "prompted", enabled |-> tasks[t].enabled,
                details |-> tasks[t].enabled \cap Skills(registry)])
    /\ UNCHANGED <<versions, registry, installed, latest>>

\* build_system_prompt_with_skills: the details of the enabled skills, as
\* far as the copy has them.
BuildPrompt(t) ==
    /\ tasks[t].pc = "chatting"
    /\ Goto(t, [pc |-> "prompted", enabled |-> tasks[t].enabled,
                details |-> tasks[t].enabled \cap Skills(tasks[t].skills)])
    /\ UNCHANGED <<versions, registry, installed, latest>>

EndChat(t) ==
    /\ tasks[t].pc = "prompted"
    /\ Goto(t, Idle)
    /\ UNCHANGED <<versions, registry, installed, latest>>

\* JiaClawAgent::new scans once.  If skills/ cannot be read, it warns and goes
\* on with an empty table, as if no file were readable.
Init ==
    /\ versions \in {<<files>> : files \in [Dir -> {NoSkill} \cup [edit : {0}, valid : BOOLEAN]]}
    /\ \E readable \in (IF ReadMayFail THEN SUBSET Dir ELSE {Dir}) :
          registry = Discover(Files, readable)
    /\ tasks = [t \in Task |-> Idle]
    /\ installed = [from |-> 1, to |-> 1]
    /\ latest = 0

\* reload_skills_handler and the SIGHUP task take the same steps.
Reload(t) ==
    \/ StartReload(t) \/ InstallSkills(t) \/ FailReload(t)
    \/ \E d \in Dir : ReadSkill(t, d)

Next ==
    \/ \E d \in Dir : Edit(d)
    \/ \E t \in Task : Reload(t) \/ StartChat(t) \/ BuildPrompt(t) \/ EndChat(t)

Spec == Init /\ [][Next]_vars

-----------------------------------------------------------------------------

\* The scan at the start leaves out what it cannot read or parse.
SkippedAtStart(d) ==
    /\ latest = 0
    /\ registry[d] = NoSkill
    /\ ReadMayFail \/ ~versions[1][d].valid

(***************************************************************************)
(* The table is always the outcome of one scan: every entry, and every     *)
(* gap, was on disk while that scan ran, and parses.  (Only the scan at    *)
(* the start has gaps for files it could not read or parse, until a reload *)
(* succeeds.)  A scan that failed, or parts of two scans, are never        *)
(* installed.                                                              *)
(***************************************************************************)
RegistryIsAScan ==
    \A d \in Dir :
        /\ registry[d] # NoSkill => registry[d].valid
        /\ \/ \E k \in installed.from .. installed.to : registry[d] = versions[k][d]
           \/ SkippedAtStart(d)

(***************************************************************************)
(* A chat describes to the model every skill it has triggered, although    *)
(* reloads may take skills away between the two steps.                     *)
(***************************************************************************)
TriggeredAreDescribed ==
    \A t \in Task : tasks[t].pc = "prompted" => tasks[t].details = tasks[t].enabled

(***************************************************************************)
(* README.md:92 says that POST /api/skills/reload scans the workspace      *)
(* again and replaces the table.  So once a reload that began after the    *)
(* last edit has succeeded, the table should be what is on disk.           *)
(***************************************************************************)
ReloadTakesEffect == latest = Now => registry = Files
=============================================================================
