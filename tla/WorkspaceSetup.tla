--------------------------- MODULE WorkspaceSetup ---------------------------
(***************************************************************************)
(* `jiaclaw init`, what doctor says of its work, and the skills that a     *)
(* workspace has: jiaclaw/src/workspace.rs, skills.rs and the commands of  *)
(* jiaclaw-host/src/main.rs.                                               *)
(*                                                                         *)
(* A workspace that exists has a state for each default file ("missing",   *)
(* "default", "mine", "blank", or "broken": it cannot be read), perhaps    *)
(* skills/ (hasSkills), and in it directories with a SKILL.md.  skills/    *)
(* may be unreadable, or a file (then it is not listable): of a file, the  *)
(* input of an init that its step "skills" fails is the one that happens.  *)
(***************************************************************************)
EXTENDS PromptFiles

DefaultFiles == {"AGENTS.md", "SOUL.md", "USER.md", "MEMORY.md"}

(***************************************************************************)
(* A SKILL.md: it is "missing" or "closed", or it has a text whose         *)
(* frontmatter is "none", "open" (it does not end), "bad" (not YAML) or    *)
(* "good", and a body with a section "Description", a paragraph, or        *)
(* neither. Optional values are sets with at most one element.             *)
(***************************************************************************)
SkillFile(head, name, description, triggers) ==
    [kind |-> "text", head |-> head, name |-> name, description |-> description, triggers |-> triggers,
     section |-> {}, paragraph |-> {}]
BlankSkill == SkillFile("none", {}, {}, {})
Examples == {"search", "calculator"}
ExampleSkill(name) == SkillFile("good", {name}, {"what it does"}, {"english", "chinese"})

Given(option, default) == IF option = {} THEN default ELSE CHOOSE x \in option : TRUE

\* extract_description; the text of an open frontmatter begins with its mark.
Described(file) ==
    Given(file.section, Given(IF file.head = "open" THEN {"---"} ELSE file.paragraph, "no description"))

\* Skill::from_file and parse_frontmatter
Skill(dir, file) ==
    IF file.kind # "text" \/ file.head = "bad" THEN Failure
    ELSE LET front == IF file.head = "good" THEN file ELSE BlankSkill
         IN  Result({[path |-> dir, name |-> Given(front.name, dir), triggers |-> front.triggers,
                      description |-> Given(front.description, Described(file))]})

\* The skills that a listing of skills/ comes upon: directories that have no
\* good SKILL.md are passed over.
GoodSkills(ws) == UNION {Skill(dir, ws.skills[dir]).value : dir \in DOMAIN ws.skills}

\* SkillDiscovery::discover, which fails if skills/ cannot be read,
Discovered(ws) == IF ws.listable THEN Result({GoodSkills(ws)}) ELSE Failure

\* and discover_strict, which passes over those that have no SKILL.md only.
DiscoveredStrictly_Lenient(ws) == Discovered(ws)

DiscoveredStrictly(ws) ==
    IF \E dir \in DOMAIN ws.skills : ws.skills[dir].kind # "missing" /\ Skill(dir, ws.skills[dir]).failed
    THEN Failure ELSE Discovered(ws)

-----------------------------------------------------------------------------
\* Workspace::init goes through these steps and ends with the first that fails.
InitSteps == <<"directory", "AGENTS.md", "SOUL.md", "USER.md", "MEMORY.md", "skills", "search", "calculator">>

StepDone(ws, step, text, skill) ==
    LET made == {step} \cap Examples
    IN  [exists |-> ws.exists \/ step = "directory",
         files |-> [file \in DefaultFiles |-> IF file = step THEN text ELSE ws.files[file]],
         hasSkills |-> ws.hasSkills \/ step = "skills", listable |-> ws.listable,
         skills |-> [dir \in DOMAIN ws.skills \cup made |-> IF dir \in made THEN skill ELSE ws.skills[dir]]]

StepWhole(ws, step) == StepDone(ws, step, "default", ExampleSkill(step))
StepTorn(ws, step) == StepDone(ws, step, "blank", BlankSkill)

\* The workspace after the first steps: after none, one, two and so on.
InitUpTo(ws) ==
    LET upTo[n \in 0 .. Len(InitSteps)] == IF n = 0 THEN ws ELSE StepWhole(upTo[n - 1], InitSteps[n])
    IN  upTo

(***************************************************************************)
(* The workspace after all steps, or after those before the failing one.   *)
(* A write that fails may have emptied its file (torn).                    *)
(***************************************************************************)
WorkspaceInit(ws, failing, torn) ==
    LET before == InitUpTo(ws)[failing - 1]
    IN  IF torn /\ InitSteps[failing] \notin {"directory", "skills"} THEN StepTorn(before, InitSteps[failing])
        ELSE before

NoFailing == Len(InitSteps) + 1

\* init_command
InitCommand(ws, force, failing, torn) ==
    IF ws.exists /\ ~force THEN [ws |-> ws, said |-> "refused"]
    ELSE [ws |-> WorkspaceInit(ws, failing, torn), said |-> IF failing = NoFailing THEN "done" ELSE "failed"]

-----------------------------------------------------------------------------
\* Workspace::load, which fails for no file as a whole
LoadedFiles(ws) == {file \in DefaultFiles : ws.files[file] \notin {"missing", "broken"}}

\* JiaClawAgent::new: serve goes on without skills if they cannot be listed.
ServeSkills(ws) == UNION Discovered(ws).value

\* doctor_command: its verdict on the workspace, and whether it says that the
\* listing failed, with the number of skills it ends with
DoctorSaysGood(ws) == ws.exists /\ LoadedFiles(ws) # {}
DoctorSkills(ws) ==
    IF ws.exists /\ ws.hasSkills
    THEN [failed |-> Discovered(ws).failed, value |-> Cardinality(ServeSkills(ws))]
    ELSE Result(0)

\* skills_command and skills_reload_command, which only looks at what a reload would do
SkillsCommand(ws) == IF ws.hasSkills THEN Discovered(ws) ELSE Result({})
SkillsReloadCommand(ws) == IF ws.hasSkills THEN DiscoveredStrictly(ws) ELSE Result({{}})

-----------------------------------------------------------------------------
(***************************************************************************)
(* An init that ends well leaves a workspace that doctor finds good, with  *)
(* the example skills in it, and no skill of the user's is lost. One that failed *)
(* half-way is refused the next time, and done with --force leaves what an *)
(* init at once would have left. Doctor may call a half-made workspace     *)
(* good, but then it has at least one of the files.                        *)
(***************************************************************************)
InitIsRepeatable(ws, force, failing, torn) ==
    LET done == InitCommand(ws, force, failing, torn)
        after == done.ws
        wasRefused == done.said = "refused"
    IN  /\ wasRefused => after = ws
        /\ done.said = "done" =>
              /\ DoctorSaysGood(after)
              /\ \A file \in DefaultFiles : after.files[file] = "default"
              /\ \A skill \in Examples : \E s \in GoodSkills(after) : s.name = skill /\ s.triggers # {}
        /\ done.said = "failed" =>
              /\ InitCommand(after, FALSE, NoFailing, FALSE).said = "refused" <=> after.exists
              /\ InitCommand(after, TRUE, NoFailing, FALSE) = InitCommand(ws, TRUE, NoFailing, FALSE)
              /\ ~ws.exists => (DoctorSaysGood(after) <=> (failing > 2 \/ (failing = 2 /\ torn)))
        /\ \A dir \in DOMAIN ws.skills \ Examples : after.skills[dir] = ws.skills[dir]

(***************************************************************************)
(* Serve starts with the skills that doctor counts and `jiaclaw skills`    *)
(* lists, and with none if skills/ cannot be read: then doctor counts none *)
(* either, and both say that the listing failed. A reload gives the skills *)
(* serve would start with, or it fails; and it fails only if skills/       *)
(* cannot be read or has a SKILL.md that the others have passed over.      *)
(***************************************************************************)
SkillListsAgree(ws) ==
    LET command == SkillsCommand(ws)
        doctor == DoctorSkills(ws)
        reload == SkillsReloadCommand(ws)
    IN  /\ command.failed <=> ~ws.listable
        /\ ws.hasSkills /\ ~command.failed => command.value = {ServeSkills(ws)}
        /\ ws.exists => doctor = [failed |-> command.failed, value |-> Cardinality(ServeSkills(ws))]
        /\ ~reload.failed => reload.value = {ServeSkills(ws)}
        /\ reload.failed <=> \/ ~ws.listable
                            \/ \E dir \in DOMAIN ws.skills : /\ ws.skills[dir].kind # "missing"
                                                             /\ \A s \in ServeSkills(ws) : s.path # dir
=============================================================================
