------------------------ MODULE SkillRegistryProofs ------------------------
(***************************************************************************)
(* The table of skills is the outcome of one scan, for every number of     *)
(* directories, tasks and edits.                                           *)
(***************************************************************************)
EXTENDS SkillRegistry, SequenceTheorems, TLAPS

Stage == {Idle} \cup Scanning \cup Chatting \cup Prompted

\* Content c of directory d was on disk at a version between i and j.
WasOnDisk(c, d, i, j) ==
    /\ c # NoSkill => c.valid
    /\ \E k \in i .. j : c = versions[k][d]

\* What a scan has found so far was on disk since the scan began.
ScansSound ==
    \A t \in Task : tasks[t].pc = "scanning" =>
        /\ tasks[t].from \in 1 .. Now
        /\ ~tasks[t].failed =>
              \A d \in Dir \ tasks[t].todo : WasOnDisk(tasks[t].found[d], d, tasks[t].from, Now)

IInv == TypeOK /\ ScansSound /\ RegistryIsAScan

-----------------------------------------------------------------------------

LEMMA FilesType ==
    ASSUME TypeOK
    PROVE  Now \in Nat \ {0} /\ Files \in Table /\ \A k \in 1 .. Now : versions[k] \in Table
<1>1. versions \in Seq(Table) /\ versions # <<>>
  BY DEF TypeOK
<1>2. Now \in Nat \ {0}
  BY <1>1, EmptySeq, LenProperties DEF Now
<1>3. \A k \in 1 .. Now : versions[k] \in Table
  BY <1>1, ElementOfSeq DEF Now
<1>4. QED
  BY <1>2, <1>3 DEF Files

LEMMA StageNext ==
    ASSUME TypeOK, NEW t \in Task, NEW stage \in Stage, Goto(t, stage)
    PROVE  tasks' \in [Task -> Stage] /\ \A u \in Task : tasks'[u] = IF u = t THEN stage ELSE tasks[u]
BY DEF TypeOK, Goto, Stage

LEMMA ScanningTask ==
    ASSUME TypeOK, NEW t \in Task, tasks[t].pc = "scanning"
    PROVE  tasks[t] \in Scanning
BY DEF TypeOK, Idle, Scanning, Chatting, Prompted

LEMMA ChattingTask ==
    ASSUME TypeOK, NEW t \in Task, tasks[t].pc = "chatting"
    PROVE  tasks[t] \in Chatting
BY DEF TypeOK, Idle, Scanning, Chatting, Prompted

\* A step that moves one task, and starts or continues no scan.
LEMMA OtherStep ==
    ASSUME IInv, UNCHANGED <<versions, registry, installed, latest>>,
           NEW t \in Task, NEW stage \in Stage, Goto(t, stage), stage.pc # "scanning"
    PROVE  IInv'
<1>1. tasks' \in [Task -> Stage] /\ \A u \in Task : tasks'[u] = IF u = t THEN stage ELSE tasks[u]
  BY StageNext DEF IInv
<1>2. TypeOK'
  BY <1>1 DEF IInv, TypeOK, Stage
<1>3. ScansSound'
  BY <1>1 DEF IInv, ScansSound, WasOnDisk, Now
<1>4. RegistryIsAScan'
  BY DEF IInv, RegistryIsAScan, SkippedAtStart
<1>5. QED
  BY <1>2, <1>3, <1>4 DEF IInv

LEMMA InitInv == Init => IInv
<1> SUFFICES ASSUME Init PROVE IInv
  OBVIOUS
<1>1. PICK files \in [Dir -> {NoSkill} \cup [edit : {0}, valid : BOOLEAN]] : versions = <<files>>
  BY DEF Init
<1>2. versions \in Seq(Table) /\ Len(versions) = 1 /\ versions[1] = files
  BY <1>1 DEF Table, Content
<1>3. versions # <<>>
  BY <1>1
<1>4. PICK readable \in SUBSET Dir :
          registry = Discover(versions[1], readable) /\ (ReadMayFail \/ readable = Dir)
  BY <1>2, SkillAssumption DEF Init, Files, Now
<1>5. registry \in Table
  BY <1>2, <1>4 DEF Discover, Table
<1>6. TypeOK
  BY <1>2, <1>3, <1>5 DEF Init, TypeOK
<1>7. ScansSound
  BY DEF Init, ScansSound, Idle
<1>8. RegistryIsAScan
  <2>1. installed = [from |-> 1, to |-> 1] /\ 1 \in 1 .. 1 /\ latest = 0
    BY DEF Init
  <2>2. \A d \in Dir : registry[d] # NoSkill => registry[d].valid
    BY <1>4 DEF Discover
  <2>3. ASSUME NEW d \in Dir, registry[d] # versions[1][d] PROVE SkippedAtStart(d)
    <3>1. registry[d] = NoSkill
      BY <1>4, <2>3 DEF Discover
    <3>2. ReadMayFail \/ readable = Dir
      BY <1>4
    <3>3. QED
      BY <1>4, <2>1, <2>3, <3>1, <3>2 DEF SkippedAtStart, Discover
  <2>4. QED
    BY <2>1, <2>2, <2>3 DEF RegistryIsAScan
<1>9. QED
  BY <1>6, <1>7, <1>8 DEF IInv

LEMMA EditInv ==
    ASSUME IInv, NEW d \in Dir, Edit(d)
    PROVE  IInv'
<1>1. PICK new \in {NoSkill} \cup [edit : {Now}, valid : BOOLEAN] :
          versions' = Append(versions, [Files EXCEPT ![d] = new])
  BY DEF Edit
<1>2. Now \in Nat \ {0} /\ Files \in Table /\ versions \in Seq(Table)
  BY FilesType DEF IInv, TypeOK
<1>3. [Files EXCEPT ![d] = new] \in Table
  BY <1>2 DEF Table, Content
<1>4. /\ versions' \in Seq(Table) /\ Len(versions') = Len(versions) + 1
      /\ \A k \in 1 .. Len(versions) : versions'[k] = versions[k]
  BY <1>1, <1>2, <1>3, AppendProperties
<1>5. UNCHANGED <<registry, tasks, installed, latest>>
  BY DEF Edit
<1>6. versions' # <<>>
  BY <1>2, <1>4, EmptySeq DEF Now
<1>7. TypeOK'
  BY <1>2, <1>4, <1>5, <1>6 DEF IInv, TypeOK, Now
<1>8. ScansSound'
  <2> SUFFICES ASSUME NEW t \in Task, tasks[t].pc = "scanning"
               PROVE  /\ tasks[t].from \in 1 .. Now'
                      /\ ~tasks[t].failed =>
                            \A e \in Dir \ tasks[t].todo :
                                WasOnDisk(tasks[t].found[e], e, tasks[t].from, Now)'
    BY <1>5 DEF ScansSound
  <2>1. tasks[t].from \in 1 .. Now
    BY DEF IInv, ScansSound
  <2>2. tasks[t].from \in 1 .. Now'
    BY <1>2, <1>4, <2>1 DEF Now
  <2>3. ASSUME ~tasks[t].failed, NEW e \in Dir \ tasks[t].todo
        PROVE  WasOnDisk(tasks[t].found[e], e, tasks[t].from, Now)'
    <3>1. WasOnDisk(tasks[t].found[e], e, tasks[t].from, Now)
      BY <2>3 DEF IInv, ScansSound
    <3>2. PICK k \in tasks[t].from .. Now : tasks[t].found[e] = versions[k][e]
      BY <3>1 DEF WasOnDisk
    <3>3. k \in 1 .. Now /\ k \in tasks[t].from .. Now'
      BY <1>2, <1>4, <2>1, <3>2 DEF Now
    <3>4. versions'[k] = versions[k]
      BY <1>4, <3>3 DEF Now
    <3>5. QED
      BY <1>5, <3>1, <3>2, <3>3, <3>4 DEF WasOnDisk
  <2>4. QED
    BY <2>2, <2>3
<1>9. RegistryIsAScan'
  <2> SUFFICES ASSUME NEW e \in Dir
               PROVE  /\ registry[e] # NoSkill => registry[e].valid
                      /\ \/ \E k \in installed.from .. installed.to : registry[e] = versions'[k][e]
                         \/ SkippedAtStart(e)'
    BY <1>5 DEF RegistryIsAScan
  <2>1. registry[e] # NoSkill => registry[e].valid
    BY DEF IInv, RegistryIsAScan, SkippedAtStart
  <2>2. \A k \in installed.from .. installed.to : versions'[k] = versions[k]
    BY <1>2, <1>4 DEF IInv, TypeOK, Now
  <2>3. versions'[1] = versions[1]
    BY <1>2, <1>4 DEF Now
  <2>4. SkippedAtStart(e) => SkippedAtStart(e)'
    BY <1>5, <2>3 DEF SkippedAtStart
  <2>5. QED
    BY <2>1, <2>2, <2>4 DEF IInv, RegistryIsAScan
<1>10. QED
  BY <1>7, <1>8, <1>9 DEF IInv

LEMMA StartReloadInv ==
    ASSUME IInv, NEW t \in Task, StartReload(t)
    PROVE  IInv'
<1> DEFINE stage(listed, failed) ==
              [pc |-> "scanning", todo |-> listed, found |-> [d \in Dir |-> NoSkill],
               failed |-> failed, from |-> Now]
<1>1. PICK listed \in SUBSET Dir, failed \in BOOLEAN :
          (~failed => Skills(Files) \subseteq listed) /\ Goto(t, stage(listed, failed))
  BY DEF StartReload
<1>2. Now \in Nat \ {0}
  BY FilesType DEF IInv
<1>3. stage(listed, failed) \in Stage
  BY <1>2 DEF Stage, Scanning, Table
<1>4. tasks' \in [Task -> Stage] /\ \A u \in Task : tasks'[u] = IF u = t THEN stage(listed, failed) ELSE tasks[u]
  BY <1>1, <1>3, StageNext DEF IInv
<1>5. UNCHANGED <<versions, registry, installed, latest>>
  BY DEF StartReload
<1>6. TypeOK'
  BY <1>4, <1>5 DEF IInv, TypeOK, Stage
<1>7. ASSUME ~failed, NEW d \in Dir \ listed PROVE WasOnDisk(NoSkill, d, Now, Now)
  <2>1. versions[Now][d] = NoSkill
    BY <1>1, <1>7 DEF Skills, Files
  <2>2. Now \in Now .. Now
    BY <1>2
  <2>3. QED
    BY <2>1, <2>2 DEF WasOnDisk
<1>8. ScansSound'
  BY <1>2, <1>4, <1>5, <1>7 DEF IInv, ScansSound, WasOnDisk, Now
<1>9. RegistryIsAScan'
  BY <1>5 DEF IInv, RegistryIsAScan, SkippedAtStart
<1>10. QED
  BY <1>6, <1>8, <1>9 DEF IInv

LEMMA ReadSkillInv ==
    ASSUME IInv, NEW t \in Task, NEW d \in Dir, ReadSkill(t, d)
    PROVE  IInv'
<1>1. tasks[t].pc = "scanning" /\ d \in tasks[t].todo
  BY DEF ReadSkill
<1>2. PICK readable \in BOOLEAN :
          LET ok == Files[d] = NoSkill \/ (readable /\ Files[d].valid)
          IN  Goto(t, [tasks[t] EXCEPT !.todo = @ \ {d},
                                       !.found[d] = IF ok THEN Files[d] ELSE @,
                                       !.failed = @ \/ ~ok])
  BY SkillAssumption DEF ReadSkill
<1> DEFINE ok == Files[d] = NoSkill \/ (readable /\ Files[d].valid)
           stage == [tasks[t] EXCEPT !.todo = @ \ {d},
                                     !.found[d] = IF ok THEN Files[d] ELSE @,
                                     !.failed = @ \/ ~ok]
<1>3. tasks[t] \in Scanning /\ Now \in Nat \ {0} /\ Files \in Table
  BY <1>1, ScanningTask, FilesType DEF IInv
<1>4. Files[d] = NoSkill \/ Files[d].valid \in BOOLEAN
  BY <1>3 DEF Table, Content
<1>5. /\ stage \in Scanning
      /\ stage.pc = "scanning" /\ stage.todo = tasks[t].todo \ {d}
      /\ stage.from = tasks[t].from
      /\ \A e \in Dir : stage.found[e] = IF e = d /\ ok THEN Files[d] ELSE tasks[t].found[e]
      /\ ~stage.failed => ~tasks[t].failed /\ ok
  BY <1>3, <1>4 DEF Scanning, Table
<1> HIDE DEF stage
<1>6. tasks' \in [Task -> Stage] /\ \A u \in Task : tasks'[u] = IF u = t THEN stage ELSE tasks[u]
  BY <1>2, <1>5, StageNext DEF IInv, Stage, stage
<1>7. UNCHANGED <<versions, registry, installed, latest>>
  BY DEF ReadSkill
<1>8. TypeOK'
  BY <1>6, <1>7 DEF IInv, TypeOK, Stage
<1>9. stage.from \in 1 .. Now
  BY <1>1, <1>5 DEF IInv, ScansSound
<1>10. ASSUME ~stage.failed, NEW e \in Dir \ stage.todo
       PROVE  WasOnDisk(stage.found[e], e, stage.from, Now)
  <2>1. CASE e = d
    <3>1. stage.found[e] = Files[d] /\ (Files[d] # NoSkill => Files[d].valid)
      BY <1>5, <1>10, <2>1
    <3>2. Now \in stage.from .. Now
      BY <1>3, <1>9
    <3>3. QED
      BY <2>1, <3>1, <3>2 DEF WasOnDisk, Files
  <2>2. CASE e # d
    BY <1>1, <1>5, <1>10, <2>2 DEF IInv, ScansSound
  <2>3. QED
    BY <2>1, <2>2
<1>11. ScansSound'
  BY <1>6, <1>7, <1>9, <1>10 DEF IInv, ScansSound, WasOnDisk, Now
<1>12. RegistryIsAScan'
  BY <1>7 DEF IInv, RegistryIsAScan, SkippedAtStart
<1>13. QED
  BY <1>8, <1>11, <1>12 DEF IInv

LEMMA InstallSkillsInv ==
    ASSUME IInv, NEW t \in Task, InstallSkills(t)
    PROVE  IInv'
<1>1. tasks[t].pc = "scanning" /\ tasks[t].todo = {} /\ ~tasks[t].failed
  BY DEF InstallSkills, Scanned
<1>2. tasks[t] \in Scanning /\ Now \in Nat \ {0} /\ tasks[t].from \in 1 .. Now
  BY <1>1, ScanningTask, FilesType DEF IInv, ScansSound
<1>3. /\ registry' = tasks[t].found /\ versions' = versions
      /\ installed' = [from |-> tasks[t].from, to |-> Now]
      /\ latest' \in {tasks[t].from, latest}
      /\ Goto(t, Idle)
  BY DEF InstallSkills
<1>4. tasks' \in [Task -> Stage] /\ \A u \in Task : tasks'[u] = IF u = t THEN Idle ELSE tasks[u]
  BY <1>3, StageNext DEF IInv, Stage
<1>5. registry' \in Table
  BY <1>2, <1>3 DEF Scanning
<1>6. TypeOK'
  BY <1>2, <1>3, <1>4, <1>5 DEF IInv, TypeOK, Stage, Now
<1>7. ScansSound'
  BY <1>3, <1>4 DEF IInv, ScansSound, WasOnDisk, Now, Idle
<1>8. ASSUME NEW d \in Dir
      PROVE  /\ tasks[t].found[d] # NoSkill => tasks[t].found[d].valid
             /\ \E k \in tasks[t].from .. Now : tasks[t].found[d] = versions[k][d]
  <2>1. WasOnDisk(tasks[t].found[d], d, tasks[t].from, Now)
    BY <1>1 DEF IInv, ScansSound
  <2>2. QED
    BY <2>1 DEF WasOnDisk
<1>9. RegistryIsAScan'
  BY <1>3, <1>8 DEF RegistryIsAScan
<1>10. QED
  BY <1>6, <1>7, <1>9 DEF IInv

LEMMA InvNext == IInv /\ [Next]_vars => IInv'
<1> SUFFICES ASSUME IInv, [Next]_vars PROVE IInv'
  OBVIOUS
<1>1. Idle \in Stage /\ Idle.pc # "scanning"
  BY DEF Idle, Stage
<1>2. ASSUME NEW t \in Task, StartChat(t) PROVE IInv'
  <2>1. PICK triggered \in SUBSET Skills(registry) :
            Goto(t, [pc |-> "chatting", skills |-> registry, enabled |-> triggered])
    BY <1>2 DEF StartChat
  <2>2. [pc |-> "chatting", skills |-> registry, enabled |-> triggered] \in Stage
    BY DEF IInv, TypeOK, Stage, Chatting, Skills
  <2>3. UNCHANGED <<versions, registry, installed, latest>>
    BY <1>2 DEF StartChat
  <2>4. QED
    BY <2>1, <2>2, <2>3, OtherStep
<1>3. ASSUME NEW t \in Task, BuildPrompt(t) PROVE IInv'
  <2> DEFINE stage == [pc |-> "prompted", enabled |-> tasks[t].enabled,
                       details |-> tasks[t].enabled \cap Skills(tasks[t].skills)]
  <2>1. stage \in Stage /\ stage.pc # "scanning"
    BY <1>3, ChattingTask DEF IInv, BuildPrompt, Chatting, Stage, Prompted
  <2>2. Goto(t, stage) /\ UNCHANGED <<versions, registry, installed, latest>>
    BY <1>3 DEF BuildPrompt
  <2>3. QED
    BY <2>1, <2>2, OtherStep
<1>4. ASSUME NEW t \in Task, FailReload(t) \/ EndChat(t) PROVE IInv'
  BY <1>1, <1>4, OtherStep DEF FailReload, EndChat
<1>5. CASE UNCHANGED vars
  BY <1>5 DEF vars, IInv, TypeOK, ScansSound, RegistryIsAScan, SkippedAtStart, WasOnDisk, Now
<1>6. QED
  BY <1>2, <1>3, <1>4, <1>5, EditInv, StartReloadInv, ReadSkillInv, InstallSkillsInv DEF Next, Reload

(***************************************************************************)
(* The table never holds a file that does not parse, the outcome of a      *)
(* failed scan, or a mixture of two scans, however reloads overlap with    *)
(* each other and with the user's edits.                                   *)
(***************************************************************************)
THEOREM TableIsOneScan == Spec => []RegistryIsAScan
<1>1. IInv => RegistryIsAScan
  BY DEF IInv
<1>2. QED
  BY InitInv, InvNext, <1>1, PTL DEF Spec

-----------------------------------------------------------------------------

\* What a chat has triggered is in the copy it holds.
TriggeredAreHeld ==
    \A t \in Task : tasks[t].pc = "chatting" => tasks[t].enabled \subseteq Skills(tasks[t].skills)

ChatInv == IInv /\ TriggeredAreHeld /\ TriggeredAreDescribed

\* A step that moves one task, to a stage that is as it should be.
LEMMA ChatStep ==
    ASSUME TypeOK, TriggeredAreHeld, TriggeredAreDescribed,
           NEW t \in Task, NEW stage \in Stage, Goto(t, stage),
           stage.pc = "chatting" => stage.enabled \subseteq Skills(stage.skills),
           stage.pc = "prompted" => stage.details = stage.enabled
    PROVE  TriggeredAreHeld' /\ TriggeredAreDescribed'
<1>1. \A u \in Task : tasks'[u] = IF u = t THEN stage ELSE tasks[u]
  BY StageNext
<1>2. QED
  BY <1>1 DEF TriggeredAreHeld, TriggeredAreDescribed, Skills

LEMMA ChatNext ==
    ASSUME TypeOK, TriggeredAreHeld, TriggeredAreDescribed, [Next]_vars
    PROVE  TriggeredAreHeld' /\ TriggeredAreDescribed'
<1>1. ASSUME NEW t \in Task, NEW pc, NEW todo \in SUBSET Dir, NEW found \in Table, NEW failed \in BOOLEAN,
             NEW from \in Nat, pc = "scanning",
             Goto(t, [pc |-> pc, todo |-> todo, found |-> found, failed |-> failed, from |-> from])
      PROVE  TriggeredAreHeld' /\ TriggeredAreDescribed'
  <2>1. [pc |-> pc, todo |-> todo, found |-> found, failed |-> failed, from |-> from] \in Stage
    BY <1>1 DEF Stage, Scanning
  <2>2. QED
    BY <1>1, <2>1, ChatStep
<1>2. ASSUME NEW t \in Task, StartReload(t) PROVE TriggeredAreHeld' /\ TriggeredAreDescribed'
  <2>1. PICK listed \in SUBSET Dir, failed \in BOOLEAN :
            Goto(t, [pc |-> "scanning", todo |-> listed, found |-> [d \in Dir |-> NoSkill],
                     failed |-> failed, from |-> Now])
    BY <1>2 DEF StartReload
  <2>2. [d \in Dir |-> NoSkill] \in Table /\ Now \in Nat
    BY FilesType DEF Table
  <2>3. QED
    BY <1>1, <2>1, <2>2
<1>3. ASSUME NEW t \in Task, NEW d \in Dir, ReadSkill(t, d) PROVE TriggeredAreHeld' /\ TriggeredAreDescribed'
  <2>1. tasks[t].pc = "scanning" /\ tasks[t] \in Scanning /\ Files[d] \in Content \cup {NoSkill}
    BY <1>3, ScanningTask, FilesType DEF ReadSkill, Table
  <2>2. PICK ok \in BOOLEAN :
            Goto(t, [tasks[t] EXCEPT !.todo = @ \ {d}, !.found[d] = IF ok THEN Files[d] ELSE @,
                                     !.failed = @ \/ ~ok])
    BY <1>3 DEF ReadSkill
  <2> DEFINE stage == [tasks[t] EXCEPT !.todo = @ \ {d}, !.found[d] = IF ok THEN Files[d] ELSE @,
                                       !.failed = @ \/ ~ok]
  <2>3. stage \in Scanning /\ stage.pc = "scanning"
    BY <2>1 DEF Scanning, Table
  <2>4. QED
    BY <2>2, <2>3, ChatStep DEF Stage
<1>4. ASSUME NEW t \in Task, StartChat(t) PROVE TriggeredAreHeld' /\ TriggeredAreDescribed'
  <2>1. PICK triggered \in SUBSET Skills(registry) :
            Goto(t, [pc |-> "chatting", skills |-> registry, enabled |-> triggered])
    BY <1>4 DEF StartChat
  <2>2. [pc |-> "chatting", skills |-> registry, enabled |-> triggered] \in Stage
    BY DEF TypeOK, Stage, Chatting, Skills
  <2>3. QED
    BY <2>1, <2>2, ChatStep
<1>5. ASSUME NEW t \in Task, BuildPrompt(t) PROVE TriggeredAreHeld' /\ TriggeredAreDescribed'
  <2> DEFINE stage == [pc |-> "prompted", enabled |-> tasks[t].enabled,
                       details |-> tasks[t].enabled \cap Skills(tasks[t].skills)]
  <2>1. tasks[t].pc = "chatting" /\ Goto(t, stage)
    BY <1>5 DEF BuildPrompt
  <2>2. stage \in Stage
    BY <2>1, ChattingTask DEF Chatting, Stage, Prompted
  <2>3. stage.details = stage.enabled
    BY <2>1 DEF TriggeredAreHeld
  <2>4. QED
    BY <2>1, <2>2, <2>3, ChatStep
<1>6. ASSUME NEW t \in Task, InstallSkills(t) \/ FailReload(t) \/ EndChat(t)
      PROVE  TriggeredAreHeld' /\ TriggeredAreDescribed'
  <2>1. Goto(t, Idle)
    BY <1>6 DEF InstallSkills, FailReload, EndChat
  <2>2. QED
    BY <2>1, ChatStep DEF Idle, Stage
<1>7. CASE UNCHANGED tasks
  BY <1>7 DEF TriggeredAreHeld, TriggeredAreDescribed, Skills
<1>8. QED
  BY <1>2, <1>3, <1>4, <1>5, <1>6, <1>7 DEF Next, Reload, Edit, vars

(***************************************************************************)
(* A chat describes every skill it has triggered, since it builds its      *)
(* prompt from the copy it chose them in, not from the table that reloads  *)
(* replace meanwhile.                                                      *)
(***************************************************************************)
THEOREM TriggeredSkillsAreDescribed == Spec => []TriggeredAreDescribed
<1>1. Init => ChatInv
  BY InitInv DEF ChatInv, Init, TriggeredAreHeld, TriggeredAreDescribed, Idle
<1>2. IInv /\ [Next]_vars => IInv'
  BY InvNext
<1>3. ChatInv /\ [Next]_vars => ChatInv'
  BY <1>2, ChatNext DEF ChatInv, IInv
<1>4. ChatInv => TriggeredAreDescribed
  BY DEF ChatInv
<1>5. QED
  BY <1>1, <1>3, <1>4, PTL DEF Spec
=============================================================================
