------------------------ MODULE WorkspaceFilesProofs ------------------------
(***************************************************************************)
(* Proofs about WorkspaceFiles, for any files, calls, limits and crashes:  *)
(* no two names are bound to one inode, no file exceeds the limit, a move  *)
(* keeps its file and finds room for it, and what stands under a file's    *)
(* name is whole.                                                          *)
(***************************************************************************)
EXTENDS WorkspaceFiles, SequenceTheorems, TLAPS

USE FilesAssumption

\* The stages of a call that has not created a file.
Unopened == {"ready", "writing", "replacing", "moving"}

Busy(t) == tasks[t].pc # "idle"

(***************************************************************************)
(* The number of a call is its own, and until the call opens a file no     *)
(* name is bound to the inode of that number.                              *)
(***************************************************************************)
IdsFresh ==
    /\ \A t \in Task : Busy(t) => tasks[t].id \in 1 .. nextOp - 1
    /\ \A t, u \in Task : t # u /\ Busy(t) /\ Busy(u) => tasks[t].id # tasks[u].id
    /\ \A n \in Name : Exists(n) => names[n] < nextOp
    /\ \A t \in Task : tasks[t].pc \in Unopened => \A n \in Name : names[n] # tasks[t].id

(***************************************************************************)
(* No inode exceeds the limit, temporary or not, and no call means to      *)
(* write more than it.                                                     *)
(***************************************************************************)
ContentsFit ==
    /\ \A i \in Inode : Len(data[i]) <= MaxBytes
    /\ \A t \in Task : tasks[t].pc \in {"writing", "opened", "written"} =>
                        Len(tasks[t].contents) <= MaxBytes

TypeInv == TypeOK /\ IdsFresh

Inv == TypeInv /\ ContentsFit

-----------------------------------------------------------------------------

\* What other calls keep of theirs when one goes on to another stage.
Restaged(t, stage) ==
    /\ tasks' \in [Task -> Stage]
    /\ tasks'[t] = stage
    /\ \A u \in Task \ {t} :
          /\ tasks'[u].pc = tasks[u].pc
          /\ Busy(u) => tasks'[u].id = tasks[u].id
          /\ tasks[u].pc \in {"writing", "opened", "written"} => tasks'[u].contents = tasks[u].contents

\* A stage is one of six records, told apart by its pc.
LEMMA MoveStage ==
    ASSUME NEW stage \in Stage, IsMove(stage)
    PROVE  /\ [stage EXCEPT !.alone = FALSE] \in Stage
           /\ [stage EXCEPT !.alone = FALSE].pc = stage.pc
           /\ [stage EXCEPT !.alone = FALSE].id = stage.id
  <1>1. stage \in Moving \cup Copying
    BY DEF Stage, IsMove, Idle, Ready, Writing, Opened, Moving, Copying
  <1>2. CASE stage \in Moving
    <2>1. [stage EXCEPT !.alone = FALSE] \in Moving
      BY <1>2 DEF Moving
    <2> QED BY <1>2, <2>1 DEF Moving, Stage
  <1>3. CASE stage \in Copying
    <2>1. [stage EXCEPT !.alone = FALSE] \in Copying
      BY <1>3 DEF Copying
    <2> QED BY <1>3, <2>1 DEF Copying, Stage
  <1> QED BY <1>1, <1>2, <1>3

\* Both ways of going on to another stage keep what other calls rely on.
LEMMA StepRestages ==
    ASSUME TypeOK, NEW t \in Task, NEW stage \in Stage, Step(t, stage)
    PROVE  Restaged(t, stage)
  BY DEF TypeOK, Step, Restaged

LEMMA TouchingRestages ==
    ASSUME TypeOK, NEW t \in Task, NEW stage \in Stage, NEW touched,
           StepTouching(t, stage, touched)
    PROVE  Restaged(t, stage)
  <1>1. ASSUME NEW u \in Task, u # t
        PROVE  /\ tasks'[u] \in Stage
               /\ tasks'[u].pc = tasks[u].pc
               /\ Busy(u) => tasks'[u].id = tasks[u].id
               /\ tasks[u].pc \in {"writing", "opened", "written"} => tasks'[u].contents = tasks[u].contents
    <2>1. tasks[u] \in Stage
      BY DEF TypeOK
    <2>2. CASE tasks'[u] = tasks[u]
      BY <2>1, <2>2
    <2>3. CASE IsMove(tasks[u]) /\ tasks'[u] = [tasks[u] EXCEPT !.alone = FALSE]
      BY <2>1, <2>3, MoveStage DEF IsMove
    <2> QED BY <1>1, <2>2, <2>3 DEF StepTouching
  <1>2. tasks'[t] = stage /\ tasks' = [u \in Task |-> tasks'[u]]
    BY DEF StepTouching
  <1> QED BY <1>1, <1>2 DEF Restaged

(***************************************************************************)
(* Numbers stay fresh in a step of a call that binds names to inodes that  *)
(* are bound already or to the call's own, which it then has opened.       *)
(***************************************************************************)
LEMMA FreshStep ==
    ASSUME TypeInv, NEW t \in Task, NEW stage \in Stage, Restaged(t, stage),
           Busy(t), nextOp' = nextOp,
           stage.pc # "idle" => stage.id = tasks[t].id,
           stage.pc \in Unopened => tasks[t].pc \in Unopened,
           \A n \in Name : \/ names'[n] = NoFile
                           \/ \E m \in Name : names'[n] = names[m]
                           \/ names'[n] = tasks[t].id /\ stage.pc \notin Unopened
    PROVE  IdsFresh'
  <1>1. \A u \in Task : Busy(u)' => Busy(u) /\ tasks'[u].id = tasks[u].id
    BY DEF Restaged, Busy
  <1>2. \A u \in Task : Busy(u)' => tasks'[u].id \in 1 .. nextOp' - 1
    BY <1>1 DEF TypeInv, IdsFresh
  <1>3. \A u, v \in Task : u # v /\ Busy(u)' /\ Busy(v)' => tasks'[u].id # tasks'[v].id
    BY <1>1 DEF TypeInv, IdsFresh
  <1>4. \A n \in Name : Exists(n)' => names'[n] < nextOp'
    BY DEF TypeInv, TypeOK, IdsFresh, Exists, Inode
  <1>5. ASSUME NEW u \in Task, tasks'[u].pc \in Unopened, NEW n \in Name
        PROVE  names'[n] # tasks'[u].id
    <2>1. Busy(u)' /\ tasks[u].pc \in Unopened
      BY <1>5 DEF Restaged, Busy, Unopened
    <2>2. Busy(u) /\ tasks'[u].id = tasks[u].id /\ tasks[u].id \in 1 .. nextOp - 1
      BY <1>1, <2>1 DEF TypeInv, IdsFresh
    <2>3. tasks[u].id # NoFile
      BY <2>2 DEF TypeInv, TypeOK
    <2>4. \A m \in Name : names[m] # tasks[u].id
      BY <2>1 DEF TypeInv, IdsFresh
    <2>5. stage.pc \notin Unopened => u # t
      BY <1>5 DEF Restaged
    <2>6. u # t => tasks[u].id # tasks[t].id
      BY <2>2 DEF TypeInv, IdsFresh
    <2> QED BY <2>2, <2>3, <2>4, <2>5, <2>6
  <1> QED BY <1>2, <1>3, <1>4, <1>5 DEF IdsFresh

-----------------------------------------------------------------------------

\* What a stage's pc says of its other fields.
LEMMA StageFields ==
    ASSUME NEW stage \in Stage
    PROVE  /\ stage.pc = "ready" => stage \in Ready
           /\ stage.pc = "writing" => stage \in Writing
           /\ stage.pc \in {"opened", "written"} => stage \in Opened
           /\ stage.pc \in {"replacing", "moving", "copied"} => stage \in Moving
           /\ stage.pc = "copying" => stage \in Copying
  BY DEF Stage, Idle, Ready, Writing, Opened, Moving, Copying

\* Every stage is reached with a record of its own.
LEMMA StageRecords ==
    ASSUME NEW req \in Requests, NEW id \in 1 .. MaxOps, NEW c \in Contents,
           NEW i \in Inode, NEW j \in Inode, NEW b \in BOOLEAN
    PROVE  /\ Idle \in Stage
           /\ [pc |-> "ready", req |-> req, id |-> id] \in Stage
           /\ [pc |-> "failed", req |-> req, id |-> id] \in Stage
           /\ [pc |-> "writing", req |-> req, id |-> id, contents |-> c] \in Stage
           /\ [pc |-> "opened", req |-> req, id |-> id, contents |-> c, fd |-> i] \in Stage
           /\ [pc |-> "moving", req |-> req, id |-> id, contents |-> c, alone |-> b] \in Stage
           /\ [pc |-> "copying", req |-> req, id |-> id, contents |-> c, from |-> j, fd |-> i,
               alone |-> b] \in Stage
           /\ [pc |-> "copied", req |-> req, id |-> id, contents |-> c, alone |-> b] \in Stage
  BY DEF Stage, Idle, Ready, Writing, Opened, Moving, Copying

\* A call's file, the destination of a move and the temporary file are names,
\* and the last is not the first.
LEMMA Paths ==
    ASSUME NEW req \in Requests
    PROVE  /\ req \in Request
           /\ req.path \in Target /\ req.to \in Target
           /\ Target \subseteq Name
           /\ Tmp[req.path] \in Name /\ Tmp[req.path] # req.path
           /\ req.op = "move" => req.to # req.path
  BY DEF Request, Name

LEMMA SeqOfFunction ==
    ASSUME NEW S, NEW n \in Nat, NEW f \in [1 .. n -> S]
    PROVE  f \in Seq(S) /\ Len(f) = n
  OBVIOUS

\* Writing over an earlier file from its start leaves one of the greater length.
LEMMA OverlayLength ==
    ASSUME NEW c \in Contents, NEW old \in Contents
    PROVE  /\ Overlay(c, old) \in Contents
           /\ Len(Overlay(c, old)) = IF Len(c) > Len(old) THEN Len(c) ELSE Len(old)
  <1> DEFINE n == IF Len(c) > Len(old) THEN Len(c) ELSE Len(old)
  <1>1. n \in Nat /\ DOMAIN c = 1 .. Len(c) /\ DOMAIN old = 1 .. Len(old)
    BY LenProperties DEF Contents
  <1>2. \A k \in 1 .. n : (IF k \in DOMAIN c THEN c[k] ELSE old[k]) \in 0 .. MaxOps
    BY <1>1, ElementOfSeq, LenProperties DEF Contents
  <1>3. Overlay(c, old) \in [1 .. n -> 0 .. MaxOps]
    BY <1>2 DEF Overlay
  <1> HIDE DEF n
  <1>4. Overlay(c, old) \in Seq(0 .. MaxOps) /\ Len(Overlay(c, old)) = n
    BY <1>1, <1>3, SeqOfFunction
  <1> QED BY <1>4 DEF n, Contents

\* What a call computes from the file it has read is a file's contents.
LEMMA NewContentsType ==
    ASSUME TypeOK, NEW req \in Requests, NEW id \in 1 .. MaxOps, NEW c \in NewContents(req, id)
    PROVE  /\ c \in Contents
           /\ req.op = "file_write" => Len(c) = 1
  <1>1. req.path \in Name /\ id \in 0 .. MaxOps
    BY Paths
  <1>2. Prior(req.path) \in Contents
    <2>1. CASE Exists(req.path)
      BY <1>1, <2>1 DEF Prior, ContentsOf, Exists, TypeOK
    <2>2. CASE ~Exists(req.path)
      <3>1. <<>> \in Contents
        BY EmptySeq DEF Contents
      <3> QED BY <2>2, <3>1 DEF Prior
    <2> QED BY <2>1, <2>2
  <1>3. CASE req.op \in {"write_file", "file_write"}
    <2>1. c = <<id>>
      BY <1>3 DEF NewContents
    <2>2. <<id>> \in Seq(0 .. MaxOps) /\ Len(<<id>>) = 1
      BY <1>1
    <2> QED BY <2>1, <2>2 DEF Contents
  <1>4. CASE req.op = "append"
    <2>1. c = Append(Prior(req.path), id)
      BY <1>4 DEF NewContents
    <2> QED BY <1>1, <1>2, <1>4, <2>1 DEF Contents
  <1>5. CASE req.op = "str_replace"
    <2>1. PICK old : c = Replaced(Prior(req.path), old, id)
      BY <1>5 DEF NewContents
    <2>2. DOMAIN Prior(req.path) = 1 .. Len(Prior(req.path)) /\ Len(Prior(req.path)) \in Nat
      BY <1>2, LenProperties DEF Contents
    <2>3. \A k \in 1 .. Len(Prior(req.path)) : Prior(req.path)[k] \in 0 .. MaxOps
      BY <1>2, ElementOfSeq DEF Contents
    <2>4. c \in [1 .. Len(Prior(req.path)) -> 0 .. MaxOps]
      BY <1>1, <2>1, <2>2, <2>3 DEF Replaced
    <2> QED BY <1>5, <2>2, <2>4 DEF Contents
  <1>6. CASE req.op \notin {"write_file", "file_write", "append", "str_replace"}
    BY <1>6 DEF NewContents
  <1> QED BY <1>3, <1>4, <1>5, <1>6

-----------------------------------------------------------------------------

\* The request and the number of a call that has begun.
LEMMA CallFields ==
    ASSUME TypeInv, NEW t \in Task, Busy(t)
    PROVE  /\ tasks[t] \in Stage
           /\ tasks[t].req \in Requests
           /\ tasks[t].id \in 1 .. MaxOps
           /\ tasks[t].id \in Inode
           /\ tasks[t].id # NoFile
  <1>1. tasks[t] \in Stage
    BY DEF TypeInv, TypeOK
  <1>2. tasks[t].req \in Requests /\ tasks[t].id \in 1 .. MaxOps
    BY <1>1 DEF Busy, Stage, Idle, Ready, Writing, Opened, Moving, Copying
  <1> QED BY <1>1, <1>2 DEF Inode

\* The limit survives a step if neither what the call has changed nor what it
\* still means to write exceeds it.
LEMMA FitStep ==
    ASSUME Inv, NEW t \in Task, NEW stage \in Stage, Restaged(t, stage),
           stage.pc \in {"writing", "opened", "written"} => Len(stage.contents) <= MaxBytes,
           \A i \in Inode : Len(data'[i]) <= MaxBytes
    PROVE  ContentsFit'
  BY DEF Inv, ContentsFit, Restaged

(***************************************************************************)
(* What every step of a call that has begun has in common: a new stage,    *)
(* a directory bound as FreshStep asks, and contents within the limit.     *)
(***************************************************************************)
LEMMA WorkStep ==
    ASSUME Inv, NEW t \in Task, Busy(t), NEW stage \in Stage, Restaged(t, stage),
           nextOp' = nextOp,
           stage.pc # "idle" => stage.id = tasks[t].id,
           stage.pc \in Unopened => tasks[t].pc \in Unopened,
           stage.pc \in {"writing", "opened", "written"} => Len(stage.contents) <= MaxBytes,
           names' \in [Name -> Inode \cup {NoFile}],
           \A m, n \in Name : m # n /\ names'[m] = names'[n] => names'[m] = NoFile,
           \A n \in Name : \/ names'[n] = NoFile
                           \/ \E m \in Name : names'[n] = names[m]
                           \/ names'[n] = tasks[t].id /\ stage.pc \notin Unopened,
           data' \in [Inode -> Contents],
           \A i \in Inode : Len(data'[i]) <= MaxBytes,
           whole' \subseteq Contents,
           tainted' \subseteq Inode
    PROVE  Inv'
  <1>1. TypeOK'
    BY DEF Inv, TypeInv, TypeOK, Restaged
  <1>2. IdsFresh'
    BY FreshStep DEF Inv
  <1>3. ContentsFit'
    BY FitStep
  <1> QED BY <1>1, <1>2, <1>3 DEF Inv, TypeInv

\* A step that changes neither the directory nor the number of calls.
LEMMA PlainStep ==
    ASSUME Inv, NEW t \in Task, Busy(t), NEW stage \in Stage, Restaged(t, stage),
           UNCHANGED <<names, nextOp>>,
           stage.pc # "idle" => stage.id = tasks[t].id,
           stage.pc \in Unopened => tasks[t].pc \in Unopened,
           stage.pc \in {"writing", "opened", "written"} => Len(stage.contents) <= MaxBytes,
           data' \in [Inode -> Contents],
           \A i \in Inode : Len(data'[i]) <= MaxBytes,
           whole' \subseteq Contents,
           tainted' \subseteq Inode
    PROVE  Inv'
  <1>1. /\ names' \in [Name -> Inode \cup {NoFile}]
        /\ \A m, n \in Name : m # n /\ names'[m] = names'[n] => names'[m] = NoFile
        /\ \A n \in Name : names'[n] = names[n]
    BY DEF Inv, TypeInv, TypeOK
  <1> QED BY <1>1, WorkStep

LEMMA RefuseStep ==
    ASSUME Inv, NEW t \in Task, Busy(t), Refuse(t)
    PROVE  Inv'
  <1>1. Idle \in Stage /\ Idle.pc = "idle"
    BY DEF Stage, Idle
  <1>2. Restaged(t, Idle)
    BY <1>1, StepRestages DEF Inv, TypeInv, Refuse
  <1>3. /\ UNCHANGED <<names, data, nextOp, whole, tainted>>
        /\ data \in [Inode -> Contents] /\ whole \subseteq Contents /\ tainted \subseteq Inode
        /\ \A i \in Inode : Len(data[i]) <= MaxBytes
    BY DEF Refuse, Inv, TypeInv, TypeOK, ContentsFit
  <1> QED BY <1>1, <1>2, <1>3, PlainStep DEF Unopened

\* Unbinding names leaves what FreshStep and TypeOK ask of the directory.
LEMMA Unbind ==
    ASSUME TypeInv, NEW n \in Name, names' = [names EXCEPT ![n] = NoFile]
    PROVE  /\ names' \in [Name -> Inode \cup {NoFile}]
           /\ \A k, m \in Name : k # m /\ names'[k] = names'[m] => names'[k] = NoFile
           /\ \A m \in Name : names'[m] = NoFile \/ names'[m] = names[m]
  BY DEF TypeInv, TypeOK

LEMMA Rebind ==
    ASSUME TypeInv, NEW from \in Name, NEW to \in Name,
           names' = [names EXCEPT ![to] = names[from], ![from] = NoFile]
    PROVE  /\ names' \in [Name -> Inode \cup {NoFile}]
           /\ \A k, m \in Name : k # m /\ names'[k] = names'[m] => names'[k] = NoFile
           /\ \A k \in Name : names'[k] = NoFile \/ \E m \in Name : names'[k] = names[m]
  BY DEF TypeInv, TypeOK

\* Opening a name binds it to what it was bound to, or to the call's inode.
LEMMA OpenName ==
    ASSUME TypeInv, NEW t \in Task, tasks[t].pc \in Unopened, NEW n \in Name,
           names' = [names EXCEPT ![n] = InodeFor(t, n)]
    PROVE  /\ InodeFor(t, n) \in Inode
           /\ names' \in [Name -> Inode \cup {NoFile}]
           /\ \A k, m \in Name : k # m /\ names'[k] = names'[m] => names'[k] = NoFile
           /\ \A k \in Name : names'[k] = tasks[t].id \/ names'[k] = names[k]
  <1>1. tasks[t].id \in Inode /\ tasks[t].id # NoFile
    BY CallFields DEF Busy, Unopened
  <1>2. \A m \in Name : names[m] # tasks[t].id
    BY DEF TypeInv, IdsFresh
  <1> QED BY <1>1, <1>2 DEF InodeFor, Exists, TypeInv, TypeOK

-----------------------------------------------------------------------------

LEMMA CallKeeps ==
    ASSUME Inv, NEW t \in Task, NEW req \in Requests, Call(t, req)
    PROVE  Inv'
  <1> DEFINE stage == [pc |-> "ready", req |-> req, id |-> nextOp]
  <1>1. nextOp \in 1 .. MaxOps /\ nextOp' = nextOp + 1 /\ tasks[t].pc = "idle"
    BY DEF Call, Inv, TypeInv, TypeOK
  <1>2. stage \in Stage
    BY <1>1 DEF Stage, Ready
  <1>3. Restaged(t, stage)
    BY <1>2, StepRestages DEF Inv, TypeInv, Call
  <1>4. stage.pc = "ready" /\ stage.id = nextOp
    OBVIOUS
  <1> HIDE DEF stage
  <1>5. TypeOK'
    BY <1>1, <1>3 DEF Call, Inv, TypeInv, TypeOK, Restaged
  <1>6. IdsFresh'
    <2>1. \A u \in Task \ {t} : Busy(u)' => Busy(u) /\ tasks'[u].id = tasks[u].id
      BY <1>3 DEF Restaged, Busy
    <2>2. tasks'[t].id = nextOp /\ tasks'[t].pc = "ready"
      BY <1>3, <1>4 DEF Restaged
    <2>3. \A u \in Task : Busy(u)' => tasks'[u].id \in 1 .. nextOp' - 1
      BY <1>1, <2>1, <2>2 DEF Inv, TypeInv, IdsFresh
    <2>4. ASSUME NEW u \in Task, NEW v \in Task, u # v, Busy(u)', Busy(v)'
          PROVE  tasks'[u].id # tasks'[v].id
      BY <1>1, <2>1, <2>2, <2>4 DEF Inv, TypeInv, IdsFresh
    <2>5. \A n \in Name : Exists(n)' => names'[n] < nextOp'
      BY <1>1 DEF Call, Inv, TypeInv, TypeOK, IdsFresh, Exists, Inode
    <2>6. ASSUME NEW u \in Task, tasks'[u].pc \in Unopened, NEW n \in Name
          PROVE  names'[n] # tasks'[u].id
      <3>1. CASE u = t
        BY <1>1, <2>2, <3>1 DEF Call, Inv, TypeInv, TypeOK, IdsFresh, Exists, Inode
      <3>2. CASE u # t
        BY <1>3, <2>1, <2>6, <3>2 DEF Call, Restaged, Busy, Unopened, Inv, TypeInv, IdsFresh
      <3> QED BY <3>1, <3>2
    <2> QED BY <2>3, <2>4, <2>5, <2>6 DEF IdsFresh
  <1>7. ContentsFit'
    BY <1>2, <1>3, <1>4, FitStep DEF Call, Inv, ContentsFit
  <1> QED BY <1>5, <1>6, <1>7 DEF Inv, TypeInv

LEMMA ReadFileKeeps ==
    ASSUME Inv, NEW t \in Task, ReadFile(t)
    PROVE  Inv'
  <1> DEFINE req == tasks[t].req
             id == tasks[t].id
  <1>1. Busy(t) /\ tasks[t].pc = "ready"
    BY DEF ReadFile, Called, Busy
  <1>2. req \in Requests /\ id \in 1 .. MaxOps
    BY <1>1, CallFields DEF Inv
  <1>3. CASE Refuse(t)
    BY <1>1, <1>3, RefuseStep
  <1>4. ASSUME NEW c \in NewContents(req, id),
               req.op # "file_write" => Fits(c, req.path),
               Step(t, [pc |-> "writing", req |-> req, id |-> id, contents |-> c]),
               whole' = whole \cup {c},
               UNCHANGED <<names, data, nextOp, tainted>>
        PROVE  Inv'
    <2> DEFINE stage == [pc |-> "writing", req |-> req, id |-> id, contents |-> c]
    <2>1. c \in Contents /\ Len(c) <= MaxBytes
      <3>1. TypeOK
        BY DEF Inv, TypeInv
      <3>2. c \in Contents /\ (req.op = "file_write" => Len(c) = 1)
        BY <1>2, <1>4, <3>1, NewContentsType
      <3>3. CASE req.op = "file_write"
        <4>1. MaxBytes \in Nat /\ MaxBytes # 0
          BY DEF FilesAssumption
        <4>2. \A k \in Nat : k # 0 => 1 <= k
          OBVIOUS
        <4> QED BY <3>2, <3>3, <4>1, <4>2
      <3>4. CASE req.op # "file_write"
        <4>1. Fits(c, req.path)
          BY <1>4, <3>4
        <4> QED BY <3>2, <4>1 DEF Fits
      <3> QED BY <3>3, <3>4
    <2>2. stage \in Stage
      BY <1>2, <2>1 DEF Stage, Writing
    <2>3. Restaged(t, stage)
      BY <1>4, <2>2, StepRestages DEF Inv, TypeInv
    <2>4. stage.pc = "writing" /\ stage.id = id /\ stage.contents = c
      OBVIOUS
    <2>5. /\ data' \in [Inode -> Contents] /\ whole' \subseteq Contents /\ tainted' \subseteq Inode
          /\ \A i \in Inode : Len(data'[i]) <= MaxBytes
      BY <1>4, <2>1 DEF Inv, TypeInv, TypeOK, ContentsFit
    <2>6. /\ UNCHANGED <<names, nextOp>>
          /\ tasks[t].pc \in Unopened
      BY <1>1, <1>4 DEF Unopened
    <2> HIDE DEF stage, id
    <2> QED BY <1>1, <2>1, <2>2, <2>3, <2>4, <2>5, <2>6, PlainStep DEF id
  <1> QED BY <1>3, <1>4 DEF ReadFile

LEMMA OpenFileKeeps ==
    ASSUME Inv, NEW t \in Task, OpenFile(t)
    PROVE  Inv'
  <1> DEFINE req == tasks[t].req
             n == FileToOpen(req)
             i == InodeFor(t, n)
             stage == [pc |-> "opened", req |-> req, id |-> tasks[t].id,
                       contents |-> tasks[t].contents, fd |-> i]
  <1>1. Busy(t) /\ tasks[t].pc = "writing" /\ tasks[t].pc \in Unopened
    BY DEF OpenFile, Busy, Unopened
  <1>2. /\ req \in Requests /\ tasks[t].id \in 1 .. MaxOps
        /\ tasks[t].contents \in Contents /\ Len(tasks[t].contents) <= MaxBytes
    BY <1>1, CallFields, StageFields DEF Inv, Writing, ContentsFit
  <1>3. n \in Name
    BY <1>2, Paths DEF FileToOpen
  <1>4. /\ names' = [names EXCEPT ![n] = i]
        /\ data' = [data EXCEPT ![i] = <<>>]
        /\ tainted' = IF InUse(t, i) THEN tainted \cup {i} ELSE tainted \ {i}
        /\ StepTouching(t, stage, {n})
        /\ UNCHANGED <<nextOp, whole>>
    BY DEF OpenFile
  <1> HIDE DEF n
  <1>5. /\ i \in Inode
        /\ names' \in [Name -> Inode \cup {NoFile}]
        /\ \A k, m \in Name : k # m /\ names'[k] = names'[m] => names'[k] = NoFile
        /\ \A k \in Name : names'[k] = tasks[t].id \/ names'[k] = names[k]
    BY <1>1, <1>3, <1>4, OpenName DEF Inv
  <1>6. stage \in Stage
    BY <1>2, <1>5, StageRecords
  <1>7. stage.pc = "opened" /\ stage.id = tasks[t].id /\ stage.contents = tasks[t].contents
    OBVIOUS
  <1> HIDE DEF stage, i
  <1>8. Restaged(t, stage)
    BY <1>4, <1>6, TouchingRestages DEF Inv, TypeInv
  <1>9. <<>> \in Contents /\ Len(<<>>) = 0
    BY EmptySeq DEF Contents
  <1>10. /\ data' \in [Inode -> Contents] /\ whole' \subseteq Contents /\ tainted' \subseteq Inode
         /\ \A j \in Inode : Len(data'[j]) <= MaxBytes
    BY <1>4, <1>5, <1>9 DEF Inv, TypeInv, TypeOK, ContentsFit
  <1> QED BY <1>1, <1>2, <1>4, <1>5, <1>6, <1>7, <1>8, <1>10, WorkStep DEF Unopened

LEMMA WriteDataKeeps ==
    ASSUME Inv, NEW t \in Task, WriteData(t)
    PROVE  Inv'
  <1> DEFINE i == tasks[t].fd
             direct == tasks[t].req.op = "file_write"
             stage == IF direct THEN Idle ELSE [tasks[t] EXCEPT !.pc = "written"]
  <1>1. Busy(t) /\ tasks[t].pc = "opened"
    BY DEF WriteData, Busy
  <1>2. tasks[t] \in Opened
    BY <1>1, StageFields DEF Inv, TypeInv, TypeOK
  <1>3. /\ i \in Inode /\ tasks[t].contents \in Contents
        /\ Len(tasks[t].contents) <= MaxBytes
    BY <1>1, <1>2 DEF Opened, Inv, ContentsFit
  <1>4. /\ stage \in Stage
        /\ stage.pc \in {"idle", "written"}
        /\ stage.pc = "written" => stage.id = tasks[t].id /\ stage.contents = tasks[t].contents
    <2>1. CASE direct
      BY <2>1 DEF Stage, Idle
    <2>2. CASE ~direct
      <3>1. [tasks[t] EXCEPT !.pc = "written"] \in Opened
        BY <1>2 DEF Opened
      <3> QED BY <1>2, <2>2, <3>1 DEF Stage, Opened
    <2> QED BY <2>1, <2>2
  <1>5. PICK touched : StepTouching(t, stage, touched)
    BY DEF WriteData
  <1>6. /\ data' = [data EXCEPT ![i] = Overlay(tasks[t].contents, data[i])]
        /\ UNCHANGED <<names, nextOp, whole, tainted>>
    BY DEF WriteData
  <1> HIDE DEF stage, i
  <1>7. Restaged(t, stage)
    BY <1>4, <1>5, TouchingRestages DEF Inv, TypeInv
  <1>8. data[i] \in Contents /\ Len(data[i]) <= MaxBytes
    BY <1>3 DEF Inv, TypeInv, TypeOK, ContentsFit
  <1>9. /\ Overlay(tasks[t].contents, data[i]) \in Contents
        /\ Len(Overlay(tasks[t].contents, data[i])) <= MaxBytes
    BY <1>3, <1>8, OverlayLength
  <1>10. /\ data' \in [Inode -> Contents] /\ whole' \subseteq Contents /\ tainted' \subseteq Inode
         /\ \A j \in Inode : Len(data'[j]) <= MaxBytes
    BY <1>6, <1>9 DEF Inv, TypeInv, TypeOK, ContentsFit
  <1> QED BY <1>1, <1>3, <1>4, <1>6, <1>7, <1>10, PlainStep DEF Unopened

\* A call that gives up changes no more than its own stage, and what is tainted.
LEMMA GiveUpStep ==
    ASSUME Inv, NEW t \in Task, Busy(t), Step(t, Idle),
           UNCHANGED <<names, data, nextOp, whole>>, tainted' \subseteq Inode
    PROVE  Inv'
  <1>1. Idle \in Stage /\ Idle.pc = "idle"
    BY DEF Stage, Idle
  <1>2. Restaged(t, Idle)
    BY <1>1, StepRestages DEF Inv, TypeInv
  <1>3. /\ data' \in [Inode -> Contents] /\ whole' \subseteq Contents
        /\ \A i \in Inode : Len(data'[i]) <= MaxBytes
    BY DEF Inv, TypeInv, TypeOK, ContentsFit
  <1> QED BY <1>1, <1>2, <1>3, PlainStep DEF Unopened

LEMMA FailsKeep ==
    ASSUME Inv, NEW t \in Task, WriteFails(t) \/ CopyFails(t)
    PROVE  Inv'
  <1>1. tasks[t].pc \in {"opened", "copying"} /\ Busy(t)
    BY DEF WriteFails, CopyFails, Busy
  <1>2. tasks[t].fd \in Inode
    BY <1>1, StageFields DEF Inv, TypeInv, TypeOK, Opened, Copying
  <1>3. tainted' \subseteq Inode
    BY <1>2 DEF WriteFails, CopyFails, Inv, TypeInv, TypeOK
  <1> QED BY <1>1, <1>3, GiveUpStep DEF WriteFails, CopyFails

(***************************************************************************)
(* A call ends by binding a name to another's inode and the other to none, *)
(* or by unbinding a name.                                                 *)
(***************************************************************************)
LEMMA NamesStep ==
    ASSUME Inv, NEW t \in Task, Busy(t), NEW touched, StepTouching(t, Idle, touched),
           UNCHANGED <<data, nextOp, whole>>, tainted' \subseteq Inode,
           \/ \E n \in Name : names' = [names EXCEPT ![n] = NoFile]
           \/ \E from, to \in Name :
                 names' = [names EXCEPT ![to] = names[from], ![from] = NoFile]
    PROVE  Inv'
  <1>1. Idle \in Stage /\ Idle.pc = "idle"
    BY DEF Stage, Idle
  <1>2. Restaged(t, Idle)
    BY <1>1, TouchingRestages DEF Inv, TypeInv
  <1>3. /\ data' \in [Inode -> Contents] /\ whole' \subseteq Contents
        /\ \A i \in Inode : Len(data'[i]) <= MaxBytes
    BY DEF Inv, TypeInv, TypeOK, ContentsFit
  <1>4. /\ names' \in [Name -> Inode \cup {NoFile}]
        /\ \A k, m \in Name : k # m /\ names'[k] = names'[m] => names'[k] = NoFile
        /\ \A k \in Name : names'[k] = NoFile \/ \E m \in Name : names'[k] = names[m]
    <2>1. CASE \E n \in Name : names' = [names EXCEPT ![n] = NoFile]
      BY <2>1, Unbind DEF Inv
    <2>2. CASE \E from, to \in Name :
                 names' = [names EXCEPT ![to] = names[from], ![from] = NoFile]
      BY <2>2, Rebind DEF Inv
    <2> QED BY <2>1, <2>2
  <1> QED BY <1>1, <1>2, <1>3, <1>4, WorkStep DEF Unopened

LEMMA RenameTmpKeeps ==
    ASSUME Inv, NEW t \in Task, RenameTmp(t)
    PROVE  Inv'
  <1> DEFINE p == tasks[t].req.path
             n == Tmp[p]
             failed == [pc |-> "failed", req |-> tasks[t].req, id |-> tasks[t].id]
  <1>1. Busy(t) /\ tasks[t].pc = "written"
    BY DEF RenameTmp, Busy
  <1>2. p \in Name /\ n \in Name /\ n # p
    BY <1>1, CallFields, Paths DEF Inv
  <1>3. CASE ~Step(t, failed)
    <2>1. /\ Exists(n)
          /\ names' = [names EXCEPT ![p] = names[n], ![n] = NoFile]
          /\ tainted' \subseteq tainted \cup {names[n]}
          /\ StepTouching(t, Idle, {p})
          /\ UNCHANGED <<data, nextOp, whole>>
      BY <1>3 DEF RenameTmp
    <2>2. tainted' \subseteq Inode
      BY <1>2, <2>1 DEF Inv, TypeInv, TypeOK, Exists
    <2> HIDE DEF p, n
    <2> QED BY <1>1, <1>2, <2>1, <2>2, NamesStep
  <1>4. CASE Step(t, failed)
    <2>1. \/ UNCHANGED <<names, data, nextOp, whole, tainted>>
          \/ StepTouching(t, Idle, {p})
      BY DEF RenameTmp
    <2>2. ~StepTouching(t, Idle, {p})
      <3>1. StepTouching(t, Idle, {p}) => tasks'[t] = Idle
        BY DEF StepTouching
      <3>2. tasks'[t] = failed
        BY <1>4 DEF Step, Inv, TypeInv, TypeOK
      <3> QED BY <3>1, <3>2 DEF Idle
    <2>3. /\ UNCHANGED <<names, data, nextOp, whole, tainted>>
          /\ data \in [Inode -> Contents] /\ whole \subseteq Contents /\ tainted \subseteq Inode
          /\ \A i \in Inode : Len(data[i]) <= MaxBytes
      BY <2>1, <2>2 DEF Inv, TypeInv, TypeOK, ContentsFit
    <2>4. failed \in Stage /\ failed.pc = "failed" /\ failed.id = tasks[t].id
      BY <1>1, CallFields DEF Inv, Stage, Ready
    <2> HIDE DEF failed
    <2>5. Restaged(t, failed)
      BY <1>4, <2>4, StepRestages DEF Inv, TypeInv
    <2> QED BY <1>1, <2>3, <2>4, <2>5, PlainStep DEF Unopened
  <1> QED BY <1>3, <1>4

LEMMA RemoveTmpKeeps ==
    ASSUME Inv, NEW t \in Task, RemoveTmp(t)
    PROVE  Inv'
  <1> DEFINE n == Tmp[tasks[t].req.path]
  <1>1. Busy(t)
    BY DEF RemoveTmp, Busy
  <1>2. n \in Name
    BY <1>1, CallFields, Paths DEF Inv
  <1>3. /\ names' = [names EXCEPT ![n] = NoFile]
        /\ StepTouching(t, Idle, {})
        /\ UNCHANGED <<data, nextOp, whole, tainted>>
    BY DEF RemoveTmp, Step, StepTouching, Inv, TypeInv, TypeOK
  <1>4. tainted' \subseteq Inode
    BY <1>3 DEF Inv, TypeInv, TypeOK
  <1> HIDE DEF n
  <1> QED BY <1>1, <1>2, <1>3, <1>4, NamesStep

LEMMA DeleteFileKeeps ==
    ASSUME Inv, NEW t \in Task, DeleteFile(t)
    PROVE  Inv'
  <1> DEFINE p == tasks[t].req.path
  <1>1. Busy(t)
    BY DEF DeleteFile, Called, Busy
  <1>2. p \in Name
    BY <1>1, CallFields, Paths DEF Inv
  <1>3. CASE Exists(p)
    <2>1. /\ names' = [names EXCEPT ![p] = NoFile]
          /\ StepTouching(t, Idle, {p})
          /\ UNCHANGED <<data, nextOp, whole, tainted>>
      BY <1>3 DEF DeleteFile
    <2>2. tainted' \subseteq Inode
      BY <2>1 DEF Inv, TypeInv, TypeOK
    <2> HIDE DEF p
    <2> QED BY <1>1, <1>2, <2>1, <2>2, NamesStep
  <1>4. CASE ~Exists(p)
    BY <1>1, <1>4, RefuseStep DEF DeleteFile
  <1> QED BY <1>3, <1>4

-----------------------------------------------------------------------------

LEMMA CheckMoveKeeps ==
    ASSUME Inv, NEW t \in Task, CheckMove(t)
    PROVE  Inv'
  <1> DEFINE req == tasks[t].req
             stage == [pc |-> IF Exists(req.to) THEN "replacing" ELSE "moving", req |-> req,
                       id |-> tasks[t].id, contents |-> ContentsOf(req.path), alone |-> TRUE]
  <1>1. Busy(t) /\ tasks[t].pc \in Unopened
    BY DEF CheckMove, Called, Busy, Unopened
  <1>2. /\ req \in Requests /\ tasks[t].id \in 1 .. MaxOps
        /\ req.path \in Name
    BY <1>1, CallFields, Paths DEF Inv
  <1>3. CASE Exists(req.path) /\ (Exists(req.to) => req.overwrite)
    <2>1. Step(t, stage) /\ UNCHANGED <<names, data, nextOp, whole, tainted>>
      BY <1>3 DEF CheckMove
    <2>2. ContentsOf(req.path) \in Contents
      BY <1>2, <1>3 DEF ContentsOf, Exists, Inv, TypeInv, TypeOK
    <2>3. stage \in Stage
      BY <1>2, <2>2 DEF Stage, Moving
    <2>4. stage.pc \in {"replacing", "moving"} /\ stage.id = tasks[t].id
      OBVIOUS
    <2> HIDE DEF stage
    <2>5. Restaged(t, stage)
      BY <2>1, <2>3, StepRestages DEF Inv, TypeInv
    <2>6. /\ data' \in [Inode -> Contents] /\ whole' \subseteq Contents /\ tainted' \subseteq Inode
          /\ \A i \in Inode : Len(data'[i]) <= MaxBytes
      BY <2>1 DEF Inv, TypeInv, TypeOK, ContentsFit
    <2> QED BY <1>1, <2>1, <2>3, <2>4, <2>5, <2>6, PlainStep
  <1>4. CASE ~(Exists(req.path) /\ (Exists(req.to) => req.overwrite))
    BY <1>1, <1>4, RefuseStep DEF CheckMove
  <1> QED BY <1>3, <1>4

LEMMA RemoveTargetKeeps ==
    ASSUME Inv, NEW t \in Task, RemoveTarget(t)
    PROVE  Inv'
  <1> DEFINE to == tasks[t].req.to
             stage == [tasks[t] EXCEPT !.pc = "moving"]
  <1>1. Busy(t) /\ tasks[t].pc = "replacing" /\ tasks[t].pc \in Unopened
    BY DEF RemoveTarget, Busy, Unopened
  <1>2. to \in Name
    BY <1>1, CallFields, Paths DEF Inv
  <1>3. CASE Refuse(t)
    BY <1>1, <1>3, RefuseStep
  <1>4. CASE ~Refuse(t)
    <2>1. /\ names' = [names EXCEPT ![to] = NoFile]
          /\ StepTouching(t, stage, {to})
          /\ UNCHANGED <<data, nextOp, whole, tainted>>
      BY <1>4 DEF RemoveTarget
    <2>2. tasks[t] \in Moving
      BY <1>1, StageFields DEF Inv, TypeInv, TypeOK
    <2>3. stage \in Moving /\ stage.pc = "moving" /\ stage.id = tasks[t].id
      BY <2>2 DEF Moving
    <2>4. stage \in Stage
      BY <2>3 DEF Stage
    <2> HIDE DEF stage, to
    <2>5. /\ names' \in [Name -> Inode \cup {NoFile}]
          /\ \A k, m \in Name : k # m /\ names'[k] = names'[m] => names'[k] = NoFile
          /\ \A m \in Name : names'[m] = NoFile \/ names'[m] = names[m]
      BY <1>2, <2>1, Unbind DEF Inv
    <2>6. Restaged(t, stage)
      BY <2>1, <2>4, TouchingRestages DEF Inv, TypeInv
    <2>7. /\ data' \in [Inode -> Contents] /\ whole' \subseteq Contents /\ tainted' \subseteq Inode
          /\ \A i \in Inode : Len(data'[i]) <= MaxBytes
      BY <2>1 DEF Inv, TypeInv, TypeOK, ContentsFit
    <2> QED BY <1>1, <2>1, <2>3, <2>4, <2>5, <2>6, <2>7, WorkStep
  <1> QED BY <1>3, <1>4

LEMMA RenameMoveKeeps ==
    ASSUME Inv, NEW t \in Task, RenameMove(t)
    PROVE  Inv'
  <1> DEFINE from == tasks[t].req.path
             to == tasks[t].req.to
  <1>1. Busy(t)
    BY DEF RenameMove, Busy
  <1>2. from \in Name /\ to \in Name
    BY <1>1, CallFields, Paths DEF Inv
  <1>3. CASE Refuse(t)
    BY <1>1, <1>3, RefuseStep
  <1>4. CASE ~Refuse(t)
    <2>1. /\ names' = [names EXCEPT ![to] = names[from], ![from] = NoFile]
          /\ StepTouching(t, Idle, {from, to})
          /\ UNCHANGED <<data, nextOp, whole, tainted>>
      BY <1>4 DEF RenameMove
    <2>2. tainted' \subseteq Inode
      BY <2>1 DEF Inv, TypeInv, TypeOK
    <2> HIDE DEF from, to
    <2> QED BY <1>1, <1>2, <2>1, <2>2, NamesStep
  <1> QED BY <1>3, <1>4

LEMMA OpenCopyKeeps ==
    ASSUME Inv, NEW t \in Task, OpenCopy(t)
    PROVE  Inv'
  <1> DEFINE from == tasks[t].req.path
             to == tasks[t].req.to
             i == InodeFor(t, to)
             stage == [pc |-> "copying", req |-> tasks[t].req, id |-> tasks[t].id,
                       contents |-> tasks[t].contents, from |-> names[from], fd |-> i,
                       alone |-> tasks[t].alone]
  <1>1. Busy(t) /\ tasks[t].pc = "moving" /\ tasks[t].pc \in Unopened
    BY DEF OpenCopy, Busy, Unopened
  <1>2. /\ tasks[t].req \in Requests /\ tasks[t].id \in 1 .. MaxOps
        /\ from \in Name /\ to \in Name
        /\ tasks[t].contents \in Contents /\ tasks[t].alone \in BOOLEAN
    BY <1>1, CallFields, Paths, StageFields DEF Inv, Moving
  <1>3. /\ Exists(from)
        /\ names' = [names EXCEPT ![to] = i]
        /\ data' = [data EXCEPT ![i] = <<>>]
        /\ tainted' = IF InUse(t, i) THEN tainted \cup {i} ELSE tainted \ {i}
        /\ StepTouching(t, stage, {to})
        /\ UNCHANGED <<nextOp, whole>>
    BY DEF OpenCopy
  <1>4. names[from] \in Inode
    BY <1>2, <1>3 DEF Exists, Inv, TypeInv, TypeOK
  <1>5. /\ i \in Inode
        /\ names' \in [Name -> Inode \cup {NoFile}]
        /\ \A k, m \in Name : k # m /\ names'[k] = names'[m] => names'[k] = NoFile
        /\ \A k \in Name : names'[k] = tasks[t].id \/ names'[k] = names[k]
    BY <1>1, <1>2, <1>3, OpenName DEF Inv
  <1>6. stage \in Stage
    BY <1>2, <1>4, <1>5, StageRecords
  <1>7. stage.pc = "copying" /\ stage.id = tasks[t].id
    OBVIOUS
  <1> HIDE DEF stage, i
  <1>8. Restaged(t, stage)
    BY <1>3, <1>6, TouchingRestages DEF Inv, TypeInv
  <1>9. <<>> \in Contents /\ Len(<<>>) = 0
    BY EmptySeq DEF Contents
  <1>10. /\ data' \in [Inode -> Contents] /\ whole' \subseteq Contents /\ tainted' \subseteq Inode
         /\ \A j \in Inode : Len(data'[j]) <= MaxBytes
    BY <1>3, <1>5, <1>9 DEF Inv, TypeInv, TypeOK, ContentsFit
  <1> QED BY <1>1, <1>3, <1>5, <1>6, <1>7, <1>8, <1>10, WorkStep DEF Unopened

LEMMA CopyDataKeeps ==
    ASSUME Inv, NEW t \in Task, CopyData(t)
    PROVE  Inv'
  <1> DEFINE from == tasks[t].from
             to == tasks[t].fd
             stage == Copied(tasks[t])
  <1>1. Busy(t) /\ tasks[t].pc = "copying"
    BY DEF CopyData, Busy
  <1>2. tasks[t] \in Copying
    BY <1>1, StageFields DEF Inv, TypeInv, TypeOK
  <1>3. from \in Inode /\ to \in Inode
    BY <1>2 DEF Copying
  <1>4. stage \in Stage /\ stage.pc = "copied" /\ stage.id = tasks[t].id
    <2>1. stage \in Moving
      BY <1>2 DEF Copying, Moving, Copied
    <2> QED BY <2>1 DEF Stage, Copied
  <1>5. /\ data' = [data EXCEPT ![to] = Overlay(data[from], data[to])]
        /\ tainted' \subseteq tainted \cup {to}
        /\ StepTouching(t, stage, NamesOf(to))
        /\ UNCHANGED <<names, nextOp, whole>>
    BY DEF CopyData
  <1> HIDE DEF stage, from, to
  <1>6. Restaged(t, stage)
    BY <1>4, <1>5, TouchingRestages DEF Inv, TypeInv
  <1>7. /\ data[from] \in Contents /\ Len(data[from]) <= MaxBytes
        /\ data[to] \in Contents /\ Len(data[to]) <= MaxBytes
    BY <1>3 DEF Inv, TypeInv, TypeOK, ContentsFit
  <1>8. /\ Overlay(data[from], data[to]) \in Contents
        /\ Len(Overlay(data[from], data[to])) <= MaxBytes
    BY <1>7, OverlayLength
  <1>9. /\ data' \in [Inode -> Contents] /\ whole' \subseteq Contents /\ tainted' \subseteq Inode
        /\ \A j \in Inode : Len(data'[j]) <= MaxBytes
    BY <1>3, <1>5, <1>8 DEF Inv, TypeInv, TypeOK, ContentsFit
  <1> QED BY <1>1, <1>4, <1>5, <1>6, <1>9, PlainStep DEF Unopened

LEMMA RemoveSourceKeeps ==
    ASSUME Inv, NEW t \in Task, RemoveSource(t)
    PROVE  Inv'
  <1> DEFINE from == tasks[t].req.path
  <1>1. Busy(t)
    BY DEF RemoveSource, Busy
  <1>2. from \in Name
    BY <1>1, CallFields, Paths DEF Inv
  <1>3. CASE Refuse(t)
    BY <1>1, <1>3, RefuseStep
  <1>4. CASE ~Refuse(t)
    <2>1. /\ names' = [names EXCEPT ![from] = NoFile]
          /\ StepTouching(t, Idle, {from})
          /\ UNCHANGED <<data, nextOp, whole, tainted>>
      BY <1>4 DEF RemoveSource
    <2>2. tainted' \subseteq Inode
      BY <2>1 DEF Inv, TypeInv, TypeOK
    <2> HIDE DEF from
    <2> QED BY <1>1, <1>2, <2>1, <2>2, NamesStep
  <1> QED BY <1>3, <1>4

LEMMA CrashKeeps ==
    ASSUME Inv, Crash
    PROVE  Inv'
  <1>1. /\ tasks' = [t \in Task |-> Idle] /\ Idle.pc = "idle" /\ Idle \in Stage
        /\ UNCHANGED <<names, data, nextOp, whole>>
    BY DEF Crash, Stage, Idle
  <1>2. tainted' \subseteq Inode
    BY StageFields DEF Crash, WrittenInPlace, Inv, TypeInv, TypeOK, Opened, Copying
  <1> HIDE DEF Idle
  <1>3. TypeOK'
    BY <1>1, <1>2 DEF Inv, TypeInv, TypeOK
  <1>4. \A t \in Task : tasks'[t].pc = "idle"
    BY <1>1
  <1>5. IdsFresh' /\ ContentsFit'
    BY <1>1, <1>4 DEF Inv, TypeInv, IdsFresh, ContentsFit, Busy, Exists, Unopened
  <1> QED BY <1>3, <1>5 DEF Inv, TypeInv

-----------------------------------------------------------------------------

LEMMA InvHolds == Spec => []Inv
  <1>1. Init => Inv
    <2> SUFFICES ASSUME Init PROVE Inv
      OBVIOUS
    <2>1. <<0>> \in Contents /\ Len(<<0>>) = 1 /\ <<>> \in Contents /\ Len(<<>>) = 0
      BY EmptySeq DEF Contents
    <2>2. MaxBytes \in Nat /\ 1 <= MaxBytes
      OBVIOUS
    <2>3. Idle \in Stage /\ Idle.pc = "idle"
      BY DEF Stage, Idle
    <2>4. PICK p \in Target : names = [n \in Name |-> IF n = p THEN 0 ELSE NoFile]
      BY DEF Init
    <2> HIDE DEF Idle
    <2>5. TypeOK
      BY <2>1, <2>3, <2>4 DEF Init, TypeOK, Inode
    <2>6. IdsFresh
      BY <2>3, <2>4 DEF Init, IdsFresh, Busy, Exists, Unopened
    <2>7. ContentsFit
      BY <2>1, <2>2, <2>3 DEF Init, ContentsFit
    <2> QED BY <2>5, <2>6, <2>7 DEF Inv, TypeInv
  <1>2. Inv /\ [Next]_vars => Inv'
    <2> SUFFICES ASSUME Inv, [Next]_vars PROVE Inv'
      OBVIOUS
    <2>1. ASSUME NEW t \in Task, Work(t) PROVE Inv'
      BY <2>1, ReadFileKeeps, OpenFileKeeps, WriteDataKeeps, FailsKeep, RenameTmpKeeps,
         RemoveTmpKeeps, DeleteFileKeeps, CheckMoveKeeps, RemoveTargetKeeps, RenameMoveKeeps, OpenCopyKeeps, CopyDataKeeps,
         RemoveSourceKeeps DEF Work
    <2>2. ASSUME NEW t \in Task, NEW req \in Requests, Call(t, req) PROVE Inv'
      BY <2>2, CallKeeps
    <2>3. CASE Crash
      BY <2>3, CrashKeeps
    <2>4. CASE UNCHANGED vars
      BY <2>4 DEF vars, Inv, TypeInv, TypeOK, IdsFresh, ContentsFit, Busy, Exists
    <2> QED BY <2>1, <2>2, <2>3, <2>4 DEF Next
  <1> QED BY <1>1, <1>2, PTL DEF Spec

(***************************************************************************)
(* However the tools' system calls interleave, fail or are cut short by a  *)
(* crash, the directory stays well formed: no rename, move or open binds   *)
(* two names to one inode.                                                 *)
(***************************************************************************)
THEOREM TypeCorrect == Spec => []TypeOK
  <1>1. Inv => TypeOK
    BY DEF Inv, TypeInv
  <1> QED BY <1>1, InvHolds, PTL

(***************************************************************************)
(* The limit that write_workspace_regular_file, str_replace_workspace_file *)
(* and write_workspace_file_with_limit check on what each is about to      *)
(* write bounds every file, temporary ones too, even where calls overwrite *)
(* one another's files half-way.                                           *)
(***************************************************************************)
THEOREM FilesStayBounded == Spec => []SizeBounded
  <1>1. Inv => SizeBounded
    BY DEF Inv, TypeInv, TypeOK, ContentsFit, SizeBounded, Exists, ContentsOf
  <1> QED BY <1>1, InvHolds, PTL

-----------------------------------------------------------------------------

(***************************************************************************)
(* What a move that is alone has found or done by its stage: its source    *)
(* with the contents it began with, once it has made room with nothing in  *)
(* its way, an empty copy beside the source, or the whole copy.            *)
(***************************************************************************)
AloneKeeps(t) ==
    LET from == tasks[t].req.path
        to == tasks[t].req.to
        c == tasks[t].contents
    IN  /\ tasks[t].pc = "replacing" => Exists(from) /\ ContentsOf(from) = c
        /\ tasks[t].pc = "moving" => Exists(from) /\ ContentsOf(from) = c /\ ~Exists(to)
        /\ tasks[t].pc = "copying" =>
              /\ names[from] = tasks[t].from /\ ContentsOf(from) = c
              /\ names[to] = tasks[t].fd /\ ContentsOf(to) = <<>>
        /\ tasks[t].pc = "copied" => Exists(to) /\ ContentsOf(to) = c

MovesInv ==
    \A t \in Task : IsMove(tasks[t]) =>
        /\ tasks[t].req.op = "move"
        /\ tasks[t].alone => AloneKeeps(t)

\* A move has a source and a destination, which are two files.
LEMMA MoveFields ==
    ASSUME TypeOK, MovesInv, NEW u \in Task, IsMove(tasks[u])
    PROVE  /\ tasks[u] \in Moving \cup Copying
           /\ tasks[u].req \in Requests
           /\ tasks[u].req.path \in Target /\ tasks[u].req.to \in Target
           /\ tasks[u].req.path # tasks[u].req.to
           /\ tasks[u].contents \in Contents
  <1>1. tasks[u] \in Moving \cup Copying
    BY StageFields DEF TypeOK, IsMove
  <1>2. tasks[u].req \in Requests /\ tasks[u].contents \in Contents /\ tasks[u].req.op = "move"
    BY <1>1 DEF Moving, Copying, MovesInv
  <1> QED BY <1>1, <1>2, Paths

\* Going on without touching a file is a special case.
LEMMA StepTouchesNothing ==
    ASSUME TypeOK, NEW t \in Task, NEW stage, Step(t, stage)
    PROVE  StepTouching(t, stage, {})
  BY DEF TypeOK, Step, StepTouching

(***************************************************************************)
(* A call leaves other calls' moves as they are, if it touches every file  *)
(* whose inode or whose contents it changes.                               *)
(***************************************************************************)
LEMMA Bystanders ==
    ASSUME TypeOK, MovesInv, NEW t \in Task, NEW stage, NEW touched,
           StepTouching(t, stage, touched),
           \A n \in Target \ touched :
              names'[n] = names[n] /\ (Exists(n) => data'[names[n]] = data[names[n]]),
           NEW u \in Task \ {t}, IsMove(tasks'[u])
    PROVE  tasks'[u].req.op = "move" /\ (tasks'[u].alone => AloneKeeps(u)')
  <1> DEFINE from == tasks[u].req.path
             to == tasks[u].req.to
  <1>1. CASE IsMove(tasks[u]) /\ {from, to} \cap touched # {}
    <2>1. tasks'[u] = [tasks[u] EXCEPT !.alone = FALSE]
      BY <1>1 DEF StepTouching
    <2>2. tasks[u] \in Moving \cup Copying /\ tasks[u].req.op = "move"
      BY <1>1, MoveFields DEF MovesInv
    <2> QED BY <2>1, <2>2 DEF Moving, Copying
  <1>2. CASE ~(IsMove(tasks[u]) /\ {from, to} \cap touched # {})
    <2>1. tasks'[u] = tasks[u]
      BY <1>2 DEF StepTouching
    <2>2. IsMove(tasks[u])
      BY <2>1
    <2>3. from \in Target \ touched /\ to \in Target \ touched
      BY <1>2, <2>2, MoveFields
    <2>4. tasks[u].req.op = "move" /\ (tasks[u].alone => AloneKeeps(u))
      BY <2>2 DEF MovesInv
    <2>5. tasks[u].pc = "copying" => tasks[u].from \in Inode /\ tasks[u].fd \in Inode
      BY StageFields DEF TypeOK, Copying
    <2>6. /\ names'[from] = names[from] /\ (Exists(from) => data'[names[from]] = data[names[from]])
          /\ names'[to] = names[to] /\ (Exists(to) => data'[names[to]] = data[names[to]])
      BY <2>3
    <2> HIDE DEF from, to
    <2> QED BY <2>1, <2>4, <2>5, <2>6 DEF AloneKeeps, Exists, ContentsOf, Inode, from, to
  <1> QED BY <1>1, <1>2

\* The moves of a step: those of other calls, and the call's own if it is one.
LEMMA MovesStep ==
    ASSUME TypeOK, MovesInv, NEW t \in Task, NEW stage, NEW touched,
           StepTouching(t, stage, touched),
           \A n \in Target \ touched :
              names'[n] = names[n] /\ (Exists(n) => data'[names[n]] = data[names[n]]),
           IsMove(stage) => stage.req.op = "move" /\ (stage.alone => AloneKeeps(t)')
    PROVE  MovesInv'
  <1>1. tasks'[t] = stage
    BY DEF StepTouching
  <1>2. \A u \in Task \ {t} : IsMove(tasks'[u]) =>
           tasks'[u].req.op = "move" /\ (tasks'[u].alone => AloneKeeps(u)')
    BY Bystanders
  <1> QED BY <1>1, <1>2 DEF MovesInv

LEMMA QuietMoves ==
    ASSUME TypeOK, MovesInv, NEW t \in Task, NEW stage, Step(t, stage), ~IsMove(stage),
           UNCHANGED <<names, data>>
    PROVE  MovesInv'
  <1>1. StepTouching(t, stage, {})
    BY StepTouchesNothing
  <1> QED BY <1>1, MovesStep

LEMMA IdleIsNoMove == ~IsMove(Idle)
  BY DEF IsMove, Idle

\* What is bound to another name is not what a call gets by opening this one.
LEMMA OpensNoOther ==
    ASSUME Inv, NEW t \in Task, tasks[t].pc \in {"writing", "moving"}, NEW n \in Name
    PROVE  \A m \in Name \ {n} : names[m] # InodeFor(t, n)
  BY DEF InodeFor, Exists, Inv, TypeInv, TypeOK, IdsFresh, Unopened

LEMMA OverlayOnNothing ==
    ASSUME NEW c \in Contents
    PROVE  Overlay(c, <<>>) = c
  <1>1. /\ Len(c) \in Nat /\ DOMAIN c = 1 .. Len(c) /\ Len(<<>>) = 0
        /\ c = [k \in 1 .. Len(c) |-> c[k]]
    BY LenProperties DEF Contents
  <1>2. (IF Len(c) > Len(<<>>) THEN Len(c) ELSE Len(<<>>)) = Len(c)
    BY <1>1
  <1>3. Overlay(c, <<>>) = [k \in 1 .. Len(c) |-> c[k]]
    BY <1>1, <1>2 DEF Overlay
  <1> QED BY <1>1, <1>3

LEMMA FileStepsKeepMoves ==
    ASSUME Inv, MovesInv, NEW t \in Task,
           \/ ReadFile(t) \/ OpenFile(t) \/ WriteData(t) \/ WriteFails(t) \/ RenameTmp(t)
           \/ RemoveTmp(t) \/ DeleteFile(t)
    PROVE  MovesInv'
  <1> DEFINE req == tasks[t].req
             p == tasks[t].req.path
  <1>0. TypeOK
    BY DEF Inv, TypeInv
  <1>1. CASE Refuse(t) \/ WriteFails(t)
    <2>1. Step(t, Idle) /\ UNCHANGED <<names, data>>
      BY <1>1 DEF Refuse, WriteFails
    <2> QED BY <1>0, <2>1, QuietMoves, IdleIsNoMove
  <1>2. CASE ReadFile(t) /\ ~Refuse(t)
    <2>1. PICK c : /\ Step(t, [pc |-> "writing", req |-> req, id |-> tasks[t].id, contents |-> c])
                   /\ UNCHANGED <<names, data>>
      BY <1>2 DEF ReadFile
    <2>2. ~IsMove([pc |-> "writing", req |-> req, id |-> tasks[t].id, contents |-> c])
      BY DEF IsMove
    <2> QED BY <1>0, <2>1, <2>2, QuietMoves
  <1>3. CASE OpenFile(t)
    <2> DEFINE n == FileToOpen(req)
               i == InodeFor(t, n)
               stage == [pc |-> "opened", req |-> req, id |-> tasks[t].id,
                         contents |-> tasks[t].contents, fd |-> i]
    <2>1. tasks[t].pc = "writing" /\ Busy(t)
      BY <1>3 DEF OpenFile, Busy
    <2>2. n \in Name
      BY <2>1, CallFields, Paths DEF Inv, FileToOpen
    <2>3. \A m \in Name \ {n} : names[m] # i
      BY <2>1, <2>2, OpensNoOther
    <2>4. /\ names' = [names EXCEPT ![n] = i] /\ data' = [data EXCEPT ![i] = <<>>]
          /\ StepTouching(t, stage, {n})
      BY <1>3 DEF OpenFile
    <2>5. ~IsMove(stage)
      BY DEF IsMove
    <2> HIDE DEF n, i, stage
    <2>6. \A m \in Target \ {n} : names'[m] = names[m] /\ data'[names[m]] = data[names[m]]
      BY <1>0, <2>3, <2>4, Paths DEF TypeOK, Name
    <2> QED BY <1>0, <2>4, <2>5, <2>6, MovesStep
  <1>4. CASE WriteData(t)
    <2> DEFINE i == tasks[t].fd
               stage == IF req.op = "file_write" THEN Idle ELSE [tasks[t] EXCEPT !.pc = "written"]
    <2>1. /\ tasks[t].pc = "opened" /\ UNCHANGED names
          /\ data' = [data EXCEPT ![i] = Overlay(tasks[t].contents, @)]
          /\ StepTouching(t, stage, NamesOf(i))
      BY <1>4 DEF WriteData
    <2>2. tasks[t] \in Opened
      BY <1>0, <2>1, StageFields DEF TypeOK
    <2>3. ~IsMove(stage)
      BY <2>2, IdleIsNoMove DEF IsMove, Opened
    <2> HIDE DEF i, stage
    <2>4. \A m \in Target \ NamesOf(i) : names'[m] = names[m] /\ data'[names[m]] = data[names[m]]
      BY <1>0, <2>1 DEF NamesOf, Name, TypeOK
    <2> QED BY <1>0, <2>1, <2>3, <2>4, MovesStep
  <1>5. CASE RenameTmp(t)
    <2> DEFINE failed == [pc |-> "failed", req |-> req, id |-> tasks[t].id]
    <2>1. Busy(t)
      BY <1>5 DEF RenameTmp, Busy
    <2>2. p \in Target /\ Tmp[p] \notin Target
      BY <2>1, CallFields, Paths DEF Inv
    <2>3. CASE Step(t, failed) /\ UNCHANGED <<names, data>>
      <3>1. ~IsMove(failed)
        BY DEF IsMove
      <3> QED BY <1>0, <2>3, <3>1, QuietMoves
    <2>4. CASE ~(Step(t, failed) /\ UNCHANGED <<names, data>>)
      <3>1. /\ names' = [names EXCEPT ![p] = names[Tmp[p]], ![Tmp[p]] = NoFile]
            /\ StepTouching(t, Idle, {p}) /\ UNCHANGED data
        BY <1>5, <2>4 DEF RenameTmp
      <3> HIDE DEF p
      <3>2. \A m \in Target \ {p} : names'[m] = names[m] /\ data'[names[m]] = data[names[m]]
        BY <1>0, <2>2, <3>1 DEF TypeOK, Name
      <3> QED BY <1>0, <3>1, <3>2, MovesStep, IdleIsNoMove
    <2> QED BY <2>3, <2>4
  <1>6. CASE RemoveTmp(t)
    <2>1. Busy(t)
      BY <1>6 DEF RemoveTmp, Busy
    <2>2. p \in Target /\ Tmp[p] \notin Target
      BY <2>1, CallFields, Paths DEF Inv
    <2>3. names' = [names EXCEPT ![Tmp[p]] = NoFile] /\ Step(t, Idle) /\ UNCHANGED data
      BY <1>6 DEF RemoveTmp
    <2> HIDE DEF p
    <2>4. \A m \in Target : names'[m] = names[m] /\ data'[names[m]] = data[names[m]]
      BY <1>0, <2>2, <2>3 DEF TypeOK, Name
    <2>5. StepTouching(t, Idle, {})
      BY <1>0, <2>3, StepTouchesNothing
    <2> QED BY <1>0, <2>4, <2>5, MovesStep, IdleIsNoMove
  <1>7. CASE DeleteFile(t) /\ ~Refuse(t)
    <2>1. names' = [names EXCEPT ![p] = NoFile] /\ StepTouching(t, Idle, {p}) /\ UNCHANGED data
      BY <1>7 DEF DeleteFile
    <2> HIDE DEF p
    <2>2. \A m \in Target \ {p} : names'[m] = names[m] /\ data'[names[m]] = data[names[m]]
      BY <1>0, <2>1 DEF TypeOK, Name
    <2> QED BY <1>0, <2>1, <2>2, MovesStep, IdleIsNoMove
  <1> QED BY <1>1, <1>2, <1>3, <1>4, <1>5, <1>6, <1>7

LEMMA MoveStepsKeepMoves ==
    ASSUME Inv, MovesInv, NEW t \in Task,
           \/ CheckMove(t) \/ RemoveTarget(t) \/ RenameMove(t) \/ OpenCopy(t) \/ CopyData(t)
           \/ CopyFails(t) \/ RemoveSource(t)
    PROVE  MovesInv'
  <1> DEFINE req == tasks[t].req
             from == tasks[t].req.path
             to == tasks[t].req.to
  <1>0. TypeOK
    BY DEF Inv, TypeInv
  <1>1. CASE Refuse(t) \/ CopyFails(t)
    <2>1. Step(t, Idle) /\ UNCHANGED <<names, data>>
      BY <1>1 DEF Refuse, CopyFails
    <2> QED BY <1>0, <2>1, QuietMoves, IdleIsNoMove
  <1>2. CASE CheckMove(t) /\ ~Refuse(t)
    <2> DEFINE stage == [pc |-> IF Exists(to) THEN "replacing" ELSE "moving", req |-> req,
                         id |-> tasks[t].id, contents |-> ContentsOf(from), alone |-> TRUE]
    <2>1. Called(t, {"move"}) /\ Busy(t)
      BY <1>2 DEF CheckMove, Called, Busy
    <2>2. from \in Target /\ to \in Target /\ from # to /\ req.op = "move"
      BY <2>1, CallFields, Paths DEF Inv, Called
    <2>3. Exists(from) /\ UNCHANGED <<names, data>> /\ Step(t, stage)
      BY <1>2 DEF CheckMove
    <2>4. StepTouching(t, stage, {}) /\ tasks'[t] = stage
      BY <1>0, <2>3, StepTouchesNothing DEF StepTouching
    <2> HIDE DEF req, from, to
    <2>5. \A m \in Target : names'[m] = names[m] /\ data'[names[m]] = data[names[m]]
      BY <2>3
    <2>6. AloneKeeps(t)'
      BY <2>3, <2>4 DEF AloneKeeps, Exists, ContentsOf, req, from, to
    <2> QED BY <1>0, <2>2, <2>4, <2>5, <2>6, MovesStep
  <1>3. CASE RemoveTarget(t) /\ ~Refuse(t)
    <2> DEFINE stage == [tasks[t] EXCEPT !.pc = "moving"]
    <2>1. tasks[t].pc = "replacing" /\ IsMove(tasks[t])
      BY <1>3 DEF RemoveTarget, IsMove
    <2>2. from \in Target /\ to \in Target /\ from # to /\ from \in Name /\ to \in Name
      BY <1>0, <2>1, MoveFields DEF Name
    <2>3. names' = [names EXCEPT ![to] = NoFile] /\ UNCHANGED data /\ StepTouching(t, stage, {to})
      BY <1>3 DEF RemoveTarget
    <2>4. tasks'[t] = stage
      BY <2>3 DEF StepTouching
    <2>5. tasks[t].req.op = "move" /\ (tasks[t].alone => AloneKeeps(t))
      BY <2>1 DEF MovesInv
    <2>6. tasks[t] \in Moving
      BY <1>0, <2>1, StageFields DEF TypeOK
    <2>7. /\ stage.pc = "moving" /\ stage.req = tasks[t].req /\ stage.contents = tasks[t].contents
          /\ stage.alone = tasks[t].alone
      BY <2>6 DEF Moving
    <2> HIDE DEF stage, req, from, to
    <2>8. \A m \in Target \ {to} : names'[m] = names[m] /\ data'[names[m]] = data[names[m]]
      BY <1>0, <2>3 DEF TypeOK, Name
    <2>9. tasks[t].alone => Exists(from) /\ ContentsOf(from) = tasks[t].contents
      BY <2>1, <2>5 DEF AloneKeeps, from
    <2>10. names'[to] = NoFile
      BY <1>0, <2>2, <2>3 DEF TypeOK
    <2>11. tasks[t].alone => AloneKeeps(t)'
      BY <2>2, <2>4, <2>7, <2>8, <2>9, <2>10 DEF AloneKeeps, Exists, ContentsOf, from, to
    <2> QED BY <1>0, <2>3, <2>5, <2>7, <2>8, <2>11, MovesStep
  <1>4. CASE RenameMove(t) /\ ~Refuse(t)
    <2>1. /\ names' = [names EXCEPT ![to] = names[from], ![from] = NoFile]
          /\ StepTouching(t, Idle, {from, to}) /\ UNCHANGED data
      BY <1>4 DEF RenameMove
    <2> HIDE DEF from, to
    <2>2. \A m \in Target \ {from, to} : names'[m] = names[m] /\ data'[names[m]] = data[names[m]]
      BY <1>0, <2>1 DEF TypeOK, Name
    <2> QED BY <1>0, <2>1, <2>2, MovesStep, IdleIsNoMove
  <1>5. CASE OpenCopy(t)
    <2> DEFINE i == InodeFor(t, to)
               stage == [pc |-> "copying", req |-> req, id |-> tasks[t].id,
                         contents |-> tasks[t].contents, from |-> names[from], fd |-> i,
                         alone |-> tasks[t].alone]
    <2>1. tasks[t].pc = "moving" /\ IsMove(tasks[t])
      BY <1>5 DEF OpenCopy, IsMove
    <2>2. from \in Target /\ to \in Target /\ from # to /\ from \in Name /\ to \in Name
      BY <1>0, <2>1, MoveFields DEF Name
    <2>3. \A m \in Name \ {to} : names[m] # i
      BY <2>1, <2>2, OpensNoOther
    <2>4. /\ names' = [names EXCEPT ![to] = i] /\ data' = [data EXCEPT ![i] = <<>>]
          /\ StepTouching(t, stage, {to})
      BY <1>5 DEF OpenCopy
    <2>5. tasks'[t] = stage
      BY <2>4 DEF StepTouching
    <2>6. i \in Inode
      <3>1. tasks[t].id \in Inode
        BY <2>1, CallFields DEF Busy, Inv
      <3> QED BY <1>0, <2>2, <3>1 DEF InodeFor, Exists, TypeOK
    <2>7. tasks[t].req.op = "move" /\ (tasks[t].alone => AloneKeeps(t))
      BY <2>1 DEF MovesInv
    <2> HIDE DEF i, req, from, to
    <2>8. \A m \in Target \ {to} : names'[m] = names[m] /\ data'[names[m]] = data[names[m]]
      BY <1>0, <2>3, <2>4 DEF TypeOK, Name
    <2>9. tasks[t].alone => ContentsOf(from) = tasks[t].contents
      BY <2>1, <2>7 DEF AloneKeeps, from
    <2>10. names'[to] = i /\ data'[i] = <<>>
      BY <1>0, <2>2, <2>4, <2>6 DEF TypeOK
    <2>11. tasks[t].alone => AloneKeeps(t)'
      BY <2>2, <2>5, <2>8, <2>9, <2>10 DEF AloneKeeps, ContentsOf, req, from, to
    <2> QED BY <1>0, <2>4, <2>7, <2>8, <2>11, MovesStep DEF req
  <1>6. CASE CopyData(t)
    <2> DEFINE i == tasks[t].fd
               j == tasks[t].from
               stage == Copied(tasks[t])
    <2>1. tasks[t].pc = "copying" /\ IsMove(tasks[t])
      BY <1>6 DEF CopyData, IsMove
    <2>2. tasks[t] \in Copying /\ i \in Inode /\ tasks[t].contents \in Contents
      BY <1>0, <2>1, StageFields DEF TypeOK, Copying
    <2>3. to \in Target /\ to \in Name
      BY <1>0, <2>1, MoveFields DEF Name
    <2>4. /\ UNCHANGED names /\ data' = [data EXCEPT ![i] = Overlay(data[j], data[i])]
          /\ StepTouching(t, stage, NamesOf(i))
      BY <1>6 DEF CopyData
    <2>5. tasks'[t] = stage
      BY <2>4 DEF StepTouching
    <2>6. tasks[t].req.op = "move" /\ (tasks[t].alone => AloneKeeps(t))
      BY <2>1 DEF MovesInv
    <2> HIDE DEF i, j, to
    <2>7. \A m \in Target \ NamesOf(i) : names'[m] = names[m] /\ data'[names[m]] = data[names[m]]
      BY <1>0, <2>4 DEF NamesOf, Name, TypeOK
    <2>8. ASSUME tasks[t].alone
          PROVE  names'[to] # NoFile /\ data'[names'[to]] = tasks[t].contents
      <3>1. /\ data[j] = tasks[t].contents /\ names[to] = i /\ data[i] = <<>>
        BY <2>1, <2>6, <2>8 DEF AloneKeeps, ContentsOf, i, j, to
      <3>2. data'[i] = tasks[t].contents
        BY <1>0, <2>2, <2>4, <3>1, OverlayOnNothing DEF TypeOK
      <3> QED BY <2>2, <2>4, <3>1, <3>2 DEF Inode
    <2>9. tasks[t].alone => AloneKeeps(t)'
      BY <2>5, <2>8 DEF AloneKeeps, Exists, ContentsOf, Copied, to
    <2> QED BY <1>0, <2>4, <2>6, <2>7, <2>9, MovesStep DEF Copied
  <1>7. CASE RemoveSource(t) /\ ~Refuse(t)
    <2>1. names' = [names EXCEPT ![from] = NoFile] /\ StepTouching(t, Idle, {from}) /\ UNCHANGED data
      BY <1>7 DEF RemoveSource
    <2> HIDE DEF from
    <2>2. \A m \in Target \ {from} : names'[m] = names[m] /\ data'[names[m]] = data[names[m]]
      BY <1>0, <2>1 DEF TypeOK, Name
    <2> QED BY <1>0, <2>1, <2>2, MovesStep, IdleIsNoMove
  <1> QED BY <1>1, <1>2, <1>3, <1>4, <1>5, <1>6, <1>7

LEMMA MovesInvHolds == Spec => []MovesInv
  <1>1. Init => MovesInv
    BY IdleIsNoMove DEF Init, MovesInv
  <1>2. Inv /\ MovesInv /\ [Next]_vars => MovesInv'
    <2> SUFFICES ASSUME Inv, MovesInv, [Next]_vars PROVE MovesInv'
      OBVIOUS
    <2>1. ASSUME NEW t \in Task, Work(t) PROVE MovesInv'
      BY <2>1, FileStepsKeepMoves, MoveStepsKeepMoves DEF Work
    <2>2. ASSUME NEW t \in Task, NEW req \in Requests, Call(t, req) PROVE MovesInv'
      <3>1. /\ Step(t, [pc |-> "ready", req |-> req, id |-> nextOp])
            /\ UNCHANGED <<names, data>>
        BY <2>2 DEF Call
      <3>2. ~IsMove([pc |-> "ready", req |-> req, id |-> nextOp])
        BY DEF IsMove
      <3> QED BY <3>1, <3>2, QuietMoves DEF Inv, TypeInv
    <2>3. CASE Crash
      BY <2>3, IdleIsNoMove DEF Crash, MovesInv
    <2>4. CASE UNCHANGED vars
      BY <2>4 DEF vars, MovesInv, AloneKeeps, Exists, ContentsOf
    <2> QED BY <2>1, <2>2, <2>3, <2>4 DEF Next
  <1> QED BY <1>1, <1>2, InvHolds, PTL DEF Spec

(***************************************************************************)
(* A move that no other call interferes with never loses its file, at      *)
(* whatever step of rename_or_copy_delete it is cut short: the source goes *)
(* only when the destination has all of its contents.                      *)
(***************************************************************************)
THEOREM MovesKeepTheirFile == Spec => []MoveKeepsFile
  <1>1. Inv /\ MovesInv => MoveKeepsFile
    <2> SUFFICES ASSUME Inv, MovesInv, NEW t \in Task, IsMove(tasks[t]), tasks[t].alone
                 PROVE  \E n \in {tasks[t].req.path, tasks[t].req.to} :
                           Exists(n) /\ ContentsOf(n) = tasks[t].contents
      BY DEF MoveKeepsFile
    <2>1. AloneKeeps(t)
      BY DEF MovesInv
    <2>2. tasks[t].pc = "copying" => tasks[t].from \in Inode
      BY StageFields DEF Inv, TypeInv, TypeOK, Copying
    <2> QED BY <2>1, <2>2 DEF AloneKeeps, IsMove, Exists, Inode
  <1> QED BY <1>1, InvHolds, MovesInvHolds, PTL

(***************************************************************************)
(* What resolve_move_destination has found free or has removed is still    *)
(* free at the rename, unless another call has made a file there.          *)
(***************************************************************************)
THEOREM MovesFindRoom == Spec => []MoveFindsRoom
  <1>1. MovesInv => MoveFindsRoom
    BY DEF MovesInv, AloneKeeps, MoveFindsRoom, IsMove
  <1> QED BY <1>1, MovesInvHolds, PTL

-----------------------------------------------------------------------------

\* The stages in which a call has a file open for writing.
Holding == {"opened", "written", "copying"}

\* The call has inode i open for writing, or reads from it.
Holds(t, i) == tasks[t].pc \in Holding /\ tasks[t].fd = i
Copies(t, i) == tasks[t].pc = "copying" /\ tasks[t].from = i

\* The inode stands under a file's name, or a copy will make it stand there.
Shows(i) == (\E p \in Target : names[p] = i) \/ (\E t \in Task : Copies(t, i))

\* Two calls that have one inode open taint it.
SharedAreTainted ==
    \A t, u \in Task, i \in Inode : t # u /\ Holds(t, i) /\ Holds(u, i) => i \in tainted

\* Where a call is alone, its inode is empty until it is written, and then holds
\* the contents of the call.
AloneAsWritten ==
    \A t \in Task, i \in Inode : Holds(t, i) /\ i \notin tainted =>
        data[i] = IF tasks[t].pc = "written" THEN tasks[t].contents ELSE <<>>

\* What a call is about to write, or has written, is contents it meant.
MeantIsWhole ==
    \A t \in Task : tasks[t].pc \in {"writing", "opened", "written"} => tasks[t].contents \in whole

\* What is shown is whole, but where two calls have shared it or one is at it.
ShownIsWhole ==
    \A i \in Inode : Shows(i) /\ i \notin tainted /\ ~BeingWritten(i) => data[i] \in whole

\* What a call writes to a temporary file is not seen before its rename.
TmpIsHidden ==
    \A t \in Task, i \in Inode :
        /\ Holds(t, i) /\ i \notin tainted
        /\ tasks[t].pc # "copying" /\ tasks[t].req.op # "file_write"
        => ~Shows(i)

\* A copy reads from a file, which is neither its own nor a temporary one.
SourcesAreFiles ==
    \A t \in Task : tasks[t].pc = "copying" =>
        /\ tasks[t].from # tasks[t].fd
        /\ \A p \in Target : names[Tmp[p]] # tasks[t].from

\* Nobody has an inode open whose number is yet to be used.
Unclaimed(i) == \A t \in Task : ~Holds(t, i) /\ ~Copies(t, i)

NumbersUnclaimed ==
    /\ \A i \in Inode : i >= nextOp => Unclaimed(i)
    /\ \A t \in Task : tasks[t].pc \in Unopened => Unclaimed(tasks[t].id)

(***************************************************************************)
(* WholeUnlessShared is not inductive: a rename shows what was written to  *)
(* the temporary file, and the end of a copy what was copied, so it must   *)
(* be known what the inodes that calls have open hold, that no one else    *)
(* writes to them unless they are tainted, and that a number given out     *)
(* again is in nobody's hands.                                             *)
(***************************************************************************)
WholeInv ==
    /\ SharedAreTainted
    /\ AloneAsWritten
    /\ MeantIsWhole
    /\ ShownIsWhole
    /\ TmpIsHidden
    /\ SourcesAreFiles
    /\ NumbersUnclaimed

-----------------------------------------------------------------------------

(***************************************************************************)
(* What other calls have open, and what they mean to write, stays when one *)
(* goes on to another stage.                                               *)
(***************************************************************************)
LEMMA OthersStay ==
    ASSUME TypeOK, NEW t \in Task, NEW stage, NEW touched, StepTouching(t, stage, touched),
           NEW u \in Task \ {t}
    PROVE  /\ tasks'[u].pc = tasks[u].pc
           /\ \A i : (Holds(u, i)' <=> Holds(u, i)) /\ (Copies(u, i)' <=> Copies(u, i))
           /\ tasks[u].pc \in Holding => tasks'[u].fd = tasks[u].fd /\ tasks'[u].req = tasks[u].req
           /\ tasks[u].pc = "copying" => tasks'[u].from = tasks[u].from
           /\ tasks[u].pc \in {"writing", "opened", "written"} => tasks'[u].contents = tasks[u].contents
           /\ tasks[u].pc \in Unopened => tasks'[u].id = tasks[u].id
  <1>1. CASE tasks'[u] = tasks[u]
    BY <1>1 DEF Holds, Copies
  <1>2. CASE IsMove(tasks[u]) /\ tasks'[u] = [tasks[u] EXCEPT !.alone = FALSE]
    <2>1. tasks[u] \in Moving \cup Copying
      BY <1>2, StageFields DEF TypeOK, IsMove
    <2> QED BY <1>2, <2>1 DEF Moving, Copying, Holds, Copies, Holding, IsMove
  <1> QED BY <1>1, <1>2 DEF StepTouching

LEMMA HeldAreInodes ==
    ASSUME TypeOK, NEW t \in Task
    PROVE  /\ tasks[t].pc \in Holding => tasks[t].fd \in Inode
           /\ tasks[t].pc = "copying" => tasks[t].from \in Inode
  BY StageFields DEF TypeOK, Holding, Opened, Copying

LEMMA TmpNames ==
    ASSUME NEW p \in Target
    PROVE  Tmp[p] \in Name /\ Tmp[p] \notin Target /\ p \in Name
  BY DEF Name

(***************************************************************************)
(* A step after which the call has nothing open: what it brings under a    *)
(* file's name is whole and held by no other, and what it stops writing to *)
(* is not seen, or tainted.                                                *)
(***************************************************************************)
LEMMA ReleaseStep ==
    ASSUME Inv, WholeInv, NEW t \in Task, NEW stage, NEW touched, StepTouching(t, stage, touched),
           stage.pc \notin Holding,
           stage.pc = "writing" => stage.contents \in whole',
           stage.pc \in Unopened => Unclaimed(stage.id),
           UNCHANGED data, tainted \subseteq tainted', whole \subseteq whole', nextOp' \in {nextOp, nextOp + 1},
           \A p \in Target : names'[Tmp[p]] \in {NoFile, names[Tmp[p]]},
           \A p \in Target, i \in Inode : names'[p] = i =>
              \/ \E q \in Target : names[q] = i
              \/ i \in tainted'
              \/ data[i] \in whole /\ \A u \in Task \ {t} : ~Holds(u, i),
           \A i \in Inode : Holds(t, i) /\ tasks[t].pc # "written" /\ Shows(i) => i \in tainted'
    PROVE  WholeInv'
  <1>1. TypeOK /\ nextOp \in Nat /\ tasks'[t] = stage
    BY DEF Inv, TypeInv, TypeOK, StepTouching
  <1>2. \A i : ~Holds(t, i)' /\ ~Copies(t, i)'
    BY <1>1 DEF Holds, Copies, Holding
  <1>3. \A i : \A u \in Task : (Holds(u, i)' => u # t /\ Holds(u, i)) /\ (Copies(u, i)' => u # t /\ Copies(u, i))
    BY <1>1, <1>2, OthersStay
  <1>4. ASSUME NEW i \in Inode, i \notin tainted', Shows(i)'
        PROVE  Shows(i) \/ (data[i] \in whole /\ \A u \in Task \ {t} : ~Holds(u, i))
    BY <1>3, <1>4 DEF Shows
  <1>5. SharedAreTainted'
    BY <1>3 DEF WholeInv, SharedAreTainted
  <1>6. AloneAsWritten'
    <2> SUFFICES ASSUME NEW u \in Task, NEW i \in Inode, Holds(u, i)', i \notin tainted'
                 PROVE  data'[i] = IF tasks'[u].pc = "written" THEN tasks'[u].contents ELSE <<>>
      BY DEF AloneAsWritten
    <2>1. u # t /\ Holds(u, i) /\ i \notin tainted
      BY <1>3
    <2>2. data[i] = IF tasks[u].pc = "written" THEN tasks[u].contents ELSE <<>>
      BY <2>1 DEF WholeInv, AloneAsWritten
    <2> QED BY <1>1, <2>1, <2>2, OthersStay
  <1>7. MeantIsWhole'
    <2>1. \A u \in Task \ {t} : tasks'[u].pc \in {"writing", "opened", "written"} => tasks'[u].contents \in whole'
      BY <1>1, OthersStay DEF WholeInv, MeantIsWhole
    <2> QED BY <1>1, <2>1 DEF MeantIsWhole, Holding
  <1>8. ShownIsWhole'
    <2> SUFFICES ASSUME NEW i \in Inode, Shows(i)', i \notin tainted', ~BeingWritten(i)'
                 PROVE  data[i] \in whole
      BY DEF ShownIsWhole
    <2>1. CASE Shows(i)
      <3>1. ~(Holds(t, i) /\ tasks[t].pc # "written")
        BY <2>1
      <3>2. ASSUME NEW u \in Task \ {t}, tasks[u].pc \in {"opened", "copying"}, tasks[u].fd = i
            PROVE  FALSE
        <4>1. tasks'[u].pc = tasks[u].pc /\ tasks'[u].fd = i
          BY <1>1, <3>2, OthersStay DEF Holding
        <4> QED BY <3>2, <4>1 DEF BeingWritten
      <3>3. ~BeingWritten(i)
        BY <3>1, <3>2 DEF BeingWritten, Holds, Holding
      <3> QED BY <2>1, <3>3 DEF WholeInv, ShownIsWhole
    <2> QED BY <1>4, <2>1
  <1>9. TmpIsHidden'
    <2> SUFFICES ASSUME NEW u \in Task, NEW i \in Inode, Holds(u, i)', i \notin tainted',
                        tasks'[u].pc # "copying", tasks'[u].req.op # "file_write", Shows(i)'
                 PROVE  FALSE
      BY DEF TmpIsHidden
    <2>1. u # t /\ Holds(u, i) /\ i \notin tainted
      BY <1>3
    <2>2. tasks[u].pc # "copying" /\ tasks[u].req.op # "file_write"
      BY <1>1, <2>1, OthersStay DEF Holds
    <2>3. ~Shows(i)
      BY <2>1, <2>2 DEF WholeInv, TmpIsHidden
    <2> QED BY <1>4, <2>1, <2>3
  <1>10. SourcesAreFiles'
    <2> SUFFICES ASSUME NEW u \in Task, tasks'[u].pc = "copying"
                 PROVE  /\ tasks'[u].from # tasks'[u].fd
                        /\ \A p \in Target : names'[Tmp[p]] # tasks'[u].from
      BY DEF SourcesAreFiles
    <2>1. u # t
      BY <1>1 DEF Holding
    <2>2. tasks[u].pc = "copying" /\ tasks'[u].from = tasks[u].from /\ tasks'[u].fd = tasks[u].fd
      BY <1>1, <2>1, OthersStay DEF Holding
    <2>3. tasks[u].from \in Inode
      BY <1>1, <2>2, HeldAreInodes
    <2> QED BY <2>2, <2>3 DEF WholeInv, SourcesAreFiles, Inode
  <1>11. NumbersUnclaimed'
    <2>1. \A i : Unclaimed(i) => Unclaimed(i)'
      BY <1>3 DEF Unclaimed
    <2>2. \A i \in Inode : i >= nextOp' => i >= nextOp
      BY <1>1 DEF Inode
    <2>3. ASSUME NEW u \in Task, tasks'[u].pc \in Unopened, NEW j, j = tasks'[u].id
          PROVE  Unclaimed(j)'
      <3>1. CASE u = t
        <4>1. Unclaimed(j)
          BY <1>1, <2>3, <3>1
        <4> QED BY <2>1, <4>1
      <3>2. CASE u # t
        <4>1. tasks[u].pc \in Unopened /\ tasks'[u].id = tasks[u].id
          BY <1>1, <2>3, <3>2, OthersStay
        <4>2. Unclaimed(j)
          BY <2>3, <4>1 DEF WholeInv, NumbersUnclaimed
        <4> QED BY <2>1, <4>2
      <3> QED BY <3>1, <3>2
    <2>4. \A i \in Inode : i >= nextOp' => Unclaimed(i)'
      BY <2>1, <2>2 DEF WholeInv, NumbersUnclaimed
    <2> QED BY <2>3, <2>4 DEF NumbersUnclaimed, Unclaimed, Holds, Copies
  <1> QED BY <1>5, <1>6, <1>7, <1>8, <1>9, <1>10, <1>11 DEF WholeInv

\* A call that goes on without a file, and changes none.
LEMMA QuietRelease ==
    ASSUME Inv, WholeInv, NEW t \in Task, NEW stage, Step(t, stage),
           stage.pc \notin Holding,
           stage.pc = "writing" => stage.contents \in whole',
           stage.pc \in Unopened => Unclaimed(stage.id),
           UNCHANGED <<names, data>>, tainted \subseteq tainted', whole \subseteq whole',
           nextOp' \in {nextOp, nextOp + 1},
           \A i \in Inode : Holds(t, i) /\ tasks[t].pc # "written" /\ Shows(i) => i \in tainted'
    PROVE  WholeInv'
  <1>1. StepTouching(t, stage, {})
    BY StepTouchesNothing DEF Inv, TypeInv
  <1>2. /\ \A p \in Target : names'[Tmp[p]] \in {NoFile, names[Tmp[p]]}
        /\ \A p \in Target, i \in Inode : names'[p] = i => \E q \in Target : names[q] = i
    OBVIOUS
  <1> QED BY <1>1, <1>2, ReleaseStep

(***************************************************************************)
(* A step that opens a file for writing, and empties it: the call's own    *)
(* temporary file, the file itself, or the destination of a copy.          *)
(***************************************************************************)
LEMMA OpenStep ==
    ASSUME Inv, WholeInv, NEW t \in Task, tasks[t].pc \in {"writing", "moving"},
           NEW n \in Name, NEW i, i = InodeFor(t, n),
           NEW stage, StepTouching(t, stage, {n}), stage.fd = i,
           \/ /\ stage.pc = "opened" /\ stage.contents \in whole
              /\ stage.req.op # "file_write" => \E p \in Target : n = Tmp[p]
           \/ /\ stage.pc = "copying" /\ n \in Target
              /\ \E p \in Target \ {n} : Exists(p) /\ names[p] = stage.from,
           names' = [names EXCEPT ![n] = i], data' = [data EXCEPT ![i] = <<>>],
           tainted' = IF InUse(t, i) THEN tainted \cup {i} ELSE tainted \ {i},
           UNCHANGED <<nextOp, whole>>
    PROVE  WholeInv'
  <1>1. TypeOK /\ nextOp \in Nat /\ tasks'[t] = stage /\ tasks[t].pc \notin Holding
    BY DEF Inv, TypeInv, TypeOK, StepTouching, Holding
  <1>2. \A m \in Name \ {n} : names[m] # i
    BY OpensNoOther
  <1>3. i \in Inode /\ i < nextOp /\ (i = names[n] \/ (i = tasks[t].id /\ Unclaimed(i)))
    <2>1. CASE Exists(n)
      BY <1>1, <2>1 DEF InodeFor, Inv, TypeInv, TypeOK, IdsFresh, Exists
    <2>2. CASE ~Exists(n)
      <3>1. Busy(t) /\ i = tasks[t].id /\ tasks[t].pc \in Unopened
        BY <2>2 DEF InodeFor, Busy, Unopened
      <3>2. i \in Inode /\ Unclaimed(i) /\ i \in 1 .. nextOp - 1
        BY <3>1, CallFields DEF Inv, TypeInv, IdsFresh, WholeInv, NumbersUnclaimed
      <3> QED BY <1>1, <3>1, <3>2
    <2> QED BY <2>1, <2>2
  <1>4. /\ names'[n] = i /\ \A m \in Name \ {n} : names'[m] = names[m]
        /\ data'[i] = <<>> /\ \A j \in Inode \ {i} : data'[j] = data[j]
        /\ Target \subseteq Name
    BY <1>1, <1>3 DEF TypeOK, Name
  <1>5. stage.pc = "copying" =>
           /\ n \in Target /\ stage.from \in Inode /\ stage.from # i /\ stage.from < nextOp
           /\ Shows(stage.from)
           /\ \A p \in Target : names[Tmp[p]] # stage.from
           /\ \E p \in Target : names[p] = stage.from
    <2> SUFFICES ASSUME stage.pc = "copying",
                        NEW p \in Target \ {n}, Exists(p), names[p] = stage.from, n \in Target
                 PROVE  /\ stage.from \in Inode /\ stage.from # i /\ stage.from < nextOp
                        /\ Shows(stage.from)
                        /\ \A q \in Target : names[Tmp[q]] # stage.from
      OBVIOUS
    <2>1. stage.from \in Inode /\ stage.from # i
      BY <1>1, <1>2, TmpNames DEF TypeOK, Exists
    <2>2. stage.from < nextOp /\ Shows(stage.from)
      BY TmpNames DEF Inv, TypeInv, IdsFresh, Shows
    <2>3. \A q \in Target : names[Tmp[q]] # stage.from
      BY <1>1, TmpNames DEF TypeOK, Exists
    <2> QED BY <2>1, <2>2, <2>3
  <1>6. \A j : /\ Holds(t, j)' <=> j = i
               /\ Copies(t, j)' <=> stage.pc = "copying" /\ j = stage.from
               /\ ~Holds(t, j) /\ ~Copies(t, j)
    BY <1>1 DEF Holds, Copies, Holding
  <1>7. \A j : \A u \in Task \ {t} : (Holds(u, j)' <=> Holds(u, j)) /\ (Copies(u, j)' <=> Copies(u, j))
    BY <1>1, OthersStay
  <1>8. \A u \in Task \ {t} : Holds(u, i) => i \in tainted'
    BY DEF InUse, Holds, Holding
  <1>9. \A j \in Inode \ {i} : j \in tainted' <=> j \in tainted
    OBVIOUS
  <1>10. ASSUME NEW j \in Inode \ {i}, Shows(j)'
         PROVE  Shows(j)
    <2>1. CASE \E p \in Target : names'[p] = j
      BY <1>4, <2>1 DEF Shows
    <2>2. CASE \E u \in Task : Copies(u, j)'
      BY <1>5, <1>6, <1>7, <2>2 DEF Shows
    <2> QED BY <1>10, <2>1, <2>2 DEF Shows
  <1>11. SharedAreTainted'
    <2> SUFFICES ASSUME NEW u \in Task, NEW v \in Task, NEW j \in Inode, u # v,
                        Holds(u, j)', Holds(v, j)'
                 PROVE  j \in tainted'
      BY DEF SharedAreTainted
    <2>1. CASE j = i
      BY <1>7, <1>8, <2>1
    <2>2. CASE j # i
      BY <1>6, <1>7, <1>9, <2>2 DEF WholeInv, SharedAreTainted
    <2> QED BY <2>1, <2>2
  <1>12. AloneAsWritten'
    <2> SUFFICES ASSUME NEW u \in Task, NEW j \in Inode, Holds(u, j)', j \notin tainted'
                 PROVE  data'[j] = IF tasks'[u].pc = "written" THEN tasks'[u].contents ELSE <<>>
      BY DEF AloneAsWritten
    <2>1. CASE u = t
      BY <1>1, <1>4, <1>6, <2>1
    <2>2. CASE u # t
      <3>1. j # i /\ Holds(u, j) /\ j \notin tainted
        BY <1>7, <1>8, <1>9, <2>2
      <3>2. data[j] = IF tasks[u].pc = "written" THEN tasks[u].contents ELSE <<>>
        BY <3>1 DEF WholeInv, AloneAsWritten
      <3> QED BY <1>1, <1>4, <2>2, <3>1, <3>2, OthersStay
    <2> QED BY <2>1, <2>2
  <1>13. MeantIsWhole'
    <2>1. \A u \in Task \ {t} : tasks'[u].pc \in {"writing", "opened", "written"} => tasks'[u].contents \in whole'
      BY <1>1, OthersStay DEF WholeInv, MeantIsWhole
    <2> QED BY <1>1, <2>1 DEF MeantIsWhole
  <1>14. ShownIsWhole'
    <2> SUFFICES ASSUME NEW j \in Inode, Shows(j)', j \notin tainted', ~BeingWritten(j)'
                 PROVE  data'[j] \in whole
      BY DEF ShownIsWhole
    <2>1. j # i
      BY <1>1 DEF BeingWritten
    <2>2. Shows(j) /\ j \notin tainted
      BY <1>9, <1>10, <2>1
    <2>3. ASSUME NEW u \in Task, tasks[u].pc \in {"opened", "copying"}, tasks[u].fd = j
          PROVE  FALSE
      <3>1. u # t
        BY <2>3
      <3>2. tasks'[u].pc = tasks[u].pc /\ tasks'[u].fd = j
        BY <1>1, <2>3, <3>1, OthersStay DEF Holding
      <3> QED BY <2>3, <3>2 DEF BeingWritten
    <2>4. ~BeingWritten(j)
      BY <2>3 DEF BeingWritten
    <2> QED BY <1>4, <2>1, <2>2, <2>4 DEF WholeInv, ShownIsWhole
  <1>15. TmpIsHidden'
    <2> SUFFICES ASSUME NEW u \in Task, NEW j \in Inode, Holds(u, j)', j \notin tainted',
                        tasks'[u].pc # "copying", tasks'[u].req.op # "file_write", Shows(j)'
                 PROVE  FALSE
      BY DEF TmpIsHidden
    <2>1. CASE u = t
      <3>1. j = i /\ stage.pc = "opened" /\ \E p \in Target : n = Tmp[p]
        BY <1>1, <1>6, <2>1
      <3>2. \A p \in Target : names'[p] # i
        BY <1>2, <1>4, <3>1, TmpNames
      <3>3. PICK v \in Task : Copies(v, i)'
        BY <3>1, <3>2 DEF Shows
      <3>4. Copies(v, i)
        BY <1>6, <1>7, <3>1, <3>3
      <3>5. \A p \in Target : names[Tmp[p]] # i
        BY <3>4 DEF WholeInv, SourcesAreFiles, Copies
      <3> QED BY <1>3, <3>1, <3>4, <3>5 DEF Unclaimed
    <2>2. CASE u # t
      <3>1. j # i /\ Holds(u, j) /\ j \notin tainted
        BY <1>7, <1>8, <1>9, <2>2
      <3>2. tasks[u].pc # "copying" /\ tasks[u].req.op # "file_write"
        BY <1>1, <2>2, <3>1, OthersStay DEF Holds
      <3> QED BY <1>10, <3>1, <3>2 DEF WholeInv, TmpIsHidden
    <2> QED BY <2>1, <2>2
  <1>16. SourcesAreFiles'
    <2> SUFFICES ASSUME NEW u \in Task, tasks'[u].pc = "copying"
                 PROVE  /\ tasks'[u].from # tasks'[u].fd
                        /\ \A p \in Target : names'[Tmp[p]] # tasks'[u].from
      BY DEF SourcesAreFiles
    <2>1. CASE u = t
      BY <1>1, <1>4, <1>5, <2>1, TmpNames
    <2>2. CASE u # t
      <3>1. tasks[u].pc = "copying" /\ tasks'[u].from = tasks[u].from /\ tasks'[u].fd = tasks[u].fd
        BY <1>1, <2>2, OthersStay DEF Holding
      <3>2. /\ tasks[u].from # tasks[u].fd /\ Copies(u, tasks[u].from)
            /\ \A p \in Target : names[Tmp[p]] # tasks[u].from
        BY <3>1 DEF WholeInv, SourcesAreFiles, Copies
      <3>3. ASSUME NEW p \in Target
            PROVE  names'[Tmp[p]] # tasks[u].from
        BY <1>3, <1>4, <3>2, TmpNames DEF Unclaimed
      <3> QED BY <3>1, <3>2, <3>3
    <2> QED BY <2>1, <2>2
  <1>17. NumbersUnclaimed'
    <2>1. ASSUME NEW j, Unclaimed(j), j # i, stage.pc = "copying" => j # stage.from
          PROVE  Unclaimed(j)'
      BY <1>6, <1>7, <2>1 DEF Unclaimed
    <2>2. \A j \in Inode : j >= nextOp' => Unclaimed(j)'
      BY <1>1, <1>3, <1>5, <2>1 DEF WholeInv, NumbersUnclaimed, Inode
    <2>3. ASSUME NEW u \in Task, tasks'[u].pc \in Unopened, NEW j, j = tasks'[u].id
          PROVE  Unclaimed(j)'
      <3>1. u # t
        BY <1>1, <2>3 DEF Unopened
      <3>2. tasks[u].pc \in Unopened /\ j = tasks[u].id /\ Busy(u) /\ Busy(t)
        BY <1>1, <2>3, <3>1, OthersStay DEF Busy, Unopened
      <3>3. Unclaimed(j) /\ j # tasks[t].id /\ \A m \in Name : names[m] # j
        BY <3>1, <3>2 DEF WholeInv, NumbersUnclaimed, Inv, TypeInv, IdsFresh
      <3>4. j # i /\ (stage.pc = "copying" => j # stage.from)
        BY <1>3, <1>4, <1>5, <3>3
      <3> QED BY <2>1, <3>3, <3>4
    <2> QED BY <2>2, <2>3 DEF NumbersUnclaimed, Unclaimed, Holds, Copies
  <1> QED BY <1>11, <1>12, <1>13, <1>14, <1>15, <1>16, <1>17 DEF WholeInv

(***************************************************************************)
(* A step that writes to the file a call has open.                         *)
(***************************************************************************)
LEMMA FillStep ==
    ASSUME Inv, WholeInv, NEW t \in Task, tasks[t].pc \in {"opened", "copying"},
           NEW i, i = tasks[t].fd, NEW d, NEW touched,
           NEW stage, StepTouching(t, stage, touched), stage.pc \in {"idle", "written", "copied"},
           stage.pc = "written" =>
              /\ tasks[t].pc = "opened" /\ stage.fd = i /\ stage.req = tasks[t].req
              /\ stage.contents \in whole /\ (i \notin tainted' => d = stage.contents),
           data' = [data EXCEPT ![i] = d],
           i \notin tainted' => d \in whole,
           tainted \subseteq tainted', tainted' \subseteq tainted \cup {i},
           UNCHANGED <<names, nextOp, whole>>
    PROVE  WholeInv'
  <1>1. TypeOK /\ tasks'[t] = stage /\ i \in Inode /\ Holds(t, i)
    BY HeldAreInodes DEF Inv, TypeInv, TypeOK, StepTouching, Holding, Holds
  <1>2. data'[i] = d /\ \A j \in Inode \ {i} : data'[j] = data[j]
    BY <1>1 DEF TypeOK
  <1>3. \A j : ~Copies(t, j)' /\ (Holds(t, j)' => Holds(t, j) /\ j = i /\ stage.pc = "written")
    BY <1>1 DEF Holds, Copies, Holding
  <1>4. \A j : \A u \in Task : (Holds(u, j)' => Holds(u, j)) /\ (Copies(u, j)' => Copies(u, j))
    BY <1>1, <1>3, OthersStay
  <1>5. \A j : Shows(j)' => Shows(j)
    BY <1>4 DEF Shows
  <1>6. \A u \in Task \ {t} : Holds(u, i) => i \in tainted
    BY <1>1 DEF WholeInv, SharedAreTainted
  <1>7. SharedAreTainted'
    BY <1>4 DEF WholeInv, SharedAreTainted
  <1>8. AloneAsWritten'
    <2> SUFFICES ASSUME NEW u \in Task, NEW j \in Inode, Holds(u, j)', j \notin tainted'
                 PROVE  data'[j] = IF tasks'[u].pc = "written" THEN tasks'[u].contents ELSE <<>>
      BY DEF AloneAsWritten
    <2>1. CASE u = t
      BY <1>1, <1>2, <1>3, <2>1
    <2>2. CASE u # t
      <3>1. Holds(u, j) /\ j \notin tainted /\ j # i
        BY <1>4, <1>6, <2>2
      <3>2. data[j] = IF tasks[u].pc = "written" THEN tasks[u].contents ELSE <<>>
        BY <3>1 DEF WholeInv, AloneAsWritten
      <3> QED BY <1>1, <1>2, <2>2, <3>1, <3>2, OthersStay
    <2> QED BY <2>1, <2>2
  <1>9. MeantIsWhole'
    <2>1. \A u \in Task \ {t} : tasks'[u].pc \in {"writing", "opened", "written"} => tasks'[u].contents \in whole'
      BY <1>1, OthersStay DEF WholeInv, MeantIsWhole
    <2> QED BY <1>1, <2>1 DEF MeantIsWhole
  <1>10. ShownIsWhole'
    <2> SUFFICES ASSUME NEW j \in Inode, Shows(j)', j \notin tainted', ~BeingWritten(j)'
                 PROVE  data'[j] \in whole
      BY DEF ShownIsWhole
    <2>1. CASE j = i
      BY <1>2, <2>1
    <2>2. CASE j # i
      <3>1. ASSUME NEW u \in Task, tasks[u].pc \in {"opened", "copying"}, tasks[u].fd = j
            PROVE  FALSE
        <4>1. u # t
          BY <2>2, <3>1
        <4>2. tasks'[u].pc = tasks[u].pc /\ tasks'[u].fd = j
          BY <1>1, <3>1, <4>1, OthersStay DEF Holding
        <4> QED BY <3>1, <4>2 DEF BeingWritten
      <3>2. ~BeingWritten(j)
        BY <3>1 DEF BeingWritten
      <3> QED BY <1>2, <1>5, <2>2, <3>2 DEF WholeInv, ShownIsWhole
    <2> QED BY <2>1, <2>2
  <1>11. TmpIsHidden'
    <2> SUFFICES ASSUME NEW u \in Task, NEW j \in Inode, Holds(u, j)', j \notin tainted',
                        tasks'[u].pc # "copying", tasks'[u].req.op # "file_write", Shows(j)'
                 PROVE  FALSE
      BY DEF TmpIsHidden
    <2>1. Holds(u, j) /\ j \notin tainted /\ Shows(j)
      BY <1>4, <1>5
    <2>2. tasks[u].pc # "copying" /\ tasks[u].req.op # "file_write"
      <3>1. CASE u = t
        BY <1>1, <1>3, <3>1
      <3>2. CASE u # t
        BY <1>1, <2>1, <3>2, OthersStay DEF Holds
      <3> QED BY <3>1, <3>2
    <2> QED BY <2>1, <2>2 DEF WholeInv, TmpIsHidden
  <1>12. SourcesAreFiles'
    <2> SUFFICES ASSUME NEW u \in Task, tasks'[u].pc = "copying"
                 PROVE  /\ tasks'[u].from # tasks'[u].fd
                        /\ \A p \in Target : names[Tmp[p]] # tasks'[u].from
      BY DEF SourcesAreFiles
    <2>1. u # t
      BY <1>1
    <2>2. tasks[u].pc = "copying" /\ tasks'[u].from = tasks[u].from /\ tasks'[u].fd = tasks[u].fd
      BY <1>1, <2>1, OthersStay DEF Holding
    <2> QED BY <2>2 DEF WholeInv, SourcesAreFiles
  <1>13. NumbersUnclaimed'
    <2>1. \A j : Unclaimed(j) => Unclaimed(j)'
      BY <1>4 DEF Unclaimed
    <2>2. \A j \in Inode : j >= nextOp' => Unclaimed(j)'
      BY <2>1 DEF WholeInv, NumbersUnclaimed
    <2>3. ASSUME NEW u \in Task, tasks'[u].pc \in Unopened, NEW j, j = tasks'[u].id
          PROVE  Unclaimed(j)'
      <3>1. u # t
        BY <1>1, <2>3 DEF Unopened
      <3>2. tasks[u].pc \in Unopened /\ j = tasks[u].id
        BY <1>1, <2>3, <3>1, OthersStay
      <3> QED BY <2>1, <3>2 DEF WholeInv, NumbersUnclaimed
    <2> QED BY <2>2, <2>3 DEF NumbersUnclaimed, Unclaimed, Holds, Copies
  <1> QED BY <1>7, <1>8, <1>9, <1>10, <1>11, <1>12, <1>13 DEF WholeInv

-----------------------------------------------------------------------------

LEMMA IdleHoldsNothing == Idle.pc = "idle" /\ Idle.pc \notin Holding \cup Unopened
  BY DEF Idle, Holding, Unopened

LEMMA RefusalKeepsWhole ==
    ASSUME Inv, WholeInv, NEW t \in Task, Called(t, Op) \/ tasks[t].pc \in {"written", "replacing", "moving", "copied"},
           Refuse(t)
    PROVE  WholeInv'
  <1>1. \A i : ~(Holds(t, i) /\ tasks[t].pc # "written")
    BY DEF Holds, Holding, Called
  <1>2. nextOp' \in {nextOp, nextOp + 1} /\ UNCHANGED <<names, data, whole, tainted>> /\ Step(t, Idle)
    BY DEF Refuse
  <1> QED BY <1>1, <1>2, QuietRelease, IdleHoldsNothing

LEMMA CallKeepsWhole ==
    ASSUME Inv, WholeInv, NEW t \in Task, NEW req \in Requests, Call(t, req)
    PROVE  WholeInv'
  <1> DEFINE stage == [pc |-> "ready", req |-> req, id |-> nextOp]
  <1>1. /\ tasks[t].pc = "idle" /\ Step(t, stage) /\ UNCHANGED <<names, data, whole, tainted>>
        /\ nextOp' \in {nextOp, nextOp + 1} /\ nextOp <= MaxOps
    BY DEF Call
  <1>2. Unclaimed(nextOp)
    BY <1>1 DEF WholeInv, NumbersUnclaimed, Inode, Inv, TypeInv, TypeOK
  <1>3. stage.pc = "ready" /\ stage.id = nextOp /\ stage.pc \notin Holding
    BY DEF Holding
  <1>4. \A i : ~Holds(t, i)
    BY <1>1 DEF Holds, Holding
  <1> HIDE DEF stage
  <1> QED BY <1>1, <1>2, <1>3, <1>4, QuietRelease

LEMMA ReadFileKeepsWhole ==
    ASSUME Inv, WholeInv, NEW t \in Task, ReadFile(t)
    PROVE  WholeInv'
  <1> DEFINE Stage_(c) == [pc |-> "writing", req |-> tasks[t].req, id |-> tasks[t].id, contents |-> c]
  <1>1. tasks[t].pc = "ready" /\ Called(t, Op) /\ tasks[t].pc \in Unopened
    BY DEF ReadFile, Called, Op, Unopened
  <1>2. CASE Refuse(t)
    BY <1>1, <1>2, RefusalKeepsWhole
  <1>3. CASE ~Refuse(t)
    <2>1. PICK c : /\ Step(t, Stage_(c)) /\ whole' = whole \cup {c}
                   /\ UNCHANGED <<names, data, nextOp, tainted>>
      BY <1>3 DEF ReadFile
    <2> DEFINE stage == Stage_(c)
    <2>2. /\ stage.pc = "writing" /\ stage.pc \notin Holding /\ stage.contents = c
          /\ stage.id = tasks[t].id
      BY DEF Holding
    <2>3. Unclaimed(tasks[t].id)
      BY <1>1 DEF WholeInv, NumbersUnclaimed
    <2>4. \A i : ~Holds(t, i)
      BY <1>1 DEF Holds, Holding
    <2> HIDE DEF stage, Stage_
    <2>5. Step(t, stage) /\ c \in whole' /\ whole \subseteq whole'
      BY <2>1 DEF stage
    <2> QED BY <2>1, <2>2, <2>3, <2>4, <2>5, QuietRelease
  <1> QED BY <1>2, <1>3

LEMMA OpenFileKeepsWhole ==
    ASSUME Inv, WholeInv, NEW t \in Task, OpenFile(t)
    PROVE  WholeInv'
  <1> DEFINE req == tasks[t].req
             n == FileToOpen(req)
             i == InodeFor(t, n)
             stage == [pc |-> "opened", req |-> req, id |-> tasks[t].id,
                       contents |-> tasks[t].contents, fd |-> i]
  <1>1. tasks[t].pc = "writing" /\ Busy(t)
    BY DEF OpenFile, Busy
  <1>2. n \in Name /\ (req.op # "file_write" => \E p \in Target : n = Tmp[p])
    BY <1>1, CallFields, Paths DEF Inv, FileToOpen
  <1>3. /\ names' = [names EXCEPT ![n] = i] /\ data' = [data EXCEPT ![i] = <<>>]
        /\ tainted' = IF InUse(t, i) THEN tainted \cup {i} ELSE tainted \ {i}
        /\ StepTouching(t, stage, {n})
        /\ UNCHANGED <<nextOp, whole>>
    BY DEF OpenFile
  <1>4. tasks[t].contents \in whole
    BY <1>1 DEF WholeInv, MeantIsWhole
  <1>5. /\ stage.fd = i /\ stage.pc = "opened" /\ stage.contents = tasks[t].contents
        /\ stage.req = req
    OBVIOUS
  <1> HIDE DEF stage, n, req
  <1> QED BY <1>1, <1>2, <1>3, <1>4, <1>5, OpenStep

LEMMA WriteDataKeepsWhole ==
    ASSUME Inv, WholeInv, NEW t \in Task, WriteData(t)
    PROVE  WholeInv'
  <1> DEFINE i == tasks[t].fd
             c == tasks[t].contents
             d == Overlay(c, data[i])
             stage == IF tasks[t].req.op = "file_write" THEN Idle ELSE [tasks[t] EXCEPT !.pc = "written"]
  <1>1. /\ tasks[t].pc = "opened" /\ data' = [data EXCEPT ![i] = d]
        /\ StepTouching(t, stage, NamesOf(i))
        /\ UNCHANGED <<names, nextOp, whole, tainted>>
    BY DEF WriteData
  <1>2. tasks[t] \in Opened /\ c \in Contents /\ i \in Inode
    BY <1>1, StageFields DEF Inv, TypeInv, TypeOK, Opened
  <1>3. /\ stage.pc \in {"idle", "written"}
        /\ stage.pc = "written" => stage.fd = i /\ stage.req = tasks[t].req /\ stage.contents = c
    BY <1>2, IdleHoldsNothing DEF Opened
  <1>4. c \in whole
    BY <1>1 DEF WholeInv, MeantIsWhole
  <1>5. i \notin tainted => d = c
    <2>1. i \notin tainted => data[i] = <<>>
      BY <1>1, <1>2 DEF WholeInv, AloneAsWritten, Holds, Holding
    <2> QED BY <1>2, <2>1, OverlayOnNothing
  <1> HIDE DEF stage, d, c
  <1> QED BY <1>1, <1>3, <1>4, <1>5, FillStep

LEMMA WriteFailsKeepsWhole ==
    ASSUME Inv, WholeInv, NEW t \in Task, WriteFails(t)
    PROVE  WholeInv'
  <1>1. /\ tasks[t].pc = "opened" /\ Step(t, Idle)
        /\ tainted' = IF tasks[t].req.op = "file_write" THEN tainted \cup {tasks[t].fd} ELSE tainted
        /\ UNCHANGED <<names, data, whole>> /\ nextOp' \in {nextOp, nextOp + 1}
    BY DEF WriteFails
  <1>2. ASSUME NEW i \in Inode, Holds(t, i), Shows(i)
        PROVE  i \in tainted'
    BY <1>1, <1>2 DEF WholeInv, TmpIsHidden, Holds
  <1>3. tainted \subseteq tainted' /\ whole \subseteq whole'
    BY <1>1
  <1> QED BY <1>1, <1>2, <1>3, QuietRelease, IdleHoldsNothing

LEMMA CopyFailsKeepsWhole ==
    ASSUME Inv, WholeInv, NEW t \in Task, CopyFails(t)
    PROVE  WholeInv'
  <1>1. /\ tasks[t].pc = "copying" /\ Step(t, Idle) /\ tainted' = tainted \cup {tasks[t].fd}
        /\ UNCHANGED <<names, data, whole>> /\ nextOp' \in {nextOp, nextOp + 1}
    BY DEF CopyFails
  <1>2. ASSUME NEW i \in Inode, Holds(t, i), Shows(i)
        PROVE  i \in tainted'
    BY <1>1, <1>2 DEF Holds
  <1>3. tainted \subseteq tainted' /\ whole \subseteq whole'
    BY <1>1
  <1> QED BY <1>1, <1>2, <1>3, QuietRelease, IdleHoldsNothing

\* A call that ends by unbinding a file's name, or by giving the file another's.
LEMMA NamesKeepWhole ==
    ASSUME Inv, WholeInv, NEW t \in Task, tasks[t].pc \notin Holding,
           NEW stage, stage.pc \notin Holding, stage.pc # "writing",
           stage.pc \in Unopened => Unclaimed(stage.id),
           NEW touched, StepTouching(t, stage, touched), UNCHANGED <<data, nextOp, whole, tainted>>,
           \/ \E n \in Target : names' = [names EXCEPT ![n] = NoFile]
           \/ \E from, to \in Target : names' = [names EXCEPT ![to] = names[from], ![from] = NoFile]
    PROVE  WholeInv'
  <1>1. \A p \in Target : names'[Tmp[p]] \in {NoFile, names[Tmp[p]]}
    BY TmpNames DEF Inv, TypeInv, TypeOK
  <1>2. \A p \in Target, i \in Inode : names'[p] = i => \E q \in Target : names[q] = i
    BY TmpNames DEF Inv, TypeInv, TypeOK, Inode
  <1>3. \A i : ~Holds(t, i)
    BY DEF Holds
  <1>4. nextOp' \in {nextOp, nextOp + 1}
    OBVIOUS
  <1> QED BY <1>1, <1>2, <1>3, <1>4, ReleaseStep

(***************************************************************************)
(* The rename of the temporary file: what no other call has a hand in is   *)
(* what this call has written.                                             *)
(***************************************************************************)
LEMMA RenameTmpKeepsWhole ==
    ASSUME Inv, WholeInv, NEW t \in Task, RenameTmp(t)
    PROVE  WholeInv'
  <1> DEFINE p == tasks[t].req.path
             n == Tmp[p]
             j == names[n]
             failed == [pc |-> "failed", req |-> tasks[t].req, id |-> tasks[t].id]
  <1>1. Busy(t) /\ tasks[t].pc = "written"
    BY DEF RenameTmp, Busy
  <1>2. p \in Target
    BY <1>1, CallFields, Paths DEF Inv
  <1> DEFINE Fails == Step(t, failed) /\ UNCHANGED <<names, data, nextOp, whole, tainted>>
  <1>3. CASE Fails
    <2>1. failed.pc = "failed" /\ failed.pc \notin Holding \cup Unopened
      BY DEF Holding, Unopened
    <2>2. \A i : ~(Holds(t, i) /\ tasks[t].pc # "written")
      BY <1>1
    <2> HIDE DEF failed
    <2> QED BY <1>3, <2>1, <2>2, QuietRelease
  <1>4. CASE ~Fails
    <2>1. /\ Exists(n)
          /\ names' = [names EXCEPT ![p] = j, ![n] = NoFile]
          /\ tainted' = IF j # tasks[t].fd \/ InUse(t, j) THEN tainted \cup {j} ELSE tainted
          /\ StepTouching(t, Idle, {p}) /\ UNCHANGED <<data, nextOp, whole>>
      BY <1>4 DEF RenameTmp
    <2>2. j \in Inode
      BY <1>2, <2>1, TmpNames DEF Inv, TypeInv, TypeOK, Exists
    <2>3. ASSUME j \notin tainted'
          PROVE  data[j] \in whole /\ \A u \in Task \ {t} : ~Holds(u, j)
      <3>1. j = tasks[t].fd /\ ~InUse(t, j) /\ j \notin tainted
        BY <2>1, <2>3
      <3>2. data[j] = tasks[t].contents
        BY <1>1, <2>2, <3>1 DEF WholeInv, AloneAsWritten, Holds, Holding
      <3>3. tasks[t].contents \in whole
        BY <1>1 DEF WholeInv, MeantIsWhole
      <3> QED BY <3>1, <3>2, <3>3 DEF InUse, Holds, Holding
    <2> HIDE DEF p, j
    <2>4. \A q \in Target : names'[Tmp[q]] \in {NoFile, names[Tmp[q]]}
      BY <1>2, <2>1, TmpNames DEF Inv, TypeInv, TypeOK
    <2>5. \A q \in Target, i \in Inode : names'[q] = i => i = j \/ \E r \in Target : names[r] = i
      BY <1>2, <2>1, TmpNames DEF Inv, TypeInv, TypeOK, Inode
    <2>6. /\ tainted \subseteq tainted' /\ whole \subseteq whole' /\ nextOp' \in {nextOp, nextOp + 1}
          /\ UNCHANGED data
      BY <2>1
    <2>7. \A q \in Target, i \in Inode : names'[q] = i =>
             \/ \E r \in Target : names[r] = i
             \/ i \in tainted'
             \/ data[i] \in whole /\ \A u \in Task \ {t} : ~Holds(u, i)
      BY <2>3, <2>5
    <2> QED BY <1>1, <2>1, <2>4, <2>6, <2>7, ReleaseStep, IdleHoldsNothing
  <1> QED BY <1>3, <1>4

LEMMA RemoveTmpKeepsWhole ==
    ASSUME Inv, WholeInv, NEW t \in Task, RemoveTmp(t)
    PROVE  WholeInv'
  <1> DEFINE p == tasks[t].req.path
             n == Tmp[p]
  <1>1. Busy(t) /\ tasks[t].pc = "failed" /\ tasks[t].pc \notin Holding
    BY DEF RemoveTmp, Busy, Holding
  <1>2. p \in Target /\ n \in Name /\ n \notin Target
    BY <1>1, CallFields, Paths, TmpNames DEF Inv
  <1>3. /\ names' = [names EXCEPT ![n] = NoFile] /\ StepTouching(t, Idle, {})
        /\ UNCHANGED <<data, nextOp, whole, tainted>> /\ nextOp' \in {nextOp, nextOp + 1}
    BY StepTouchesNothing DEF RemoveTmp, Inv, TypeInv
  <1> HIDE DEF p, n
  <1>4. \A q \in Target : names'[Tmp[q]] \in {NoFile, names[Tmp[q]]}
    BY <1>2, <1>3, TmpNames DEF Inv, TypeInv, TypeOK
  <1>5. \A q \in Target, i \in Inode : names'[q] = i => \E r \in Target : names[r] = i
    BY <1>2, <1>3, TmpNames DEF Inv, TypeInv, TypeOK
  <1>6. \A i : ~Holds(t, i)
    BY <1>1 DEF Holds
  <1> QED BY <1>3, <1>4, <1>5, <1>6, ReleaseStep, IdleHoldsNothing

LEMMA DirectoryKeepsWhole ==
    ASSUME Inv, WholeInv, NEW t \in Task,
           DeleteFile(t) \/ CheckMove(t) \/ RemoveTarget(t) \/ RenameMove(t) \/ RemoveSource(t)
    PROVE  WholeInv'
  <1> DEFINE req == tasks[t].req
             checked == [pc |-> IF Exists(req.to) THEN "replacing" ELSE "moving", req |-> req,
                         id |-> tasks[t].id, contents |-> ContentsOf(req.path), alone |-> TRUE]
             stage == [tasks[t] EXCEPT !.pc = "moving"]
  <1>1. /\ Busy(t) /\ tasks[t].pc \in {"ready", "replacing", "moving", "copied"}
        /\ tasks[t].pc \notin Holding
    BY DEF DeleteFile, CheckMove, RemoveTarget, RenameMove, RemoveSource, Called, Busy, Holding
  <1>2. req.path \in Target /\ req.to \in Target /\ req.op \in Op
    BY <1>1, CallFields, Paths DEF Inv, Request
  <1>3. CASE Refuse(t)
    BY <1>1, <1>2, <1>3, RefusalKeepsWhole DEF Called
  <1>4. CASE (DeleteFile(t) \/ RenameMove(t) \/ RemoveSource(t)) /\ ~Refuse(t)
    <2>1. PICK touched : StepTouching(t, Idle, touched)
      BY <1>4 DEF DeleteFile, RenameMove, RemoveSource
    <2>2. UNCHANGED <<data, nextOp, whole, tainted>>
      BY <1>4 DEF DeleteFile, RenameMove, RemoveSource
    <2>3. \/ names' = [names EXCEPT ![req.path] = NoFile]
          \/ names' = [names EXCEPT ![req.to] = names[req.path], ![req.path] = NoFile]
      BY <1>4 DEF DeleteFile, RenameMove, RemoveSource
    <2> HIDE DEF req
    <2> QED BY <1>1, <1>2, <2>1, <2>2, <2>3, NamesKeepWhole, IdleHoldsNothing
  <1>5. CASE CheckMove(t) /\ ~Refuse(t)
    <2>1. /\ Step(t, checked) /\ UNCHANGED <<names, data, nextOp, whole, tainted>>
          /\ tasks[t].pc \in Unopened
      BY <1>5 DEF CheckMove, Called, Unopened
    <2>2. checked.pc \in {"replacing", "moving"} /\ checked.id = tasks[t].id /\ checked.pc \notin Holding
      BY DEF Holding
    <2>3. Unclaimed(tasks[t].id)
      BY <2>1 DEF WholeInv, NumbersUnclaimed
    <2>4. \A i : ~Holds(t, i)
      BY <1>1 DEF Holds
    <2> HIDE DEF checked, req
    <2> QED BY <2>1, <2>2, <2>3, <2>4, QuietRelease
  <1>6. CASE RemoveTarget(t) /\ ~Refuse(t)
    <2>1. /\ StepTouching(t, stage, {req.to}) /\ UNCHANGED <<data, nextOp, whole, tainted>>
          /\ names' = [names EXCEPT ![req.to] = NoFile]
          /\ tasks[t].pc \in Unopened /\ tasks[t].pc = "replacing"
      BY <1>6 DEF RemoveTarget, Unopened
    <2>2. tasks[t] \in Moving
      BY <2>1, StageFields DEF Inv, TypeInv, TypeOK
    <2>3. stage.pc = "moving" /\ stage.id = tasks[t].id /\ stage.pc \notin Holding
      BY <2>2 DEF Moving, Holding
    <2>4. Unclaimed(tasks[t].id)
      BY <2>1 DEF WholeInv, NumbersUnclaimed
    <2> HIDE DEF stage, req
    <2> QED BY <1>1, <1>2, <2>1, <2>3, <2>4, NamesKeepWhole
  <1> QED BY <1>3, <1>4, <1>5, <1>6

LEMMA OpenCopyKeepsWhole ==
    ASSUME Inv, MovesInv, WholeInv, NEW t \in Task, OpenCopy(t)
    PROVE  WholeInv'
  <1> DEFINE from == tasks[t].req.path
             to == tasks[t].req.to
             i == InodeFor(t, to)
             stage == [pc |-> "copying", req |-> tasks[t].req, id |-> tasks[t].id,
                       contents |-> tasks[t].contents, from |-> names[from], fd |-> i,
                       alone |-> tasks[t].alone]
  <1>1. tasks[t].pc = "moving" /\ IsMove(tasks[t]) /\ Exists(from)
    BY DEF OpenCopy, IsMove
  <1>2. from \in Target /\ to \in Target /\ from # to /\ to \in Name
    BY <1>1, MoveFields, TmpNames DEF Inv, TypeInv
  <1>3. /\ names' = [names EXCEPT ![to] = i] /\ data' = [data EXCEPT ![i] = <<>>]
        /\ tainted' = IF InUse(t, i) THEN tainted \cup {i} ELSE tainted \ {i}
        /\ StepTouching(t, stage, {to}) /\ UNCHANGED <<nextOp, whole>>
    BY DEF OpenCopy
  <1>4. stage.pc = "copying" /\ stage.fd = i /\ stage.from = names[from]
    OBVIOUS
  <1> HIDE DEF stage, from, to
  <1> QED BY <1>1, <1>2, <1>3, <1>4, OpenStep

LEMMA CopyDataKeepsWhole ==
    ASSUME Inv, WholeInv, NEW t \in Task, CopyData(t)
    PROVE  WholeInv'
  <1> DEFINE i == tasks[t].fd
             j == tasks[t].from
             d == Overlay(data[j], data[i])
             stage == Copied(tasks[t])
  <1>1. /\ tasks[t].pc = "copying" /\ data' = [data EXCEPT ![i] = d]
        /\ tainted' = IF j \in tainted \/ InUse(t, j) THEN tainted \cup {i} ELSE tainted
        /\ StepTouching(t, stage, NamesOf(i)) /\ UNCHANGED <<names, nextOp, whole>>
    BY DEF CopyData
  <1>2. i \in Inode /\ j \in Inode /\ data[j] \in Contents
    BY <1>1, HeldAreInodes DEF Inv, TypeInv, TypeOK, Holding
  <1>3. stage.pc = "copied"
    BY DEF Copied
  <1>4. ASSUME i \notin tainted'
        PROVE  d \in whole
    <2>1. j \notin tainted /\ ~InUse(t, j) /\ i \notin tainted
      BY <1>1, <1>4
    <2>2. Holds(t, i) /\ Shows(j) /\ i # j
      BY <1>1 DEF Holds, Holding, Shows, Copies, WholeInv, SourcesAreFiles
    <2>3. ~BeingWritten(j)
      BY <2>1, <2>2 DEF BeingWritten, InUse
    <2>4. data[j] \in whole
      BY <1>2, <2>1, <2>2, <2>3 DEF WholeInv, ShownIsWhole
    <2>5. data[i] = <<>>
      BY <1>1, <1>2, <2>1, <2>2 DEF WholeInv, AloneAsWritten
    <2> QED BY <1>2, <2>4, <2>5, OverlayOnNothing
  <1>5. tainted \subseteq tainted' /\ tainted' \subseteq tainted \cup {i}
    BY <1>1
  <1> HIDE DEF stage, d
  <1> QED BY <1>1, <1>3, <1>4, <1>5, FillStep

LEMMA CrashKeepsWhole ==
    ASSUME Inv, WholeInv, Crash
    PROVE  WholeInv'
  <1>1. /\ \A t \in Task : tasks'[t].pc = "idle"
        /\ UNCHANGED <<names, data, nextOp, whole>> /\ tainted' = tainted \cup WrittenInPlace
    BY IdleHoldsNothing DEF Crash
  <1>2. \A i : \A t \in Task : ~Holds(t, i)' /\ ~Copies(t, i)'
    BY <1>1 DEF Holds, Copies, Holding
  <1>3. ShownIsWhole'
    <2> SUFFICES ASSUME NEW i \in Inode, Shows(i)', i \notin tainted'
                 PROVE  data[i] \in whole
      BY <1>1 DEF ShownIsWhole
    <2>1. Shows(i)
      BY <1>1, <1>2 DEF Shows
    <2>2. ASSUME NEW t \in Task, tasks[t].pc \in {"opened", "copying"}, tasks[t].fd = i
          PROVE  FALSE
      <3>1. tasks[t].pc = "opened" /\ tasks[t].req.op # "file_write" /\ i \notin tainted
        BY <1>1, <2>2 DEF WrittenInPlace
      <3> QED BY <2>1, <2>2, <3>1 DEF WholeInv, TmpIsHidden, Holds, Holding
    <2>3. ~BeingWritten(i) /\ i \notin tainted
      BY <1>1, <2>2 DEF BeingWritten
    <2> QED BY <2>1, <2>3 DEF WholeInv, ShownIsWhole
  <1>4. SharedAreTainted' /\ AloneAsWritten' /\ TmpIsHidden'
    BY <1>2 DEF SharedAreTainted, AloneAsWritten, TmpIsHidden
  <1>5. MeantIsWhole' /\ SourcesAreFiles'
    BY <1>1 DEF MeantIsWhole, SourcesAreFiles
  <1>6. NumbersUnclaimed'
    BY <1>1, <1>2 DEF NumbersUnclaimed, Unclaimed, Unopened
  <1> QED BY <1>3, <1>4, <1>5, <1>6 DEF WholeInv

LEMMA WholeInvHolds == Spec => []WholeInv
  <1>1. Init => WholeInv
    <2> SUFFICES ASSUME Init PROVE WholeInv
      OBVIOUS
    <2>1. PICK p \in Target : names = [n \in Name |-> IF n = p THEN 0 ELSE NoFile]
      BY DEF Init
    <2>2. \A t \in Task : tasks[t].pc = "idle"
      BY IdleHoldsNothing DEF Init
    <2>3. \A i : \A t \in Task : ~Holds(t, i) /\ ~Copies(t, i)
      BY <2>2 DEF Holds, Copies, Holding
    <2>4. ShownIsWhole
      <3>1. \A i \in Inode : Shows(i) => i = 0
        BY <2>1, <2>3, TmpNames DEF Shows, Inode
      <3>2. data[0] = <<0>> /\ whole = {<<0>>}
        BY DEF Init, Inode
      <3> QED BY <3>1, <3>2 DEF ShownIsWhole
    <2> QED BY <2>2, <2>3, <2>4 DEF WholeInv, SharedAreTainted, AloneAsWritten, MeantIsWhole,
            TmpIsHidden, SourcesAreFiles, NumbersUnclaimed, Unclaimed, Unopened
  <1>2. Inv /\ MovesInv /\ WholeInv /\ [Next]_vars => WholeInv'
    <2> SUFFICES ASSUME Inv, MovesInv, WholeInv, [Next]_vars PROVE WholeInv'
      OBVIOUS
    <2>1. ASSUME NEW t \in Task, Work(t) PROVE WholeInv'
      BY <2>1, ReadFileKeepsWhole, OpenFileKeepsWhole, WriteDataKeepsWhole, WriteFailsKeepsWhole,
         RenameTmpKeepsWhole, RemoveTmpKeepsWhole, DirectoryKeepsWhole, OpenCopyKeepsWhole, CopyDataKeepsWhole,
         CopyFailsKeepsWhole DEF Work
    <2>2. ASSUME NEW t \in Task, NEW req \in Requests, Call(t, req) PROVE WholeInv'
      BY <2>2, CallKeepsWhole
    <2>3. CASE Crash
      BY <2>3, CrashKeepsWhole
    <2>4. CASE UNCHANGED vars
      BY <2>4 DEF vars, WholeInv, SharedAreTainted, AloneAsWritten, MeantIsWhole, ShownIsWhole,
         TmpIsHidden, SourcesAreFiles, NumbersUnclaimed, Unclaimed, Holds, Copies, Shows, BeingWritten
    <2> QED BY <2>1, <2>2, <2>3, <2>4 DEF Next
  <1> QED BY <1>1, <1>2, InvHolds, MovesInvHolds, PTL DEF Spec

(***************************************************************************)
(* What stands under a file's name is whole, however the system calls of   *)
(* the tools interleave, fail or are cut short, unless two calls have had  *)
(* the inode open at once or one was cut short writing to it in place:     *)
(* atomic_write_bytes and std::fs::copy are atomic to a reader exactly     *)
(* where a call does not share its temporary file or its destination.      *)
(***************************************************************************)
THEOREM FilesAreWhole == Spec => []WholeUnlessShared
  <1>1. Inv /\ WholeInv => WholeUnlessShared
    <2> SUFFICES ASSUME Inv, WholeInv, NEW p \in Target, Exists(p), names[p] \notin tainted,
                        ~BeingWritten(names[p])
                 PROVE  data[names[p]] \in whole
      BY DEF WholeUnlessShared, ContentsOf
    <2>1. names[p] \in Inode
      BY TmpNames DEF Inv, TypeInv, TypeOK, Exists
    <2> QED BY <2>1 DEF WholeInv, ShownIsWhole, Shows
  <1> QED BY <1>1, InvHolds, WholeInvHolds, PTL
=============================================================================
