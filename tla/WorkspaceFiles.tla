--------------------------- MODULE WorkspaceFiles ---------------------------
(***************************************************************************)
(* The tools that change files of the workspace (crates/jiaclaw/src:       *)
(* files.rs, memory.rs, tools.rs), called by turns that run concurrently   *)
(* and share nothing but the directory.                                    *)
(*                                                                         *)
(* write_file, str_replace and memory_write read the file, compute the new *)
(* contents, write them to <name>.tmp and rename that over the name.  The  *)
(* older file_write opens the file itself.  A move renames, or copies and  *)
(* deletes where the rename would cross file systems.  Every system call   *)
(* that changes the directory or a file is a step of its own; a name is    *)
(* bound to an inode, and a task that has opened an inode writes to it     *)
(* whatever has become of the name.                                        *)
(*                                                                         *)
(* Contents are sequences of operation numbers: an append adds its number, *)
(* an overwrite leaves nothing else.  Left out: directories, symbolic      *)
(* links, paths that are refused, and memory_append, soul_write and        *)
(* user_write, which are a memory_write without a limit.                   *)
(***************************************************************************)
EXTENDS Naturals, Sequences, FiniteSets

CONSTANTS Target,   \* the files the tools are asked to change
          Tmp,      \* Tmp[p]: the name the tools use as p's temporary file
          NoFile,   \* "no such file"
          Task,     \* the tool calls in flight
          Requests, \* the calls the model may make
          MaxBytes, \* the limit of a file's size
          MayCross, \* whether the workspace spans file systems
          MaxOps    \* bound: the calls of a behaviour

Name == Target \cup {Tmp[p] : p \in Target}

Op == {"write_file", "append", "str_replace", "file_write", "delete_file", "move"}

Request == [op : Op, path : Target, to : Target, overwrite : BOOLEAN]

\* What call number k creates is inode k; inode 0 was there before.
Inode == 0 .. MaxOps

Contents == Seq(0 .. MaxOps)

ASSUME FilesAssumption ==
    /\ Tmp \in [Target -> {Tmp[p] : p \in Target} \ Target]
    /\ \A p, q \in Target : p # q => Tmp[p] # Tmp[q]
    /\ Requests \subseteq Request
    /\ \A r \in Requests : r.op = "move" => r.to # r.path
    /\ MaxBytes \in Nat \ {0}
    /\ MayCross \in BOOLEAN
    /\ MaxOps \in Nat
    /\ NoFile \notin Nat

VARIABLES
    names,   \* the directory: name -> inode, or NoFile
    data,    \* the contents of every inode
    tasks,   \* the stage of every tool call
    nextOp,  \* the number of the next call
    whole,   \* history variable: the contents some call meant a file to have
    tainted  \* history variable: inodes two calls have had a hand in, or
             \* whose writing was cut short where it can be seen

vars == <<names, data, tasks, nextOp, whole, tainted>>

Idle == [pc |-> "idle"]
Ready == [pc : {"ready", "failed"}, req : Requests, id : 1 .. MaxOps]
Writing == [pc : {"writing"}, req : Requests, id : 1 .. MaxOps, contents : Contents]
Opened == [pc : {"opened", "written"}, req : Requests, id : 1 .. MaxOps,
           contents : Contents, fd : Inode]
Moving == [pc : {"replacing", "moving", "copied"}, req : Requests, id : 1 .. MaxOps,
           contents : Contents, alone : BOOLEAN]
Copying == [pc : {"copying"}, req : Requests, id : 1 .. MaxOps,
            contents : Contents, from : Inode, fd : Inode, alone : BOOLEAN]

Stage == {Idle} \cup Ready \cup Writing \cup Opened \cup Moving \cup Copying

(***************************************************************************)
(* Types, and: two names are never bound to one inode, so what a call does *)
(* to a file shows under one name only.                                    *)
(***************************************************************************)
TypeOK ==
    /\ names \in [Name -> Inode \cup {NoFile}]
    /\ \A m, n \in Name : m # n /\ names[m] = names[n] => names[m] = NoFile
    /\ data \in [Inode -> Contents]
    /\ tasks \in [Task -> Stage]
    /\ nextOp \in 1 .. MaxOps + 1
    /\ whole \subseteq Contents
    /\ tainted \subseteq Inode

-----------------------------------------------------------------------------

Exists(n) == names[n] # NoFile

ContentsOf(n) == data[names[n]]

\* Where the contents of an inode can be seen.
NamesOf(i) == {n \in Name : names[n] = i}

IsMove(stage) == stage.pc \in {"replacing", "moving", "copying", "copied"}

\* Task t goes on to a stage and has changed files on its way: a move of one
\* of them that is under way is not alone any more.
StepTouching(t, stage, touched) ==
    tasks' = [u \in Task |->
                IF u = t THEN stage
                ELSE IF IsMove(tasks[u]) /\ {tasks[u].req.path, tasks[u].req.to} \cap touched # {}
                     THEN [tasks[u] EXCEPT !.alone = FALSE]
                ELSE tasks[u]]

Step(t, stage) == tasks' = [tasks EXCEPT ![t] = stage]

\* A tool call begins.
Call(t, req) ==
    /\ tasks[t].pc = "idle" /\ nextOp <= MaxOps
    /\ Step(t, [pc |-> "ready", req |-> req, id |-> nextOp])
    /\ nextOp' = nextOp + 1
    /\ UNCHANGED <<names, data, whole, tainted>>

Called(t, ops) == tasks[t].pc = "ready" /\ tasks[t].req.op \in ops

\* The call is refused, and nothing has been changed.
Refuse(t) == Step(t, Idle) /\ UNCHANGED <<names, data, nextOp, whole, tainted>>

-----------------------------------------------------------------------------

Prior(p) == IF Exists(p) THEN ContentsOf(p) ELSE <<>>

\* str_replace's counting of old_str, and its default of exactly one match.
Matches(c, old) == {k \in DOMAIN c : c[k] = old}

Replaced(c, old, new) == [k \in DOMAIN c |-> IF c[k] = old THEN new ELSE c[k]]

(***************************************************************************)
(* The contents a call computes from those it reads, or none if the call   *)
(* is refused: str_replace needs the file and a match.                     *)
(***************************************************************************)
NewContents(req, id) ==
    CASE req.op \in {"write_file", "file_write"} -> {<<id>>}
      [] req.op = "append" -> {Append(Prior(req.path), id)}
      [] req.op = "str_replace" ->
            {Replaced(Prior(req.path), old, id) :
                old \in {o \in 0 .. MaxOps : Matches(Prior(req.path), o) # {}}}
      [] OTHER -> {}

\* A limit that is checked against what the file holds already.
Fits_Before(c, p) == Len(Prior(p)) <= MaxBytes

\* The limit is checked against what would be written.
Fits(c, p) == Len(c) <= MaxBytes

\* write_workspace_regular_file, str_replace_workspace_file and
\* write_workspace_file_with_limit, up to the write.  (file_write has no limit
\* and reads nothing.)
ReadFile(t) ==
    LET req == tasks[t].req
    IN  /\ Called(t, {"write_file", "append", "str_replace", "file_write"})
        /\ \/ Refuse(t)
           \/ \E c \in NewContents(req, tasks[t].id) :
                 /\ req.op # "file_write" => Fits(c, req.path)
                 /\ Step(t, [pc |-> "writing", req |-> req, id |-> tasks[t].id, contents |-> c])
                 /\ whole' = whole \cup {c}
                 /\ UNCHANGED <<names, data, nextOp, tainted>>

\* The file a call opens: itself for file_write, or else the temporary one.
FileToOpen(req) == IF req.op = "file_write" THEN req.path ELSE Tmp[req.path]

\* Another call has the inode open, or means to rename it.
InUse(t, i) ==
    \E u \in Task \ {t} : tasks[u].pc \in {"opened", "written", "copying"} /\ tasks[u].fd = i

\* The inode a task gets by opening a name for writing.
InodeFor(t, n) == IF Exists(n) THEN names[n] ELSE tasks[t].id

\* A file that is opened and keeps what an earlier call has left in it.
OpenFile_NoTruncate(t) ==
    LET req == tasks[t].req
        n == FileToOpen(req)
        i == InodeFor(t, n)
    IN  /\ tasks[t].pc = "writing"
        /\ names' = [names EXCEPT ![n] = i]
        /\ tainted' = IF InUse(t, i) THEN tainted \cup {i} ELSE tainted \ {i}
        /\ StepTouching(t, [pc |-> "opened", req |-> req, id |-> tasks[t].id,
                            contents |-> tasks[t].contents, fd |-> i], {n})
        /\ UNCHANGED <<data, nextOp, whole>>

(***************************************************************************)
(* std::fs::write, first half: the file is created, or emptied whoever     *)
(* else may be writing to it.                                              *)
(***************************************************************************)
OpenFile(t) ==
    LET req == tasks[t].req
        n == FileToOpen(req)
        i == InodeFor(t, n)
    IN  /\ tasks[t].pc = "writing"
        /\ names' = [names EXCEPT ![n] = i]
        /\ data' = [data EXCEPT ![i] = <<>>]
        /\ tainted' = IF InUse(t, i) THEN tainted \cup {i} ELSE tainted \ {i}
        /\ StepTouching(t, [pc |-> "opened", req |-> req, id |-> tasks[t].id,
                            contents |-> tasks[t].contents, fd |-> i], {n})
        /\ UNCHANGED <<nextOp, whole>>

\* Bytes written from the start of a file over what it holds by then.
Overlay(c, old) ==
    [k \in 1 .. (IF Len(c) > Len(old) THEN Len(c) ELSE Len(old)) |->
        IF k \in DOMAIN c THEN c[k] ELSE old[k]]

\* std::fs::write, second half.  file_write is done, the others go on to rename.
WriteData(t) ==
    LET i == tasks[t].fd
        direct == tasks[t].req.op = "file_write"
    IN  /\ tasks[t].pc = "opened"
        /\ data' = [data EXCEPT ![i] = Overlay(tasks[t].contents, @)]
        /\ StepTouching(t, IF direct THEN Idle ELSE [tasks[t] EXCEPT !.pc = "written"], NamesOf(i))
        /\ UNCHANGED <<names, nextOp, whole, tainted>>

\* The write fails (the disk is full): whatever has been written stays, a
\* temporary file under its name, too.
WriteFails(t) ==
    /\ tasks[t].pc = "opened"
    /\ tainted' = IF tasks[t].req.op = "file_write" THEN tainted \cup {tasks[t].fd} ELSE tainted
    /\ Step(t, Idle)
    /\ UNCHANGED <<names, data, nextOp, whole>>

\* A commit that links the name and keeps the temporary one.
RenameTmp_KeepsTmp(t) ==
    LET p == tasks[t].req.path
        n == Tmp[p]
    IN  /\ tasks[t].pc = "written"
        /\ names' = [names EXCEPT ![p] = names[n]]
        /\ StepTouching(t, Idle, {p})
        /\ UNCHANGED <<data, nextOp, whole, tainted>>

(***************************************************************************)
(* atomic_write_bytes, its end: whatever inode the temporary name is bound *)
(* to by now becomes the file.  If another call has renamed it away, or    *)
(* the rename fails for another reason, the call reports an error.         *)
(***************************************************************************)
RenameTmp(t) ==
    LET p == tasks[t].req.path
        n == Tmp[p]
    IN  /\ tasks[t].pc = "written"
        /\ \/ /\ Exists(n)
              /\ names' = [names EXCEPT ![p] = names[n], ![n] = NoFile]
              /\ tainted' = IF names[n] # tasks[t].fd \/ InUse(t, names[n])
                             THEN tainted \cup {names[n]} ELSE tainted
              /\ StepTouching(t, Idle, {p})
              /\ UNCHANGED <<data, nextOp, whole>>
           \/ /\ Step(t, [pc |-> "failed", req |-> tasks[t].req, id |-> tasks[t].id])
              /\ UNCHANGED <<names, data, nextOp, whole, tainted>>

\* But first it removes the temporary file, if there is one, and be it another call's.
RemoveTmp(t) ==
    /\ tasks[t].pc = "failed"
    /\ names' = [names EXCEPT ![Tmp[tasks[t].req.path]] = NoFile]
    /\ Step(t, Idle)
    /\ UNCHANGED <<data, nextOp, whole, tainted>>

\* delete_workspace_regular_file
DeleteFile(t) ==
    LET p == tasks[t].req.path
    IN  /\ Called(t, {"delete_file"})
        /\ IF Exists(p)
           THEN /\ names' = [names EXCEPT ![p] = NoFile]
                /\ StepTouching(t, Idle, {p})
                /\ UNCHANGED <<data, nextOp, whole, tainted>>
           ELSE Refuse(t)

-----------------------------------------------------------------------------

\* A move that does not ask whether its destination exists.
CheckMove_AnyDestination(t) ==
    LET req == tasks[t].req
    IN  /\ Called(t, {"move"})
        /\ IF Exists(req.path)
           THEN /\ Step(t, [pc |-> "moving", req |-> req, id |-> tasks[t].id,
                            contents |-> ContentsOf(req.path), alone |-> TRUE])
                /\ UNCHANGED <<names, data, nextOp, whole, tainted>>
           ELSE Refuse(t)

(***************************************************************************)
(* resolve_move_source and resolve_move_destination: a file in the way is  *)
(* to be removed if the call may overwrite it, and refused if not.         *)
(***************************************************************************)
CheckMove(t) ==
    LET req == tasks[t].req
    IN  /\ Called(t, {"move"})
        /\ IF Exists(req.path) /\ (Exists(req.to) => req.overwrite)
           THEN /\ Step(t, [pc |-> IF Exists(req.to) THEN "replacing" ELSE "moving", req |-> req,
                            id |-> tasks[t].id, contents |-> ContentsOf(req.path), alone |-> TRUE])
                /\ UNCHANGED <<names, data, nextOp, whole, tainted>>
           ELSE Refuse(t)

\* The destination is removed, whatever it is by now, or that fails.
RemoveTarget(t) ==
    LET to == tasks[t].req.to
    IN  /\ tasks[t].pc = "replacing"
        /\ \/ Refuse(t)
           \/ /\ Exists(to)
              /\ names' = [names EXCEPT ![to] = NoFile]
              /\ StepTouching(t, [tasks[t] EXCEPT !.pc = "moving"], {to})
              /\ UNCHANGED <<data, nextOp, whole, tainted>>

\* rename_or_copy_delete: the rename takes what is there by now, on both sides,
\* or fails; what RemoveTarget has removed stays removed.
RenameMove(t) ==
    LET from == tasks[t].req.path
        to == tasks[t].req.to
    IN  /\ tasks[t].pc = "moving"
        /\ \/ Refuse(t)
           \/ /\ Exists(from)
              /\ names' = [names EXCEPT ![to] = names[from], ![from] = NoFile]
              /\ StepTouching(t, Idle, {from, to})
              /\ UNCHANGED <<data, nextOp, whole, tainted>>

\* A copy that unlinks its source once it has opened it.
OpenCopy_Unlinks(t) ==
    LET from == tasks[t].req.path
        to == tasks[t].req.to
        i == InodeFor(t, to)
    IN  /\ MayCross
        /\ tasks[t].pc = "moving"
        /\ Exists(from)
        /\ names' = [names EXCEPT ![to] = i, ![from] = NoFile]
        /\ data' = [data EXCEPT ![i] = <<>>]
        /\ tainted' = IF InUse(t, i) THEN tainted \cup {i} ELSE tainted \ {i}
        /\ StepTouching(t, [pc |-> "copying", req |-> tasks[t].req, id |-> tasks[t].id,
                            contents |-> tasks[t].contents, from |-> names[from], fd |-> i,
                            alone |-> tasks[t].alone], {from, to})
        /\ UNCHANGED <<nextOp, whole>>

(***************************************************************************)
(* copy_delete_across_device: std::fs::copy opens the source and then the  *)
(* destination, as a write does.                                           *)
(***************************************************************************)
OpenCopy(t) ==
    LET from == tasks[t].req.path
        to == tasks[t].req.to
        i == InodeFor(t, to)
    IN  /\ MayCross
        /\ tasks[t].pc = "moving"
        /\ Exists(from)
        /\ names' = [names EXCEPT ![to] = i]
        /\ data' = [data EXCEPT ![i] = <<>>]
        /\ tainted' = IF InUse(t, i) THEN tainted \cup {i} ELSE tainted \ {i}
        /\ StepTouching(t, [pc |-> "copying", req |-> tasks[t].req, id |-> tasks[t].id,
                            contents |-> tasks[t].contents, from |-> names[from], fd |-> i,
                            alone |-> tasks[t].alone], {to})
        /\ UNCHANGED <<nextOp, whole>>

Copied(task) ==
    [pc |-> "copied", req |-> task.req, id |-> task.id, contents |-> task.contents,
     alone |-> task.alone]

\* The copy is as good as its source is at that moment.
CopyData(t) ==
    LET from == tasks[t].from
        to == tasks[t].fd
    IN  /\ tasks[t].pc = "copying"
        /\ data' = [data EXCEPT ![to] = Overlay(data[from], @)]
        /\ tainted' = IF from \in tainted \/ InUse(t, from) THEN tainted \cup {to} ELSE tainted
        /\ StepTouching(t, Copied(tasks[t]), NamesOf(to))
        /\ UNCHANGED <<names, nextOp, whole>>

\* The copy fails: a part of it stays, and so does the source.
CopyFails(t) ==
    /\ tasks[t].pc = "copying"
    /\ tainted' = tainted \cup {tasks[t].fd}
    /\ Step(t, Idle)
    /\ UNCHANGED <<names, data, nextOp, whole>>

\* The source is removed, whatever it is by now, or that fails.
RemoveSource(t) ==
    LET from == tasks[t].req.path
    IN  /\ tasks[t].pc = "copied"
        /\ \/ Refuse(t)
           \/ /\ Exists(from)
              /\ names' = [names EXCEPT ![from] = NoFile]
              /\ StepTouching(t, Idle, {from})
              /\ UNCHANGED <<data, nextOp, whole, tainted>>

-----------------------------------------------------------------------------

\* The inodes of files that are being written under their own names.
WrittenInPlace ==
    {tasks[t].fd : t \in {u \in Task : \/ tasks[u].pc = "copying"
                                       \/ tasks[u].pc = "opened" /\ tasks[u].req.op = "file_write"}}

\* The process dies, and is started again: files stay as they are.
Crash ==
    /\ tasks' = [t \in Task |-> Idle]
    /\ tainted' = tainted \cup WrittenInPlace
    /\ UNCHANGED <<names, data, nextOp, whole>>

Init ==
    /\ \E p \in Target : names = [n \in Name |-> IF n = p THEN 0 ELSE NoFile]
    /\ data = [i \in Inode |-> IF i = 0 THEN <<0>> ELSE <<>>]
    /\ tasks = [t \in Task |-> Idle]
    /\ nextOp = 1
    /\ whole = {<<0>>}
    /\ tainted = {}

Work(t) ==
    \/ ReadFile(t) \/ OpenFile(t) \/ WriteData(t) \/ WriteFails(t) \/ RenameTmp(t) \/ RemoveTmp(t)
    \/ DeleteFile(t)
    \/ CheckMove(t) \/ RemoveTarget(t) \/ RenameMove(t) \/ OpenCopy(t) \/ CopyData(t) \/ CopyFails(t)
    \/ RemoveSource(t)

Next ==
    \/ \E t \in Task : (\E req \in Requests : Call(t, req)) \/ Work(t)
    \/ Crash

Spec == Init /\ [][Next]_vars

-----------------------------------------------------------------------------

\* Some call is writing to the inode at this moment.
BeingWritten(i) ==
    \E t \in Task : tasks[t].pc \in {"opened", "copying"} /\ tasks[t].fd = i

(***************************************************************************)
(* What stands under a file's name is what some call meant to stand there, *)
(* whole: a crash or a failed write between any two steps, and temporary   *)
(* files they leave behind, never show.  Exempt are files that two calls   *)
(* have had a hand in, because they share the temporary name, and those    *)
(* file_write or a copy across file systems has not finished.              *)
(***************************************************************************)
WholeUnlessShared ==
    \A p \in Target :
        Exists(p) /\ names[p] \notin tainted /\ ~BeingWritten(names[p]) => ContentsOf(p) \in whole

(***************************************************************************)
(* No file ever exceeds the limit, even one that several calls have        *)
(* written at once, each having checked its own contents only.  (The calls *)
(* of file_write, which has no limit, do not ask for more here.)           *)
(***************************************************************************)
SizeBounded == \A n \in Name : Exists(n) => Len(ContentsOf(n)) <= MaxBytes

(***************************************************************************)
(* At whatever step a move is interrupted, the file it moves is there,     *)
(* under its old name or the new one, unless another call has changed one  *)
(* of the two.                                                             *)
(***************************************************************************)
MoveKeepsFile ==
    \A t \in Task : IsMove(tasks[t]) /\ tasks[t].alone =>
        \E n \in {tasks[t].req.path, tasks[t].req.to} :
            Exists(n) /\ ContentsOf(n) = tasks[t].contents

(***************************************************************************)
(* When a move comes to its rename nothing is in its way, unless another   *)
(* call has put it there since the check: only such a file is replaced     *)
(* without leave to overwrite.                                             *)
(***************************************************************************)
MoveFindsRoom ==
    \A t \in Task : tasks[t].pc = "moving" /\ tasks[t].alone => ~Exists(tasks[t].req.to)

(***************************************************************************)
(* README.md:887 says of write_file "tmp + rename atomic write" (and so    *)
(* 139, 871 and 896 of the other tools): what stands under a name would    *)
(* then always be what some call meant to stand there.                     *)
(***************************************************************************)
WritesAreAtomic == \A p \in Target : Exists(p) => ContentsOf(p) \in whole
=============================================================================
