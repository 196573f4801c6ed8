---------------------------- MODULE ServeProofs -----------------------------
(***************************************************************************)
(* The invariants of SessionStore, proved for every set of sessions and    *)
(* tasks, every limit, every idle time and every set of requests: types,   *)
(* the file and the store, expiry, the bound of histories, turns that are  *)
(* kept apart and have seen their past, and histories without holes.       *)
(*                                                                         *)
(* Then those of GracefulShutdown.  The way serve ends is a way to use the *)
(* store: every step of the lifecycle is a step of the store, or none, so  *)
(* that what is proved of the store holds to the end.  And a drained       *)
(* shutdown leaves nothing out of the file.                                *)
(***************************************************************************)
EXTENDS GracefulShutdown, SessionHistoryProofs

Store == [Session -> Record \cup {NoSession}]
File == [Session -> History \cup {NoSession}]

-----------------------------------------------------------------------------
(* Types of the operators on the store *)

LEMMA NewRecordType ==
    ASSUME TypeOK, NEW h \in History
    PROVE  NewRecord(h) \in Record /\ NewRecord(h) # NoSession
BY StoreAssumption DEF TypeOK, NewRecord, Record

LEMMA RecordIsSession ==
    ASSUME NEW mem \in Store, NEW s \in Session, mem[s] # NoSession
    PROVE  mem[s] \in Record
BY DEF Store

LEMMA LiveType ==
    ASSUME NEW mem \in Store, NEW at \in Nat
    PROVE  Live(mem, at) \in Store
BY DEF Live, Store

LEMMA ImageType ==
    ASSUME NEW mem \in Store
    PROVE  Image(mem) \in File
BY DEF Image, Store, File, Record

LEMMA FromImageType ==
    ASSUME TypeOK, NEW img \in File
    PROVE  FromImage(img) \in Store
<1>1. \A s \in Session : img[s] # NoSession => NewRecord(img[s]) \in Record
  BY NewRecordType DEF File
<1>2. QED
  BY <1>1 DEF FromImage, Store

LEMMA InsertType ==
    ASSUME TypeOK, NEW s \in Session, NEW h \in History
    PROVE  [sessions EXCEPT ![s] = NewRecord(h)] \in Store
BY NewRecordType DEF TypeOK, Store

LEMMA PersistType ==
    ASSUME TypeOK, NEW mem \in Store, Persist(mem)
    PROVE  disk' \in File /\ diskStale' \in BOOLEAN
BY ImageType, StoreAssumption DEF TypeOK, Persist, SaveSessions, File

LEMMA PurgeType ==
    ASSUME TypeOK, Purge
    PROVE  sessions' \in Store /\ disk' \in File /\ diskStale' \in BOOLEAN
<1>1. Live(sessions, now) \in Store
  BY LiveType DEF TypeOK, Store
<1>2. QED
  BY <1>1, PersistType DEF Purge, TypeOK, File

LEMMA EmptyStore == NoSessions \in Store /\ NoSessions \in File
BY DEF NoSessions, Store, File

LEMMA ArrivedTask ==
    ASSUME TypeOK, NEW t \in Task, tasks[t].pc = "arrived"
    PROVE  tasks[t] \in Arrived /\ tasks[t].req \in Requests /\ tasks[t].at \in Nat
BY DEF TypeOK, Idle, Arrived, Asking

LEMMA AskingTask ==
    ASSUME TypeOK, NEW t \in Task, tasks[t].pc = "asking"
    PROVE  /\ tasks[t].req \in Requests
           /\ tasks[t].at \in Nat
           /\ tasks[t].messages \in History
           /\ tasks[t].turn \in Turn
BY DEF TypeOK, Idle, Arrived, Asking

LEMMA RequestSession ==
    ASSUME NEW r \in Requests, r.op \notin {"list", "create"}
    PROVE  r.session \in Session
BY StoreAssumption

LEMMA IncomingType ==
    ASSUME NEW r \in Requests, NEW k \in Nat
    PROVE  Incoming(r, k) \in History /\ Len(Incoming(r, k)) = Len(r.roles)
<1>1. r.roles \in Seq(Role)
  BY StoreAssumption DEF Request
<1>2. Len(r.roles) \in Nat /\ DOMAIN r.roles = 1 .. Len(r.roles)
  BY <1>1, LenProperties
<1>3. \A i \in DOMAIN r.roles : r.roles[i] \in Role
  BY <1>1, <1>2, ElementOfSeq
<1>4. Incoming(r, k) \in [1 .. Len(r.roles) -> Message]
  BY <1>2, <1>3 DEF Incoming, Message
<1>5. QED
  BY <1>2, <1>4 DEF History

LEMMA ReplyType ==
    ASSUME TypeOK, NEW t \in Task, tasks[t].pc = "asking"
    PROVE  Reply(t) \in Message /\ Append(tasks[t].messages, Reply(t)) \in History
<1>1. Reply(t) \in Message
  BY AskingTask DEF Reply, Message, Role, Turn
<1>2. QED
  BY <1>1, AskingTask, AppendProperties DEF History

\* Whatever a chat asks the model with is a history.
LEMMA ContextType ==
    ASSUME TypeOK, NEW s \in Session, NEW r \in Requests, NEW k \in Nat,
           sessions[s] # NoSession
    PROVE  sessions[s].messages \o Incoming(r, k) \in History
<1>1. sessions[s].messages \in History
  BY RecordIsSession DEF TypeOK, Store, Record
<1>2. QED
  BY <1>1, IncomingType, ConcatProperties DEF History

-----------------------------------------------------------------------------
(* Type correctness *)

\* What a task may become keeps the types of tasks.
LEMMA TasksType ==
    ASSUME TypeOK, NEW t \in Task, NEW task \in {Idle} \cup Arrived \cup Asking
    PROVE  [tasks EXCEPT ![t] = task] \in [Task -> {Idle} \cup Arrived \cup Asking]
BY DEF TypeOK

LEMMA FinishType ==
    ASSUME TypeOK, NEW t \in Task, Finish(t)
    PROVE  tasks' \in [Task -> {Idle} \cup Arrived \cup Asking]
BY TasksType DEF Finish

\* TypeOK in the next state, from the types of the primed variables.
LEMMA TypeNext ==
    ASSUME sessions' \in Store, disk' \in File, diskStale' \in BOOLEAN,
           tasks' \in [Task -> {Idle} \cup Arrived \cup Asking],
           now' \in Nat, nextTurn' \in 1 .. MaxTurns + 1,
           seen' \in [Turn -> SUBSET Nat]
    PROVE  TypeOK'
BY DEF TypeOK, Store, File

LEMMA TypeNow ==
    ASSUME TypeOK
    PROVE  /\ sessions \in Store /\ disk \in File /\ diskStale \in BOOLEAN
           /\ tasks \in [Task -> {Idle} \cup Arrived \cup Asking]
           /\ now \in Nat /\ nextTurn \in 1 .. MaxTurns + 1
           /\ seen \in [Turn -> SUBSET Nat]
BY DEF TypeOK, Store, File

LEMMA ArriveType ==
    ASSUME TypeOK, NEW t \in Task, NEW req \in Requests, Arrive(t, req)
    PROVE  TypeOK'
<1> DEFINE task == [pc |-> "arrived", req |-> req, at |-> now]
<1>1. task \in Arrived
  BY TypeNow DEF Arrived
<1>2. tasks' \in [Task -> {Idle} \cup Arrived \cup Asking]
  BY <1>1, TasksType DEF Arrive
<1>3. QED
  BY <1>2, PurgeType, TypeNow, TypeNext DEF Arrive

LEMMA TurnsOfType ==
    ASSUME NEW h \in History
    PROVE  TurnsOf(h) \subseteq Nat
<1>1. \A i \in DOMAIN h : h[i] \in Message
  BY ElementOfSeq, LenProperties DEF History
<1>2. QED
  BY <1>1 DEF TurnsOf, Message

\* A chat leaves PrepareChat with a history to ask the model with.
LEMMA PrepareChatTask ==
    ASSUME TypeOK, NEW t \in Task, PrepareChat(t)
    PROVE  \E task \in Asking : /\ tasks' = [tasks EXCEPT ![t] = task]
                                /\ \/ FitsLimit(task.messages)
                                   \/ \E r \in Requests :
                                        /\ r.op = "chat" /\ r.session = task.req.session
                                        /\ task.messages = Incoming(r, task.turn)
<1> DEFINE req == tasks[t].req
           s == req.session
           incoming == Incoming(req, nextTurn)
           Asked(h, found) ==
               [pc |-> "asking", req |-> req, at |-> tasks[t].at,
                found |-> found, messages |-> h, turn |-> nextTurn]
<1>1. req \in Requests /\ tasks[t].at \in Nat /\ req.op = "chat"
  BY ArrivedTask DEF PrepareChat, Serving
<1>2. s \in Session /\ nextTurn \in Turn /\ nextTurn \in Nat
  <2>1. s \in Session
    BY <1>1, RequestSession
  <2>2. nextTurn \in 1 .. MaxTurns + 1 /\ nextTurn <= MaxTurns
    BY TypeNow DEF PrepareChat, TurnsLeft
  <2>3. QED
    BY <2>1, <2>2, StoreAssumption DEF Turn
<1>3. incoming \in History /\ Len(incoming) = Len(req.roles)
  BY <1>1, <1>2, IncomingType
<1>4. \A h \in History, found \in BOOLEAN : Asked(h, found) \in Asking
  BY <1>1, <1>2 DEF Asking
<1>5. CASE sessions[s] = NoSession /\ tasks' = [tasks EXCEPT ![t] = Asked(incoming, FALSE)]
  BY <1>1, <1>3, <1>4, <1>5
<1>6. CASE /\ sessions[s] # NoSession
           /\ \E h \in Compactions(sessions[s].messages \o incoming) :
                 tasks' = [tasks EXCEPT ![t] = Asked(h, TRUE)]
  <2>1. sessions[s].messages \o incoming \in History
    BY <1>1, <1>2, <1>6, ContextType
  <2>2. PICK h \in Compactions(sessions[s].messages \o incoming) :
            tasks' = [tasks EXCEPT ![t] = Asked(h, TRUE)]
    BY <1>6
  <2>3. h \in History /\ FitsLimit(h)
    BY <2>1, CompactionFits
  <2>4. Asked(h, TRUE) \in Asking /\ Asked(h, TRUE).messages = h
    BY <1>4, <2>3
  <2>5. QED
    BY <2>2, <2>3, <2>4
<1>7. QED
  BY <1>5, <1>6 DEF PrepareChat

LEMMA PrepareChatType ==
    ASSUME TypeOK, NEW t \in Task, PrepareChat(t)
    PROVE  TypeOK'
<1>1. tasks' \in [Task -> {Idle} \cup Arrived \cup Asking]
  BY PrepareChatTask, TasksType
<1>2. nextTurn' \in 1 .. MaxTurns + 1
  BY TypeNow, StoreAssumption DEF PrepareChat, TurnsLeft
<1>3. seen' \in [Turn -> SUBSET Nat]
  <2>1. HistoryOf(tasks[t].req.session) \in History
    <3>1. tasks[t].req.session \in Session
      BY ArrivedTask, RequestSession DEF PrepareChat, Serving
    <3>2. <<>> \in History
      BY EmptySeq DEF History
    <3>3. QED
      BY <3>1, <3>2, TypeNow, RecordIsSession DEF HistoryOf, Record
  <2>2. QED
    BY <2>1, TurnsOfType, TypeNow DEF PrepareChat
<1>4. QED
  BY <1>1, <1>2, <1>3, TypeNow, TypeNext DEF PrepareChat

\* Writing the reply, and what the store is afterwards.
LEMMA CommitChatType ==
    ASSUME TypeOK, NEW t \in Task, CommitChat(t)
    PROVE  TypeOK'
<1> DEFINE s == tasks[t].req.session
           mem == [sessions EXCEPT ![s] = NewRecord(Append(tasks[t].messages, Reply(t)))]
<1>1. tasks[t].pc = "asking"
  BY DEF CommitChat
<1>2. CASE s \in Session
  <2>1. mem \in Store
    BY <1>1, <1>2, ReplyType, InsertType
  <2>2. sessions' = mem /\ Persist(mem) /\ Finish(t)
    BY DEF CommitChat
  <2>3. disk' \in File /\ diskStale' \in BOOLEAN
    BY <2>1, <2>2, PersistType
  <2>4. QED
    BY <2>1, <2>2, <2>3, FinishType, TypeNow, TypeNext DEF CommitChat
<1>3. CASE s \notin Session
  <2>1. mem = sessions /\ mem \in Store
    BY <1>3 DEF TypeOK, Store
  <2>2. sessions' = mem /\ Persist(mem) /\ Finish(t)
    BY DEF CommitChat
  <2>3. disk' \in File /\ diskStale' \in BOOLEAN
    BY <2>1, <2>2, PersistType
  <2>4. QED
    BY <2>1, <2>2, <2>3, FinishType, TypeNow, TypeNext DEF CommitChat
<1>4. QED
  BY <1>2, <1>3

\* Reading handlers change idle times only.
LEMMA ReadersType ==
    ASSUME TypeOK, NEW t \in Task, ListSessions(t) \/ GetSession(t) \/ ExportSession(t)
    PROVE  TypeOK'
<1>1. \A s \in Session : sessions[s] # NoSession =>
          [sessions[s] EXCEPT !.last = now] \in Record
  BY TypeNow, RecordIsSession DEF Record
<1>2. sessions' \in Store
  <2>1. CASE ListSessions(t)
    BY <2>1, <1>1, TypeNow DEF ListSessions, Store
  <2>2. CASE GetSession(t)
    <3>1. tasks[t].req.session \in Session
      BY <2>2, ArrivedTask, RequestSession DEF GetSession, Serving
    <3>2. QED
      BY <2>2, <3>1, <1>1, TypeNow DEF GetSession, Store
  <2>3. CASE ExportSession(t)
    BY <2>3, TypeNow DEF ExportSession
  <2>4. QED
    BY <2>1, <2>2, <2>3
<1>3. Finish(t) /\ UNCHANGED <<disk, diskStale, now, nextTurn, seen>>
  BY DEF ListSessions, GetSession, ExportSession
<1>4. QED
  BY <1>2, <1>3, FinishType, TypeNow, TypeNext

LEMMA CreateSessionType ==
    ASSUME TypeOK, NEW t \in Task, CreateSession(t)
    PROVE  TypeOK'
<1>1. <<>> \in History
  BY EmptySeq DEF History
<1>2. sessions' \in Store
  BY <1>1, InsertType DEF CreateSession
<1>3. QED
  BY <1>2, FinishType, TypeNow, TypeNext DEF CreateSession

\* The map an import installs.
LEMMA ImportedStore ==
    ASSUME TypeOK, NEW t \in Task, Serving(t, "import"),
           nextTurn \in Nat
    PROVE  LET h == ImportCompaction(Incoming(tasks[t].req, nextTurn))
               s == tasks[t].req.session
           IN  /\ s \in Session
               /\ h \in History /\ FitsLimit(h)
               /\ [sessions EXCEPT ![s] = NewRecord(h)] \in Store
<1>1. tasks[t].req \in Requests /\ tasks[t].req.session \in Session
  BY ArrivedTask, RequestSession DEF Serving
<1>2. Incoming(tasks[t].req, nextTurn) \in History
  BY <1>1, IncomingType
<1>3. /\ ImportCompaction(Incoming(tasks[t].req, nextTurn)) \in History
      /\ FitsLimit(ImportCompaction(Incoming(tasks[t].req, nextTurn)))
  BY <1>2, CompactionFits
<1>4. QED
  BY <1>1, <1>3, InsertType

LEMMA ImportSessionType ==
    ASSUME TypeOK, NEW t \in Task, ImportSession(t)
    PROVE  TypeOK'
<1> DEFINE h == ImportCompaction(Incoming(tasks[t].req, nextTurn))
           mem == [sessions EXCEPT ![tasks[t].req.session] = NewRecord(h)]
<1>1. Serving(t, "import") /\ nextTurn \in Nat /\ nextTurn <= MaxTurns
  BY TypeNow, StoreAssumption DEF ImportSession, TurnsLeft
<1>2. mem \in Store
  BY <1>1, ImportedStore
<1>3. CASE sessions' = mem /\ Persist(mem) /\ nextTurn' = nextTurn + 1
  <2>1. disk' \in File /\ diskStale' \in BOOLEAN
    BY <1>2, <1>3, PersistType
  <2>2. nextTurn' \in 1 .. MaxTurns + 1
    BY <1>1, <1>3, TypeNow, StoreAssumption
  <2>3. QED
    BY <1>2, <1>3, <2>1, <2>2, FinishType, TypeNow, TypeNext DEF ImportSession
<1>4. CASE UNCHANGED <<sessions, disk, diskStale, nextTurn>>
  BY <1>4, FinishType, TypeNow, TypeNext DEF ImportSession
<1>5. QED
  BY <1>3, <1>4 DEF ImportSession

LEMMA DeleteSessionType ==
    ASSUME TypeOK, NEW t \in Task, DeleteSession(t)
    PROVE  TypeOK'
<1> DEFINE mem == [sessions EXCEPT ![tasks[t].req.session] = NoSession]
<1>1. mem \in Store
  BY TypeNow DEF Store
<1>2. disk' \in File /\ diskStale' \in BOOLEAN
  BY <1>1, PersistType, TypeNow DEF DeleteSession
<1>3. QED
  BY <1>1, <1>2, FinishType, TypeNow, TypeNext DEF DeleteSession

LEMMA RestartType ==
    ASSUME TypeOK, Restart
    PROVE  TypeOK'
<1>1. sessions' \in Store
  BY FromImageType, EmptyStore, TypeNow DEF Restart, LoadSessions
<1>2. diskStale' \in BOOLEAN
  BY StoreAssumption DEF Restart
<1>3. tasks' \in [Task -> {Idle} \cup Arrived \cup Asking]
  BY DEF Restart
<1>4. QED
  BY <1>1, <1>2, <1>3, TypeNow, TypeNext DEF Restart

(***************************************************************************)
(* Type correctness: no handler, purge, save or restart leaves the store,  *)
(* the file or a task in a shape the others do not expect.                 *)
(***************************************************************************)
THEOREM TypeCorrect == Spec => []TypeOK
<1>1. Init => TypeOK
  <2> SUFFICES ASSUME Init PROVE TypeOK
    OBVIOUS
  <2>2. 1 \in 1 .. MaxTurns + 1
    BY StoreAssumption
  <2>3. QED
    BY <2>2, EmptyStore DEF Init, TypeOK, Store, File
<1>2. TypeOK /\ [Next]_vars => TypeOK'
  <2> SUFFICES ASSUME TypeOK, [Next]_vars PROVE TypeOK'
    OBVIOUS
  <2>2. ASSUME NEW t \in Task, NEW req \in Requests, Arrive(t, req) PROVE TypeOK'
    BY <2>2, ArriveType
  <2>3. ASSUME NEW t \in Task, Handle(t) PROVE TypeOK'
    <3>1. CASE PrepareChat(t)
      BY <3>1, PrepareChatType
    <3>2. CASE CommitChat(t)
      BY <3>2, CommitChatType
    <3>3. CASE AbandonChat(t)
      BY <3>3, FinishType, TypeNow, TypeNext DEF AbandonChat
    <3>4. CASE ListSessions(t) \/ GetSession(t) \/ ExportSession(t)
      BY <3>4, ReadersType
    <3>5. CASE CreateSession(t)
      BY <3>5, CreateSessionType
    <3>6. CASE ImportSession(t)
      BY <3>6, ImportSessionType
    <3>7. CASE DeleteSession(t)
      BY <3>7, DeleteSessionType
    <3>8. QED
      BY <2>3, <3>1, <3>2, <3>3, <3>4, <3>5, <3>6, <3>7 DEF Handle
  <2>4. CASE SweepExpired
    BY <2>4, PurgeType, TypeNow, TypeNext DEF SweepExpired
  <2>5. CASE Tick
    BY <2>5, TypeNow, TypeNext DEF Tick
  <2>6. CASE Restart
    BY <2>6, RestartType
  <2>7. CASE Flush
    BY <2>7, PersistType, TypeNow, TypeNext DEF Flush
  <2>8. CASE UNCHANGED vars
    BY <2>8, TypeNow, TypeNext DEF vars
  <2>9. QED
    BY <2>2, <2>3, <2>4, <2>5, <2>6, <2>7, <2>8 DEF Next
<1>3. QED
  BY <1>1, <1>2, PTL DEF Spec

-----------------------------------------------------------------------------
(* The file and the store *)

\* A step that leaves the histories and the file alone.
LEMMA SameHistories ==
    ASSUME DiskMatchesMemory, Image(sessions') = Image(sessions),
           UNCHANGED <<disk, diskStale>>
    PROVE  DiskMatchesMemory'
BY DEF DiskMatchesMemory

\* A step that saves what it installs.
LEMMA SavedHistories ==
    ASSUME NEW mem, sessions' = mem, Persist(mem), PersistEnabled
    PROVE  DiskMatchesMemory'
BY DEF DiskMatchesMemory, Persist, SaveSessions

LEMMA PurgeKeepsMatch ==
    ASSUME DiskMatchesMemory, Purge
    PROVE  DiskMatchesMemory'
<1>1. CASE Live(sessions, now) = sessions
  <2>1. sessions' = sessions /\ UNCHANGED <<disk, diskStale>>
    BY <1>1 DEF Purge
  <2>2. QED
    BY <2>1, SameHistories
<1>2. CASE Live(sessions, now) # sessions
  <2>1. sessions' = Live(sessions, now) /\ Persist(Live(sessions, now))
    BY <1>2 DEF Purge
  <2>2. CASE PersistEnabled
    BY <2>1, <2>2, SavedHistories
  <2>3. CASE ~PersistEnabled
    BY <2>3 DEF DiskMatchesMemory
  <2>4. QED
    BY <2>2, <2>3
<1>3. QED
  BY <1>1, <1>2

\* A reader changes no history.
LEMMA ReadersKeepImage ==
    ASSUME TypeOK, NEW t \in Task, ListSessions(t) \/ GetSession(t) \/ ExportSession(t)
    PROVE  Image(sessions') = Image(sessions) /\ UNCHANGED <<disk, diskStale>>
<1>1. \A s \in Session : sessions[s] # NoSession =>
          /\ [sessions[s] EXCEPT !.last = now] # NoSession
          /\ [sessions[s] EXCEPT !.last = now].messages = sessions[s].messages
  BY TypeNow, RecordIsSession, StoreAssumption DEF Record
<1>2. sessions \in [Session -> Record \cup {NoSession}]
  BY DEF TypeOK
<1>3. CASE ListSessions(t)
  BY <1>1, <1>3 DEF ListSessions, Image
<1>4. CASE GetSession(t)
  <2>1. tasks[t].req.session \in Session
    BY <1>4, ArrivedTask, RequestSession DEF GetSession, Serving
  <2>2. CASE sessions[tasks[t].req.session] = NoSession
    BY <1>4, <2>2 DEF GetSession
  <2>3. CASE sessions[tasks[t].req.session] # NoSession
    <3>1. sessions' = [sessions EXCEPT ![tasks[t].req.session] =
                          [sessions[tasks[t].req.session] EXCEPT !.last = now]]
      BY <1>4, <2>3 DEF GetSession
    <3>2. QED
      BY <1>1, <1>2, <1>4, <2>1, <2>3, <3>1 DEF Image, GetSession
  <2>4. QED
    BY <2>2, <2>3
<1>5. CASE ExportSession(t)
  BY <1>5 DEF ExportSession
<1>6. QED
  BY <1>3, <1>4, <1>5

LEMMA CreateKeepsMatch ==
    ASSUME TypeOK, DiskMatchesMemory, NEW t \in Task, CreateSession(t)
    PROVE  DiskMatchesMemory'
<1>1. PICK s \in Session : Fresh(s) /\ sessions' = [sessions EXCEPT ![s] = NewRecord(<<>>)]
  BY DEF CreateSession
<1>2. <<>> \in History
  BY EmptySeq DEF History
<1>3. NewRecord(<<>>) # NoSession /\ NewRecord(<<>>).messages = <<>>
  BY <1>2, NewRecordType DEF NewRecord
<1>4. disk[s] = NoSession /\ UNCHANGED <<disk, diskStale>>
  BY <1>1 DEF Fresh, CreateSession
<1>5. \A u \in Session : Image(sessions')[u] = IF u = s THEN <<>> ELSE Image(sessions)[u]
  BY <1>1, <1>3, TypeNow DEF Image, Store
<1>6. QED
  BY <1>4, <1>5 DEF DiskMatchesMemory

\* What a start loads from a readable file is what the file holds.
LEMMA LoadedImage ==
    ASSUME TypeOK
    PROVE  Image(FromImage(disk)) = disk
<1>1. disk \in File
  BY TypeNow
<1>2. \A s \in Session : disk[s] # NoSession =>
          NewRecord(disk[s]) # NoSession /\ NewRecord(disk[s]).messages = disk[s]
  BY <1>1, NewRecordType DEF File, NewRecord
<1>3. QED
  BY <1>1, <1>2 DEF Image, FromImage, File

LEMMA RestartKeepsMatch ==
    ASSUME TypeOK, DiskMatchesMemory, Restart
    PROVE  DiskMatchesMemory'
<1>1. SUFFICES ASSUME PersistEnabled, ~diskStale'
               PROVE  Image(sessions') = disk'
  BY DEF DiskMatchesMemory
<1>2. sessions' = FromImage(disk) /\ disk' = disk
  BY <1>1, StoreAssumption DEF Restart, LoadSessions
<1>3. QED
  BY <1>2, LoadedImage

(***************************************************************************)
(* The file never falls behind the store except by a failed save, a failed *)
(* load, or a session created and not yet used.                            *)
(***************************************************************************)
THEOREM FileFollowsStore == Spec => []DiskMatchesMemory
<1>1. Init => DiskMatchesMemory
  BY DEF Init, DiskMatchesMemory, Image, NoSessions
<1>2. TypeOK /\ DiskMatchesMemory /\ [Next]_vars => DiskMatchesMemory'
  <2> SUFFICES ASSUME TypeOK, DiskMatchesMemory, [Next]_vars
               PROVE  DiskMatchesMemory'
    OBVIOUS
  <2>1. ASSUME NEW t \in Task, NEW req \in Requests, Arrive(t, req)
        PROVE  DiskMatchesMemory'
    BY <2>1, PurgeKeepsMatch DEF Arrive
  <2>2. ASSUME NEW t \in Task, Handle(t) PROVE DiskMatchesMemory'
    <3> DEFINE Saves(mem) == sessions' = mem /\ Persist(mem)
    <3>1. ASSUME NEW mem, Saves(mem) PROVE DiskMatchesMemory'
      <4>1. CASE PersistEnabled
        BY <3>1, <4>1, SavedHistories
      <4>2. CASE ~PersistEnabled
        BY <4>2 DEF DiskMatchesMemory
      <4>3. QED
        BY <4>1, <4>2
    <3>2. CASE PrepareChat(t) \/ AbandonChat(t)
      <4>1. UNCHANGED <<sessions, disk, diskStale>>
        BY <3>2 DEF PrepareChat, AbandonChat
      <4>2. QED
        BY <4>1, SameHistories
    <3>3. CASE CommitChat(t)
      BY <3>1, <3>3 DEF CommitChat
    <3>4. CASE ListSessions(t) \/ GetSession(t) \/ ExportSession(t)
      BY <3>4, ReadersKeepImage, SameHistories
    <3>5. CASE CreateSession(t)
      BY <3>5, CreateKeepsMatch
    <3>6. CASE ImportSession(t)
      <4>1. CASE UNCHANGED <<sessions, disk, diskStale, nextTurn>>
        BY <4>1, SameHistories
      <4>2. CASE \E mem : Saves(mem)
        BY <3>1, <4>2
      <4>3. QED
        BY <3>6, <4>1, <4>2 DEF ImportSession
    <3>7. CASE DeleteSession(t)
      <4>1. PICK mem : /\ sessions' = mem
                       /\ IF mem = sessions THEN UNCHANGED <<disk, diskStale>>
                          ELSE Persist(mem)
        BY <3>7 DEF DeleteSession
      <4>2. CASE mem = sessions
        BY <4>1, <4>2, SameHistories
      <4>3. CASE mem # sessions
        BY <3>1, <4>1, <4>3
      <4>4. QED
        BY <4>2, <4>3
    <3>8. QED
      BY <2>2, <3>2, <3>3, <3>4, <3>5, <3>6, <3>7 DEF Handle
  <2>3. CASE SweepExpired
    BY <2>3, PurgeKeepsMatch DEF SweepExpired
  <2>4. CASE Tick
    BY <2>4, SameHistories DEF Tick
  <2>5. CASE Restart
    BY <2>5, RestartKeepsMatch
  <2>6. CASE Flush
    <3>1. CASE PersistEnabled
      BY <2>6, <3>1, SavedHistories DEF Flush
    <3>2. CASE ~PersistEnabled
      BY <3>2 DEF DiskMatchesMemory
    <3>3. QED
      BY <3>1, <3>2
  <2>7. CASE UNCHANGED vars
    BY <2>7, SameHistories DEF vars
  <2>8. QED
    BY <2>1, <2>2, <2>3, <2>4, <2>5, <2>6, <2>7 DEF Next
<1>3. QED
  BY <1>1, <1>2, TypeCorrect, PTL DEF Spec

-----------------------------------------------------------------------------
(* Expired sessions *)

\* No request comes from the future: the clock only goes forward.
ArrivalsPast == \A t \in Task : tasks[t].pc = "arrived" => tasks[t].at <= now

\* A step that keeps, removes or touches every session.
KeepsOrTouches ==
    \A s \in Session : \/ sessions'[s] \in {sessions[s], NoSession}
                       \/ sessions'[s].last = now

\* A step after which no task waits for its turn that did not wait before.
NoArrival == \A t \in Task : tasks'[t].pc = "arrived" => tasks'[t] = tasks[t]

\* A session touched now has not expired for anyone who came before.
LEMMA TouchedIsLive ==
    ASSUME TypeOK, NEW r, r.last = now, NEW at \in Nat, at <= now
    PROVE  ~IsExpired(r, at)
BY StoreAssumption DEF TypeOK, IsExpired, SaturatingSub

LEMMA UnseenAfterWrite ==
    ASSUME TypeOK, ArrivalsPast, ExpiredUnseen, KeepsOrTouches, NoArrival, now' = now
    PROVE  ArrivalsPast' /\ ExpiredUnseen'
<1>1. ArrivalsPast'
  BY DEF ArrivalsPast, NoArrival
<1>2. ASSUME NEW t \in Task, tasks'[t].pc = "arrived",
             NEW s \in Session, sessions'[s] # NoSession
      PROVE  ~IsExpired(sessions'[s], tasks'[t].at)
  <2>1. tasks'[t] = tasks[t] /\ tasks[t].pc = "arrived"
    BY <1>2 DEF NoArrival
  <2>2. tasks[t].at \in Nat /\ tasks[t].at <= now
    BY <2>1, ArrivedTask DEF ArrivalsPast
  <2>3. CASE sessions'[s] = sessions[s]
    BY <1>2, <2>1, <2>3 DEF ExpiredUnseen
  <2>4. CASE sessions'[s].last = now
    BY <2>1, <2>2, <2>4, TouchedIsLive
  <2>5. QED
    BY <1>2, <2>3, <2>4 DEF KeepsOrTouches
<1>3. ExpiredUnseen'
  BY <1>2 DEF ExpiredUnseen, IsExpired
<1>4. QED
  BY <1>1, <1>3

LEMMA PurgeKeeps ==
    ASSUME Purge
    PROVE  \A s \in Session :
              \/ sessions'[s] = NoSession
              \/ sessions'[s] = sessions[s] /\ ~IsExpired(sessions[s], now)
BY DEF Purge, Live

LEMMA ArriveUnseen ==
    ASSUME TypeOK, ArrivalsPast, ExpiredUnseen,
           NEW t \in Task, NEW req \in Requests, Arrive(t, req)
    PROVE  ArrivalsPast' /\ ExpiredUnseen'
<1> DEFINE task == [pc |-> "arrived", req |-> req, at |-> now]
<1>1. tasks' = [tasks EXCEPT ![t] = task] /\ now' = now
  BY DEF Arrive
<1>2. \A u \in Task : tasks'[u] = IF u = t THEN task ELSE tasks[u]
  BY <1>1, TypeNow
<1>3. ArrivalsPast'
  BY <1>1, <1>2, TypeNow DEF ArrivalsPast
<1>4. \A s \in Session : \/ sessions'[s] = NoSession
                         \/ sessions'[s] = sessions[s] /\ ~IsExpired(sessions[s], now)
  BY PurgeKeeps DEF Arrive
<1>5. ASSUME NEW u \in Task, tasks'[u].pc = "arrived",
             NEW s \in Session, sessions'[s] # NoSession
      PROVE  ~IsExpired(sessions'[s], tasks'[u].at)
  <2>1. CASE u = t
    BY <1>2, <1>4, <1>5, <2>1
  <2>2. CASE u # t
    BY <1>2, <1>4, <1>5, <2>2 DEF ExpiredUnseen
  <2>3. QED
    BY <2>1, <2>2
<1>6. ExpiredUnseen'
  BY <1>5 DEF ExpiredUnseen, IsExpired
<1>7. QED
  BY <1>3, <1>6

\* Writing one record keeps the others.
LEMMA WriteTouches ==
    ASSUME TypeOK, NEW s \in Session, NEW h \in History,
           sessions' = [sessions EXCEPT ![s] = NewRecord(h)]
    PROVE  KeepsOrTouches
BY TypeNow DEF Store, NewRecord, KeepsOrTouches

\* A task that finishes waits for nothing.
LEMMA FinishNoArrival ==
    ASSUME TypeOK, NEW t \in Task, Finish(t)
    PROVE  NoArrival
BY TypeNow DEF Finish, NoArrival, Idle

LEMMA ReadersTouch ==
    ASSUME TypeOK, NEW t \in Task, ListSessions(t) \/ GetSession(t) \/ ExportSession(t)
    PROVE  KeepsOrTouches
<1>1. \A s \in Session : sessions[s] # NoSession =>
          [sessions[s] EXCEPT !.last = now].last = now
  BY TypeNow, RecordIsSession DEF Record
<1>2. sessions \in [Session -> Record \cup {NoSession}]
  BY DEF TypeOK
<1>3. CASE ListSessions(t)
  BY <1>1, <1>3 DEF ListSessions, KeepsOrTouches
<1>4. CASE GetSession(t)
  <2>1. CASE sessions' = sessions
    BY <2>1 DEF KeepsOrTouches
  <2>2. CASE /\ sessions[tasks[t].req.session] # NoSession
             /\ sessions' = [sessions EXCEPT ![tasks[t].req.session] =
                                [sessions[tasks[t].req.session] EXCEPT !.last = now]]
    BY <1>1, <1>2, <2>2 DEF KeepsOrTouches
  <2>3. QED
    BY <1>4, <2>1, <2>2 DEF GetSession
<1>5. CASE ExportSession(t)
  BY <1>5 DEF ExportSession, KeepsOrTouches
<1>6. QED
  BY <1>3, <1>4, <1>5

(***************************************************************************)
(* No handler ever works on a session that had expired when its request    *)
(* came: what the purge left had not, and whoever writes a session back    *)
(* before the handler takes the lock again touches it.                     *)
(***************************************************************************)
THEOREM ExpiredNeverServed == Spec => []ExpiredUnseen
<1> DEFINE IInv == ArrivalsPast /\ ExpiredUnseen
<1>1. Init => IInv
  BY DEF Init, ArrivalsPast, ExpiredUnseen, NoSessions, Idle
<1>2. TypeOK /\ IInv /\ [Next]_vars => IInv'
  <2> SUFFICES ASSUME TypeOK, ArrivalsPast, ExpiredUnseen, [Next]_vars
               PROVE  ArrivalsPast' /\ ExpiredUnseen'
    OBVIOUS
  <2>1. ASSUME NEW t \in Task, NEW req \in Requests, Arrive(t, req)
        PROVE  ArrivalsPast' /\ ExpiredUnseen'
    BY <2>1, ArriveUnseen
  <2>2. ASSUME NEW t \in Task, Handle(t) PROVE ArrivalsPast' /\ ExpiredUnseen'
    <3>1. CASE PrepareChat(t)
      <4>1. PICK task \in Asking : tasks' = [tasks EXCEPT ![t] = task]
        BY <3>1, PrepareChatTask
      <4>2. NoArrival
        BY <4>1, TypeNow DEF NoArrival, Asking
      <4>3. KeepsOrTouches /\ now' = now
        BY <3>1 DEF PrepareChat, KeepsOrTouches
      <4>4. QED
        BY <4>2, <4>3, UnseenAfterWrite
    <3>2. CASE ~PrepareChat(t)
      <4>1. Finish(t) /\ now' = now
        BY <2>2, <3>2 DEF Handle, CommitChat, AbandonChat, ListSessions, GetSession,
                          ExportSession, CreateSession, ImportSession, DeleteSession
      <4>2. KeepsOrTouches
        <5>1. CASE CommitChat(t)
          <6>1. tasks[t].pc = "asking"
            BY <5>1 DEF CommitChat
          <6>2. tasks[t].req \in Requests /\ Append(tasks[t].messages, Reply(t)) \in History
            BY <6>1, AskingTask, ReplyType
          <6>3. sessions' = [sessions EXCEPT ![tasks[t].req.session] =
                                NewRecord(Append(tasks[t].messages, Reply(t)))]
            BY <5>1 DEF CommitChat
          <6>4. CASE tasks[t].req.session \in Session
            BY <6>2, <6>3, <6>4, WriteTouches
          <6>5. CASE tasks[t].req.session \notin Session
            BY <6>3, <6>5, TypeNow DEF Store, KeepsOrTouches
          <6>6. QED
            BY <6>4, <6>5
        <5>2. CASE AbandonChat(t)
          BY <5>2 DEF AbandonChat, KeepsOrTouches
        <5>3. CASE ListSessions(t) \/ GetSession(t) \/ ExportSession(t)
          BY <5>3, ReadersTouch
        <5>4. CASE CreateSession(t)
          <6>1. <<>> \in History
            BY EmptySeq DEF History
          <6>2. QED
            BY <5>4, <6>1, WriteTouches DEF CreateSession
        <5>5. CASE ImportSession(t)
          <6>1. Serving(t, "import") /\ nextTurn \in Nat
            BY <5>5, TypeNow DEF ImportSession
          <6>2. CASE sessions' = sessions
            BY <6>2 DEF KeepsOrTouches
          <6>3. CASE sessions' # sessions
            BY <5>5, <6>1, <6>3, ImportedStore, WriteTouches DEF ImportSession
          <6>4. QED
            BY <6>2, <6>3
        <5>6. CASE DeleteSession(t)
          <6>1. sessions' = [sessions EXCEPT ![tasks[t].req.session] = NoSession]
            BY <5>6 DEF DeleteSession
          <6>2. QED
            BY <6>1, TypeNow DEF Store, KeepsOrTouches
        <5>7. QED
          BY <2>2, <3>2, <5>1, <5>2, <5>3, <5>4, <5>5, <5>6 DEF Handle
      <4>3. QED
        BY <4>1, <4>2, FinishNoArrival, UnseenAfterWrite
    <3>3. QED
      BY <3>1, <3>2
  <2>3. CASE SweepExpired
    <3>1. KeepsOrTouches /\ NoArrival /\ now' = now
      BY <2>3, PurgeKeeps DEF SweepExpired, KeepsOrTouches, NoArrival
    <3>2. QED
      BY <3>1, UnseenAfterWrite
  <2>4. CASE Tick
    BY <2>4, ArrivedTask, TypeNow DEF Tick, ArrivalsPast, ExpiredUnseen, IsExpired
  <2>5. CASE Restart
    BY <2>5 DEF Restart, ArrivalsPast, ExpiredUnseen, Idle
  <2>6. CASE Flush
    BY <2>6 DEF Flush, ArrivalsPast, ExpiredUnseen, IsExpired
  <2>7. CASE UNCHANGED vars
    BY <2>7 DEF vars, ArrivalsPast, ExpiredUnseen, IsExpired
  <2>8. QED
    BY <2>1, <2>2, <2>3, <2>4, <2>5, <2>6, <2>7 DEF Next
<1>3. IInv => ExpiredUnseen
  OBVIOUS
<1>4. QED
  BY <1>1, <1>2, <1>3, TypeCorrect, PTL DEF Spec

-----------------------------------------------------------------------------
(* What the histories of the store and of the file have in common *)

\* Every history that the store and the file hold for s is one of G[s].
KeptIn(G) ==
    \A s \in Session : /\ sessions[s] # NoSession => sessions[s].messages \in G[s]
                       /\ disk[s] # NoSession => disk[s] \in G[s]

\* Every history of the store and of the file is one of G.
StoredIn(G) ==
    \A s \in Session : /\ sessions[s] # NoSession => sessions[s].messages \in G
                       /\ disk[s] # NoSession => disk[s] \in G

\* A save leaves the file as it was or writes the map.
LEMMA SavedKept ==
    ASSUME NEW G, KeptIn(G), NEW mem \in Store,
           \A s \in Session : mem[s] # NoSession => mem[s].messages \in G[s],
           sessions' = mem, Persist(mem) \/ UNCHANGED disk
    PROVE  KeptIn(G)'
<1>1. \A s \in Session : disk'[s] # NoSession => disk'[s] \in G[s]
  BY DEF KeptIn, Persist, SaveSessions, Image
<1>2. QED
  BY <1>1 DEF KeptIn

\* A handler that writes a history of G[s].
LEMMA WriteKept ==
    ASSUME TypeOK, NEW G, KeptIn(G), NEW s, NEW h \in History,
           s \in Session => h \in G[s],
           sessions' = [sessions EXCEPT ![s] = NewRecord(h)],
           Persist(sessions') \/ UNCHANGED disk
    PROVE  KeptIn(G)'
<1>1. sessions' \in Store
  <2>1. CASE s \in Session
    BY <2>1, InsertType
  <2>2. CASE s \notin Session
    BY <2>2, TypeNow DEF Store
  <2>3. QED
    BY <2>1, <2>2
<1>2. \A u \in Session : sessions'[u] # NoSession => sessions'[u].messages \in G[u]
  BY TypeNow DEF KeptIn, Store, NewRecord
<1>3. QED
  BY <1>1, <1>2, SavedKept

\* A purge forgets histories, and writes none anew.
LEMMA PurgeKept ==
    ASSUME TypeOK, NEW G, KeptIn(G), Purge
    PROVE  KeptIn(G)'
<1> DEFINE kept == Live(sessions, now)
<1>1. kept \in Store /\ sessions' = kept /\ (Persist(kept) \/ UNCHANGED disk)
  BY LiveType, TypeNow DEF Purge
<1>2. \A s \in Session : kept[s] # NoSession => kept[s].messages \in G[s]
  BY DEF Live, KeptIn
<1>3. QED
  BY <1>1, <1>2, SavedKept

\* Reading handlers change no history.
LEMMA ReadersKept ==
    ASSUME TypeOK, NEW G, KeptIn(G), NEW t \in Task,
           ListSessions(t) \/ GetSession(t) \/ ExportSession(t)
    PROVE  KeptIn(G)'
<1>1. Image(sessions') = Image(sessions) /\ UNCHANGED <<disk, diskStale>>
  BY ReadersKeepImage
<1>2. sessions' \in Store
  BY ReadersType DEF TypeOK, Store
<1>3. ASSUME NEW s \in Session, sessions'[s] # NoSession
      PROVE  sessions[s] # NoSession /\ sessions'[s].messages = sessions[s].messages
  <2>1. Image(sessions')[s] = sessions'[s].messages
    BY <1>3 DEF Image
  <2>2. sessions'[s].messages \in History
    BY <1>2, <1>3, RecordIsSession DEF Record
  <2>3. Image(sessions)[s] # NoSession
    BY <1>1, <2>1, <2>2, StoreAssumption
  <2>4. QED
    BY <1>1, <2>1, <2>3 DEF Image
<1>4. QED
  BY <1>1, <1>3 DEF KeptIn

LEMMA DeleteKept ==
    ASSUME TypeOK, NEW G, KeptIn(G), NEW t \in Task, DeleteSession(t)
    PROVE  KeptIn(G)'
<1>1. /\ sessions' = [sessions EXCEPT ![tasks[t].req.session] = NoSession]
      /\ sessions' \in Store
  BY TypeNow DEF DeleteSession, Store
<1>2. \A s \in Session : sessions'[s] # NoSession => sessions'[s].messages \in G[s]
  BY <1>1, TypeNow DEF Store, KeptIn
<1>3. Persist(sessions') \/ UNCHANGED disk
  BY DEF DeleteSession
<1>4. QED
  BY <1>1, <1>2, <1>3, SavedKept

LEMMA RestartKept ==
    ASSUME NEW G, KeptIn(G), Restart
    PROVE  KeptIn(G)'
<1>1. \A s \in Session : FromImage(disk)[s] # NoSession =>
          disk[s] # NoSession /\ FromImage(disk)[s].messages = disk[s]
  BY DEF FromImage, NewRecord
<1>2. \A s \in Session : sessions'[s] # NoSession => sessions'[s].messages \in G[s]
  BY <1>1 DEF Restart, LoadSessions, KeptIn, NoSessions
<1>3. QED
  BY <1>2 DEF Restart, KeptIn

(***************************************************************************)
(* New histories come from a created session, from a commit and from an    *)
(* import, and from nowhere else: what holds of those holds of all that    *)
(* the store and the file ever hold, whatever fails or restarts.           *)
(***************************************************************************)
LEMMA KeptNext ==
    ASSUME TypeOK, [Next]_vars, NEW G, KeptIn(G),
           \A s \in Session : <<>> \in G[s],
           \A t \in Task : CommitChat(t) /\ tasks[t].req.session \in Session =>
                Append(tasks[t].messages, Reply(t)) \in G[tasks[t].req.session],
           \A t \in Task : /\ ImportSession(t) /\ nextTurn' = nextTurn + 1
                          /\ tasks[t].req.session \in Session =>
                ImportCompaction(Incoming(tasks[t].req, nextTurn)) \in G[tasks[t].req.session]
    PROVE  KeptIn(G)'
<1>1. ASSUME NEW t \in Task, NEW req \in Requests, Arrive(t, req)
      PROVE  KeptIn(G)'
  BY <1>1, PurgeKept DEF Arrive
<1>2. ASSUME NEW t \in Task, Handle(t) PROVE KeptIn(G)'
  <2>1. CASE PrepareChat(t) \/ AbandonChat(t)
    BY <2>1 DEF PrepareChat, AbandonChat, KeptIn
  <2>2. CASE CommitChat(t)
    <3>1. Append(tasks[t].messages, Reply(t)) \in History
      BY <2>2, ReplyType DEF CommitChat
    <3>2. /\ sessions' = [sessions EXCEPT ![tasks[t].req.session] =
                              NewRecord(Append(tasks[t].messages, Reply(t)))]
          /\ Persist(sessions')
      BY <2>2 DEF CommitChat
    <3>3. QED
      BY <2>2, <3>1, <3>2, WriteKept
  <2>3. CASE ListSessions(t) \/ GetSession(t) \/ ExportSession(t)
    BY <2>3, ReadersKept
  <2>4. CASE CreateSession(t)
    <3>1. <<>> \in History
      BY EmptySeq DEF History
    <3>2. QED
      BY <2>4, <3>1, WriteKept DEF CreateSession
  <2>5. CASE ImportSession(t)
    <3> DEFINE h == ImportCompaction(Incoming(tasks[t].req, nextTurn))
    <3>1. Serving(t, "import") /\ nextTurn \in Nat
      BY <2>5, TypeNow DEF ImportSession
    <3>2. h \in History
      BY <3>1, ImportedStore
    <3>3. CASE UNCHANGED <<sessions, disk, diskStale, nextTurn>>
      BY <3>3 DEF KeptIn
    <3>4. CASE /\ sessions' = [sessions EXCEPT ![tasks[t].req.session] = NewRecord(h)]
               /\ Persist(sessions') /\ nextTurn' = nextTurn + 1
      BY <2>5, <3>2, <3>4, WriteKept
    <3>5. QED
      BY <2>5, <3>3, <3>4 DEF ImportSession
  <2>6. CASE DeleteSession(t)
    BY <2>6, DeleteKept
  <2>7. QED
    BY <1>2, <2>1, <2>2, <2>3, <2>4, <2>5, <2>6 DEF Handle
<1>3. CASE SweepExpired
  BY <1>3, PurgeKept DEF SweepExpired
<1>4. CASE Flush
  <2>1. sessions \in Store /\ \A s \in Session :
            sessions[s] # NoSession => sessions[s].messages \in G[s]
    BY TypeNow DEF KeptIn
  <2>2. QED
    BY <1>4, <2>1, SavedKept DEF Flush
<1>5. CASE Restart
  BY <1>5, RestartKept
<1>6. CASE Tick \/ UNCHANGED vars
  BY <1>6 DEF Tick, vars, KeptIn
<1>7. QED
  BY <1>1, <1>2, <1>3, <1>4, <1>5, <1>6 DEF Next

\* The same, of the histories of all sessions at once.
LEMMA StoredNext ==
    ASSUME TypeOK, [Next]_vars, NEW G, StoredIn(G), <<>> \in G,
           \A t \in Task : CommitChat(t) => Append(tasks[t].messages, Reply(t)) \in G,
           \A t \in Task : ImportSession(t) /\ nextTurn' = nextTurn + 1 =>
                ImportCompaction(Incoming(tasks[t].req, nextTurn)) \in G
    PROVE  StoredIn(G)'
<1>1. PICK F : F = [s \in Session |-> G]
  OBVIOUS
<1>2. \A s \in Session : F[s] = G
  BY <1>1
<1>3. KeptIn(F)
  BY <1>2 DEF KeptIn, StoredIn
<1>4. KeptIn(F)'
  BY <1>2, <1>3, KeptNext
<1>5. QED
  BY <1>2, <1>4 DEF KeptIn, StoredIn

\* Only PrepareChat makes a task ask the model.
LEMMA AskingNext ==
    ASSUME TypeOK, [Next]_vars, NEW t \in Task, tasks'[t].pc = "asking"
    PROVE  tasks'[t] = tasks[t] \/ PrepareChat(t)
<1>1. ASSUME NEW u \in Task, NEW req \in Requests, Arrive(u, req)
      PROVE  tasks'[t] = tasks[t]
  BY <1>1, TypeNow DEF Arrive
<1>2. ASSUME NEW u \in Task, Handle(u)
      PROVE  tasks'[t] = tasks[t] \/ PrepareChat(t)
  <2>1. CASE PrepareChat(u)
    <3>1. PICK task \in Asking : tasks' = [tasks EXCEPT ![u] = task]
      BY <2>1, PrepareChatTask
    <3>2. QED
      BY <2>1, <3>1, TypeNow
  <2>2. CASE ~PrepareChat(u)
    <3>1. tasks' = [tasks EXCEPT ![u] = Idle]
      BY <1>2, <2>2 DEF Handle, CommitChat, AbandonChat, ListSessions, GetSession,
             ExportSession, CreateSession, ImportSession, DeleteSession, Finish
    <3>2. QED
      BY <3>1, TypeNow DEF Idle
  <2>3. QED
    BY <2>1, <2>2
<1>3. CASE SweepExpired \/ Flush \/ Tick \/ UNCHANGED vars
  BY <1>3 DEF SweepExpired, Flush, Tick, vars
<1>4. CASE Restart
  BY <1>4 DEF Restart, Idle
<1>5. QED
  BY <1>1, <1>2, <1>3, <1>4 DEF Next

-----------------------------------------------------------------------------
(* The length of histories *)

\* What a chat of session s may ask the model with: it fits, or it is the
\* request, and the chat found no session.
Askable(s, turn, h) ==
    \/ FitsLimit(h)
    \/ \E r \in Requests : r.op = "chat" /\ r.session = s /\ h = Incoming(r, turn)

BoundedHistories == [s \in Session |-> {h \in History : Bounded(s, h)}]

\* Every history is bounded: in the store, in the file, and in a chat.
HistoriesBounded ==
    /\ KeptIn(BoundedHistories)
    /\ \A t \in Task : tasks[t].pc = "asking" =>
          Askable(tasks[t].req.session, tasks[t].turn, tasks[t].messages)

\* A reply adds one message, and hides no system message.
LEMMA ReplyIsBounded ==
    ASSUME NEW s \in Session, NEW turn \in Turn, NEW h \in History, Askable(s, turn, h)
    PROVE  Bounded(s, Append(h, [role |-> "assistant", turn |-> turn]))
<1> DEFINE m == [role |-> "assistant", turn |-> turn]
           longer == Append(h, m)
<1>1. m \in Message
  BY StoreAssumption DEF Message, Role, Turn
<1>2. CASE \E r \in Requests : r.op = "chat" /\ r.session = s /\ h = Incoming(r, turn)
  BY <1>2 DEF Bounded, FirstStored
<1>3. CASE FitsLimit(h)
  <2> HIDE DEF m
  <2>1. longer \in History /\ Len(longer) = Len(h) + 1 /\ Len(h) \in Nat
    BY <1>1, AppendProperties, LenProperties DEF History
  <2>2. \A i \in 1 .. Len(h) : longer[i] = h[i]
    BY <1>1, AppendProperties DEF History
  <2>3. DOMAIN h = 1 .. Len(h) /\ DOMAIN longer = 1 .. Len(h) + 1
    BY <2>1, LenProperties DEF History
  <2>4. SystemPositions(h) \subseteq SystemPositions(longer)
    BY <2>1, <2>2, <2>3 DEF SystemPositions
  <2>5. SystemPositions(longer) \in SUBSET (1 .. Len(longer)) /\ Len(longer) \in Nat
    BY <2>1, <2>3 DEF SystemPositions
  <2> HIDE DEF longer
  <2>6. IsFiniteSet(SystemPositions(longer)) /\ Cardinality(SystemPositions(longer)) \in Nat
    BY <2>5, PositionsFinite
  <2>7. /\ Cardinality(SystemPositions(h)) \in Nat
        /\ Cardinality(SystemPositions(h)) <= Cardinality(SystemPositions(longer))
    BY <2>4, <2>6, FS_Subset, FS_CardinalityType
  <2>8. Bounded(s, longer)
    BY <1>3, <2>1, <2>6, <2>7, HistoryAssumption DEF FitsLimit, Bounded
  <2>9. QED
    BY <2>8 DEF longer, m
<1>4. QED
  BY <1>2, <1>3 DEF Askable

LEMMA FitsIsBounded ==
    ASSUME NEW s, NEW h \in History, FitsLimit(h)
    PROVE  Bounded(s, h)
<1>1. DOMAIN h = 1 .. Len(h) /\ Len(h) \in Nat
  BY LenProperties DEF History
<1>2. SystemPositions(h) \in SUBSET (1 .. Len(h))
  BY <1>1 DEF SystemPositions
<1>3. Cardinality(SystemPositions(h)) \in Nat
  BY <1>1, <1>2, PositionsFinite
<1>4. QED
  BY <1>1, <1>3, HistoryAssumption DEF FitsLimit, Bounded

\* An empty history is within every limit.
LEMMA EmptyIsBounded == <<>> \in History /\ \A s : Bounded(s, <<>>)
<1>1. <<>> \in History /\ Len(<<>>) = 0
  BY EmptySeq DEF History
<1>2. QED
  BY <1>1, HistoryAssumption DEF Bounded

(***************************************************************************)
(* Every stored history stays within the limit, but for one reply, the     *)
(* request that created its session, and system messages: however many     *)
(* chats overlap, fail or follow a restart, their additions never pile up. *)
(***************************************************************************)
THEOREM HistoriesStayBounded == Spec => []HistoryIsBounded
<1>1. Init => HistoriesBounded
  BY DEF Init, HistoriesBounded, KeptIn, NoSessions, Idle
<1>2. TypeOK /\ HistoriesBounded /\ [Next]_vars => HistoriesBounded'
  <2> SUFFICES ASSUME TypeOK, HistoriesBounded, [Next]_vars
               PROVE  HistoriesBounded'
    OBVIOUS
  <2>1. ASSUME NEW t \in Task, CommitChat(t), tasks[t].req.session \in Session
        PROVE  Append(tasks[t].messages, Reply(t)) \in BoundedHistories[tasks[t].req.session]
    <3> DEFINE s == tasks[t].req.session
               longer == Append(tasks[t].messages, Reply(t))
    <3>1. tasks[t].pc = "asking" /\ Askable(s, tasks[t].turn, tasks[t].messages)
      BY <2>1 DEF CommitChat, HistoriesBounded
    <3>2. longer \in History /\ tasks[t].messages \in History /\ tasks[t].turn \in Turn
      BY <3>1, ReplyType, AskingTask
    <3>3. Bounded(s, longer)
      BY <2>1, <3>1, <3>2, ReplyIsBounded DEF Reply
    <3> HIDE DEF longer
    <3>4. longer \in BoundedHistories[s]
      BY <2>1, <3>2, <3>3 DEF BoundedHistories
    <3>5. QED
      BY <3>4 DEF longer
  <2>2. ASSUME NEW t \in Task, ImportSession(t), tasks[t].req.session \in Session
        PROVE  ImportCompaction(Incoming(tasks[t].req, nextTurn))
                   \in BoundedHistories[tasks[t].req.session]
    <3>1. Serving(t, "import") /\ nextTurn \in Nat
      BY <2>2, TypeNow DEF ImportSession
    <3> DEFINE h == ImportCompaction(Incoming(tasks[t].req, nextTurn))
    <3>2. h \in History /\ FitsLimit(h)
      BY <3>1, ImportedStore
    <3> HIDE DEF h
    <3>3. h \in BoundedHistories[tasks[t].req.session]
      BY <2>2, <3>2, FitsIsBounded DEF BoundedHistories
    <3>4. QED
      BY <3>3 DEF h
  <2>3. KeptIn(BoundedHistories)'
    <3>1. KeptIn(BoundedHistories) /\ \A s \in Session : <<>> \in BoundedHistories[s]
      BY EmptyIsBounded DEF BoundedHistories, HistoriesBounded
    <3>2. QED
      BY <2>1, <2>2, <3>1, KeptNext
  <2>4. ASSUME NEW t \in Task, tasks'[t].pc = "asking"
        PROVE  Askable(tasks'[t].req.session, tasks'[t].turn, tasks'[t].messages)
    <3>1. CASE tasks'[t] = tasks[t]
      BY <2>4, <3>1 DEF HistoriesBounded
    <3>2. CASE PrepareChat(t)
      BY <3>2, PrepareChatTask, TypeNow DEF Askable
    <3>3. QED
      BY <2>4, <3>1, <3>2, AskingNext
  <2>5. QED
    BY <2>3, <2>4 DEF HistoriesBounded, Askable
<1>3. TypeOK /\ HistoriesBounded => HistoryIsBounded
  BY EmptyIsBounded DEF HistoriesBounded, KeptIn, BoundedHistories, HistoryIsBounded, HistoryOf
<1>4. QED
  BY <1>1, <1>2, <1>3, TypeCorrect, PTL DEF Spec

-----------------------------------------------------------------------------
(* The turns of a history *)

\* What follows in a conversation when a message is added to its history.
LEMMA AppendConversation ==
    ASSUME NEW h \in History, NEW m \in Message, ~IsSystem(m)
    PROVE  LET longer == Append(h, m)
           IN  /\ Conversation(longer) = Conversation(h) \cup {Len(h) + 1}
               /\ longer[Len(h) + 1] = m
               /\ \A i \in Conversation(h) : longer[i] = h[i]
               /\ \A i \in Conversation(h) : i \in Nat /\ i < Len(h) + 1
               /\ Len(h) \in Nat
<1> DEFINE longer == Append(h, m)
<1>1. /\ longer \in Seq(Message) /\ Len(longer) = Len(h) + 1 /\ Len(h) \in Nat
      /\ \A i \in 1 .. Len(h) : longer[i] = h[i]
      /\ longer[Len(h) + 1] = m
  BY AppendProperties, LenProperties DEF History
<1>2. DOMAIN longer = 1 .. Len(h) + 1 /\ DOMAIN h = 1 .. Len(h)
  BY <1>1, LenProperties DEF History
<1> HIDE DEF longer
<1>3. \A i \in 1 .. Len(h) : i \in Conversation(longer) <=> i \in Conversation(h)
  BY <1>1, <1>2 DEF Conversation, SystemPositions
<1>4. Len(h) + 1 \in Conversation(longer)
  BY <1>1, <1>2 DEF Conversation, SystemPositions
<1>5. \A i \in Conversation(longer) : i \in 1 .. Len(h) \/ i = Len(h) + 1
  BY <1>1, <1>2 DEF Conversation
<1>6. \A i \in Conversation(h) : i \in 1 .. Len(h)
  BY <1>2 DEF Conversation
<1>7. Conversation(longer) = Conversation(h) \cup {Len(h) + 1}
  BY <1>3, <1>4, <1>5, <1>6
<1>8. QED
  BY <1>1, <1>6, <1>7 DEF longer

\* What a request adds to a conversation.
LEMMA ConcatConversation ==
    ASSUME NEW h \in History, NEW g \in History
    PROVE  LET longer == h \o g
           IN  /\ longer \in History
               /\ \A i \in Conversation(longer) :
                     \/ i \in Conversation(h) /\ longer[i] = h[i]
                     \/ /\ i - Len(h) \in Conversation(g)
                        /\ longer[i] = g[i - Len(h)]
                        /\ i \in Nat /\ Len(h) < i
               /\ \A i \in Conversation(h) : i \in Conversation(longer) /\ longer[i] = h[i]
               /\ \A i \in Conversation(g) : Len(h) + i \in Conversation(longer)
               /\ \A i \in Conversation(h) : i \in Nat /\ i <= Len(h)
               /\ \A i \in Conversation(g) : i \in Nat
               /\ Len(h) \in Nat
<1> DEFINE longer == h \o g
<1>1. /\ longer \in Seq(Message) /\ Len(longer) = Len(h) + Len(g)
      /\ \A i \in 1 .. Len(h) + Len(g) :
            longer[i] = IF i <= Len(h) THEN h[i] ELSE g[i - Len(h)]
  BY ConcatProperties DEF History
<1>2. /\ DOMAIN longer = 1 .. Len(h) + Len(g)
      /\ DOMAIN h = 1 .. Len(h) /\ DOMAIN g = 1 .. Len(g)
      /\ Len(h) \in Nat /\ Len(g) \in Nat
  BY <1>1, LenProperties DEF History
<1> HIDE DEF longer
<1>3. ASSUME NEW i \in 1 .. Len(h)
      PROVE  longer[i] = h[i] /\ (i \in Conversation(longer) <=> i \in Conversation(h))
  <2>1. i \in DOMAIN longer /\ i \in DOMAIN h /\ longer[i] = h[i]
    BY <1>1, <1>2
  <2>2. QED
    BY <2>1 DEF Conversation, SystemPositions
<1>4. ASSUME NEW i \in 1 .. Len(g)
      PROVE  /\ longer[Len(h) + i] = g[i]
             /\ Len(h) + i \in Conversation(longer) <=> i \in Conversation(g)
  <2>1. Len(h) + i \in 1 .. Len(h) + Len(g) /\ ~(Len(h) + i <= Len(h)) /\ (Len(h) + i) - Len(h) = i
    BY <1>2
  <2>2. longer[Len(h) + i] = g[i]
    BY <1>1, <2>1
  <2>3. QED
    BY <1>2, <2>1, <2>2 DEF Conversation, SystemPositions
<1>5. /\ \A i \in Conversation(h) : i \in 1 .. Len(h)
      /\ \A i \in Conversation(g) : i \in 1 .. Len(g)
      /\ \A i \in Conversation(longer) : i \in 1 .. Len(h) + Len(g)
  BY <1>2 DEF Conversation
<1>6. ASSUME NEW i \in Conversation(longer)
      PROVE  \/ i \in Conversation(h) /\ longer[i] = h[i]
             \/ /\ i - Len(h) \in Conversation(g)
                /\ longer[i] = g[i - Len(h)]
                /\ i \in Nat /\ Len(h) < i
  <2>1. CASE i \in 1 .. Len(h)
    BY <1>3, <2>1
  <2>2. CASE i \notin 1 .. Len(h)
    <3>1. i - Len(h) \in 1 .. Len(g) /\ Len(h) + (i - Len(h)) = i /\ i \in Nat /\ Len(h) < i
      BY <1>2, <1>5, <2>2
    <3>2. QED
      BY <1>4, <3>1
  <2>3. QED
    BY <2>1, <2>2
<1>7. longer \in History
  BY <1>1 DEF History
<1>8. QED
  BY <1>2, <1>3, <1>4, <1>5, <1>6, <1>7 DEF longer

(***************************************************************************)
(* Where a chat leaves its copy: what stays of the conversation and of the *)
(* request is its newest part, and the reply will be of the chat's turn.   *)
(***************************************************************************)
LEMMA PrepareChatKeeps ==
    ASSUME TypeOK, NEW t \in Task, PrepareChat(t)
    PROVE  LET req == tasks[t].req
               h == HistoryOf(req.session)
           IN  /\ req \in Requests /\ req.op = "chat" /\ req.session \in Session
               /\ h \in History /\ nextTurn \in Turn
               /\ Incoming(req, nextTurn) \in History
               /\ tasks'[t].messages \in History /\ tasks'[t].turn = nextTurn
               /\ KeepsNewest(h \o Incoming(req, nextTurn), tasks'[t].messages)
               /\ seen' = [seen EXCEPT ![nextTurn] = TurnsOf(h)]
               /\ nextTurn' = nextTurn + 1
<1> DEFINE req == tasks[t].req
           s == req.session
           h == HistoryOf(s)
           incoming == Incoming(req, nextTurn)
           Asked(c, found) ==
               [pc |-> "asking", req |-> req, at |-> tasks[t].at,
                found |-> found, messages |-> c, turn |-> nextTurn]
<1>1. req \in Requests /\ req.op = "chat"
  BY ArrivedTask DEF PrepareChat, Serving
<1>2. s \in Session /\ nextTurn \in Turn /\ nextTurn \in Nat
  <2>1. s \in Session
    BY <1>1, RequestSession
  <2>2. nextTurn \in 1 .. MaxTurns + 1 /\ nextTurn <= MaxTurns
    BY TypeNow DEF PrepareChat, TurnsLeft
  <2>3. QED
    BY <2>1, <2>2, StoreAssumption DEF Turn
<1>3. incoming \in History
  BY <1>1, <1>2, IncomingType
<1>4. h \in History
  <2>1. <<>> \in History
    BY EmptySeq DEF History
  <2>2. QED
    BY <1>2, <2>1, TypeNow, RecordIsSession DEF HistoryOf, Record
<1>5. h \o incoming \in History
  BY <1>3, <1>4, ConcatProperties DEF History
<1>6. \E c \in History, found \in BOOLEAN : /\ KeepsNewest(h \o incoming, c)
                                            /\ tasks' = [tasks EXCEPT ![t] = Asked(c, found)]
  <2>1. CASE sessions[s] = NoSession /\ tasks' = [tasks EXCEPT ![t] = Asked(incoming, FALSE)]
    <3>1. h \o incoming = incoming
      BY <1>3, <2>1, ConcatEmptySeq DEF HistoryOf, History
    <3>2. KeepsNewest(h \o incoming, incoming)
      BY <1>3, <3>1, KeepsItself
    <3>3. QED
      BY <1>3, <2>1, <3>2
  <2>2. CASE /\ sessions[s] # NoSession
             /\ \E c \in Compactions(sessions[s].messages \o incoming) :
                   tasks' = [tasks EXCEPT ![t] = Asked(c, TRUE)]
    <3>1. h = sessions[s].messages
      BY <2>2 DEF HistoryOf
    <3>2. PICK c \in Compactions(h \o incoming) : tasks' = [tasks EXCEPT ![t] = Asked(c, TRUE)]
      BY <2>2, <3>1
    <3>3. c \in History /\ KeepsNewest(h \o incoming, c)
      BY <1>5, <3>2, CompactionFits, CompactionKeepsNewest
    <3>4. QED
      BY <3>2, <3>3
  <2>3. QED
    BY <2>1, <2>2 DEF PrepareChat
<1>7. PICK c \in History, found \in BOOLEAN :
          KeepsNewest(h \o incoming, c) /\ tasks' = [tasks EXCEPT ![t] = Asked(c, found)]
  BY <1>6
<1>8. tasks'[t] = Asked(c, found)
  BY <1>7, TypeNow
<1>9. tasks'[t].messages = c /\ tasks'[t].turn = nextTurn
  BY <1>8
<1>10. seen' = [seen EXCEPT ![nextTurn] = TurnsOf(h)] /\ nextTurn' = nextTurn + 1
  BY DEF PrepareChat
<1>11. QED
  BY <1>1, <1>2, <1>3, <1>4, <1>7, <1>9, <1>10

-----------------------------------------------------------------------------
(* Questions and replies *)

\* What a reply follows in the conversation is of its own turn.
Paired(h) ==
    \A i, j \in Conversation(h) :
        /\ i < j
        /\ h[j].role = "assistant"
        /\ \A k \in Conversation(h) : ~(i < k /\ k < j)
        => h[i].turn = h[j].turn

\* A conversation that ends with the given turn.
EndsWith(h, turn) ==
    \A i \in Conversation(h) : (\A k \in Conversation(h) : k <= i) => h[i].turn = turn

PairedHistories == {h \in History : Paired(h)}

\* Every reply follows its question: in the store, in the file, and in a
\* chat, whose copy waits for its own reply.
RepliesFollow ==
    /\ StoredIn(PairedHistories)
    /\ \A t \in Task : tasks[t].pc = "asking" =>
          Paired(tasks[t].messages) /\ EndsWith(tasks[t].messages, tasks[t].turn)

\* The positions of a conversation are numbers.
LEMMA ConversationPositions ==
    ASSUME NEW h \in History
    PROVE  \A i \in Conversation(h) : i \in Nat /\ h[i] \in Message
<1>1. DOMAIN h = 1 .. Len(h) /\ \A i \in 1 .. Len(h) : h[i] \in Message
  BY LenProperties, ElementOfSeq DEF History
<1>2. QED
  BY <1>1 DEF Conversation

\* The newest part of a conversation pairs what the conversation pairs.
LEMMA NewestIsPaired ==
    ASSUME NEW h \in History, NEW c \in History, KeepsNewest(h, c)
    PROVE  /\ Paired(h) => Paired(c)
           /\ \A k : EndsWith(h, k) => EndsWith(c, k)
<1>1. PICK from \in [Conversation(c) -> Conversation(h)] :
          /\ \A p \in Conversation(c) : c[p] = h[from[p]]
          /\ \A p, q \in Conversation(c) : p < q => from[p] < from[q]
          /\ \A p \in Conversation(c), r \in Conversation(h) :
                from[p] < r => \E q \in Conversation(c) : from[q] = r
  BY DEF KeepsNewest
<1>2. /\ \A p \in Conversation(c) : p \in Nat
      /\ \A r \in Conversation(h) : r \in Nat
      /\ \A p \in Conversation(c) : from[p] \in Conversation(h) /\ from[p] \in Nat
  BY ConversationPositions
<1>3. \A p, q \in Conversation(c) : from[p] < from[q] => p < q
  BY <1>1, <1>2
<1>4. ASSUME Paired(h), NEW p \in Conversation(c), NEW q \in Conversation(c), p < q,
             c[q].role = "assistant",
             \A k \in Conversation(c) : ~(p < k /\ k < q)
      PROVE  c[p].turn = c[q].turn
  <2>1. from[p] < from[q] /\ h[from[q]].role = "assistant"
    BY <1>1, <1>4
  <2>2. ASSUME NEW r \in Conversation(h), from[p] < r, r < from[q] PROVE FALSE
    <3>1. PICK k \in Conversation(c) : from[k] = r
      BY <1>1, <2>2
    <3>2. p < k /\ k < q
      BY <1>3, <2>2, <3>1
    <3>3. QED
      BY <1>4, <3>2
  <2>3. h[from[p]].turn = h[from[q]].turn
    BY <1>2, <1>4, <2>1, <2>2 DEF Paired
  <2>4. QED
    BY <1>1, <2>3
<1>5. ASSUME NEW k, EndsWith(h, k), NEW p \in Conversation(c),
             \A q \in Conversation(c) : q <= p
      PROVE  c[p].turn = k
  <2>1. ASSUME NEW r \in Conversation(h) PROVE r <= from[p]
    <3>1. SUFFICES ASSUME from[p] < r PROVE FALSE
      BY <1>2
    <3>2. PICK q \in Conversation(c) : from[q] = r
      BY <1>1, <3>1
    <3>3. p < q
      BY <1>3, <3>1, <3>2
    <3>4. QED
      BY <1>2, <1>5, <3>3
  <2>2. h[from[p]].turn = k
    BY <1>2, <1>5, <2>1 DEF EndsWith
  <2>3. QED
    BY <1>1, <2>2
<1>6. Paired(h) => Paired(c)
  BY <1>4 DEF Paired
<1>7. QED
  BY <1>5, <1>6 DEF EndsWith

\* The messages of a request are all of one turn.
LEMMA IncomingTurns ==
    ASSUME NEW r \in Requests, NEW k \in Nat
    PROVE  /\ DOMAIN Incoming(r, k) = DOMAIN r.roles
           /\ \A i \in DOMAIN r.roles : /\ Incoming(r, k)[i].turn = k
                                        /\ Incoming(r, k)[i].role = r.roles[i]
BY DEF Incoming

\* A question that follows a conversation pairs its own replies.
LEMMA QuestionIsPaired ==
    ASSUME NEW h \in History, Paired(h), NEW r \in Requests, AsksQuestion(r), NEW k \in Nat
    PROVE  Paired(h \o Incoming(r, k)) /\ EndsWith(h \o Incoming(r, k), k)
<1> DEFINE g == Incoming(r, k)
           longer == h \o g
<1>1. g \in History
  BY IncomingType
<1>2. /\ \A i \in Conversation(longer) :
            \/ i \in Conversation(h) /\ longer[i] = h[i]
            \/ /\ i - Len(h) \in Conversation(g)
               /\ longer[i] = g[i - Len(h)]
               /\ i \in Nat /\ Len(h) < i
      /\ \A i \in Conversation(h) : i \in Conversation(longer) /\ longer[i] = h[i]
      /\ \A i \in Conversation(g) : Len(h) + i \in Conversation(longer)
      /\ \A i \in Conversation(h) : i \in Nat /\ i <= Len(h)
      /\ \A i \in Conversation(g) : i \in Nat
      /\ Len(h) \in Nat
  BY <1>1, ConcatConversation
<1>3. /\ DOMAIN g = DOMAIN r.roles
      /\ \A i \in DOMAIN g : g[i].turn = k /\ g[i].role = r.roles[i]
  BY IncomingTurns
<1>4. PICK first \in DOMAIN g :
          /\ g[first].role = "user"
          /\ \A j \in DOMAIN g : g[j].role = "assistant" => first < j
  BY <1>3 DEF AsksQuestion
<1>5. /\ first \in Conversation(g)
      /\ \A i \in Conversation(g) : i \in DOMAIN g /\ g[i].turn = k
  BY <1>3, <1>4 DEF Conversation, SystemPositions, IsSystem
<1> HIDE DEF g, longer
<1>6. /\ Len(h) + first \in Conversation(longer)
      /\ \A i \in Conversation(h) : i < Len(h) + first
      /\ first \in Nat
  <2>1. first \in Nat /\ first # 0
    BY <1>1, <1>4, LenProperties DEF History
  <2>2. QED
    BY <1>2, <1>5, <2>1
<1>7. ASSUME NEW i \in Conversation(longer), NEW j \in Conversation(longer), i < j,
             longer[j].role = "assistant",
             \A m \in Conversation(longer) : ~(i < m /\ m < j)
      PROVE  longer[i].turn = longer[j].turn
  <2>1. CASE j \in Conversation(h) /\ longer[j] = h[j]
    <3>1. i \in Conversation(h) /\ longer[i] = h[i]
      BY <1>2, <1>7, <2>1
    <3>2. QED
      BY <1>2, <1>7, <2>1, <3>1 DEF Paired
  <2>2. CASE /\ j - Len(h) \in Conversation(g)
             /\ longer[j] = g[j - Len(h)]
             /\ j \in Nat /\ Len(h) < j
    <3>1. first < j - Len(h)
      BY <1>4, <1>5, <1>7, <2>2
    <3>2. Len(h) + first < j
      BY <1>2, <1>6, <2>2, <3>1
    <3>3. i \notin Conversation(h)
      BY <1>6, <1>7, <3>2
    <3>4. longer[i].turn = k /\ longer[j].turn = k
      BY <1>2, <1>5, <2>2, <3>3, ZenonT(60)
    <3>5. QED
      BY <3>4
  <2>3. QED
    BY <1>2, <2>1, <2>2
<1>8. ASSUME NEW i \in Conversation(longer), \A m \in Conversation(longer) : m <= i
      PROVE  longer[i].turn = k
  <2>1. Len(h) + first <= i
    BY <1>6, <1>8
  <2>2. i \notin Conversation(h)
    BY <1>2, <1>6, <2>1
  <2>3. QED
    BY <1>2, <1>5, <2>2
<1>9. Paired(longer) /\ EndsWith(longer, k)
  BY <1>7, <1>8 DEF Paired, EndsWith
<1>10. QED
  BY <1>9 DEF longer, g

\* A reply follows a conversation that ends with its turn.
LEMMA ReplyIsPaired ==
    ASSUME NEW h \in History, Paired(h), NEW m \in Message, EndsWith(h, m.turn), ~IsSystem(m)
    PROVE  Paired(Append(h, m))
<1> DEFINE longer == Append(h, m)
<1>1. /\ Conversation(longer) = Conversation(h) \cup {Len(h) + 1}
      /\ longer[Len(h) + 1] = m
      /\ \A i \in Conversation(h) : longer[i] = h[i]
      /\ \A i \in Conversation(h) : i \in Nat /\ i < Len(h) + 1
      /\ Len(h) \in Nat
  BY AppendConversation
<1> HIDE DEF longer
<1>2. ASSUME NEW i \in Conversation(longer), NEW j \in Conversation(longer), i < j,
             longer[j].role = "assistant",
             \A k \in Conversation(longer) : ~(i < k /\ k < j)
      PROVE  longer[i].turn = longer[j].turn
  <2>1. i \in Conversation(h)
    BY <1>1, <1>2
  <2>2. CASE j \in Conversation(h)
    BY <1>1, <1>2, <2>1, <2>2 DEF Paired
  <2>3. CASE j = Len(h) + 1
    <3>1. ASSUME NEW k \in Conversation(h) PROVE k <= i
      <4>1. k \in Conversation(longer) /\ k \in Nat /\ i \in Nat /\ k < j
        BY <1>1, <2>1, <2>3
      <4>2. ~(i < k)
        BY <1>2, <4>1
      <4>3. QED
        BY <4>1, <4>2
    <3>2. h[i].turn = m.turn
      BY <2>1, <3>1 DEF EndsWith
    <3>3. QED
      BY <1>1, <2>1, <2>3, <3>2
  <2>4. QED
    BY <1>1, <2>2, <2>3
<1>3. QED
  BY <1>2 DEF Paired, longer

\* Messages of one turn are paired, whatever their roles.
LEMMA OneTurnIsPaired ==
    ASSUME NEW r \in Requests, NEW k \in Nat
    PROVE  Paired(Incoming(r, k))
BY IncomingTurns DEF Paired, Conversation

\* No message, nothing to pair.
LEMMA EmptyIsPaired == <<>> \in History /\ Paired(<<>>)
<1>1. <<>> \in History /\ Conversation(<<>>) = {}
  BY EmptySeq DEF History, Conversation
<1>2. QED
  BY <1>1 DEF Paired

(***************************************************************************)
(* Turns never mix, whatever overlaps, if every chat asks a question: the  *)
(* history a chat writes back is the newest part of one that was stored    *)
(* before, its own question, and the reply, never another chat's.  The     *)
(* handlers do not check what a request carries; one without a question    *)
(* has its reply put behind the end of another turn.                       *)
(***************************************************************************)
THEOREM TurnsAreKeptApart ==
    ASSUME ChatsAsk
    PROVE  Spec => []TurnsNeverMix
<1>1. Init => RepliesFollow
  BY DEF Init, RepliesFollow, StoredIn, NoSessions, Idle
<1>2. TypeOK /\ RepliesFollow /\ [Next]_vars => RepliesFollow'
  <2> SUFFICES ASSUME TypeOK, RepliesFollow, [Next]_vars
               PROVE  RepliesFollow'
    OBVIOUS
  <2>1. ASSUME NEW t \in Task, CommitChat(t)
        PROVE  Append(tasks[t].messages, Reply(t)) \in PairedHistories
    <3>1. /\ tasks[t].pc = "asking"
          /\ Paired(tasks[t].messages) /\ EndsWith(tasks[t].messages, tasks[t].turn)
      BY <2>1 DEF CommitChat, RepliesFollow
    <3>2. /\ Reply(t) \in Message /\ tasks[t].messages \in History
          /\ Append(tasks[t].messages, Reply(t)) \in History
      BY <3>1, ReplyType, AskingTask
    <3>3. Reply(t).turn = tasks[t].turn /\ ~IsSystem(Reply(t))
      BY DEF Reply, IsSystem
    <3>4. QED
      BY <3>1, <3>2, <3>3, ReplyIsPaired DEF PairedHistories
  <2>2. ASSUME NEW t \in Task, ImportSession(t)
        PROVE  ImportCompaction(Incoming(tasks[t].req, nextTurn)) \in PairedHistories
    <3>1. tasks[t].req \in Requests /\ nextTurn \in Nat
      BY <2>2, ArrivedTask, TypeNow DEF ImportSession, Serving
    <3> DEFINE h == Incoming(tasks[t].req, nextTurn)
    <3>2. h \in History /\ Paired(h)
      BY <3>1, IncomingType, OneTurnIsPaired
    <3> HIDE DEF h
    <3>3. ImportCompaction(h) \in History /\ KeepsNewest(h, ImportCompaction(h))
      BY <3>2, CompactionFits, CompactionKeepsNewest
    <3>4. Paired(ImportCompaction(h))
      BY <3>2, <3>3, NewestIsPaired
    <3>5. QED
      BY <3>3, <3>4 DEF PairedHistories, h
  <2>3. StoredIn(PairedHistories)'
    <3>1. <<>> \in PairedHistories /\ StoredIn(PairedHistories)
      BY EmptyIsPaired DEF PairedHistories, RepliesFollow
    <3>2. QED
      BY <2>1, <2>2, <3>1, StoredNext
  <2>4. ASSUME NEW t \in Task, tasks'[t].pc = "asking"
        PROVE  Paired(tasks'[t].messages) /\ EndsWith(tasks'[t].messages, tasks'[t].turn)
    <3>1. CASE tasks'[t] = tasks[t]
      BY <2>4, <3>1 DEF RepliesFollow
    <3>2. CASE PrepareChat(t)
      <4> DEFINE req == tasks[t].req
                 h == HistoryOf(req.session)
                 full == h \o Incoming(req, nextTurn)
                 copy == tasks'[t].messages
      <4>1. /\ req \in Requests /\ req.op = "chat" /\ req.session \in Session
            /\ h \in History /\ nextTurn \in Nat
            /\ Incoming(req, nextTurn) \in History
            /\ copy \in History /\ tasks'[t].turn = nextTurn
            /\ KeepsNewest(full, copy)
        BY <3>2, PrepareChatKeeps, TypeNow
      <4>2. Paired(h)
        BY <4>1, EmptyIsPaired DEF HistoryOf, RepliesFollow, StoredIn, PairedHistories
      <4>3. AsksQuestion(req)
        BY <4>1 DEF ChatsAsk
      <4> HIDE DEF req, h, copy
      <4>4. Paired(full) /\ EndsWith(full, nextTurn) /\ full \in History
        BY <4>1, <4>2, <4>3, QuestionIsPaired, ConcatConversation
      <4> HIDE DEF full
      <4>5. Paired(copy) /\ EndsWith(copy, nextTurn)
        BY <4>1, <4>4, NewestIsPaired
      <4>6. QED
        BY <4>1, <4>5 DEF copy
    <3>3. QED
      BY <2>4, <3>1, <3>2, AskingNext
  <2>5. QED
    BY <2>3, <2>4 DEF RepliesFollow
<1>3. TypeOK /\ RepliesFollow => TurnsNeverMix
  <2> SUFFICES ASSUME TypeOK, RepliesFollow, NEW s \in Session,
                      NEW i \in 2 .. Len(HistoryOf(s)),
                      HistoryOf(s)[i].role = "assistant", ~IsSystem(HistoryOf(s)[i - 1])
               PROVE  HistoryOf(s)[i - 1].turn = HistoryOf(s)[i].turn
    BY DEF TurnsNeverMix
  <2> DEFINE h == HistoryOf(s)
  <2>1. h \in History /\ Paired(h)
    BY EmptyIsPaired DEF HistoryOf, RepliesFollow, StoredIn, PairedHistories
  <2>2. DOMAIN h = 1 .. Len(h) /\ Len(h) \in Nat
    BY <2>1, LenProperties DEF History
  <2>3. i - 1 \in Conversation(h) /\ i \in Conversation(h)
    BY <2>2 DEF Conversation, SystemPositions, IsSystem
  <2>4. i - 1 < i /\ \A k \in Conversation(h) : ~(i - 1 < k /\ k < i)
    BY <2>1, ConversationPositions
  <2> HIDE DEF h
  <2>5. h[i].role = "assistant"
    BY DEF h
  <2>6. h[i - 1].turn = h[i].turn
    BY <2>1, <2>3, <2>4, <2>5 DEF Paired
  <2>7. QED
    BY <2>6 DEF h
<1>4. QED
  BY <1>1, <1>2, <1>3, TypeCorrect, PTL DEF Spec

-----------------------------------------------------------------------------
(* The turns a history holds *)

\* The turns of a conversation are in order, and none is after the last.
Ordered(h, last) ==
    /\ \A i, j \in Conversation(h) : i < j => h[i].turn <= h[j].turn
    /\ \A i \in Conversation(h) : h[i].turn \in 1 .. last

\* Of the turns a held turn had in its context, those not held are older
\* than all that are.
Closed(held, context) ==
    \A k \in held : \A j \in context[k] : j \in held \/ \A i \in held : j < i

\* The histories without holes, given the contexts the turns had.
WholeHistories(context, last) ==
    {h \in History : Ordered(h, last) /\ Closed(TurnsOf(h), context)}

\* A copy that will be whole with the reply to come.
Continues(h, turn, context) ==
    Ordered(h, turn) /\ Closed(TurnsOf(h) \cup {turn}, context)

(***************************************************************************)
(* No history has a hole: in the store, in the file, and in a chat, whose  *)
(* own turn has begun.  A turn had only earlier turns in its context, and  *)
(* one that has not begun had none.                                        *)
(***************************************************************************)
NoHolesAnywhere ==
    /\ StoredIn(WholeHistories(seen, nextTurn - 1))
    /\ \A t \in Task : tasks[t].pc = "asking" =>
          /\ Continues(tasks[t].messages, tasks[t].turn, seen)
          /\ tasks[t].turn < nextTurn
    /\ \A k \in Turn : \A j \in seen[k] : j < k
    /\ \A k \in Turn : k >= nextTurn => seen[k] = {}

\* The turns of a history, by its conversation.
LEMMA TurnsOfConversation ==
    ASSUME NEW h
    PROVE  TurnsOf(h) = {h[i].turn : i \in Conversation(h)}
BY DEF TurnsOf, Conversation

LEMMA OrderedTurns ==
    ASSUME NEW h, NEW last \in Nat, Ordered(h, last)
    PROVE  TurnsOf(h) \subseteq 1 .. last
BY TurnsOfConversation DEF Ordered

\* Forgetting the oldest turns opens no hole.
LEMMA UpperIsClosed ==
    ASSUME NEW held \in SUBSET Nat, NEW kept \in SUBSET held, NEW k \in Nat, NEW context,
           \A j \in held : j <= k,
           \A j \in held : j \in kept \/ \A i \in kept : j < i,
           Closed(held \cup {k}, context)
    PROVE  Closed(kept \cup {k}, context)
<1>1. ASSUME NEW m \in kept \cup {k}, NEW j \in context[m], j \notin kept, j # k,
             NEW i \in kept \cup {k}
      PROVE  j < i
  <2>1. j \in held \/ \A l \in held \cup {k} : j < l
    BY <1>1 DEF Closed
  <2>2. CASE \A l \in held \cup {k} : j < l
    BY <2>2
  <2>3. CASE j \in held
    <3>1. j < k /\ \A l \in kept : j < l
      BY <1>1, <2>3
    <3>2. QED
      BY <3>1
  <2>4. QED
    BY <2>1, <2>2, <2>3
<1>2. QED
  BY <1>1 DEF Closed

\* The newest part of a conversation holds its newest turns, in order.
LEMMA NewestIsOrdered ==
    ASSUME NEW h \in History, NEW c \in History, KeepsNewest(h, c),
           NEW last \in Nat, Ordered(h, last)
    PROVE  /\ Ordered(c, last)
           /\ TurnsOf(c) \subseteq TurnsOf(h)
           /\ \A j \in TurnsOf(h) : j \in TurnsOf(c) \/ \A i \in TurnsOf(c) : j < i
<1>1. PICK from \in [Conversation(c) -> Conversation(h)] :
          /\ \A p \in Conversation(c) : c[p] = h[from[p]]
          /\ \A p, q \in Conversation(c) : p < q => from[p] < from[q]
          /\ \A p \in Conversation(c), r \in Conversation(h) :
                from[p] < r => \E q \in Conversation(c) : from[q] = r
  BY DEF KeepsNewest
<1>2. /\ \A r \in Conversation(h) : r \in Nat /\ h[r].turn \in 1 .. last
      /\ \A p \in Conversation(c) : from[p] \in Conversation(h)
  BY ConversationPositions DEF Ordered
<1>3. Ordered(c, last)
  BY <1>1, <1>2 DEF Ordered
<1>4. TurnsOf(c) \subseteq TurnsOf(h)
  BY <1>1, <1>2, TurnsOfConversation
<1>5. ASSUME NEW r \in Conversation(h), h[r].turn \notin TurnsOf(c), NEW p \in Conversation(c)
      PROVE  h[r].turn < c[p].turn
  <2>1. from[p] # r
    BY <1>1, <1>5, TurnsOfConversation
  <2>2. ~(from[p] < r)
    BY <1>1, <1>5, TurnsOfConversation
  <2>3. r < from[p]
    BY <1>2, <2>1, <2>2
  <2>4. h[r].turn <= h[from[p]].turn
    BY <1>2, <2>3 DEF Ordered
  <2>5. h[from[p]].turn = c[p].turn /\ c[p].turn \in TurnsOf(c)
    BY <1>1, TurnsOfConversation
  <2>6. h[r].turn # h[from[p]].turn
    BY <1>5, <2>5
  <2>7. QED
    BY <1>2, <2>4, <2>5, <2>6
<1>6. QED
  BY <1>3, <1>4, <1>5, TurnsOfConversation

\* So compaction keeps a copy ready for its reply.
LEMMA CompactionContinues ==
    ASSUME NEW h \in History, NEW c \in History, KeepsNewest(h, c),
           NEW turn \in Nat, NEW context, Continues(h, turn, context)
    PROVE  Continues(c, turn, context)
<1>1. /\ Ordered(c, turn)
      /\ TurnsOf(c) \subseteq TurnsOf(h)
      /\ \A j \in TurnsOf(h) : j \in TurnsOf(c) \/ \A i \in TurnsOf(c) : j < i
  BY NewestIsOrdered DEF Continues
<1>2. TurnsOf(h) \subseteq Nat /\ \A j \in TurnsOf(h) : j <= turn
  BY OrderedTurns DEF Continues
<1>3. Closed(TurnsOf(c) \cup {turn}, context)
  BY <1>1, <1>2, UpperIsClosed DEF Continues
<1>4. QED
  BY <1>1, <1>3 DEF Continues

\* The conversation of one request holds its turn and no other.
LEMMA IncomingConversation ==
    ASSUME NEW r \in Requests, NEW k \in Nat
    PROVE  \A i \in Conversation(Incoming(r, k)) : Incoming(r, k)[i].turn = k
BY IncomingTurns DEF Conversation

\* A new turn continues a whole history that was its context.
LEMMA QuestionContinues ==
    ASSUME NEW k \in Nat \ {0}, NEW r \in Requests, NEW h \in History, NEW context, NEW context2,
           Ordered(h, k - 1), Closed(TurnsOf(h), context),
           \A j \in TurnsOf(h) : /\ context2[j] = context[j]
                                 /\ \A i \in context[j] : i \in Nat /\ i < j,
           context2[k] = TurnsOf(h)
    PROVE  Continues(h \o Incoming(r, k), k, context2)
<1> DEFINE g == Incoming(r, k)
           longer == h \o g
<1>1. /\ \A i \in Conversation(longer) :
            \/ i \in Conversation(h) /\ longer[i] = h[i]
            \/ /\ i - Len(h) \in Conversation(g)
               /\ longer[i] = g[i - Len(h)]
               /\ i \in Nat /\ Len(h) < i
      /\ \A i \in Conversation(h) : i \in Conversation(longer) /\ longer[i] = h[i]
      /\ \A i \in Conversation(h) : i \in Nat /\ i <= Len(h)
      /\ Len(h) \in Nat
  <2>1. g \in History
    BY IncomingType
  <2>2. QED
    BY <2>1, ConcatConversation
<1>2. \A i \in Conversation(g) : g[i].turn = k
  BY IncomingConversation
<1> HIDE DEF g, longer
<1>3. /\ \A i \in Conversation(h) : h[i].turn \in 1 .. k - 1
      /\ \A i, j \in Conversation(h) : i < j => h[i].turn <= h[j].turn
  BY DEF Ordered
<1>4. \A i \in Conversation(longer) :
          \/ i \in Conversation(h) /\ longer[i] = h[i]
          \/ longer[i].turn = k /\ i \in Nat /\ Len(h) < i
  BY <1>1, <1>2
<1>5. Ordered(longer, k)
  <2>1. \A i \in Conversation(longer) : longer[i].turn \in 1 .. k
    BY <1>3, <1>4
  <2>2. ASSUME NEW i \in Conversation(longer), NEW j \in Conversation(longer), i < j
        PROVE  longer[i].turn <= longer[j].turn
    <3>1. CASE j \in Conversation(h) /\ longer[j] = h[j]
      <4>1. i \in Conversation(h) /\ longer[i] = h[i]
        BY <1>1, <1>4, <2>2, <3>1
      <4>2. QED
        BY <1>3, <2>2, <3>1, <4>1
    <3>2. CASE longer[j].turn = k
      BY <2>1, <3>2
    <3>3. QED
      BY <1>4, <3>1, <3>2
  <2>3. QED
    BY <2>1, <2>2 DEF Ordered
<1>6. TurnsOf(longer) \cup {k} = TurnsOf(h) \cup {k}
  BY <1>1, <1>4, TurnsOfConversation
<1>7. TurnsOf(h) \subseteq 1 .. k - 1
  BY OrderedTurns
<1>8. Closed(TurnsOf(h) \cup {k}, context2)
  <2>1. ASSUME NEW m \in TurnsOf(h), NEW j \in context2[m], j \notin TurnsOf(h)
        PROVE  \A i \in TurnsOf(h) \cup {k} : j < i
    <3>1. j \in context[m] /\ j \in Nat /\ j < m /\ m \in TurnsOf(h)
      BY <2>1
    <3>2. \A i \in TurnsOf(h) : j < i
      BY <2>1, <3>1 DEF Closed
    <3>3. j < k
      BY <1>7, <3>1
    <3>4. QED
      BY <3>2, <3>3
  <2>2. QED
    BY <2>1 DEF Closed
<1>9. QED
  BY <1>5, <1>6, <1>8 DEF Continues, longer, g

\* The reply makes a copy that is ready for it whole.
LEMMA ReplyIsWhole ==
    ASSUME NEW h \in History, NEW m \in Message, ~IsSystem(m), NEW context,
           m.turn \in Nat \ {0}, Continues(h, m.turn, context)
    PROVE  Ordered(Append(h, m), m.turn) /\ Closed(TurnsOf(Append(h, m)), context)
<1> DEFINE longer == Append(h, m)
<1>1. /\ Conversation(longer) = Conversation(h) \cup {Len(h) + 1}
      /\ longer[Len(h) + 1] = m
      /\ \A i \in Conversation(h) : longer[i] = h[i]
      /\ \A i \in Conversation(h) : i \in Nat /\ i < Len(h) + 1
      /\ Len(h) \in Nat
  BY AppendConversation
<1> HIDE DEF longer
<1>2. /\ \A i \in Conversation(h) : h[i].turn \in 1 .. m.turn
      /\ \A i, j \in Conversation(h) : i < j => h[i].turn <= h[j].turn
  BY DEF Continues, Ordered
<1>3. \A i \in Conversation(longer) : longer[i].turn \in 1 .. m.turn
  BY <1>1, <1>2
<1>4. ASSUME NEW i \in Conversation(longer), NEW j \in Conversation(longer), i < j
      PROVE  longer[i].turn <= longer[j].turn
  <2>1. i \in Conversation(h)
    BY <1>1, <1>4
  <2>2. CASE j \in Conversation(h)
    BY <1>1, <1>2, <1>4, <2>1, <2>2
  <2>3. CASE j = Len(h) + 1
    <3>1. longer[j].turn = m.turn /\ longer[i].turn \in 1 .. m.turn
      BY <1>1, <1>3, <2>3
    <3>2. QED
      BY <3>1
  <2>4. QED
    BY <1>1, <2>2, <2>3
<1>5. TurnsOf(longer) = TurnsOf(h) \cup {m.turn}
  BY <1>1, TurnsOfConversation
<1>6. QED
  BY <1>3, <1>4, <1>5 DEF Continues, Ordered, longer

\* One request alone holds one turn, and one that had no context.
LEMMA OneTurnContinues ==
    ASSUME NEW r \in Requests, NEW k \in Nat \ {0}, NEW context, context[k] = {}
    PROVE  Continues(Incoming(r, k), k, context)
<1>1. \A i \in Conversation(Incoming(r, k)) : Incoming(r, k)[i].turn = k
  BY IncomingConversation
<1>2. Ordered(Incoming(r, k), k)
  BY <1>1 DEF Ordered
<1>3. TurnsOf(Incoming(r, k)) \subseteq {k}
  BY <1>1, TurnsOfConversation
<1>4. TurnsOf(Incoming(r, k)) \cup {k} = {k}
  BY <1>3
<1>5. QED
  BY <1>2, <1>4 DEF Continues, Closed

LEMMA OrderedLater ==
    ASSUME NEW h, NEW last \in Nat, NEW later \in Nat, last <= later, Ordered(h, last)
    PROVE  Ordered(h, later)
BY DEF Ordered

\* A later turn, or a context no held turn had, changes nothing.
LEMMA StillWhole ==
    ASSUME NEW last \in Nat, NEW later \in Nat, last <= later, NEW context, NEW context2,
           \A k \in 1 .. last : context2[k] = context[k],
           NEW h \in WholeHistories(context, last)
    PROVE  h \in WholeHistories(context2, later)
<1>1. h \in History /\ Ordered(h, last) /\ Closed(TurnsOf(h), context)
  BY DEF WholeHistories
<1>2. TurnsOf(h) \subseteq 1 .. last
  BY <1>1, OrderedTurns
<1>3. Ordered(h, later)
  BY <1>1, OrderedLater
<1>4. Closed(TurnsOf(h), context2)
  BY <1>1, <1>2 DEF Closed
<1>5. QED
  BY <1>1, <1>3, <1>4 DEF WholeHistories

\* No message, no turn.
LEMMA EmptyIsWhole ==
    ASSUME NEW context, NEW last
    PROVE  <<>> \in WholeHistories(context, last)
<1>1. <<>> \in History /\ Conversation(<<>>) = {}
  BY EmptySeq DEF History, Conversation
<1>2. TurnsOf(<<>>) = {}
  BY <1>1, TurnsOfConversation
<1>3. QED
  BY <1>1, <1>2 DEF WholeHistories, Ordered, Closed

\* The contexts change, and turns begin, only as a chat prepares its copy.
LEMMA SeenNext ==
    ASSUME TypeOK, [Next]_vars
    PROVE  \/ \E t \in Task : PrepareChat(t)
           \/ seen' = seen /\ nextTurn' \in {nextTurn, nextTurn + 1}
<1>1. ASSUME NEW t \in Task, NEW req \in Requests, Arrive(t, req)
      PROVE  seen' = seen /\ nextTurn' \in {nextTurn, nextTurn + 1}
  BY <1>1 DEF Arrive
<1>2. ASSUME NEW t \in Task, Handle(t), ~PrepareChat(t)
      PROVE  seen' = seen /\ nextTurn' \in {nextTurn, nextTurn + 1}
  BY <1>2 DEF Handle, CommitChat, AbandonChat, ListSessions, GetSession,
       ExportSession, CreateSession, ImportSession, DeleteSession
<1>3. CASE SweepExpired \/ Flush \/ Tick \/ Restart \/ UNCHANGED vars
  BY <1>3 DEF SweepExpired, Flush, Tick, Restart, vars
<1>4. QED
  BY <1>1, <1>2, <1>3 DEF Next

\* A chat prepares its copy: its turn begins, with the session's history as
\* its context, and the store stays as it is.
LEMMA PrepareChatWhole ==
    ASSUME TypeOK, NoHolesAnywhere, NEW t \in Task, PrepareChat(t)
    PROVE  NoHolesAnywhere'
<1> DEFINE req == tasks[t].req
           h == HistoryOf(req.session)
           full == h \o Incoming(req, nextTurn)
           copy == tasks'[t].messages
           k == nextTurn
<1>1. /\ req \in Requests /\ req.session \in Session
      /\ h \in History /\ k \in Turn
      /\ Incoming(req, k) \in History
      /\ copy \in History /\ tasks'[t].turn = k
      /\ KeepsNewest(full, copy)
      /\ seen' = [seen EXCEPT ![k] = TurnsOf(h)]
      /\ nextTurn' = k + 1
  BY PrepareChatKeeps
<1>2. /\ seen \in [Turn -> SUBSET Nat] /\ Turn = 1 .. MaxTurns /\ MaxTurns \in Nat
      /\ k \in Nat \ {0} /\ k - 1 \in Nat
  BY <1>1, TypeNow, StoreAssumption DEF Turn
<1>3. /\ seen'[k] = TurnsOf(h)
      /\ \A j \in Turn : j # k => seen'[j] = seen[j]
  BY <1>1, <1>2
<1>4. h \in WholeHistories(seen, k - 1)
  BY <1>1, EmptyIsWhole DEF HistoryOf, NoHolesAnywhere, StoredIn
<1>5. Ordered(h, k - 1) /\ Closed(TurnsOf(h), seen) /\ TurnsOf(h) \subseteq 1 .. k - 1
  BY <1>2, <1>4, OrderedTurns DEF WholeHistories
<1>6. \A j \in 1 .. k - 1 : j \in Turn /\ j # k
  BY <1>1, <1>2
<1>7. StoredIn(WholeHistories(seen, nextTurn - 1))'
  <2>1. sessions' = sessions /\ disk' = disk
    BY DEF PrepareChat
  <2>2. ASSUME NEW g \in WholeHistories(seen, k - 1)
        PROVE  g \in WholeHistories(seen', k)
    <3>1. \A j \in 1 .. k - 1 : seen'[j] = seen[j]
      BY <1>3, <1>6
    <3>2. k - 1 \in Nat /\ k \in Nat /\ k - 1 <= k
      BY <1>2
    <3>3. QED
      BY <2>2, <3>1, <3>2, StillWhole
  <2>3. nextTurn' - 1 = k
    BY <1>1, <1>2
  <2>4. QED
    BY <2>1, <2>2, <2>3 DEF StoredIn, NoHolesAnywhere
<1>8. ASSUME NEW u \in Task, tasks'[u].pc = "asking"
      PROVE  /\ Continues(tasks'[u].messages, tasks'[u].turn, seen')
             /\ tasks'[u].turn < nextTurn'
  <2>1. CASE u = t
    <3>1. Continues(full, k, seen')
      <4>1. ASSUME NEW j \in TurnsOf(h)
            PROVE  /\ seen'[j] = seen[j]
                   /\ \A i \in seen[j] : i \in Nat /\ i < j
        <5>1. j \in Turn /\ j # k
          BY <1>5, <1>6
        <5>2. QED
          BY <1>2, <1>3, <5>1 DEF NoHolesAnywhere
      <4>2. QED
        BY <1>1, <1>2, <1>3, <1>5, <4>1, QuestionContinues
    <3>2. full \in History
      BY <1>1, ConcatConversation
    <3> HIDE DEF full, copy
    <3>3. Continues(copy, k, seen')
      BY <1>1, <1>2, <3>1, <3>2, CompactionContinues
    <3>4. QED
      BY <1>1, <1>2, <2>1, <3>3 DEF copy
  <2>2. CASE u # t
    <3>1. tasks'[u] = tasks[u]
      BY <2>2, TypeNow DEF PrepareChat
    <3>2. /\ Continues(tasks[u].messages, tasks[u].turn, seen)
          /\ tasks[u].turn < k /\ tasks[u].turn \in Turn
          /\ tasks[u].messages \in History
      BY <1>8, <3>1, AskingTask DEF NoHolesAnywhere
    <3>3. tasks[u].turn \in Nat /\ tasks[u].turn < k + 1
      BY <1>2, <3>2
    <3>4. TurnsOf(tasks[u].messages) \cup {tasks[u].turn} \subseteq 1 .. k - 1
      <4>1. TurnsOf(tasks[u].messages) \subseteq 1 .. tasks[u].turn
        BY <3>2, <3>3, OrderedTurns DEF Continues
      <4>2. QED
        BY <1>2, <3>2, <4>1
    <3>5. \A j \in TurnsOf(tasks[u].messages) \cup {tasks[u].turn} : seen'[j] = seen[j]
      BY <1>3, <1>6, <3>4
    <3>6. Continues(tasks[u].messages, tasks[u].turn, seen')
      BY <3>2, <3>5 DEF Continues, Closed
    <3>7. QED
      BY <1>1, <3>1, <3>3, <3>6
  <2>3. QED
    BY <2>1, <2>2
<1>9. \A j \in Turn : \A i \in seen'[j] : i < j
  <2>1. \A i \in TurnsOf(h) : i < k
    BY <1>2, <1>5
  <2>2. QED
    BY <1>3, <2>1 DEF NoHolesAnywhere
<1>10. \A j \in Turn : j >= nextTurn' => seen'[j] = {}
  BY <1>1, <1>2, <1>3 DEF NoHolesAnywhere
<1>11. QED
  BY <1>7, <1>8, <1>9, <1>10 DEF NoHolesAnywhere

\* Every other step leaves the contexts alone.
LEMMA OthersWhole ==
    ASSUME TypeOK, NoHolesAnywhere, [Next]_vars, ~\E t \in Task : PrepareChat(t)
    PROVE  NoHolesAnywhere'
<1>1. seen' = seen /\ nextTurn' \in {nextTurn, nextTurn + 1}
  BY SeenNext
<1>2. /\ nextTurn \in Nat /\ nextTurn \in Nat \ {0} /\ nextTurn - 1 \in Nat
      /\ nextTurn' \in Nat /\ nextTurn' - 1 \in Nat
      /\ nextTurn - 1 <= nextTurn' - 1
  <2>1. nextTurn \in 1 .. MaxTurns + 1 /\ MaxTurns \in Nat
    BY TypeNow, StoreAssumption
  <2>2. nextTurn \in Nat /\ nextTurn >= 1
    BY <2>1
  <2>3. CASE nextTurn' = nextTurn
    BY <2>2, <2>3
  <2>4. CASE nextTurn' = nextTurn + 1
    BY <2>2, <2>4
  <2>5. QED
    BY <1>1, <2>3, <2>4
<1>3. PICK context : context = seen
  OBVIOUS
<1>4. PICK last \in Nat : last = nextTurn' - 1
  BY <1>2
<1> DEFINE G == WholeHistories(context, last)
<1>5. StoredIn(G) /\ <<>> \in G
  <2>1. ASSUME NEW g \in WholeHistories(seen, nextTurn - 1) PROVE g \in G
    BY <1>2, <1>3, <1>4, <2>1, StillWhole
  <2> HIDE DEF G
  <2>2. StoredIn(G)
    BY <2>1 DEF StoredIn, NoHolesAnywhere
  <2>3. QED
    BY <2>2, EmptyIsWhole DEF G
<1>6. ASSUME NEW t \in Task, CommitChat(t)
      PROVE  Append(tasks[t].messages, Reply(t)) \in G
  <2> DEFINE turn == tasks[t].turn
             h == tasks[t].messages
  <2>1. tasks[t].pc = "asking"
    BY <1>6 DEF CommitChat
  <2>2. /\ h \in History /\ turn \in Turn /\ Reply(t) \in Message
        /\ Append(h, Reply(t)) \in History
    BY <2>1, AskingTask, ReplyType
  <2>3. Reply(t).turn = turn /\ ~IsSystem(Reply(t)) /\ turn \in Nat \ {0} /\ turn <= last
    <3>1. turn \in Nat \ {0}
      BY <2>2, StoreAssumption DEF Turn
    <3>2. turn < nextTurn
      BY <2>1 DEF NoHolesAnywhere
    <3>3. turn <= last
      <4>1. turn \in Nat
        BY <3>1
      <4>2. turn <= nextTurn - 1
        BY <1>2, <3>2, <4>1
      <4>3. nextTurn - 1 <= last
        BY <1>2, <1>4
      <4>4. \A a, b, c \in Nat : a <= b /\ b <= c => a <= c
        OBVIOUS
      <4>5. QED
        BY <1>2, <4>1, <4>2, <4>3, <4>4
    <3>4. QED
      BY <3>1, <3>3 DEF Reply, IsSystem
  <2>4. Continues(h, Reply(t).turn, context)
    BY <1>3, <2>1, <2>3 DEF NoHolesAnywhere
  <2> HIDE DEF h
  <2>5. /\ Ordered(Append(h, Reply(t)), turn)
        /\ Closed(TurnsOf(Append(h, Reply(t))), context)
    BY <2>2, <2>3, <2>4, ReplyIsWhole
  <2>6. Ordered(Append(h, Reply(t)), last)
    BY <2>3, <2>5, OrderedLater
  <2>7. QED
    BY <2>2, <2>5, <2>6 DEF WholeHistories, h
<1>7. ASSUME NEW t \in Task, ImportSession(t), nextTurn' = nextTurn + 1
      PROVE  ImportCompaction(Incoming(tasks[t].req, nextTurn)) \in G
  <2> DEFINE h == Incoming(tasks[t].req, nextTurn)
             c == ImportCompaction(h)
             turn == nextTurn
  <2>1. tasks[t].req \in Requests /\ turn \in Turn /\ turn \in Nat \ {0} /\ turn = last
    <3>1. tasks[t].req \in Requests
      BY <1>7, ArrivedTask DEF ImportSession, Serving
    <3>2. turn <= MaxTurns
      BY <1>7 DEF ImportSession, TurnsLeft
    <3>3. turn \in Turn
      BY <1>2, <3>2, StoreAssumption DEF Turn
    <3>4. QED
      BY <1>2, <1>4, <1>7, <3>1, <3>3
  <2>2. context[turn] = {}
    BY <1>3, <2>1 DEF NoHolesAnywhere
  <2>3. h \in History /\ Continues(h, turn, context)
    BY <2>1, <2>2, IncomingType, OneTurnContinues
  <2>4. \A i \in Conversation(h) : h[i].turn = turn
    BY <2>1, IncomingConversation
  <2> HIDE DEF h
  <2>5. c \in History /\ KeepsNewest(h, c)
    BY <2>3, CompactionFits, CompactionKeepsNewest
  <2> HIDE DEF c
  <2>6. Ordered(c, turn) /\ TurnsOf(c) \subseteq TurnsOf(h)
    BY <2>1, <2>3, <2>5, NewestIsOrdered DEF Continues
  <2>7. TurnsOf(c) \subseteq {turn}
    BY <2>4, <2>6, TurnsOfConversation
  <2>8. Closed(TurnsOf(c), context)
    BY <2>2, <2>7 DEF Closed
  <2>9. c \in G
    BY <2>1, <2>5, <2>6, <2>8 DEF WholeHistories
  <2>10. QED
    BY <2>9 DEF c, h
<1> HIDE DEF G
<1>8. StoredIn(G)'
  BY <1>5, <1>6, <1>7, StoredNext
<1>9. StoredIn(WholeHistories(seen, nextTurn - 1))'
  <2>1. G = WholeHistories(seen', nextTurn' - 1)
    BY <1>1, <1>3, <1>4 DEF G
  <2>2. QED
    BY <1>8, <2>1 DEF StoredIn
<1>10. ASSUME NEW t \in Task, tasks'[t].pc = "asking"
       PROVE  /\ Continues(tasks'[t].messages, tasks'[t].turn, seen')
              /\ tasks'[t].turn < nextTurn'
  <2>1. tasks'[t] = tasks[t]
    BY <1>10, AskingNext
  <2>2. /\ Continues(tasks[t].messages, tasks[t].turn, seen)
        /\ tasks[t].turn < nextTurn /\ tasks[t].turn \in Turn
    BY <1>10, <2>1, AskingTask DEF NoHolesAnywhere
  <2>3. tasks[t].turn \in Nat
    BY <2>2, StoreAssumption DEF Turn
  <2>4. tasks[t].turn < nextTurn'
    BY <1>1, <1>2, <2>2, <2>3
  <2>5. QED
    BY <1>1, <2>1, <2>2, <2>4
<1>11. \A k \in Turn : k >= nextTurn' => seen'[k] = {}
  <2>1. \A k \in Turn : k \in Nat
    BY StoreAssumption DEF Turn
  <2>2. \A k \in Turn : k >= nextTurn' => k >= nextTurn
    BY <1>1, <1>2, <2>1
  <2>3. QED
    BY <1>1, <2>2 DEF NoHolesAnywhere
<1>12. QED
  BY <1>1, <1>9, <1>10, <1>11 DEF NoHolesAnywhere

(***************************************************************************)
(* No history ever has a hole, whatever overlaps: compaction forgets only  *)
(* the oldest turns of the history it is given, and a commit writes what   *)
(* continues such a history, so what a turn had before it and is gone now  *)
(* is older than all that is left.                                         *)
(***************************************************************************)
THEOREM HistoriesHaveNoHoles == Spec => []HistoryHasNoHoles
<1>1. Init => NoHolesAnywhere
  BY DEF Init, NoHolesAnywhere, StoredIn, NoSessions, Idle
<1>2. TypeOK /\ NoHolesAnywhere /\ [Next]_vars => NoHolesAnywhere'
  BY PrepareChatWhole, OthersWhole
<1>3. NoHolesAnywhere => HistoryHasNoHoles
  <2> SUFFICES ASSUME NoHolesAnywhere, NEW s \in Session
               PROVE  Closed(TurnsOf(HistoryOf(s)), seen)
    BY DEF HistoryHasNoHoles, Closed
  <2>1. HistoryOf(s) \in WholeHistories(seen, nextTurn - 1)
    BY EmptyIsWhole DEF HistoryOf, NoHolesAnywhere, StoredIn
  <2>2. QED
    BY <2>1 DEF WholeHistories
<1>4. QED
  BY <1>1, <1>2, <1>3, TypeCorrect, PTL DEF Spec

-----------------------------------------------------------------------------
(* What stood before a turn *)

\* What stands before a message of another turn was in that turn's context.
Threaded(h, context) ==
    \A i, j \in Conversation(h) :
        i < j /\ h[i].turn # h[j].turn => h[i].turn \in context[h[j].turn]

\* A copy that holds its own turn and what that had in its context.
Awaiting(h, turn, context) ==
    /\ Threaded(h, context)
    /\ \A i \in Conversation(h) : h[i].turn = turn \/ h[i].turn \in context[turn]

ThreadedHistories(context) == {h \in History : Threaded(h, context)}

\* Every history is threaded: in the store, in the file, and in a chat.
ThreadedAnywhere ==
    /\ StoredIn(ThreadedHistories(seen))
    /\ \A t \in Task : tasks[t].pc = "asking" =>
          Awaiting(tasks[t].messages, tasks[t].turn, seen)

LEMMA EmptyIsThreaded == \A context : <<>> \in ThreadedHistories(context)
<1>1. <<>> \in History /\ Conversation(<<>>) = {}
  BY EmptySeq DEF History, Conversation
<1>2. QED
  BY <1>1 DEF ThreadedHistories, Threaded

\* The newest part of a conversation is threaded as the conversation is.
LEMMA NewestIsThreaded ==
    ASSUME NEW h \in History, NEW c \in History, KeepsNewest(h, c), NEW context
    PROVE  /\ Threaded(h, context) => Threaded(c, context)
           /\ \A turn : Awaiting(h, turn, context) => Awaiting(c, turn, context)
<1>1. PICK from \in [Conversation(c) -> Conversation(h)] :
          /\ \A p \in Conversation(c) : c[p] = h[from[p]]
          /\ \A p, q \in Conversation(c) : p < q => from[p] < from[q]
  BY DEF KeepsNewest
<1>2. \A p \in Conversation(c) : from[p] \in Conversation(h)
  OBVIOUS
<1>3. Threaded(h, context) => Threaded(c, context)
  BY <1>1, <1>2 DEF Threaded
<1>4. QED
  BY <1>1, <1>2, <1>3 DEF Awaiting

\* A reply follows a copy that awaits it.
LEMMA ReplyIsThreaded ==
    ASSUME NEW h \in History, NEW m \in Message, ~IsSystem(m), NEW context,
           Awaiting(h, m.turn, context)
    PROVE  Threaded(Append(h, m), context)
<1> DEFINE longer == Append(h, m)
<1>1. /\ Conversation(longer) = Conversation(h) \cup {Len(h) + 1}
      /\ longer[Len(h) + 1] = m
      /\ \A i \in Conversation(h) : longer[i] = h[i]
      /\ \A i \in Conversation(h) : i \in Nat /\ i < Len(h) + 1
      /\ Len(h) \in Nat
  BY AppendConversation
<1> HIDE DEF longer
<1>2. ASSUME NEW i \in Conversation(longer), NEW j \in Conversation(longer), i < j,
             longer[i].turn # longer[j].turn
      PROVE  longer[i].turn \in context[longer[j].turn]
  <2>1. i \in Conversation(h)
    BY <1>1, <1>2
  <2>2. CASE j \in Conversation(h)
    BY <1>1, <1>2, <2>1, <2>2 DEF Awaiting, Threaded
  <2>3. CASE j = Len(h) + 1
    BY <1>1, <1>2, <2>1, <2>3 DEF Awaiting
  <2>4. QED
    BY <1>1, <2>2, <2>3
<1>3. QED
  BY <1>2 DEF Threaded, longer

\* A request follows a threaded history that is its context.
LEMMA QuestionIsThreaded ==
    ASSUME NEW h \in History, NEW context, Threaded(h, context),
           NEW r \in Requests, NEW k \in Nat,
           \A i \in Conversation(h) : h[i].turn \in context[k]
    PROVE  Awaiting(h \o Incoming(r, k), k, context)
<1> DEFINE g == Incoming(r, k)
           longer == h \o g
<1>1. g \in History
  BY IncomingType
<1>2. /\ \A i \in Conversation(longer) :
            \/ i \in Conversation(h) /\ longer[i] = h[i]
            \/ /\ i - Len(h) \in Conversation(g)
               /\ longer[i] = g[i - Len(h)]
               /\ i \in Nat /\ Len(h) < i
      /\ \A i \in Conversation(h) : i \in Nat /\ i <= Len(h)
      /\ Len(h) \in Nat
  BY <1>1, ConcatConversation
<1>3. \A i \in Conversation(g) : g[i].turn = k
  BY IncomingConversation
<1> HIDE DEF g, longer
<1>4. \A i \in Conversation(longer) :
          \/ i \in Conversation(h) /\ longer[i] = h[i]
          \/ longer[i].turn = k /\ i \in Nat /\ Len(h) < i
  BY <1>2, <1>3
<1>5. ASSUME NEW i \in Conversation(longer), NEW j \in Conversation(longer), i < j,
             longer[i].turn # longer[j].turn
      PROVE  longer[i].turn \in context[longer[j].turn]
  <2>1. CASE j \in Conversation(h) /\ longer[j] = h[j]
    <3>1. i \in Conversation(h) /\ longer[i] = h[i]
      BY <1>2, <1>4, <1>5, <2>1
    <3>2. QED
      BY <1>5, <2>1, <3>1 DEF Threaded
  <2>2. CASE longer[j].turn = k
    BY <1>4, <1>5, <2>2
  <2>3. QED
    BY <1>4, <2>1, <2>2
<1>6. \A i \in Conversation(longer) : longer[i].turn = k \/ longer[i].turn \in context[k]
  BY <1>4
<1>7. QED
  BY <1>5, <1>6 DEF Awaiting, Threaded, longer, g

\* A history is threaded by the contexts of the turns it holds, and no others.
LEMMA ThreadedByItsTurns ==
    ASSUME NEW h, NEW context, NEW context2,
           \A i \in Conversation(h) : context2[h[i].turn] = context[h[i].turn]
    PROVE  Threaded(h, context) => Threaded(h, context2)
BY DEF Threaded

\* A chat prepares its copy: only the context of its own turn changes, and
\* no history holds that turn yet.
LEMMA PrepareChatThreads ==
    ASSUME TypeOK, NoHolesAnywhere, ThreadedAnywhere, NEW t \in Task, PrepareChat(t)
    PROVE  ThreadedAnywhere'
<1> DEFINE req == tasks[t].req
           h == HistoryOf(req.session)
           full == h \o Incoming(req, nextTurn)
           copy == tasks'[t].messages
           k == nextTurn
<1>1. /\ req \in Requests /\ req.session \in Session
      /\ h \in History /\ k \in Turn
      /\ Incoming(req, k) \in History
      /\ copy \in History /\ tasks'[t].turn = k
      /\ KeepsNewest(full, copy)
      /\ seen' = [seen EXCEPT ![k] = TurnsOf(h)]
  BY PrepareChatKeeps
<1>2. /\ seen \in [Turn -> SUBSET Nat] /\ Turn = 1 .. MaxTurns /\ MaxTurns \in Nat
      /\ k \in Nat /\ k - 1 \in Nat
  BY <1>1, TypeNow, StoreAssumption DEF Turn
<1>3. seen'[k] = TurnsOf(h) /\ \A j \in 1 .. k - 1 : j # k /\ seen'[j] = seen[j]
  BY <1>1, <1>2
<1>4. ASSUME NEW g \in WholeHistories(seen, k - 1), g \in ThreadedHistories(seen)
      PROVE  g \in ThreadedHistories(seen')
  <2>1. g \in History /\ Threaded(g, seen) /\ \A i \in Conversation(g) : g[i].turn \in 1 .. k - 1
    BY <1>4 DEF WholeHistories, ThreadedHistories, Ordered
  <2>2. Threaded(g, seen')
    BY <1>3, <2>1, ThreadedByItsTurns
  <2>3. QED
    BY <2>1, <2>2 DEF ThreadedHistories
<1>5. StoredIn(ThreadedHistories(seen))'
  <2>1. sessions' = sessions /\ disk' = disk
    BY DEF PrepareChat
  <2>2. QED
    BY <1>4, <2>1 DEF StoredIn, NoHolesAnywhere, ThreadedAnywhere
<1>6. ASSUME NEW u \in Task, tasks'[u].pc = "asking"
      PROVE  Awaiting(tasks'[u].messages, tasks'[u].turn, seen')
  <2>1. CASE u = t
    <3>1. h \in WholeHistories(seen, k - 1) /\ h \in ThreadedHistories(seen)
      BY <1>1, EmptyIsWhole, EmptyIsThreaded DEF HistoryOf, NoHolesAnywhere, ThreadedAnywhere, StoredIn
    <3>2. Threaded(h, seen')
      BY <1>4, <3>1 DEF ThreadedHistories
    <3>3. \A i \in Conversation(h) : h[i].turn \in seen'[k]
      BY <1>3, TurnsOfConversation
    <3> HIDE DEF h
    <3>4. Awaiting(full, k, seen') /\ full \in History
      BY <1>1, <1>2, <3>2, <3>3, QuestionIsThreaded, ConcatConversation
    <3> HIDE DEF full, copy
    <3>5. Awaiting(copy, k, seen')
      BY <1>1, <3>4, NewestIsThreaded
    <3>6. QED
      BY <1>1, <2>1, <3>5 DEF copy
  <2>2. CASE u # t
    <3>1. tasks'[u] = tasks[u]
      BY <2>2, TypeNow DEF PrepareChat
    <3>2. /\ Awaiting(tasks[u].messages, tasks[u].turn, seen)
          /\ Ordered(tasks[u].messages, tasks[u].turn)
          /\ tasks[u].turn < k /\ tasks[u].turn \in Turn
      BY <1>6, <3>1, AskingTask DEF NoHolesAnywhere, ThreadedAnywhere, Continues
    <3>3. /\ tasks[u].turn \in 1 .. k - 1
          /\ \A i \in Conversation(tasks[u].messages) : tasks[u].messages[i].turn \in 1 .. k - 1
      BY <1>2, <3>2 DEF Ordered
    <3>4. Threaded(tasks[u].messages, seen')
      BY <1>3, <3>2, <3>3, ThreadedByItsTurns DEF Awaiting
    <3>5. QED
      BY <1>3, <3>1, <3>2, <3>3, <3>4 DEF Awaiting
  <2>3. QED
    BY <2>1, <2>2
<1>7. QED
  BY <1>5, <1>6 DEF ThreadedAnywhere

\* Every other step leaves the contexts alone.
LEMMA OthersThread ==
    ASSUME TypeOK, ThreadedAnywhere, [Next]_vars, ~\E t \in Task : PrepareChat(t)
    PROVE  ThreadedAnywhere'
<1>1. seen' = seen
  BY SeenNext
<1>2. PICK context : context = seen
  OBVIOUS
<1> DEFINE G == ThreadedHistories(context)
<1>3. StoredIn(G) /\ <<>> \in G
  BY <1>2, EmptyIsThreaded DEF ThreadedAnywhere
<1>4. ASSUME NEW t \in Task, CommitChat(t)
      PROVE  Append(tasks[t].messages, Reply(t)) \in G
  <2>1. tasks[t].pc = "asking"
    BY <1>4 DEF CommitChat
  <2>2. /\ tasks[t].messages \in History /\ Reply(t) \in Message
        /\ Append(tasks[t].messages, Reply(t)) \in History
    BY <2>1, AskingTask, ReplyType
  <2>3. Reply(t).turn = tasks[t].turn /\ ~IsSystem(Reply(t))
    BY DEF Reply, IsSystem
  <2>4. Threaded(Append(tasks[t].messages, Reply(t)), context)
    BY <1>2, <2>1, <2>2, <2>3, ReplyIsThreaded DEF ThreadedAnywhere
  <2>5. QED
    BY <2>2, <2>4 DEF ThreadedHistories
<1>5. ASSUME NEW t \in Task, ImportSession(t)
      PROVE  ImportCompaction(Incoming(tasks[t].req, nextTurn)) \in G
  <2> DEFINE h == Incoming(tasks[t].req, nextTurn)
             c == ImportCompaction(h)
  <2>1. tasks[t].req \in Requests /\ nextTurn \in Nat
    BY <1>5, ArrivedTask, TypeNow DEF ImportSession, Serving
  <2>2. h \in History /\ Threaded(h, context)
    BY <2>1, IncomingType, IncomingConversation DEF Threaded
  <2> HIDE DEF h
  <2>3. c \in History /\ KeepsNewest(h, c)
    BY <2>2, CompactionFits, CompactionKeepsNewest
  <2> HIDE DEF c
  <2>4. c \in G
    BY <2>2, <2>3, NewestIsThreaded DEF ThreadedHistories
  <2>5. QED
    BY <2>4 DEF c, h
<1> HIDE DEF G
<1>6. StoredIn(G)'
  BY <1>3, <1>4, <1>5, StoredNext
<1>7. StoredIn(ThreadedHistories(seen))'
  <2>1. G = ThreadedHistories(seen')
    BY <1>1, <1>2 DEF G
  <2>2. QED
    BY <1>6, <2>1 DEF StoredIn
<1>8. ASSUME NEW t \in Task, tasks'[t].pc = "asking"
      PROVE  Awaiting(tasks'[t].messages, tasks'[t].turn, seen')
  BY <1>1, <1>8, AskingNext DEF ThreadedAnywhere
<1>9. QED
  BY <1>7, <1>8 DEF ThreadedAnywhere

(***************************************************************************)
(* Whatever overlaps, a turn stands only behind turns its own model call   *)
(* was given: a commit writes the copy the model saw, and nothing else     *)
(* adds to a history.                                                      *)
(***************************************************************************)
THEOREM TurnsHaveSeenTheirPast == Spec => []TurnsSawTheirPast
<1>1. Init => NoHolesAnywhere /\ ThreadedAnywhere
  BY DEF Init, NoHolesAnywhere, ThreadedAnywhere, StoredIn, NoSessions, Idle
<1>2. TypeOK /\ NoHolesAnywhere /\ ThreadedAnywhere /\ [Next]_vars
        => NoHolesAnywhere' /\ ThreadedAnywhere'
  BY PrepareChatWhole, OthersWhole, PrepareChatThreads, OthersThread
<1>3. ThreadedAnywhere => TurnsSawTheirPast
  <2> SUFFICES ASSUME ThreadedAnywhere, NEW s \in Session
               PROVE  Threaded(HistoryOf(s), seen)
    BY DEF TurnsSawTheirPast, Threaded, Conversation
  <2>1. QED
    BY EmptyIsThreaded DEF HistoryOf, ThreadedAnywhere, StoredIn, ThreadedHistories
<1>4. QED
  BY <1>1, <1>2, <1>3, TypeCorrect, PTL DEF Spec

-----------------------------------------------------------------------------
(* The lifecycle *)

LEMMA StepImplements == [LifecycleNext]_allVars => [Next]_vars
<1> SUFFICES ASSUME [LifecycleNext]_allVars PROVE Next \/ UNCHANGED vars
  OBVIOUS
<1>1. ASSUME NEW t \in Task, NEW req \in Requests,
             Accept(t, req) \/ Beat(t, req) \/ RunDeferred(t, req)
      PROVE  Next
  BY <1>1 DEF Accept, Beat, RunDeferred, Begin, Next
<1>2. ASSUME NEW t \in Task, Poll(t) \/ AnswerChat(t) \/ DropChat(t) PROVE Next
  BY <1>2 DEF Poll, AskModel, ServeOther, AnswerChat, DropChat, Handle, Next
<1>3. CASE Sweep \/ PassTime \/ FlushSessions \/ StartAgain
  BY <1>3 DEF Sweep, PassTime, FlushSessions, StartAgain, Next
<1>4. CASE \/ Signal \/ EndGrace \/ ServerFails \/ StopRuntime \/ Exit
            \/ (\E k \in threads : ThreadEnds(k)) \/ (\E t \in Task : Connect(t) \/ Disconnect(t))
  BY <1>4 DEF Signal, EndGrace, DrainEnds, GraceExpires, ServerFails, StopRuntime, Exit, ThreadEnds, Connect, Disconnect
<1>5. CASE UNCHANGED allVars
  BY <1>5 DEF allVars
<1>6. QED
  BY <1>1, <1>2, <1>3, <1>4, <1>5 DEF LifecycleNext

(***************************************************************************)
(* serve_with_graceful_shutdown uses the session store as SessionStore     *)
(* allows it: LifecycleSpec implements Spec.                               *)
(***************************************************************************)
THEOREM ShutdownImplementsStore == LifecycleSpec => Spec
<1>1. LifecycleInit => Init
  BY DEF LifecycleInit
<1>2. QED
  BY <1>1, StepImplements, PTL DEF LifecycleSpec, Spec

(***************************************************************************)
(* The file follows the store through shutdown, exit and restart, and no   *)
(* history outgrows its limit or gets a hole on the way.                   *)
(***************************************************************************)
THEOREM StoreHoldsToTheEnd ==
    LifecycleSpec => [](DiskMatchesMemory /\ HistoryIsBounded /\ HistoryHasNoHoles)
BY ShutdownImplementsStore, FileFollowsStore, HistoriesStayBounded, HistoriesHaveNoHoles, PTL

-----------------------------------------------------------------------------

(***************************************************************************)
(* The lifecycle is well typed: the threads, which outlive their tasks and *)
(* the server, answer turns that have begun.                               *)
(***************************************************************************)
THEOREM LifecycleTypeCorrect == LifecycleSpec => []LifecycleTypeOK
<1>1. LifecycleInit => LifecycleTypeOK
  BY DEF LifecycleInit, LifecycleTypeOK, Phase
<1>2. TypeOK /\ LifecycleTypeOK /\ [LifecycleNext]_allVars => LifecycleTypeOK'
  <2> SUFFICES ASSUME TypeOK, LifecycleTypeOK, [LifecycleNext]_allVars
               PROVE  LifecycleTypeOK'
    OBVIOUS
  <2> USE DEF LifecycleTypeOK, Phase
  <2>1. ASSUME NEW t \in Task, NEW req \in Requests,
               Accept(t, req) \/ Beat(t, req) \/ RunDeferred(t, req)
        PROVE  LifecycleTypeOK'
    BY <2>1 DEF Accept, Beat, RunDeferred, Begin
  <2>2. ASSUME NEW t \in Task, Connect(t) \/ Disconnect(t) PROVE LifecycleTypeOK'
    BY <2>2 DEF Connect, Disconnect
  <2>3. ASSUME NEW t \in Task, AskModel(t) PROVE LifecycleTypeOK'
    <3>1. nextTurn \in Turn
      BY <2>3 DEF AskModel, PrepareChat, TurnsLeft, TypeOK, Turn
    <3>2. QED
      BY <2>3, <3>1 DEF AskModel
  <2>4. ASSUME NEW t \in Task, ServeOther(t) \/ AnswerChat(t) \/ DropChat(t)
        PROVE  LifecycleTypeOK'
    BY <2>4 DEF ServeOther, AnswerChat, DropChat
  <2>5. ASSUME NEW k \in threads, ThreadEnds(k) PROVE LifecycleTypeOK'
    BY <2>5 DEF ThreadEnds
  <2>6. CASE Sweep \/ PassTime \/ FlushSessions \/ StartAgain
    BY <2>6 DEF Sweep, PassTime, FlushSessions, StartAgain
  <2>7. CASE Signal \/ EndGrace \/ ServerFails \/ StopRuntime \/ Exit
    BY <2>7 DEF Signal, EndGrace, DrainEnds, GraceExpires, ServerFails, StopRuntime, Exit
  <2>8. CASE UNCHANGED allVars
    BY <2>8 DEF allVars
  <2>9. QED
    BY <2>1, <2>2, <2>3, <2>4, <2>5, <2>6, <2>7, <2>8 DEF LifecycleNext, Poll
<1>3. LifecycleSpec => []TypeOK
  BY ShutdownImplementsStore, TypeCorrect, PTL
<1>4. QED
  BY <1>1, <1>2, <1>3, PTL DEF LifecycleSpec

-----------------------------------------------------------------------------

\* Only a request asks for anything but a chat.
OthersChat ==
    \A t \in Heartbeat \cup Detached : tasks[t].pc = "arrived" => tasks[t].req.op = "chat"

\* A drain is known to have succeeded when it is over, and not before.
DrainedLate == phase \in {"serving", "draining"} => ~drained

IInv == OthersChat /\ DrainedLate /\ DrainLosesNoRequest /\ CleanExitSavesAll

LEMMA TasksAreTasks == Heartbeat \subseteq Task /\ Detached \subseteq Task /\ Tracked \subseteq Task
BY ShutdownAssumption DEF Tracked

\* A task that begins before the drain is over, or is not waited for.
LEMMA BeginInv ==
    ASSUME TypeOK, LifecycleTypeOK, IInv, NEW t \in Task, NEW req \in Requests,
           Accept(t, req) \/ Beat(t, req) \/ RunDeferred(t, req)
    PROVE  IInv'
<1>1. /\ \A u \in Task : tasks'[u] = IF u = t THEN [pc |-> "arrived", req |-> req, at |-> now]
                                     ELSE tasks[u]
      /\ phase' = phase /\ drained' = drained /\ open' \subseteq open /\ Purge
  BY DEF Accept, Beat, RunDeferred, Begin, Arrive, TypeOK
<1>2. /\ t \in Tracked => open # {}
      /\ t \notin Tracked => req.op = "chat"
  BY ShutdownAssumption DEF Accept, Beat, RunDeferred, LifecycleTypeOK, Tracked
<1>3. OthersChat'
  BY <1>1, <1>2, TasksAreTasks DEF IInv, OthersChat, Tracked
<1>4. DrainedLate'
  BY <1>1 DEF IInv, DrainedLate
<1>5. DrainLosesNoRequest'
  BY <1>1, <1>2, TasksAreTasks DEF IInv, DrainLosesNoRequest
<1>6. CleanExitSavesAll'
  BY <1>1 DEF IInv, CleanExitSavesAll, Purge, Persist, SaveSessions
<1>7. QED
  BY <1>3, <1>4, <1>5, <1>6 DEF IInv

\* A task that ends, or whose stage is no arrival, disturbs nothing.
LEMMA StageInv ==
    ASSUME TypeOK, IInv, NEW t \in Task, NEW stage, stage.pc # "arrived",
           tasks' = [tasks EXCEPT ![t] = stage],
           tasks[t].pc = "idle" => stage.pc = "idle",
           stage.pc = "idle" \/ tasks[t].pc # "idle",
           phase' = phase, drained' = drained, open' = open
    PROVE  OthersChat' /\ DrainedLate' /\ DrainLosesNoRequest'
<1>1. \A u \in Task : tasks'[u] = IF u = t THEN stage ELSE tasks[u]
  BY DEF TypeOK
<1>2. OthersChat'
  BY <1>1, TasksAreTasks DEF IInv, OthersChat
<1>3. DrainedLate'
  BY DEF IInv, DrainedLate
<1>4. DrainLosesNoRequest'
  BY <1>1, TasksAreTasks DEF IInv, DrainLosesNoRequest
<1>5. QED
  BY <1>2, <1>3, <1>4

LEMMA AskModelInv == ASSUME TypeOK, IInv, NEW t \in Task, AskModel(t) PROVE IInv'
<1>1. PICK task \in Asking : tasks' = [tasks EXCEPT ![t] = task]
  BY PrepareChatTask DEF AskModel
<1>2. /\ task.pc = "asking" /\ tasks[t].pc = "arrived"
      /\ phase' = phase /\ drained' = drained /\ open' = open
      /\ UNCHANGED <<sessions, disk, diskStale>>
  BY <1>1 DEF Asking, AskModel, PrepareChat, Serving
<1>3. OthersChat' /\ DrainedLate' /\ DrainLosesNoRequest'
  BY <1>1, <1>2, StageInv
<1>4. CleanExitSavesAll'
  BY <1>2 DEF IInv, CleanExitSavesAll
<1>5. QED
  BY <1>3, <1>4 DEF IInv

LEMMA FinishInv ==
    ASSUME TypeOK, IInv, NEW t \in Task, Finish(t), phase' = phase, drained' = drained, open' = open,
           CleanExitSavesAll'
    PROVE  IInv'
<1>1. OthersChat' /\ DrainedLate' /\ DrainLosesNoRequest'
  BY StageInv DEF Finish, Idle
<1>2. QED
  BY <1>1 DEF IInv

LEMMA AnswerChatInv == ASSUME TypeOK, IInv, NEW t \in Task, AnswerChat(t) PROVE IInv'
<1>1. Finish(t) /\ phase' = phase /\ drained' = drained /\ open' = open /\ Persist(sessions')
  BY DEF AnswerChat, CommitChat
<1>2. CleanExitSavesAll'
  BY <1>1 DEF CleanExitSavesAll, Persist, SaveSessions
<1>3. QED
  BY <1>1, <1>2, FinishInv

LEMMA DropChatInv == ASSUME TypeOK, IInv, NEW t \in Task, DropChat(t) PROVE IInv'
<1>1. /\ Finish(t) /\ phase' = phase /\ drained' = drained /\ open' = open
      /\ UNCHANGED <<sessions, disk, diskStale>>
  BY DEF DropChat, AbandonChat
<1>2. CleanExitSavesAll'
  BY <1>1 DEF IInv, CleanExitSavesAll
<1>3. QED
  BY <1>1, <1>2, FinishInv

\* After a drain only chats are left, and the other handlers do not run.
LEMMA ServeOtherInv == ASSUME TypeOK, IInv, NEW t \in Task, ServeOther(t) PROVE IInv'
<1>1. /\ Finish(t) /\ phase' = phase /\ drained' = drained /\ open' = open
      /\ tasks[t].pc = "arrived" /\ tasks[t].req.op # "chat"
  BY DEF ServeOther, ListSessions, GetSession, ExportSession, CreateSession, ImportSession,
         DeleteSession, Serving
<1>2. t \in Tracked
  BY <1>1 DEF IInv, OthersChat, Tracked
<1>3. CleanExitSavesAll'
  BY <1>1, <1>2 DEF IInv, DrainLosesNoRequest, CleanExitSavesAll
<1>4. QED
  BY <1>1, <1>3, FinishInv

LEMMA LifecycleInv == TypeOK /\ LifecycleTypeOK /\ IInv /\ [LifecycleNext]_allVars => IInv'
<1> SUFFICES ASSUME TypeOK, LifecycleTypeOK, IInv, [LifecycleNext]_allVars PROVE IInv'
  OBVIOUS
<1> USE DEF OthersChat, DrainedLate, DrainLosesNoRequest, CleanExitSavesAll
<1>1. CASE Sweep
  BY <1>1 DEF Sweep, SweepExpired, IInv
<1>2. CASE PassTime
  BY <1>2 DEF PassTime, Tick, IInv
<1>3. ASSUME NEW k \in threads, ThreadEnds(k) PROVE IInv'
  BY <1>3 DEF ThreadEnds, vars, IInv
<1>4. CASE Signal
  BY <1>4 DEF Signal, vars, IInv
<1>5. CASE DrainEnds
  BY <1>5 DEF DrainEnds, vars, IInv
<1>6. CASE GraceExpires
  BY <1>6 DEF GraceExpires, vars, IInv
<1>7. CASE ServerFails
  BY <1>7 DEF ServerFails, vars, IInv
<1>8. ASSUME NEW t \in Task, Connect(t) \/ Disconnect(t) PROVE IInv'
  BY <1>8 DEF Connect, Disconnect, vars, IInv
<1>9. CASE FlushSessions
  <2>1. Persist(sessions) /\ UNCHANGED <<sessions, tasks, drained, open>> /\ phase = "closing"
    BY <1>9 DEF FlushSessions, Flush
  <2>2. phase' = "flushed"
    BY <1>9 DEF FlushSessions
  <2>3. CleanExitSavesAll'
    BY <2>1 DEF Persist, SaveSessions
  <2>4. QED
    BY <2>1, <2>2, <2>3 DEF IInv
<1>10. CASE StopRuntime
  BY <1>10 DEF StopRuntime, vars, IInv
<1>11. CASE Exit
  BY <1>11 DEF Exit, vars, IInv
<1>12. CASE StartAgain
  <2>1. \A t \in Task : tasks'[t] = Idle
    BY <1>12 DEF StartAgain, Restart
  <2>2. phase' = "serving" /\ ~drained'
    BY <1>12 DEF StartAgain
  <2>3. QED
    BY <2>1, <2>2, TasksAreTasks DEF IInv, Idle
<1>13. CASE UNCHANGED allVars
  BY <1>13 DEF allVars, vars, IInv
<1>14. QED
  BY <1>1, <1>2, <1>3, <1>4, <1>5, <1>6, <1>7, <1>8, <1>9, <1>10, <1>11, <1>12, <1>13,
     BeginInv, AskModelInv, AnswerChatInv, DropChatInv, ServeOtherInv
  DEF LifecycleNext, Poll, EndGrace

LEMMA LifecycleHolds == LifecycleSpec => []IInv
<1>1. LifecycleInit => IInv
  BY TasksAreTasks DEF LifecycleInit, Init, IInv, OthersChat, DrainedLate, DrainLosesNoRequest,
     CleanExitSavesAll, Idle
<1>2. LifecycleSpec => []TypeOK
  BY ShutdownImplementsStore, TypeCorrect, PTL
<1>3. QED
  BY <1>1, <1>2, LifecycleTypeCorrect, LifecycleInv, PTL DEF LifecycleSpec

(***************************************************************************)
(* A drained shutdown saves everything: between                            *)
(* flush_sessions_on_shutdown and the exit nothing gets into the store     *)
(* that is not in the file, although deferred chats still write.           *)
(***************************************************************************)
THEOREM CleanExit == LifecycleSpec => []CleanExitSavesAll
<1>1. IInv => CleanExitSavesAll
  BY DEF IInv
<1>2. QED
  BY <1>1, LifecycleHolds, PTL

(***************************************************************************)
(* A shutdown that has drained the server drops no request with the        *)
(* runtime.                                                                *)
(***************************************************************************)
THEOREM DrainIsComplete == LifecycleSpec => []DrainLosesNoRequest
<1>1. IInv => DrainLosesNoRequest
  BY DEF IInv
<1>2. QED
  BY <1>1, LifecycleHolds, PTL
=============================================================================
