---------------------------- MODULE SessionStore ----------------------------
(***************************************************************************)
(* The session store of `jiaclaw serve`                                    *)
(* (crates/jiaclaw-host/src/main.rs): a map from session ids to histories  *)
(* behind one mutex, saved as a whole to one file, and the request         *)
(* handlers and background tasks that read and write it concurrently.      *)
(*                                                                         *)
(* Every step is one lock section of a handler.  A handler is a task that  *)
(* first purges the expired sessions (purge_expired_sessions, a lock       *)
(* section of its own) and then takes the lock again for its own work.  A  *)
(* chat takes it twice more: to copy the history, and, after the model has *)
(* answered, to write back copy + reply.  Between two sections any other   *)
(* task may run: that is the interleaving this module is about.            *)
(*                                                                         *)
(* Left out: authentication (a refused request changes nothing), texts,    *)
(* logging, and chats without a session id, which purge like an "export".  *)
(***************************************************************************)
EXTENDS SessionHistory

CONSTANTS Session,        \* the ids of sessions
          Task,           \* the request and background tasks in flight
          NoSession,      \* "no such key" in the map or in the file
          Requests,       \* the requests clients and channels may send
          Ttl,            \* session_ttl_secs; 0 = no expiry
          PersistEnabled, \* [http] persist
          SaveMayFail,    \* whether save_sessions may return an error
          LoadMayFail,    \* whether the file may be unreadable at a start
          MaxTurns,       \* bound: turns of a behaviour
          MaxClock        \* bound: the last instant of the clock

Op == {"chat", "list", "get", "export", "create", "import", "delete"}

\* What a request asks for: roles are those of the messages it carries.
Request == [op : Op, session : Session \cup {NoSession},
            roles : Seq(Role), overwrite : BOOLEAN]

ASSUME StoreAssumption ==
    /\ NoSession \notin Session
    /\ NoSession \notin History
    /\ NoSession \notin [messages : History, last : Nat]
    /\ \A r \in Requests : r \in Request
    /\ \A r \in Requests : r.op \in {"list", "create"} \/ r.session \in Session
    /\ Ttl \in Nat
    /\ PersistEnabled \in BOOLEAN
    /\ SaveMayFail \in BOOLEAN
    /\ LoadMayFail \in BOOLEAN
    /\ MaxTurns \in Nat
    /\ MaxClock \in Nat

VARIABLES
    sessions,   \* AppState.sessions: id -> SessionRecord, or NoSession
    disk,       \* the file at persist_path: id -> history, or NoSession
    diskStale,  \* history variable: the last save, or the load, failed
    tasks,      \* the stage of every task
    now,        \* the clock Instant::now() reads
    nextTurn,   \* the number of the next turn
    seen        \* history variable: the turns a turn had in its context

vars == <<sessions, disk, diskStale, tasks, now, nextTurn, seen>>

Turn == 1 .. MaxTurns

Record == [messages : History, last : Nat]

Idle == [pc |-> "idle"]
Arrived == [pc : {"arrived"}, req : Requests, at : Nat]
Asking == [pc : {"asking"}, req : Requests, at : Nat, found : BOOLEAN,
           messages : History, turn : Turn]

TypeOK ==
    /\ sessions \in [Session -> Record \cup {NoSession}]
    /\ disk \in [Session -> History \cup {NoSession}]
    /\ diskStale \in BOOLEAN
    /\ tasks \in [Task -> {Idle} \cup Arrived \cup Asking]
    /\ now \in Nat
    /\ nextTurn \in 1 .. MaxTurns + 1
    /\ seen \in [Turn -> SUBSET Nat]

-----------------------------------------------------------------------------

\* SessionRecord::new
NewRecord(h) == [messages |-> h, last |-> now]

\* SessionRecord::is_expired
IsExpired(r, at) == Ttl # 0 /\ SaturatingSub(at, r.last) >= Ttl

\* A purge that spares the sessions without messages.
Live_KeepsEmpty(mem, at) ==
    [s \in Session |->
        IF mem[s] # NoSession /\ IsExpired(mem[s], at) /\ mem[s].messages # <<>>
        THEN NoSession ELSE mem[s]]

\* The sessions a purge keeps.
Live(mem, at) ==
    [s \in Session |->
        IF mem[s] # NoSession /\ IsExpired(mem[s], at) THEN NoSession ELSE mem[s]]

\* messages_from_sessions
Image(mem) ==
    [s \in Session |-> IF mem[s] = NoSession THEN NoSession ELSE mem[s].messages]

\* sessions_from_messages: every record starts as touched now.
FromImage(img) ==
    [s \in Session |-> IF img[s] = NoSession THEN NoSession ELSE NewRecord(img[s])]

NoSessions == [s \in Session |-> NoSession]

(***************************************************************************)
(* save_sessions: everything is written to a temporary file, which is      *)
(* renamed over the old one, so a save happens entirely or not at all.     *)
(***************************************************************************)
SaveSessions(mem, ok) == disk' = IF ok THEN Image(mem) ELSE disk

\* persist_session_map, always called with the lock held: an error is only
\* logged.
Persist(mem) ==
    IF PersistEnabled
    THEN \E ok \in (IF SaveMayFail THEN BOOLEAN ELSE {TRUE}) :
            SaveSessions(mem, ok) /\ diskStale' = ~ok
    ELSE UNCHANGED <<disk, diskStale>>

\* A purge that leaves the file to the next chat.
Purge_NotSaved ==
    /\ sessions' = Live(sessions, now)
    /\ UNCHANGED <<disk, diskStale>>

\* A purge that a handler forgets.
Purge_Skipped == UNCHANGED <<sessions, disk, diskStale>>

(***************************************************************************)
(* purge_expired_sessions: saves only if it removed something.  The code   *)
(* reads the clock just before it locks; the model reads it in the lock.   *)
(***************************************************************************)
Purge ==
    LET kept == Live(sessions, now)
    IN  /\ sessions' = kept
        /\ IF kept = sessions THEN UNCHANGED <<disk, diskStale>> ELSE Persist(kept)

Finish(t) == tasks' = [tasks EXCEPT ![t] = Idle]

\* The bound MaxTurns: no turn starts after the last one.
TurnsLeft == nextTurn <= MaxTurns

\* A request reaches its handler, which purges first.
Arrive(t, req) ==
    /\ tasks[t].pc = "idle"
    /\ req.op \in {"chat", "import"} => TurnsLeft
    /\ Purge
    /\ tasks' = [tasks EXCEPT ![t] = [pc |-> "arrived", req |-> req, at |-> now]]
    /\ UNCHANGED <<now, nextTurn, seen>>

\* Task t has purged and is about to take the lock for operation op.
Serving(t, op) == tasks[t].pc = "arrived" /\ tasks[t].req.op = op

Incoming(req, turn) ==
    [i \in DOMAIN req.roles |-> [role |-> req.roles[i], turn |-> turn]]

\* The turns of a history, system messages aside.
TurnsOf(h) == {h[i].turn : i \in DOMAIN h \ SystemPositions(h)}

HistoryOf(s) == IF sessions[s] = NoSession THEN <<>> ELSE sessions[s].messages

(***************************************************************************)
(* prepare_session_chat_messages: copy the history under the lock, append  *)
(* the incoming messages and compact the result outside the lock.  A new   *)
(* session's messages are used as they come, however many they are.  The   *)
(* compaction reads nothing the store shares, so the model takes it with   *)
(* the copy: what matters is that the lock is free from here to the write. *)
(***************************************************************************)
PrepareChat(t) ==
    LET req == tasks[t].req
        s == req.session
        incoming == Incoming(req, nextTurn)
        Ask(h, found) ==
            tasks' = [tasks EXCEPT ![t] =
                        [pc |-> "asking", req |-> req, at |-> tasks[t].at,
                         found |-> found, messages |-> h, turn |-> nextTurn]]
    IN  /\ Serving(t, "chat") /\ TurnsLeft
        /\ \/ sessions[s] = NoSession /\ Ask(incoming, FALSE)
           \/ /\ sessions[s] # NoSession
              /\ \E h \in Compactions(sessions[s].messages \o incoming) : Ask(h, TRUE)
        /\ seen' = [seen EXCEPT ![nextTurn] = TurnsOf(HistoryOf(s))]
        /\ nextTurn' = nextTurn + 1
        /\ UNCHANGED <<sessions, disk, diskStale, now>>

\* A reply under the name a provider may have for its role.
Reply_RawRole(t) == [role |-> "model", turn |-> tasks[t].turn]

Reply(t) == [role |-> "assistant", turn |-> tasks[t].turn]

\* A commit that writes to what the session holds now, not to the copy:
\* the reply follows another turn.
CommitChat_ToCurrent(t) ==
    /\ tasks[t].pc = "asking"
    /\ LET s == tasks[t].req.session
           mem == [sessions EXCEPT ![s] = NewRecord(Append(HistoryOf(s), Reply(t)))]
       IN  sessions' = mem /\ Persist(mem)
    /\ Finish(t)
    /\ UNCHANGED <<now, nextTurn, seen>>

\* A commit that is not saved.
CommitChat_NotSaved(t) ==
    /\ tasks[t].pc = "asking"
    /\ sessions' = [sessions EXCEPT ![tasks[t].req.session] =
                        NewRecord(Append(tasks[t].messages, Reply(t)))]
    /\ Finish(t)
    /\ UNCHANGED <<disk, diskStale, now, nextTurn, seen>>

(***************************************************************************)
(* The model has answered: commit_session_messages replaces whatever the   *)
(* session holds by now (or creates the session again) with the copy and   *)
(* the reply, and saves.                                                   *)
(***************************************************************************)
CommitChat(t) ==
    /\ tasks[t].pc = "asking"
    /\ LET s == tasks[t].req.session
           mem == [sessions EXCEPT ![s] =
                        NewRecord(Append(tasks[t].messages, Reply(t)))]
       IN  sessions' = mem /\ Persist(mem)
    /\ Finish(t)
    /\ UNCHANGED <<now, nextTurn, seen>>

(***************************************************************************)
(* The model call failed, or the handler was dropped while it waited (the  *)
(* client went away, the heartbeat was aborted): nothing is written.       *)
(***************************************************************************)
AbandonChat(t) ==
    /\ tasks[t].pc = "asking"
    /\ Finish(t)
    /\ UNCHANGED <<sessions, disk, diskStale, now, nextTurn, seen>>

\* list_sessions_handler: touches every session.
ListSessions(t) ==
    /\ Serving(t, "list")
    /\ sessions' = [s \in Session |->
                        IF sessions[s] = NoSession THEN NoSession
                        ELSE [sessions[s] EXCEPT !.last = now]]
    /\ Finish(t)
    /\ UNCHANGED <<disk, diskStale, now, nextTurn, seen>>

\* get_session_handler: touches the session it returns.
GetSession(t) ==
    /\ Serving(t, "get")
    /\ LET s == tasks[t].req.session
       IN  sessions' = IF sessions[s] = NoSession THEN sessions
                       ELSE [sessions EXCEPT ![s].last = now]
    /\ Finish(t)
    /\ UNCHANGED <<disk, diskStale, now, nextTurn, seen>>

\* export_session_handler: reads, and touches nothing.
ExportSession(t) ==
    /\ Serving(t, "export")
    /\ Finish(t)
    /\ UNCHANGED <<sessions, disk, diskStale, now, nextTurn, seen>>

\* A fresh uuid: an id nothing has or asks for.
Fresh(s) ==
    /\ sessions[s] = NoSession
    /\ disk[s] = NoSession
    /\ \A u \in Task : tasks[u].pc # "idle" => tasks[u].req.session # s

\* create_session_handler: inserts an empty session and does not save.
CreateSession(t) ==
    /\ Serving(t, "create")
    /\ \E s \in Session : Fresh(s) /\ sessions' = [sessions EXCEPT ![s] = NewRecord(<<>>)]
    /\ Finish(t)
    /\ UNCHANGED <<disk, diskStale, now, nextTurn, seen>>

\* An import that merges what it brings into the session there is.
ImportSession_Merges(t) ==
    LET req == tasks[t].req
        mem == [sessions EXCEPT ![req.session] =
                    NewRecord(ImportCompaction(HistoryOf(req.session)
                                                 \o Incoming(req, nextTurn)))]
    IN  /\ Serving(t, "import") /\ TurnsLeft
        /\ Finish(t)
        /\ IF sessions[req.session] # NoSession /\ ~req.overwrite
           THEN UNCHANGED <<sessions, disk, diskStale, nextTurn>>
           ELSE /\ sessions' = mem /\ Persist(mem)
                /\ nextTurn' = nextTurn + 1
        /\ UNCHANGED <<now, seen>>

(***************************************************************************)
(* import_session_handler: whether the id is taken is decided in the lock  *)
(* section that inserts, after the compaction.                             *)
(***************************************************************************)
ImportSession(t) ==
    LET req == tasks[t].req
        mem == [sessions EXCEPT ![req.session] =
                    NewRecord(ImportCompaction(Incoming(req, nextTurn)))]
    IN  /\ Serving(t, "import") /\ TurnsLeft
        /\ Finish(t)
        /\ IF sessions[req.session] # NoSession /\ ~req.overwrite
           THEN UNCHANGED <<sessions, disk, diskStale, nextTurn>>
           ELSE /\ sessions' = mem /\ Persist(mem)
                /\ nextTurn' = nextTurn + 1
        /\ UNCHANGED <<now, seen>>

\* A deletion that the file never hears of.
DeleteSession_NotSaved(t) ==
    /\ Serving(t, "delete")
    /\ sessions' = [sessions EXCEPT ![tasks[t].req.session] = NoSession]
    /\ Finish(t)
    /\ UNCHANGED <<disk, diskStale, now, nextTurn, seen>>

\* delete_session_handler: saves only if the session existed.
DeleteSession(t) ==
    LET mem == [sessions EXCEPT ![tasks[t].req.session] = NoSession]
    IN  /\ Serving(t, "delete")
        /\ sessions' = mem
        /\ IF mem = sessions THEN UNCHANGED <<disk, diskStale>> ELSE Persist(mem)
        /\ Finish(t)
        /\ UNCHANGED <<now, nextTurn, seen>>

\* spawn_session_ttl_sweeper: the periodic purge.
SweepExpired ==
    /\ Live(sessions, now) # sessions
    /\ Purge
    /\ UNCHANGED <<tasks, now, nextTurn, seen>>

\* flush_sessions_on_shutdown: one more save of what the store holds.
\* (GracefulShutdown says when.)
Flush ==
    /\ Persist(sessions)
    /\ UNCHANGED <<sessions, tasks, now, nextTurn, seen>>

Tick ==
    /\ now < MaxClock
    /\ now' = now + 1
    /\ UNCHANGED <<sessions, disk, diskStale, tasks, nextTurn, seen>>

\* load_sessions: a missing, unreadable or corrupt file counts as empty.
LoadSessions(readable) ==
    sessions' = IF PersistEnabled /\ readable THEN FromImage(disk) ELSE NoSessions

(***************************************************************************)
(* The process dies, with every task in flight, and is started again: the  *)
(* idle time of every session starts anew.                                 *)
(***************************************************************************)
Restart ==
    /\ \E readable \in (IF LoadMayFail THEN BOOLEAN ELSE {TRUE}) :
          LoadSessions(readable) /\ diskStale' = ~readable
    /\ tasks' = [t \in Task |-> Idle]
    /\ UNCHANGED <<disk, now, nextTurn, seen>>

Init ==
    /\ sessions = NoSessions
    /\ disk = NoSessions
    /\ diskStale = FALSE
    /\ tasks = [t \in Task |-> Idle]
    /\ now = 0
    /\ nextTurn = 1
    /\ seen = [k \in Turn |-> {}]

Handle(t) ==
    \/ PrepareChat(t) \/ CommitChat(t) \/ AbandonChat(t)
    \/ ListSessions(t) \/ GetSession(t) \/ ExportSession(t)
    \/ CreateSession(t) \/ ImportSession(t) \/ DeleteSession(t)

Next ==
    \/ \E t \in Task : (\E req \in Requests : Arrive(t, req)) \/ Handle(t)
    \/ SweepExpired
    \/ Flush
    \/ Tick
    \/ Restart

Spec == Init /\ [][Next]_vars

\* The sweeper runs every 30 seconds for as long as the process does.
SweepingSpec == Spec /\ WF_vars(SweepExpired)
-----------------------------------------------------------------------------

(***************************************************************************)
(* The file always holds what the store holds, unless the last save or the *)
(* load failed; only a session that was created and not yet used may be    *)
(* missing from it.  Every path that changes the store must save for this  *)
(* to hold: a commit, an import, a deletion, a purge by any handler.       *)
(***************************************************************************)
DiskMatchesMemory ==
    PersistEnabled /\ ~diskStale =>
        \A s \in Session :
            \/ disk[s] = Image(sessions)[s]
            \/ disk[s] = NoSession /\ Image(sessions)[s] = <<>>

(***************************************************************************)
(* A handler never finds a session that had expired when its request came, *)
(* although it purges in one lock section and reads in another, and other  *)
(* tasks may write sessions back in between.                               *)
(***************************************************************************)
ExpiredUnseen ==
    \A t \in Task : tasks[t].pc = "arrived" =>
        \A s \in Session :
            sessions[s] # NoSession => ~IsExpired(sessions[s], tasks[t].at)

\* A request asks something, and no reply it carries comes before.
AsksQuestion(r) ==
    \E i \in DOMAIN r.roles : /\ r.roles[i] = "user"
                              /\ \A j \in DOMAIN r.roles : r.roles[j] = "assistant" => i < j

\* Every chat asks a question.  Channels and the heartbeat see to it; the
\* HTTP handler takes what a client sends.
ChatsAsk == \A r \in Requests : r.op = "chat" => AsksQuestion(r)

(***************************************************************************)
(* Chats that overlap on a session may lose whole turns, but never mix     *)
(* them: what stands before a reply in a history is its own question, or a *)
(* system message that truncation or a summary has put there.              *)
(***************************************************************************)
TurnsNeverMix ==
    \A s \in Session :
        LET h == HistoryOf(s)
        IN  \A i \in 2 .. Len(h) : h[i].role = "assistant" =>
                h[i - 1].turn = h[i].turn \/ IsSystem(h[i - 1])

(***************************************************************************)
(* Truncation and summaries, applied again and again by concurrent chats,  *)
(* only forget the old end of a conversation: a turn that was in the       *)
(* context of a turn the session still holds is held too, or is older than *)
(* everything the session holds.                                           *)
(***************************************************************************)
HistoryHasNoHoles ==
    \A s \in Session :
        LET held == TurnsOf(HistoryOf(s))
        IN  \A k \in held : \A j \in seen[k] : j \in held \/ \A i \in held : j < i

\* What a chat that finds no session stores: its request, however long, and
\* the reply.
FirstStored(s, h) ==
    \E r \in Requests, k \in Turn :
        /\ r.op = "chat" /\ r.session = s
        /\ h = Append(Incoming(r, k), [role |-> "assistant", turn |-> k])

\* Within the limit, but for one reply, the request that created session s,
\* and system messages.
Bounded(s, h) ==
    \/ Len(h) <= MaxMessages + 1
    \/ FirstStored(s, h)
    \/ Len(h) <= Cardinality(SystemPositions(h)) + 1

(***************************************************************************)
(* A stored history exceeds the limit by at most the last reply, unless    *)
(* it is exactly what the chat that created the session sent and was       *)
(* answered (from the session's next chat on the limit holds), or system   *)
(* messages alone fill it.                                                 *)
(***************************************************************************)
HistoryIsBounded == \A s \in Session : Bounded(s, HistoryOf(s))

(***************************************************************************)
(* Whatever overlaps, a turn is filed only behind what its own model call  *)
(* was given: the turns that stand before it in a history were all in its  *)
(* context.  Chats copy, wait and write back, imports replace, restarts    *)
(* load an older file, truncation moves messages: none of them may put a   *)
(* turn behind one it has not seen, or exchange two turns.                 *)
(***************************************************************************)
TurnsSawTheirPast ==
    \A s \in Session :
        LET h == HistoryOf(s)
            said == DOMAIN h \ SystemPositions(h)
        IN  \A i, j \in said : i < j /\ h[i].turn # h[j].turn
                => h[i].turn \in seen[h[j].turn]

\* An expired session leaves the store, or is touched, whoever is active.
ExpiredLeaves ==
    \A s \in Session :
        (sessions[s] # NoSession /\ IsExpired(sessions[s], now))
            ~> (sessions[s] = NoSession \/ ~IsExpired(sessions[s], now))

(***************************************************************************)
(* README.md:85 says that a chat refreshes the idle time of its session.   *)
(* If it did when the request comes, a session with a chat younger than    *)
(* Ttl in flight would not expire.  It does when the reply is written.     *)
(***************************************************************************)
ChatKeepsSession ==
    \A t \in Task :
        tasks[t].pc = "asking" /\ tasks[t].found /\ now - tasks[t].at < Ttl
            => sessions[tasks[t].req.session] # NoSession
=============================================================================
