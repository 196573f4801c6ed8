-------------------------- MODULE ChannelDelivery --------------------------
(***************************************************************************)
(* A message of a chat platform on its way through the webhooks            *)
(* (hooks_*_handler in crates/jiaclaw-host/src/main.rs): the platform      *)
(* posts it, maybe several times, the handler chats in the session of the  *)
(* conversation and posts the answer back.  Discord's webhook is answered  *)
(* at once and its chat runs in a task of its own; for the others the      *)
(* platform waits for the answer, and may give up.                         *)
(*                                                                         *)
(* The platforms, the network and the model's answer are external.  A      *)
(* session is the sequence of the turns it remembers, each named by its    *)
(* request.  Every turn is saved to the sessions file as it is written, if *)
(* persistence is on and the save succeeds, and a restart has what the     *)
(* file has.  Compaction, idle time and deletion are those of SessionStore.*)
(***************************************************************************)
EXTENDS ChannelMessages

CONSTANTS Event,    \* what the platforms have to say: records of a channel and a body
          Proofs,   \* what requests prove their origin with
          PersistEnabled, \* [http] persist
          SaveMayFail,    \* whether save_sessions may return an error
          LoadMayFail,    \* whether the file may be unreadable at a start
          MaxOffers \* bound: the requests made of the server

ASSUME OffersAssumption == MaxOffers \in Nat
ASSUME FileAssumption == {PersistEnabled, SaveMayFail, LoadMayFail} \subseteq BOOLEAN

VARIABLES requests, \* each request: its event, and where its handler, chat and post are
          closed,   \* the events whose platform was told that they are taken
          history,  \* the turns each session remembers
          disk,     \* the turns it has in the file
          unsaved,  \* history variable: turns written since the last save that succeeded
          forgotten \* history variable: turns a restart has not found in the file

store == <<history, disk, unsaved, forgotten>>
vars == <<requests, closed, store>>

Offer == 1 .. MaxOffers
KindOf == [e \in Event |-> Classify(e.channel, e.body)]
Talk == {e \in Event : KindOf[e].kind = "chat"}
Deferred == {e \in Talk : e.channel = "discord"}
Answered == Talk \ Deferred
Session == {KindOf[e].session : e \in Talk}
SessionOf(e) == KindOf[e].session
Replies == {"text", Blank}

Unused == [http |-> "unused"]
Posts(e) == CanPost(e.channel, e.body)

Request ==
    [event : Event, verified : BOOLEAN,
     http : {"arrived", "waiting", "ok", "error", "gone"},
     chat : {"none", "asked", "asking", "answered", "failed", "lost"},
     held : Seq(Offer), met : SUBSET Offer, reply : Replies,
     post : {"none", "sending", "shown", "unconfirmed", "undelivered", "lost"}]

Unfinished == {"asked", "asking"}

\* Only messages are chatted about, once their handler has seen them, and
\* not after it was dropped.
TypeOK ==
    /\ requests \in [Offer -> Request \cup {Unused}]
    /\ closed \subseteq Event
    /\ history \in [Session -> Seq(Offer)]
    /\ disk \in [Session -> Seq(Offer)]
    /\ unsaved \subseteq Offer
    /\ forgotten \subseteq Offer
    /\ \A r \in Offer : requests[r] # Unused /\ requests[r].chat # "none" =>
          /\ requests[r].event \in Talk
          /\ requests[r].http = "gone" => requests[r].chat \notin Unfinished
          /\ requests[r].http # "arrived"

Used(r) == requests[r] # Unused
Of(e) == {r \in Offer : Used(r) /\ requests[r].event = e}

\* Request r changes to q.
Becomes(r, q) == requests' = [requests EXCEPT ![r] = q]

\* The requests whose turn was written to its session.
Committed == {r \in Offer : Used(r) /\ requests[r].chat = "answered"}

Range_(s) == {s[i] : i \in DOMAIN s}

-----------------------------------------------------------------------------

NoTurns == [s \in Session |-> <<>>]

\* load_sessions finds no file.
Init ==
    /\ requests = [r \in Offer |-> Unused]
    /\ closed = {}
    /\ history = NoTurns
    /\ disk = NoTurns
    /\ unsaved = {}
    /\ forgotten = {}

(***************************************************************************)
(* A platform makes a request of an event until it is told that the event  *)
(* is taken, or sooner again, when the answer is late.  Discord makes one. *)
(***************************************************************************)
PostEvent(e, r, proof) ==
    /\ ~Used(r) /\ \A q \in 1 .. r - 1 : Used(q)
    /\ e \notin closed
    /\ e.channel = "discord" => Of(e) = {}
    /\ Becomes(r,
          [event |-> e, verified |-> Verified(e.channel, proof), http |-> "arrived", chat |-> "none",
           held |-> <<>>, met |-> {}, reply |-> Blank, post |-> "none"])
    /\ UNCHANGED <<closed, store>>

\* The answer to a request, which may be lost: a success closes the event.
Closing(e, status) ==
    \/ UNCHANGED closed
    \/ status = "ok" /\ closed' = closed \cup {e}

At(r, http) == Used(r) /\ requests[r].http = http

\* rate_limit_middleware and max_body_bytes_middleware, before the handler.
TurnAway(r) ==
    /\ At(r, "arrived")
    /\ Becomes(r, [requests[r] EXCEPT !.http = "error"])
    /\ UNCHANGED <<closed, store>>

\* The handler up to the chat: what is no message is answered or refused.
Handle(r) ==
    LET e == requests[r].event
        kind == KindOf[e].kind
    IN  /\ At(r, "arrived")
        /\ \/ /\ ~requests[r].verified \/ kind = "invalid"
              /\ Becomes(r, [requests[r] EXCEPT !.http = "error"])
              /\ UNCHANGED closed
           \/ /\ requests[r].verified /\ kind \in {"skip", "ping", "challenge"}
              /\ Becomes(r, [requests[r] EXCEPT !.http = "ok"])
              /\ Closing(e, "ok")
           \/ /\ requests[r].verified /\ e \in Deferred
              /\ Becomes(r, [requests[r] EXCEPT !.http = "ok", !.chat = "asked"])
              /\ Closing(e, "ok")
           \/ /\ requests[r].verified /\ e \in Answered
              /\ Becomes(r, [requests[r] EXCEPT !.http = "waiting", !.chat = "asked"])
              /\ UNCHANGED closed
        /\ UNCHANGED store

ChatAt(r, chat) == Used(r) /\ requests[r].chat = chat

\* prepare_session_chat_messages copies the session, and the model is asked.
\* met tells the turns that were over by then.
PrepareChat(r) ==
    /\ ChatAt(r, "asked")
    /\ LET h == history[SessionOf(requests[r].event)]
       IN  Becomes(r, [requests[r] EXCEPT !.chat = "asking", !.met = Committed, !.held = h])
    /\ UNCHANGED <<closed, store>>

FirstPost(wanted) == IF wanted THEN "sending" ELSE "none"

\* persist_session_map, after turn r was written: the whole map is saved, and
\* a save that fails is only logged.
Persist(r, map) ==
    \/ /\ PersistEnabled
       /\ disk' = map /\ unsaved' = {}
    \/ /\ PersistEnabled => SaveMayFail
       /\ disk' = disk /\ unsaved' = unsaved \cup {r}

\* A commit that leaves the file to a later save, and tells nobody.
CommitChat_NotSaved(r) ==
    /\ ChatAt(r, "asking")
    /\ history' = [history EXCEPT ![SessionOf(requests[r].event)] = Append(requests[r].held, r)]
    /\ \E reply \in Replies :
          Becomes(r, [requests[r] EXCEPT !.chat = "answered", !.reply = reply,
                                         !.post = FirstPost(Posts(requests[r].event))])
    /\ UNCHANGED <<closed, disk, unsaved, forgotten>>

\* The model has answered: the copy is written back with the turn and saved,
\* and the answer is posted from a blocking thread if there is a token.
CommitChat(r) ==
    LET map == [history EXCEPT ![SessionOf(requests[r].event)] = Append(requests[r].held, r)]
    IN  /\ ChatAt(r, "asking")
        /\ history' = map /\ Persist(r, map)
        /\ \E reply \in Replies :
              Becomes(r, [requests[r] EXCEPT !.chat = "answered", !.reply = reply,
                                             !.post = FirstPost(Posts(requests[r].event))])
        /\ UNCHANGED <<closed, forgotten>>

\* A failed chat that nobody is told of.
ChatFails_Silently(r) ==
    /\ ChatAt(r, "asking")
    /\ Becomes(r, [requests[r] EXCEPT !.chat = "failed"])
    /\ UNCHANGED <<closed, store>>

\* The chat fails: a deferred one posts a notice in place of the answer.
ChatFails(r) ==
    LET e == requests[r].event
    IN  /\ ChatAt(r, "asking")
        /\ Becomes(r, [requests[r] EXCEPT !.chat = "failed", !.reply = "text",
                                      !.post = FirstPost(e \in Deferred /\ Posts(e))])
        /\ UNCHANGED <<closed, store>>

Sending(r) == Used(r) /\ requests[r].post = "sending"

\* The post is shown, whether or not its confirmation comes through.
\* Platforms refuse an empty text.
ShowPost(r) ==
    /\ Sending(r)
    /\ Posted(requests[r].event.channel, requests[r].reply) # Blank
    /\ \E outcome \in {"shown", "unconfirmed"} :
          Becomes(r, [requests[r] EXCEPT !.post = outcome])
    /\ UNCHANGED <<closed, store>>

PostFails(r) ==
    /\ Sending(r)
    /\ Becomes(r, [requests[r] EXCEPT !.post = "undelivered"])
    /\ UNCHANGED <<closed, store>>

\* A failed chat answered as if it had succeeded.
Respond_Anyway(r) ==
    LET http == IF requests[r].chat \in {"answered", "failed"} THEN "ok" ELSE "error"
    IN  /\ At(r, "waiting") /\ requests[r].chat \in {"answered", "failed"} /\ ~Sending(r)
        /\ Becomes(r, [requests[r] EXCEPT !.http = http])
        /\ Closing(requests[r].event, http)
        /\ UNCHANGED store

\* A failed chat is an error to the platform, a failed post is not.
Respond(r) ==
    LET http == IF requests[r].chat = "answered" THEN "ok" ELSE "error"
    IN  /\ At(r, "waiting") /\ requests[r].chat \in {"answered", "failed"} /\ ~Sending(r)
        /\ Becomes(r, [requests[r] EXCEPT !.http = http])
        /\ Closing(requests[r].event, http)
        /\ UNCHANGED store

\* A chat that its task drops where it waits.
Dropped(q) == IF q.chat \in Unfinished THEN "lost" ELSE q.chat

\* The platform gives up waiting and hangs up, which drops the handler where
\* it waits.  A post that a thread has begun goes on.
Drop(r) ==
    /\ At(r, "arrived") \/ At(r, "waiting")
    /\ Becomes(r, [requests[r] EXCEPT !.http = "gone", !.chat = Dropped(requests[r])])
    /\ UNCHANGED <<closed, store>>

\* flush_sessions_on_shutdown, or a handler that saves a purge or a deletion.
SaveSessions ==
    /\ PersistEnabled
    /\ disk' = history /\ unsaved' = {}
    /\ UNCHANGED <<requests, closed, history, forgotten>>

\* load_sessions: the file as it is, or nothing if it cannot be read.
LoadSessions(readable) ==
    /\ history' = IF PersistEnabled /\ readable THEN disk ELSE NoTurns
    /\ unsaved' = {}
    /\ forgotten' = forgotten \cup unsaved \cup (IF readable THEN {} ELSE Committed)
    /\ UNCHANGED disk

\* Handlers and deferred chats are gone with the process; posts are lost
\* unless the exit waits for their thread.
Ended(lost) ==
    [r \in Offer |->
        IF ~Used(r) THEN Unused
        ELSE [requests[r] EXCEPT
                !.http = IF @ \in {"arrived", "waiting"} THEN "gone" ELSE @,
                !.chat = Dropped(requests[r]),
                !.post = IF r \in lost THEN "lost" ELSE @]]

\* The process ends and another one starts.
Stop ==
    /\ \E readable \in (IF LoadMayFail THEN BOOLEAN ELSE {TRUE}) : LoadSessions(readable)
    /\ \E lost \in SUBSET {r \in Offer : Sending(r)} : requests' = Ended(lost)
    /\ UNCHANGED closed

Next ==
    \/ \E r \in Offer :
          \/ \E e \in Event, proof \in Proofs : PostEvent(e, r, proof)
          \/ TurnAway(r) \/ Handle(r) \/ PrepareChat(r) \/ CommitChat(r) \/ ChatFails(r)
          \/ ShowPost(r) \/ PostFails(r) \/ Respond(r) \/ Drop(r)
    \/ SaveSessions
    \/ Stop

(***************************************************************************)
(* Tasks that can run are run; a blocking thread that asks the model ends, *)
(* and one that posts an answer ends by its timeout.                       *)
(***************************************************************************)
Fairness ==
    \A r \in Offer :
        /\ WF_vars(Handle(r)) /\ WF_vars(PrepareChat(r)) /\ WF_vars(Respond(r))
        /\ WF_vars(CommitChat(r) \/ ChatFails(r))
        /\ WF_vars(ShowPost(r) \/ PostFails(r))

Spec == Init /\ [][Next]_vars /\ Fairness

-----------------------------------------------------------------------------

\* The requests of R with their events.
EventsOf(R) == {<<requests[r].event, r>> : r \in R}

(***************************************************************************)
(* The contract with the platforms: an event that waits for its answer is  *)
(* acknowledged only after a turn answered it, and no request leads to two *)
(* turns, whatever is dropped, repeated or lost.                           *)
(***************************************************************************)
Webhook == INSTANCE WebhookContract WITH
    offers <- EventsOf({r \in Offer : Used(r)}),
    turns <- EventsOf(Committed)

KeepsContract == Webhook!Contract

Shown(r) == Used(r) /\ requests[r].post \in {"shown", "unconfirmed"}

\* Two chats on a session, neither of which was over when the other began.
Overlapped(q, r) ==
    /\ SessionOf(requests[q].event) = SessionOf(requests[r].event)
    /\ q \notin requests[r].met /\ r \notin requests[q].met

(***************************************************************************)
(* An answer that was shown in a conversation is remembered by its         *)
(* session, over restarts too, unless another chat of the conversation     *)
(* overlapped it and wrote its own copy of the history over it, or the     *)
(* process ended before a save had succeeded since, or the file could not  *)
(* be read when it started again.                                          *)
(***************************************************************************)
SeenIsRemembered ==
    \A r \in Offer :
        Shown(r) /\ r \in Committed =>
            \/ r \in Range_(history[SessionOf(requests[r].event)])
            \/ r \in forgotten
            \/ \E q \in Committed \ {r} : Overlapped(q, r)

(***************************************************************************)
(* A deferred interaction that was acknowledged has its message edited, or *)
(* the attempt fails, even if its chat fails, unless the process ends.     *)
(***************************************************************************)
DeferredIsAnswered ==
    \A r \in Offer :
        (At(r, "ok") /\ requests[r].event \in Deferred /\ Posts(requests[r].event))
            ~> (ChatAt(r, "lost") \/ (Used(r) /\ requests[r].post \notin {"none", "sending"}))
=============================================================================
