-------------------------- MODULE GracefulShutdown --------------------------
(***************************************************************************)
(* The end of `jiaclaw serve` (serve_with_graceful_shutdown in             *)
(* crates/jiaclaw-host/src/main.rs) around the session store: a signal     *)
(* closes the listener and stops the background tasks, requests in flight  *)
(* get a grace period, the store is saved once more, main returns, and the *)
(* tokio runtime is dropped.                                               *)
(*                                                                         *)
(* Three kinds of task use the store.  Requests come over connections,     *)
(* which the server waits for: one that was accepted before the signal may *)
(* bring its request after it.  The heartbeat is aborted by the signal.    *)
(* The chats of deferred Discord interactions are spawned and known to     *)
(* nobody: neither the grace period nor the abort concerns them.           *)
(*                                                                         *)
(* The model's answer is computed in a blocking thread (spawn_blocking in  *)
(* the provider, or a blocking tool).  Dropping a task does not end its    *)
(* thread, and dropping the runtime waits for all of them.                 *)
(***************************************************************************)
EXTENDS SessionStore

CONSTANTS Heartbeat, \* the heartbeat's task, if there is one
          Detached   \* the tasks of deferred Discord chats

ASSUME ShutdownAssumption ==
    /\ Heartbeat \subseteq Task
    /\ Detached \subseteq Task \ Heartbeat

VARIABLES
    phase,   \* where serve_with_graceful_shutdown is
    drained, \* whether the server task ended within the grace period
    open,    \* the connections that may bring a request
    threads  \* the turns whose answer a blocking thread is computing

allVars == <<vars, phase, drained, open, threads>>

Phase == {"serving", "draining", "closing", "flushed", "stopping", "exited"}

\* A task that serves requests stands for a connection.
Tracked == Task \ (Heartbeat \cup Detached)

LifecycleTypeOK ==
    /\ phase \in Phase
    /\ drained \in BOOLEAN
    /\ open \subseteq Tracked
    /\ threads \subseteq Turn

\* The runtime still polls the tasks that wait for something.
Polling == phase \in {"serving", "draining", "closing", "flushed"}

-----------------------------------------------------------------------------

(***************************************************************************)
(* The bounds MaxTurns and Session: a task is accepted only if a turn, or  *)
(* an id that nobody asks for, is left for it, so that it can go on.       *)
(***************************************************************************)
RoomFor(req) ==
    LET arrived == {t \in Task : tasks[t].pc = "arrived"}
    IN  /\ Cardinality(arrived) < MaxTurns + 1 - nextTurn
        /\ req.op = "create" =>
              /\ \E s \in Session : Fresh(s) /\ \A r \in Requests : r.session # s
              /\ \A t \in arrived : tasks[t].req.op # "create"

\* A task begins: it reaches its handler, which purges first.
Begin(t, req) ==
    /\ RoomFor(req)
    /\ Arrive(t, req)
    /\ UNCHANGED <<phase, drained, threads>>

\* A listener that stays open during the grace period.
Connect_WhileDraining(t) ==
    /\ t \in Tracked \ open
    /\ phase \in {"serving", "draining", "closing"}
    /\ open' = open \cup {t}
    /\ UNCHANGED <<vars, phase, drained, threads>>

\* Connections are accepted until the signal.
Connect(t) ==
    /\ t \in Tracked \ open
    /\ phase = "serving"
    /\ open' = open \cup {t}
    /\ UNCHANGED <<vars, phase, drained, threads>>

\* One that has no request in its handler is closed, by either end.
Disconnect(t) ==
    /\ t \in open /\ tasks[t].pc = "idle"
    /\ open' = open \ {t}
    /\ UNCHANGED <<vars, phase, drained, threads>>

\* A request has been read: one after another, but none after it once the signal is there.
Accept(t, req) ==
    /\ t \in open
    /\ Polling
    /\ Begin(t, req)
    /\ open' = IF phase = "serving" THEN open ELSE open \ {t}

\* The heartbeat ticks until the signal, and its ticks chat.
Beat(t, req) ==
    /\ t \in Heartbeat /\ req.op = "chat"
    /\ phase = "serving"
    /\ Begin(t, req)
    /\ UNCHANGED open

\* A deferred chat, which an interaction has spawned while the server was
\* serving, is polled for the first time, maybe much later.
RunDeferred(t, req) ==
    /\ t \in Detached /\ req.op = "chat"
    /\ Polling
    /\ Begin(t, req)
    /\ UNCHANGED open

\* The chat hands the conversation to a thread.
AskModel(t) ==
    /\ phase # "exited"
    /\ PrepareChat(t)
    /\ threads' = threads \cup {nextTurn}
    /\ UNCHANGED <<phase, drained, open>>

\* The thread is done, and its task goes on, unless it was aborted.
AnswerChat(t) ==
    /\ Polling
    /\ t \in Heartbeat => phase = "serving"
    /\ tasks[t].pc = "asking" /\ tasks[t].turn \notin threads
    /\ CommitChat(t)
    /\ UNCHANGED <<phase, drained, open, threads>>

\* The chat fails, or its task is dropped where it waits: by a client that
\* goes away, by the abort of the heartbeat, or with the runtime.
DropChat(t) ==
    /\ phase # "exited"
    /\ AbandonChat(t)
    /\ UNCHANGED <<phase, drained, open, threads>>

\* The other handlers wait for nothing once they run.
ServeOther(t) ==
    /\ phase # "exited"
    /\ \/ ListSessions(t) \/ GetSession(t) \/ ExportSession(t)
       \/ CreateSession(t) \/ ImportSession(t) \/ DeleteSession(t)
    /\ UNCHANGED <<phase, drained, open, threads>>

ThreadEnds(k) ==
    /\ k \in threads
    /\ threads' = threads \ {k}
    /\ UNCHANGED <<vars, phase, drained, open>>

\* The sweeper is stopped by the signal.
Sweep ==
    /\ phase = "serving"
    /\ SweepExpired
    /\ UNCHANGED <<phase, drained, open, threads>>

PassTime ==
    /\ phase # "exited"
    /\ Tick
    /\ UNCHANGED <<phase, drained, open, threads>>

-----------------------------------------------------------------------------

\* shutdown_signal: SIGINT or SIGTERM. A request in its handler is the last of its connection.
Signal ==
    /\ phase = "serving"
    /\ phase' = "draining"
    /\ open' = {t \in open : tasks[t].pc = "idle"}
    /\ UNCHANGED <<vars, drained, threads>>

\* Every request has been answered and every connection closed, and the server task ends.
DrainEnds ==
    /\ phase = "draining"
    /\ open = {} /\ \A t \in Tracked : tasks[t].pc = "idle"
    /\ phase' = "closing" /\ drained' = TRUE
    /\ UNCHANGED <<vars, open, threads>>

\* A grace period that waits for the requests after all.
GraceExpires_Waits ==
    /\ phase = "draining"
    /\ open = {} /\ \A t \in Tracked : tasks[t].pc = "idle"
    /\ phase' = "closing" /\ drained' = FALSE
    /\ UNCHANGED <<vars, open, threads>>

\* The grace period is over.  The server task is left running.
GraceExpires ==
    /\ phase = "draining"
    /\ phase' = "closing" /\ drained' = FALSE
    /\ UNCHANGED <<vars, open, threads>>

\* The server task has failed: main returns its error, and nothing is saved.
ServerFails ==
    /\ phase = "draining"
    /\ phase' = "stopping" /\ open' = {}
    /\ UNCHANGED <<vars, drained, threads>>

\* An exit without the last save.
FlushSessions_Skipped ==
    /\ phase = "closing"
    /\ phase' = "flushed"
    /\ UNCHANGED <<vars, drained, open, threads>>

\* flush_sessions_on_shutdown, whether the save succeeds or not.
FlushSessions ==
    /\ phase = "closing"
    /\ Flush
    /\ phase' = "flushed"
    /\ UNCHANGED <<drained, open, threads>>

\* main returns: the runtime polls no task that waits, and drops them all.
StopRuntime ==
    /\ phase = "flushed"
    /\ phase' = "stopping" /\ open' = {}
    /\ UNCHANGED <<vars, drained, threads>>

\* Every task has been dropped and every thread has ended.
Exit ==
    /\ phase = "stopping"
    /\ \A t \in Task : tasks[t].pc = "idle"
    /\ threads = {}
    /\ phase' = "exited"
    /\ UNCHANGED <<vars, drained, open, threads>>

\* The process is started, after it has exited or was killed.
StartAgain ==
    /\ Restart
    /\ phase' = "serving" /\ drained' = FALSE /\ open' = {} /\ threads' = {}

LifecycleInit == Init /\ phase = "serving" /\ drained = FALSE /\ open = {} /\ threads = {}

EndGrace == DrainEnds \/ GraceExpires

Poll(t) == AskModel(t) \/ ServeOther(t)

LifecycleNext ==
    \/ \E t \in Task :
          \/ \E req \in Requests : Accept(t, req) \/ Beat(t, req) \/ RunDeferred(t, req)
          \/ Connect(t) \/ Disconnect(t) \/ Poll(t) \/ AnswerChat(t) \/ DropChat(t)
    \/ \E k \in threads : ThreadEnds(k)
    \/ Sweep \/ PassTime
    \/ Signal \/ EndGrace \/ ServerFails \/ FlushSessions \/ StopRuntime \/ Exit
    \/ StartAgain

LifecycleSpec == LifecycleInit /\ [][LifecycleNext]_allVars

(***************************************************************************)
(* The timer of the grace period fires, main goes on, the runtime polls    *)
(* what can run and drops what waits.  Nothing is assumed of clients, nor  *)
(* of the threads.                                                         *)
(***************************************************************************)
HangingSpec ==
    /\ LifecycleSpec
    /\ WF_allVars(EndGrace) /\ WF_allVars(FlushSessions)
    /\ WF_allVars(StopRuntime) /\ WF_allVars(Exit)
    /\ \A t \in Task : WF_allVars(Poll(t)) /\ WF_allVars(phase = "stopping" /\ DropChat(t))

\* Besides, every thread ends: providers answer, and tools return.
FairSpec == HangingSpec /\ \A k \in Turn : WF_allVars(ThreadEnds(k))

-----------------------------------------------------------------------------

(***************************************************************************)
(* Once the sessions have been flushed after a drain, the file is all of   *)
(* the store, the sessions nobody has used yet included, and stays so      *)
(* until the exit: only a failed save, or requests the grace period has    *)
(* cut off, may leave something behind.                                    *)
(***************************************************************************)
CleanExitSavesAll ==
    phase \in {"flushed", "stopping", "exited"} /\ drained /\ PersistEnabled /\ ~diskStale
        => disk = Image(sessions)

(***************************************************************************)
(* After a drain no request is in flight, and no connection can bring one, *)
(* so none is dropped with the runtime.                                    *)
(***************************************************************************)
DrainLosesNoRequest ==
    phase \in {"closing", "flushed", "stopping", "exited"} /\ drained
        => open = {} /\ \A t \in Tracked : tasks[t].pc = "idle"

(***************************************************************************)
(* A process that was told to stop exits (or is started again), even if    *)
(* requests hang and saves fail, as long as blocking threads end.          *)
(***************************************************************************)
ShutdownEnds == phase = "draining" ~> phase \in {"exited", "serving"}

(***************************************************************************)
(* README.md:837-838 gives requests a grace period, after which the        *)
(* process still exits.  It would, whatever the threads do.                *)
(***************************************************************************)
GraceEndsProcess == phase = "closing" ~> phase \in {"exited", "serving"}
=============================================================================
