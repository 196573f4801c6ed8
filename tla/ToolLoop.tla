------------------------------ MODULE ToolLoop ------------------------------
(***************************************************************************)
(* One turn of the agent (execute_tool_loop in crates/jiaclaw/src/lib.rs): *)
(* the model answers, the tools its answer calls are executed one after    *)
(* the other, their results go back to the model, and so on until it calls *)
(* none, it fails, or the limit on answers is reached.                     *)
(*                                                                         *)
(* A tool call is executed under an optional timeout.  A tool that works   *)
(* in a blocking thread (shell_exec, http_get, web_search, web_fetch) is   *)
(* not stopped by it: the loop goes on with an error as the result, and    *)
(* the work goes on behind it.  The other tools finish where they are      *)
(* called, and no timeout reaches them.                                    *)
(*                                                                         *)
(* A call is named by its round and its place in the answer of the round.  *)
(* Left out: what tools do and return, the text of prompts and answers.    *)
(***************************************************************************)
EXTENDS Naturals, Sequences, FiniteSets

CONSTANTS MaxIterations, \* effective max_tool_iterations, 1..32
          TimeoutSet,    \* whether tool_timeout_secs is in force
          Tool,          \* the names an answer may call
          Blocking,      \* the tools that work in a thread of their own
          Answers        \* the sequences of calls an answer may contain

ASSUME ToolLoopAssumption ==
    /\ MaxIterations \in Nat \ {0}
    /\ TimeoutSet \in BOOLEAN
    /\ Blocking \subseteq Tool
    /\ \A a \in Answers : a \in Seq(Tool)

VARIABLES
    pc,        \* the stage of execute_tool_loop
    iteration, \* its counter of answers
    pending,   \* the calls of the current answer not yet executed
    round,     \* executed_tool_calls: the calls of the current round, done
    calls,     \* all_tool_calls: those of the rounds before
    context,   \* messages: what the loop has added to the request
    metrics,   \* how many calls the tool metrics have counted
    running,   \* blocking work begun and not finished
    asked,     \* history variable: every call the model has made, in order
    effects    \* history variable: every piece of work finished, and its call

vars == <<pc, iteration, pending, round, calls, context, metrics, running, asked, effects>>

Outcome == {"ok", "error", "timeout", "limit"}

Call == [tool : Tool, round : Nat, place : Nat]

Recorded == [call : Call, result : Outcome]

\* A message the loop adds: an answer, or the results of one.
ContextMessage == [role : {"assistant", "user"}, size : Nat]

TypeOK ==
    /\ pc \in {"asking", "executing", "done", "failed"}
    /\ iteration \in 1 .. MaxIterations
    /\ pending \in Seq(Call)
    /\ round \in Seq(Recorded)
    /\ calls \in Seq(Recorded)
    /\ context \in Seq(ContextMessage)
    /\ metrics \in Nat
    /\ running \subseteq Call
    /\ asked \in Seq(Call)
    /\ effects \subseteq Call

-----------------------------------------------------------------------------

\* parse_tool_calls: the calls of an answer, in the order of the text.
ParseToolCalls(answer) ==
    [i \in DOMAIN answer |-> [tool |-> answer[i], round |-> iteration, place |-> i]]

Record(call, result) == [call |-> call, result |-> result]

\* Calls that were not executed, reported as if they were.
Unexecuted_Ok(called) == [i \in DOMAIN called |-> Record(called[i], "ok")]

\* finish_at_tool_iteration_limit: what is not executed gets the hint.
Unexecuted(called) == [i \in DOMAIN called |-> Record(called[i], "limit")]

\* The model answers without calling a tool: the turn is over.
FinalAnswer ==
    /\ pc = "asking"
    /\ <<>> \in Answers
    /\ pc' = "done"
    /\ UNCHANGED <<iteration, pending, round, calls, context, metrics, running, asked, effects>>

\* The limit stops the loop, and the calls it leaves are forgotten.
AnswerAtLimit_Drops(answer) ==
    /\ pc = "asking" /\ answer # <<>> /\ iteration >= MaxIterations
    /\ asked' = asked \o ParseToolCalls(answer)
    /\ pc' = "done"
    /\ UNCHANGED <<iteration, pending, round, calls, context, metrics, running, effects>>

\* The model still calls tools in the last answer it gets to give: none of
\* them is executed, and each is reported with the hint.
AnswerAtLimit(answer) ==
    /\ pc = "asking" /\ answer # <<>> /\ iteration >= MaxIterations
    /\ asked' = asked \o ParseToolCalls(answer)
    /\ calls' = calls \o Unexecuted(ParseToolCalls(answer))
    /\ pc' = "done"
    /\ UNCHANGED <<iteration, pending, round, context, metrics, running, effects>>

\* A limit that is checked one answer too late.
AnswerWithCalls_LateLimit(answer) ==
    /\ pc = "asking" /\ answer # <<>>
    /\ asked' = asked \o ParseToolCalls(answer)
    /\ pending' = ParseToolCalls(answer)
    /\ pc' = "executing"
    /\ UNCHANGED <<iteration, round, calls, context, metrics, running, effects>>

\* The model calls tools, and may still see their results.
AnswerWithCalls(answer) ==
    /\ pc = "asking" /\ answer # <<>> /\ iteration < MaxIterations
    /\ asked' = asked \o ParseToolCalls(answer)
    /\ pending' = ParseToolCalls(answer)
    /\ pc' = "executing"
    /\ UNCHANGED <<iteration, round, calls, context, metrics, running, effects>>

(***************************************************************************)
(* The provider fails: complete_turn's error ends the turn, and with it    *)
(* goes the report of whatever has been executed.                          *)
(***************************************************************************)
ProviderFails ==
    /\ pc = "asking"
    /\ pc' = "failed"
    /\ UNCHANGED <<iteration, pending, round, calls, context, metrics, running, asked, effects>>

Current == Head(pending)

\* Metrics that count the successes only.
RecordResult_CountsOk(result) ==
    /\ round' = Append(round, Record(Current, result))
    /\ metrics' = IF result = "ok" THEN metrics + 1 ELSE metrics
    /\ pending' = Tail(pending)

\* execute_and_record, its end: the result goes into the call and the metrics.
RecordResult(result) ==
    /\ round' = Append(round, Record(Current, result))
    /\ metrics' = metrics + 1
    /\ pending' = Tail(pending)

\* A tool that is not blocking does its work; any tool may refuse to (it does
\* not exist, or not with these arguments).
ExecuteInline(result) ==
    /\ pc = "executing" /\ pending # <<>> /\ Current \notin running
    /\ result = "error" \/ Current.tool \notin Blocking
    /\ RecordResult(result)
    /\ effects' = IF result = "ok" THEN effects \cup {Current} ELSE effects
    /\ UNCHANGED <<pc, iteration, calls, context, running, asked>>

\* A blocking tool starts its thread and is waited for.
StartBlocking ==
    /\ pc = "executing" /\ pending # <<>> /\ Current.tool \in Blocking
    /\ Current \notin running
    /\ running' = running \cup {Current}
    /\ UNCHANGED <<pc, iteration, pending, round, calls, context, metrics, asked, effects>>

\* The thread the loop waits for ends in time.
FinishBlocking(result) ==
    /\ pc = "executing" /\ pending # <<>> /\ Current \in running
    /\ result \in {"ok", "error"}
    /\ running' = running \ {Current}
    /\ effects' = effects \cup {Current}
    /\ RecordResult(result)
    /\ UNCHANGED <<pc, iteration, calls, context, asked>>

\* A deadline that is looked at between calls only.
TimeoutBlocking_BetweenCalls ==
    /\ TimeoutSet
    /\ pc = "executing" /\ pending # <<>> /\ Current \notin running
    /\ RecordResult("timeout")
    /\ UNCHANGED <<pc, iteration, calls, context, running, asked, effects>>

\* execute_with_timeout gives up waiting; the thread is not told.
TimeoutBlocking ==
    /\ TimeoutSet
    /\ pc = "executing" /\ pending # <<>> /\ Current \in running
    /\ RecordResult("timeout")
    /\ UNCHANGED <<pc, iteration, calls, context, running, asked, effects>>

\* The future of the turn is dropped where it waits: the client went away, or
\* the heartbeat is being stopped.
Abandon ==
    /\ pc \in {"asking", "executing"}
    /\ pc' = "failed"
    /\ UNCHANGED <<iteration, pending, round, calls, context, metrics, running, asked, effects>>

IsWaitedFor(call) == pc = "executing" /\ pending # <<>> /\ call = Current

\* A thread nobody waits for ends.
FinishLate(call) ==
    /\ call \in running
    /\ ~IsWaitedFor(call)
    /\ running' = running \ {call}
    /\ effects' = effects \cup {call}
    /\ UNCHANGED <<pc, iteration, pending, round, calls, context, metrics, asked>>

Message(role, size) == [role |-> role, size |-> size]

\* A round whose results reach the model without the answer that asked.
EndRound_ResultsOnly ==
    /\ pc = "executing" /\ pending = <<>>
    /\ calls' = calls \o round
    /\ context' = Append(context, Message("user", Len(round)))
    /\ round' = <<>>
    /\ iteration' = iteration + 1
    /\ pc' = "asking"
    /\ UNCHANGED <<pending, metrics, running, asked, effects>>

\* Every call of the answer has a result: the answer and the results join
\* the conversation, and the model is asked again.
EndRound ==
    /\ pc = "executing" /\ pending = <<>>
    /\ calls' = calls \o round
    /\ context' = context \o <<Message("assistant", Len(round)), Message("user", Len(round))>>
    /\ round' = <<>>
    /\ iteration' = iteration + 1
    /\ pc' = "asking"
    /\ UNCHANGED <<pending, metrics, running, asked, effects>>

Init ==
    /\ pc = "asking"
    /\ iteration = 1
    /\ pending = <<>> /\ round = <<>> /\ calls = <<>> /\ context = <<>>
    /\ metrics = 0
    /\ running = {}
    /\ asked = <<>> /\ effects = {}

Answer ==
    \/ FinalAnswer \/ ProviderFails
    \/ \E a \in Answers : AnswerWithCalls(a) \/ AnswerAtLimit(a)

Proceed == (\E result \in {"ok", "error"} : ExecuteInline(result)) \/ StartBlocking \/ EndRound

Next ==
    \/ Answer \/ Proceed \/ TimeoutBlocking \/ Abandon
    \/ \E result \in {"ok", "error"} : FinishBlocking(result)
    \/ \E call \in running : FinishLate(call)

Spec == Init /\ [][Next]_vars

(***************************************************************************)
(* The provider answers or fails (an assumption: its HTTP clients set no   *)
(* timeout), the loop itself goes on, and the timer fires.  Nothing is     *)
(* assumed of the blocking tools: they may hang.                           *)
(***************************************************************************)
FairSpec == Spec /\ WF_vars(Answer) /\ WF_vars(Proceed) /\ WF_vars(TimeoutBlocking)

-----------------------------------------------------------------------------

\* The calls of a round that have been reported.
CallsOfRound(k) == {i \in DOMAIN calls : calls[i].call.round = k}

(***************************************************************************)
(* A turn that ends well reports every call the model has made, in the     *)
(* order it made them: those of earlier rounds, those that failed or timed *)
(* out, and those the limit has kept from being executed.                  *)
(***************************************************************************)
EveryCallReported ==
    pc = "done" =>
        /\ Len(calls) = Len(asked)
        /\ \A i \in DOMAIN calls : calls[i].call = asked[i]

(***************************************************************************)
(* Whenever the model is asked again it sees, for every earlier round, its *)
(* own answer and then as many results as that answer had calls.           *)
(***************************************************************************)
ContextIsPaired ==
    pc = "asking" =>
        /\ Len(context) = 2 * (iteration - 1)
        /\ \A k \in 1 .. iteration - 1 :
              LET n == Cardinality(CallsOfRound(k))
              IN  n > 0 /\ context[2 * k - 1] = Message("assistant", n)
                        /\ context[2 * k] = Message("user", n)

(***************************************************************************)
(* What the report says of a call is true of its work: a call with the     *)
(* limit's hint never ran, one that was a success has done its work, and   *)
(* only a call reported as timed out may still be at work.                 *)
(***************************************************************************)
ReportIsTrue ==
    \A i \in DOMAIN calls :
        /\ calls[i].result = "limit" => calls[i].call \notin running \cup effects
        /\ calls[i].result = "ok" => calls[i].call \in effects
        /\ calls[i].call \in running => calls[i].result = "timeout"

(***************************************************************************)
(* The tool metrics count exactly the calls that were executed, failures   *)
(* and timeouts included.                                                  *)
(***************************************************************************)
MetricsCountExecutions ==
    metrics = Len(round) + Cardinality({i \in DOMAIN calls : calls[i].result # "limit"})

(***************************************************************************)
(* A turn ends, even if the model calls tools in every answer and a        *)
(* blocking tool never returns, as long as a timeout is set.               *)
(***************************************************************************)
TurnEnds == <>(pc \in {"done", "failed"})
=============================================================================
