--------------------------- MODULE ToolLoopProofs ---------------------------
(***************************************************************************)
(* A turn of the agent accounts for every tool call, for every limit,      *)
(* every set of tools and every set of answers.                            *)
(***************************************************************************)
EXTENDS ToolLoop, SequenceTheorems, FiniteSetTheorems, TLAPS

(***************************************************************************)
(* What the model has asked for is, in this order, what has been reported, *)
(* what this round has done, and what it has still to do.                  *)
(***************************************************************************)
Ledger ==
    /\ Len(asked) = Len(calls) + Len(round) + Len(pending)
    /\ \A i \in 1 .. Len(calls) : calls[i].call = asked[i]
    /\ \A i \in 1 .. Len(round) : round[i].call = asked[Len(calls) + i]
    /\ \A i \in 1 .. Len(pending) : pending[i] = asked[Len(calls) + Len(round) + i]
    /\ pc \in {"asking", "done"} => round = <<>> /\ pending = <<>>

\* Calls are executed only if the model may still see their results.
BelowLimit == pc = "executing" => iteration < MaxIterations

Inv == TypeOK /\ BelowLimit /\ Ledger

-----------------------------------------------------------------------------

LEMMA ParsedType ==
    ASSUME TypeOK, NEW answer \in Answers
    PROVE  /\ ParseToolCalls(answer) \in Seq(Call)
           /\ Len(ParseToolCalls(answer)) = Len(answer)
<1>1. answer \in Seq(Tool) /\ Len(answer) \in Nat /\ DOMAIN answer = 1 .. Len(answer)
  BY ToolLoopAssumption, LenProperties
<1>2. \A i \in 1 .. Len(answer) : answer[i] \in Tool
  BY <1>1, ElementOfSeq
<1>3. iteration \in Nat
  BY ToolLoopAssumption DEF TypeOK
<1>4. ParseToolCalls(answer) \in [1 .. Len(answer) -> Call]
  BY <1>1, <1>2, <1>3 DEF ParseToolCalls, Call
<1>5. QED
  BY <1>1, <1>4

LEMMA UnexecutedType ==
    ASSUME NEW called \in Seq(Call)
    PROVE  /\ Unexecuted(called) \in Seq(Recorded)
           /\ Len(Unexecuted(called)) = Len(called)
           /\ \A i \in 1 .. Len(called) : Unexecuted(called)[i].call = called[i]
<1>1. Len(called) \in Nat /\ DOMAIN called = 1 .. Len(called)
  BY LenProperties
<1>2. \A i \in 1 .. Len(called) : called[i] \in Call
  BY ElementOfSeq
<1>3. /\ Unexecuted(called) \in [1 .. Len(called) -> Recorded]
      /\ \A i \in 1 .. Len(called) : Unexecuted(called)[i].call = called[i]
  BY <1>1, <1>2 DEF Unexecuted, Record, Recorded, Outcome
<1>4. QED
  BY <1>1, <1>3

\* A result moves the first of the calls to do to the calls done.
LEMMA RecordedStep ==
    ASSUME TypeOK, pending # <<>>, NEW result \in Outcome, RecordResult(result)
    PROVE  /\ Current \in Call /\ Current = pending[1]
           /\ round' \in Seq(Recorded) /\ pending' \in Seq(Call) /\ metrics' \in Nat
           /\ Len(round') = Len(round) + 1 /\ Len(pending) = Len(pending') + 1
           /\ \A i \in 1 .. Len(round) : round'[i] = round[i]
           /\ round'[Len(round) + 1].call = pending[1]
           /\ \A i \in 1 .. Len(pending') : pending'[i] = pending[i + 1]
<1>1. /\ pending \in Seq(Call) /\ round \in Seq(Recorded) /\ metrics \in Nat
  BY DEF TypeOK
<1>2. /\ Current \in Call /\ Current = pending[1]
      /\ Tail(pending) \in Seq(Call) /\ Len(Tail(pending)) = Len(pending) - 1
      /\ \A i \in 1 .. Len(Tail(pending)) : Tail(pending)[i] = pending[i + 1]
      /\ Len(pending) \in Nat /\ Len(round) \in Nat
  BY <1>1, HeadTailProperties, LenProperties, ElementOfSeq, EmptySeq DEF Current
<1>3. Record(Current, result) \in Recorded /\ Record(Current, result).call = Current
  BY <1>2 DEF Record, Recorded
<1>4. QED
  BY <1>1, <1>2, <1>3, AppendProperties DEF RecordResult

LEMMA MessageType ==
    ASSUME NEW n \in Nat
    PROVE  Message("assistant", n) \in ContextMessage /\ Message("user", n) \in ContextMessage
BY DEF Message, ContextMessage

\* The type invariant in the next state, action by action.
LEMMA TypeNext == TypeOK /\ BelowLimit /\ [Next]_vars => TypeOK'
<1> SUFFICES ASSUME TypeOK, BelowLimit, [Next]_vars PROVE TypeOK'
  OBVIOUS
<1>1. CASE FinalAnswer \/ ProviderFails \/ Abandon
  BY <1>1 DEF FinalAnswer, ProviderFails, Abandon, TypeOK
<1>2. ASSUME NEW a \in Answers, AnswerWithCalls(a) PROVE TypeOK'
  <2>1. asked \o ParseToolCalls(a) \in Seq(Call) /\ ParseToolCalls(a) \in Seq(Call)
    BY ParsedType, ConcatProperties DEF TypeOK
  <2>2. QED
    BY <1>2, <2>1 DEF AnswerWithCalls, TypeOK
<1>3. ASSUME NEW a \in Answers, AnswerAtLimit(a) PROVE TypeOK'
  <2>1. asked \o ParseToolCalls(a) \in Seq(Call) /\ ParseToolCalls(a) \in Seq(Call)
    BY ParsedType, ConcatProperties DEF TypeOK
  <2>2. calls \o Unexecuted(ParseToolCalls(a)) \in Seq(Recorded)
    BY <2>1, UnexecutedType, ConcatProperties DEF TypeOK
  <2>3. QED
    BY <1>3, <2>1, <2>2 DEF AnswerAtLimit, TypeOK
<1>4. ASSUME NEW result \in {"ok", "error"}, ExecuteInline(result) PROVE TypeOK'
  <2>1. pending # <<>> /\ RecordResult(result) /\ result \in Outcome
    BY <1>4 DEF ExecuteInline, Outcome
  <2>2. QED
    BY <1>4, <2>1, RecordedStep DEF ExecuteInline, TypeOK
<1>5. ASSUME NEW result \in {"ok", "error"}, FinishBlocking(result) PROVE TypeOK'
  <2>1. pending # <<>> /\ RecordResult(result) /\ result \in Outcome
    BY <1>5 DEF FinishBlocking, Outcome
  <2>2. QED
    BY <1>5, <2>1, RecordedStep DEF FinishBlocking, TypeOK
<1>6. CASE TimeoutBlocking
  <2>1. pending # <<>> /\ RecordResult("timeout") /\ "timeout" \in Outcome
    BY <1>6 DEF TimeoutBlocking, Outcome
  <2>2. QED
    BY <1>6, <2>1, RecordedStep DEF TimeoutBlocking, TypeOK
<1>7. CASE StartBlocking
  <2>1. Current \in Call
    BY <1>7, HeadTailProperties DEF StartBlocking, TypeOK, Current
  <2>2. QED
    BY <1>7, <2>1 DEF StartBlocking, TypeOK
<1>8. CASE EndRound
  <2>1. calls \o round \in Seq(Recorded) /\ Len(round) \in Nat
    BY ConcatProperties, LenProperties DEF TypeOK
  <2>2. <<Message("assistant", Len(round)), Message("user", Len(round))>> \in Seq(ContextMessage)
    BY <2>1, MessageType
  <2>3. context \o <<Message("assistant", Len(round)), Message("user", Len(round))>>
            \in Seq(ContextMessage)
    BY <2>2, ConcatProperties DEF TypeOK
  <2>4. iteration + 1 \in 1 .. MaxIterations
    BY <1>8, ToolLoopAssumption DEF EndRound, TypeOK, BelowLimit
  <2>5. QED
    BY <1>8, <2>1, <2>3, <2>4 DEF EndRound, TypeOK
<1>9. ASSUME NEW call \in running, FinishLate(call) PROVE TypeOK'
  BY <1>9 DEF FinishLate, TypeOK
<1>10. CASE UNCHANGED vars
  BY <1>10 DEF vars, TypeOK
<1>11. QED
  BY <1>1, <1>2, <1>3, <1>4, <1>5, <1>6, <1>7, <1>8, <1>9, <1>10 DEF Next, Answer, Proceed

LEMMA BelowLimitNext == BelowLimit /\ [Next]_vars => BelowLimit'
BY DEF BelowLimit, Next, vars, Answer, Proceed, FinalAnswer, ProviderFails, AnswerWithCalls,
       AnswerAtLimit, ExecuteInline, StartBlocking, EndRound, TimeoutBlocking, Abandon,
       FinishBlocking, FinishLate

-----------------------------------------------------------------------------

\* What is appended to a sequence is found behind it.
LEMMA Appended ==
    ASSUME NEW S, NEW s \in Seq(S), NEW t \in Seq(S)
    PROVE  /\ Len(s \o t) = Len(s) + Len(t)
           /\ \A i \in 1 .. Len(s) : (s \o t)[i] = s[i]
           /\ \A i \in 1 .. Len(t) : (s \o t)[Len(s) + i] = t[i]
<1>1. Len(s) \in Nat /\ Len(t) \in Nat
  BY LenProperties
<1>2. QED
  BY <1>1, ConcatProperties

\* A result moves one call from those to do to those done; the ledger stands.
LEMMA RecordKeepsLedger ==
    ASSUME TypeOK, Ledger, pc = "executing", pc' = pc, pending # <<>>,
           asked' = asked, calls' = calls,
           NEW result \in Outcome, RecordResult(result)
    PROVE  Ledger'
<1>r. /\ round' \in Seq(Recorded) /\ pending' \in Seq(Call)
      /\ Len(round') = Len(round) + 1 /\ Len(pending) = Len(pending') + 1
  BY RecordedStep
<1>1. /\ Len(asked) \in Nat /\ Len(calls) \in Nat /\ Len(round) \in Nat
      /\ Len(pending') \in Nat /\ Len(pending) \in Nat
  BY <1>r, LenProperties DEF TypeOK
<1>2. Len(asked') = Len(calls') + Len(round') + Len(pending')
  <2>1. Len(asked') = Len(asked) /\ Len(calls') = Len(calls)
    OBVIOUS
  <2>2. Len(asked) = Len(calls) + Len(round) + Len(pending)
    BY DEF Ledger
  <2>3. QED
    BY <1>1, <1>r, <2>1, <2>2
<1>3. \A i \in 1 .. Len(calls') : calls'[i].call = asked'[i]
  BY DEF Ledger
<1>4. ASSUME NEW i \in 1 .. Len(round') PROVE round'[i].call = asked'[Len(calls') + i]
  <2>1. CASE i \in 1 .. Len(round)
    BY <2>1, RecordedStep DEF Ledger
  <2>2. CASE i = Len(round) + 1
    <3>1. 1 \in 1 .. Len(pending)
      BY <1>1, RecordedStep
    <3>2. pending[1] = asked[Len(calls) + Len(round) + 1]
      BY <3>1 DEF Ledger
    <3>3. Len(calls) + Len(round) + 1 = Len(calls) + i
      BY <1>1, <2>2
    <3>4. QED
      BY <2>2, <3>2, <3>3, RecordedStep
  <2>3. QED
    BY <1>1, <2>1, <2>2, RecordedStep
<1>5. ASSUME NEW i \in 1 .. Len(pending')
      PROVE  pending'[i] = asked'[Len(calls') + Len(round') + i]
  <2>1. i + 1 \in 1 .. Len(pending) /\ pending'[i] = pending[i + 1]
    BY <1>1, RecordedStep
  <2>2. pending[i + 1] = asked[Len(calls) + Len(round) + (i + 1)]
    BY <2>1 DEF Ledger
  <2>3. Len(calls) + Len(round) + (i + 1) = Len(calls') + Len(round') + i
    <3>1. i \in Nat
      BY <1>1
    <3>2. QED
      BY <1>1, <1>r, <3>1
  <2>4. QED
    BY <2>1, <2>2, <2>3
<1>6. QED
  BY <1>2, <1>3, <1>4, <1>5 DEF Ledger

\* An answer's calls are asked for and still to do.
LEMMA AnswerKeepsLedger ==
    ASSUME TypeOK, Ledger, NEW a \in Answers, AnswerWithCalls(a)
    PROVE  Ledger'
<1>p. PICK P : P = ParseToolCalls(a)
  OBVIOUS
<1>1. /\ P \in Seq(Call) /\ Len(P) \in Nat
      /\ asked \in Seq(Call) /\ Len(asked) \in Nat /\ Len(calls) \in Nat
  BY <1>p, ParsedType, LenProperties DEF TypeOK
<1>2. /\ round = <<>> /\ pending = <<>> /\ Len(round) = 0 /\ Len(asked) = Len(calls)
      /\ round' = round /\ calls' = calls /\ pending' = P /\ asked' = asked \o P
      /\ pc' = "executing"
  BY <1>1, <1>p DEF AnswerWithCalls, Ledger
<1>3. /\ Len(asked') = Len(asked) + Len(P)
      /\ \A i \in 1 .. Len(asked) : asked'[i] = asked[i]
      /\ \A i \in 1 .. Len(P) : asked'[Len(asked) + i] = P[i]
  <2>1. asked \in Seq(Call) /\ P \in Seq(Call) /\ asked' = asked \o P
    BY <1>1, <1>2
  <2>2. QED
    BY <2>1, Appended
<1>4. \A i \in 1 .. Len(calls) : calls[i].call = asked[i]
  BY DEF Ledger
<1>5. QED
  BY <1>1, <1>2, <1>3, <1>4, SMTT(30) DEF Ledger

\* At the limit they are asked for and reported at once.
LEMMA LimitKeepsLedger ==
    ASSUME TypeOK, Ledger, NEW a \in Answers, AnswerAtLimit(a)
    PROVE  Ledger'
<1>p. PICK P : P = ParseToolCalls(a)
  OBVIOUS
<1>u. PICK U : U = Unexecuted(P)
  OBVIOUS
<1>1. /\ P \in Seq(Call) /\ Len(P) \in Nat /\ U \in Seq(Recorded) /\ Len(U) = Len(P)
      /\ \A i \in 1 .. Len(P) : U[i].call = P[i]
      /\ asked \in Seq(Call) /\ calls \in Seq(Recorded)
      /\ Len(asked) \in Nat /\ Len(calls) \in Nat
  BY <1>p, <1>u, ParsedType, UnexecutedType, LenProperties DEF TypeOK
<1>2. /\ round = <<>> /\ pending = <<>> /\ Len(round) = 0 /\ Len(pending) = 0
      /\ Len(asked) = Len(calls)
      /\ round' = round /\ pending' = pending /\ calls' = calls \o U /\ asked' = asked \o P
  BY <1>1, <1>p, <1>u DEF AnswerAtLimit, Ledger
<1>3. /\ Len(asked') = Len(asked) + Len(P)
      /\ \A i \in 1 .. Len(asked) : asked'[i] = asked[i]
      /\ \A i \in 1 .. Len(P) : asked'[Len(asked) + i] = P[i]
  <2>1. asked \in Seq(Call) /\ P \in Seq(Call) /\ asked' = asked \o P
    BY <1>1, <1>2
  <2>2. QED
    BY <2>1, Appended
<1>4. /\ Len(calls') = Len(calls) + Len(U)
      /\ \A i \in 1 .. Len(calls) : calls'[i] = calls[i]
      /\ \A i \in 1 .. Len(U) : calls'[Len(calls) + i] = U[i]
  <2>1. calls \in Seq(Recorded) /\ U \in Seq(Recorded) /\ calls' = calls \o U
    BY <1>1, <1>2
  <2>2. QED
    BY <2>1, Appended
<1>5. ASSUME NEW i \in 1 .. Len(calls') PROVE calls'[i].call = asked'[i]
  <2>1. CASE i \in 1 .. Len(calls)
    BY <1>2, <1>3, <1>4, <2>1 DEF Ledger
  <2>2. CASE i > Len(calls)
    <3>1. PICK j \in 1 .. Len(P) : i = Len(calls) + j
      <4>1. i - Len(calls) \in 1 .. Len(P) /\ i = Len(calls) + (i - Len(calls))
        BY <1>1, <1>4, <2>2
      <4>2. QED
        BY <4>1
    <3>2. QED
      BY <1>1, <1>2, <1>3, <1>4, <3>1
  <2>3. QED
    BY <1>1, <2>1, <2>2
<1>6. QED
  BY <1>1, <1>2, <1>3, <1>4, <1>5 DEF Ledger

\* A round's calls join those of the earlier rounds.
LEMMA EndRoundKeepsLedger == ASSUME TypeOK, Ledger, EndRound PROVE Ledger'
<1>1. /\ calls \in Seq(Recorded) /\ round \in Seq(Recorded)
      /\ Len(calls) \in Nat /\ Len(round) \in Nat /\ Len(asked) \in Nat
  BY LenProperties DEF TypeOK
<1>2. /\ pending = <<>> /\ pending' = <<>> /\ round' = <<>> /\ calls' = calls \o round
      /\ asked' = asked /\ Len(pending) = 0 /\ Len(round') = 0 /\ Len(pending') = 0
  BY DEF EndRound
<1>3. /\ Len(calls') = Len(calls) + Len(round)
      /\ \A i \in 1 .. Len(calls) : calls'[i] = calls[i]
      /\ \A i \in 1 .. Len(round) : calls'[Len(calls) + i] = round[i]
  BY <1>1, <1>2, Appended
<1>4. ASSUME NEW i \in 1 .. Len(calls') PROVE calls'[i].call = asked'[i]
  <2>1. CASE i \in 1 .. Len(calls)
    BY <1>2, <1>3, <2>1 DEF Ledger
  <2>2. CASE i > Len(calls)
    <3>1. PICK j \in 1 .. Len(round) : i = Len(calls) + j
      <4>1. i - Len(calls) \in 1 .. Len(round) /\ i = Len(calls) + (i - Len(calls))
        BY <1>1, <1>3, <2>2
      <4>2. QED
        BY <4>1
    <3>2. round[j].call = asked[Len(calls) + j]
      BY DEF Ledger
    <3>3. QED
      BY <1>2, <1>3, <3>1, <3>2
  <2>3. QED
    BY <1>1, <2>1, <2>2
<1>5. Len(asked') = Len(calls') + Len(round') + Len(pending')
  BY <1>1, <1>2, <1>3 DEF Ledger
<1>6. QED
  BY <1>1, <1>2, <1>4, <1>5 DEF Ledger

LEMMA LedgerNext == TypeOK /\ Ledger /\ [Next]_vars => Ledger'
<1> SUFFICES ASSUME TypeOK, Ledger, [Next]_vars PROVE Ledger'
  OBVIOUS
<1>1. CASE FinalAnswer
  BY <1>1 DEF FinalAnswer, Ledger
<1>2. CASE ProviderFails \/ Abandon
  BY <1>2 DEF ProviderFails, Abandon, Ledger
<1>3. CASE \E a \in Answers : AnswerWithCalls(a) \/ AnswerAtLimit(a)
  BY <1>3, AnswerKeepsLedger, LimitKeepsLedger
<1>4. CASE \E result \in {"ok", "error"} : ExecuteInline(result) \/ FinishBlocking(result)
  BY <1>4, RecordKeepsLedger DEF ExecuteInline, FinishBlocking, Outcome
<1>5. CASE TimeoutBlocking
  BY <1>5, RecordKeepsLedger DEF TimeoutBlocking, Outcome
<1>6. CASE StartBlocking \/ \E call \in running : FinishLate(call)
  BY <1>6 DEF StartBlocking, FinishLate, Ledger
<1>7. CASE EndRound
  BY <1>7, EndRoundKeepsLedger
<1>8. CASE UNCHANGED vars
  BY <1>8 DEF vars, Ledger
<1>9. QED
  BY <1>1, <1>2, <1>3, <1>4, <1>5, <1>6, <1>7, <1>8 DEF Next, Answer, Proceed

-----------------------------------------------------------------------------

LEMMA InvHolds == Spec => []Inv
<1>1. Init => Inv
  BY ToolLoopAssumption, EmptySeq DEF Init, Inv, TypeOK, BelowLimit, Ledger
<1>2. Inv /\ [Next]_vars => Inv'
  BY TypeNext, BelowLimitNext, LedgerNext DEF Inv
<1>3. QED
  BY <1>1, <1>2, PTL DEF Spec

(***************************************************************************)
(* execute_tool_loop keeps its counter within the limit, and its lists of  *)
(* calls and messages well formed, whatever the model answers.             *)
(***************************************************************************)
THEOREM TypeCorrect == Spec => []TypeOK
<1>1. Inv => TypeOK
  BY DEF Inv
<1>2. QED
  BY <1>1, InvHolds, PTL

(***************************************************************************)
(* A turn that ends well reports every tool call the model made, in order: *)
(* what execute_tool_loop and finish_at_tool_iteration_limit collect.      *)
(***************************************************************************)
THEOREM EveryCallIsReported == Spec => []EveryCallReported
<1>1. Inv => EveryCallReported
  <2> SUFFICES ASSUME Inv, pc = "done" PROVE EveryCallReported
    BY DEF EveryCallReported
  <2>1. round = <<>> /\ pending = <<>> /\ Len(round) = 0 /\ Len(pending) = 0
    BY DEF Inv, Ledger
  <2>2. Len(asked) \in Nat /\ Len(calls) \in Nat /\ DOMAIN calls = 1 .. Len(calls)
    BY LenProperties DEF Inv, TypeOK
  <2>3. QED
    BY <2>1, <2>2 DEF Inv, Ledger, EveryCallReported
<1>2. QED
  BY <1>1, InvHolds, PTL

-----------------------------------------------------------------------------
(***************************************************************************)
(* What the calls of a turn are numbered by: those of the current round    *)
(* carry its number and their places, those of the report and the work     *)
(* begun earlier ones, until the last answer is reported unexecuted.       *)
(***************************************************************************)
Numbered ==
    /\ \A i \in 1 .. Len(round) :
          round[i].call.round = iteration /\ round[i].call.place = i /\ round[i].result # "limit"
    /\ \A i \in 1 .. Len(pending) :
          pending[i].round = iteration /\ pending[i].place = Len(round) + i
    /\ pc = "executing" => Len(round) + Len(pending) > 0
    /\ pc \in {"asking", "executing"} => \A i \in 1 .. Len(calls) : calls[i].call.round < iteration
    /\ \A c \in running \cup effects : c.round <= iteration /\ (pc = "asking" => c.round < iteration)

\* A record is true of the work of its call, given the calls at work and those done.
Truthful(record, working, done) ==
    /\ record.result = "limit" => record.call \notin working \cup done
    /\ record.result = "ok" => record.call \in done
    /\ record.call \in working => record.result = "timeout"

AllTruthful ==
    /\ \A i \in 1 .. Len(calls) : Truthful(calls[i], running, effects)
    /\ \A i \in 1 .. Len(round) : Truthful(round[i], running, effects)

\* The calls reported as executed.
Executed == {i \in 1 .. Len(calls) : calls[i].result # "limit"}

CountsHold == metrics = Len(round) + Cardinality(Executed)

\* The places in a report of the calls of a round.
CallsOf(report, k) == {i \in 1 .. Len(report) : report[i].call.round = k}

\* Rounds are in the conversation in pairs, also while one is executed.
PairsHold ==
    pc \in {"asking", "executing"} =>
        /\ Len(context) = 2 * (iteration - 1)
        /\ \A k \in 1 .. iteration - 1 :
              LET n == Cardinality(CallsOf(calls, k))
              IN  n > 0 /\ context[2 * k - 1] = Message("assistant", n)
                        /\ context[2 * k] = Message("user", n)

-----------------------------------------------------------------------------

\* What a result adds to the round.
LEMMA RecordedEntry ==
    ASSUME TypeOK, pending # <<>>, NEW result \in Outcome, RecordResult(result)
    PROVE  round'[Len(round) + 1] = Record(Current, result)
<1>1. round \in Seq(Recorded) /\ Current \in Call
  BY RecordedStep DEF TypeOK
<1>2. Record(Current, result) \in Recorded
  BY <1>1 DEF Record, Recorded
<1>3. QED
  BY <1>1, <1>2, AppendProperties DEF RecordResult

\* An answer's calls carry the number of its round.
LEMMA ParsedNumbers ==
    ASSUME TypeOK, NEW answer \in Answers
    PROVE  \A i \in 1 .. Len(ParseToolCalls(answer)) :
              ParseToolCalls(answer)[i].round = iteration /\ ParseToolCalls(answer)[i].place = i
<1>1. Len(ParseToolCalls(answer)) = Len(answer) /\ DOMAIN answer = 1 .. Len(answer)
  BY ParsedType, ToolLoopAssumption, LenProperties
<1>2. QED
  BY <1>1 DEF ParseToolCalls

\* A result leaves the numbers in order.
LEMMA RecordKeepsNumbers ==
    ASSUME TypeOK, Numbered, pc = "executing", pc' = pc, pending # <<>>,
           UNCHANGED <<iteration, calls>>, NEW result \in Outcome \ {"limit"}, RecordResult(result),
           running' \cup effects' \subseteq running \cup effects \cup {Current}
    PROVE  Numbered'
<1>1. /\ Len(round) \in Nat /\ Len(pending) \in Nat /\ Len(pending') \in Nat
      /\ Len(round') = Len(round) + 1 /\ Len(pending) = Len(pending') + 1
      /\ iteration \in Nat /\ 1 \in 1 .. Len(pending) /\ Current = pending[1]
  BY RecordedStep, LenProperties, ToolLoopAssumption DEF TypeOK
<1>2. Current.round = iteration /\ Current.place = Len(round) + 1
  BY <1>1 DEF Numbered
<1>3. ASSUME NEW i \in 1 .. Len(round')
      PROVE  round'[i].call.round = iteration /\ round'[i].call.place = i /\ round'[i].result # "limit"
  <2>1. CASE i \in 1 .. Len(round)
    BY <2>1, RecordedStep DEF Numbered
  <2>2. CASE i = Len(round) + 1
    <3>1. result \in Outcome /\ result # "limit"
      OBVIOUS
    <3>2. round'[i] = Record(Current, result)
      BY <2>2, <3>1, RecordedEntry
    <3>3. QED
      BY <1>2, <2>2, <3>1, <3>2 DEF Record
  <2>3. QED
    BY <1>1, <2>1, <2>2
<1>4. ASSUME NEW i \in 1 .. Len(pending')
      PROVE  pending'[i].round = iteration /\ pending'[i].place = Len(round') + i
  <2>1. i + 1 \in 1 .. Len(pending) /\ pending'[i] = pending[i + 1] /\ i \in Nat
    BY <1>1, RecordedStep
  <2>2. pending[i + 1].round = iteration /\ pending[i + 1].place = Len(round) + (i + 1)
    BY <2>1 DEF Numbered
  <2>3. Len(round) + (i + 1) = Len(round') + i
    BY <1>1, <2>1
  <2>4. QED
    BY <2>1, <2>2, <2>3
<1>5. \A c \in running' \cup effects' : c.round <= iteration
  BY <1>1, <1>2 DEF Numbered
<1>6. Len(round') + Len(pending') > 0
  BY <1>1
<1>7. QED
  BY <1>3, <1>4, <1>5, <1>6 DEF Numbered

LEMMA NumberedNext == TypeOK /\ Ledger /\ Numbered /\ [Next]_vars => Numbered'
<1> SUFFICES ASSUME TypeOK, Ledger, Numbered, [Next]_vars PROVE Numbered'
  OBVIOUS
<1>n. /\ iteration \in Nat /\ Len(round) \in Nat /\ Len(pending) \in Nat /\ Len(calls) \in Nat
      /\ running \subseteq Call /\ effects \subseteq Call
  BY ToolLoopAssumption, LenProperties DEF TypeOK
<1>1. CASE FinalAnswer \/ ProviderFails \/ Abandon
  BY <1>1 DEF FinalAnswer, ProviderFails, Abandon, Numbered
<1>2. ASSUME NEW a \in Answers, AnswerWithCalls(a) PROVE Numbered'
  <2>1. /\ pc = "asking" /\ pc' = "executing" /\ pending' = ParseToolCalls(a) /\ round = <<>> /\ Len(round) = 0
        /\ UNCHANGED <<iteration, round, calls, running, effects>>
    BY <1>2 DEF AnswerWithCalls, Ledger
  <2>2. Len(pending') \in Nat /\ Len(pending') > 0
    <3>1. a \in Seq(Tool) /\ a # <<>> /\ Len(pending') = Len(a)
      BY <1>2, <2>1, ParsedType, ToolLoopAssumption DEF AnswerWithCalls
    <3>2. QED
      BY <3>1, EmptySeq, LenProperties
  <2>3. \A i \in 1 .. Len(pending') : pending'[i].round = iteration /\ pending'[i].place = Len(round') + i
    BY <2>1, ParsedNumbers
  <2>4. QED
    BY <1>n, <2>1, <2>2, <2>3 DEF Numbered
<1>3. ASSUME NEW a \in Answers, AnswerAtLimit(a) PROVE Numbered'
  BY <1>3 DEF AnswerAtLimit, Numbered
<1>4. ASSUME NEW result \in {"ok", "error"}, ExecuteInline(result) \/ FinishBlocking(result) PROVE Numbered'
  BY <1>4, RecordKeepsNumbers DEF ExecuteInline, FinishBlocking, Outcome
<1>5. CASE TimeoutBlocking
  BY <1>5, RecordKeepsNumbers DEF TimeoutBlocking, Outcome
<1>6. CASE StartBlocking
  <2>1. 1 \in 1 .. Len(pending) /\ Current = pending[1]
    BY <1>6, <1>n, EmptySeq, LenProperties, HeadTailProperties DEF StartBlocking, TypeOK, Current
  <2>2. Current.round = iteration
    BY <2>1 DEF Numbered
  <2>3. QED
    BY <1>6, <1>n, <2>2 DEF StartBlocking, Numbered
<1>7. CASE EndRound
  <2>1. /\ pc = "executing" /\ pc' = "asking" /\ pending' = <<>> /\ round' = <<>> /\ calls' = calls \o round
        /\ iteration' = iteration + 1 /\ UNCHANGED <<running, effects>>
        /\ Len(round') = 0 /\ Len(pending') = 0
    BY <1>7 DEF EndRound
  <2>2. /\ Len(calls') = Len(calls) + Len(round)
        /\ \A i \in 1 .. Len(calls) : calls'[i] = calls[i]
        /\ \A i \in 1 .. Len(round) : calls'[Len(calls) + i] = round[i]
    BY <2>1, Appended DEF TypeOK
  <2>3. ASSUME NEW i \in 1 .. Len(calls') PROVE calls'[i].call.round < iteration'
    <3>1. CASE i \in 1 .. Len(calls)
      <4>1. calls[i] \in Recorded
        BY <3>1, ElementOfSeq DEF TypeOK
      <4>2. calls[i].call.round \in Nat
        BY <4>1 DEF Recorded, Call
      <4>3. QED
        BY <1>n, <2>1, <2>2, <3>1, <4>2 DEF Numbered
    <3>2. CASE i > Len(calls)
      <4>1. i - Len(calls) \in 1 .. Len(round) /\ i = Len(calls) + (i - Len(calls))
        BY <1>n, <2>2, <3>2
      <4>2. calls'[i] = round[i - Len(calls)]
        BY <2>2, <4>1
      <4>3. calls'[i].call.round = iteration
        BY <4>1, <4>2 DEF Numbered
      <4>4. QED
        BY <1>n, <2>1, <4>3
    <3>3. QED
      BY <1>n, <3>1, <3>2
  <2>4. \A c \in running \cup effects : c.round < iteration + 1
    BY <1>n DEF Numbered, Call
  <2>5. \A c \in running \cup effects : c.round <= iteration + 1
    BY <1>n, <2>4 DEF Call
  <2>6. QED
    BY <2>1, <2>3, <2>4, <2>5 DEF Numbered
<1>8. ASSUME NEW call \in running, FinishLate(call) PROVE Numbered'
  BY <1>8 DEF FinishLate, Numbered
<1>9. CASE UNCHANGED vars
  BY <1>9 DEF vars, Numbered
<1>10. QED
  BY <1>1, <1>2, <1>3, <1>4, <1>5, <1>6, <1>7, <1>8, <1>9 DEF Next, Answer, Proceed

-----------------------------------------------------------------------------

\* The call that is next is none of those that have results.
LEMMA CurrentIsNew ==
    ASSUME TypeOK, Numbered, pc = "executing", pending # <<>>
    PROVE  /\ \A i \in 1 .. Len(calls) : calls[i].call # Current
           /\ \A i \in 1 .. Len(round) : round[i].call # Current
<1>1. /\ Len(round) \in Nat /\ 1 \in 1 .. Len(pending) /\ Current = pending[1] /\ iteration \in Nat
  BY HeadTailProperties, EmptySeq, LenProperties, ToolLoopAssumption DEF TypeOK, Current
<1>2. Current.round = iteration /\ Current.place = Len(round) + 1
  BY <1>1 DEF Numbered
<1>3. QED
  BY <1>1, <1>2 DEF Numbered

\* A result that is true of its call joins true ones.
LEMMA RecordKeepsTruth ==
    ASSUME TypeOK, Numbered, AllTruthful, pc = "executing", pending # <<>>, calls' = calls,
           NEW result \in Outcome \ {"limit"}, RecordResult(result),
           running' \subseteq running, effects \subseteq effects',
           effects' \subseteq effects \cup {Current},
           result = "ok" => Current \in effects',
           Current \in running' => result = "timeout"
    PROVE  AllTruthful'
<1>1. result \in Outcome /\ result # "limit" /\ Len(round) \in Nat
  BY LenProperties DEF TypeOK
<1>2. /\ Len(round') = Len(round) + 1
      /\ \A i \in 1 .. Len(round) : round'[i] = round[i]
      /\ round'[Len(round) + 1] = Record(Current, result)
  BY <1>1, RecordedStep, RecordedEntry
<1>3. ASSUME NEW record, Truthful(record, running, effects), record.call # Current
      PROVE  Truthful(record, running', effects')
  BY <1>3 DEF Truthful
<1>4. Truthful(Record(Current, result), running', effects')
  BY <1>1 DEF Truthful, Record
<1>5. \A i \in 1 .. Len(calls) : Truthful(calls[i], running', effects')
  BY <1>3, CurrentIsNew DEF AllTruthful
<1>6. \A i \in 1 .. Len(round) : Truthful(round[i], running', effects')
  BY <1>3, CurrentIsNew DEF AllTruthful
<1>7. ASSUME NEW i \in 1 .. Len(round') PROVE Truthful(round'[i], running', effects')
  <2>1. i \in 1 .. Len(round) \/ i = Len(round) + 1
    BY <1>1, <1>2
  <2>2. QED
    BY <1>2, <1>4, <1>6, <2>1
<1>8. QED
  BY <1>5, <1>7 DEF AllTruthful

LEMMA TruthNext == TypeOK /\ Ledger /\ Numbered /\ AllTruthful /\ [Next]_vars => AllTruthful'
<1> SUFFICES ASSUME TypeOK, Ledger, Numbered, AllTruthful, [Next]_vars PROVE AllTruthful'
  OBVIOUS
<1>1. CASE FinalAnswer \/ ProviderFails \/ Abandon
  BY <1>1 DEF FinalAnswer, ProviderFails, Abandon, AllTruthful
<1>2. ASSUME NEW a \in Answers, AnswerWithCalls(a) PROVE AllTruthful'
  BY <1>2 DEF AnswerWithCalls, AllTruthful
<1>3. ASSUME NEW a \in Answers, AnswerAtLimit(a) PROVE AllTruthful'
  <2>p. PICK P : P = ParseToolCalls(a)
    OBVIOUS
  <2>u. PICK U : U = Unexecuted(P)
    OBVIOUS
  <2>1. /\ pc = "asking" /\ calls' = calls \o U /\ UNCHANGED <<round, running, effects>>
        /\ calls \in Seq(Recorded) /\ iteration \in Nat
    BY <1>3, <2>p, <2>u, ToolLoopAssumption DEF AnswerAtLimit, TypeOK
  <2>2. /\ P \in Seq(Call) /\ U \in Seq(Recorded) /\ Len(U) = Len(P)
        /\ Len(calls) \in Nat /\ Len(U) \in Nat /\ DOMAIN P = 1 .. Len(P)
    BY <2>p, <2>u, <2>1, ParsedType, UnexecutedType, LenProperties
  <2>3. \A i \in 1 .. Len(U) : Truthful(U[i], running, effects)
    <3>1. \A c \in running \cup effects : c.round < iteration
      BY <2>1 DEF Numbered
    <3>2. ASSUME NEW i \in 1 .. Len(U) PROVE U[i] = Record(P[i], "limit") /\ P[i].round = iteration
      BY <2>p, <2>u, <2>2, ParsedNumbers DEF Unexecuted
    <3>3. ASSUME NEW i \in 1 .. Len(U) PROVE P[i] \notin running \cup effects
      BY <2>1, <3>1, <3>2
    <3>4. ASSUME NEW i \in 1 .. Len(U) PROVE Truthful(U[i], running, effects)
      <4>1. U[i].call = P[i] /\ U[i].result = "limit"
        <5>1. U[i] = Record(P[i], "limit")
          BY <3>2
        <5>2. QED
          BY <5>1 DEF Record
      <4>2. QED
        BY <3>3, <4>1 DEF Truthful
    <3>5. QED
      BY <3>4
  <2>4. /\ Len(calls') = Len(calls) + Len(U)
        /\ \A i \in 1 .. Len(calls) : calls'[i] = calls[i]
        /\ \A i \in 1 .. Len(U) : calls'[Len(calls) + i] = U[i]
    <3>1. calls \in Seq(Recorded) /\ U \in Seq(Recorded) /\ calls' = calls \o U
      BY <2>1, <2>2
    <3>2. QED
      BY <3>1, Appended
  <2>5. ASSUME NEW i \in 1 .. Len(calls') PROVE Truthful(calls'[i], running, effects)
    <3>1. CASE i \in 1 .. Len(calls)
      BY <2>4, <3>1 DEF AllTruthful
    <3>2. CASE i > Len(calls)
      <4>1. i - Len(calls) \in 1 .. Len(U) /\ i = Len(calls) + (i - Len(calls))
        BY <2>2, <2>4, <3>2
      <4>2. QED
        BY <2>3, <2>4, <4>1
    <3>3. QED
      BY <2>2, <3>1, <3>2
  <2>6. QED
    BY <2>1, <2>5 DEF AllTruthful
<1>4. ASSUME NEW result \in {"ok", "error"}, ExecuteInline(result) PROVE AllTruthful'
  BY <1>4, RecordKeepsTruth DEF ExecuteInline, Outcome
<1>5. ASSUME NEW result \in {"ok", "error"}, FinishBlocking(result) PROVE AllTruthful'
  BY <1>5, RecordKeepsTruth DEF FinishBlocking, Outcome
<1>6. CASE TimeoutBlocking
  BY <1>6, RecordKeepsTruth DEF TimeoutBlocking, Outcome
<1>7. CASE StartBlocking
  <2>1. /\ \A i \in 1 .. Len(calls) : calls[i].call # Current
        /\ \A i \in 1 .. Len(round) : round[i].call # Current
    BY <1>7, CurrentIsNew DEF StartBlocking
  <2>2. QED
    BY <1>7, <2>1 DEF StartBlocking, AllTruthful, Truthful
<1>8. CASE EndRound
  <2>1. /\ calls' = calls \o round /\ round' = <<>> /\ UNCHANGED <<running, effects>>
        /\ calls \in Seq(Recorded) /\ round \in Seq(Recorded)
    BY <1>8 DEF EndRound, TypeOK
  <2>2. /\ Len(calls') = Len(calls) + Len(round) /\ Len(calls) \in Nat /\ Len(round) \in Nat /\ Len(round') = 0
        /\ \A i \in 1 .. Len(calls) : calls'[i] = calls[i]
        /\ \A i \in 1 .. Len(round) : calls'[Len(calls) + i] = round[i]
    BY <2>1, Appended, LenProperties
  <2>3. ASSUME NEW i \in 1 .. Len(calls') PROVE Truthful(calls'[i], running, effects)
    <3>1. CASE i \in 1 .. Len(calls)
      BY <2>2, <3>1 DEF AllTruthful
    <3>2. CASE i > Len(calls)
      <4>1. i - Len(calls) \in 1 .. Len(round) /\ i = Len(calls) + (i - Len(calls))
        BY <2>2, <3>2
      <4>2. QED
        BY <2>2, <4>1 DEF AllTruthful
    <3>3. QED
      BY <2>2, <3>1, <3>2
  <2>4. QED
    BY <2>1, <2>2, <2>3 DEF AllTruthful
<1>9. ASSUME NEW call \in running, FinishLate(call) PROVE AllTruthful'
  BY <1>9 DEF FinishLate, AllTruthful, Truthful
<1>10. CASE UNCHANGED vars
  BY <1>10 DEF vars, AllTruthful
<1>11. QED
  BY <1>1, <1>2, <1>3, <1>4, <1>5, <1>6, <1>7, <1>8, <1>9, <1>10 DEF Next, Answer, Proceed

-----------------------------------------------------------------------------

\* How many positions a property holds at, when records join the report.
LEMMA CountOfJoined ==
    ASSUME NEW s \in Seq(Recorded), NEW t \in Seq(Recorded),
           NEW S \in SUBSET (1 .. Len(s)), NEW T \in SUBSET (1 .. Len(s \o t)),
           \A i \in 1 .. Len(s) : i \in S <=> i \in T
    PROVE  /\ (\A i \in 1 .. Len(t) : Len(s) + i \in T) => Cardinality(T) = Cardinality(S) + Len(t)
           /\ (\A i \in 1 .. Len(t) : Len(s) + i \notin T) => T = S
           /\ Cardinality(S) \in Nat
<1>1. Len(s) \in Nat /\ Len(t) \in Nat /\ Len(s \o t) = Len(s) + Len(t)
  BY Appended, LenProperties
<1> DEFINE New == Len(s) + 1 .. Len(s) + Len(t)
<1>2. IsFiniteSet(1 .. Len(s)) /\ IsFiniteSet(S) /\ Cardinality(S) \in Nat
  <2>1. 1 \in Int /\ Len(s) \in Int /\ S \subseteq 1 .. Len(s)
    BY <1>1
  <2>2. IsFiniteSet(1 .. Len(s))
    BY <2>1, FS_Interval
  <2>3. IsFiniteSet(S)
    BY <2>1, <2>2, FS_Subset
  <2>4. QED
    BY <2>2, <2>3, FS_CardinalityType
<1>3. IsFiniteSet(New) /\ Cardinality(New) = Len(t)
  <2> DEFINE a == Len(s) + 1
             b == Len(s) + Len(t)
  <2>1. a \in Int /\ b \in Int
    BY <1>1
  <2> HIDE DEF a, b
  <2>2. IsFiniteSet(a .. b) /\ Cardinality(a .. b) = IF a > b THEN 0 ELSE b - a + 1
    BY <2>1, FS_Interval
  <2>3. (IF a > b THEN 0 ELSE b - a + 1) = Len(t)
    BY <1>1 DEF a, b
  <2>4. QED
    BY <2>2, <2>3 DEF a, b
<1>4. ASSUME \A i \in 1 .. Len(t) : Len(s) + i \in T PROVE Cardinality(T) = Cardinality(S) + Len(t)
  <2>1. ASSUME NEW i \in New PROVE i \in T
    <3>1. i - Len(s) \in 1 .. Len(t) /\ i = Len(s) + (i - Len(s))
      BY <1>1
    <3>2. QED
      BY <1>4, <3>1
  <2>2. ASSUME NEW i \in T PROVE i \in S \/ i \in New
    BY <1>1
  <2>3. ASSUME NEW i \in S PROVE i \in T /\ i \notin New
    BY <1>1
  <2>4. T = S \cup New /\ S \cap New = {}
    <3> HIDE DEF New
    <3>1. QED
      BY <2>1, <2>2, <2>3
  <2>5. Cardinality(S \cup New) = Cardinality(S) + Cardinality(New) - Cardinality(S \cap New)
    <3> HIDE DEF New
    <3>1. QED
      BY <1>2, <1>3, FS_Union
  <2>6. Cardinality({}) = 0
    BY FS_EmptySet
  <2>7. QED
    <3> HIDE DEF New
    <3>1. Cardinality(T) = Cardinality(S \cup New)
      BY <2>4
    <3>2. Cardinality(S \cap New) = 0
      BY <2>4, <2>6
    <3>3. QED
      BY <1>1, <1>2, <1>3, <2>5, <3>1, <3>2
<1>5. ASSUME \A i \in 1 .. Len(t) : Len(s) + i \notin T PROVE T = S
  <2>1. ASSUME NEW i \in T PROVE i \in 1 .. Len(s)
    <3>1. CASE i > Len(s)
      <4>1. i - Len(s) \in 1 .. Len(t) /\ i = Len(s) + (i - Len(s))
        BY <1>1, <3>1
      <4>2. QED
        BY <1>5, <4>1
    <3>2. QED
      BY <1>1, <3>1
  <2>2. QED
    BY <2>1
<1>6. QED
  BY <1>2, <1>4, <1>5

LEMMA CountsNext == TypeOK /\ Ledger /\ Numbered /\ CountsHold /\ [Next]_vars => CountsHold'
<1> SUFFICES ASSUME TypeOK, Ledger, Numbered, CountsHold, [Next]_vars PROVE CountsHold'
  OBVIOUS
<1>n. /\ Len(round) \in Nat /\ Len(calls) \in Nat /\ Cardinality(Executed) \in Nat
      /\ calls \in Seq(Recorded) /\ round \in Seq(Recorded)
  <2>1. calls \in Seq(Recorded) /\ round \in Seq(Recorded) /\ Len(round) \in Nat /\ Len(calls) \in Nat
    BY LenProperties DEF TypeOK
  <2>2. IsFiniteSet(1 .. Len(calls)) /\ Executed \subseteq 1 .. Len(calls)
    BY <2>1, FS_Interval DEF Executed
  <2>3. QED
    BY <2>1, <2>2, FS_Subset, FS_CardinalityType
<1>1. CASE UNCHANGED <<round, calls, metrics>>
  BY <1>1 DEF CountsHold, Executed
<1>2. ASSUME NEW result \in Outcome, pending # <<>>, RecordResult(result), calls' = calls PROVE CountsHold'
  <2>1. Len(round') = Len(round) + 1 /\ metrics' = metrics + 1 /\ Executed' = Executed
    BY <1>2, RecordedStep DEF RecordResult, Executed
  <2>2. QED
    BY <1>n, <2>1 DEF CountsHold
<1>3. ASSUME NEW a \in Answers, AnswerAtLimit(a) PROVE CountsHold'
  <2>u. PICK U : U = Unexecuted(ParseToolCalls(a))
    OBVIOUS
  <2>1. calls' = calls \o U /\ UNCHANGED <<round, metrics>>
    BY <1>3, <2>u DEF AnswerAtLimit
  <2>2. U \in Seq(Recorded) /\ \A i \in 1 .. Len(U) : U[i].result = "limit"
    <3>1. ParseToolCalls(a) \in Seq(Call) /\ DOMAIN ParseToolCalls(a) = 1 .. Len(ParseToolCalls(a))
      BY ParsedType, LenProperties
    <3>2. U \in Seq(Recorded) /\ Len(U) = Len(ParseToolCalls(a))
      BY <2>u, <3>1, UnexecutedType
    <3>3. QED
      BY <2>u, <3>1, <3>2 DEF Unexecuted, Record
  <2>3. /\ Len(calls') = Len(calls) + Len(U) /\ Len(U) \in Nat
        /\ \A i \in 1 .. Len(calls) : calls'[i] = calls[i]
        /\ \A i \in 1 .. Len(U) : calls'[Len(calls) + i] = U[i]
    BY <1>n, <2>1, <2>2, Appended, LenProperties
  <2>4. /\ Executed \in SUBSET (1 .. Len(calls)) /\ Executed' \in SUBSET (1 .. Len(calls \o U))
        /\ \A i \in 1 .. Len(calls) : i \in Executed <=> i \in Executed'
        /\ \A i \in 1 .. Len(U) : Len(calls) + i \notin Executed'
    BY <1>n, <2>1, <2>2, <2>3 DEF Executed
  <2>5. Executed' = Executed
    BY <1>n, <2>2, <2>4, CountOfJoined
  <2>6. QED
    BY <2>1, <2>5 DEF CountsHold
<1>4. CASE EndRound
  <2>1. calls' = calls \o round /\ round' = <<>> /\ Len(round') = 0 /\ metrics' = metrics
    BY <1>4 DEF EndRound
  <2>2. /\ Len(calls') = Len(calls) + Len(round)
        /\ \A i \in 1 .. Len(calls) : calls'[i] = calls[i]
        /\ \A i \in 1 .. Len(round) : calls'[Len(calls) + i] = round[i]
    BY <1>n, <2>1, Appended
  <2>3. /\ Executed \in SUBSET (1 .. Len(calls)) /\ Executed' \in SUBSET (1 .. Len(calls \o round))
        /\ \A i \in 1 .. Len(calls) : i \in Executed <=> i \in Executed'
        /\ \A i \in 1 .. Len(round) : Len(calls) + i \in Executed'
    BY <1>n, <2>1, <2>2 DEF Executed, Numbered
  <2>4. Cardinality(Executed') = Cardinality(Executed) + Len(round)
    BY <1>n, <2>3, CountOfJoined
  <2>5. QED
    BY <1>n, <2>1, <2>4 DEF CountsHold
<1>5. CASE \E result \in {"ok", "error"} : ExecuteInline(result) \/ FinishBlocking(result)
  BY <1>2, <1>5 DEF ExecuteInline, FinishBlocking, Outcome
<1>6. CASE TimeoutBlocking
  BY <1>2, <1>6 DEF TimeoutBlocking, Outcome
<1>7. QED
  BY <1>1, <1>3, <1>4, <1>5, <1>6 DEF Next, Answer, Proceed, vars, FinalAnswer, ProviderFails, Abandon,
     AnswerWithCalls, StartBlocking, FinishLate

-----------------------------------------------------------------------------

LEMMA PairsNext == TypeOK /\ Ledger /\ Numbered /\ PairsHold /\ [Next]_vars => PairsHold'
<1> SUFFICES ASSUME TypeOK, Ledger, Numbered, PairsHold, [Next]_vars PROVE PairsHold'
  OBVIOUS
<1>1. CASE pc' \in {"done", "failed"}
  BY <1>1 DEF PairsHold
<1>2. CASE UNCHANGED <<calls, context, iteration>> /\ pc \in {"asking", "executing"}
  BY <1>2 DEF PairsHold
<1>3. CASE EndRound
  <2>1. /\ pc = "executing" /\ pending = <<>> /\ calls' = calls \o round /\ iteration' = iteration + 1
        /\ context' = context \o <<Message("assistant", Len(round)), Message("user", Len(round))>>
    BY <1>3 DEF EndRound
  <2>2. /\ calls \in Seq(Recorded) /\ round \in Seq(Recorded) /\ context \in Seq(ContextMessage)
        /\ Len(calls) \in Nat /\ Len(round) \in Nat /\ Len(context) \in Nat /\ iteration \in Nat \ {0}
    BY LenProperties, ToolLoopAssumption DEF TypeOK
  <2>3. Len(pending) = 0 /\ Len(round) > 0
    BY <2>1, <2>2 DEF Numbered
  <2>4. /\ Len(calls') = Len(calls) + Len(round)
        /\ \A i \in 1 .. Len(calls) : calls'[i] = calls[i]
        /\ \A i \in 1 .. Len(round) : calls'[Len(calls) + i] = round[i]
    BY <2>1, <2>2, Appended
  <2> DEFINE Pair == <<Message("assistant", Len(round)), Message("user", Len(round))>>
  <2>5. Pair \in Seq(ContextMessage) /\ Len(Pair) = 2
    BY <2>2, MessageType
  <2>6. /\ Len(context') = Len(context) + 2
        /\ \A i \in 1 .. Len(context) : context'[i] = context[i]
        /\ context'[Len(context) + 1] = Pair[1] /\ context'[Len(context) + 2] = Pair[2]
    <3>1. context' = context \o Pair
      BY <2>1
    <3>2. \A i \in 1 .. 2 : context'[Len(context) + i] = Pair[i]
      BY <2>2, <2>5, <3>1, Appended
    <3>3. QED
      BY <2>2, <2>5, <3>1, <3>2, Appended
  <2>7. Len(context) = 2 * (iteration - 1)
    BY <2>1 DEF PairsHold
  <2>8. ASSUME NEW k \in Nat
        PROVE  /\ CallsOf(calls, k) \in SUBSET (1 .. Len(calls))
               /\ CallsOf(calls', k) \in SUBSET (1 .. Len(calls \o round))
               /\ \A i \in 1 .. Len(calls) : i \in CallsOf(calls, k) <=> i \in CallsOf(calls', k)
               /\ \A i \in 1 .. Len(round) : Len(calls) + i \in CallsOf(calls', k) <=> k = iteration
    <3>1. CallsOf(calls', k) \in SUBSET (1 .. Len(calls \o round))
      BY <2>1 DEF CallsOf
    <3>2. ASSUME NEW i \in 1 .. Len(calls) PROVE i \in CallsOf(calls, k) <=> i \in CallsOf(calls', k)
      BY <2>2, <2>4 DEF CallsOf
    <3>3. ASSUME NEW i \in 1 .. Len(round) PROVE Len(calls) + i \in CallsOf(calls', k) <=> k = iteration
      <4>1. calls'[Len(calls) + i].call.round = iteration /\ Len(calls) + i \in 1 .. Len(calls')
        <5>1. round[i].call.round = iteration
          BY DEF Numbered
        <5>2. calls'[Len(calls) + i] = round[i]
          BY <2>4
        <5>3. Len(calls) + i \in 1 .. Len(calls')
          BY <2>2, <2>4
        <5>4. QED
          BY <5>1, <5>2, <5>3
      <4>2. QED
        BY <4>1 DEF CallsOf
    <3>4. QED
      BY <3>1, <3>2, <3>3 DEF CallsOf
  <2>9. ASSUME NEW k \in 1 .. iteration - 1
        PROVE  LET n == Cardinality(CallsOf(calls', k))
               IN  n > 0 /\ context'[2 * k - 1] = Message("assistant", n) /\ context'[2 * k] = Message("user", n)
    <3>1. k \in Nat /\ k # iteration
      BY <2>2
    <3>2. CallsOf(calls', k) = CallsOf(calls, k)
      BY <2>2, <2>8, <3>1, CountOfJoined
    <3>3. 2 * k - 1 \in 1 .. Len(context) /\ 2 * k \in 1 .. Len(context)
      BY <2>2, <2>7
    <3>4. LET n == Cardinality(CallsOf(calls, k))
          IN  n > 0 /\ context[2 * k - 1] = Message("assistant", n) /\ context[2 * k] = Message("user", n)
      BY <2>1 DEF PairsHold
    <3>5. QED
      BY <2>6, <3>2, <3>3, <3>4
  <2>10. Cardinality(CallsOf(calls', iteration)) = Len(round)
    <3>1. CallsOf(calls, iteration) = {}
      <4>1. \A i \in 1 .. Len(calls) : calls[i].call.round < iteration
        BY <2>1 DEF Numbered
      <4>2. QED
        BY <2>2, <4>1 DEF CallsOf
    <3>2. Cardinality(CallsOf(calls', iteration)) = Cardinality(CallsOf(calls, iteration)) + Len(round)
      <4>1. \A i \in 1 .. Len(round) : Len(calls) + i \in CallsOf(calls', iteration)
        BY <2>2, <2>8
      <4>2. /\ CallsOf(calls, iteration) \in SUBSET (1 .. Len(calls))
            /\ CallsOf(calls', iteration) \in SUBSET (1 .. Len(calls \o round))
            /\ \A i \in 1 .. Len(calls) :
                  i \in CallsOf(calls, iteration) <=> i \in CallsOf(calls', iteration)
        BY <2>2, <2>8
      <4>3. QED
        BY <2>2, <4>1, <4>2, CountOfJoined
    <3>3. QED
      BY <2>2, <3>1, <3>2, FS_EmptySet
  <2>11. context'[2 * iteration - 1] = Pair[1] /\ context'[2 * iteration] = Pair[2]
    <3>1. 2 * iteration - 1 = Len(context) + 1 /\ 2 * iteration = Len(context) + 2
      BY <2>2, <2>7
    <3>2. QED
      BY <2>6, <3>1
  <2>12. ASSUME NEW k \in 1 .. iteration' - 1
         PROVE  LET n == Cardinality(CallsOf(calls', k))
                IN  n > 0 /\ context'[2 * k - 1] = Message("assistant", n) /\ context'[2 * k] = Message("user", n)
    <3>1. k \in 1 .. iteration - 1 \/ k = iteration
      BY <2>1, <2>2
    <3>2. CASE k = iteration
      BY <2>2, <2>3, <2>10, <2>11, <3>2
    <3>3. QED
      BY <2>9, <3>1, <3>2
  <2>13. Len(context') = 2 * (iteration' - 1)
    BY <2>1, <2>2, <2>6, <2>7
  <2>14. QED
    BY <2>12, <2>13 DEF PairsHold
<1>4. pc \in {"asking", "executing", "done", "failed"}
  BY DEF TypeOK
<1>5. CASE UNCHANGED vars
  BY <1>1, <1>2, <1>4, <1>5 DEF vars
<1>6. CASE FinalAnswer \/ ProviderFails \/ Abandon \/ \E a \in Answers : AnswerAtLimit(a)
  BY <1>1, <1>6 DEF FinalAnswer, ProviderFails, Abandon, AnswerAtLimit
<1>7. CASE StartBlocking \/ TimeoutBlocking \/ \E a \in Answers : AnswerWithCalls(a)
  BY <1>2, <1>7 DEF StartBlocking, TimeoutBlocking, AnswerWithCalls
<1>8. CASE \E result \in {"ok", "error"} : ExecuteInline(result) \/ FinishBlocking(result)
  BY <1>2, <1>8 DEF ExecuteInline, FinishBlocking
<1>9. CASE \E call \in running : FinishLate(call)
  BY <1>1, <1>2, <1>4, <1>9 DEF FinishLate
<1>10. QED
  BY <1>3, <1>5, <1>6, <1>7, <1>8, <1>9 DEF Next, Answer, Proceed

-----------------------------------------------------------------------------

AccountInv == Inv /\ Numbered /\ AllTruthful /\ CountsHold /\ PairsHold

LEMMA AccountInvHolds == Spec => []AccountInv
<1>1. Init => AccountInv
  <2> SUFFICES ASSUME Init PROVE AccountInv
    OBVIOUS
  <2>1. /\ pc = "asking" /\ iteration = 1 /\ metrics = 0 /\ running = {} /\ effects = {}
        /\ Len(pending) = 0 /\ Len(round) = 0 /\ Len(calls) = 0 /\ Len(context) = 0
    BY DEF Init
  <2>2. Inv
    BY ToolLoopAssumption, EmptySeq DEF Init, Inv, TypeOK, BelowLimit, Ledger
  <2>3. Executed = {} /\ Cardinality(Executed) = 0
    BY <2>1, FS_EmptySet DEF Executed
  <2>4. QED
    BY <2>1, <2>2, <2>3 DEF AccountInv, Numbered, AllTruthful, CountsHold, PairsHold
<1>2. AccountInv /\ [Next]_vars => AccountInv'
  BY TypeNext, BelowLimitNext, LedgerNext, NumberedNext, TruthNext, CountsNext, PairsNext DEF AccountInv, Inv
<1>3. QED
  BY <1>1, <1>2, PTL DEF Spec

(***************************************************************************)
(* Whenever the model is asked again it sees every earlier round as its    *)
(* answer and as many results as that had calls: execute_tool_loop adds    *)
(* the two messages together, after the last call of the round.            *)
(***************************************************************************)
THEOREM RoundsArePaired == Spec => []ContextIsPaired
<1>1. AccountInv => ContextIsPaired
  <2> SUFFICES ASSUME AccountInv PROVE ContextIsPaired
    OBVIOUS
  <2>1. DOMAIN calls = 1 .. Len(calls)
    BY LenProperties DEF AccountInv, Inv, TypeOK
  <2>2. \A k : CallsOfRound(k) = CallsOf(calls, k)
    BY <2>1 DEF CallsOfRound, CallsOf
  <2>3. QED
    BY <2>2 DEF AccountInv, PairsHold, ContextIsPaired
<1>2. QED
  BY <1>1, AccountInvHolds, PTL

(***************************************************************************)
(* A call reported with the limit's hint never ran, one reported as a      *)
(* success has done its work, and only one reported as timed out may be    *)
(* still at work, however late the threads that execute_with_timeout gave  *)
(* up come to their end.                                                   *)
(***************************************************************************)
THEOREM ReportsAreTrue == Spec => []ReportIsTrue
<1>1. AccountInv => ReportIsTrue
  <2> SUFFICES ASSUME AccountInv PROVE ReportIsTrue
    OBVIOUS
  <2>1. DOMAIN calls = 1 .. Len(calls)
    BY LenProperties DEF AccountInv, Inv, TypeOK
  <2>2. QED
    BY <2>1 DEF AccountInv, AllTruthful, Truthful, ReportIsTrue
<1>2. QED
  BY <1>1, AccountInvHolds, PTL

(***************************************************************************)
(* The tool metrics count every call that execute_and_record was given,    *)
(* failures and timeouts included, and no other.                           *)
(***************************************************************************)
THEOREM MetricsAreExact == Spec => []MetricsCountExecutions
<1>1. AccountInv => MetricsCountExecutions
  <2> SUFFICES ASSUME AccountInv PROVE MetricsCountExecutions
    OBVIOUS
  <2>1. DOMAIN calls = 1 .. Len(calls)
    BY LenProperties DEF AccountInv, Inv, TypeOK
  <2>2. QED
    BY <2>1 DEF AccountInv, CountsHold, Executed, MetricsCountExecutions
<1>2. QED
  BY <1>1, AccountInvHolds, PTL
=============================================================================
