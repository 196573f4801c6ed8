--------------------------- MODULE SessionHistory ---------------------------
(***************************************************************************)
(* How JiaClaw keeps a conversation within its message limit               *)
(* (crates/jiaclaw/src/session.rs): hard truncation, and folding the old   *)
(* part of the history into one summary message.                           *)
(*                                                                         *)
(* A history is a sequence of messages.  A message is abstracted to its    *)
(* role and the number of the turn (the request) that produced it; texts   *)
(* are left out.  The "[session-summary]" message is a system message of   *)
(* the role "summary" and of no turn, so that a property can tell it from  *)
(* a system message a client sent.                                         *)
(***************************************************************************)
EXTENDS Integers, Sequences, FiniteSets

CONSTANTS MaxMessages,         \* MAX_SESSION_MESSAGES (50 in the program)
          KeepRecent,          \* effective keep_recent of the configuration
          SummarizeOnOverflow  \* effective summarize_on_overflow

(***************************************************************************)
(* resolve_session_keep_recent clamps keep_recent to 1..MaxMessages-1,     *)
(* which needs a limit of at least two messages.                           *)
(***************************************************************************)
ASSUME HistoryAssumption ==
    /\ MaxMessages \in Nat
    /\ KeepRecent \in 1 .. MaxMessages - 1
    /\ SummarizeOnOverflow \in BOOLEAN

Role == {"user", "assistant", "system", "summary"}

Message == [role : Role, turn : Nat]

History == Seq(Message)

IsSystem(m) == m.role \in {"system", "summary"}

SystemPositions(h) == {i \in DOMAIN h : IsSystem(h[i])}

(***************************************************************************)
(* The element of I with exactly k elements of I at or below it, and the   *)
(* subsequence of h at the positions I.  (SelectSeq, stated over positions *)
(* so that the prover can reason about it without induction over h.)       *)
(***************************************************************************)
Nth(I, k) == CHOOSE i \in I : Cardinality({j \in I : j <= i}) = k

KeepPositions(h, I) == [k \in 1 .. Cardinality(I) |-> h[Nth(I, k)]]

SaturatingSub(a, b) == IF a >= b THEN a - b ELSE 0

-----------------------------------------------------------------------------

\* A truncation that keeps the oldest messages: take where the code skips.
HardTruncate_KeepsOldest(h) ==
    IF Len(h) <= MaxMessages THEN h
    ELSE LET system == SystemPositions(h)
             rest == DOMAIN h \ system
             slots == SaturatingSub(MaxMessages, Cardinality(system))
             oldest == {i \in rest : Cardinality({j \in rest : j <= i}) <= slots}
         IN  KeepPositions(h, system) \o KeepPositions(h, oldest)

\* A truncation that leaves room for the reply to come.
HardTruncate_LeavesRoom(h) ==
    IF Len(h) <= MaxMessages THEN h
    ELSE LET system == SystemPositions(h)
             rest == DOMAIN h \ system
             slots == SaturatingSub(MaxMessages - 1, Cardinality(system))
             newest == {i \in rest : Cardinality({j \in rest : j >= i}) <= slots}
         IN  KeepPositions(h, system) \o KeepPositions(h, newest)

(***************************************************************************)
(* All system messages, then the newest of the others: as many as the      *)
(* system messages leave room for.                                         *)
(***************************************************************************)
HardTruncate(h) ==
    IF Len(h) <= MaxMessages THEN h
    ELSE LET system == SystemPositions(h)
             rest == DOMAIN h \ system
             slots == SaturatingSub(MaxMessages, Cardinality(system))
             newest == {i \in rest : Cardinality({j \in rest : j >= i}) <= slots}
         IN  KeepPositions(h, system) \o KeepPositions(h, newest)

Summary == [role |-> "summary", turn |-> 0]

\* A fold that splits one message too late.
SummarizeOverflow_LateSplit(h) ==
    <<Summary>> \o SubSeq(h, Len(h) - KeepRecent + 2, Len(h))

(***************************************************************************)
(* One summary message for the old part, system messages included, then    *)
(* the KeepRecent newest messages.  Only called on a history longer than   *)
(* MaxMessages, so the old part is never empty, and 1 + KeepRecent never   *)
(* exceeds MaxMessages, so the truncation the code applies to a result     *)
(* that is too long never fires.                                           *)
(***************************************************************************)
SummarizeOverflow(h) ==
    <<Summary>> \o SubSeq(h, Len(h) - KeepRecent + 1, Len(h))

\* A compaction that starts one message too late.
Compactions_OffByOne(h) ==
    IF Len(h) <= MaxMessages + 1 THEN {h}
    ELSE {HardTruncate(h)} \cup
         (IF SummarizeOnOverflow THEN {SummarizeOverflow(h)} ELSE {})

(***************************************************************************)
(* compact_session_history: a history within the limit is left alone; a    *)
(* longer one is summarised if the configuration says so, and truncated if *)
(* it does not or the summary fails (an error of the model, an empty       *)
(* text).  The set of the possible results.                                *)
(***************************************************************************)
Compactions(h) ==
    IF Len(h) <= MaxMessages THEN {h}
    ELSE {HardTruncate(h)} \cup
         (IF SummarizeOnOverflow THEN {SummarizeOverflow(h)} ELSE {})

(***************************************************************************)
(* compact_imported_session_messages: the same with the local digest as    *)
(* the summariser, which never fails and is never empty.                   *)
(***************************************************************************)
ImportCompaction(h) ==
    IF Len(h) <= MaxMessages THEN h
    ELSE IF SummarizeOnOverflow THEN SummarizeOverflow(h) ELSE HardTruncate(h)
=============================================================================
