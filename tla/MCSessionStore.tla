--------------------------- MODULE MCSessionStore ---------------------------
(***************************************************************************)
(* The requests TLC lets clients send to SessionStore.                     *)
(***************************************************************************)
EXTENDS SessionStore, TLC

CONSTANTS s1, s2

Req(op, s, roles, overwrite) ==
    [op |-> op, session |-> s, roles |-> roles, overwrite |-> overwrite]

Chat(s, roles) == Req("chat", s, roles, FALSE)
Plain(op, s) == Req(op, s, <<>>, FALSE)

\* Everything that writes: for concurrent chats, imports and deletions of one
\* session, with another one next to it.  One chat is longer than the limit.
WritingRequests ==
    {Chat(s1, <<"user">>), Chat(s1, <<"system", "user", "user">>), Chat(s2, <<"user">>),
     Req("import", s1, <<"user", "assistant", "user">>, FALSE),
     Req("import", s1, <<"user">>, TRUE),
     Plain("delete", s1), Plain("create", NoSession)}

\* Everything that looks at the clock.
ClockRequests ==
    {Chat(s1, <<"user">>), Plain("get", s1), Plain("list", NoSession),
     Plain("export", s1), Plain("create", NoSession),
     Req("import", s1, <<"user">>, TRUE)}

\* Chats of one session, and nothing else.
ChatRequests == {Chat(s1, <<"user">>)}

\* TurnsNeverMix is about chats that ask a question.
ASSUME RequestsAsk == ChatsAsk

Symmetry == Permutations(Task)
=============================================================================
