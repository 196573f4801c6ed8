------------------------- MODULE MCGracefulShutdown -------------------------
(***************************************************************************)
(* GracefulShutdown with one request, one deferred chat and the heartbeat. *)
(***************************************************************************)
EXTENDS GracefulShutdown

CONSTANTS s1, s2

Req(op, s, roles) == [op |-> op, session |-> s, roles |-> roles, overwrite |-> FALSE]

ShutdownRequests ==
    {Req("chat", s1, <<"user">>), Req("create", NoSession, <<>>), Req("delete", s1, <<>>)}

ChatsOnly == {Req("chat", s1, <<"user">>)}
=============================================================================
