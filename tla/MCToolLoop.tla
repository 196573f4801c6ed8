----------------------------- MODULE MCToolLoop -----------------------------
(***************************************************************************)
(* The answers TLC lets the model give in ToolLoop: up to two calls, of a  *)
(* blocking tool and of one that is not.                                   *)
(***************************************************************************)
EXTENDS ToolLoop

AllAnswers == {<<>>, <<"file_write">>, <<"shell_exec">>,
               <<"file_write", "shell_exec">>, <<"shell_exec", "shell_exec">>}
=============================================================================
