-------------------------- MODULE MCWorkspaceFiles --------------------------
(***************************************************************************)
(* The tool calls TLC lets the model make in WorkspaceFiles, on three      *)
(* files, so that a file can be moved twice while a call has it open.      *)
(***************************************************************************)
EXTENDS WorkspaceFiles, TLC

CONSTANTS f, g, h, ftmp, gtmp, htmp

TmpNames == (f :> ftmp) @@ (g :> gtmp) @@ (h :> htmp)

Req(op, path) == [op |-> op, path |-> path, to |-> path, overwrite |-> FALSE]

MoveTo(from, to, overwrite) ==
    [op |-> "move", path |-> from, to |-> to, overwrite |-> overwrite]

AllCalls ==
    {Req("write_file", f), Req("append", f), Req("str_replace", f), Req("file_write", f),
     Req("write_file", g), Req("delete_file", f),
     MoveTo(f, g, FALSE), MoveTo(g, f, TRUE), MoveTo(g, h, FALSE)}

\* The tools that write to a temporary file and rename it.
AtomicCalls == {Req("write_file", f), Req("append", f), Req("str_replace", f)}

Symmetry == Permutations(Task)
=============================================================================
