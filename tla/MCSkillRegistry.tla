--------------------------- MODULE MCSkillRegistry ---------------------------
(***************************************************************************)
(* SkillRegistry with interchangeable tasks and directories.               *)
(***************************************************************************)
EXTENDS SkillRegistry, TLC

Symmetry == Permutations(Task) \cup Permutations(Dir)
=============================================================================
