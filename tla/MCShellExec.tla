----------------------------- MODULE MCShellExec -----------------------------
(* Instances of the executor of the shell for TLC. *)
EXTENDS ShellExec, TLC
==============================================================================
