---------------------------- MODULE MCShellParser ----------------------------
(* An instance of the parser for TLC. *)
EXTENDS ShellParser
=============================================================================
