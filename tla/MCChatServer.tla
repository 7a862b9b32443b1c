----------------------------- MODULE MCChatServer -----------------------------
(* Instances of the chat server for TLC. *)
EXTENDS ChatServer, TLC

ClientSymmetry == Permutations(Clients)
=============================================================================
