---------------------------- MODULE MCChatHistory ----------------------------
(***************************************************************************)
(* ChatHistory for TLC; the bounds come from the cfg files.                *)
(***************************************************************************)
EXTENDS ChatHistory, TLC

Symmetric == Permutations(Client)

=============================================================================
