-------------------------- MODULE MCSessionStreams --------------------------
(***************************************************************************)
(* SessionStreams for TLC.  Bounds: MaxTtl, MaxLen and the number of tasks *)
(* come from the cfg files; Symmetric is used by the safety runs only.     *)
(***************************************************************************)
EXTENDS SessionStreams, TLC

Symmetric == Permutations(Client)

=============================================================================
