----------------------------- MODULE MCUserCache -----------------------------
(***************************************************************************)
(* UserCache for TLC; the bounds come from the cfg files.                  *)
(***************************************************************************)
EXTENDS UserCache, TLC

Symmetric == Permutations(Page)

=============================================================================
