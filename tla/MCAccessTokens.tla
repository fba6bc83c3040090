--------------------------- MODULE MCAccessTokens ---------------------------
(* Two requests at a time; tokens last two ticks.                          *)
EXTENDS AccessTokens, TLC

CONSTANTS c1, c2

MCClient == {c1, c2}
MCSym    == Permutations(MCClient)

=============================================================================
