--------------------------- MODULE MCToolsClient ---------------------------
(* Three contexts over two apps, one or both of them asked for.          *)
EXTENDS ToolsClient, TLC

CONSTANTS c1, c2, c3, math, search

MCCtx    == {c1, c2, c3}
MCApp    == {math, search}
MCSym    == Permutations(MCCtx)
MCWishes == {<<math>>, <<search, math>>}

=============================================================================
