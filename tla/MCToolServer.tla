---------------------------- MODULE MCToolServer ----------------------------
(* An endpoint of either kind and three messages: one each for the writer,  *)
(* the session and the reader to be stuck with.                             *)
EXTENDS ToolServer, TLC

CONSTANTS e1, e2

MCEndpoint == {e1, e2}
MCKind     == (e1 :> "mcp") @@ (e2 :> "monitor")

=============================================================================
