----------------------------- MODULE MCChatPage -----------------------------
(* Two tabs, two handlers at a time, a user with two tokens.               *)
EXTENDS ChatPage, TLC

CONSTANTS t1, t2, h1, h2, anna

MCTab     == {t1, t2}
MCHandler == {h1, h2}
MCUser    == {anna}
MCSym     == Permutations(MCTab) \cup Permutations(MCHandler)

=============================================================================
