----------------------------- MODULE LoginTokens -----------------------------
(***************************************************************************)
(* What the cache promises about the encrypted tokens of one user: a login *)
(* is given the next token or one that is accepted already, tokens stop    *)
(* being accepted, and one that has been refused is never accepted again,  *)
(* so that a page which was refused may take it out of its storage.        *)
(***************************************************************************)
EXTENDS Integers

VARIABLES
    made,       \* number of tokens made so far; they are numbered
    accepted    \* the tokens that verify_encrypted_token accepts

vars == <<made, accepted>>

Init == made = 0 /\ accepted = {}

Make ==
    /\ made'     = made + 1
    /\ accepted' = accepted \cup {made + 1}

Withdraw(T) ==
    /\ accepted' = accepted \ T
    /\ UNCHANGED made

Next == Make \/ \E T \in SUBSET accepted : Withdraw(T)

Spec == Init /\ [][Next]_vars

=============================================================================
