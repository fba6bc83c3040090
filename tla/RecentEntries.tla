---------------------------- MODULE RecentEntries ----------------------------
(***************************************************************************)
(* What the chat service promises about the history of a session (of a     *)
(* user, for his summaries): entries come in any order and go only when    *)
(* Limit newer ones have come, or all at once with what they belong to,    *)
(* after which none comes any more.  No entry comes twice.                 *)
(***************************************************************************)
EXTENDS Integers, FiniteSets

CONSTANTS
    Entry,     \* the entries, numbered by their created_at
    Limit      \* how many of the newest are kept

VARIABLES
    open,      \* the session, or the user, is there
    entries,   \* the entries that can be got
    ever       \* the entries that could ever be got

vars == <<open, entries, ever>>

Init ==
    /\ open    = TRUE
    /\ entries = {}
    /\ ever    = {}

Enter(e) ==
    /\ open
    /\ e \notin ever
    /\ entries' = entries \cup {e}
    /\ ever'    = ever \cup {e}
    /\ UNCHANGED open

NewerThan(e) == {f \in ever : f > e}

Drop(E) ==
    /\ open
    /\ \A e \in E : Cardinality(NewerThan(e)) >= Limit
    /\ entries' = entries \ E
    /\ UNCHANGED <<open, ever>>

Close ==
    /\ open
    /\ open'    = FALSE
    /\ entries' = {}
    /\ UNCHANGED ever

Next == \/ \E e \in Entry : Enter(e)
        \/ \E E \in SUBSET entries : Drop(E)
        \/ Close

Spec == Init /\ [][Next]_vars

=============================================================================
