----------------------------- MODULE StreamPair -----------------------------
(***************************************************************************)
(* What a chat session promises to the chat service and to the assistant   *)
(* that talk through it (chatbone/broker.py, ChatSessionData.get_streams): *)
(* two streams that exist or do not exist together, and one task at a time *)
(* that may write to them.  Entries are lost only with the pair, or when   *)
(* the writer itself trims.  A writer that dies keeps its role for ever:   *)
(* the locks behind it are taken without an expiry.                        *)
(***************************************************************************)
EXTENDS Integers

CONSTANTS Client, Stream, Free, Dead

VARIABLES
    exists,   \* the pair exists
    len,      \* per stream: number of entries
    writer    \* the task that holds the write role, Free or Dead

vars == <<exists, len, writer>>

Empty == [s \in Stream |-> 0]

Init ==
    /\ exists = FALSE
    /\ len    = Empty
    /\ writer = Free

Create  == ~exists /\ exists' = TRUE /\ len' = Empty /\ UNCHANGED writer
Discard == exists /\ exists' = FALSE /\ len' = Empty /\ UNCHANGED writer

Acquire(c)  == writer = Free /\ writer' = c /\ UNCHANGED <<exists, len>>
Release(c)  == writer = c /\ writer' = Free /\ UNCHANGED <<exists, len>>
Abandon(c)  == writer = c /\ writer' = Dead /\ UNCHANGED <<exists, len>>

\* One more entry, and possibly fewer old ones.
Append(c, s) ==
    /\ writer = c
    /\ exists
    /\ \E n \in 0 .. len[s] + 1 : len' = [len EXCEPT ![s] = n]
    /\ UNCHANGED <<exists, writer>>

Next == \/ Create
        \/ Discard
        \/ \E c \in Client : \/ Acquire(c)
                             \/ Release(c)
                             \/ Abandon(c)
                             \/ \E s \in Stream : Append(c, s)

Spec == Init /\ [][Next]_vars

=============================================================================
