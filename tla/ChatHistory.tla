---------------------------- MODULE ChatHistory ----------------------------
(***************************************************************************)
(* The bounded history of a chat: messages and summaries of a session, and *)
(* the summaries of a user.  Tasks of the chat service (chatbone/chat/     *)
(* svc.py) create an entry, get the entries, ask for the deletion of old   *)
(* ones when they get too many, and get them again; each of these is an    *)
(* HTTP request that the datastore (datastore/svc, datastore/repo) serves  *)
(* in one SQL transaction.                                                 *)
(*                                                                         *)
(* The entries belong to a row of another table, the chat session or the   *)
(* user, and are deleted with it (ON DELETE CASCADE).                      *)
(*                                                                         *)
(* Entries are numbered by created_at, which is taken when the INSERT is   *)
(* flushed; a transaction with a later number may commit first.  A         *)
(* statement sees what is committed when it starts (PostgreSQL, READ       *)
(* COMMITTED), so a DELETE has two steps: its snapshot and its commit.     *)
(***************************************************************************)
EXTENDS Integers, FiniteSets

CONSTANTS
    Client,        \* the tasks of the chat service
    Kinds,         \* the kinds of entries: "message", "chat_summary", "user_summary"
    Limit,         \* CONFIG.max_messages, max_chat_summaries, max_user_summaries
    Asked,         \* the values of n other callers get entries with
    MaxEntries     \* bound: entries ever created

ASSUME KindAssumption  == Kinds \subseteq {"message", "chat_summary", "user_summary"}
ASSUME LimitAssumption == Limit \in Nat \ {0}
ASSUME AskedAssumption == Asked \subseteq Nat
ASSUME BoundAssumption == MaxEntries \in Nat

VARIABLES
    kind,       \* what the entries are; never changes
    there,      \* the chat session (the user, of user summaries) exists
    entries,    \* the committed entries that are not deleted
    ever,       \* the entries that were ever committed
    clock,      \* created_at of the newest entry
    pc,         \* per task: the request it makes, or "idle"
    stamp,      \* per task: created_at of the entry it inserts
    asked,      \* per task: the n it gets entries with
    victims,    \* per task: the rows its DELETE removes when it commits
    overtaken,  \* history: tasks since whose DELETE an entry was committed
    debt        \* a request failed, and no DELETE has looked at the table since

table == <<there, entries, ever, clock>>
local == <<stamp, asked, victims>>
vars  == <<kind, table, pc, local, overtaken, debt>>

-----------------------------------------------------------------------------
Entry  == 1 .. MaxEntries
Labels == {"idle", "found", "insert", "get", "delete", "deleting", "again", "remove"}
All    == -1                                      \* n < 0: no LIMIT

Newer(S, e) == {f \in S : f > e}

Init ==
    /\ kind \in Kinds
    /\ there   = TRUE
    /\ entries = {}
    /\ ever    = {}
    /\ clock   = 0
    /\ pc      = [c \in Client |-> "idle"]
    /\ stamp   = [c \in Client |-> 0]
    /\ asked   = [c \in Client |-> All]
    /\ victims = [c \in Client |-> {}]
    /\ overtaken = {}
    /\ debt    = FALSE

Goto(c, label) == pc' = [pc EXCEPT ![c] = label]

-----------------------------------------------------------------------------
(* Creation: the first request of _create_message and _create_..._summary. *)

\* Variant of Stamp: the default of created_at evaluated once, at import.
StampOnce == 1

\* created_at: default=utc_now, evaluated at the flush.
Stamp == clock + 1

\* _get_chat_session (of user summaries: _get_token): the owner is there.
Find(c) ==
    /\ pc[c] = "idle"
    /\ there
    /\ Goto(c, "found")
    /\ UNCHANGED <<table, local, overtaken, debt>>

\* A new row locks the row it refers to (FOR KEY SHARE) until it is committed,
\* and the deletion of that row excludes both.
Blocked(label) == \E d \in Client : pc[d] = label

\* Variant of Refers: no foreign key.
RefersAnyway == TRUE

\* The foreign key: the INSERT fails if the session is gone meanwhile (see Fail).
Refers == there

\* The INSERT is flushed, not yet committed.
Insert(c) ==
    /\ pc[c] = "found"
    /\ Refers /\ ~Blocked("remove")
    /\ clock < MaxEntries
    /\ Goto(c, "insert")
    /\ clock' = clock + 1
    /\ stamp' = [stamp EXCEPT ![c] = Stamp]
    /\ UNCHANGED <<there, entries, ever, asked, victims, overtaken, debt>>

\* The session commits before the response is sent; the task then gets all
\* entries.  If the response is lost or late the task gives up.
Commit(c) ==
    /\ pc[c] = "insert"
    /\ entries' = entries \cup {stamp[c]}
    /\ ever'    = ever \cup {stamp[c]}
    /\ \/ Goto(c, "get") /\ UNCHANGED debt
       \/ Goto(c, "idle") /\ debt' = TRUE
    /\ asked'   = [asked EXCEPT ![c] = All]
    /\ stamp'   = [stamp EXCEPT ![c] = 0]
    /\ overtaken' = overtaken \cup {d \in Client : pc[d] \in {"deleting", "again"}}
    /\ UNCHANGED <<there, clock, victims>>

-----------------------------------------------------------------------------
(* _get_messages, _get_chat_summaries, _get_user_summaries.                *)

\* Somebody else gets entries.
Ask(c, n) ==
    /\ pc[c] = "idle"
    /\ Goto(c, "get")
    /\ asked' = [asked EXCEPT ![c] = n]
    /\ UNCHANGED <<table, stamp, victims, overtaken, debt>>

\* The number of entries that "order by created_at desc limit n" returns.
Got(c) == LET total == Cardinality(entries) IN
          IF asked[c] = All \/ total <= asked[c] THEN total ELSE asked[c]

\* Variant of TooMany: the last creator's own entry is forgotten.
TooManyByOne(c) == Got(c) > Limit + 1

TooMany(c) == Got(c) > Limit

Get(c) ==
    /\ pc[c] = "get"
    /\ there
    /\ Goto(c, IF TooMany(c) THEN "delete" ELSE "idle")
    /\ UNCHANGED <<table, local, overtaken, debt>>

\* ChatMessageSVC.delete_old_messages passes a coroutine, not a chat session, to
\* the repository (an await is missing), and answers 500.
DeleteFails == kind = "message"

DeleteError(c) ==
    /\ pc[c] = "delete"
    /\ DeleteFails
    /\ Goto(c, "idle")
    /\ UNCHANGED <<table, local, overtaken, debt>>

\* Variant of Old: one more than asked for is retained.
OldButOne == {e \in entries : Cardinality(Newer(entries, e)) > Limit}

\* Variant of Old: ascending order, so that the newest go.
OldReversed == {e \in entries : Cardinality({f \in entries : f < e}) >= Limit}

\* order_by(created_at.desc()).offset(remain)
Old == {e \in entries : Cardinality(Newer(entries, e)) >= Limit}

\* The DELETE statement takes its snapshot.
Delete(c) ==
    /\ pc[c] = "delete"
    /\ ~DeleteFails
    /\ there
    /\ Goto(c, "deleting")
    /\ victims' = [victims EXCEPT ![c] = Old]
    /\ overtaken' = overtaken \ {c}
    /\ debt'    = FALSE
    /\ UNCHANGED <<table, stamp, asked>>

DeleteCommit(c) ==
    /\ pc[c] = "deleting"
    /\ Goto(c, "again")
    /\ entries' = entries \ victims[c]
    /\ victims' = [victims EXCEPT ![c] = {}]
    /\ UNCHANGED <<there, ever, clock, stamp, asked, overtaken, debt>>

\* "request again to confirm": with too many entries the assertion fails, which
\* the caller sees as 500; either way nothing more is done.
Again(c) ==
    /\ pc[c] = "again"
    /\ Goto(c, "idle")
    /\ overtaken' = overtaken \ {c}
    /\ UNCHANGED <<table, local, debt>>

-----------------------------------------------------------------------------
(* delete_chat_session, and the deletion of a user.                        *)

\* The DELETE of the session waits for INSERTs that refer to it.
Remove(c) ==
    /\ pc[c] = "idle"
    /\ there
    /\ ~Blocked("insert") /\ ~Blocked("remove")
    /\ Goto(c, "remove")
    /\ UNCHANGED <<table, local, overtaken, debt>>

\* The entries go with it.
RemoveCommit(c) ==
    /\ pc[c] = "remove"
    /\ Goto(c, "idle")
    /\ there'   = FALSE
    /\ entries' = {}
    /\ UNCHANGED <<ever, clock, local, overtaken, debt>>

-----------------------------------------------------------------------------
\* A request fails (the session is gone, the token has expired, a timeout, a
\* lost connection) and its transaction is rolled back; the task gives up.
Fail(c) ==
    /\ pc[c] # "idle"
    /\ Goto(c, "idle")
    /\ stamp'   = [stamp EXCEPT ![c] = 0]
    /\ victims' = [victims EXCEPT ![c] = {}]
    /\ overtaken' = overtaken \ {c}
    /\ debt'    = TRUE
    /\ UNCHANGED <<table, asked>>

-----------------------------------------------------------------------------
Next ==
    /\ UNCHANGED kind
    /\ \E c \in Client :
          \/ Find(c) \/ Insert(c) \/ Commit(c)
          \/ Get(c) \/ DeleteError(c) \/ Delete(c) \/ DeleteCommit(c) \/ Again(c)
          \/ Remove(c) \/ RemoveCommit(c)
          \/ Fail(c)
          \/ \E n \in Asked \cup {All} : Ask(c, n)

Spec == Init /\ [][Next]_vars

-----------------------------------------------------------------------------
(* Properties.                                                             *)

\* Types and ranges; every entry has a created_at of its own.
TypeOK ==
    /\ kind    \in Kinds
    /\ clock   \in 0 .. MaxEntries
    /\ ever    \in SUBSET (1 .. clock)
    /\ entries \in SUBSET ever
    /\ pc      \in [Client -> Labels]
    /\ stamp   \in [Client -> 0 .. clock]
    /\ \A c \in Client : pc[c] = "insert" <=> stamp[c] # 0
    /\ \A c \in Client : stamp[c] \notin ever
    /\ \A c, d \in Client : c # d /\ stamp[c] # 0 => stamp[c] # stamp[d]
    /\ asked   \in [Client -> Asked \cup {All}]
    /\ victims \in [Client -> SUBSET ever]
    /\ \A c \in Client : victims[c] # {} => pc[c] = "deleting"
    /\ there   \in BOOLEAN
    /\ overtaken \subseteq {c \in Client : pc[c] \in {"deleting", "again"}}
    /\ debt    \in BOOLEAN

\* While the session is there so are the newest Limit entries that were ever
\* committed, however creations and deletions overlap and in whatever order they
\* commit: an entry is deleted only if at least Limit newer ones exist.
NewestAreKept ==
    there => \A e \in ever : e \notin entries => Cardinality(Newer(ever, e)) >= Limit

\* The limit is not lost from sight: if there are too many entries, beyond those
\* that pending DELETEs remove, a task is on its way to delete them, unless a
\* request has failed; then the next DELETE makes it true again.  (Of messages
\* it is not true at all: their deletion never works, see DeleteFails.)
Doomed == UNION {victims[c] : c \in Client}

ExcessIsHandled ==
    ~DeleteFails /\ ~debt /\ Cardinality(entries \ Doomed) > Limit
        => \E c \in Client : pc[c] \in {"get", "delete"}

\* An entry that was created while its session was deleted does not outlive it,
\* although the session was looked up by an earlier statement.
GoneWithSession == ~there => entries = {}

\* "request again to confirm" finds too many entries, and its caller gets an
\* error 500, only if another entry was committed since the DELETE looked.
ConfirmFailsIfOvertaken ==
    \A c \in Client : pc[c] = "again" /\ TooMany(c) => c \in overtaken

\* The history, as its readers know it.
Recent == INSTANCE RecentEntries WITH open <- there

\* Each single deletion takes only entries that have Limit newer ones by then, no
\* entry comes back, and none comes to a session that is gone.
ImplementsRecent == Recent!Spec

-----------------------------------------------------------------------------
(* What comments of the code say and the code does not do.                 *)

\* "Create new messages and check if messages <= max messages"
\* (_create_message): when no request is on its way and none has failed for a
\* reason outside of this code, the limit holds.
QuietMeansBounded ==
    ~debt /\ (\A c \in Client : pc[c] = "idle") => Cardinality(entries) <= Limit

=============================================================================
