---------------------------- MODULE AccessTokens ----------------------------
(***************************************************************************)
(* The access tokens of one user name.  The auth service (auth/auth_svc.py)*)
(* registers and authenticates by a request to the datastore, which serves *)
(* it in one SQL transaction (datastore/svc/user_svc.py, datastore/repo):  *)
(* load the user and the tokens, check the password in a thread, look for  *)
(* a token that has not expired, create one if there is none, commit.      *)
(* Meanwhile tokens expire, and are deleted, alone or with their user.     *)
(*                                                                         *)
(* Whoever gets the list of tokens uses the last one (_decode_jwt,         *)
(* LoginView.login_click).  No query orders it: rows come in the order of  *)
(* their places in the table, where a new row may take the place of a      *)
(* deleted one.                                                            *)
(***************************************************************************)
EXTENDS Integers

CONSTANTS
    Client,        \* the requests that may be under way at the same time
    Duration,      \* auth: token_duration_seconds
    MaxTokens,     \* bound: tokens ever inserted
    MaxUsers,      \* bound: registrations of the name
    MaxTime        \* bound: time

ASSUME DurationAssumption == Duration \in Nat \ {0, 1}
ASSUME BoundAssumption    == MaxTokens \in Nat /\ MaxUsers \in Nat /\ MaxTime \in Nat

VARIABLES
    now,        \* utc_now()
    user,       \* the committed user of that name: a number, or 0 for none
    users,      \* users ever inserted
    tokens,     \* the committed tokens, numbered as they were inserted
    count,      \* tokens ever inserted
    expires,    \* per token: expires_at
    owner,      \* per token: user_id
    place,      \* per token: where its row is
    born,       \* history, per token: the tokens its creator had loaded
    pc,         \* per request: what it does next
    lease,      \* per request: the expires_at it carries
    who, seen,  \* per request: the user and the tokens it has loaded
    mine        \* per request: the token it inserted and did not commit, or 0

rows  == <<expires, owner, place, born>>
local == <<lease, who, seen, mine>>
vars  == <<now, user, users, tokens, count, rows, pc, local>>

-----------------------------------------------------------------------------
Token  == 1 .. MaxTokens
Places == 1 .. MaxTokens
User   == 0 .. MaxUsers
Labels == {"idle", "login", "signup", "loaded", "create", "inserted", "registered"}

Init ==
    /\ now = 0 /\ user = 0 /\ users = 0 /\ tokens = {} /\ count = 0
    /\ expires = [t \in Token |-> 0]
    /\ owner   = [t \in Token |-> 0]
    /\ place   = [t \in Token |-> 0]
    /\ born    = [t \in Token |-> {}]
    /\ pc      = [c \in Client |-> "idle"]
    /\ lease   = [c \in Client |-> 0]
    /\ who     = [c \in Client |-> 0]
    /\ seen    = [c \in Client |-> {}]
    /\ mine    = [c \in Client |-> 0]

Goto(c, label) == pc' = [pc EXCEPT ![c] = label]

\* Nothing stays of a request that has ended.
Done(c) ==
    /\ Goto(c, "idle")
    /\ lease' = [lease EXCEPT ![c] = 0]
    /\ who'   = [who EXCEPT ![c] = 0]
    /\ seen'  = [seen EXCEPT ![c] = {}]
    /\ mine'  = [mine EXCEPT ![c] = 0]

Valid(t) == now < expires[t]

\* The token that S[-1] is.
IsLast(t, S) == t \in S /\ \A s \in S : place[s] <= place[t]

-----------------------------------------------------------------------------
(* AuthenticationSVC.                                                      *)

Lease == now + Duration

\* authenticate: the expiry is fixed before the request is sent.
Authenticate(c) ==
    /\ pc[c] = "idle"
    /\ Goto(c, "login")
    /\ lease' = [lease EXCEPT ![c] = Lease]
    /\ UNCHANGED <<now, user, users, tokens, count, rows, who, seen, mine>>

Register(c) ==
    /\ pc[c] = "idle"
    /\ Goto(c, "signup")
    /\ lease' = [lease EXCEPT ![c] = Lease]
    /\ UNCHANGED <<now, user, users, tokens, count, rows, who, seen, mine>>

-----------------------------------------------------------------------------
(* UserAccessSVC.verify_user.                                              *)

\* UserRepo.get loads the user and, with it, the tokens.
Load(c) ==
    /\ pc[c] = "login"
    /\ user # 0
    /\ Goto(c, "loaded")
    /\ who'  = [who EXCEPT ![c] = user]
    /\ seen' = [seen EXCEPT ![c] = tokens]
    /\ UNCHANGED <<now, user, users, tokens, count, rows, lease, mine>>

\* Variant of ShouldCreate: flag "always".
CreateAlways(c) == c \in Client

\* _should_create_token with the flag "if_all_expired".
ShouldCreate(c) == \A t \in seen[c] : ~Valid(t)

\* A token is valid: the loaded list is the answer, and nothing is committed.
Answer(c) ==
    /\ pc[c] = "loaded"
    /\ ~ShouldCreate(c)
    /\ Done(c)
    /\ UNCHANGED <<now, user, users, tokens, count, rows>>

Decide(c) ==
    /\ pc[c] = "loaded"
    /\ ShouldCreate(c)
    /\ Goto(c, "create")
    /\ UNCHANGED <<now, user, users, tokens, count, rows, local>>

\* A new row takes the place of one that was deleted or rolled back, or the one
\* after all others.
Held    == {place[t] : t \in tokens} \cup {place[mine[c]] : c \in {d \in Client : mine[d] # 0}}
Used    == {place[t] : t \in 1 .. count}
IsFree(p) ==
    \/ p \in Used \ Held
    \/ p \notin Used /\ \A q \in 1 .. p - 1 : q \in Used

\* Variant of NewToken: the first token's number is 0.
NewTokenFromZero == count

NewToken == count + 1

\* The INSERT of a token for user u is flushed, not yet committed.
InsertToken(c, u, label) ==
    /\ count < MaxTokens
    /\ count'   = NewToken
    /\ mine'    = [mine EXCEPT ![c] = NewToken]
    /\ expires' = [expires EXCEPT ![NewToken] = lease[c]]
    /\ owner'   = [owner EXCEPT ![NewToken] = u]
    /\ born'    = [born EXCEPT ![NewToken] = seen[c]]
    /\ \E p \in Places :
          /\ IsFree(p)
          /\ place' = [place EXCEPT ![NewToken] = p]
    /\ Goto(c, label)

\* TokenRepo.create: refresh(user) fails if the row is gone.  It also reads the
\* tokens again, which nobody looks at.
StillThere(c) == user = who[c]

Create(c) ==
    /\ pc[c] = "create"
    /\ StillThere(c)
    /\ InsertToken(c, who[c], "inserted")
    /\ UNCHANGED <<now, user, users, tokens, lease, who, seen>>

-----------------------------------------------------------------------------
(* UserAccessSVC.create_user.                                              *)

\* A registration has inserted the user and not committed it.
Registering == \E c \in Client : pc[c] = "registered"

\* The name is unique: the INSERT waits for another one, and fails (409) if the
\* name exists.
CreateUser(c) ==
    /\ pc[c] = "signup"
    /\ user = 0
    /\ ~Registering
    /\ users < MaxUsers
    /\ users' = users + 1
    /\ who' = [who EXCEPT ![c] = users + 1]
    /\ InsertToken(c, users + 1, "registered")
    /\ UNCHANGED <<now, user, tokens, lease, seen>>

-----------------------------------------------------------------------------
\* The transaction of a login commits; the answer, or its loss, leaves no state.
Commit(c) ==
    /\ pc[c] = "inserted"
    /\ tokens' = tokens \cup {mine[c]}
    /\ Done(c)
    /\ UNCHANGED <<now, user, users, count, rows>>

\* The transaction of a registration commits the user and the token.
CommitUser(c) ==
    /\ pc[c] = "registered"
    /\ tokens' = tokens \cup {mine[c]}
    /\ user'   = who[c]
    /\ Done(c)
    /\ UNCHANGED <<now, users, count, rows>>

\* The name is unknown (404) or taken (409), the password is wrong (401), the user
\* is gone, the datastore fails or the client's timeout ends the request (500):
\* the transaction is rolled back.
Fail(c) ==
    /\ pc[c] # "idle"
    /\ Done(c)
    /\ UNCHANGED <<now, user, users, tokens, count, rows>>

-----------------------------------------------------------------------------
(* The requests of the holder of a valid token.                            *)

\* TokenRepo.get_verify
Authorized == \E t \in tokens : Valid(t)

\* delete_tokens: some of the user's own.
DeleteTokens(S) ==
    /\ Authorized
    /\ S # {} /\ S \subseteq tokens
    /\ tokens' = tokens \ S
    /\ UNCHANGED <<now, user, users, count, rows, pc, local>>

\* Variant of Referenced: the lock of the foreign key ignored.
NotReferenced == FALSE

\* An uncommitted token row holds a lock on the user's row.
Referenced == \E c \in Client : pc[c] = "inserted" /\ who[c] = user

\* delete_user: the tokens go with the user.
DeleteUser ==
    /\ Authorized
    /\ ~Referenced
    /\ user'   = 0
    /\ tokens' = {}
    /\ UNCHANGED <<now, users, count, rows, pc, local>>

-----------------------------------------------------------------------------
\* No request lasts as long as a token: the timeouts of the clients are 30 s, a
\* token lasts a day.
Tick ==
    /\ now < MaxTime
    /\ \A c \in Client : pc[c] # "idle" => now + 1 < lease[c]
    /\ now' = now + 1
    /\ UNCHANGED <<user, users, tokens, count, rows, pc, local>>

Next ==
    \/ \E c \in Client :
          \/ Authenticate(c) \/ Load(c) \/ Answer(c) \/ Decide(c) \/ Create(c)
          \/ Register(c) \/ CreateUser(c)
          \/ Commit(c) \/ CommitUser(c) \/ Fail(c)
    \/ \E S \in SUBSET tokens : DeleteTokens(S)
    \/ DeleteUser
    \/ Tick

Spec == Init /\ [][Next]_vars

-----------------------------------------------------------------------------
(* Properties.                                                             *)

\* Types and ranges; a request carries an expiry that has not passed, and the
\* token it inserted is its own and not committed.
TypeOK ==
    /\ now     \in 0 .. MaxTime
    /\ users   \in User
    /\ user    \in 0 .. users
    /\ count   \in 0 .. MaxTokens
    /\ tokens  \in SUBSET (1 .. count)
    /\ expires \in [Token -> 0 .. MaxTime + Duration]
    /\ owner   \in [Token -> User]
    /\ place   \in [Token -> 0 .. MaxTokens]
    /\ born    \in [Token -> SUBSET Token]
    /\ pc      \in [Client -> Labels]
    /\ lease   \in [Client -> 0 .. MaxTime + Duration]
    /\ \A c \in Client : pc[c] # "idle" => now < lease[c]
    /\ who     \in [Client -> 0 .. users]
    /\ seen    \in [Client -> SUBSET (1 .. count)]
    /\ mine    \in [Client -> 0 .. count]
    /\ \A c \in Client : pc[c] \in {"inserted", "registered"} <=> mine[c] # 0
    /\ \A c \in Client : mine[c] \notin tokens
    /\ \A c, d \in Client : c # d /\ mine[c] # 0 => mine[c] # mine[d]

\* One valid token at a time, the aim of "if_all_expired", can fail only for
\* transactions that overlapped: of two valid tokens, none was there when the
\* other's creator looked.
OneUnlessOverlapping ==
    \A s, t \in tokens : s # t /\ Valid(s) /\ Valid(t) => s \notin born[t]

\* The lists that callers take the last token of.
Lists == {tokens} \cup {seen[c] : c \in Client}

\* The creations of a list's tokens followed each other, and so do their rows.
InOrder(S) == \A s, t \in S : s < t => s \in born[t] /\ place[s] < place[t]

\* If a login finds a valid token, the last one, which is the one it will be
\* judged by, is valid, unless creations overlapped or a row took the place of a
\* deleted one.
LastIsValid ==
    \A S \in Lists : InOrder(S) /\ (\E t \in S : Valid(t))
        => \A t \in S : IsLast(t, S) => Valid(t)

\* Tokens belong to the user there is, although the user may be deleted while a
\* login that has loaded him creates a token.
TokensHaveUser == \A t \in tokens : user # 0 /\ owner[t] = user

=============================================================================
