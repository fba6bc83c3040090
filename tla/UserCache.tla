----------------------------- MODULE UserCache -----------------------------
(***************************************************************************)
(* The login of one user over Redis: UserData.save, refresh, expire,       *)
(* get_encrypted_token, verify_encrypted_token and delete                  *)
(* (chatbone/broker.py) as LoginView.login_click, ChatApp.login and        *)
(* MainView.logout_click (chatbone/chat/app.py) call them.                 *)
(*                                                                         *)
(* Redis holds the user document and, under a key of its own per token,    *)
(* the secret that decrypts that token; the document records the token to  *)
(* hand out.  Every action is one round trip, so that the logins of the    *)
(* same user in several browsers interleave between any two commands.      *)
(* The token is created with skip_if_exist=True, the only way the          *)
(* application does it.                                                    *)
(***************************************************************************)
EXTENDS Integers, RedisLife

CONSTANTS
    Page,            \* pages, each in a browser of its own, of this user
    ExpireSeconds,   \* CONFIG.userdata_expire_seconds
    MaxTokens        \* bound: tokens that are ever created

ASSUME ExpireAssumption == ExpireSeconds \in Nat \ {0}
ASSUME TokenAssumption  == MaxTokens \in Nat

VARIABLES
    doc,        \* lifetime of the user document
    recorded,   \* encrypted_secret_token of the document, or NoToken
    secret,     \* per token: lifetime of the key that holds its secret
    fresh,      \* number of tokens created so far
    pc,         \* per page: where it is in login_click or login
    loaded,     \* per page: the token its UserData object has refreshed
    ttl,        \* per page: the answer of TTL on the document
    token,      \* per page: the token it was given or verifies
    storage,    \* per page: "encrypted_token" in the storage of its browser
    caught      \* the pages that were between refresh and expire when another
                \* page created the token of the present document

redis == <<doc, recorded, secret, fresh>>
local == <<loaded, ttl, token, storage>>
vars  == <<redis, pc, local, caught>>

-----------------------------------------------------------------------------
Token   == 1 .. MaxTokens
NoToken == 0
Labels  == {"out", "save", "refresh", "expire", "get", "ttl", "create", "store",
            "verify", "load", "in"}
Lives   == -1 .. 2 * ExpireSeconds

Init ==
    /\ doc      = Absent
    /\ recorded = NoToken
    /\ secret   = [t \in Token |-> Absent]
    /\ fresh    = 0
    /\ pc       = [p \in Page |-> "out"]
    /\ loaded   = [p \in Page |-> NoToken]
    /\ ttl      = [p \in Page |-> -2]
    /\ token    = [p \in Page |-> NoToken]
    /\ storage  = [p \in Page |-> NoToken]
    /\ caught   = {}

Goto(p, label) == pc' = [pc EXCEPT ![p] = label]

\* The handler of page p ends: with the user logged in, or with an error.
Return(p, label) ==
    /\ Goto(p, label)
    /\ loaded' = [loaded EXCEPT ![p] = NoToken]
    /\ ttl'    = [ttl EXCEPT ![p] = -2]

-----------------------------------------------------------------------------
(* login_click, after the auth service has accepted the password.          *)

LoginClick(p) ==
    /\ pc[p] \in {"out", "in"}
    /\ Goto(p, "save")
    /\ token' = [token EXCEPT ![p] = NoToken]
    /\ UNCHANGED <<redis, loaded, ttl, storage, caught>>

\* save: JSON.SET NX leaves an existing document as it is.
Save(p) ==
    /\ pc[p] = "save"
    /\ Goto(p, "refresh")
    /\ doc' = IF doc = Absent THEN Persistent ELSE doc
    /\ UNCHANGED <<recorded, secret, fresh, local, caught>>

\* save: refresh loads the name of the secret key, or "null".
Refresh(p) ==
    /\ pc[p] = "refresh"
    /\ IF doc = Absent
          THEN Return(p, "out")                            \* KeyError
          ELSE /\ Goto(p, "expire")
               /\ loaded' = [loaded EXCEPT ![p] = recorded]
               /\ UNCHANGED ttl
    /\ UNCHANGED <<redis, token, storage, caught>>

\* Variant of Extended: the secret is not among the keys.
ExtendedDocOnly(p) == {}

\* The secrets an expire reaches: get_all_sub_rkeys of the refreshed object.
Extended(p) == {loaded[p]} \cap Token

\* save: expire, one EXEC over the document and the secret it knows of.
Expire(p) ==
    /\ pc[p] = "expire"
    /\ Goto(p, "get")
    /\ doc'    = Relived(doc, ExpireSeconds)
    /\ secret' = [t \in Token |-> IF t \in Extended(p) THEN Relived(secret[t], ExpireSeconds)
                                                       ELSE secret[t]]
    /\ UNCHANGED <<recorded, fresh, local, caught>>

\* Variant of HasToken: the "null" of a document without token passes for one.
HasTokenOrNull == TRUE

\* r != 'null'
HasToken == recorded # NoToken

\* get_encrypted_token: the recorded token is returned as it is.
Get(p) ==
    /\ pc[p] = "get"
    /\ \/ /\ doc = Absent                                  \* UserNotFoundError
          /\ Return(p, "out")
          /\ UNCHANGED token
       \/ /\ doc # Absent /\ HasToken
          /\ Return(p, "store")
          /\ token' = [token EXCEPT ![p] = recorded]
       \/ /\ doc # Absent /\ ~HasToken
          /\ Goto(p, "ttl")
          /\ UNCHANGED <<loaded, ttl, token>>
    /\ UNCHANGED <<redis, storage, caught>>

\* get_encrypted_token: the TTL of the document, read outside the transaction.
ReadTtl(p) ==
    /\ pc[p] = "ttl"
    /\ Goto(p, "create")
    /\ ttl' = [ttl EXCEPT ![p] = SecondsLeft(doc)]
    /\ UNCHANGED <<redis, loaded, token, storage, caught>>

\* Variant of Synced: expire_sync forgets the key of the document itself.
SyncedSecretOnly(p) == doc

\* expire_sync gives the document, like the secret, the TTL it had.
Synced(p) == Relived(doc, ttl[p])

InExpire(p) == {q \in Page \ {p} : pc[q] = "expire"}

\* get_encrypted_token: EXEC of SET secret, JSON.SET of the recorded token, and
\* EXPIRE or PERSIST of both keys.  JSON.SET fails if the document is gone, but
\* EXEC has no rollback.
Create(p) ==
    /\ pc[p] = "create"
    /\ fresh < MaxTokens
    /\ fresh'  = fresh + 1
    /\ secret' = [secret EXCEPT ![fresh + 1] = Lifespan(ttl[p])]
    /\ doc'    = Synced(p)
    /\ IF doc = Absent
          THEN /\ Return(p, "out")                         \* ResponseError
               /\ UNCHANGED <<recorded, token, caught>>
          ELSE /\ Return(p, "store")
               /\ recorded' = fresh + 1
               /\ token'    = [token EXCEPT ![p] = fresh + 1]
               /\ caught'   = caught \cup InExpire(p)
    /\ UNCHANGED storage

\* The token goes to the browser's storage, from where login takes it.
Store(p) ==
    /\ pc[p] = "store"
    /\ Goto(p, "verify")
    /\ storage' = [storage EXCEPT ![p] = token[p]]
    /\ UNCHANGED <<redis, loaded, ttl, token, caught>>

-----------------------------------------------------------------------------
(* ChatApp.login, verify_encrypted_token, logout_click.                    *)

\* A page is opened, or "Login" is clicked on the main view.
Login(p) ==
    /\ pc[p] \in {"out", "in"}
    /\ storage[p] # NoToken
    /\ Goto(p, "verify")
    /\ token' = [token EXCEPT ![p] = storage[p]]
    /\ UNCHANGED <<redis, loaded, ttl, storage, caught>>

\* GET of the secret; EncryptedTokenError removes the token from the storage.
Verify(p) ==
    /\ pc[p] = "verify"
    /\ IF secret[token[p]] = Absent
          THEN /\ Goto(p, "out")
               /\ storage' = [storage EXCEPT ![p] = NoToken]
               /\ token'   = [token EXCEPT ![p] = NoToken]
          ELSE Goto(p, "load") /\ UNCHANGED <<storage, token>>
    /\ UNCHANGED <<redis, loaded, ttl, caught>>

\* JSON.GET of the document; if it is gone, the KeyError of refresh leaves login.
Load(p) ==
    /\ pc[p] = "load"
    /\ IF doc = Absent
          THEN Goto(p, "out") /\ token' = [token EXCEPT ![p] = NoToken]
          ELSE Goto(p, "in") /\ UNCHANGED token
    /\ UNCHANGED <<redis, loaded, ttl, storage, caught>>

Logout(p) ==
    /\ pc[p] = "in"
    /\ Goto(p, "out")
    /\ storage' = [storage EXCEPT ![p] = NoToken]
    /\ token'   = [token EXCEPT ![p] = NoToken]
    /\ UNCHANGED <<redis, loaded, ttl, caught>>

\* The page is closed, or its process dies, at any point; the storage stays.
Close(p) ==
    /\ pc[p] # "out"
    /\ Return(p, "out")
    /\ token' = [token EXCEPT ![p] = NoToken]
    /\ UNCHANGED <<redis, storage, caught>>

-----------------------------------------------------------------------------
(* The keys go: UserData.delete of a logged-in page, and time.             *)

\* One DEL of the document and of the secret of the object's own token.
Delete(p) ==
    /\ pc[p] = "in"
    /\ doc'      = Absent
    /\ recorded' = NoToken
    /\ secret'   = [secret EXCEPT ![token[p]] = Absent]
    /\ caught'   = {}
    /\ UNCHANGED <<fresh, pc, local>>

Tick ==
    /\ doc > 0 \/ \E t \in Token : secret[t] > 0
    /\ doc'      = Aged(doc)
    /\ secret'   = [t \in Token |-> Aged(secret[t])]
    /\ recorded' = IF Aged(doc) = Absent THEN NoToken ELSE recorded
    /\ caught'   = IF Aged(doc) = Absent THEN {} ELSE caught
    /\ UNCHANGED <<fresh, pc, local>>

-----------------------------------------------------------------------------
GetToken(p) == Get(p) \/ ReadTtl(p) \/ Create(p) \/ Store(p)

Next == \/ \E p \in Page : \/ LoginClick(p) \/ Save(p) \/ Refresh(p) \/ Expire(p)
                           \/ GetToken(p)
                           \/ Login(p) \/ Verify(p) \/ Load(p)
                           \/ Logout(p) \/ Close(p) \/ Delete(p)
        \/ Tick

Spec == Init /\ [][Next]_vars

-----------------------------------------------------------------------------
(* Properties.                                                             *)

\* Types and ranges; only a created token is recorded, handed out or stored.
TypeOK ==
    /\ fresh    \in 0 .. MaxTokens
    /\ doc      \in Lives
    /\ recorded \in 0 .. fresh
    /\ secret   \in [Token -> Lives]
    /\ \A t \in Token : t > fresh => secret[t] = Absent
    /\ pc       \in [Page -> Labels]
    /\ loaded   \in [Page -> 0 .. fresh]
    /\ ttl      \in [Page -> -2 .. ExpireSeconds]
    /\ token    \in [Page -> 0 .. fresh]
    /\ storage  \in [Page -> 0 .. fresh]
    /\ \A p \in Page : pc[p] \in {"store", "verify", "load", "in"} => token[p] \in Token
    /\ caught   \in SUBSET Page

\* The token that get_encrypted_token hands out without a look at its secret can
\* be verified for as long as the document lives: both keys have the same time
\* to live, through crashes between save and expire, deadlines and deletions.
\* The one exception is a token created while another login of the user is
\* between its refresh and its expire; its damage ends with the document.
TokenLivesWithDocument ==
    doc # Absent /\ recorded # NoToken /\ caught = {} => secret[recorded] = doc

\* What makes it so: a login about to expire the keys knows the recorded token,
\* and a document that is gone leaves nothing recorded.
ExpireKnowsToken ==
    \A p \in Page : pc[p] = "expire" /\ recorded # NoToken /\ caught = {}
                      => loaded[p] = recorded

\* The inductive invariant.
IInv ==
    /\ TypeOK
    /\ TokenLivesWithDocument
    /\ ExpireKnowsToken
    /\ doc = Absent => recorded = NoToken /\ caught = {}

\* The tokens of the user, as the keys of their secrets show them.
Tokens == INSTANCE LoginTokens WITH
              made     <- fresh,
              accepted <- {t \in Token : secret[t] # Absent}

\* However the commands of several logins, deletions, crashes and deadlines fall
\* between each other, a token that was refused once is refused for ever: nothing
\* brings the secret of an old token back.
ImplementsTokens == Tokens!Spec

-----------------------------------------------------------------------------
(* What comments of the code say and the code does not do.                 *)

\* "No Encrypted token exist, if user data is not expired, use
\* 'get_encrypted_token' first" (verify_encrypted_token): while the document
\* lives, get_encrypted_token returns a token whose secret exists.
GetReturnsLiveToken ==
    [][\A p \in Page : Get(p) /\ pc'[p] = "store" => secret[recorded] # Absent]_vars

=============================================================================
