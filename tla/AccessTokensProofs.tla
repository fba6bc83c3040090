------------------------ MODULE AccessTokensProofs -------------------------
(***************************************************************************)
(* Proofs for AccessTokens.  The strengthening of the properties says what *)
(* a creator knew (LookedAt, SawExpired, BornExpired) and who may have     *)
(* rows on the way for which user (Owners, OneRegistration).               *)
(***************************************************************************)
EXTENDS AccessTokens, TLAPS

\* What a request has loaded, and when.
LookedAt ==
    /\ \A c \in Client : pc[c] \in {"idle", "login", "signup"} => seen[c] = {}
    /\ \A c \in Client : pc[c] \in {"loaded", "create", "inserted", "registered"} => who[c] # 0

\* A request that will create a token has seen no valid one.
SawExpired == \A c \in Client : pc[c] = "create" => \A s \in seen[c] : expires[s] <= now

\* The tokens that a token's creator saw have expired.
BornExpired ==
    \A t \in Token : \A s \in born[t] : s \in 1 .. count /\ expires[s] <= now

\* An uncommitted token is of the user there is, or of one that is registering
\* because there is none.
Owners ==
    \A c \in Client :
        /\ pc[c] \in {"inserted", "registered"} => owner[mine[c]] = who[c]
        /\ pc[c] = "inserted" => user = who[c]
        /\ pc[c] = "registered" => user = 0

\* One registration at a time has inserted its user.
OneRegistration ==
    \A c, d \in Client : pc[c] = "registered" /\ pc[d] = "registered" => c = d

IInv ==
    /\ TypeOK /\ LookedAt /\ SawExpired /\ BornExpired
    /\ TokensHaveUser /\ Owners /\ OneRegistration

-----------------------------------------------------------------------------
LEMMA InitIInv == Init => IInv
BY DurationAssumption, BoundAssumption
   DEF Init, IInv, TypeOK, LookedAt, SawExpired, BornExpired, TokensHaveUser, Owners,
       OneRegistration, Token, User, Labels

\* A request that is sent carries an expiry in the future.
LEMMA AskIInv ==
    ASSUME IInv, NEW c \in Client, Authenticate(c) \/ Register(c)
    PROVE  IInv'
<1>1. TypeOK'
  <2>1. Lease \in 0 .. MaxTime + Duration /\ now < Lease
    BY DurationAssumption, BoundAssumption DEF IInv, TypeOK, Lease
  <2>2. /\ pc' = [pc EXCEPT ![c] = "login"] \/ pc' = [pc EXCEPT ![c] = "signup"]
        /\ lease' = [lease EXCEPT ![c] = Lease]
        /\ pc[c] = "idle"
        /\ UNCHANGED <<now, user, users, tokens, count, expires, owner, place, born, who,
                       seen, mine>>
    BY DEF Authenticate, Register, Goto, rows
  <2>3. /\ pc' \in [Client -> Labels]
        /\ lease' \in [Client -> 0 .. MaxTime + Duration]
        /\ \A d \in Client : pc'[d] # "idle" => now < lease'[d]
        /\ \A d \in Client : pc'[d] \in {"inserted", "registered"} <=> mine[d] # 0
    BY <2>1, <2>2 DEF IInv, TypeOK, Labels
  <2> QED BY <2>2, <2>3 DEF IInv, TypeOK
<1>2. (LookedAt /\ SawExpired /\ BornExpired)'
  BY DEF IInv, TypeOK, LookedAt, SawExpired, BornExpired, Authenticate, Register, Goto, rows
<1>3. (TokensHaveUser /\ Owners /\ OneRegistration)'
  <2> /\ \A d \in Client : pc'[d] \in {"inserted", "registered"} => pc'[d] = pc[d]
      /\ UNCHANGED <<user, tokens, owner, who, mine>>
    BY DEF IInv, TypeOK, Authenticate, Register, Goto, rows
  <2> QED BY DEF IInv, TokensHaveUser, Owners, OneRegistration
<1> QED BY <1>1, <1>2, <1>3 DEF IInv

LEMMA LoadIInv ==
    ASSUME IInv, NEW c \in Client, Load(c)
    PROVE  IInv'
<1>1. TypeOK'
  BY DEF IInv, TypeOK, Load, Goto, Labels, rows, User
<1>2. (LookedAt /\ SawExpired /\ BornExpired)'
  BY DEF IInv, TypeOK, LookedAt, SawExpired, BornExpired, Load, Goto, rows
<1>3. (TokensHaveUser /\ Owners /\ OneRegistration)'
  BY DEF IInv, TypeOK, TokensHaveUser, Owners, OneRegistration, Load, Goto, rows
<1> QED BY <1>1, <1>2, <1>3 DEF IInv

\* The decision is on what was loaded: none of it is valid any more.
LEMMA DecideIInv ==
    ASSUME IInv, NEW c \in Client, Decide(c)
    PROVE  IInv'
<1>1. TypeOK'
  BY DEF IInv, TypeOK, Decide, Goto, Labels, rows, local
<1>2. (LookedAt /\ BornExpired)'
  BY DEF IInv, TypeOK, LookedAt, BornExpired, Decide, Goto, rows, local
<1>3. SawExpired'
  <2> \A s \in seen[c] : expires[s] <= now
    <3> TAKE s \in seen[c]
    <3>1. ~(now < expires[s])
      BY DEF Decide, ShouldCreate, Valid
    <3>2. s \in Token /\ expires[s] \in Int /\ now \in Int
      BY DurationAssumption, BoundAssumption DEF IInv, TypeOK, Token
    <3> QED BY <3>1, <3>2
  <2> QED BY DEF IInv, TypeOK, SawExpired, Decide, Goto, rows, local
<1>4. (TokensHaveUser /\ Owners /\ OneRegistration)'
  BY DEF IInv, TypeOK, TokensHaveUser, Owners, OneRegistration, Decide, Goto, rows, local
<1> QED BY <1>1, <1>2, <1>3, <1>4 DEF IInv

\* A request ends and leaves nothing: an answer or a failure.
LEMMA EndIInv ==
    ASSUME IInv, NEW c \in Client, Answer(c) \/ Fail(c)
    PROVE  IInv'
<1> Done(c) /\ UNCHANGED <<now, user, users, tokens, count, rows>>
  BY DEF Answer, Fail
<1>1. TypeOK'
  <2>1. /\ pc' = [pc EXCEPT ![c] = "idle"]
        /\ lease' = [lease EXCEPT ![c] = 0]
        /\ who' = [who EXCEPT ![c] = 0]
        /\ seen' = [seen EXCEPT ![c] = {}]
        /\ mine' = [mine EXCEPT ![c] = 0]
        /\ UNCHANGED <<now, user, users, tokens, count, expires, owner, place, born>>
    BY DEF Done, Goto, rows
  <2>2. /\ 0 \in 0 .. MaxTime + Duration /\ 0 \in 0 .. users /\ 0 \in 0 .. count
        /\ 0 \notin tokens
    BY BoundAssumption, DurationAssumption DEF IInv, TypeOK, User
  <2>3. /\ pc' \in [Client -> Labels]
        /\ lease' \in [Client -> 0 .. MaxTime + Duration]
        /\ who' \in [Client -> 0 .. users]
        /\ seen' \in [Client -> SUBSET (1 .. count)]
        /\ mine' \in [Client -> 0 .. count]
    BY <2>1, <2>2 DEF IInv, TypeOK, Labels
  <2>4. /\ \A d \in Client : pc'[d] # "idle" => now < lease'[d]
        /\ \A d \in Client : pc'[d] \in {"inserted", "registered"} <=> mine'[d] # 0
        /\ \A d \in Client : mine'[d] \notin tokens
        /\ \A d, e \in Client : d # e /\ mine'[d] # 0 => mine'[d] # mine'[e]
    BY <2>1, <2>2 DEF IInv, TypeOK
  <2> QED BY <2>1, <2>3, <2>4 DEF IInv, TypeOK
<1>2. (LookedAt /\ SawExpired /\ BornExpired)'
  BY DEF IInv, TypeOK, LookedAt, SawExpired, BornExpired, Done, Goto, rows
<1>3. (TokensHaveUser /\ Owners /\ OneRegistration)'
  BY DEF IInv, TypeOK, TokensHaveUser, Owners, OneRegistration, Done, Goto, rows
<1> QED BY <1>1, <1>2, <1>3 DEF IInv

-----------------------------------------------------------------------------
\* The new token's number is fresh and in range.
LEMMA FreshToken ==
    ASSUME IInv, count < MaxTokens
    PROVE  /\ NewToken \in Token /\ NewToken = count + 1
           /\ NewToken \notin 1 .. count /\ NewToken # 0
           /\ \A t \in 1 .. count : t \in 1 .. NewToken /\ t \in 1 .. count + 1
           /\ 0 .. count \subseteq 0 .. NewToken
           /\ NewToken \in 0 .. MaxTokens
           /\ NewToken \in 1 .. NewToken
           /\ Token \subseteq Int /\ 1 .. count \subseteq Token
<1> count \in Nat /\ MaxTokens \in Nat /\ count \in 0 .. MaxTokens
  BY BoundAssumption DEF IInv, TypeOK
<1> QED BY DEF NewToken, Token

\* What an insertion does to the types.
LEMMA InsertTypeOK ==
    ASSUME IInv, NEW c \in Client, NEW u \in 0 .. users', NEW l \in {"inserted", "registered"}, InsertToken(c, u, l),
           pc[c] \in {"create", "signup"},
           users' \in User, users \in 0 .. users', who' \in [Client -> 0 .. users'],
           UNCHANGED <<now, user, tokens, lease, seen>>
    PROVE  TypeOK'
<1>1. /\ count < MaxTokens /\ count' = NewToken
      /\ mine' = [mine EXCEPT ![c] = NewToken]
      /\ expires' = [expires EXCEPT ![NewToken] = lease[c]]
      /\ owner' = [owner EXCEPT ![NewToken] = u]
      /\ born' = [born EXCEPT ![NewToken] = seen[c]]
      /\ \E p \in Places : place' = [place EXCEPT ![NewToken] = p]
      /\ pc' = [pc EXCEPT ![c] = l]
  BY DEF InsertToken, Goto
<1>2. /\ now' \in 0 .. MaxTime /\ users' \in User /\ user' \in 0 .. users'
      /\ count' \in 0 .. MaxTokens /\ tokens' \in SUBSET (1 .. count')
  <2>1. user \in 0 .. users'
    BY DEF IInv, TypeOK, User
  <2> QED BY <1>1, <2>1, FreshToken DEF IInv, TypeOK
<1>3. /\ expires' \in [Token -> 0 .. MaxTime + Duration]
      /\ born' \in [Token -> SUBSET Token]
  BY <1>1, FreshToken DEF IInv, TypeOK
<1>4. owner' \in [Token -> User] /\ place' \in [Token -> 0 .. MaxTokens]
  <2>1. u \in User
    BY BoundAssumption DEF User
  <2>2. \A p \in Places : p \in 0 .. MaxTokens
    BY BoundAssumption DEF Places
  <2> QED BY <1>1, <2>1, <2>2 DEF IInv, TypeOK
<1>5. /\ pc' \in [Client -> Labels] /\ lease' \in [Client -> 0 .. MaxTime + Duration]
      /\ \A d \in Client : pc'[d] # "idle" => now' < lease'[d]
  BY <1>1 DEF IInv, TypeOK, Labels
<1>6. /\ seen' \in [Client -> SUBSET (1 .. count')] /\ mine' \in [Client -> 0 .. count']
  BY <1>1, FreshToken DEF IInv, TypeOK
<1>7. \A d \in Client : mine[d] # NewToken
  BY <1>1, FreshToken DEF IInv, TypeOK
<1>8. /\ \A d \in Client : pc'[d] \in {"inserted", "registered"} <=> mine'[d] # 0
      /\ \A d \in Client : mine'[d] \notin tokens'
      /\ \A d, e \in Client : d # e /\ mine'[d] # 0 => mine'[d] # mine'[e]
  <2>1. NewToken # 0 /\ NewToken \notin tokens
    BY <1>1, FreshToken DEF IInv, TypeOK
  <2> QED BY <1>1, <1>7, <2>1 DEF IInv, TypeOK
<1> QED BY <1>2, <1>3, <1>4, <1>5, <1>6, <1>8 DEF TypeOK

\* What an insertion does to the rest: the creator saw only expired tokens.
LEMMA InsertKnowledge ==
    ASSUME IInv, NEW c \in Client, NEW u, NEW l \in {"inserted", "registered"}, InsertToken(c, u, l),
           pc[c] \in {"create", "signup"},
           \A d \in Client : who'[d] = IF d = c THEN u ELSE who[d],
           u # 0,
           UNCHANGED <<now, user, tokens, lease, seen>>
    PROVE  (LookedAt /\ SawExpired /\ BornExpired)'
<1>1. /\ count < MaxTokens /\ count' = NewToken
      /\ expires' = [expires EXCEPT ![NewToken] = lease[c]]
      /\ born' = [born EXCEPT ![NewToken] = seen[c]]
      /\ pc' = [pc EXCEPT ![c] = l]
  BY DEF InsertToken, Goto
<1>2. LookedAt'
  BY <1>1 DEF IInv, TypeOK, LookedAt
<1>3. \A t \in 1 .. count : expires'[t] = expires[t]
  BY <1>1, FreshToken DEF IInv, TypeOK
<1>4. SawExpired'
  BY <1>1, <1>3 DEF IInv, TypeOK, SawExpired
<1>5. \A s \in seen[c] : s \in 1 .. count /\ expires[s] <= now
  BY DEF IInv, TypeOK, LookedAt, SawExpired
<1>6. BornExpired'
  <2> SUFFICES ASSUME NEW t \in Token, NEW s \in born'[t]
               PROVE  s \in 1 .. count' /\ expires'[s] <= now'
    BY DEF BornExpired
  <2>1. s \in 1 .. count /\ expires[s] <= now
    <3>1. CASE t = NewToken
      BY <1>1, <1>5, <3>1, FreshToken DEF IInv, TypeOK
    <3>2. CASE t # NewToken
      BY <1>1, <3>2 DEF IInv, TypeOK, BornExpired
    <3> QED BY <3>1, <3>2
  <2> QED BY <1>1, <1>3, <2>1, FreshToken
<1> QED BY <1>2, <1>4, <1>6

LEMMA InsertOwners ==
    ASSUME IInv, NEW c \in Client, NEW u, NEW l \in {"inserted", "registered"}, InsertToken(c, u, l),
           \A d \in Client : who'[d] = IF d = c THEN u ELSE who[d],
           l = "inserted" => user = u,
           l = "registered" => user = 0 /\ ~Registering,
           UNCHANGED <<user, tokens>>
    PROVE  (TokensHaveUser /\ Owners /\ OneRegistration)'
<1>1. /\ count < MaxTokens /\ count' = NewToken
      /\ mine' = [mine EXCEPT ![c] = NewToken]
      /\ owner' = [owner EXCEPT ![NewToken] = u]
      /\ pc' = [pc EXCEPT ![c] = l]
  BY DEF InsertToken, Goto
<1>2. \A t \in 1 .. count : owner'[t] = owner[t]
  BY <1>1, FreshToken DEF IInv, TypeOK
<1>3. TokensHaveUser'
  BY <1>2 DEF IInv, TypeOK, TokensHaveUser
<1>4. Owners'
  <2>1. \A d \in Client : pc[d] \in {"inserted", "registered"} => owner'[mine[d]] = who[d]
    <3> \A d \in Client : pc[d] \in {"inserted", "registered"} => mine[d] \in 1 .. count
      BY DEF IInv, TypeOK
    <3> QED BY <1>2 DEF IInv, Owners
  <2>2. owner'[NewToken] = u
    BY <1>1, FreshToken DEF IInv, TypeOK
  <2> QED BY <1>1, <2>1, <2>2 DEF IInv, TypeOK, Owners
<1>5. OneRegistration'
  BY <1>1 DEF IInv, TypeOK, OneRegistration, Registering
<1> QED BY <1>3, <1>4, <1>5

\* A login inserts a token for the user it loaded, who is still there.
LEMMA CreateIInv ==
    ASSUME IInv, NEW c \in Client, Create(c)
    PROVE  IInv'
<1>1. /\ pc[c] = "create" /\ user = who[c] /\ InsertToken(c, who[c], "inserted")
      /\ UNCHANGED <<now, user, users, tokens, lease, who, seen>>
  BY DEF Create, StillThere
<1>2. who[c] \in 0 .. users' /\ who[c] # 0 /\ users' \in User /\ users \in 0 .. users'
  <2>1. users \in Nat
    BY BoundAssumption DEF IInv, TypeOK, User
  <2> QED BY <1>1, <2>1 DEF IInv, TypeOK, LookedAt
<1>3. who' \in [Client -> 0 .. users'] /\ \A d \in Client : who'[d] = IF d = c THEN who[c] ELSE who[d]
  BY <1>1 DEF IInv, TypeOK
<1>4. TypeOK'
  BY <1>1, <1>2, <1>3, InsertTypeOK
<1>5. (LookedAt /\ SawExpired /\ BornExpired)'
  BY <1>1, <1>2, <1>3, InsertKnowledge
<1>6. (TokensHaveUser /\ Owners /\ OneRegistration)'
  BY <1>1, <1>3, InsertOwners
<1> QED BY <1>4, <1>5, <1>6 DEF IInv

\* A registration inserts a user when there is none and none is on its way.
LEMMA CreateUserIInv ==
    ASSUME IInv, NEW c \in Client, CreateUser(c)
    PROVE  IInv'
<1>1. /\ pc[c] = "signup" /\ user = 0 /\ ~Registering /\ users < MaxUsers
      /\ users' = users + 1 /\ who' = [who EXCEPT ![c] = users + 1]
      /\ InsertToken(c, users + 1, "registered")
      /\ UNCHANGED <<now, user, tokens, lease, seen>>
  BY DEF CreateUser
<1>2. /\ users + 1 \in 0 .. users' /\ users + 1 # 0 /\ users' \in User /\ users \in 0 .. users'
      /\ 0 .. users \subseteq 0 .. users'
  <2>1. users \in Nat /\ MaxUsers \in Nat
    BY BoundAssumption DEF IInv, TypeOK, User
  <2> QED BY <1>1, <2>1 DEF User
<1>3. who' \in [Client -> 0 .. users']
      /\ \A d \in Client : who'[d] = IF d = c THEN users + 1 ELSE who[d]
  BY <1>1, <1>2 DEF IInv, TypeOK
<1>5. TypeOK'
  BY <1>1, <1>2, <1>3, InsertTypeOK
<1>6. (LookedAt /\ SawExpired /\ BornExpired)'
  BY <1>1, <1>2, <1>3, InsertKnowledge
<1>7. (TokensHaveUser /\ Owners /\ OneRegistration)'
  BY <1>1, <1>3, InsertOwners
<1> QED BY <1>5, <1>6, <1>7 DEF IInv

\* A commit makes the token, and perhaps its user, visible.
LEMMA CommitIInv ==
    ASSUME IInv, NEW c \in Client, Commit(c) \/ CommitUser(c)
    PROVE  IInv'
<1>1. /\ pc[c] \in {"inserted", "registered"}
      /\ tokens' = tokens \cup {mine[c]}
      /\ user' = who[c]
      /\ pc' = [pc EXCEPT ![c] = "idle"]
      /\ lease' = [lease EXCEPT ![c] = 0]
      /\ who' = [who EXCEPT ![c] = 0]
      /\ seen' = [seen EXCEPT ![c] = {}]
      /\ mine' = [mine EXCEPT ![c] = 0]
      /\ UNCHANGED <<now, users, count, expires, owner, place, born>>
  BY DEF Commit, CommitUser, Done, Goto, rows, IInv, Owners
<1>2. mine[c] \in 1 .. count /\ mine[c] # 0 /\ who[c] # 0 /\ who[c] \in 0 .. users
  BY <1>1 DEF IInv, TypeOK, LookedAt
<1>3. TypeOK'
  <2>1. tokens' \in SUBSET (1 .. count) /\ user' \in 0 .. users
    BY <1>1, <1>2 DEF IInv, TypeOK
  <2>2. 0 \in 0 .. MaxTime + Duration /\ 0 \in 0 .. users /\ 0 \in 0 .. count /\ 0 \notin tokens'
    BY <1>1, <1>2, BoundAssumption, DurationAssumption DEF IInv, TypeOK, User
  <2>3. /\ pc' \in [Client -> Labels]
        /\ lease' \in [Client -> 0 .. MaxTime + Duration]
        /\ who' \in [Client -> 0 .. users]
        /\ seen' \in [Client -> SUBSET (1 .. count)]
        /\ mine' \in [Client -> 0 .. count]
    BY <1>1, <2>2 DEF IInv, TypeOK, Labels
  <2>4. \A d \in Client : mine'[d] \notin tokens'
    BY <1>1, <1>2, <2>2 DEF IInv, TypeOK
  <2>5. /\ \A d \in Client : pc'[d] # "idle" => now < lease'[d]
        /\ \A d \in Client : pc'[d] \in {"inserted", "registered"} <=> mine'[d] # 0
        /\ \A d, e \in Client : d # e /\ mine'[d] # 0 => mine'[d] # mine'[e]
    BY <1>1 DEF IInv, TypeOK
  <2> QED BY <1>1, <2>1, <2>3, <2>4, <2>5 DEF IInv, TypeOK
<1>4. (LookedAt /\ SawExpired /\ BornExpired)'
  BY <1>1 DEF IInv, TypeOK, LookedAt, SawExpired, BornExpired
<1>5. owner[mine[c]] = who[c] /\ (user = who[c] \/ user = 0)
  BY <1>1 DEF IInv, Owners
<1>6. TokensHaveUser'
  BY <1>1, <1>2, <1>5 DEF IInv, TokensHaveUser
<1>7. \A d \in Client : pc'[d] \in {"inserted", "registered"} =>
          d # c /\ pc[d] = "inserted" /\ pc'[d] = "inserted"
  BY <1>1, <1>2 DEF IInv, TypeOK, LookedAt, Owners, OneRegistration
<1>8. (Owners /\ OneRegistration)'
  <2> \A d \in Client : pc'[d] = "inserted" => mine'[d] = mine[d] /\ who'[d] = who[d] /\ user' = who[d]
    BY <1>1, <1>2, <1>7 DEF IInv, TypeOK, Owners, LookedAt
  <2> QED BY <1>1, <1>7 DEF IInv, Owners, OneRegistration
<1> QED BY <1>3, <1>4, <1>6, <1>8 DEF IInv

LEMMA DeleteTokensIInv ==
    ASSUME IInv, NEW S \in SUBSET tokens, DeleteTokens(S)
    PROVE  IInv'
<1>1. /\ tokens' = tokens \ S
      /\ UNCHANGED <<now, user, users, count, expires, owner, place, born, pc, lease, who, seen,
                     mine>>
  BY DEF DeleteTokens, rows, local
<1> QED BY <1>1 DEF IInv, TypeOK, LookedAt, SawExpired, BornExpired, TokensHaveUser, Owners,
                    OneRegistration

\* A user whose row is referenced by an uncommitted token stays; so no token is
\* on its way when he goes.
LEMMA DeleteUserIInv ==
    ASSUME IInv, DeleteUser
    PROVE  IInv'
<1>1. /\ user' = 0 /\ tokens' = {}
      /\ UNCHANGED <<now, users, count, expires, owner, place, born, pc, lease, who, seen, mine>>
  BY DEF DeleteUser, rows, local
<1>2. \A d \in Client : pc[d] \notin {"inserted", "registered"}
  <2>1. user # 0
    BY DEF IInv, TokensHaveUser, DeleteUser, Authorized
  <2> QED BY <2>1 DEF IInv, Owners, DeleteUser, Referenced
<1>3. TypeOK'
  <2> 0 \in 0 .. users
    BY BoundAssumption DEF IInv, TypeOK, User
  <2> QED BY <1>1 DEF IInv, TypeOK
<1> QED BY <1>1, <1>2, <1>3 DEF IInv, LookedAt, SawExpired, BornExpired, TokensHaveUser, Owners,
                                OneRegistration

\* What has expired stays expired.
LEMMA TickIInv ==
    ASSUME IInv, Tick
    PROVE  IInv'
<1>1. /\ now < MaxTime /\ now' = now + 1
      /\ \A d \in Client : pc[d] # "idle" => now + 1 < lease[d]
      /\ UNCHANGED <<user, users, tokens, count, expires, owner, place, born, pc, lease, who, seen,
                     mine>>
  BY DEF Tick, rows, local
<1>2. now \in Nat /\ now' \in 0 .. MaxTime
  BY <1>1, BoundAssumption DEF IInv, TypeOK
<1>3. TypeOK'
  BY <1>1, <1>2 DEF IInv, TypeOK
<1>4. \A s \in Token : expires[s] <= now => expires[s] <= now'
  <2> \A s \in Token : expires[s] \in Int
    BY BoundAssumption, DurationAssumption DEF IInv, TypeOK
  <2> QED BY <1>1, <1>2
<1>5. 1 .. count \subseteq Token
  BY BoundAssumption DEF IInv, TypeOK, Token
<1>6. SawExpired' /\ BornExpired'
  BY <1>1, <1>4, <1>5 DEF IInv, TypeOK, SawExpired, BornExpired
<1> QED BY <1>1, <1>3, <1>6 DEF IInv, LookedAt, TokensHaveUser, Owners, OneRegistration

\* Every step preserves the invariant.
LEMMA StepIInv == IInv /\ [Next]_vars => IInv'
<1> SUFFICES ASSUME IInv, [Next]_vars PROVE IInv'
  OBVIOUS
<1>1. CASE \E c \in Client : Authenticate(c) \/ Register(c)
  BY <1>1, AskIInv
<1>2. CASE \E c \in Client : Load(c)
  BY <1>2, LoadIInv
<1>3. CASE \E c \in Client : Decide(c)
  BY <1>3, DecideIInv
<1>4. CASE \E c \in Client : Answer(c) \/ Fail(c)
  BY <1>4, EndIInv
<1>5. CASE \E c \in Client : Create(c)
  BY <1>5, CreateIInv
<1>6. CASE \E c \in Client : CreateUser(c)
  BY <1>6, CreateUserIInv
<1>7. CASE \E c \in Client : Commit(c) \/ CommitUser(c)
  BY <1>7, CommitIInv
<1>8. CASE \E S \in SUBSET tokens : DeleteTokens(S)
  BY <1>8, DeleteTokensIInv
<1>9. CASE DeleteUser
  BY <1>9, DeleteUserIInv
<1>10. CASE Tick
  BY <1>10, TickIInv
<1>11. CASE UNCHANGED vars
  BY <1>11 DEF vars, rows, local, IInv, TypeOK, LookedAt, SawExpired, BornExpired,
               TokensHaveUser, Owners, OneRegistration
<1> QED BY <1>1, <1>2, <1>3, <1>4, <1>5, <1>6, <1>7, <1>8, <1>9, <1>10, <1>11 DEF Next

LEMMA InvariantHolds == Spec => []IInv
BY InitIInv, StepIInv, PTL DEF Spec

-----------------------------------------------------------------------------
\* Two valid tokens: neither was there when the other's creator looked, because
\* what he saw had expired.
LEMMA ExpiredIsNotValid == IInv => OneUnlessOverlapping
<1> SUFFICES ASSUME IInv, NEW s \in tokens, NEW t \in tokens, Valid(s), s \in born[t]
             PROVE  FALSE
  BY DEF OneUnlessOverlapping
<1>1. t \in Token /\ s \in Token
  BY BoundAssumption DEF IInv, TypeOK, Token
<1>2. expires[s] <= now
  BY <1>1 DEF IInv, BornExpired
<1>3. expires[s] \in Int /\ now \in Int
  BY <1>1, BoundAssumption, DurationAssumption DEF IInv, TypeOK
<1> QED BY <1>2, <1>3 DEF Valid

\* In a list in order the last token is the newest; one that is valid and older
\* would have been seen, hence expired.
LEMMA LastOfOrdered ==
    ASSUME IInv, NEW S \in SUBSET (1 .. count), InOrder(S),
           NEW v \in S, Valid(v), NEW l \in S, IsLast(l, S)
    PROVE  Valid(l)
<1> SUFFICES ASSUME v # l PROVE FALSE
  OBVIOUS
<1>1. v \in Token /\ l \in Token /\ v \in Int /\ l \in Int
  BY BoundAssumption DEF IInv, TypeOK, Token
<1>2. place[v] <= place[l] /\ place[v] \in Int /\ place[l] \in Int
  BY <1>1, BoundAssumption DEF IInv, TypeOK, IsLast
<1>3. v < l
  <2>1. l < v => place[l] < place[v]
    BY DEF InOrder
  <2> QED BY <1>1, <1>2, <2>1
<1>4. expires[v] <= now
  BY <1>1, <1>3 DEF InOrder, IInv, BornExpired
<1>5. expires[v] \in Int /\ now \in Int
  BY <1>1, BoundAssumption, DurationAssumption DEF IInv, TypeOK
<1> QED BY <1>4, <1>5 DEF Valid

LEMMA OrderedListsEndValid == IInv => LastIsValid
<1> SUFFICES ASSUME IInv, NEW S \in Lists, InOrder(S), NEW v \in S, Valid(v),
                    NEW l \in S, IsLast(l, S)
             PROVE  Valid(l)
  BY DEF LastIsValid
<1>1. S \in SUBSET (1 .. count)
  BY DEF Lists, IInv, TypeOK
<1> QED BY <1>1, LastOfOrdered

-----------------------------------------------------------------------------
(* The theorems.                                                           *)

\* Types and ranges of the tokens and the requests (user_svc.py, token_repo.py).
THEOREM TokenTypes == Spec => []TypeOK
BY InvariantHolds, PTL DEF IInv

\* Two tokens are valid together only if their creations overlapped
\* (verify_user, _should_create_token).
THEOREM OneValidToken == Spec => []OneUnlessOverlapping
BY InvariantHolds, ExpiredIsNotValid, PTL

\* Without overlapping creations and reused rows, a list with a valid token ends
\* with a valid one (_decode_jwt, login_click).
THEOREM LastTokenValid == Spec => []LastIsValid
BY InvariantHolds, OrderedListsEndValid, PTL

\* A token belongs to the user there is (TokenRepo.create against delete_user).
THEOREM NoOrphanToken == Spec => []TokensHaveUser
BY InvariantHolds, PTL DEF IInv

=============================================================================
