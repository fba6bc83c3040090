-------------------------- MODULE UserCacheProofs --------------------------
(***************************************************************************)
(* Proofs about UserCache, for any number of pages, any lifetime of the    *)
(* user data and any number of tokens.                                     *)
(***************************************************************************)
EXTENDS UserCache, TLAPS

\* What the code sets or lets age stays a lifetime; both keys age alike.
LEMMA LivesClosed ==
    /\ Absent \in Lives /\ Persistent \in Lives
    /\ \A l \in Lives : Aged(l) \in Lives /\ Relived(l, ExpireSeconds) \in Lives
    /\ \A n \in -2 .. ExpireSeconds : /\ Lifespan(n) \in Lives \ {Absent}
                                      /\ \A l \in Lives : Relived(l, n) \in Lives
    /\ \A l \in Lives : SecondsLeft(l) \in -2 .. ExpireSeconds
BY ExpireAssumption, SMT
   DEF Lives, Absent, Persistent, Aged, Relived, Lifespan, SecondsLeft

\* The tokens are numbers, and what is created so far is among them.
LEMMA TokensAreNumbers ==
    ASSUME fresh \in 0 .. MaxTokens
    PROVE  /\ fresh \in Nat
           /\ \A t \in 0 .. fresh : t # NoToken => t \in Token
           /\ fresh < MaxTokens => fresh + 1 \in Token
           /\ \A t \in Token : t \in Nat
BY TokenAssumption DEF Token, NoToken

\* Nothing is recorded, logged in or stored in the beginning.
LEMMA InitIInv == Init => IInv
<1> SUFFICES ASSUME Init PROVE IInv
  OBVIOUS
<1> USE DEF Init, NoToken
<1>1. /\ fresh \in 0 .. MaxTokens
      /\ doc \in Lives
      /\ recorded \in 0 .. fresh
      /\ secret \in [Token -> Lives]
      /\ \A t \in Token : t > fresh => secret[t] = Absent
      /\ caught \in SUBSET Page
  BY TokenAssumption, LivesClosed
<1>2. /\ pc \in [Page -> Labels]
      /\ loaded \in [Page -> 0 .. fresh]
      /\ ttl \in [Page -> -2 .. ExpireSeconds]
      /\ token \in [Page -> 0 .. fresh]
      /\ storage \in [Page -> 0 .. fresh]
      /\ \A p \in Page : pc[p] \in {"store", "verify", "load", "in"} => token[p] \in Token
  BY ExpireAssumption DEF Labels
<1>3. TokenLivesWithDocument /\ ExpireKnowsToken
  BY DEF TokenLivesWithDocument, ExpireKnowsToken
<1>4. doc = Absent => recorded = NoToken /\ caught = {}
  OBVIOUS
<1> QED BY <1>1, <1>2, <1>3, <1>4 DEF IInv, TypeOK

\* Steps of a page that leave Redis alone and are not a refresh.
Local(p) == LoginClick(p) \/ Get(p) \/ ReadTtl(p) \/ Store(p) \/ Login(p)
              \/ Verify(p) \/ Load(p) \/ Logout(p) \/ Close(p)

\* The pages' own steps preserve the invariant: none enters "expire".
LEMMA LocalStep ==
    ASSUME IInv, NEW p \in Page, Local(p)
    PROVE  IInv'
<1> USE DEF IInv, TypeOK, redis, local, Goto, Return, NoToken
<1> DEFINE Working == {"store", "verify", "load", "in"}
<1>1. /\ UNCHANGED <<redis, caught>>
      /\ pc' \in [Page -> Labels]
      /\ \A q \in Page : pc'[q] = "expire" => pc[q] = "expire" /\ loaded'[q] = loaded[q]
  BY DEF Labels, Local, LoginClick, Get, ReadTtl, Store, Login, Verify, Load, Logout, Close
<1>2. /\ loaded'  \in [Page -> 0 .. fresh]
      /\ ttl'     \in [Page -> -2 .. ExpireSeconds]
      /\ token'   \in [Page -> 0 .. fresh]
      /\ storage' \in [Page -> 0 .. fresh]
      /\ \A q \in Page : pc'[q] \in Working => token'[q] \in Token
  <2> USE TokensAreNumbers
  <2>1. CASE LoginClick(p)  BY <2>1 DEF LoginClick
  <2>2. CASE Get(p)         BY <2>2, ExpireAssumption DEF Get, HasToken
  <2>3. CASE ReadTtl(p)     BY <2>3, LivesClosed DEF ReadTtl
  <2>4. CASE Store(p)       BY <2>4 DEF Store
  <2>5. CASE Login(p)       BY <2>5 DEF Login
  <2>6. CASE Verify(p)      BY <2>6 DEF Verify
  <2>7. CASE Load(p)        BY <2>7 DEF Load
  <2>8. CASE Logout(p)      BY <2>8 DEF Logout
  <2>9. CASE Close(p)       BY <2>9, ExpireAssumption DEF Close
  <2> QED BY <2>1, <2>2, <2>3, <2>4, <2>5, <2>6, <2>7, <2>8, <2>9 DEF Local
<1>3. TypeOK'
  BY <1>1, <1>2
<1>4. TokenLivesWithDocument'
  BY <1>1 DEF TokenLivesWithDocument
<1>5. ExpireKnowsToken'
  BY <1>1 DEF ExpireKnowsToken
<1>6. (doc = Absent => recorded = NoToken /\ caught = {})'
  BY <1>1
<1> QED BY <1>3, <1>4, <1>5, <1>6

\* JSON.SET NX: only a document that is gone is created, with nothing recorded.
LEMMA SaveStep == ASSUME IInv, NEW p \in Page, Save(p) PROVE IInv'
BY LivesClosed
   DEF IInv, TypeOK, TokenLivesWithDocument, ExpireKnowsToken, Save, redis, local, Goto,
       NoToken, Labels, Persistent, Absent

\* A refreshed page knows the token that is recorded at that moment.
LEMMA RefreshStep == ASSUME IInv, NEW p \in Page, Refresh(p) PROVE IInv'
<1> USE DEF IInv, TypeOK, Refresh, Return, redis, local, Goto, NoToken, Labels
<1>1. TypeOK'
  BY ExpireAssumption, TokensAreNumbers
<1>2. TokenLivesWithDocument'
  BY DEF TokenLivesWithDocument
<1>3. ExpireKnowsToken'
  BY DEF ExpireKnowsToken
<1>4. (doc = Absent => recorded = NoToken /\ caught = {})'
  OBVIOUS
<1> QED BY <1>1, <1>2, <1>3, <1>4

\* The EXEC of expire gives document and recorded secret the same lifetime.
LEMMA ExpireStep == ASSUME IInv, NEW p \in Page, Expire(p) PROVE IInv'
<1> USE DEF IInv, TypeOK, Expire, redis, local, Goto, NoToken, Labels, Extended
<1>1. TypeOK'
  BY LivesClosed DEF Relived
<1>2. TokenLivesWithDocument'
  BY TokensAreNumbers DEF TokenLivesWithDocument, ExpireKnowsToken, Relived
<1>3. ExpireKnowsToken' /\ (doc = Absent => recorded = NoToken /\ caught = {})'
  BY ExpireAssumption DEF ExpireKnowsToken, Relived, Lifespan, Absent, Persistent
<1> QED BY <1>1, <1>2, <1>3

\* The EXEC of get_encrypted_token creates document and secret in step; a page
\* that is about to expire the keys it knows from before is caught.
LEMMA CreateStep == ASSUME IInv, NEW p \in Page, Create(p) PROVE IInv'
<1> USE DEF IInv, TypeOK, Create, Synced, redis, local, Goto, Return, NoToken
<1>1. /\ Lifespan(ttl[p]) \in Lives \ {Absent}
      /\ Relived(doc, ttl[p]) \in Lives
      /\ fresh + 1 \in Token /\ fresh \in Nat /\ fresh + 1 \in 0 .. MaxTokens
  BY LivesClosed, TokenAssumption, TokensAreNumbers
<1>2. TypeOK'
  <2>1. /\ fresh' \in 0 .. MaxTokens
        /\ doc' \in Lives
        /\ recorded' \in 0 .. fresh'
        /\ secret' \in [Token -> Lives]
        /\ caught' \in SUBSET Page
    BY <1>1 DEF InExpire
  <2>2. \A t \in Token : t > fresh' => secret'[t] = Absent
    BY <1>1, TokensAreNumbers
  <2>3. /\ pc'      \in [Page -> Labels]
        /\ loaded'  \in [Page -> 0 .. fresh']
        /\ ttl'     \in [Page -> -2 .. ExpireSeconds]
        /\ storage' \in [Page -> 0 .. fresh']
    BY <1>1, ExpireAssumption DEF Labels
  <2>4. /\ token' \in [Page -> 0 .. fresh']
        /\ \A q \in Page : pc'[q] \in {"store", "verify", "load", "in"}
                             => token'[q] \in Token
    BY <1>1
  <2> QED BY <2>1, <2>2, <2>3, <2>4
<1>3. TokenLivesWithDocument'
  BY <1>1 DEF TokenLivesWithDocument, Relived
<1>4. ExpireKnowsToken'
  BY <1>1 DEF ExpireKnowsToken, InExpire
<1>5. (doc = Absent => recorded = NoToken /\ caught = {})'
  BY <1>1 DEF Relived
<1> QED BY <1>2, <1>3, <1>4, <1>5

\* A deleted document takes what it recorded with it.
LEMMA DeleteStep == ASSUME IInv, NEW p \in Page, Delete(p) PROVE IInv'
<1> USE DEF IInv, TypeOK, Delete, redis, local, NoToken, Labels
<1>1. TypeOK'
  BY LivesClosed, TokensAreNumbers
<1>2. TokenLivesWithDocument' /\ ExpireKnowsToken'
  BY DEF TokenLivesWithDocument, ExpireKnowsToken
<1> QED BY <1>1, <1>2

\* Time passes for both keys alike.
LEMMA TickStep == ASSUME IInv, Tick PROVE IInv'
<1> USE DEF IInv, TypeOK, Tick, redis, local, NoToken, Labels
<1>1. TypeOK'
  BY LivesClosed, TokensAreNumbers DEF Aged, Absent
<1>2. TokenLivesWithDocument'
  BY TokensAreNumbers DEF TokenLivesWithDocument
<1>3. ExpireKnowsToken'
  BY DEF ExpireKnowsToken
<1>4. (doc = Absent => recorded = NoToken /\ caught = {})'
  OBVIOUS
<1> QED BY <1>1, <1>2, <1>3, <1>4

\* No step breaks the invariant.
LEMMA NextIInv == IInv /\ [Next]_vars => IInv'
<1> SUFFICES ASSUME IInv, [Next]_vars PROVE IInv'
  OBVIOUS
<1>1. ASSUME NEW p \in Page, LoginClick(p) \/ GetToken(p) \/ Login(p) \/ Verify(p)
                               \/ Load(p) \/ Logout(p) \/ Close(p)
      PROVE  IInv'
  BY <1>1, LocalStep, CreateStep DEF Local, GetToken
<1>2. ASSUME NEW p \in Page, Save(p) \/ Refresh(p) \/ Expire(p) \/ Delete(p)
      PROVE  IInv'
  BY <1>2, SaveStep, RefreshStep, ExpireStep, DeleteStep
<1>3. CASE Tick
  BY <1>3, TickStep
<1>4. CASE UNCHANGED vars
  BY <1>4 DEF vars, redis, local, IInv, TypeOK, TokenLivesWithDocument, ExpireKnowsToken
<1> QED BY <1>1, <1>2, <1>3, <1>4 DEF Next

\* The inductive invariant of the login holds in every reachable state.
THEOREM Invariance == Spec => []IInv
BY InitIInv, NextIInv, PTL DEF Spec

\* Types and ranges of the login state.
THEOREM TypeCorrect == Spec => []TypeOK
<1>1. IInv => TypeOK
  BY DEF IInv
<1> QED BY <1>1, Invariance, PTL

\* The token that get_encrypted_token hands out lives exactly as long as the
\* user document, in any interleaving of logins, crashes, deadlines and
\* deletions, save the race the property names.
THEOREM TokenSafety == Spec => []TokenLivesWithDocument
<1>1. IInv => TokenLivesWithDocument
  BY DEF IInv
<1> QED BY <1>1, Invariance, PTL

-----------------------------------------------------------------------------
(* The login implements what is promised of its tokens.                    *)

\* The tokens that verify_encrypted_token accepts.
Accepted == {t \in Token : secret[t] # Absent}

\* Secrets are there of no more tokens afterwards than before.
LEMMA FewerAccepted ==
    ASSUME fresh' = fresh,
           \A t \in Token : secret[t] = Absent => secret'[t] = Absent
    PROVE  [Tokens!Next]_(Tokens!vars)
<1> DEFINE Lost == Accepted \ Accepted'
<1>1. Accepted' = Accepted \ Lost /\ Lost \in SUBSET Accepted
  BY DEF Accepted
<1> HIDE DEF Lost
<1>2. \E T \in SUBSET Accepted : Accepted' = Accepted \ T /\ UNCHANGED fresh
  BY <1>1
<1> QED BY <1>2 DEF Tokens!Next, Tokens!Withdraw, Accepted

\* Neither EXPIRE nor PERSIST creates the key of a secret, and time takes it away.
LEMMA NoneRevived ==
    /\ \A n \in Int : Relived(Absent, n) = Absent
    /\ Aged(Absent) = Absent
BY DEF Relived, Aged, Absent

\* The EXEC of get_encrypted_token makes the next token, with a secret that is there.
LEMMA CreateMakes == ASSUME IInv, NEW p \in Page, Create(p) PROVE Tokens!Make
<1>1. /\ fresh' = fresh + 1 /\ fresh + 1 \in Token
      /\ secret' = [secret EXCEPT ![fresh + 1] = Lifespan(ttl[p])]
  BY TokensAreNumbers DEF Create, IInv, TypeOK
<1>2. Lifespan(ttl[p]) # Absent
  BY LivesClosed DEF IInv, TypeOK
<1>3. secret \in [Token -> Lives]
  BY DEF IInv, TypeOK
<1>4. Accepted' = Accepted \cup {fresh + 1}
  BY <1>1, <1>2, <1>3 DEF Accepted
<1> QED BY <1>1, <1>4 DEF Tokens!Make, Accepted

\* Every step of the login is one of the tokens, or leaves them alone.
LEMMA TokensStep == IInv /\ [Next]_vars => [Tokens!Next]_(Tokens!vars)
<1> SUFFICES ASSUME IInv, [Next]_vars PROVE [Tokens!Next]_(Tokens!vars)
  OBVIOUS
<1>0. secret \in [Token -> Lives]
  BY DEF IInv, TypeOK
<1>1. ASSUME NEW p \in Page, Create(p) PROVE Tokens!Next
  BY <1>1, CreateMakes DEF Tokens!Next
<1>2. ASSUME NEW p \in Page, Expire(p) PROVE [Tokens!Next]_(Tokens!vars)
  <2>1. fresh' = fresh /\ \A t \in Token : secret[t] = Absent => secret'[t] = Absent
    BY <1>2, NoneRevived, ExpireAssumption DEF Expire
  <2> QED BY <2>1, FewerAccepted
<1>3. ASSUME NEW p \in Page, Delete(p) PROVE [Tokens!Next]_(Tokens!vars)
  <2>1. fresh' = fresh /\ \A t \in Token : secret[t] = Absent => secret'[t] = Absent
    BY <1>0, <1>3 DEF Delete
  <2> QED BY <2>1, FewerAccepted
<1>4. CASE Tick
  <2>1. fresh' = fresh /\ \A t \in Token : secret[t] = Absent => secret'[t] = Absent
    BY <1>4, NoneRevived DEF Tick
  <2> QED BY <2>1, FewerAccepted
<1>5. ASSUME NEW p \in Page, Local(p) \/ Save(p) \/ Refresh(p)
      PROVE  [Tokens!Next]_(Tokens!vars)
  <2>1. UNCHANGED <<fresh, secret>>
    BY <1>5 DEF Local, LoginClick, Get, ReadTtl, Store, Login, Verify, Load, Logout, Close,
                Save, Refresh, redis
  <2> QED BY <2>1, FewerAccepted
<1>6. CASE UNCHANGED vars
  <2>1. UNCHANGED <<fresh, secret>>
    BY <1>6 DEF vars, redis
  <2> QED BY <2>1, FewerAccepted
<1> QED BY <1>1, <1>2, <1>3, <1>4, <1>5, <1>6 DEF Next, GetToken, Local

\* A token that was refused once is never accepted again, for any number of pages,
\* lifetimes and tokens.
THEOREM TokensNeverRevive == Spec => ImplementsTokens
<1>1. Init => Tokens!Init
  BY DEF Init, Tokens!Init
<1>2. IInv /\ [Next]_vars => [Tokens!Next]_(Tokens!vars)
  BY TokensStep
<1> QED BY <1>1, <1>2, Invariance, PTL DEF Spec, ImplementsTokens, Tokens!Spec

=============================================================================
