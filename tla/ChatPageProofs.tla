--------------------------- MODULE ChatPageProofs ---------------------------
(***************************************************************************)
(* Proofs about ChatPage, for any number of tabs, handlers, users and      *)
(* tokens: what a login removes from the storage the tabs share, and what  *)
(* a tab shows when its handlers are done.  Each has an invariant of its   *)
(* own.                                                                    *)
(***************************************************************************)
EXTENDS ChatPage, SequenceTheorems, TLAPS

\* The part of the state that decides about tokens; the screen does not.
TokensTyped ==
    /\ made     \in [User -> Nat]
    /\ accepted \in [User -> SUBSET Nat]
    /\ pc       \in [Handler -> Labels]
    /\ token    \in [Handler -> (User \X Nat) \cup {NoToken}]
    /\ storage  \in (User \X Nat) \cup {NoToken}

\* No token is about that was not made.
Issued(tk) == tk # NoToken => tk[2] <= made[tk[1]]

OnlyIssued == Issued(storage) /\ \A h \in Handler : Issued(token[h])

\* A handler works on what is in the storage, as long as nobody stores or removes.
ReadersAreCurrent ==
    \A h \in Reading \ changed : storage \in {token[h], NoToken}

\* A token that was refused is never accepted again.
RefusedForever == \A h \in Handler : pc[h] = "remove" => ~Live(token[h])

TokenInv == TokensTyped /\ OnlyIssued /\ ReadersAreCurrent /\ RefusedForever

-----------------------------------------------------------------------------
\* Nothing is stored and nobody reads in the beginning.
LEMMA InitTokens == Init => TokenInv
<1> SUFFICES ASSUME Init PROVE TokenInv
  OBVIOUS
<1>1. TokensTyped
  BY DEF Init, TokensTyped, Labels
<1>2. OnlyIssued /\ ReadersAreCurrent /\ RefusedForever
  BY DEF Init, OnlyIssued, Issued, ReadersAreCurrent, Reading, RefusedForever
<1> QED BY <1>1, <1>2 DEF TokenInv

\* Most steps end, or go on with, something that does not read the storage; they
\* keep the token at hand or drop it, and leave the storage alone or empty it.
LEMMA NoReaderTokens ==
    ASSUME TokenInv, NEW h \in Handler, NEW l \in Labels \ {"verify", "load", "remove"},
           pc' = [pc EXCEPT ![h] = l],
           UNCHANGED <<made, accepted>>,
           storage' \in {storage, NoToken},
           token' \in {token, [token EXCEPT ![h] = NoToken]},
           changed' \in {changed, changed \ {h}}
    PROVE  TokenInv'
<1> USE DEF TokenInv
<1>1. /\ pc' \in [Handler -> Labels] /\ pc'[h] = l
      /\ \A g \in Handler : g # h => pc'[g] = pc[g]
  BY DEF TokensTyped
<1>2. /\ token' \in [Handler -> (User \X Nat) \cup {NoToken}]
      /\ \A g \in Handler : token'[g] \in {token[g], NoToken}
      /\ \A g \in Handler : g # h => token'[g] = token[g]
  BY DEF TokensTyped
<1>3. TokensTyped'
  BY <1>1, <1>2 DEF TokensTyped
<1>4. OnlyIssued'
  BY <1>2 DEF OnlyIssued, Issued
<1>5. ReadersAreCurrent'
  BY <1>1, <1>2 DEF ReadersAreCurrent, Reading
<1>6. RefusedForever'
  BY <1>1, <1>2 DEF RefusedForever, Live
<1> QED BY <1>3, <1>4, <1>5, <1>6

\* The events of a tab.
LEMMA EventTokens ==
    ASSUME TokenInv, NEW h \in Handler,
           Open(h) \/ LoginClick(h) \/ MenuLogin(h) \/ LogoutClick(h) \/ ViewPop(h)
    PROVE  TokenInv'
<1>1. PICK l \in {"login", "auth", "logout", "pop"} : Start(h, l)
  BY DEF Open, LoginClick, MenuLogin, LogoutClick, ViewPop
<1>2. l \in Labels \ {"verify", "load", "remove"}
  BY DEF Labels
<1> QED BY <1>1, <1>2, NoReaderTokens DEF Start, Goto, server

\* The views: route_change, view_pop, the way to other views, and logout_click, which
\* ends with a redraw.
LEMMA ScreenTokens ==
    ASSUME TokenInv, NEW h \in Handler,
           \/ RouteChange(h) \/ Resolve(h) \/ Pop(h) \/ Forget(h) \/ Logout(h)
           \/ \E name \in Names : Navigate(h, name)
    PROVE  TokenInv'
<1>1. PICK l \in {"idle", "resolve", "route", "forget"} : pc' = [pc EXCEPT ![h] = l]
  <2>1. CASE RouteChange(h) \/ Resolve(h) \/ Forget(h)
    BY <2>1 DEF RouteChange, Resolve, Forget, Redraw, Show, Goto
  <2>2. CASE Pop(h) \/ \E name \in Names : Navigate(h, name)
    BY <2>2 DEF Pop, Navigate, Go, Goto
  <2>3. CASE Logout(h)
    BY <2>3 DEF Logout, Goto
  <2> QED BY <2>1, <2>2, <2>3
<1>2. l \in Labels \ {"verify", "load", "remove"}
  BY DEF Labels
<1>3. /\ UNCHANGED <<made, accepted>> /\ changed' = changed
      /\ storage' \in {storage, NoToken}
      /\ token' \in {token, [token EXCEPT ![h] = NoToken]}
  <2>1. CASE RouteChange(h) \/ Resolve(h) \/ Forget(h) \/ Logout(h)
    BY <2>1 DEF RouteChange, Resolve, Forget, Logout, server
  <2>2. CASE Pop(h) \/ \E name \in Names : Navigate(h, name)
    BY <2>2 DEF Pop, Navigate, Go, Hold, server
  <2> QED BY <2>1, <2>2
<1> QED BY <1>1, <1>2, <1>3, NoReaderTokens

\* login and login_click between their looks at the storage.
LEMMA LoginStepTokens ==
    ASSUME TokenInv, NEW h \in Handler,
           AuthFails(h) \/ LoginBegins(h) \/ Load(h) \/ RemoveToken(h)
    PROVE  TokenInv'
<1>1. PICK l \in {"idle", "get", "route"} : pc' = [pc EXCEPT ![h] = l]
  BY DEF AuthFails, LoginBegins, Load, RemoveToken, AfterLogin, Go, Goto
<1>2. l \in Labels \ {"verify", "load", "remove"}
  BY DEF Labels
<1>3. /\ UNCHANGED <<made, accepted>> /\ changed' \in {changed, changed \ {h}}
      /\ storage' \in {storage, NoToken}
      /\ token' \in {token, [token EXCEPT ![h] = NoToken]}
  BY DEF AuthFails, LoginBegins, Load, RemoveToken, AfterLogin, Go, Hold, server
<1> QED BY <1>1, <1>2, <1>3, NoReaderTokens

\* A login gets a token that was made, and becomes no reader.
LEMMA AuthenticatedTokens ==
    ASSUME TokenInv, NEW h \in Handler, NEW u \in User, Authenticated(h, u)
    PROVE  TokenInv'
<1> USE DEF TokenInv
<1>1. PICK n \in 1 .. made[u] :
         /\ token' = [token EXCEPT ![h] = <<u, n>>]
         /\ pc' = [pc EXCEPT ![h] = "store"]
         /\ UNCHANGED <<made, accepted, storage, changed>>
  BY DEF Authenticated, Goto, Hold, server
<1>2. /\ pc' \in [Handler -> Labels] /\ pc'[h] = "store"
      /\ \A g \in Handler : g # h => pc'[g] = pc[g]
  BY <1>1 DEF TokensTyped, Labels
<1>3. n \in Nat /\ n <= made[u]
  BY DEF TokensTyped
<1>4. /\ token' \in [Handler -> (User \X Nat) \cup {NoToken}]
      /\ token'[h] = <<u, n>>
      /\ \A g \in Handler : g # h => token'[g] = token[g]
  BY <1>1, <1>3 DEF TokensTyped
<1>5. TokensTyped'
  BY <1>1, <1>2, <1>4 DEF TokensTyped
<1>6. OnlyIssued'
  BY <1>1, <1>3, <1>4 DEF OnlyIssued, Issued
<1>7. ReadersAreCurrent'
  BY <1>1, <1>2, <1>4 DEF ReadersAreCurrent, Reading
<1>8. RefusedForever'
  BY <1>1, <1>2, <1>4 DEF RefusedForever, Live
<1> QED BY <1>5, <1>6, <1>7, <1>8

\* A new token is stored: all who have read before know less than that.
LEMMA StoreTokens == ASSUME TokenInv, NEW h \in Handler, Store(h) PROVE TokenInv'
<1> USE DEF TokenInv, Store, Goto, server
<1>1. /\ pc' \in [Handler -> Labels] /\ pc'[h] = "login"
      /\ \A g \in Handler : g # h => pc'[g] = pc[g]
  BY DEF TokensTyped, Labels
<1>2. TokensTyped'
  BY <1>1 DEF TokensTyped
<1>3. OnlyIssued'
  BY DEF OnlyIssued, Issued
<1>4. ReadersAreCurrent'
  BY <1>1 DEF ReadersAreCurrent, Reading
<1>5. RefusedForever'
  BY <1>1 DEF RefusedForever, Live
<1> QED BY <1>2, <1>3, <1>4, <1>5

\* The storage is read.
LEMMA GetTokens == ASSUME TokenInv, NEW h \in Handler, Get(h) PROVE TokenInv'
<1> USE DEF TokenInv
<1>1. CASE storage = NoToken /\ AfterLogin(h, userdata[tab[h]])
  <2>1. PICK l \in {"idle", "route"} : pc' = [pc EXCEPT ![h] = l]
    BY <1>1 DEF AfterLogin, Go, Goto
  <2>2. l \in Labels \ {"verify", "load", "remove"}
    BY DEF Labels
  <2>3. token' = [token EXCEPT ![h] = NoToken]
    BY <1>1 DEF AfterLogin, Go, Hold
  <2> QED BY <2>1, <2>2, <2>3, NoReaderTokens DEF Get, server
<1>2. CASE storage # NoToken /\ Hold(h, storage) /\ Goto(h, "verify")
  <2>1. /\ pc' = [pc EXCEPT ![h] = "verify"] /\ token' = [token EXCEPT ![h] = storage]
        /\ changed' = changed \ {h}
        /\ UNCHANGED <<made, accepted, storage>>
    BY <1>2 DEF Get, Hold, Goto, server
  <2>2. /\ pc' \in [Handler -> Labels] /\ pc'[h] = "verify"
        /\ \A g \in Handler : g # h => pc'[g] = pc[g]
    BY <2>1 DEF TokensTyped, Labels
  <2>3. /\ token' \in [Handler -> (User \X Nat) \cup {NoToken}] /\ token'[h] = storage
        /\ \A g \in Handler : g # h => token'[g] = token[g]
    BY <2>1 DEF TokensTyped
  <2>4. TokensTyped'
    BY <2>1, <2>2, <2>3 DEF TokensTyped
  <2>5. OnlyIssued'
    BY <2>1, <2>3 DEF OnlyIssued, Issued
  <2>6. ReadersAreCurrent'
    BY <2>1, <2>2, <2>3 DEF ReadersAreCurrent, Reading
  <2>7. RefusedForever'
    BY <2>1, <2>2, <2>3 DEF RefusedForever, Live
  <2> QED BY <2>4, <2>5, <2>6, <2>7
<1> QED BY <1>1, <1>2 DEF Get

\* The token is looked up.
LEMMA VerifyTokens == ASSUME TokenInv, NEW h \in Handler, Verify(h) PROVE TokenInv'
<1> USE DEF TokenInv
<1>1. /\ pc[h] = "verify"
      /\ pc' = [pc EXCEPT ![h] = IF ~Live(token[h]) THEN "remove" ELSE "load"]
      /\ UNCHANGED <<made, accepted, storage, token, changed>>
  BY DEF Verify, Goto, Refused, server
<1>2. /\ pc' \in [Handler -> Labels]
      /\ pc'[h] \in {"load", "remove"}
      /\ pc'[h] = "remove" => ~Live(token[h])
      /\ \A g \in Handler : g # h => pc'[g] = pc[g]
  BY <1>1 DEF TokensTyped, Labels
<1>3. TokensTyped' /\ OnlyIssued'
  BY <1>1, <1>2 DEF TokensTyped, OnlyIssued, Issued
<1>4. ReadersAreCurrent'
  BY <1>1, <1>2 DEF ReadersAreCurrent, Reading
<1>5. RefusedForever'
  BY <1>1, <1>2 DEF RefusedForever, Live
<1> QED BY <1>3, <1>4, <1>5

\* A new token is none of those that are about: what was refused remains so.
LEMMA MakeTokens == ASSUME TokenInv, NEW u \in User, Make(u) PROVE TokenInv'
<1> USE DEF TokenInv
<1>1. /\ made' = [made EXCEPT ![u] = made[u] + 1]
      /\ accepted' = [accepted EXCEPT ![u] = accepted[u] \cup {made[u] + 1}]
      /\ UNCHANGED <<storage, pc, token, changed>>
  BY DEF Make, Fresh, handler
<1>2. /\ made' \in [User -> Nat] /\ accepted' \in [User -> SUBSET Nat]
      /\ \A v \in User : made[v] \in Nat /\ made[v] <= made'[v]
      /\ \A v \in User : accepted'[v] \subseteq accepted[v] \cup {made[v] + 1}
  BY <1>1 DEF TokensTyped
<1>3. TokensTyped' /\ ReadersAreCurrent'
  BY <1>1, <1>2 DEF TokensTyped, ReadersAreCurrent, Reading
<1>4. ASSUME NEW tk \in (User \X Nat) \cup {NoToken}, Issued(tk)
      PROVE  tk # NoToken => tk[2] <= made'[tk[1]] /\ tk[2] # made[tk[1]] + 1
  <2> SUFFICES ASSUME tk # NoToken PROVE tk[2] <= made'[tk[1]] /\ tk[2] # made[tk[1]] + 1
    OBVIOUS
  <2>1. tk[1] \in User /\ tk[2] \in Nat /\ tk[2] <= made[tk[1]]
    BY <1>4 DEF Issued
  <2>2. made[tk[1]] <= made'[tk[1]] /\ made[tk[1]] \in Nat /\ made'[tk[1]] \in Nat
    BY <1>2, <2>1
  <2> QED BY <2>1, <2>2
<1>5. OnlyIssued'
  BY <1>1, <1>4 DEF OnlyIssued, Issued, TokensTyped
<1>6. RefusedForever'
  <2> SUFFICES ASSUME NEW g \in Handler, pc[g] = "remove", token[g] # NoToken,
                      token[g][2] \in accepted'[token[g][1]]
               PROVE  FALSE
    BY <1>1 DEF RefusedForever, Live
  <2>1. token[g] \in User \X Nat /\ token[g][2] \notin accepted[token[g][1]]
    BY DEF RefusedForever, Live, TokensTyped
  <2>2. token[g][2] # made[token[g][1]] + 1
    BY <1>4, <2>1 DEF OnlyIssued
  <2> QED BY <1>2, <2>1, <2>2
<1> QED BY <1>3, <1>5, <1>6

\* Withdrawing makes no token work.
LEMMA WithdrawTokens ==
    ASSUME TokenInv, NEW u \in User, NEW T, Withdraw(u, T)
    PROVE  TokenInv'
<1> USE DEF TokenInv
<1>1. /\ accepted' = [accepted EXCEPT ![u] = accepted[u] \ T]
      /\ UNCHANGED <<made, storage, pc, token, changed>>
  BY DEF Withdraw, handler
<1>2. accepted' \in [User -> SUBSET Nat] /\ \A v \in User : accepted'[v] \subseteq accepted[v]
  BY <1>1 DEF TokensTyped
<1>3. TokensTyped' /\ OnlyIssued' /\ ReadersAreCurrent'
  BY <1>1, <1>2 DEF TokensTyped, OnlyIssued, Issued, ReadersAreCurrent, Reading
<1>4. \A g \in Handler : token[g] # NoToken => token[g][1] \in User
  BY DEF TokensTyped
<1>5. RefusedForever'
  BY <1>1, <1>2, <1>4 DEF RefusedForever, Live
<1> QED BY <1>3, <1>5

\* Every step preserves the invariant.
LEMMA NextTokens == TokenInv /\ [Next]_vars => TokenInv'
<1> SUFFICES ASSUME TokenInv, [Next]_vars PROVE TokenInv'
  OBVIOUS
<1>1. ASSUME NEW h \in Handler,
             Open(h) \/ LoginClick(h) \/ MenuLogin(h) \/ LogoutClick(h) \/ ViewPop(h)
      PROVE  TokenInv'
  BY <1>1, EventTokens
<1>2. ASSUME NEW h \in Handler,
             AuthFails(h) \/ (\E u \in User : Authenticated(h, u)) \/ Store(h)
               \/ LoginBegins(h) \/ Get(h) \/ Verify(h) \/ Load(h) \/ RemoveToken(h)
      PROVE  TokenInv'
  BY <1>2, LoginStepTokens, AuthenticatedTokens, StoreTokens, GetTokens, VerifyTokens
<1>3. ASSUME NEW h \in Handler,
             \/ Logout(h) \/ Forget(h) \/ RouteChange(h) \/ Resolve(h) \/ Pop(h)
             \/ \E name \in Names : Navigate(h, name)
      PROVE  TokenInv'
  BY <1>3, ScreenTokens
<1>4. ASSUME NEW u \in User, Make(u) \/ \E T \in SUBSET accepted[u] : Withdraw(u, T)
      PROVE  TokenInv'
  BY <1>4, MakeTokens, WithdrawTokens
<1>5. CASE UNCHANGED vars
  BY <1>5 DEF vars, server, handler, TokenInv, TokensTyped, OnlyIssued, Issued, ReadersAreCurrent,
              Reading, RefusedForever, Live
<1> QED BY <1>1, <1>2, <1>3, <1>4, <1>5 DEF Next

-----------------------------------------------------------------------------
\* ChatApp.login removes "encrypted_token" only while the storage still holds the
\* token that was refused, unless another tab has stored one in the meantime; a
\* refused token never comes back to life.
THEOREM RemovalIsSafe == Spec => []OnlyRefusedRemoved
<1>1. Init => TokenInv
  BY InitTokens
<1>2. TokenInv /\ [Next]_vars => TokenInv'
  BY NextTokens
<1>3. TokenInv => OnlyRefusedRemoved
  <2> SUFFICES ASSUME TokenInv, NEW h \in Handler, pc[h] = "remove", h \notin changed
               PROVE  ~Live(storage)
    BY DEF OnlyRefusedRemoved
  <2>1. storage \in {token[h], NoToken} /\ ~Live(token[h])
    BY DEF TokenInv, ReadersAreCurrent, Reading, RefusedForever
  <2> QED BY <2>1 DEF Live
<1>4. QED BY <1>1, <1>2, <1>3, PTL DEF Spec

-----------------------------------------------------------------------------
(* The screen.                                                             *)

AView == [name : Names, chat : BOOLEAN]

\* The routes there are, and what is left of them.
Routes == {<<>>, <<"main">>, <<"login">>, <<"signup">>, <<"main", "login">>, <<"main", "signup">>}

ViewsTyped == views \in [Tab -> Seq(AView)] /\ todo \in [Handler -> Routes]

\* Handlers that end with a new screen, those that will yet draw all of it, and those
\* of route_change.
Drawing   == {"login", "get", "verify", "load", "remove", "route", "resolve"}
Redrawing == {"get", "verify", "load", "remove", "route"}
Routing   == {"route", "resolve"}

Comes(t, labels) == \E h \in Handler : tab[h] = t /\ pc[h] \in labels

Fits(view, user) == view.name = "main" => (view.chat <=> user # NoUser)

\* All main views, also those under the top one, fit the user who is logged in.
Right(t) == \A i \in 1 .. Len(views[t]) : Fits(views[t][i], userdata[t])

SomethingShown == \A t \in opened \ failed : views[t] # <<>> \/ Comes(t, Drawing)
RightOrRedrawn == \A t \in Tab \ (failed \cup undrawn) : Right(t) \/ Comes(t, Redrawing)

\* A tab that has a route has the views of one, or will have: a route that is the same
\* again leaves no tab without views.
RouteIsShown ==
    \A t \in Tab \ failed : route[t] # NoRoute => views[t] # <<>> \/ Comes(t, Routing)

Shows == SomethingShown /\ RouteIsShown /\ RightOrRedrawn

ScreenInv == TypeOK /\ ViewsTyped /\ Shows

\* The sets of labels are expanded from here on.
USE DEF Labels, Names, Drawing, Redrawing, Routing, NoRoute, spoiled

LEMMA TokenIsNotNone == NoToken \notin Token
BY UserAssumption DEF NoToken, Token

\* No tab is opened in the beginning.
LEMMA InitScreen == Init => ScreenInv
<1> SUFFICES ASSUME Init PROVE ScreenInv
  OBVIOUS
<1>1. /\ storage \in Token \cup {NoToken} /\ made \in [User -> 0 .. MaxTokens]
      /\ accepted \in [User -> SUBSET (1 .. MaxTokens)]
      /\ \A u \in User : accepted[u] \subseteq 1 .. made[u]
      /\ userdata \in [Tab -> User \cup {NoUser}]
      /\ known \in [Tab -> SUBSET Names] /\ tab \in [Handler -> Tab]
  BY BoundAssumption DEF Init
<1>2. /\ pc \in [Handler -> Labels] /\ token \in [Handler -> Token \cup {NoToken}]
      /\ menu = {} /\ opened = {} /\ changed = {} /\ failed = {} /\ undrawn = {}
      /\ route = [t \in Tab |-> NoRoute]
      /\ \A h \in Handler : pc[h] = "idle" /\ todo[h] = <<>>
  BY DEF Init
<1>3. ViewsTyped /\ \A t \in Tab : views[t] = <<>>
  BY DEF Init, ViewsTyped, Routes
<1>4. TypeOK
  BY <1>1, <1>2, <1>3 DEF TypeOK, Reading
<1>5. RightOrRedrawn
  BY <1>3 DEF RightOrRedrawn, Right
<1> QED BY <1>2, <1>3, <1>4, <1>5 DEF ScreenInv, Shows, SomethingShown, RouteIsShown

-----------------------------------------------------------------------------
(* How views are drawn.                                                    *)

\* route_change stops at the end of the route or before a view it has to look up.
LEMMA ReadyIs ==
    ASSUME NEW todos \in Routes, NEW names
    PROVE  /\ Ready(todos, names) \in 0 .. Len(todos)
           /\ \A i \in 1 .. Ready(todos, names) : todos[i] \in names
           /\ Ready(todos, names) < Len(todos) => todos[Ready(todos, names) + 1] \notin names
<1> DEFINE P(n) == /\ \A i \in 1 .. n : todos[i] \in names
                   /\ n < Len(todos) => todos[n + 1] \notin names
<1>1. \E n \in 0 .. Len(todos) : P(n)
  <2>1. CASE todos = <<>>
    <3>1. 0 \in 0 .. Len(todos) /\ P(0)
      BY <2>1
    <3> QED BY <3>1
  <2>2. ASSUME NEW x, todos = <<x>> PROVE \E n \in 0 .. Len(todos) : P(n)
    <3>1. CASE x \in names
      <4>1. 1 \in 0 .. Len(todos) /\ P(1)
        BY <2>2, <3>1
      <4> QED BY <4>1
    <3>2. CASE x \notin names
      <4>1. 0 \in 0 .. Len(todos) /\ P(0)
        BY <2>2, <3>2
      <4> QED BY <4>1
    <3> QED BY <3>1, <3>2
  <2>3. ASSUME NEW x, NEW y, todos = <<x, y>> PROVE \E n \in 0 .. Len(todos) : P(n)
    <3>1. CASE x \in names /\ y \in names
      <4>1. 2 \in 0 .. Len(todos) /\ P(2)
        BY <2>3, <3>1
      <4> QED BY <4>1
    <3>2. CASE x \in names /\ y \notin names
      <4>1. 1 \in 0 .. Len(todos) /\ P(1)
        BY <2>3, <3>2
      <4> QED BY <4>1
    <3>3. CASE x \notin names
      <4>1. 0 \in 0 .. Len(todos) /\ P(0)
        BY <2>3, <3>3
      <4> QED BY <4>1
    <3> QED BY <3>1, <3>2, <3>3
  <2> QED BY <2>1, <2>2, <2>3 DEF Routes
<1>2. Ready(todos, names) = CHOOSE n \in 0 .. Len(todos) : P(n)
  BY DEF Ready
<1> HIDE DEF P
<1>3. Ready(todos, names) \in 0 .. Len(todos) /\ P(Ready(todos, names))
  BY <1>1, <1>2
<1> QED BY <1>3 DEF P

\* A route leads to a view directly or over the main one.
LEMMA RouteIs ==
    ASSUME NEW todos \in Routes
    PROVE  /\ todos \in Seq(Names) /\ Len(todos) \in {0, 1, 2}
           /\ Len(todos) = 2 => todos[2] \in {"login", "signup"}
           /\ Len(todos) = 0 <=> todos = <<>>
<1>1. CASE todos = <<>>
  BY <1>1
<1>2. ASSUME NEW x \in Names, todos = <<x>>
      PROVE  /\ todos \in Seq(Names) /\ Len(todos) \in {0, 1, 2}
             /\ Len(todos) = 2 => todos[2] \in {"login", "signup"}
             /\ Len(todos) = 0 <=> todos = <<>>
  BY <1>2
<1>3. ASSUME NEW x \in {"login", "signup"}, todos = <<"main", x>>
      PROVE  /\ todos \in Seq(Names) /\ Len(todos) \in {0, 1, 2}
             /\ Len(todos) = 2 => todos[2] \in {"login", "signup"}
             /\ Len(todos) = 0 <=> todos = <<>>
  BY <1>3
<1>4. \/ todos = <<>> \/ \E x \in Names : todos = <<x>>
      \/ \E x \in {"login", "signup"} : todos = <<"main", x>>
  BY DEF Routes
<1> QED BY <1>1, <1>2, <1>3, <1>4

\* What is left of a route is a route.
LEMMA RestIsRoute ==
    ASSUME NEW todos \in Routes, NEW n \in 0 .. Len(todos)
    PROVE  /\ SubSeq(todos, n + 1, Len(todos)) \in Routes
           /\ SubSeq(todos, n + 1, Len(todos)) = <<>> <=> n = Len(todos)
<1>1. /\ todos \in Seq(Names) /\ Len(todos) \in {0, 1, 2}
      /\ Len(todos) = 2 => todos[2] \in {"login", "signup"}
      /\ Len(todos) = 0 <=> todos = <<>>
  BY RouteIs
<1>2. CASE n = Len(todos)
  BY <1>1, <1>2, SubSeqEmpty DEF Routes
<1>3. CASE n = 0 /\ todos # <<>>
  <2>1. SubSeq(todos, 1, Len(todos)) = todos
    BY <1>1, SubSeqFull
  <2>2. Len(todos) # 0
    BY <1>1, <1>3
  <2>3. n + 1 = 1
    BY <1>3
  <2> QED BY <1>3, <2>1, <2>2, <2>3
<1>4. CASE n = 1 /\ Len(todos) = 2
  <2> DEFINE rest == SubSeq(todos, 2, 2)
             last == todos[2]
  <2>1. rest \in Seq(Names) /\ Len(rest) = 1 /\ rest[1] = last
    <3>1. \A i \in 2 .. 2 : todos[i] \in Names
      BY <1>1, <1>4
    <3>2. /\ SubSeq(todos, 2, 2) \in Seq(Names)
          /\ Len(SubSeq(todos, 2, 2)) = IF 2 <= 2 THEN 2 - 2 + 1 ELSE 0
          /\ \A i \in 1 .. 2 - 2 + 1 : SubSeq(todos, 2, 2)[i] = todos[2 + i - 1]
      BY <3>1, SubSeqProperties
    <3> QED BY <1>4, <3>2
  <2>2. last \in {"login", "signup"}
    BY <1>1, <1>4
  <2> HIDE DEF rest, last
  <2>3. <<last>> \in Seq(Names) /\ Len(<<last>>) = 1 /\ <<last>>[1] = last
    BY <2>2
  <2>4. rest = <<last>>
    <3>1. \A i \in 1 .. Len(rest) : rest[i] = <<last>>[i]
      BY <2>1, <2>3
    <3> QED BY <2>1, <2>3, <3>1, SeqEqual
  <2>5. rest \in Routes /\ rest # <<>>
    BY <2>2, <2>4 DEF Routes
  <2> QED BY <1>4, <2>5 DEF rest
<1>5. todos # <<>> /\ n # 0 /\ n # Len(todos) => n = 1 /\ Len(todos) = 2
  <2> DEFINE l == Len(todos)
  <2>1. l \in {0, 1, 2} /\ n \in 0 .. l
    BY <1>1
  <2> HIDE DEF l
  <2>2. n # 0 /\ n # l => n = 1 /\ l = 2
    BY <2>1
  <2> QED BY <1>1, <2>2 DEF l
<1>6. todos = <<>> => n = Len(todos)
  OBVIOUS
<1> QED BY <1>2, <1>3, <1>4, <1>5, <1>6

\* What route_change draws fits the user it looks at, and either is complete or goes
\* on later.
LEMMA ShowDraws ==
    ASSUME ViewsTyped, tab \in [Handler -> Tab], pc \in [Handler -> Labels],
           NEW h \in Handler, NEW shown \in Seq(AView), NEW todos \in Routes, todos # <<>>,
           NEW names, NEW user, Show(h, shown, todos, names, user)
    PROVE  /\ ViewsTyped'
           /\ \A t \in Tab : t # tab[h] => views'[t] = views[t]
           /\ \A g \in Handler : g # h => todo'[g] = todo[g] /\ pc'[g] = pc[g]
           /\ pc' \in [Handler -> Labels]
           /\ pc'[h] = IF todo'[h] = <<>> THEN "idle" ELSE "resolve"
           /\ (\A i \in 1 .. Len(shown) : Fits(shown[i], user)) =>
                 \A i \in 1 .. Len(views'[tab[h]]) : Fits(views'[tab[h]][i], user)
           /\ views'[tab[h]] = <<>> => pc'[h] = "resolve"
<1> DEFINE n   == Ready(todos, names)
           new == [i \in 1 .. n |-> View(todos[i], user)]
           all == shown \o new
<1>1. n \in 0 .. Len(todos) /\ Len(todos) \in Nat /\ Len(todos) # 0
  <2>1. Len(todos) \in {0, 1, 2} /\ Len(todos) # 0
    BY RouteIs
  <2>2. n \in 0 .. Len(todos)
    BY ReadyIs
  <2> QED BY <2>1, <2>2
<1>2. /\ SubSeq(todos, n + 1, Len(todos)) \in Routes
      /\ SubSeq(todos, n + 1, Len(todos)) = <<>> <=> n = Len(todos)
  BY <1>1, RestIsRoute
<1>3. /\ views' = [views EXCEPT ![tab[h]] = all]
      /\ todo' = [todo EXCEPT ![h] = SubSeq(todos, n + 1, Len(todos))]
      /\ pc' = [pc EXCEPT ![h] = IF n = Len(todos) THEN "idle" ELSE "resolve"]
  BY DEF Show, Goto
<1>4. \A i \in 1 .. n : View(todos[i], user) \in AView /\ Fits(View(todos[i], user), user)
  <2> SUFFICES ASSUME NEW i \in 1 .. n
               PROVE  View(todos[i], user) \in AView /\ Fits(View(todos[i], user), user)
    OBVIOUS
  <2>1. todos[i] \in Names
    BY <1>1 DEF Routes
  <2> QED BY <2>1 DEF View, AView, Fits
<1> HIDE DEF n
<1>5. /\ new \in Seq(AView) /\ Len(new) = n
      /\ \A i \in 1 .. Len(new) : Fits(new[i], user)
  BY <1>1, <1>4
<1> HIDE DEF new
<1>6. /\ all \in Seq(AView) /\ Len(all) = Len(shown) + Len(new)
      /\ \A i \in 1 .. Len(all) : all[i] = IF i <= Len(shown) THEN shown[i] ELSE new[i - Len(shown)]
  BY <1>5, ConcatProperties
<1> HIDE DEF all
<1>7. ASSUME \A i \in 1 .. Len(shown) : Fits(shown[i], user), NEW i \in 1 .. Len(all)
      PROVE  Fits(all[i], user)
  <2>1. CASE i <= Len(shown)
    BY <1>6, <1>7, <2>1
  <2>2. CASE ~(i <= Len(shown))
    <3>1. i - Len(shown) \in 1 .. Len(new)
      BY <1>5, <1>6, <2>2
    <3> QED BY <1>5, <1>6, <2>2, <3>1
  <2> QED BY <2>1, <2>2
<1>8. all = <<>> => n = 0
  <2>1. Len(shown) \in Nat /\ n \in Nat
    BY <1>1
  <2>2. all = <<>> => Len(all) = 0
    OBVIOUS
  <2> QED BY <1>5, <1>6, <2>1, <2>2
<1>9. /\ views' \in [Tab -> Seq(AView)] /\ views'[tab[h]] = all
      /\ \A t \in Tab : t # tab[h] => views'[t] = views[t]
  BY <1>3, <1>6 DEF ViewsTyped
<1>10. /\ todo' \in [Handler -> Routes] /\ todo'[h] = SubSeq(todos, n + 1, Len(todos))
       /\ pc' \in [Handler -> Labels] /\ pc'[h] = IF n = Len(todos) THEN "idle" ELSE "resolve"
       /\ \A g \in Handler : g # h => todo'[g] = todo[g] /\ pc'[g] = pc[g]
  BY <1>2, <1>3 DEF ViewsTyped
<1> QED BY <1>1, <1>2, <1>7, <1>8, <1>9, <1>10 DEF ViewsTyped

-----------------------------------------------------------------------------
(* What a step has to do for the screen.                                   *)

\* A step that touches neither views nor users, and takes no drawing back.
LEMMA NoDrawing ==
    ASSUME ScreenInv, NEW h \in Handler, NEW l \in Labels, pc' = [pc EXCEPT ![h] = l],
           UNCHANGED <<route, views, userdata, tab, undrawn>>,
           failed \subseteq failed', pc[h] \notin Routing,
           \/ opened' = opened
           \/ opened' = opened \cup {tab[h]} /\ l = "login",
           pc[h] \in Drawing => l \in Drawing \/ tab[h] \in failed',
           pc[h] \in Redrawing => l \in Redrawing \/ tab[h] \in failed'
    PROVE  Shows'
<1>1. pc'[h] = l /\ \A g \in Handler : g # h => pc'[g] = pc[g]
  BY DEF ScreenInv, TypeOK
<1>2. ASSUME NEW t \in Tab \ failed', Comes(t, Drawing) PROVE Comes(t, Drawing)'
  BY <1>1, <1>2 DEF Comes
<1>3. ASSUME NEW t \in Tab \ failed', Comes(t, Redrawing) PROVE Comes(t, Redrawing)'
  BY <1>1, <1>3 DEF Comes
<1>4. ASSUME NEW t \in Tab, Comes(t, Routing) PROVE Comes(t, Routing)'
  BY <1>1, <1>4 DEF Comes
<1>5. SomethingShown'
  <2> SUFFICES ASSUME NEW t \in opened' \ failed', views[t] = <<>> PROVE Comes(t, Drawing)'
    BY DEF SomethingShown
  <2>1. CASE t \in opened
    <3>1. t \in Tab \ failed' /\ Comes(t, Drawing)
      BY <2>1 DEF ScreenInv, Shows, SomethingShown, TypeOK
    <3> QED BY <1>2, <3>1
  <2>2. CASE t \notin opened
    BY <1>1, <2>2 DEF Comes
  <2> QED BY <2>1, <2>2
<1>6. RightOrRedrawn'
  BY <1>3 DEF ScreenInv, Shows, RightOrRedrawn, Right
<1>7. RouteIsShown'
  BY <1>4 DEF ScreenInv, Shows, RouteIsShown
<1> QED BY <1>5, <1>6, <1>7 DEF Shows

\* A step that changes the user of a tab, or not, and draws the tab's screen later.
LEMMA DrawsLater ==
    ASSUME ScreenInv, NEW h \in Handler, NEW l \in Redrawing, pc' = [pc EXCEPT ![h] = l],
           UNCHANGED <<views, tab, opened, failed, undrawn>>, pc[h] \notin Routing,
           \/ route' = route
           \/ l = "route" /\ \A t \in Tab : t # tab[h] => route'[t] = route[t],
           \A t \in Tab : t # tab[h] => userdata'[t] = userdata[t]
    PROVE  Shows'
<1>1. pc'[h] = l /\ \A g \in Handler : g # h => pc'[g] = pc[g]
  BY DEF ScreenInv, TypeOK
<1>2. Comes(tab[h], Drawing)' /\ Comes(tab[h], Redrawing)'
  BY <1>1 DEF Comes
<1>3. ASSUME NEW t \in Tab, t # tab[h]
      PROVE  /\ Comes(t, Drawing) => Comes(t, Drawing)'
             /\ Comes(t, Redrawing) => Comes(t, Redrawing)'
             /\ Right(t) => Right(t)'
  BY <1>1, <1>3 DEF Comes, Right
<1>4. ASSUME NEW t \in Tab, Comes(t, Routing) PROVE Comes(t, Routing)'
  BY <1>1, <1>4 DEF Comes
<1>5. SomethingShown'
  BY <1>2, <1>3 DEF ScreenInv, Shows, SomethingShown, TypeOK
<1>6. RightOrRedrawn'
  BY <1>2, <1>3 DEF ScreenInv, Shows, RightOrRedrawn
<1>7. l = "route" => Comes(tab[h], Routing)'
  BY <1>1 DEF Comes
<1>8. RouteIsShown'
  BY <1>4, <1>7 DEF ScreenInv, Shows, RouteIsShown
<1> QED BY <1>5, <1>6, <1>8 DEF Shows

\* The end of a login that draws nothing, because the tab is at the route already.
LEMMA DrawsNothing ==
    ASSUME ScreenInv, NEW h \in Handler, pc' = [pc EXCEPT ![h] = "idle"],
           UNCHANGED <<route, views, tab, opened, failed>>, pc[h] \notin Routing,
           undrawn' = undrawn \cup {tab[h]}, route[tab[h]] # NoRoute,
           \A t \in Tab : t # tab[h] => userdata'[t] = userdata[t]
    PROVE  Shows'
<1>1. /\ tab[h] \in Tab /\ pc'[h] = "idle" /\ \A g \in Handler : g # h => pc'[g] = pc[g]
  BY DEF ScreenInv, TypeOK
<1>2. ASSUME NEW t \in Tab, t # tab[h]
      PROVE  /\ Comes(t, Drawing) => Comes(t, Drawing)'
             /\ Comes(t, Redrawing) => Comes(t, Redrawing)'
             /\ Right(t) => Right(t)'
  BY <1>1, <1>2 DEF Comes, Right
<1>3. ASSUME NEW t \in Tab, Comes(t, Routing) PROVE Comes(t, Routing)' /\ Comes(t, Drawing)'
  BY <1>1, <1>3 DEF Comes
<1>4. RouteIsShown'
  BY <1>3 DEF ScreenInv, Shows, RouteIsShown
<1>5. tab[h] \in failed \/ views[tab[h]] # <<>> \/ Comes(tab[h], Drawing)'
  BY <1>1, <1>3 DEF ScreenInv, Shows, RouteIsShown
<1>6. SomethingShown'
  BY <1>2, <1>5 DEF ScreenInv, Shows, SomethingShown, TypeOK
<1>7. RightOrRedrawn'
  BY <1>2 DEF ScreenInv, Shows, RightOrRedrawn
<1> QED BY <1>4, <1>6, <1>7 DEF Shows

\* A step that draws, with the user of the tab as he is from now on.
LEMMA DrawsNow ==
    ASSUME ScreenInv, NEW h \in Handler, NEW shown \in Seq(AView), NEW names,
           NEW todos \in Routes, todos # <<>>, NEW user,
           Show(h, shown, todos, names, user), user = userdata'[tab[h]],
           UNCHANGED <<route, tab, opened>>,
           failed' \in {failed, failed \ {tab[h]}}, undrawn' \in {undrawn, undrawn \ {tab[h]}},
           \A t \in Tab : t # tab[h] => userdata'[t] = userdata[t],
           \/ tab[h] \in failed' \cup undrawn'
           \/ Comes(tab[h], Redrawing)'
           \/ \A i \in 1 .. Len(shown) : Fits(shown[i], user)
    PROVE  /\ Shows' /\ ViewsTyped'
           /\ \A g \in Handler : g # h => todo'[g] = todo[g] /\ pc'[g] = pc[g]
           /\ pc' \in [Handler -> Labels]
           /\ pc'[h] = IF todo'[h] = <<>> THEN "idle" ELSE "resolve"
<1>1. /\ ViewsTyped'
      /\ \A t \in Tab : t # tab[h] => views'[t] = views[t]
      /\ \A g \in Handler : g # h => todo'[g] = todo[g] /\ pc'[g] = pc[g]
      /\ pc' \in [Handler -> Labels]
      /\ pc'[h] = IF todo'[h] = <<>> THEN "idle" ELSE "resolve"
      /\ (\A i \in 1 .. Len(shown) : Fits(shown[i], user)) =>
            \A i \in 1 .. Len(views'[tab[h]]) : Fits(views'[tab[h]][i], user)
      /\ views'[tab[h]] = <<>> => pc'[h] = "resolve"
  BY ShowDraws DEF ScreenInv, TypeOK
<1>2. ASSUME NEW t \in Tab, t # tab[h]
      PROVE  /\ Comes(t, Drawing) => Comes(t, Drawing)'
             /\ Comes(t, Redrawing) => Comes(t, Redrawing)'
             /\ Comes(t, Routing) => Comes(t, Routing)'
             /\ Right(t) => Right(t)'
  BY <1>1, <1>2 DEF Comes, Right
<1>3. views'[tab[h]] # <<>> \/ (Comes(tab[h], Drawing)' /\ Comes(tab[h], Routing)')
  BY <1>1 DEF Comes
<1>4. tab[h] \in failed' \cup undrawn' \/ Right(tab[h])' \/ Comes(tab[h], Redrawing)'
  BY <1>1 DEF Right
<1>5. SomethingShown'
  BY <1>1, <1>2, <1>3 DEF ScreenInv, Shows, SomethingShown, TypeOK
<1>6. RightOrRedrawn'
  BY <1>2, <1>4 DEF ScreenInv, Shows, RightOrRedrawn
<1>7. RouteIsShown'
  BY <1>1, <1>2, <1>3 DEF ScreenInv, Shows, RouteIsShown
<1> QED BY <1>1, <1>5, <1>6, <1>7 DEF Shows

-----------------------------------------------------------------------------
(* One lemma per kind of action.                                           *)

\* The events of a tab.
LEMMA EventScreen ==
    ASSUME ScreenInv, NEW h \in Handler,
           Open(h) \/ LoginClick(h) \/ MenuLogin(h) \/ LogoutClick(h) \/ ViewPop(h)
    PROVE  ScreenInv'
<1> USE DEF ScreenInv
<1>1. PICK l \in {"login", "auth", "logout", "pop"} :
        /\ Start(h, l)
        /\ \/ opened' = opened
           \/ opened' = opened \cup {tab[h]} /\ l = "login"
        /\ \/ menu' = menu
           \/ menu' = menu \cup {h} /\ l = "login"
  BY DEF Open, LoginClick, MenuLogin, LogoutClick, ViewPop
<1>2. /\ pc[h] = "idle" /\ pc' = [pc EXCEPT ![h] = l]
      /\ UNCHANGED <<storage, made, accepted, userdata, route, views, known, tab, token, todo,
                     changed, failed, undrawn>>
  BY <1>1 DEF Start, Goto, server
<1>3. /\ pc' \in [Handler -> Labels] /\ pc'[h] = l
      /\ \A g \in Handler : g # h => pc'[g] = pc[g]
  BY <1>2 DEF TypeOK
<1>4. TypeOK'
  <2>1. opened' \in SUBSET Tab
    BY <1>1 DEF TypeOK
  <2>2. menu' \in SUBSET {g \in Handler : pc'[g] \in {"login", "get", "verify", "load", "remove"}}
    BY <1>1, <1>2, <1>3 DEF TypeOK
  <2>3. changed' \in SUBSET Reading'
    BY <1>2, <1>3 DEF TypeOK, Reading
  <2>4. \A g \in Handler :
           /\ pc'[g] \in {"store", "verify", "load", "remove"} => token'[g] # NoToken
           /\ pc'[g] \in {"route", "resolve"} <=> todo'[g] # <<>>
    BY <1>2, <1>3 DEF TypeOK
  <2> QED BY <1>2, <1>3, <2>1, <2>2, <2>3, <2>4 DEF TypeOK
<1>5. ViewsTyped'
  BY <1>2 DEF ViewsTyped
<1>6. Shows'
  BY <1>1, <1>2, NoDrawing
<1> QED BY <1>4, <1>5, <1>6

\* Authentication, and the storing of the token it has brought.
LEMMA AuthScreen ==
    ASSUME ScreenInv, NEW h \in Handler,
           AuthFails(h) \/ (\E u \in User : Authenticated(h, u)) \/ Store(h) \/ Logout(h)
    PROVE  ScreenInv'
<1> USE DEF ScreenInv
<1>1. PICK l \in {"idle", "store", "login", "forget"} :
        /\ pc' = [pc EXCEPT ![h] = l]
        /\ pc[h] \in {"auth", "store", "logout"}
        /\ l = "store" <=> \E u \in User : Authenticated(h, u)
  BY DEF AuthFails, Authenticated, Store, Logout, Goto
<1>2. UNCHANGED <<made, accepted, userdata, opened, route, views, known, tab, menu, todo,
                 failed, undrawn>>
  BY DEF AuthFails, Authenticated, Store, Logout, server, screen
<1>3. /\ pc' \in [Handler -> Labels] /\ pc'[h] = l
      /\ \A g \in Handler : g # h => pc'[g] = pc[g]
  BY <1>1 DEF TypeOK
<1>4. /\ token' \in [Handler -> Token \cup {NoToken}]
      /\ \A g \in Handler : g # h => token'[g] = token[g]
      /\ l = "store" => token'[h] \in Token
  <2>1. token \in [Handler -> Token \cup {NoToken}]
    BY DEF TypeOK
  <2>2. ASSUME NEW u \in User, Authenticated(h, u)
        PROVE  /\ token' \in [Handler -> Token \cup {NoToken}]
               /\ \A g \in Handler : g # h => token'[g] = token[g]
               /\ token'[h] \in Token
    <3>1. PICK n \in 1 .. made[u] : token' = [token EXCEPT ![h] = <<u, n>>]
      BY <2>2 DEF Authenticated, Hold
    <3>2. made[u] \in 0 .. MaxTokens /\ MaxTokens \in Nat
      BY BoundAssumption DEF TypeOK
    <3>3. <<u, n>> \in Token
      BY <3>2 DEF Token
    <3> QED BY <2>1, <3>1, <3>3
  <2>3. CASE AuthFails(h) \/ Store(h) \/ Logout(h)
    <3>1. token' = token
      BY <2>3 DEF AuthFails, Store, Logout
    <3>2. l # "store"
      BY <1>3, <2>3 DEF AuthFails, Store, Logout, Goto, TypeOK
    <3> QED BY <2>1, <3>1, <3>2
  <2> QED BY <2>2, <2>3
<1>5. storage' \in Token \cup {NoToken}
  <2>1. storage' \in {storage, token[h], NoToken}
    BY DEF AuthFails, Authenticated, Store, Logout
  <2>2. storage \in Token \cup {NoToken} /\ token[h] \in Token \cup {NoToken}
    BY DEF TypeOK
  <2> QED BY <2>1, <2>2
<1>6. changed' \in SUBSET Reading'
  <2>1. changed' \in {changed, changed \cup Reading}
    BY DEF AuthFails, Authenticated, Store, Logout
  <2>2. Reading \subseteq Reading'
    BY <1>1, <1>3 DEF Reading
  <2> QED BY <2>1, <2>2 DEF TypeOK
<1>7. TypeOK'
  <2>1. menu' \in SUBSET {g \in Handler : pc'[g] \in {"login", "get", "verify", "load", "remove"}}
    BY <1>1, <1>2, <1>3 DEF TypeOK
  <2>2. \A g \in Handler : pc'[g] \in {"store", "verify", "load", "remove"} => token'[g] # NoToken
    <3>1. ASSUME NEW g \in Handler, g # h, pc'[g] \in {"store", "verify", "load", "remove"}
          PROVE  token'[g] # NoToken
      BY <1>3, <1>4, <3>1 DEF TypeOK
    <3>2. pc'[h] \in {"store", "verify", "load", "remove"} => token'[h] # NoToken
      BY <1>3, <1>4, TokenIsNotNone
    <3> QED BY <3>1, <3>2
  <2>3. \A g \in Handler : pc'[g] \in {"route", "resolve"} <=> todo'[g] # <<>>
    BY <1>1, <1>2, <1>3 DEF TypeOK
  <2> QED BY <1>2, <1>3, <1>4, <1>5, <1>6, <2>1, <2>2, <2>3 DEF TypeOK
<1>8. ViewsTyped'
  BY <1>2 DEF ViewsTyped
<1>9. Shows'
  BY <1>1, <1>2, NoDrawing
<1> QED BY <1>4, <1>7, <1>8, <1>9

\* What keeps the types when a handler goes on, or is done.
LEMMA StepTyped ==
    ASSUME ScreenInv, NEW h \in Handler, NEW l \in Labels, pc' = [pc EXCEPT ![h] = l],
           storage' \in {storage, NoToken}, UNCHANGED <<made, accepted, opened, tab>>,
           userdata' \in [Tab -> User \cup {NoUser}],
           views' \in [Tab -> Seq(AView)], known' \in [Tab -> SUBSET Names],
           todo' \in [Handler -> Routes], \A g \in Handler : g # h => todo'[g] = todo[g],
           l \in {"route", "resolve"} <=> todo'[h] # <<>>,
           token' \in {token, [token EXCEPT ![h] = NoToken], [token EXCEPT ![h] = storage]},
           l \in {"store", "verify", "load", "remove"} => token'[h] # NoToken,
           menu' \in {menu, menu \ {h}},
           l \notin {"login", "get", "verify", "load", "remove"} => h \notin menu',
           changed' \in {changed, changed \ {h}},
           l \notin {"verify", "load", "remove"} => h \notin changed',
           route' \in [Tab -> Names \cup {NoRoute}],
           failed' \in {failed, failed \cup {tab[h]}, failed \ {tab[h]}},
           undrawn' \in {undrawn, undrawn \cup {tab[h]}, undrawn \ {tab[h]}}
    PROVE  TypeOK' /\ ViewsTyped'
<1>1. TypeOK
  BY DEF ScreenInv
<1>2. /\ pc' \in [Handler -> Labels] /\ pc'[h] = l
      /\ \A g \in Handler : g # h => pc'[g] = pc[g]
  BY <1>1 DEF TypeOK
<1>3. /\ token' \in [Handler -> Token \cup {NoToken}]
      /\ \A g \in Handler : g # h => token'[g] = token[g]
  <2>1. token \in [Handler -> Token \cup {NoToken}] /\ storage \in Token \cup {NoToken}
    BY <1>1 DEF TypeOK
  <2>2. CASE token' = token
    BY <2>1, <2>2
  <2>3. CASE token' = [token EXCEPT ![h] = NoToken]
    BY <2>1, <2>3
  <2>4. CASE token' = [token EXCEPT ![h] = storage]
    BY <2>1, <2>4
  <2> QED BY <2>2, <2>3, <2>4
<1>4. menu' \in SUBSET {g \in Handler : pc'[g] \in {"login", "get", "verify", "load", "remove"}}
  BY <1>1, <1>2 DEF TypeOK
<1>5. changed' \in SUBSET Reading'
  BY <1>1, <1>2 DEF TypeOK, Reading
<1>6. \A g \in Handler : pc'[g] \in {"store", "verify", "load", "remove"} => token'[g] # NoToken
  BY <1>1, <1>2, <1>3 DEF TypeOK
<1>7. \A g \in Handler : pc'[g] \in {"route", "resolve"} <=> todo'[g] # <<>>
  BY <1>1, <1>2 DEF TypeOK
<1>8. \A t \in Tab : \A i \in DOMAIN views'[t] : views'[t][i] \in [name : Names, chat : BOOLEAN]
  <2> SUFFICES ASSUME NEW t \in Tab, NEW i \in DOMAIN views'[t] PROVE views'[t][i] \in AView
    BY DEF AView
  <2>1. views'[t] \in Seq(AView)
    OBVIOUS
  <2> QED BY <2>1
<1>9. /\ storage' \in Token \cup {NoToken}
      /\ failed' \in SUBSET Tab /\ undrawn' \in SUBSET Tab
      /\ made' \in [User -> 0 .. MaxTokens] /\ accepted' \in [User -> SUBSET (1 .. MaxTokens)]
      /\ \A u \in User : accepted'[u] \subseteq 1 .. made'[u]
      /\ opened' \in SUBSET Tab /\ tab' \in [Handler -> Tab]
  BY <1>1 DEF TypeOK
<1>10. TypeOK'
  BY <1>2, <1>3, <1>4, <1>5, <1>6, <1>7, <1>8, <1>9 DEF TypeOK
<1>11. ViewsTyped'
  BY DEF ScreenInv, ViewsTyped
<1> QED BY <1>10, <1>11

\* The route to a view is a route, and not an empty one.
LEMMA PathIsRoute ==
    \A name \in Names : Path(name) \in Routes /\ Path(name) # <<>>
BY DEF Path, Routes

\* What goes on to a view: another handler draws it, or the tab is there already.
LEMMA GoesOn ==
    ASSUME ScreenInv, NEW h \in Handler, NEW name \in Names, Go(h, name)
    PROVE  /\ todo' \in [Handler -> Routes]
           /\ \A g \in Handler : g # h => todo'[g] = todo[g]
           /\ token' = [token EXCEPT ![h] = NoToken]
           /\ route' \in [Tab -> Names \cup {NoRoute}]
           /\ \/ /\ Noticed(tab[h], name)
                 /\ pc' = [pc EXCEPT ![h] = "route"] /\ todo'[h] # <<>>
                 /\ \A t \in Tab : t # tab[h] => route'[t] = route[t]
              \/ /\ ~Noticed(tab[h], name)
                 /\ pc' = [pc EXCEPT ![h] = "idle"] /\ todo'[h] = <<>>
                 /\ route' = route /\ route[tab[h]] # NoRoute
<1>1. /\ todo \in [Handler -> Routes] /\ <<>> \in Routes
      /\ Path(name) \in Routes /\ Path(name) # <<>>
  BY PathIsRoute DEF ScreenInv, ViewsTyped, Routes
<1>2. route \in [Tab -> Names \cup {NoRoute}] /\ tab[h] \in Tab /\ name # NoRoute
  BY DEF ScreenInv, TypeOK
<1>3. /\ token' = [token EXCEPT ![h] = NoToken] /\ route' = [route EXCEPT ![tab[h]] = name]
      /\ route' \in [Tab -> Names \cup {NoRoute}]
      /\ \A t \in Tab : t # tab[h] => route'[t] = route[t]
  BY <1>2 DEF Go, Hold
<1>4. CASE Noticed(tab[h], name)
  <2>1. todo' = [todo EXCEPT ![h] = Path(name)] /\ pc' = [pc EXCEPT ![h] = "route"]
    BY <1>4 DEF Go, Goto
  <2>2. /\ todo' \in [Handler -> Routes] /\ todo'[h] # <<>>
        /\ \A g \in Handler : g # h => todo'[g] = todo[g]
    BY <1>1, <2>1
  <2> QED BY <1>3, <1>4, <2>1, <2>2
<1>5. CASE ~Noticed(tab[h], name)
  <2>1. todo' = [todo EXCEPT ![h] = <<>>] /\ pc' = [pc EXCEPT ![h] = "idle"]
    BY <1>5 DEF Go, Goto
  <2>2. /\ todo' \in [Handler -> Routes] /\ todo'[h] = <<>>
        /\ \A g \in Handler : g # h => todo'[g] = todo[g]
    BY <1>1, <2>1
  <2>3. route' = route /\ route[tab[h]] # NoRoute
    BY <1>2, <1>3, <1>5 DEF Noticed
  <2> QED BY <1>3, <1>5, <2>1, <2>2, <2>3
<1> QED BY <1>4, <1>5

\* ChatApp.login: it forgets the user first; wherever it ends the screen is drawn.
LEMMA LoginScreen ==
    ASSUME ScreenInv, NEW h \in Handler,
           LoginBegins(h) \/ Get(h) \/ Verify(h) \/ Load(h) \/ RemoveToken(h)
    PROVE  ScreenInv'
<1> DEFINE LoadsUser == /\ userdata' = [userdata EXCEPT ![tab[h]] = token[h][1]]
                        /\ AfterLogin(h, token[h][1])
                        /\ UNCHANGED failed
           LoadFails == /\ Goto(h, "idle")
                        /\ Hold(h, NoToken)
                        /\ failed' = failed \cup {tab[h]}
                        /\ menu' = menu \ {h}
                        /\ UNCHANGED <<userdata, route, todo, undrawn>>
<1>1. /\ userdata \in [Tab -> User \cup {NoUser}] /\ tab[h] \in Tab
      /\ views \in [Tab -> Seq(AView)] /\ known \in [Tab -> SUBSET Names]
      /\ todo \in [Handler -> Routes] /\ token[h] \in Token \cup {NoToken}
      /\ route \in [Tab -> Names \cup {NoRoute}]
      /\ changed \subseteq Reading
      /\ pc[h] \in {"store", "verify", "load", "remove"} => token[h] # NoToken
      /\ pc[h] \in {"route", "resolve"} <=> todo[h] # <<>>
  BY DEF ScreenInv, TypeOK, ViewsTyped
<1>2. CASE LoginBegins(h)
  <2>1. /\ pc[h] = "login" /\ pc' = [pc EXCEPT ![h] = "get"]
        /\ userdata' = [userdata EXCEPT ![tab[h]] = NoUser]
        /\ UNCHANGED <<storage, made, accepted, opened, route, views, known, tab, menu, token, todo,
                       changed, failed, undrawn>>
    BY <1>2 DEF LoginBegins, Goto, Forgets, server, screen
  <2>2. h \notin changed
    BY <1>1, <2>1 DEF Reading
  <2>3. TypeOK' /\ ViewsTyped'
    BY <1>1, <2>1, <2>2, StepTyped
  <2>4. Shows'
    BY <1>1, <2>1, DrawsLater
  <2> QED BY <2>3, <2>4 DEF ScreenInv
<1>3. CASE Get(h) /\ storage # NoToken
  <2>1. /\ pc[h] = "get" /\ pc' = [pc EXCEPT ![h] = "verify"]
        /\ token' = [token EXCEPT ![h] = storage] /\ changed' = changed \ {h}
        /\ UNCHANGED <<storage, made, accepted, userdata, opened, route, views, known, tab, menu,
                       todo, failed, undrawn>>
    BY <1>3 DEF Get, Goto, Hold, server, screen
  <2>2. token'[h] # NoToken
    <3>1. token \in [Handler -> Token \cup {NoToken}]
      BY DEF ScreenInv, TypeOK
    <3> QED BY <1>3, <2>1, <3>1
  <2>3. TypeOK' /\ ViewsTyped'
    BY <1>1, <2>1, <2>2, StepTyped
  <2>4. Shows'
    BY <2>1, DrawsLater
  <2> QED BY <2>3, <2>4 DEF ScreenInv
<1>4. CASE Verify(h)
  <2>1. PICK l \in {"load", "remove"} : pc' = [pc EXCEPT ![h] = l]
    BY <1>4 DEF Verify, Goto
  <2>2. /\ pc[h] = "verify"
        /\ UNCHANGED <<storage, made, accepted, userdata, opened, route, views, known, tab, menu,
                       token, todo, changed, failed, undrawn>>
    BY <1>4 DEF Verify, server, screen
  <2>3. TypeOK' /\ ViewsTyped'
    BY <1>1, <2>1, <2>2, StepTyped
  <2>4. Shows'
    BY <2>1, <2>2, DrawsLater
  <2> QED BY <2>3, <2>4 DEF ScreenInv
<1>5. CASE Load(h) /\ LoadFails
  <2>1. /\ pc[h] = "load" /\ pc' = [pc EXCEPT ![h] = "idle"]
        /\ token' = [token EXCEPT ![h] = NoToken] /\ changed' = changed \ {h}
        /\ failed' = failed \cup {tab[h]} /\ menu' = menu \ {h}
        /\ UNCHANGED <<storage, made, accepted, userdata, opened, route, views, known, tab, todo,
                       undrawn>>
    BY <1>5 DEF Load, Goto, Hold, server, screen
  <2>2. TypeOK' /\ ViewsTyped'
    BY <1>1, <2>1, StepTyped
  <2>3. Shows'
    BY <2>1, NoDrawing
  <2> QED BY <2>2, <2>3 DEF ScreenInv
<1>6. CASE \/ Get(h) /\ storage = NoToken
           \/ Load(h) /\ LoadsUser
           \/ RemoveToken(h)
  <2>1. PICK user \in User \cup {NoUser} : AfterLogin(h, user)
    <3>1. token[h] \in Token => token[h][1] \in User
      BY DEF Token
    <3>2. Load(h) => token[h] \in Token
      BY <1>1 DEF Load
    <3>3. userdata[tab[h]] \in User \cup {NoUser}
      BY <1>1
    <3>4. CASE Get(h) /\ storage = NoToken
      BY <3>3, <3>4 DEF Get
    <3>5. CASE Load(h) /\ LoadsUser
      BY <3>1, <3>2, <3>5 DEF Load
    <3>6. CASE RemoveToken(h)
      BY <3>3, <3>6 DEF RemoveToken
    <3> QED BY <1>6, <3>4, <3>5, <3>6
  <2>2. PICK name \in Names :
           /\ Go(h, name)
           /\ undrawn' = IF Noticed(tab[h], name) THEN undrawn ELSE undrawn \cup {tab[h]}
    BY <2>1 DEF AfterLogin
  <2>3. /\ todo' \in [Handler -> Routes]
        /\ \A g \in Handler : g # h => todo'[g] = todo[g]
        /\ token' = [token EXCEPT ![h] = NoToken]
        /\ route' \in [Tab -> Names \cup {NoRoute}]
        /\ \/ /\ undrawn' = undrawn
              /\ pc' = [pc EXCEPT ![h] = "route"] /\ todo'[h] # <<>>
              /\ \A t \in Tab : t # tab[h] => route'[t] = route[t]
           \/ /\ undrawn' = undrawn \cup {tab[h]}
              /\ pc' = [pc EXCEPT ![h] = "idle"] /\ todo'[h] = <<>>
              /\ route' = route /\ route[tab[h]] # NoRoute
    BY <2>2, GoesOn
  <2>4. menu' = menu \ {h}
    BY <2>1 DEF AfterLogin
  <2>5. /\ changed' = changed \ {h} /\ storage' \in {storage, NoToken}
        /\ UNCHANGED <<made, accepted, opened, views, known, tab, failed>>
        /\ pc[h] \in {"get", "load", "remove"}
    BY <1>6 DEF Get, Load, RemoveToken, server
  <2>6. /\ userdata' \in [Tab -> User \cup {NoUser}]
        /\ \A t \in Tab : t # tab[h] => userdata'[t] = userdata[t]
    <3>1. CASE Load(h) /\ LoadsUser
      <4>1. token[h][1] \in User
        BY <1>1, <3>1 DEF Load, Token
      <4>2. userdata' = [userdata EXCEPT ![tab[h]] = token[h][1]]
        BY <3>1 DEF Load
      <4> QED BY <1>1, <4>1, <4>2
    <3>2. CASE Get(h) \/ RemoveToken(h)
      BY <1>1, <3>2 DEF Get, RemoveToken
    <3> QED BY <1>6, <3>1, <3>2
  <2>7. CASE pc' = [pc EXCEPT ![h] = "route"] /\ undrawn' = undrawn /\ todo'[h] # <<>>
                /\ \A t \in Tab : t # tab[h] => route'[t] = route[t]
    <3>1. TypeOK' /\ ViewsTyped'
      BY <1>1, <2>3, <2>4, <2>5, <2>6, <2>7, StepTyped
    <3>2. Shows'
      BY <2>5, <2>6, <2>7, DrawsLater
    <3> QED BY <3>1, <3>2 DEF ScreenInv
  <2>8. CASE pc' = [pc EXCEPT ![h] = "idle"] /\ undrawn' = undrawn \cup {tab[h]} /\ todo'[h] = <<>>
                /\ route' = route /\ route[tab[h]] # NoRoute
    <3>1. TypeOK' /\ ViewsTyped'
      BY <1>1, <2>3, <2>4, <2>5, <2>6, <2>8, StepTyped
    <3>2. Shows'
      BY <2>5, <2>6, <2>8, DrawsNothing
    <3> QED BY <3>1, <3>2 DEF ScreenInv
  <2> QED BY <2>3, <2>7, <2>8
<1>7. Get(h) => (storage = NoToken \/ storage # NoToken)
  OBVIOUS
<1>8. Load(h) => LoadsUser \/ LoadFails
  BY DEF Load
<1> QED BY <1>2, <1>3, <1>4, <1>5, <1>6, <1>7, <1>8

\* route_change, whole or in parts, and the one that logout_click awaits.
LEMMA RouteScreen ==
    ASSUME ScreenInv, NEW h \in Handler, RouteChange(h) \/ Resolve(h) \/ Forget(h)
    PROVE  ScreenInv'
<1>1. /\ userdata \in [Tab -> User \cup {NoUser}] /\ tab \in [Handler -> Tab] /\ tab[h] \in Tab
      /\ views \in [Tab -> Seq(AView)] /\ views[tab[h]] \in Seq(AView)
      /\ known \in [Tab -> SUBSET Names]
      /\ todo \in [Handler -> Routes]
      /\ route \in [Tab -> Names \cup {NoRoute}]
      /\ changed \subseteq Reading
      /\ menu \subseteq {g \in Handler : pc[g] \in {"login", "get", "verify", "load", "remove"}}
      /\ pc \in [Handler -> Labels]
      /\ pc[h] \in {"route", "resolve"} <=> todo[h] # <<>>
  BY DEF ScreenInv, TypeOK, ViewsTyped
<1>2. /\ pc[h] \in {"route", "resolve", "forget"}
      /\ UNCHANGED <<storage, made, accepted, opened, route, tab, menu, token, changed>>
      /\ failed' \in {failed, failed \ {tab[h]}} /\ undrawn' \in {undrawn, undrawn \ {tab[h]}}
  BY DEF RouteChange, Resolve, Forget, server
<1>3. h \notin menu /\ h \notin changed
  BY <1>1, <1>2 DEF Reading
<1>4. /\ userdata' \in [Tab -> User \cup {NoUser}] /\ known' \in [Tab -> SUBSET Names]
      /\ \A t \in Tab : t # tab[h] => userdata'[t] = userdata[t]
  <2>1. CASE RouteChange(h)
    BY <1>1, <2>1 DEF RouteChange
  <2>2. CASE Resolve(h)
    <3>1. todo[h] \in Routes /\ todo[h] # <<>>
      BY <1>1, <2>2 DEF Resolve
    <3>2. Head(todo[h]) \in Names
      BY <3>1 DEF Routes
    <3>3. known' = [known EXCEPT ![tab[h]] = @ \cup {Head(todo[h])}] /\ userdata' = userdata
      BY <2>2 DEF Resolve
    <3> QED BY <1>1, <3>2, <3>3
  <2>3. CASE Forget(h)
    BY <1>1, <2>3 DEF Forget, Forgets
  <2> QED BY <2>1, <2>2, <2>3
<1>5. PICK l \in {"idle", "resolve"} : pc' = [pc EXCEPT ![h] = l]
  BY DEF RouteChange, Resolve, Forget, Redraw, Show, Goto
<1>6. ASSUME NEW shown \in Seq(AView), NEW names, NEW todos \in Routes, todos # <<>>, NEW user,
             Show(h, shown, todos, names, user), user = userdata'[tab[h]],
             \/ tab[h] \in failed' \cup undrawn'
             \/ Comes(tab[h], Redrawing)'
             \/ \A i \in 1 .. Len(shown) : Fits(shown[i], user)
      PROVE  /\ Shows' /\ ViewsTyped'
             /\ \A g \in Handler : g # h => todo'[g] = todo[g] /\ pc'[g] = pc[g]
             /\ pc'[h] = IF todo'[h] = <<>> THEN "idle" ELSE "resolve"
  BY <1>2, <1>4, <1>6, DrawsNow
<1>7. /\ Shows' /\ ViewsTyped'
      /\ \A g \in Handler : g # h => todo'[g] = todo[g] /\ pc'[g] = pc[g]
      /\ pc'[h] = IF todo'[h] = <<>> THEN "idle" ELSE "resolve"
  <2>1. CASE RouteChange(h)
    <3>1. /\ Show(h, <<>>, todo[h], known[tab[h]], userdata[tab[h]])
          /\ todo[h] \in Routes /\ todo[h] # <<>> /\ userdata' = userdata
      BY <1>1, <2>1 DEF RouteChange
    <3>2. <<>> \in Seq(AView) /\ \A i \in 1 .. Len(<<>>) : Fits(<<>>[i], userdata[tab[h]])
      OBVIOUS
    <3> QED BY <1>6, <3>1, <3>2
  <2>2. CASE Forget(h)
    <3>1. Show(h, <<>>, Path("main"), known[tab[h]], NoUser) /\ userdata' = Forgets(h)
      BY <2>2 DEF Forget, Redraw
    <3>2. Path("main") \in Routes /\ Path("main") # <<>> /\ NoUser = userdata'[tab[h]]
      BY <1>1, <3>1, PathIsRoute DEF Forgets
    <3>3. <<>> \in Seq(AView) /\ \A i \in 1 .. Len(<<>>) : Fits(<<>>[i], NoUser)
      OBVIOUS
    <3> QED BY <1>6, <3>1, <3>2, <3>3
  <2>3. CASE Resolve(h)
    <3>1. /\ Show(h, views[tab[h]], todo[h], known'[tab[h]], userdata[tab[h]])
          /\ todo[h] \in Routes /\ todo[h] # <<>> /\ userdata' = userdata
          /\ pc[h] = "resolve"
      BY <1>1, <2>3 DEF Resolve
    <3>2. Comes(tab[h], Redrawing) => Comes(tab[h], Redrawing)'
      <4>1. \A g \in Handler : g # h => pc'[g] = pc[g]
        BY <1>1, <1>5
      <4> QED BY <1>2, <3>1, <4>1 DEF Comes
    <3>3. \/ tab[h] \in failed' \cup undrawn'
          \/ Comes(tab[h], Redrawing)'
          \/ \A i \in 1 .. Len(views[tab[h]]) : Fits(views[tab[h]][i], userdata[tab[h]])
      BY <1>1, <2>3, <3>2 DEF ScreenInv, Shows, RightOrRedrawn, Right, Resolve
    <3> QED BY <1>1, <1>6, <3>1, <3>3
  <2> QED BY <2>1, <2>2, <2>3
<1>8. l \in {"route", "resolve"} <=> todo'[h] # <<>>
  BY <1>1, <1>5, <1>7
<1>9. TypeOK'
  <2>1. views' \in [Tab -> Seq(AView)] /\ todo' \in [Handler -> Routes]
    BY <1>7 DEF ViewsTyped
  <2>2. l \in Labels /\ l \notin {"store", "login", "get", "verify", "load", "remove"}
    BY <1>5
  <2>3. route' \in [Tab -> Names \cup {NoRoute}] /\ h \notin menu' /\ h \notin changed'
    BY <1>1, <1>2, <1>3
  <2>4. /\ failed' \in {failed, failed \cup {tab[h]}, failed \ {tab[h]}}
        /\ undrawn' \in {undrawn, undrawn \cup {tab[h]}, undrawn \ {tab[h]}}
        /\ token' \in {token, [token EXCEPT ![h] = NoToken], [token EXCEPT ![h] = storage]}
        /\ menu' \in {menu, menu \ {h}} /\ changed' \in {changed, changed \ {h}}
        /\ storage' \in {storage, NoToken} /\ UNCHANGED <<made, accepted, opened, tab>>
    BY <1>2
  <2> QED BY <1>4, <1>5, <1>7, <1>8, <2>1, <2>2, <2>3, <2>4, StepTyped
<1> QED BY <1>7, <1>9 DEF ScreenInv

\* view_pop: the view below is drawn again, or the handler fails.
LEMMA PopScreen == ASSUME ScreenInv, NEW h \in Handler, Pop(h) PROVE ScreenInv'
<1> DEFINE old == views[tab[h]]
           new == views'[tab[h]]
<1>1. /\ tab[h] \in Tab /\ tab \in [Handler -> Tab] /\ views \in [Tab -> Seq(AView)]
      /\ old \in Seq(AView)
      /\ userdata \in [Tab -> User \cup {NoUser}] /\ known \in [Tab -> SUBSET Names]
      /\ todo \in [Handler -> Routes] /\ changed \subseteq Reading
      /\ menu \subseteq {g \in Handler : pc[g] \in {"login", "get", "verify", "load", "remove"}}
      /\ pc \in [Handler -> Labels]
      /\ pc[h] \in {"route", "resolve"} <=> todo[h] # <<>>
      /\ opened \subseteq Tab /\ route \in [Tab -> Names \cup {NoRoute}]
  BY DEF ScreenInv, TypeOK, ViewsTyped
<1>2. /\ pc[h] = "pop"
      /\ views' = [views EXCEPT ![tab[h]] = IF old = <<>> THEN old ELSE Front(old)]
      /\ UNCHANGED <<storage, made, accepted, userdata, opened, known, tab, menu, changed, undrawn>>
  BY DEF Pop, server
<1>3. h \notin menu /\ h \notin changed
  BY <1>1, <1>2 DEF Reading
<1>4. old # <<>> => Front(old) \in Seq(AView) /\ Len(Front(old)) = Len(old) - 1
  <2> SUFFICES ASSUME old # <<>>
               PROVE  Front(old) \in Seq(AView) /\ Len(Front(old)) = Len(old) - 1
    OBVIOUS
  <2> DEFINE front == SubSeq(old, 1, Len(old) - 1)
             n     == Len(old)
  <2> HIDE DEF old
  <2>1. n \in Nat /\ n # 0
    BY <1>1, EmptySeq
  <2>2. \A i \in 1 .. Len(old) - 1 : old[i] \in AView
    BY <1>1, <2>1
  <2>3. front \in Seq(AView) /\ Len(front) = IF 1 <= n - 1 THEN n - 1 - 1 + 1 ELSE 0
    BY <2>1, <2>2, SubSeqProperties
  <2> HIDE DEF front, n
  <2>4. Len(front) = n - 1
    BY <2>1, <2>3
  <2> QED BY <2>3, <2>4 DEF Front, front, n
<1>5. /\ views' \in [Tab -> Seq(AView)] /\ new = IF old = <<>> THEN old ELSE Front(old)
      /\ \A t \in Tab : t # tab[h] => views'[t] = views[t]
  BY <1>1, <1>2, <1>4
<1>6. ASSUME NEW l \in Labels, pc' = [pc EXCEPT ![h] = l], failed \subseteq failed',
             \A t \in Tab : t # tab[h] => route'[t] = route[t],
             \/ tab[h] \in failed'
             \/ l = "route"
             \/ new # <<>> /\ (Right(tab[h]) => Right(tab[h])')
      PROVE  Shows'
  <2>1. pc'[h] = l /\ \A g \in Handler : g # h => pc'[g] = pc[g]
    BY <1>1, <1>6
  <2>2. ASSUME l = "route"
        PROVE  Comes(tab[h], Drawing)' /\ Comes(tab[h], Redrawing)' /\ Comes(tab[h], Routing)'
    BY <1>2, <2>1, <2>2 DEF Comes
  <2>3. ASSUME NEW t \in Tab
        PROVE  /\ Comes(t, Drawing) => Comes(t, Drawing)'
               /\ Comes(t, Redrawing) => Comes(t, Redrawing)'
               /\ Comes(t, Routing) => Comes(t, Routing)'
               /\ t # tab[h] => (Right(t) => Right(t)')
    BY <1>2, <1>5, <2>1 DEF Comes, Right
  <2>4. SomethingShown'
    BY <1>1, <1>2, <1>5, <1>6, <2>2, <2>3 DEF ScreenInv, Shows, SomethingShown
  <2>5. RightOrRedrawn'
    BY <1>2, <1>6, <2>2, <2>3 DEF ScreenInv, Shows, RightOrRedrawn
  <2>6. RouteIsShown'
    <3> SUFFICES ASSUME NEW t \in Tab \ failed', route'[t] # NoRoute
                 PROVE  views'[t] # <<>> \/ Comes(t, Routing)'
      BY DEF RouteIsShown
    <3>1. CASE t = tab[h]
      <4>1. CASE l = "route"
        BY <1>2, <2>2, <3>1, <4>1
      <4>2. CASE new # <<>>
        BY <3>1, <4>2
      <4> QED BY <1>6, <3>1, <4>1, <4>2
    <3>2. CASE t # tab[h]
      <4>1. route'[t] = route[t] /\ views'[t] = views[t] /\ t \in Tab \ failed
        BY <1>5, <1>6, <3>2
      <4>2. views[t] # <<>> \/ Comes(t, Routing)
        BY <4>1 DEF ScreenInv, Shows, RouteIsShown
      <4>3. Comes(t, Routing) => Comes(t, Routing)'
        BY <2>3, <4>1
      <4> QED BY <4>1, <4>2, <4>3
    <3> QED BY <3>1, <3>2
  <2> QED BY <2>4, <2>5, <2>6 DEF Shows
<1>7. CASE Len(old) < 2
  <2>1. /\ pc' = [pc EXCEPT ![h] = "idle"] /\ failed' = failed \cup {tab[h]}
        /\ UNCHANGED <<route, todo, token>>
    BY <1>7 DEF Pop, Goto
  <2>2. Shows'
    BY <1>6, <2>1
  <2>3. TypeOK' /\ ViewsTyped'
    BY <1>1, <1>2, <1>3, <1>5, <2>1, StepTyped
  <2> QED BY <2>2, <2>3 DEF ScreenInv
<1>8. CASE ~(Len(old) < 2)
  <2>1. /\ Go(h, new[Len(new)].name) /\ failed' = failed
    BY <1>8 DEF Pop
  <2>2. /\ new \in Seq(AView) /\ new # <<>> /\ new[Len(new)].name \in Names
        /\ Len(new) < Len(old) /\ \A i \in 1 .. Len(new) : new[i] = old[i]
    <3>1. old # <<>>
      BY <1>8
    <3>2. new = Front(old) /\ new \in Seq(AView) /\ Len(new) = Len(old) - 1
      BY <1>4, <1>5, <3>1
    <3>3. \A i \in 1 .. Len(Front(old)) : Front(old)[i] = old[i]
      BY <1>4, <3>1 DEF Front
    <3> HIDE DEF old, new
    <3>4. Len(new) \in 1 .. Len(new) /\ Len(new) < Len(old)
      BY <1>1, <1>8, <3>2
    <3>5. new[Len(new)] \in AView
      BY <3>2, <3>4
    <3> QED BY <3>2, <3>3, <3>4, <3>5 DEF AView
  <2>3. Right(tab[h]) => Right(tab[h])'
    <3>1. userdata' = userdata /\ tab' = tab
      BY <1>2
    <3>2. Len(old) \in Nat /\ Len(new) \in Nat
      BY <1>1, <2>2
    <3> QED BY <2>2, <3>1, <3>2 DEF Right
  <2>4. /\ todo' \in [Handler -> Routes]
        /\ \A g \in Handler : g # h => todo'[g] = todo[g]
        /\ token' = [token EXCEPT ![h] = NoToken]
        /\ route' \in [Tab -> Names \cup {NoRoute}]
        /\ \A t \in Tab : t # tab[h] => route'[t] = route[t]
        /\ \/ pc' = [pc EXCEPT ![h] = "route"] /\ todo'[h] # <<>>
           \/ pc' = [pc EXCEPT ![h] = "idle"] /\ todo'[h] = <<>>
    BY <2>1, <2>2, GoesOn
  <2>5. PICK l \in {"route", "idle"} :
           pc' = [pc EXCEPT ![h] = l] /\ (l = "route" <=> todo'[h] # <<>>)
    BY <2>4
  <2>6. Shows'
    BY <1>6, <2>1, <2>2, <2>3, <2>4, <2>5
  <2>7. TypeOK' /\ ViewsTyped'
    <3>1. /\ l \in Labels /\ l \notin {"store", "login", "get", "verify", "load", "remove"}
          /\ l \in {"route", "resolve"} <=> todo'[h] # <<>>
      BY <2>5
    <3>2. /\ failed' \in {failed, failed \cup {tab[h]}, failed \ {tab[h]}}
          /\ undrawn' \in {undrawn, undrawn \cup {tab[h]}, undrawn \ {tab[h]}}
          /\ token' \in {token, [token EXCEPT ![h] = NoToken], [token EXCEPT ![h] = storage]}
          /\ menu' \in {menu, menu \ {h}} /\ changed' \in {changed, changed \ {h}}
          /\ storage' \in {storage, NoToken} /\ UNCHANGED <<made, accepted, opened, tab>>
      BY <1>2, <2>1, <2>4
    <3>3. /\ userdata' \in [Tab -> User \cup {NoUser}] /\ known' \in [Tab -> SUBSET Names]
          /\ h \notin menu' /\ h \notin changed'
      BY <1>1, <1>2, <1>3
    <3> QED BY <1>5, <2>4, <2>5, <3>1, <3>2, <3>3, StepTyped
  <2> QED BY <2>6, <2>7 DEF ScreenInv
<1> QED BY <1>7, <1>8

\* The way to another view: route_change draws it.
LEMMA NavigateScreen ==
    ASSUME ScreenInv, NEW h \in Handler, NEW name \in Names, Navigate(h, name)
    PROVE  ScreenInv'
<1>1. /\ pc[h] = "idle" /\ Go(h, name) /\ Noticed(tab[h], name)
      /\ UNCHANGED <<storage, made, accepted, userdata, opened, views, known, tab, menu, changed,
                     failed, undrawn>>
  BY DEF Navigate, server
<1>2. /\ todo' \in [Handler -> Routes] /\ todo'[h] # <<>>
      /\ \A g \in Handler : g # h => todo'[g] = todo[g]
      /\ token' = [token EXCEPT ![h] = NoToken]
      /\ route' \in [Tab -> Names \cup {NoRoute}]
      /\ pc' = [pc EXCEPT ![h] = "route"]
      /\ \A t \in Tab : t # tab[h] => route'[t] = route[t]
  BY <1>1, GoesOn
<1>3. /\ userdata \in [Tab -> User \cup {NoUser}] /\ known \in [Tab -> SUBSET Names]
      /\ views \in [Tab -> Seq(AView)]
      /\ h \notin menu /\ h \notin changed
  BY <1>1 DEF ScreenInv, TypeOK, ViewsTyped, Reading
<1>4. TypeOK' /\ ViewsTyped'
  BY <1>1, <1>2, <1>3, StepTyped
<1>5. Shows'
  BY <1>1, <1>2, DrawsLater
<1> QED BY <1>4, <1>5 DEF ScreenInv

\* Tokens come and go without a change of the screen.
LEMMA CacheScreen ==
    ASSUME ScreenInv, NEW u \in User, Make(u) \/ \E T \in SUBSET accepted[u] : Withdraw(u, T)
    PROVE  ScreenInv'
<1>1. UNCHANGED <<storage, userdata, opened, route, views, known, tab, menu, pc, token, todo,
                  changed, failed, undrawn>>
  BY DEF Make, Withdraw, screen, handler
<1>2. /\ made \in [User -> 0 .. MaxTokens] /\ accepted \in [User -> SUBSET (1 .. MaxTokens)]
      /\ \A v \in User : accepted[v] \subseteq 1 .. made[v]
      /\ MaxTokens \in Nat
  BY BoundAssumption DEF ScreenInv, TypeOK
<1>3. /\ made' \in [User -> 0 .. MaxTokens] /\ accepted' \in [User -> SUBSET (1 .. MaxTokens)]
      /\ \A v \in User : accepted'[v] \subseteq 1 .. made'[v]
  <2>1. CASE Make(u)
    <3>1. /\ made[u] < MaxTokens /\ made' = [made EXCEPT ![u] = made[u] + 1]
          /\ accepted' = [accepted EXCEPT ![u] = accepted[u] \cup {made[u] + 1}]
      BY <2>1 DEF Make, Fresh
    <3>2. made[u] + 1 \in 1 .. MaxTokens /\ made'[u] = made[u] + 1
      BY <1>2, <3>1
    <3>3. 1 .. made[u] \subseteq 1 .. made'[u] /\ made[u] + 1 \in 1 .. made'[u]
      BY <1>2, <3>2
    <3>4. accepted[u] \cup {made[u] + 1} \subseteq 1 .. made'[u]
      BY <1>2, <3>3
    <3>5. accepted[u] \cup {made[u] + 1} \in SUBSET (1 .. MaxTokens)
      BY <1>2, <3>2
    <3>6. \A v \in User : v # u => made'[v] = made[v] /\ accepted'[v] = accepted[v]
      BY <1>2, <3>1
    <3>7. accepted'[u] = accepted[u] \cup {made[u] + 1}
      BY <1>2, <3>1
    <3>8. \A v \in User : accepted'[v] \subseteq 1 .. made'[v]
      BY <1>2, <3>4, <3>6, <3>7
    <3> QED BY <1>2, <3>1, <3>2, <3>5, <3>8
  <2>2. ASSUME NEW T \in SUBSET accepted[u], Withdraw(u, T)
        PROVE  /\ made' = made /\ accepted' \in [User -> SUBSET (1 .. MaxTokens)]
               /\ \A v \in User : accepted'[v] \subseteq accepted[v]
    BY <1>2, <2>2 DEF Withdraw
  <2> QED BY <1>2, <2>1, <2>2
<1>4. TypeOK'
  BY <1>1, <1>3 DEF ScreenInv, TypeOK, Reading
<1>5. ViewsTyped' /\ Shows'
  BY <1>1 DEF ScreenInv, ViewsTyped, Shows, SomethingShown, RouteIsShown, RightOrRedrawn, Comes,
              Right
<1> QED BY <1>4, <1>5 DEF ScreenInv

\* Every step preserves the invariant of the screen.
LEMMA NextScreen == ScreenInv /\ [Next]_vars => ScreenInv'
<1> SUFFICES ASSUME ScreenInv, [Next]_vars PROVE ScreenInv'
  OBVIOUS
<1>1. ASSUME NEW h \in Handler,
             Open(h) \/ LoginClick(h) \/ MenuLogin(h) \/ LogoutClick(h) \/ ViewPop(h)
      PROVE  ScreenInv'
  BY <1>1, EventScreen
<1>2. ASSUME NEW h \in Handler,
             AuthFails(h) \/ (\E u \in User : Authenticated(h, u)) \/ Store(h) \/ Logout(h)
      PROVE  ScreenInv'
  BY <1>2, AuthScreen
<1>3. ASSUME NEW h \in Handler,
             LoginBegins(h) \/ Get(h) \/ Verify(h) \/ Load(h) \/ RemoveToken(h)
      PROVE  ScreenInv'
  BY <1>3, LoginScreen
<1>4. ASSUME NEW h \in Handler,
             \/ Forget(h) \/ RouteChange(h) \/ Resolve(h) \/ Pop(h)
             \/ \E name \in Names : Navigate(h, name)
      PROVE  ScreenInv'
  BY <1>4, RouteScreen, PopScreen, NavigateScreen
<1>5. ASSUME NEW u \in User, Make(u) \/ \E T \in SUBSET accepted[u] : Withdraw(u, T)
      PROVE  ScreenInv'
  BY <1>5, CacheScreen
<1>6. CASE UNCHANGED vars
  <2>1. UNCHANGED <<storage, made, accepted, userdata, opened, route, views, known, tab, menu, pc,
                    token, todo, changed, failed, undrawn>>
    BY <1>6 DEF vars, server, screen, handler
  <2>2. TypeOK'
    BY <2>1 DEF ScreenInv, TypeOK, Reading
  <2> QED BY <2>1, <2>2 DEF ScreenInv, ViewsTyped, Shows, SomethingShown, RouteIsShown,
                            RightOrRedrawn, Comes, Right
<1> QED BY <1>1, <1>2, <1>3, <1>4, <1>5, <1>6 DEF Next

-----------------------------------------------------------------------------
(* The tokens.                                                             *)

\* What these pages see of the tokens of a user is what LoginTokens promises: every
\* login, refusal and removal of the tabs is a step of it or leaves it alone.
THEOREM TokensAsPromised == ASSUME NEW u \in User PROVE Spec => Tokens(u)!Spec
<1>1. Init => Tokens(u)!Init
  BY DEF Init, Tokens!Init
<1>2. ASSUME ScreenInv, [Next]_vars PROVE [Tokens(u)!Next]_(Tokens(u)!vars)
  <2> USE DEF Tokens!vars
  <2>1. /\ made \in [User -> 0 .. MaxTokens]
        /\ accepted \in [User -> SUBSET (1 .. MaxTokens)]
    BY <1>2 DEF ScreenInv, TypeOK
  <2>2. CASE UNCHANGED server
    BY <2>2 DEF server
  <2>3. ASSUME NEW v \in User, Make(v) PROVE [Tokens(u)!Next]_(Tokens(u)!vars)
    <3>1. /\ made' = [made EXCEPT ![v] = made[v] + 1]
          /\ accepted' = [accepted EXCEPT ![v] = accepted[v] \cup {made[v] + 1}]
      BY <2>3 DEF Make, Fresh
    <3>2. CASE u = v
      BY <2>1, <3>1, <3>2 DEF Tokens!Next, Tokens!Make
    <3>3. CASE u # v
      BY <2>1, <3>1, <3>3
    <3> QED BY <3>2, <3>3
  <2>4. ASSUME NEW v \in User, NEW T \in SUBSET accepted[v], Withdraw(v, T)
        PROVE  [Tokens(u)!Next]_(Tokens(u)!vars)
    <3>1. made' = made /\ accepted' = [accepted EXCEPT ![v] = accepted[v] \ T]
      BY <2>4 DEF Withdraw
    <3>2. CASE u = v
      BY <2>1, <3>1, <3>2 DEF Tokens!Next, Tokens!Withdraw
    <3>3. CASE u # v
      BY <2>1, <3>1, <3>3
    <3> QED BY <3>2, <3>3
  <2>5. ASSUME NEW h \in Handler,
               \/ Open(h) \/ LoginClick(h) \/ MenuLogin(h) \/ LogoutClick(h) \/ ViewPop(h)
               \/ AuthFails(h) \/ (\E v \in User : Authenticated(h, v)) \/ Store(h)
               \/ LoginBegins(h) \/ Get(h) \/ Verify(h) \/ Load(h) \/ RemoveToken(h)
               \/ Logout(h) \/ Forget(h)
               \/ RouteChange(h) \/ Resolve(h) \/ Pop(h)
               \/ \E name \in Names : Navigate(h, name)
        PROVE  UNCHANGED server
    BY <2>5 DEF Navigate, Open, LoginClick, MenuLogin, LogoutClick, ViewPop, Start, AuthFails, Authenticated,
                Store, LoginBegins, Get, Verify, Load, RemoveToken, Logout, Forget, RouteChange,
                Resolve, Pop
  <2>6. UNCHANGED vars => UNCHANGED server
    BY DEF vars
  <2> QED BY <1>2, <2>2, <2>3, <2>4, <2>5, <2>6 DEF Next
<1>3. Init => ScreenInv
  BY InitScreen
<1>4. ScreenInv /\ [Next]_vars => ScreenInv'
  BY NextScreen
<1>5. QED BY <1>1, <1>2, <1>3, <1>4, PTL DEF Spec, Tokens!Spec

\* Nor do they presume more: whatever LoginTokens may do with the tokens of a user,
\* while the pages and the other users do nothing, is a step of the model, up to the
\* bound on the number of tokens.
THEOREM NoMorePresumed ==
    ASSUME TypeOK, NEW u \in User, Tokens(u)!Next,
           made' = [made EXCEPT ![u] = made'[u]], made'[u] <= MaxTokens,
           accepted' = [accepted EXCEPT ![u] = accepted'[u]],
           UNCHANGED <<storage, userdata, screen, handler, changed, spoiled>>
    PROVE  Next
<1>1. made[u] \in Nat /\ MaxTokens \in Nat /\ made \in [User -> 0 .. MaxTokens]
  BY BoundAssumption DEF TypeOK
<1>2. CASE Tokens(u)!Make
  <2>1. made'[u] = made[u] + 1 /\ accepted'[u] = accepted[u] \cup {made[u] + 1}
    BY <1>2 DEF Tokens!Make
  <2>2. made[u] < MaxTokens
    BY <1>1, <2>1
  <2> QED BY <2>1, <2>2 DEF Make, Fresh, Next
<1>3. CASE \E T \in SUBSET accepted[u] : Tokens(u)!Withdraw(T)
  <2>1. PICK T \in SUBSET accepted[u] : Tokens(u)!Withdraw(T)
    BY <1>3
  <2>2. accepted'[u] = accepted[u] \ T /\ made'[u] = made[u]
    BY <2>1 DEF Tokens!Withdraw
  <2>3. made' = made
    BY <1>1, <2>2
  <2> QED BY <2>2, <2>3 DEF Withdraw, Next
<1> QED BY <1>2, <1>3 DEF Tokens!Next

-----------------------------------------------------------------------------
(* The theorems about the screen.                                          *)

\* Every variable has its type in every reachable state.
THEOREM TypeCorrect == Spec => []TypeOK
<1>1. Init => ScreenInv
  BY InitScreen
<1>2. ScreenInv /\ [Next]_vars => ScreenInv'
  BY NextScreen
<1>3. ScreenInv => TypeOK
  BY DEF ScreenInv
<1>4. QED BY <1>1, <1>2, <1>3, PTL DEF Spec

\* When route_change, view_pop, login and logout_click of a tab are done, it has views,
\* and its main view offers the chat if and only if ChatApp.userdata is set, however
\* many of them overlapped: unless, since route_change was last run, view_pop or login
\* has failed or what follows login has gone to the route the tab was at (page.go,
\* which does nothing then).
THEOREM ScreenIsRight == Spec => []ScreenMatches
<1>1. Init => ScreenInv
  BY InitScreen
<1>2. ScreenInv /\ [Next]_vars => ScreenInv'
  BY NextScreen
<1>3. ScreenInv => ScreenMatches
  <2> SUFFICES ASSUME ScreenInv, NEW t \in Tab, t \in opened, Free(t), t \notin failed
               PROVE  /\ views[t] # <<>>
                      /\ Top(t).name = "main" /\ t \notin undrawn =>
                            (Top(t).chat <=> userdata[t] # NoUser)
    BY DEF ScreenMatches
  <2>1. ~Comes(t, Drawing) /\ ~Comes(t, Redrawing)
    BY DEF Free, Comes
  <2>2. views[t] # <<>> /\ (t \notin undrawn => Right(t))
    BY <2>1 DEF ScreenInv, Shows, SomethingShown, RightOrRedrawn
  <2>3. views[t] \in Seq(AView)
    BY DEF ScreenInv, ViewsTyped
  <2>4. Len(views[t]) \in 1 .. Len(views[t])
    BY <2>2, <2>3
  <2>5. t \notin undrawn => Fits(Top(t), userdata[t])
    BY <2>2, <2>4 DEF Right, Top, Last
  <2> QED BY <2>2, <2>5 DEF Fits
<1>4. QED BY <1>1, <1>2, <1>3, PTL DEF Spec

=============================================================================
