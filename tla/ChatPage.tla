------------------------------ MODULE ChatPage ------------------------------
(***************************************************************************)
(* The pages of the chat application (chatbone/chat/app.py).  A browser    *)
(* has several tabs, each with a ChatApp of its own: the user logged in,   *)
(* and the views on the screen.  All tabs share the browser's storage,     *)
(* where "encrypted_token" is kept.  Every event of a tab runs a handler;  *)
(* handlers, of one tab or of several, interleave wherever they await.     *)
(*                                                                         *)
(* Of the cache the pages are told no more than LoginTokens promises of    *)
(* each user, which is what UserCache implements: tokens are made and      *)
(* withdrawn at any time, by these pages or by those of other browsers,    *)
(* and a token that was withdrawn stays so.                                *)
(*                                                                         *)
(* The page is flet's: it takes a change of the route for an event only if *)
(* the route is another one than the last.                                 *)
(***************************************************************************)
EXTENDS Integers, Sequences, SequencesExt

CONSTANTS
    Tab,          \* the tabs of one browser
    Handler,      \* the handlers that may run at the same time
    User,         \* the users who log in
    NoUser,
    MaxTokens     \* bound: encrypted tokens of a user

ASSUME UserAssumption  == NoUser \notin User
ASSUME BoundAssumption == MaxTokens \in Nat \ {0}

VARIABLES
    storage,      \* "encrypted_token" in the browser's storage, or NoToken
    made,         \* per user: number of encrypted tokens made so far
    accepted,     \* per user: those that verify_encrypted_token accepts
    userdata,     \* per tab: who is logged in
    opened,       \* the tabs that were opened
    route,        \* per tab: the view of the last route that flet has seen, or NoRoute
    views,        \* per tab: page.views; a main view has chat controls or not
    known,        \* per tab: route2viewname
    tab,          \* per handler: the tab it belongs to
    menu,         \* the handlers that run MainView.login_click
    pc,           \* per handler: what it does next
    token,        \* per handler: the token it stores, or has read
    todo,         \* per handler: the views it has still to append
    changed,      \* history: handlers since whose get another one has stored
    failed,       \* history: tabs where view_pop or login has ended with an
                  \* exception, and route_change has not drawn the views since
    undrawn       \* history: tabs where what follows login has gone to the route
                  \* they were at, and route_change has not drawn the views since

server  == <<made, accepted>>
screen  == <<opened, route, views, known>>
handler == <<tab, menu, pc, token, todo>>
spoiled == <<failed, undrawn>>
vars    == <<storage, server, userdata, screen, handler, changed, spoiled>>

-----------------------------------------------------------------------------
Token   == User \X (1 .. MaxTokens)
NoToken == <<NoUser, 0>>
Labels  == {"idle", "auth", "store", "login", "get", "verify", "load", "remove",
            "logout", "forget", "route", "resolve", "pop"}
Names   == {"main", "login", "signup"}
NoRoute == "none"

\* A token that verify_encrypted_token accepts.
Live(tk) == tk # NoToken /\ tk[2] \in accepted[tk[1]]

Init ==
    /\ storage  = NoToken
    /\ made     = [u \in User |-> 0]
    /\ accepted = [u \in User |-> {}]
    /\ userdata = [t \in Tab |-> NoUser]
    /\ route    = [t \in Tab |-> NoRoute]
    /\ views    = [t \in Tab |-> <<>>]
    /\ known    = [t \in Tab |-> {}]
    /\ tab      \in [Handler -> Tab]
    /\ menu     = {}
    /\ opened   = {}
    /\ pc       = [h \in Handler |-> "idle"]
    /\ token    = [h \in Handler |-> NoToken]
    /\ todo     = [h \in Handler |-> <<>>]
    /\ changed  = {}
    /\ failed   = {}
    /\ undrawn  = {}

Goto(h, label) == pc' = [pc EXCEPT ![h] = label]
Hold(h, tk)    == token' = [token EXCEPT ![h] = tk]

\* Variant of Path: both empty parts of "/" are taken away.
PathAlone(name) == IF name = "main" THEN <<>> ELSE <<name>>

\* The route of a handler that goes on to a view.
Path(name) == IF name = "main" THEN <<"main">> ELSE <<"main", name>>

Free(t) == \A h \in Handler : tab[h] = t => pc[h] = "idle"

-----------------------------------------------------------------------------
(* Views.                                                                  *)

View(name, user) == [name |-> name, chat |-> name = "main" /\ user # NoUser]

Top(t) == Last(views[t])

\* The view names at the head of todo that need no look at the configuration.
Ready(todos, names) ==
    CHOOSE n \in 0 .. Len(todos) :
        /\ \A i \in 1 .. n : todos[i] \in names
        /\ n < Len(todos) => todos[n + 1] \notin names

\* route_change appends views until it is done or has to look one up in a thread.
Show(h, shown, todos, names, user) ==
    LET n == Ready(todos, names) IN
    /\ views' = [views EXCEPT ![tab[h]] =
                    shown \o [i \in 1 .. n |-> View(todos[i], user)]]
    /\ todo'  = [todo EXCEPT ![h] = SubSeq(todos, n + 1, Len(todos))]
    /\ Goto(h, IF n = Len(todos) THEN "idle" ELSE "resolve")

\* flet takes no notice of a route that is the last one.
Noticed(t, name) == name # route[t]

\* page.go, if it is noticed, starts a handler for the route; the present one is at
\* its end.
Go(h, name) ==
    /\ route' = [route EXCEPT ![tab[h]] = name]
    /\ Goto(h, IF Noticed(tab[h], name) THEN "route" ELSE "idle")
    /\ todo'  = [todo EXCEPT ![h] = IF Noticed(tab[h], name) THEN Path(name) ELSE <<>>]
    /\ Hold(h, NoToken)

RouteChange(h) ==
    /\ pc[h] = "route"
    /\ Show(h, <<>>, todo[h], known[tab[h]], userdata[tab[h]])
    /\ failed'  = failed \ {tab[h]}
    /\ undrawn' = undrawn \ {tab[h]}
    /\ UNCHANGED <<storage, server, userdata, opened, route, known, tab, menu, token, changed>>

Resolve(h) ==
    /\ pc[h] = "resolve"
    /\ known' = [known EXCEPT ![tab[h]] = @ \cup {Head(todo[h])}]
    /\ Show(h, views[tab[h]], todo[h], known'[tab[h]], userdata[tab[h]])
    /\ UNCHANGED <<storage, server, userdata, opened, route, tab, menu, token, changed, spoiled>>

\* view_pop; views[-1] of an empty list raises.
Pop(h) ==
    /\ pc[h] = "pop"
    /\ views' = [views EXCEPT ![tab[h]] = IF @ = <<>> THEN @ ELSE Front(@)]
    /\ IF Len(views[tab[h]]) < 2
          THEN /\ Goto(h, "idle")
               /\ failed' = failed \cup {tab[h]}
               /\ UNCHANGED <<route, todo, token>>
          ELSE /\ Go(h, views'[tab[h]][Len(views'[tab[h]])].name)
               /\ UNCHANGED failed
    /\ UNCHANGED <<storage, server, userdata, opened, known, tab, menu, changed, undrawn>>

-----------------------------------------------------------------------------
(* Events.                                                                 *)

\* An event of the tab; its handler runs on its own.
Start(h, label) ==
    /\ pc[h] = "idle"
    /\ Goto(h, label)
    /\ UNCHANGED <<storage, server, userdata, route, views, known, tab, token, todo, changed,
                   spoiled>>

\* ChatApp.main: the tab is opened.
Open(h) ==
    /\ tab[h] \notin opened
    /\ opened' = opened \cup {tab[h]}
    /\ Start(h, "login")
    /\ UNCHANGED menu

Shown(h) == tab[h] \in opened /\ views[tab[h]] # <<>>

\* The buttons of LoginView and MainView, and the way back.
LoginClick(h)  == Shown(h) /\ Top(tab[h]).name = "login" /\ Start(h, "auth") /\ UNCHANGED <<opened, menu>>
LogoutClick(h) == Shown(h) /\ Top(tab[h]).chat /\ Start(h, "logout") /\ UNCHANGED <<opened, menu>>
ViewPop(h)     == Shown(h) /\ Len(views[tab[h]]) > 1 /\ Start(h, "pop") /\ UNCHANGED <<opened, menu>>

MenuLogin(h) ==
    /\ Shown(h) /\ Top(tab[h]) = View("main", NoUser)
    /\ Start(h, "login")
    /\ menu' = menu \cup {h}
    /\ UNCHANGED opened

\* The buttons from view to view, and the browser's back and forward.
Navigate(h, name) ==
    /\ Shown(h) /\ pc[h] = "idle"
    /\ Noticed(tab[h], name)
    /\ Go(h, name)
    /\ UNCHANGED <<storage, server, userdata, opened, views, known, tab, menu, changed, spoiled>>

-----------------------------------------------------------------------------
(* LoginView.login_click                                                   *)

\* The auth service refuses (HTTPException), or something else fails; the page,
\* but for a line of text, is as it was.
AuthFails(h) ==
    /\ pc[h] = "auth"
    /\ Goto(h, "idle")
    /\ UNCHANGED <<storage, server, userdata, screen, tab, menu, token, todo, changed, spoiled>>

\* save and get_encrypted_token (see UserCache): the token that is recorded for the
\* user, one that this login has made or an older one, which may be dead by now.
Authenticated(h, u) ==
    /\ pc[h] = "auth"
    /\ \E n \in 1 .. made[u] : Hold(h, <<u, n>>)
    /\ Goto(h, "store")
    /\ UNCHANGED <<storage, server, userdata, screen, tab, menu, todo, changed, spoiled>>

Reading == {h \in Handler : pc[h] \in {"verify", "load", "remove"}}

\* client_storage.set_async
Store(h) ==
    /\ pc[h] = "store"
    /\ storage' = token[h]
    /\ changed' = changed \cup Reading
    /\ Goto(h, "login")
    /\ UNCHANGED <<server, userdata, screen, tab, menu, token, todo, spoiled>>

-----------------------------------------------------------------------------
(* ChatApp.login                                                           *)

Forgets(h) == [userdata EXCEPT ![tab[h]] = NoUser]

LoginBegins(h) ==
    /\ pc[h] = "login"
    /\ userdata' = Forgets(h)
    /\ Goto(h, "get")
    /\ UNCHANGED <<storage, server, screen, tab, menu, token, todo, changed, spoiled>>

\* What follows login(): MainView.login_click looks at userdata.
AfterLogin(h, user) ==
    LET name == IF h \in menu /\ user = NoUser THEN "login" ELSE "main" IN
    /\ Go(h, name)
    /\ menu' = menu \ {h}
    /\ undrawn' = IF Noticed(tab[h], name) THEN undrawn ELSE undrawn \cup {tab[h]}

\* client_storage.get_async
Get(h) ==
    /\ pc[h] = "get"
    /\ changed' = changed \ {h}
    /\ \/ /\ storage = NoToken
          /\ AfterLogin(h, userdata[tab[h]])
       \/ /\ storage # NoToken
          /\ Hold(h, storage)
          /\ Goto(h, "verify")
          /\ UNCHANGED <<route, todo, menu, undrawn>>
    /\ UNCHANGED <<storage, server, userdata, opened, views, known, tab, failed>>

\* verify_encrypted_token: the secret is gone (EncryptedTokenError).
Refused(h) == ~Live(token[h])

Verify(h) ==
    /\ pc[h] = "verify"
    /\ Goto(h, IF Refused(h) THEN "remove" ELSE "load")
    /\ UNCHANGED <<storage, server, userdata, screen, tab, menu, token, todo, changed, spoiled>>

\* verify_encrypted_token: the user's document is loaded; if it is gone, be the
\* token accepted or not, a KeyError leaves login() and the handler.
Load(h) ==
    LET user == token[h][1] IN
    /\ pc[h] = "load"
    /\ \/ /\ userdata' = [userdata EXCEPT ![tab[h]] = user]
          /\ AfterLogin(h, user)
          /\ UNCHANGED failed
       \/ /\ Goto(h, "idle")
          /\ Hold(h, NoToken)
          /\ failed' = failed \cup {tab[h]}
          /\ menu' = menu \ {h}
          /\ UNCHANGED <<userdata, route, todo, undrawn>>
    /\ changed' = changed \ {h}
    /\ UNCHANGED <<storage, server, opened, views, known, tab>>

\* client_storage.remove_async, whatever is there by now.
RemoveToken(h) ==
    /\ pc[h] = "remove"
    /\ storage' = NoToken
    /\ changed' = changed \ {h}
    /\ AfterLogin(h, userdata[tab[h]])
    /\ UNCHANGED <<server, userdata, opened, views, known, tab, failed>>

-----------------------------------------------------------------------------
(* MainView.logout_click                                                   *)

Logout(h) ==
    /\ pc[h] = "logout"
    /\ storage' = NoToken
    /\ Goto(h, "forget")
    /\ UNCHANGED <<server, userdata, screen, tab, menu, token, todo, changed, spoiled>>

\* Variant of Redraw: the main view is shown before the user is forgotten.
RedrawBefore(h) == Show(h, <<>>, Path("main"), known[tab[h]], userdata[tab[h]])

\* route_change is awaited, not gone to.
Redraw(h) == Show(h, <<>>, Path("main"), known[tab[h]], NoUser)

Forget(h) ==
    /\ pc[h] = "forget"
    /\ userdata' = Forgets(h)
    /\ Redraw(h)
    /\ failed'  = failed \ {tab[h]}
    /\ undrawn' = undrawn \ {tab[h]}
    /\ UNCHANGED <<storage, server, opened, route, known, tab, menu, token, changed>>

-----------------------------------------------------------------------------
(* The tokens of a user (see UserCache).                                   *)

\* Variant of Fresh: the same secret again, so the same encrypted token.
FreshOnce(u) == 1

\* A token encrypted with a secret of its own is like no other.
Fresh(u) == made[u] + 1

\* get_encrypted_token of some login of the user, here or in another browser.
Make(u) ==
    /\ made[u] < MaxTokens
    /\ made'     = [made EXCEPT ![u] = @ + 1]
    /\ accepted' = [accepted EXCEPT ![u] = @ \cup {Fresh(u)}]
    /\ UNCHANGED <<storage, userdata, screen, handler, changed, spoiled>>

\* The secrets of some tokens expire or are deleted.
Withdraw(u, T) ==
    /\ accepted' = [accepted EXCEPT ![u] = @ \ T]
    /\ UNCHANGED <<storage, made, userdata, screen, handler, changed, spoiled>>

\* The tokens of one user, as LoginTokens has them.
Tokens(u) == INSTANCE LoginTokens WITH made <- made[u], accepted <- accepted[u]

Next ==
    \/ \E h \in Handler :
          \/ Open(h) \/ LoginClick(h) \/ MenuLogin(h) \/ LogoutClick(h) \/ ViewPop(h)
          \/ \E name \in Names : Navigate(h, name)
          \/ AuthFails(h) \/ (\E u \in User : Authenticated(h, u)) \/ Store(h)
          \/ LoginBegins(h) \/ Get(h) \/ Verify(h) \/ Load(h) \/ RemoveToken(h)
          \/ Logout(h) \/ Forget(h)
          \/ RouteChange(h) \/ Resolve(h) \/ Pop(h)
    \/ \E u \in User : Make(u) \/ \E T \in SUBSET accepted[u] : Withdraw(u, T)

Spec == Init /\ [][Next]_vars

-----------------------------------------------------------------------------
(* Properties.                                                             *)

\* Types; what a handler holds belongs to its step.
TypeOK ==
    /\ storage  \in Token \cup {NoToken}
    /\ made     \in [User -> 0 .. MaxTokens]
    /\ accepted \in [User -> SUBSET (1 .. MaxTokens)]
    /\ \A u \in User : accepted[u] \subseteq 1 .. made[u]
    /\ userdata \in [Tab -> User \cup {NoUser}]
    /\ route    \in [Tab -> Names \cup {NoRoute}]
    /\ \A t \in Tab : \A i \in DOMAIN views[t] :
          views[t][i] \in [name : Names, chat : BOOLEAN]
    /\ known    \in [Tab -> SUBSET Names]
    /\ tab      \in [Handler -> Tab]
    /\ menu \in SUBSET {h \in Handler : pc[h] \in {"login", "get", "verify", "load", "remove"}}
    /\ opened   \in SUBSET Tab
    /\ pc       \in [Handler -> Labels]
    /\ token    \in [Handler -> Token \cup {NoToken}]
    /\ \A h \in Handler : pc[h] \in {"store", "verify", "load", "remove"} => token[h] # NoToken
    /\ \A h \in Handler : pc[h] \in {"route", "resolve"} <=> todo[h] # <<>>
    /\ changed \in SUBSET Reading
    /\ failed \in SUBSET Tab /\ undrawn \in SUBSET Tab

\* When the handlers of a tab are done the screen shows something, and the main
\* view offers the chat if and only if somebody is logged in, in whatever order
\* logins, logouts, routes and look-ups overlapped; a view_pop or a login that
\* failed spoils the screen no longer than until the next route, and so does a
\* login that found the tab at the route it goes to, which draws nothing.
ScreenMatches ==
    \A t \in Tab : t \in opened /\ Free(t) /\ t \notin failed =>
        /\ views[t] # <<>>
        /\ Top(t).name = "main" /\ t \notin undrawn =>
              (Top(t).chat <=> userdata[t] # NoUser)

\* A login removes from the storage the token that was refused to it, not one
\* that works, unless another tab has stored one since it read the storage.
OnlyRefusedRemoved ==
    \A h \in Handler : pc[h] = "remove" /\ h \notin changed => ~Live(storage)

=============================================================================
