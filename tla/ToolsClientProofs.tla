------------------------- MODULE ToolsClientProofs -------------------------
(***************************************************************************)
(* Proofs about ToolsClient, for any number of contexts and apps and any   *)
(* lists of apps that the contexts ask for.                                *)
(***************************************************************************)
EXTENDS ToolsClient, TLAPS

\* As long as a connection is on the stack somebody is there to close it.
StackHasCloser == stack # <<>> => \E c \in Ctx : Active(c)

\* What is in the dictionaries is there for a context that has not left.
DictionariesInUse ==
    clients # Nobody \/ tools # Nolist => \E c \in Ctx : Using(c)

\* A context has no list of tools before its loading is finished.
Before(c) == pc[c] \in {"idle", "connect", "load"}

ListsAreLoaded ==
    \A c \in Ctx : Before(c) =>
        \A a \in App : prefixed[<<c, a>>] = 0 /\ (tools[a] # NoList => tools[a].by # c)

\* A context that was alone all the time is alone now, and the client object is its own.
Alone(c) == Active(c) /\ c \notin overlapped

Own(c) == {conn \in Range(stack) : conn[1] = c}

AloneOwnsAll ==
    \A c \in Ctx : Alone(c) =>
        /\ \A d \in Ctx : d # c => ~Active(d)
        /\ Using(c)   => \A a \in App : clients[a] = NoConn \/ clients[a] = <<c, a>>
        /\ Using(c)   => \A a \in App : clients[a] # NoConn => clients[a] \in Range(stack)
        /\ Before(c)  => tools = Nolist
        /\ pc[c] = "load" => loading[c] \subseteq Own(c)

IInv == /\ TypeOK /\ StackHasCloser /\ DictionariesInUse
        /\ ListsAreLoaded /\ AloneOwnsAll /\ AloneGetsItsOwn

-----------------------------------------------------------------------------
\* The connections on the stack after a push.
LEMMA RangeOfAppend ==
    ASSUME NEW S, NEW s \in Seq(S), NEW x \in S
    PROVE  /\ Append(s, x) \in Seq(S) /\ Append(s, x) # <<>>
           /\ Range(Append(s, x)) = Range(s) \cup {x}
<1>1. Append(s, x) \in Seq(S) /\ Len(Append(s, x)) = Len(s) + 1 /\ Len(s) \in Nat
  OBVIOUS
<1>2. Append(s, x)[Len(s) + 1] = x /\ \A i \in 1 .. Len(s) : Append(s, x)[i] = s[i]
  OBVIOUS
<1>3. DOMAIN Append(s, x) = 1 .. Len(s) + 1 /\ DOMAIN s = 1 .. Len(s)
  BY <1>1
<1>4. Range(Append(s, x)) \subseteq Range(s) \cup {x}
  <2> SUFFICES ASSUME NEW i \in 1 .. Len(s) + 1 PROVE Append(s, x)[i] \in Range(s) \cup {x}
    BY <1>3 DEF Range
  <2>1. i \in 1 .. Len(s) \/ i = Len(s) + 1
    BY <1>1
  <2> QED BY <1>2, <1>3, <2>1 DEF Range
<1>5. Range(s) \cup {x} \subseteq Range(Append(s, x))
  <2>1. ASSUME NEW i \in 1 .. Len(s) PROVE s[i] \in Range(Append(s, x))
    <3>1. i \in 1 .. Len(s) + 1
      BY <1>1
    <3> QED BY <1>2, <1>3, <3>1 DEF Range
  <2>2. x \in Range(Append(s, x))
    <3>1. Len(s) + 1 \in 1 .. Len(s) + 1
      BY <1>1
    <3> QED BY <1>2, <1>3, <3>1 DEF Range
  <2> QED BY <1>3, <2>1, <2>2 DEF Range
<1>6. Append(s, x) # <<>>
  BY <1>1
<1> QED BY <1>1, <1>4, <1>5, <1>6

\* A sequence is empty if its length is 0.
LEMMA EmptyIffNoLength == ASSUME NEW S, NEW s \in Seq(S) PROVE s = <<>> <=> Len(s) = 0
OBVIOUS

\* The last connection of the stack, and what is left of it.
LEMMA FrontAndLast ==
    ASSUME NEW S, NEW s \in Seq(S), s # <<>>
    PROVE  Front(s) \in Seq(S) /\ Last(s) \in S
<1>1. Len(s) \in Nat /\ Len(s) # 0 /\ \A i \in 1 .. Len(s) : s[i] \in S
  OBVIOUS
<1>2. Len(s) \in 1 .. Len(s)
  BY <1>1
<1>3. SubSeq(s, 1, Len(s) - 1) \in Seq(S)
  BY <1>1
<1> QED BY <1>1, <1>2, <1>3 DEF Front, Last

-----------------------------------------------------------------------------
(* One lemma per action.                                                   *)

\* Nobody has entered in the beginning.
LEMMA InitIInv == Init => IInv
<1> SUFFICES ASSUME Init PROVE IInv
  OBVIOUS
<1> USE DEF Init
<1>1. TypeOK
  <2>1. clients \in [App -> Conn \cup {NoConn}] /\ tools \in [App -> List \cup {NoList}]
    BY DEF Nobody, Nolist
  <2>2. todo \in [Ctx -> Seq(App)] /\ stack \in Seq(Conn) /\ \A c \in Ctx : todo[c] = <<>>
    OBVIOUS
  <2>3. prefixed \in [Conn -> Nat] /\ closing \in [Ctx -> Conn \cup {NoConn}]
    OBVIOUS
  <2> QED BY <2>1, <2>2, <2>3 DEF TypeOK, Labels
<1>2. \A c \in Ctx : ~Active(c) /\ pc[c] # "body"
  BY DEF Active
<1>3. ListsAreLoaded
  BY DEF ListsAreLoaded, Conn, Nolist
<1> QED BY <1>1, <1>2, <1>3 DEF IInv, StackHasCloser, DictionariesInUse, AloneOwnsAll, Alone,
           AloneGetsItsOwn

\* A context is entered: if it is alone, nothing is left for it to find.
LEMMA StartStep ==
    ASSUME IInv, NEW c \in Ctx, NEW w \in Wishes, Start(c, w)
    PROVE  IInv'
<1> USE DEF IInv, Start, Goto, shared
<1>1. w \in Seq(App) /\ w # <<>>
  BY WishAssumption
<1>2. /\ \A d \in Ctx : d # c => pc'[d] = pc[d]
      /\ pc[c] = "idle" /\ pc'[c] = "connect"
      /\ pc' \in [Ctx -> Labels]
  BY DEF TypeOK, Labels
<1>3. /\ todo' \in [Ctx -> Seq(App)] /\ todo'[c] = w
      /\ \A d \in Ctx : d # c => todo'[d] = todo[d]
  BY <1>1 DEF TypeOK
<1>4. overlapped' \in SUBSET Ctx /\ overlapped \subseteq overlapped'
  BY DEF TypeOK
<1>5. TypeOK'
  <2>1. \A d \in Ctx : pc'[d] = "connect" <=> todo'[d] # <<>>
    BY <1>1, <1>2, <1>3 DEF TypeOK
  <2>2. \A d \in Ctx : got'[d] # {} => pc'[d] = "body"
    BY <1>2 DEF TypeOK
  <2>3. \A d \in Ctx : closing'[d] # NoConn <=> pc'[d] = "closing"
    BY <1>2 DEF TypeOK
  <2> QED BY <1>2, <1>3, <1>4, <2>1, <2>2, <2>3 DEF TypeOK
<1>6. StackHasCloser' /\ DictionariesInUse'
  BY <1>2 DEF StackHasCloser, DictionariesInUse, Active, Using
<1>7. ListsAreLoaded'
  BY <1>2 DEF ListsAreLoaded, Before
<1>8. \A d \in Ctx : Alone(d)' => \A e \in Ctx : e # d => ~Active(e)'
  <2> SUFFICES ASSUME NEW d \in Ctx, Alone(d)', NEW e \in Ctx, e # d, Active(e)'
               PROVE  FALSE
    OBVIOUS
  <2>1. CASE \E f \in Ctx : Active(f)
    <3>1. overlapped' = overlapped \cup {f \in Ctx : Active(f)} \cup {c}
      BY <2>1
    <3>2. d # c /\ ~Active(d)
      BY <3>1 DEF Alone
    <3> QED BY <1>2, <3>2 DEF Alone, Active
  <2>2. CASE ~\E f \in Ctx : Active(f)
    BY <1>2, <2>2 DEF Alone, Active
  <2> QED BY <2>1, <2>2
<1>9. ASSUME NEW d \in Ctx, Alone(d)' PROVE d = c /\ clients = Nobody /\ tools = Nolist
  <2>1. d = c
    BY <1>2, <1>8, <1>9 DEF Active
  <2>2. \A e \in Ctx : ~Active(e)
    BY <1>2, <1>8, <1>9, <2>1 DEF Active
  <2> QED BY <2>1, <2>2 DEF DictionariesInUse, Using, Active
<1>10. AloneOwnsAll'
  <2> SUFFICES ASSUME NEW d \in Ctx, Alone(d)'
               PROVE  /\ \A a \in App : clients[a] = NoConn
                      /\ tools' = Nolist
                      /\ pc'[d] # "load"
    BY <1>8 DEF AloneOwnsAll, Own
  <2> QED BY <1>2, <1>9 DEF Nobody
<1>11. AloneGetsItsOwn'
  <2> SUFFICES ASSUME NEW d \in Ctx, pc'[d] = "body", d \notin overlapped' PROVE FALSE
    BY DEF AloneGetsItsOwn
  <2> QED BY <1>2, <1>9 DEF Alone, Active
<1> QED BY <1>5, <1>6, <1>7, <1>10, <1>11

\* An app is connected to: the connection is pushed and entered in the dictionary.
LEMMA ConnectStep ==
    ASSUME IInv, NEW c \in Ctx, Connect(c)
    PROVE  IInv'
<1> USE DEF IInv
<1> DEFINE app  == Head(todo[c])
           conn == <<c, app>>
<1>1. pc[c] = "connect" /\ todo[c] \in Seq(App) /\ todo[c] # <<>>
  BY DEF TypeOK, Connect
<1>2. app \in App /\ conn \in Conn /\ Tail(todo[c]) \in Seq(App)
  BY <1>1 DEF Conn
<1>3. Len(todo[c]) = 1 <=> Tail(todo[c]) = <<>>
  <2> DEFINE s == todo[c]
  <2>1. s \in Seq(App) /\ s # <<>>
    BY <1>1
  <2> HIDE DEF s
  <2>2. Len(Tail(s)) = Len(s) - 1 /\ Len(s) \in Nat /\ Tail(s) \in Seq(App)
    BY <2>1
  <2>3. Tail(s) = <<>> <=> Len(Tail(s)) = 0
    BY <2>2, EmptyIffNoLength
  <2>4. Len(s) = 1 <=> Tail(s) = <<>>
    BY <2>2, <2>3
  <2> QED BY <2>4 DEF s
<1>4. /\ stack' = Append(stack, conn)
      /\ clients' = [clients EXCEPT ![app] = conn]
      /\ todo' = [todo EXCEPT ![c] = Tail(todo[c])]
      /\ UNCHANGED <<got, closing, tools, prefixed, overlapped>>
  BY DEF Rest, Connect
<1>5. \/ /\ Tail(todo[c]) = <<>>
         /\ pc' = [pc EXCEPT ![c] = "load"]
         /\ loading' = [loading EXCEPT ![c] = Entries(clients', NoConn)]
      \/ Tail(todo[c]) # <<>> /\ UNCHANGED <<pc, loading>>
  BY <1>3 DEF Goto, Connect
<1> HIDE DEF app, conn
<1>6. /\ stack' \in Seq(Conn) /\ stack' # <<>>
      /\ Range(stack') = Range(stack) \cup {conn}
  <2>1. stack \in Seq(Conn)
    BY DEF TypeOK
  <2> QED BY <1>2, <1>4, <2>1, RangeOfAppend
<1>7. /\ clients' \in [App -> Conn \cup {NoConn}]
      /\ clients'[app] = conn
      /\ \A a \in App : a # app => clients'[a] = clients[a]
  <2>1. clients \in [App -> Conn \cup {NoConn}]
    BY DEF TypeOK
  <2> QED BY <1>2, <1>4, <2>1
<1>8. /\ pc' \in [Ctx -> Labels] /\ \A d \in Ctx : d # c => pc'[d] = pc[d]
      /\ pc'[c] \in {"connect", "load"}
      /\ pc'[c] = "connect" <=> Tail(todo[c]) # <<>>
  BY <1>1, <1>5 DEF TypeOK, Labels
<1>9. Entries(clients', NoConn) \in SUBSET Conn
  BY <1>7 DEF Entries
<1>10. /\ loading' \in [Ctx -> SUBSET Conn]
       /\ \A d \in Ctx : d # c => loading'[d] = loading[d]
       /\ pc'[c] = "load" => loading'[c] = Entries(clients', NoConn)
  <2>1. loading \in [Ctx -> SUBSET Conn]
    BY DEF TypeOK
  <2> HIDE DEF IInv
  <2> QED BY <1>1, <1>5, <1>9, <2>1
<1>11. /\ todo' \in [Ctx -> Seq(App)] /\ todo'[c] = Tail(todo[c])
       /\ \A d \in Ctx : d # c => todo'[d] = todo[d]
  <2>1. todo \in [Ctx -> Seq(App)]
    BY DEF TypeOK
  <2> QED BY <1>2, <1>4, <2>1
<1>12. TypeOK'
  <2>1. \A d \in Ctx : pc'[d] = "connect" <=> todo'[d] # <<>>
    BY <1>8, <1>11 DEF TypeOK
  <2>2. \A d \in Ctx : got'[d] # {} => pc'[d] = "body"
    BY <1>1, <1>4, <1>8 DEF TypeOK
  <2>3. \A d \in Ctx : closing'[d] # NoConn <=> pc'[d] = "closing"
    BY <1>1, <1>4, <1>8 DEF TypeOK
  <2> QED BY <1>4, <1>6, <1>7, <1>8, <1>10, <1>11, <2>1, <2>2, <2>3 DEF TypeOK
<1>13. StackHasCloser' /\ DictionariesInUse'
  BY <1>8 DEF StackHasCloser, DictionariesInUse, Active, Using
<1>14. ListsAreLoaded'
  BY <1>1, <1>4, <1>8 DEF ListsAreLoaded, Before
<1>15. \A d \in Ctx : Active(d)' <=> Active(d)
  BY <1>1, <1>8 DEF Active
<1>16. \A d \in Ctx : Alone(d)' <=> Alone(d)
  BY <1>4, <1>15 DEF Alone
<1>17. \A d \in Ctx : Alone(d) => d = c
  BY <1>1 DEF AloneOwnsAll, Active
<1>18. ASSUME Alone(c)
       PROVE  \A a \in App : clients'[a] # NoConn => clients'[a] = <<c, a>> /\ clients'[a] \in Range(stack')
  <2>1. clients'[app] = <<c, app>> /\ clients'[app] \in Range(stack')
    BY <1>6, <1>7 DEF conn
  <2>2. ASSUME NEW a \in App, a # app, clients'[a] # NoConn
        PROVE  clients'[a] = <<c, a>> /\ clients'[a] \in Range(stack')
    BY <1>1, <1>6, <1>7, <1>18, <2>2 DEF AloneOwnsAll, Using
  <2> QED BY <2>1, <2>2
<1>19. ASSUME Alone(c), pc'[c] = "load" PROVE loading'[c] \subseteq Own(c)'
  <2> SUFFICES ASSUME NEW x \in Entries(clients', NoConn)
               PROVE  x \in Range(stack') /\ x[1] = c
    BY <1>10, <1>19 DEF Own
  <2>1. PICK a \in App : x = clients'[a] /\ clients'[a] # NoConn
    BY DEF Entries
  <2> QED BY <1>18, <1>19, <2>1
<1>20. AloneOwnsAll'
  <2> SUFFICES ASSUME Alone(c)
               PROVE  /\ \A d \in Ctx : d # c => ~Active(d)'
                      /\ \A a \in App : clients'[a] = NoConn \/ clients'[a] = <<c, a>>
                      /\ \A a \in App : clients'[a] # NoConn => clients'[a] \in Range(stack')
                      /\ tools' = Nolist
                      /\ pc'[c] = "load" => loading'[c] \subseteq Own(c)'
    BY <1>16, <1>17 DEF AloneOwnsAll
  <2>1. \A d \in Ctx : d # c => ~Active(d)'
    BY <1>15 DEF AloneOwnsAll
  <2>2. tools' = Nolist
    BY <1>1, <1>4 DEF AloneOwnsAll, Before
  <2> QED BY <1>18, <1>19, <2>1, <2>2
<1>21. AloneGetsItsOwn'
  <2> SUFFICES ASSUME NEW d \in Ctx, pc'[d] = "body", d \notin overlapped' PROVE FALSE
    BY DEF AloneGetsItsOwn
  <2>1. Alone(d)
    BY <1>1, <1>4, <1>8 DEF Alone, Active
  <2> QED BY <1>8, <1>17, <2>1
<1> QED BY <1>12, <1>13, <1>14, <1>20, <1>21

\* Loading is over: the lists that have arrived are prefixed and yielded.
LEMMA FinishStep ==
    ASSUME IInv, NEW c \in Ctx, NEW S \in SUBSET loading[c], Finish(c, S)
    PROVE  IInv'
<1> USE DEF IInv
<1>1. /\ pc[c] = "load" /\ S \subseteq loading[c]
      /\ tools' = Loaded(c, S)
      /\ got' = [got EXCEPT ![c] = Entries(tools', NoList)]
      /\ prefixed' = [p \in Conn |->
                        IF \E list \in got'[c] : p = <<list.by, AppOf(list)>>
                          THEN prefixed[p] + 1 ELSE prefixed[p]]
      /\ loading' = [loading EXCEPT ![c] = {}]
      /\ pc' = [pc EXCEPT ![c] = "body"]
      /\ UNCHANGED <<todo, closing, stack, clients, overlapped>>
  BY DEF Finish, Goto
<1>2. /\ pc' \in [Ctx -> Labels] /\ pc'[c] = "body"
      /\ \A d \in Ctx : d # c => pc'[d] = pc[d]
  BY <1>1 DEF TypeOK, Labels
<1>3. S \subseteq Conn
  BY <1>1 DEF TypeOK
<1>4. /\ tools' \in [App -> List \cup {NoList}]
      /\ \A a \in App : \/ tools'[a] = tools[a]
                         \/ /\ tools'[a] \in List /\ tools'[a].by = c
                            /\ tools'[a].conn \in S /\ tools'[a].conn[2] = a
  <2>1. tools \in [App -> List \cup {NoList}]
    BY DEF TypeOK
  <2>2. ASSUME NEW a \in App, \E conn \in S : conn[2] = a
        PROVE  /\ tools'[a] \in List /\ tools'[a].by = c
               /\ tools'[a].conn \in S /\ tools'[a].conn[2] = a
    <3>1. PICK conn \in S : conn = CHOOSE x \in S : x[2] = a
      BY <2>2
    <3>2. conn \in Conn /\ conn[2] = a
      BY <1>3, <2>2, <3>1
    <3>3. tools'[a] = [by |-> c, conn |-> conn]
      BY <1>1, <2>2, <3>1 DEF Loaded
    <3> QED BY <3>2, <3>3 DEF List
  <2>3. ASSUME NEW a \in App, ~\E conn \in S : conn[2] = a PROVE tools'[a] = tools[a]
    BY <1>1, <2>3 DEF Loaded
  <2>4. \A a \in App : tools'[a] \in List \cup {NoList}
    BY <2>1, <2>2, <2>3
  <2>5. tools' = [a \in App |-> tools'[a]]
    BY <1>1 DEF Loaded
  <2>6. tools' \in [App -> List \cup {NoList}]
    BY <2>4, <2>5, Zenon
  <2> QED BY <2>2, <2>3, <2>6
<1>5. /\ got' \in [Ctx -> SUBSET List] /\ got'[c] = Entries(tools', NoList)
      /\ \A d \in Ctx : d # c => got'[d] = got[d]
  <2>1. got \in [Ctx -> SUBSET List]
    BY DEF TypeOK
  <2>2. Entries(tools', NoList) \in SUBSET List
    BY <1>4 DEF Entries
  <2> HIDE DEF IInv
  <2> QED BY <1>1, <2>1, <2>2
<1>6. \A list \in got'[c] : \E a \in App : list = tools'[a] /\ tools'[a] # NoList
  BY <1>5 DEF Entries
<1>7. prefixed' \in [Conn -> Nat]
  <2>1. prefixed \in [Conn -> Nat]
    BY DEF TypeOK
  <2> HIDE DEF IInv
  <2> QED BY <1>1, <2>1
<1>8. TypeOK'
  <2>1. \A d \in Ctx : pc'[d] = "connect" <=> todo'[d] # <<>>
    BY <1>1, <1>2 DEF TypeOK
  <2>2. \A d \in Ctx : got'[d] # {} => pc'[d] = "body"
    BY <1>2, <1>5 DEF TypeOK
  <2>3. \A d \in Ctx : closing'[d] # NoConn <=> pc'[d] = "closing"
    BY <1>1, <1>2 DEF TypeOK
  <2>4. loading' \in [Ctx -> SUBSET Conn]
    <3>1. loading \in [Ctx -> SUBSET Conn]
      BY DEF TypeOK
    <3> QED BY <1>1, <3>1
  <2> QED BY <1>1, <1>2, <1>4, <1>5, <1>7, <2>1, <2>2, <2>3, <2>4 DEF TypeOK
<1>9. StackHasCloser' /\ DictionariesInUse'
  BY <1>2 DEF StackHasCloser, DictionariesInUse, Active, Using
<1>10. ASSUME NEW d \in Ctx, Before(d)', NEW a \in App
       PROVE  prefixed'[<<d, a>>] = 0 /\ (tools'[a] # NoList => tools'[a].by # d)
  <2>1. d # c /\ Before(d)
    BY <1>2, <1>10 DEF Before
  <2>2. \A b \in App : tools'[b] # NoList => tools'[b].by # d
    BY <1>4, <2>1 DEF ListsAreLoaded
  <2>3. \A list \in got'[c] : list.by # d
    BY <1>6, <2>2
  <2>4. <<d, a>> \in Conn
    BY DEF Conn
  <2>5. ~\E list \in got'[c] : <<d, a>> = <<list.by, AppOf(list)>>
    BY <2>3
  <2>6. prefixed'[<<d, a>>] = prefixed[<<d, a>>]
    BY <1>1, <2>4, <2>5
  <2> QED BY <2>1, <2>2, <2>6 DEF ListsAreLoaded
<1>11. ListsAreLoaded'
  BY <1>10 DEF ListsAreLoaded
<1>12. \A d \in Ctx : Active(d)' <=> Active(d)
  BY <1>1, <1>2 DEF Active
<1>13. \A d \in Ctx : Alone(d)' <=> Alone(d)
  BY <1>1, <1>12 DEF Alone
<1>14. \A d \in Ctx : Alone(d) => d = c
  BY <1>1 DEF AloneOwnsAll, Active
<1>15. AloneOwnsAll'
  <2> SUFFICES ASSUME Alone(c)
               PROVE  /\ \A d \in Ctx : d # c => ~Active(d)'
                      /\ \A a \in App : clients'[a] = NoConn \/ clients'[a] = <<c, a>>
                      /\ \A a \in App : clients'[a] # NoConn => clients'[a] \in Range(stack')
    BY <1>2, <1>13, <1>14 DEF AloneOwnsAll, Before
  <2>1. Using(c)
    BY <1>1 DEF Using
  <2> QED BY <1>1, <1>12, <2>1 DEF AloneOwnsAll
<1>16. ASSUME Alone(c), NEW list \in got'[c]
       PROVE  list.by = c /\ list.conn \in Open' /\ prefixed'[<<c, AppOf(list)>>] = 1
  <2>1. PICK a \in App : list = tools'[a] /\ tools'[a] # NoList
    BY <1>6, <1>16
  <2>2. tools[a] = NoList /\ S \subseteq Own(c)
    BY <1>1, <1>16 DEF AloneOwnsAll, Before, Nolist
  <2>3. list.by = c /\ list.conn \in S /\ list.conn[2] = a
    BY <1>4, <2>1, <2>2
  <2>4. list.conn \in Open'
    BY <1>1, <2>2, <2>3 DEF Own, Open
  <2>5. AppOf(list) = a /\ <<c, a>> \in Conn
    BY <2>3 DEF AppOf, Conn
  <2>6. prefixed'[<<c, a>>] = prefixed[<<c, a>>] + 1
    <3>1. \E l \in got'[c] : <<c, a>> = <<l.by, AppOf(l)>>
      BY <1>16, <2>3, <2>5
    <3> QED BY <1>1, <2>5, <3>1
  <2>7. prefixed[<<c, a>>] = 0
    BY <1>1 DEF ListsAreLoaded, Before
  <2> QED BY <2>3, <2>4, <2>5, <2>6, <2>7
<1>17. AloneGetsItsOwn'
  <2> SUFFICES ASSUME NEW d \in Ctx, pc'[d] = "body", d \notin overlapped', NEW list \in got'[d]
               PROVE  list.by = d /\ list.conn \in Open' /\ prefixed'[<<d, AppOf(list)>>] = 1
    BY DEF AloneGetsItsOwn
  <2>1. Alone(d)
    BY <1>1, <1>12 DEF Alone, Active
  <2> QED BY <1>14, <1>16, <2>1
<1> QED BY <1>8, <1>9, <1>11, <1>15, <1>17

\* A context leaves: clean empties the dictionaries, the stack is still to be closed.
LEMMA LeaveStep ==
    ASSUME IInv, NEW c \in Ctx, Leave(c)
    PROVE  IInv'
<1> USE DEF IInv
<1>1. /\ Using(c)
      /\ pc'      = [pc EXCEPT ![c] = "clean"]
      /\ todo'    = [todo EXCEPT ![c] = <<>>]
      /\ loading' = [loading EXCEPT ![c] = {}]
      /\ got'     = [got EXCEPT ![c] = {}]
      /\ clients' = Nobody /\ tools' = Nolist
      /\ UNCHANGED <<closing, stack, prefixed, overlapped>>
  BY DEF Leave, Goto, CleanTools
<1>2. /\ pc' \in [Ctx -> Labels] /\ pc'[c] = "clean"
      /\ \A d \in Ctx : d # c => pc'[d] = pc[d]
  BY <1>1 DEF TypeOK, Labels
<1>3. /\ todo' \in [Ctx -> Seq(App)] /\ todo'[c] = <<>>
      /\ \A d \in Ctx : d # c => todo'[d] = todo[d]
  <2>1. todo \in [Ctx -> Seq(App)] /\ <<>> \in Seq(App)
    BY DEF TypeOK
  <2> HIDE DEF IInv
  <2> QED BY <1>1, <2>1
<1>4. /\ got' \in [Ctx -> SUBSET List] /\ got'[c] = {}
      /\ \A d \in Ctx : d # c => got'[d] = got[d]
  <2>1. got \in [Ctx -> SUBSET List]
    BY DEF TypeOK
  <2> HIDE DEF IInv
  <2> QED BY <1>1, <2>1
<1>5. /\ loading' \in [Ctx -> SUBSET Conn]
      /\ \A d \in Ctx : d # c => loading'[d] = loading[d]
  <2>1. loading \in [Ctx -> SUBSET Conn]
    BY DEF TypeOK
  <2> HIDE DEF IInv
  <2> QED BY <1>1, <2>1
<1>6. /\ clients' \in [App -> Conn \cup {NoConn}] /\ tools' \in [App -> List \cup {NoList}]
      /\ \A a \in App : clients'[a] = NoConn /\ tools'[a] = NoList
  BY <1>1 DEF Nobody, Nolist
<1>7. TypeOK'
  <2>1. \A d \in Ctx : pc'[d] = "connect" <=> todo'[d] # <<>>
    BY <1>2, <1>3 DEF TypeOK
  <2>2. \A d \in Ctx : got'[d] # {} => pc'[d] = "body"
    BY <1>2, <1>4 DEF TypeOK
  <2>3. \A d \in Ctx : closing'[d] # NoConn <=> pc'[d] = "closing"
    BY <1>1, <1>2 DEF TypeOK, Using
  <2> QED BY <1>1, <1>2, <1>3, <1>4, <1>5, <1>6, <2>1, <2>2, <2>3 DEF TypeOK
<1>8. StackHasCloser' /\ DictionariesInUse'
  BY <1>1, <1>2 DEF StackHasCloser, DictionariesInUse, Active
<1>9. ListsAreLoaded'
  BY <1>1, <1>2, <1>6 DEF ListsAreLoaded, Before
<1>10. \A d \in Ctx : Active(d)' <=> Active(d)
  BY <1>1, <1>2 DEF Active, Using
<1>11. AloneOwnsAll'
  <2> SUFFICES ASSUME NEW d \in Ctx, Alone(d)'
               PROVE  (\A e \in Ctx : e # d => ~Active(e)') /\ pc'[d] # "load"
    BY <1>1, <1>6 DEF AloneOwnsAll
  <2>1. Alone(d) /\ Active(c)
    BY <1>1, <1>10 DEF Alone, Active, Using
  <2>2. d = c
    BY <2>1 DEF AloneOwnsAll
  <2> QED BY <1>2, <1>10, <2>1, <2>2 DEF AloneOwnsAll
<1>12. AloneGetsItsOwn'
  <2> SUFFICES ASSUME NEW d \in Ctx, pc'[d] = "body", d \notin overlapped' PROVE FALSE
    BY DEF AloneGetsItsOwn
  <2>1. Alone(d) /\ d # c /\ Active(c)
    BY <1>1, <1>2, <1>10 DEF Alone, Active, Using
  <2> QED BY <2>1 DEF AloneOwnsAll
<1> QED BY <1>7, <1>8, <1>9, <1>11, <1>12

\* What the steps of aclose have in common: nobody uses the client object alone
\* while another context closes connections.
LEMMA CloseKeeps ==
    ASSUME IInv, NEW c \in Ctx, pc[c] \in {"clean", "closing"},
           pc'[c] \in {"clean", "closing", "done"},
           \A d \in Ctx : d # c => pc'[d] = pc[d],
           UNCHANGED <<loading, got, clients, tools, prefixed, overlapped>>
    PROVE  DictionariesInUse' /\ ListsAreLoaded' /\ AloneOwnsAll' /\ AloneGetsItsOwn'
<1> USE DEF IInv
<1>1. \A d \in Ctx : Active(d)' => Active(d)
  BY DEF Active
<1>2. \A d \in Ctx : /\ Using(d)' <=> Using(d)
                     /\ Before(d)' <=> Before(d)
                     /\ pc'[d] = "load" => d # c
                     /\ pc'[d] = "body" => d # c
  BY DEF Using, Before
<1>3. \A d \in Ctx : Alone(d)' => d = c
  BY <1>1 DEF AloneOwnsAll, Alone, Active
<1>4. DictionariesInUse'
  BY <1>2 DEF DictionariesInUse
<1>5. ListsAreLoaded'
  BY <1>2 DEF ListsAreLoaded
<1>6. AloneOwnsAll'
  <2> SUFFICES ASSUME Alone(c)'
               PROVE  (\A d \in Ctx : d # c => ~Active(d)') /\ ~Using(c)' /\ ~Before(c)' /\ pc'[c] # "load"
    BY <1>3 DEF AloneOwnsAll
  <2>1. Alone(c)
    BY <1>1 DEF Alone
  <2>2. \A d \in Ctx : d # c => ~Active(d)'
    BY <1>1, <2>1 DEF AloneOwnsAll
  <2> QED BY <1>2, <2>2 DEF Using, Before
<1>7. AloneGetsItsOwn'
  <2> SUFFICES ASSUME NEW d \in Ctx, pc'[d] = "body", d \notin overlapped' PROVE FALSE
    BY DEF AloneGetsItsOwn
  <2> QED BY <1>2, <1>3 DEF Alone, Active
<1> QED BY <1>4, <1>5, <1>6, <1>7

\* The next exit is popped and awaited.
LEMMA CloseNextStep ==
    ASSUME IInv, NEW c \in Ctx, CloseNext(c)
    PROVE  IInv'
<1> USE DEF IInv, CloseNext, Goto
<1>1. /\ pc' \in [Ctx -> Labels] /\ pc[c] = "clean" /\ pc'[c] = "closing"
      /\ \A d \in Ctx : d # c => pc'[d] = pc[d]
  BY DEF TypeOK, Labels
<1>2. stack' \in Seq(Conn) /\ Last(stack) \in Conn
  <2>1. stack \in Seq(Conn) /\ stack # <<>>
    BY DEF TypeOK
  <2> QED BY <2>1, FrontAndLast
<1>3. /\ closing' \in [Ctx -> Conn \cup {NoConn}] /\ closing'[c] # NoConn
      /\ \A d \in Ctx : d # c => closing'[d] = closing[d]
  <2>1. closing \in [Ctx -> Conn \cup {NoConn}] /\ NoConn \notin Conn
    BY NoConnAssumption DEF TypeOK, Conn
  <2>2. closing' = [closing EXCEPT ![c] = Last(stack)]
    OBVIOUS
  <2> HIDE DEF IInv, CloseNext
  <2> QED BY <1>2, <2>1, <2>2
<1>4. TypeOK'
  <2>1. \A d \in Ctx : pc'[d] = "connect" <=> todo'[d] # <<>>
    BY <1>1 DEF TypeOK
  <2>2. \A d \in Ctx : got'[d] # {} => pc'[d] = "body"
    BY <1>1 DEF TypeOK
  <2>3. \A d \in Ctx : closing'[d] # NoConn <=> pc'[d] = "closing"
    BY <1>1, <1>3 DEF TypeOK
  <2> QED BY <1>1, <1>2, <1>3, <2>1, <2>2, <2>3 DEF TypeOK
<1>5. StackHasCloser'
  BY <1>1 DEF StackHasCloser, Active
<1> QED BY <1>1, <1>4, <1>5, CloseKeeps

\* The exit has returned or raised.
LEMMA ClosedStep ==
    ASSUME IInv, NEW c \in Ctx, Closed(c)
    PROVE  IInv'
<1> USE DEF IInv, Closed, Goto, shared
<1>1. /\ pc' \in [Ctx -> Labels] /\ pc[c] = "closing" /\ pc'[c] = "clean"
      /\ \A d \in Ctx : d # c => pc'[d] = pc[d]
  BY DEF TypeOK, Labels
<1>2. /\ closing' \in [Ctx -> Conn \cup {NoConn}] /\ closing'[c] = NoConn
      /\ \A d \in Ctx : d # c => closing'[d] = closing[d]
  BY DEF TypeOK
<1>3. TypeOK'
  <2>1. \A d \in Ctx : pc'[d] = "connect" <=> todo'[d] # <<>>
    BY <1>1 DEF TypeOK
  <2>2. \A d \in Ctx : got'[d] # {} => pc'[d] = "body"
    BY <1>1 DEF TypeOK
  <2>3. \A d \in Ctx : closing'[d] # NoConn <=> pc'[d] = "closing"
    BY <1>1, <1>2 DEF TypeOK
  <2> QED BY <1>1, <1>2, <2>1, <2>2, <2>3 DEF TypeOK
<1>4. StackHasCloser'
  BY <1>1 DEF StackHasCloser, Active
<1> QED BY <1>1, <1>3, <1>4, CloseKeeps

\* Nothing is left to close.
LEMMA CloseEndStep ==
    ASSUME IInv, NEW c \in Ctx, CloseEnd(c)
    PROVE  IInv'
<1> USE DEF IInv, CloseEnd, Goto, shared, MayStop
<1>1. /\ pc' \in [Ctx -> Labels] /\ pc[c] = "clean" /\ pc'[c] = "done"
      /\ \A d \in Ctx : d # c => pc'[d] = pc[d]
  BY DEF TypeOK, Labels
<1>2. TypeOK'
  <2>1. \A d \in Ctx : pc'[d] = "connect" <=> todo'[d] # <<>>
    BY <1>1 DEF TypeOK
  <2>2. \A d \in Ctx : got'[d] # {} => pc'[d] = "body"
    BY <1>1 DEF TypeOK
  <2>3. \A d \in Ctx : closing'[d] # NoConn <=> pc'[d] = "closing"
    BY <1>1 DEF TypeOK
  <2> QED BY <1>1, <2>1, <2>2, <2>3 DEF TypeOK
<1>3. StackHasCloser'
  BY DEF StackHasCloser
<1> QED BY <1>1, <1>2, <1>3, CloseKeeps

\* Every step preserves the invariant.
LEMMA NextIInv == IInv /\ [Next]_vars => IInv'
<1> SUFFICES ASSUME IInv, [Next]_vars PROVE IInv'
  OBVIOUS
<1>1. CASE UNCHANGED vars
  <2>1. TypeOK'
    BY <1>1 DEF IInv, TypeOK, vars, shared
  <2>2. StackHasCloser' /\ DictionariesInUse' /\ ListsAreLoaded'
    BY <1>1 DEF IInv, StackHasCloser, DictionariesInUse, ListsAreLoaded, Before, Active, Using,
                vars, shared
  <2>3. AloneOwnsAll'
    BY <1>1 DEF IInv, AloneOwnsAll, Alone, Own, Before, Active, Using, vars, shared
  <2>4. AloneGetsItsOwn'
    BY <1>1 DEF IInv, AloneGetsItsOwn, Open, AppOf, vars, shared
  <2> QED BY <2>1, <2>2, <2>3, <2>4 DEF IInv
<1>2. ASSUME NEW c \in Ctx,
             \/ \E w \in Wishes : Start(c, w)
             \/ Connect(c)
             \/ \E S \in SUBSET loading[c] : Finish(c, S)
      PROVE  IInv'
  BY <1>2, StartStep, ConnectStep, FinishStep
<1>3. ASSUME NEW c \in Ctx, Leave(c) \/ CloseNext(c) \/ Closed(c) \/ CloseEnd(c) PROVE IInv'
  BY <1>3, LeaveStep, CloseNextStep, ClosedStep, CloseEndStep
<1> QED BY <1>1, <1>2, <1>3 DEF Next, Finished

-----------------------------------------------------------------------------
(* The theorems.                                                           *)

\* The strengthening is an invariant of get_tools and clean.
THEOREM Invariance == Spec => []IInv
<1>1. Init => IInv
  BY InitIInv
<1>2. IInv /\ [Next]_vars => IInv'
  BY NextIInv
<1>3. QED BY <1>1, <1>2, PTL DEF Spec

\* The state is well typed, and the work in hand belongs to the step.
THEOREM TypeCorrect == Spec => []TypeOK
<1>1. IInv => TypeOK
  BY DEF IInv
<1>2. QED BY <1>1, Invariance, PTL

\* When all contexts have ended, every connection is closed and the dictionaries are
\* empty, however the contexts overlapped and failed.
THEOREM NothingLeaks == Spec => []NothingLeft
<1>1. IInv => NothingLeft
  <2> SUFFICES ASSUME IInv, \A c \in Ctx : ~Active(c)
               PROVE  Open = {} /\ clients = Nobody /\ tools = Nolist
    BY DEF NothingLeft
  <2>1. clients = Nobody /\ tools = Nolist
    BY DEF IInv, DictionariesInUse, Using, Active
  <2>2. stack = <<>>
    BY DEF IInv, StackHasCloser
  <2>3. \A c \in Ctx : closing[c] = NoConn
    BY DEF IInv, TypeOK, Active
  <2>4. Range(stack) = {}
    BY <2>2 DEF Range
  <2> QED BY <2>1, <2>3, <2>4 DEF Open
<1>2. QED BY <1>1, Invariance, PTL

\* A context that meets no other yields its own lists, over open connections, with
\* names prefixed once, whatever was there before it.
THEOREM AloneIsRight == Spec => []AloneGetsItsOwn
<1>1. IInv => AloneGetsItsOwn
  BY DEF IInv
<1>2. QED BY <1>1, Invariance, PTL

=============================================================================
