---------------------------- MODULE ToolsClient ----------------------------
(***************************************************************************)
(* ToolsClient.get_tools (utilities/settings/clients/tools.py): a context  *)
(* manager that connects to MCP servers, loads their tools, prefixes the   *)
(* tools' names and yields them.  All contexts of one client object share  *)
(* its exit stack and its two dictionaries, and clean() empties these for  *)
(* everybody.                                                              *)
(*                                                                         *)
(* A connection is named by the context that opened it and the app; a list *)
(* of tools by the context that loaded it and the connection it uses.      *)
(***************************************************************************)
EXTENDS Integers, Sequences, SequencesExt

CONSTANTS
    Ctx,        \* the contexts, each entered once
    App,        \* the MCP servers
    Wishes,     \* the lists of apps that get_tools is called with
    NoConn      \* no connection

ASSUME WishAssumption == Wishes \subseteq Seq(App) \ {<<>>}
ASSUME NoConnAssumption == NoConn \notin Ctx \X App

VARIABLES
    pc,          \* per context: what it does next
    todo,        \* per context: the apps it has still to connect to
    loading,     \* per context: the connections it loads tools from
    got,         \* per context: the lists of tools it yields
    closing,     \* per context: the connection whose exit it awaits
    stack,       \* _aestack: the connections to close, the next one last
    clients,     \* _servername2clients
    tools,       \* _servername2tools
    prefixed,    \* history, per context and app: times its list was prefixed
    overlapped   \* history: the contexts that were not always alone

shared == <<stack, clients, tools, prefixed>>
vars   == <<pc, todo, loading, got, closing, shared, overlapped>>

-----------------------------------------------------------------------------
Conn   == Ctx \X App
Labels == {"idle", "connect", "load", "body", "clean", "closing", "done"}
List   == [by : Ctx, conn : Conn]
NoList == [by |-> NoConn, conn |-> NoConn]

AppOf(list) == list.conn[2]

Nobody == [a \in App |-> NoConn]
Nolist == [a \in App |-> NoList]

Entries(dict, none) == {dict[a] : a \in {b \in App : dict[b] # none}}

Active(c) == pc[c] \notin {"idle", "done"}
Using(c)  == pc[c] \in {"connect", "load", "body"}

\* The connections that are open.
Open == Range(stack) \cup ({closing[c] : c \in Ctx} \ {NoConn})

Init ==
    /\ pc       = [c \in Ctx |-> "idle"]
    /\ todo     = [c \in Ctx |-> <<>>]
    /\ loading  = [c \in Ctx |-> {}]
    /\ got      = [c \in Ctx |-> {}]
    /\ closing  = [c \in Ctx |-> NoConn]
    /\ stack    = <<>>
    /\ clients  = Nobody
    /\ tools    = Nolist
    /\ prefixed = [p \in Conn |-> 0]
    /\ overlapped = {}

Goto(c, label) == pc' = [pc EXCEPT ![c] = label]

-----------------------------------------------------------------------------
(* _connect_clients and the loading of the tools.                          *)

Start(c, w) ==
    /\ pc[c] = "idle"
    /\ Goto(c, "connect")
    /\ todo' = [todo EXCEPT ![c] = w]
    /\ overlapped' = overlapped \cup
          LET others == {d \in Ctx : Active(d)} IN IF others = {} THEN {} ELSE others \cup {c}
    /\ UNCHANGED <<loading, got, closing, shared>>

\* Variant of Rest: the app is connected to and not crossed off.
RestKept(c) == todo[c]

Rest(c) == Tail(todo[c])

\* enter_async_context has connected the next app.  After the last one, without
\* a pause, a task is started for every client in the dictionary.
Connect(c) ==
    LET conn == <<c, Head(todo[c])>>
        last == Len(todo[c]) = 1
    IN
    /\ pc[c] = "connect"
    /\ stack'   = Append(stack, conn)
    /\ clients' = [clients EXCEPT ![Head(todo[c])] = conn]
    /\ todo'    = [todo EXCEPT ![c] = Rest(c)]
    /\ IF last THEN /\ Goto(c, "load")
                    /\ loading' = [loading EXCEPT ![c] = Entries(clients', NoConn)]
               ELSE UNCHANGED <<pc, loading>>
    /\ UNCHANGED <<got, closing, tools, prefixed, overlapped>>

\* The dictionary of tools after the tasks on the connections S have succeeded.
Loaded(c, S) ==
    [a \in App |-> IF \E conn \in S : conn[2] = a
                     THEN [by |-> c, conn |-> CHOOSE conn \in S : conn[2] = a]
                     ELSE tools[a]]

\* asyncio.wait returns: all tasks are done, one has failed (stop_when_one_fail)
\* or the timeout is reached.  What is in the dictionary, one's own or not, is
\* prefixed and yielded.
Finish(c, S) ==
    /\ pc[c] = "load"
    /\ S \subseteq loading[c]
    /\ tools'    = Loaded(c, S)
    /\ got'      = [got EXCEPT ![c] = Entries(tools', NoList)]
    /\ prefixed' = [p \in Conn |->
                      IF \E list \in got'[c] : p = <<list.by, AppOf(list)>>
                        THEN prefixed[p] + 1 ELSE prefixed[p]]
    /\ loading'  = [loading EXCEPT ![c] = {}]
    /\ Goto(c, "body")
    /\ UNCHANGED <<todo, closing, stack, clients, overlapped>>

-----------------------------------------------------------------------------
(* clean                                                                   *)

\* Variant of CleanTools: the dictionary of tools is kept.
CleanNothing == tools

CleanTools == Nolist

\* The body ends, or something is raised before: an unknown app, a refused
\* connection, with raise_exception a failed task, a cancellation.
Leave(c) ==
    /\ Using(c)
    /\ Goto(c, "clean")
    /\ todo'    = [todo EXCEPT ![c] = <<>>]
    /\ loading' = [loading EXCEPT ![c] = {}]
    /\ got'     = [got EXCEPT ![c] = {}]
    /\ clients' = Nobody
    /\ tools'   = CleanTools
    /\ UNCHANGED <<closing, stack, prefixed, overlapped>>

\* AsyncExitStack.aclose: pop the last exit, whosever it is, and await it; an
\* exception is kept for the end.
CloseNext(c) ==
    /\ pc[c] = "clean"
    /\ stack # <<>>
    /\ closing' = [closing EXCEPT ![c] = Last(stack)]
    /\ stack'   = Front(stack)
    /\ Goto(c, "closing")
    /\ UNCHANGED <<todo, loading, got, clients, tools, prefixed, overlapped>>

Closed(c) ==
    /\ pc[c] = "closing"
    /\ closing' = [closing EXCEPT ![c] = NoConn]
    /\ Goto(c, "clean")
    /\ UNCHANGED <<todo, loading, got, shared, overlapped>>

\* Variant of MayStop: one exit is called, not all.
StopAnyTime(c) == pc[c] = "clean"

MayStop(c) == stack = <<>>

CloseEnd(c) ==
    /\ pc[c] = "clean"
    /\ MayStop(c)
    /\ Goto(c, "done")
    /\ UNCHANGED <<todo, loading, got, closing, shared, overlapped>>

-----------------------------------------------------------------------------
Finished == (\A c \in Ctx : pc[c] = "done") /\ UNCHANGED vars

Next ==
    \/ \E c \in Ctx :
          \/ \E w \in Wishes : Start(c, w)
          \/ Connect(c)
          \/ \E S \in SUBSET loading[c] : Finish(c, S)
          \/ Leave(c) \/ CloseNext(c) \/ Closed(c) \/ CloseEnd(c)
    \/ Finished

Spec == Init /\ [][Next]_vars

-----------------------------------------------------------------------------
(* Properties.                                                             *)

\* Types; the work in hand of a context belongs to its step.
TypeOK ==
    /\ pc       \in [Ctx -> Labels]
    /\ todo     \in [Ctx -> Seq(App)]
    /\ \A c \in Ctx : pc[c] = "connect" <=> todo[c] # <<>>
    /\ loading  \in [Ctx -> SUBSET Conn]
    /\ got      \in [Ctx -> SUBSET List]
    /\ \A c \in Ctx : got[c] # {} => pc[c] = "body"
    /\ closing  \in [Ctx -> Conn \cup {NoConn}]
    /\ \A c \in Ctx : closing[c] # NoConn <=> pc[c] = "closing"
    /\ stack    \in Seq(Conn)
    /\ clients  \in [App -> Conn \cup {NoConn}]
    /\ tools    \in [App -> List \cup {NoList}]
    /\ prefixed \in [Conn -> Nat]
    /\ overlapped \in SUBSET Ctx

\* No leak: however contexts overlap, fail and close each other's connections,
\* when all have ended nothing is open and nothing is left to be found by the
\* next one.
NothingLeft ==
    (\A c \in Ctx : ~Active(c)) => Open = {} /\ clients = Nobody /\ tools = Nolist

\* A context that is alone all the time yields tools that it has loaded itself,
\* over connections that are open, with names prefixed once, whatever contexts
\* before it have done and however they failed.
AloneGetsItsOwn ==
    \A c \in Ctx : pc[c] = "body" /\ c \notin overlapped =>
        \A list \in got[c] :
            /\ list.by = c
            /\ list.conn \in Open
            /\ prefixed[<<c, AppOf(list)>>] = 1

=============================================================================
