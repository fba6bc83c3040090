----------------------------- MODULE ToolServer -----------------------------
(***************************************************************************)
(* The websocket endpoints of MCPServer (tools/mcp_server.py).  An "mcp"   *)
(* endpoint starts an executor with three tasks: _read_websocket passes    *)
(* messages to _run_server over a stream without a buffer, _run_server     *)
(* passes answers to _write_websocket over another one.  The first task    *)
(* that is done ends the endpoint, which cancels the others.  A "monitor"  *)
(* endpoint has two tasks that receive and send on their own.              *)
(*                                                                         *)
(* The MCP session inside _run_server, the client and the websocket are    *)
(* external: the session answers some messages before it receives the next *)
(* one, and others by jobs of their own.  When it has nothing more to read *)
(* it closes its streams and waits for the jobs, which it does not cancel. *)
(***************************************************************************)
EXTENDS Integers

CONSTANTS
    Endpoint,      \* connections, each made once
    Kind,          \* per endpoint: "mcp" or "monitor"
    MaxMessages,   \* bound: messages of a client
    MaxJobs        \* bound: jobs of an executor at the same time

ASSUME KindAssumption  == Kind \in [Endpoint -> {"mcp", "monitor"}]
ASSUME BoundAssumption == MaxMessages \in Nat /\ MaxJobs \in Nat

VARIABLES
    endpoint,      \* per endpoint: its own coroutine
    client,        \* per endpoint: whether the client is there
    sent,          \* per endpoint: messages received from the client
    reader,        \* per endpoint: _read_websocket, or receive_text
    server,        \* per endpoint: _run_server
    writer,        \* per endpoint: _write_websocket, or send_data
    jobs,          \* per endpoint: tool calls under way in the session
    cancelled,     \* per endpoint: the tasks that were cancelled
    servers,       \* _servers: the executors
    websockets     \* _websockets

tasks == <<reader, server, writer, jobs>>
lists == <<servers, websockets>>
vars  == <<endpoint, client, sent, tasks, cancelled, lists>>

-----------------------------------------------------------------------------
EndpointStates == {"idle", "running", "ended", "stopped"}
ReaderStates   == {"none", "receive", "send", "send_error", "done"}
ServerStates   == {"none", "receive", "answer", "closing", "done"}
WriterStates   == {"none", "wait", "write", "done"}
TaskNames      == {"reader", "server", "writer"}

Init ==
    /\ endpoint   = [e \in Endpoint |-> "idle"]
    /\ client     = [e \in Endpoint |-> "open"]
    /\ sent       = [e \in Endpoint |-> 0]
    /\ reader     = [e \in Endpoint |-> "none"]
    /\ server     = [e \in Endpoint |-> "none"]
    /\ writer     = [e \in Endpoint |-> "none"]
    /\ jobs       = [e \in Endpoint |-> 0]
    /\ cancelled  = [e \in Endpoint |-> {}]
    /\ servers    = {}
    /\ websockets = {}

Read(e, state)  == reader' = [reader EXCEPT ![e] = state]
Serve(e, state) == server' = [server EXCEPT ![e] = state]
Write(e, state) == writer' = [writer EXCEPT ![e] = state]

Gone(e) == client[e] = "gone"

-----------------------------------------------------------------------------
(* The client.                                                             *)

Disconnect(e) ==
    /\ endpoint[e] # "idle"
    /\ ~Gone(e)
    /\ client' = [client EXCEPT ![e] = "gone"]
    /\ UNCHANGED <<endpoint, sent, tasks, cancelled, lists>>

-----------------------------------------------------------------------------
(* mcp_endpoint, _create_new_mcp, _run; monitor_endpoint.                  *)

\* The websocket is accepted; no pause until the tasks are awaited.
Accept(e) ==
    /\ endpoint[e] = "idle"
    /\ endpoint'   = [endpoint EXCEPT ![e] = "running"]
    /\ websockets' = websockets \cup {e}
    /\ servers'    = IF Kind[e] = "mcp" THEN servers \cup {e} ELSE servers
    /\ Read(e, "receive")
    /\ Serve(e, IF Kind[e] = "mcp" THEN "receive" ELSE "none")
    /\ Write(e, "wait")
    /\ UNCHANGED <<client, sent, jobs, cancelled>>

SomeDone(e) == "done" \in {reader[e], server[e], writer[e]}

\* Variant of Pending: the writer is forgotten.
PendingButWriter(e) == IF reader[e] # "done" THEN {"reader", "server"} ELSE {"server"}

\* Variant of Pending: all tasks of the largest endpoint.
PendingAll(e) == TaskNames

Pending(e) == {t \in TaskNames : CASE t = "reader" -> reader[e] # "done"
                                   [] t = "server" -> server[e] \notin {"none", "done"}
                                   [] t = "writer" -> writer[e] # "done"}

\* asyncio.wait returns: cancel the pending tasks, without awaiting them, and
\* strike the executor and the websocket off the lists.
End(e) ==
    /\ endpoint[e] = "running"
    /\ SomeDone(e)
    /\ cancelled'  = [cancelled EXCEPT ![e] = Pending(e)]
    /\ endpoint'   = [endpoint EXCEPT ![e] = "ended"]
    /\ servers'    = servers \ {e}
    /\ websockets' = websockets \ {e}
    /\ UNCHANGED <<client, sent, tasks>>

\* Variant of Stopped: _servers.remove outside of the "finally".
StoppedServers(e) == servers

StruckOff(e) == servers \ {e}

\* The endpoint itself is cancelled while it waits (the server stops, the
\* framework gives up the request): its tasks go on, and only what stands in a
\* "finally" is done: an mcp endpoint's websocket stays on the list.
Stop(e) ==
    /\ endpoint[e] = "running"
    /\ endpoint'   = [endpoint EXCEPT ![e] = "stopped"]
    /\ servers'    = StruckOff(e)
    /\ websockets' = IF Kind[e] = "mcp" THEN websockets ELSE websockets \ {e}
    /\ UNCHANGED <<client, sent, tasks, cancelled>>

-----------------------------------------------------------------------------
(* _read_websocket, receive_text                                           *)

\* A message arrives: one that is valid, one that is not and is passed on as an
\* exception, or one that is not a text, which raises.
Receive(e) ==
    /\ reader[e] = "receive"
    /\ ~Gone(e)
    /\ sent[e] < MaxMessages
    /\ sent' = [sent EXCEPT ![e] = @ + 1]
    /\ \/ Kind[e] = "mcp" /\ (Read(e, "send") \/ Read(e, "send_error"))
       \/ Kind[e] = "monitor" /\ UNCHANGED reader
       \/ Read(e, "done")
    /\ UNCHANGED <<endpoint, client, server, writer, jobs, cancelled, lists>>

\* iter_text ends at a disconnection, receive_text raises; passing on to a session
\* that has ended raises.
ReaderEnds(e) ==
    /\ \/ reader[e] = "receive" /\ Gone(e)
       \/ reader[e] \in {"send", "send_error"} /\ server[e] = "done"
    /\ Read(e, "done")
    /\ UNCHANGED <<endpoint, client, sent, server, writer, jobs, cancelled, lists>>

-----------------------------------------------------------------------------
(* _run_server: the MCP session.                                           *)

\* The two meet at read_stream.  The session answers at once, starts a job, has
\* nothing to answer, or fails over the message.
Pass(e) ==
    /\ reader[e] \in {"send", "send_error"}
    /\ server[e] = "receive"
    /\ Read(e, "receive")
    /\ \/ reader[e] = "send" /\ Serve(e, "answer") /\ UNCHANGED jobs
       \/ /\ reader[e] = "send" /\ jobs[e] < MaxJobs
          /\ jobs' = [jobs EXCEPT ![e] = @ + 1]
          /\ UNCHANGED server
       \/ UNCHANGED <<server, jobs>>
       \/ Serve(e, "done") /\ jobs' = [jobs EXCEPT ![e] = 0]
    /\ UNCHANGED <<endpoint, client, sent, writer, cancelled, lists>>

\* They meet at write_stream: an answer given at once, or the answer of a job.
Answer(e) ==
    /\ server[e] = "answer"
    /\ writer[e] = "wait"
    /\ Write(e, "write")
    /\ Serve(e, "receive")
    /\ UNCHANGED <<endpoint, client, sent, reader, jobs, cancelled, lists>>

JobAnswer(e) ==
    /\ jobs[e] > 0
    /\ server[e] \in {"receive", "answer"}
    /\ writer[e] = "wait"
    /\ Write(e, "write")
    /\ jobs' = [jobs EXCEPT ![e] = @ - 1]
    /\ UNCHANGED <<endpoint, client, sent, reader, server, cancelled, lists>>

\* The other end of a stream is closed.  With no more to read the session closes its
\* streams and waits for the jobs under way; when it cannot write it fails, which
\* cancels them.
ServerEnds(e) ==
    /\ \/ /\ server[e] = "receive" /\ reader[e] = "done"
          /\ Serve(e, IF jobs[e] = 0 THEN "done" ELSE "closing")
          /\ UNCHANGED jobs
       \/ /\ server[e] = "answer" /\ writer[e] = "done"
          /\ Serve(e, "done")
          /\ jobs' = [jobs EXCEPT ![e] = 0]
    /\ UNCHANGED <<endpoint, client, sent, reader, writer, cancelled, lists>>

\* A job returns and finds that nobody takes its answer, or the write stream closed:
\* the session fails, and cancels the other jobs.
JobFails(e) ==
    /\ jobs[e] > 0
    /\ writer[e] = "done" \/ server[e] = "closing"
    /\ Serve(e, "done")
    /\ jobs' = [jobs EXCEPT ![e] = 0]
    /\ UNCHANGED <<endpoint, client, sent, reader, writer, cancelled, lists>>

-----------------------------------------------------------------------------
(* _write_websocket, send_data                                             *)

\* The client takes what is sent; nobody can rely on it.
Taken(e) ==
    /\ writer[e] = "write"
    /\ ~Gone(e)
    /\ Write(e, "wait")
    /\ UNCHANGED <<endpoint, client, sent, reader, server, jobs, cancelled, lists>>

\* send_data sends again.
SendData(e) ==
    /\ Kind[e] = "monitor"
    /\ writer[e] = "wait"
    /\ Write(e, "write")
    /\ UNCHANGED <<endpoint, client, sent, reader, server, jobs, cancelled, lists>>

\* Variant of SendFails: sending to a client that is gone waits for ever.
SendHangs(e) == FALSE

SendFails(e) == Gone(e) /\ writer[e] = "write"

WriterEnds(e) ==
    /\ \/ SendFails(e)
       \/ /\ Kind[e] = "mcp" /\ writer[e] = "wait"
          /\ server[e] \in {"closing", "done"}          \* the stream is closed
    /\ Write(e, "done")
    /\ UNCHANGED <<endpoint, client, sent, reader, server, jobs, cancelled, lists>>

-----------------------------------------------------------------------------
\* A cancelled task ends at its next turn.
Cancelled(e, t) ==
    /\ t \in cancelled[e]
    /\ cancelled' = [cancelled EXCEPT ![e] = @ \ {t}]
    /\ \/ t = "reader" /\ Read(e, "done") /\ UNCHANGED <<server, writer, jobs>>
       \/ t = "server" /\ Serve(e, "done") /\ jobs' = [jobs EXCEPT ![e] = 0]
            /\ UNCHANGED <<reader, writer>>
       \/ t = "writer" /\ Write(e, "done") /\ UNCHANGED <<reader, server, jobs>>
    /\ UNCHANGED <<endpoint, client, sent, lists>>

\* What the event loop runs without the help of the client or of a tool.
Run(e) ==
    \/ End(e)
    \/ ReaderEnds(e) \/ Pass(e) \/ Answer(e) \/ ServerEnds(e)
    \/ WriterEnds(e) \/ SendData(e)
    \/ \E t \in TaskNames : Cancelled(e, t)

Next ==
    \E e \in Endpoint :
        \/ Accept(e) \/ Run(e)
        \/ Stop(e) \/ Disconnect(e) \/ Receive(e) \/ Taken(e)
        \/ JobAnswer(e) \/ JobFails(e)

\* Every task that can go on gets its turn.
FairTurns(e) ==
    /\ WF_vars(End(e))
    /\ WF_vars(ReaderEnds(e) \/ Pass(e))
    /\ WF_vars(Answer(e) \/ ServerEnds(e))
    /\ WF_vars(WriterEnds(e) \/ SendData(e))

FairEnd(e, t) == WF_vars(Cancelled(e, t))

Fairness == \A e \in Endpoint : FairTurns(e) /\ \A t \in TaskNames : FairEnd(e, t)

Spec == Init /\ [][Next]_vars /\ Fairness

-----------------------------------------------------------------------------
(* Properties.                                                             *)

\* Types; tasks exist from the acceptance on, and a monitor has no server.
TypeOK ==
    /\ endpoint  \in [Endpoint -> EndpointStates]
    /\ client    \in [Endpoint -> {"open", "gone"}]
    /\ sent      \in [Endpoint -> 0 .. MaxMessages]
    /\ reader    \in [Endpoint -> ReaderStates]
    /\ server    \in [Endpoint -> ServerStates]
    /\ writer    \in [Endpoint -> WriterStates]
    /\ jobs      \in [Endpoint -> 0 .. MaxJobs]
    /\ cancelled \in [Endpoint -> SUBSET TaskNames]
    /\ servers \in SUBSET Endpoint /\ websockets \in SUBSET Endpoint
    /\ \A e \in Endpoint :
          /\ endpoint[e] = "idle" <=> reader[e] = "none"
          /\ endpoint[e] = "idle" <=> writer[e] = "none"
          /\ server[e] = "none" <=> (endpoint[e] = "idle" \/ Kind[e] = "monitor")
          /\ cancelled[e] # {} => endpoint[e] = "ended"
          /\ jobs[e] > 0 => server[e] \in {"receive", "answer", "closing"}
          /\ server[e] = "closing" => jobs[e] > 0

\* The lists of the factory, which the states endpoint shows, stay right when
\* endpoints end in any way: an executor is listed as long as its endpoint runs,
\* and a websocket that stays behind is one of an endpoint that was cancelled.
ListsMatch ==
    /\ servers = {e \in Endpoint : Kind[e] = "mcp" /\ endpoint[e] = "running"}
    /\ {e \in Endpoint : endpoint[e] = "running"} \subseteq websockets
    /\ websockets \subseteq
          {e \in Endpoint : endpoint[e] = "running" \/ (Kind[e] = "mcp" /\ endpoint[e] = "stopped")}

\* What a task waits for and has come: the partner that takes what is passed on, or
\* that is done; the client that is gone; the first task that is done.
WaitIsOver(e, who) ==
    CASE who = "endpoint" -> endpoint[e] = "running" /\ SomeDone(e)
      [] who = "reader"   -> IF reader[e] = "receive"
                                THEN Gone(e)
                                ELSE /\ reader[e] \in {"send", "send_error"}
                                     /\ server[e] \in {"receive", "done"}
      [] who = "server"   -> \/ server[e] = "receive" /\ reader[e] = "done"
                             \/ server[e] = "answer" /\ writer[e] \in {"wait", "done"}
      [] who = "writer"   -> \/ writer[e] = "write" /\ Gone(e)
                             \/ /\ writer[e] = "wait"
                                /\ Kind[e] = "monitor" \/ server[e] \in {"closing", "done"}

MayEnd(e, t) == ENABLED <<Cancelled(e, t)>>_vars

\* Nobody is held up: whoever has been waiting for a partner can go on as soon as
\* the partner has come, is done or is gone, in whatever state the third one is; a
\* cancelled task can always end.  EndpointEnds and NoTaskLeft rest on this.
NobodyHeldUp ==
    \A e \in Endpoint :
        /\ WaitIsOver(e, "endpoint") => ENABLED <<End(e)>>_vars
        /\ WaitIsOver(e, "reader")   => ENABLED <<ReaderEnds(e) \/ Pass(e)>>_vars
        /\ WaitIsOver(e, "server")   => ENABLED <<Answer(e) \/ ServerEnds(e)>>_vars
        /\ WaitIsOver(e, "writer")   => ENABLED <<WriterEnds(e) \/ SendData(e)>>_vars
        /\ \A t \in cancelled[e] : MayEnd(e, t)

\* An endpoint notices that its client is gone, even when the reader waits for
\* the session, the session for the writer and the writer for the client.
EndpointEnds == \A e \in Endpoint : Gone(e) ~> endpoint[e] # "running"

AllDone(e) == reader[e] = "done" /\ writer[e] = "done" /\ server[e] \in {"none", "done"}

\* The endpoint was cancelled, and its session waits for tool calls that have not
\* returned; there is nobody to cancel it.
LeftToTools(e) ==
    /\ endpoint[e] = "stopped"
    /\ reader[e] = "done" /\ writer[e] = "done"
    /\ server[e] = "closing" /\ jobs[e] > 0

\* No task outlives for ever an endpoint that has ended, whatever its client and its
\* tools do; nor one that was cancelled and left its tasks behind, once the client is
\* gone, but for a session that waits for tool calls only.
NoTaskLeft ==
    /\ \A e \in Endpoint : endpoint[e] = "ended" ~> AllDone(e)
    /\ \A e \in Endpoint : Gone(e) ~> AllDone(e) \/ LeftToTools(e)

=============================================================================
