-------------------------- MODULE ToolServerProofs --------------------------
(***************************************************************************)
(* Proofs about ToolServer, for any endpoints of either kind and any       *)
(* number of messages and jobs.                                            *)
(***************************************************************************)
EXTENDS ToolServer, TLAPS

\* Only a session that exists is cancelled.
OnlySessionsCancelled == \A e \in Endpoint : "server" \in cancelled[e] => Kind[e] = "mcp"

\* The lists can only be kept if tasks and endpoints agree, so these go together.
IInv == TypeOK /\ ListsMatch /\ OnlySessionsCancelled

\* The sets of states, and the abbreviations of assignments, are expanded throughout.
USE BoundAssumption, KindAssumption
    DEF EndpointStates, ReaderStates, ServerStates, WriterStates, TaskNames,
        tasks, lists, Read, Serve, Write, Gone

-----------------------------------------------------------------------------
(* One lemma per action.                                                   *)

\* No endpoint exists in the beginning.
LEMMA InitIInv == Init => IInv
<1> SUFFICES ASSUME Init PROVE IInv
  OBVIOUS
<1>1. TypeOK
  BY DEF Init, TypeOK
<1>2. ListsMatch /\ OnlySessionsCancelled
  BY DEF Init, ListsMatch, OnlySessionsCancelled
<1> QED BY <1>1, <1>2 DEF IInv

\* An endpoint starts with all its tasks, and is listed before it pauses.
LEMMA AcceptStep == ASSUME IInv, NEW e \in Endpoint, Accept(e) PROVE IInv'
<1> USE DEF IInv, Accept
<1>1. /\ endpoint' \in [Endpoint -> EndpointStates]
      /\ reader' \in [Endpoint -> ReaderStates]
      /\ writer' \in [Endpoint -> WriterStates]
  BY DEF TypeOK
<1>2. server' \in [Endpoint -> ServerStates]
  BY DEF TypeOK
<1>3. servers' \in SUBSET Endpoint /\ websockets' \in SUBSET Endpoint
  BY DEF TypeOK
<1>4. \A d \in Endpoint :
          /\ endpoint'[d] = "idle" <=> reader'[d] = "none"
          /\ endpoint'[d] = "idle" <=> writer'[d] = "none"
          /\ server'[d] = "none" <=> (endpoint'[d] = "idle" \/ Kind[d] = "monitor")
          /\ cancelled'[d] # {} => endpoint'[d] = "ended"
          /\ jobs'[d] > 0 => server'[d] \in {"receive", "answer", "closing"}
          /\ server'[d] = "closing" => jobs'[d] > 0
  BY DEF TypeOK
<1>5. TypeOK'
  BY <1>1, <1>2, <1>3, <1>4 DEF TypeOK
<1>6. ListsMatch' /\ OnlySessionsCancelled'
  BY DEF TypeOK, ListsMatch, OnlySessionsCancelled
<1> QED BY <1>5, <1>6

\* asyncio.wait returns: the endpoint leaves the lists and cancels what is pending.
LEMMA EndStep == ASSUME IInv, NEW e \in Endpoint, End(e) PROVE IInv'
<1> USE DEF IInv, End, SomeDone, Pending
<1>1. TypeOK'
  BY DEF TypeOK
<1>2. ListsMatch'
  BY DEF TypeOK, ListsMatch
<1>3. OnlySessionsCancelled'
  BY DEF TypeOK, OnlySessionsCancelled
<1> QED BY <1>1, <1>2, <1>3

\* The endpoint is cancelled: only its executor leaves a list for certain.
LEMMA StopStep == ASSUME IInv, NEW e \in Endpoint, Stop(e) PROVE IInv'
<1> USE DEF IInv, Stop, StruckOff
<1>1. TypeOK'
  BY DEF TypeOK
<1>2. ListsMatch'
  BY DEF TypeOK, ListsMatch
<1>3. OnlySessionsCancelled'
  BY DEF TypeOK, OnlySessionsCancelled
<1> QED BY <1>1, <1>2, <1>3

\* The client goes.
LEMMA DisconnectStep == ASSUME IInv, NEW e \in Endpoint, Disconnect(e) PROVE IInv'
<1> USE DEF IInv, Disconnect
<1>1. TypeOK'
  BY DEF TypeOK
<1>2. ListsMatch'
  BY DEF TypeOK, ListsMatch
<1>3. OnlySessionsCancelled'
  BY DEF TypeOK, OnlySessionsCancelled
<1> QED BY <1>1, <1>2, <1>3

\* A message arrives.
LEMMA ReceiveStep == ASSUME IInv, NEW e \in Endpoint, Receive(e) PROVE IInv'
<1> USE DEF IInv, Receive
<1>1. TypeOK'
  BY DEF TypeOK
<1>2. ListsMatch'
  BY DEF TypeOK, ListsMatch
<1>3. OnlySessionsCancelled'
  BY DEF TypeOK, OnlySessionsCancelled
<1> QED BY <1>1, <1>2, <1>3

\* The reader ends.
LEMMA ReaderEndsStep == ASSUME IInv, NEW e \in Endpoint, ReaderEnds(e) PROVE IInv'
<1> USE DEF IInv, ReaderEnds
<1>1. TypeOK'
  BY DEF TypeOK
<1>2. ListsMatch'
  BY DEF TypeOK, ListsMatch
<1>3. OnlySessionsCancelled'
  BY DEF TypeOK, OnlySessionsCancelled
<1> QED BY <1>1, <1>2, <1>3

\* A message reaches the session.
LEMMA PassStep == ASSUME IInv, NEW e \in Endpoint, Pass(e) PROVE IInv'
<1> USE DEF IInv, Pass
<1>1. TypeOK'
  BY DEF TypeOK
<1>2. ListsMatch'
  BY DEF TypeOK, ListsMatch
<1>3. OnlySessionsCancelled'
  BY DEF TypeOK, OnlySessionsCancelled
<1> QED BY <1>1, <1>2, <1>3

\* An answer is passed to the writer.
LEMMA AnswerStep == ASSUME IInv, NEW e \in Endpoint, Answer(e) PROVE IInv'
<1> USE DEF IInv, Answer
<1>1. TypeOK'
  BY DEF TypeOK
<1>2. ListsMatch'
  BY DEF TypeOK, ListsMatch
<1>3. OnlySessionsCancelled'
  BY DEF TypeOK, OnlySessionsCancelled
<1> QED BY <1>1, <1>2, <1>3

\* The answer of a job is passed to the writer.
LEMMA JobAnswerStep == ASSUME IInv, NEW e \in Endpoint, JobAnswer(e) PROVE IInv'
<1> USE DEF IInv, JobAnswer
<1>1. TypeOK'
  BY DEF TypeOK
<1>2. ListsMatch'
  BY DEF TypeOK, ListsMatch
<1>3. OnlySessionsCancelled'
  BY DEF TypeOK, OnlySessionsCancelled
<1> QED BY <1>1, <1>2, <1>3

\* The session ends, or waits for its jobs, or fails and its jobs end with it.
LEMMA ServerEndsStep == ASSUME IInv, NEW e \in Endpoint, ServerEnds(e) PROVE IInv'
<1> USE DEF IInv, ServerEnds
<1>1. TypeOK'
  BY DEF TypeOK
<1>2. ListsMatch'
  BY DEF TypeOK, ListsMatch
<1>3. OnlySessionsCancelled'
  BY DEF TypeOK, OnlySessionsCancelled
<1> QED BY <1>1, <1>2, <1>3

\* A job ends the session.
LEMMA JobFailsStep == ASSUME IInv, NEW e \in Endpoint, JobFails(e) PROVE IInv'
<1> USE DEF IInv, JobFails
<1>1. TypeOK'
  BY DEF TypeOK
<1>2. ListsMatch'
  BY DEF TypeOK, ListsMatch
<1>3. OnlySessionsCancelled'
  BY DEF TypeOK, OnlySessionsCancelled
<1> QED BY <1>1, <1>2, <1>3

\* The client takes an answer.
LEMMA TakenStep == ASSUME IInv, NEW e \in Endpoint, Taken(e) PROVE IInv'
<1> USE DEF IInv, Taken
<1>1. TypeOK'
  BY DEF TypeOK
<1>2. ListsMatch'
  BY DEF TypeOK, ListsMatch
<1>3. OnlySessionsCancelled'
  BY DEF TypeOK, OnlySessionsCancelled
<1> QED BY <1>1, <1>2, <1>3

\* The monitor sends again.
LEMMA SendDataStep == ASSUME IInv, NEW e \in Endpoint, SendData(e) PROVE IInv'
<1> USE DEF IInv, SendData
<1>1. TypeOK'
  BY DEF TypeOK
<1>2. ListsMatch'
  BY DEF TypeOK, ListsMatch
<1>3. OnlySessionsCancelled'
  BY DEF TypeOK, OnlySessionsCancelled
<1> QED BY <1>1, <1>2, <1>3

\* The writer ends.
LEMMA WriterEndsStep == ASSUME IInv, NEW e \in Endpoint, WriterEnds(e) PROVE IInv'
<1> USE DEF IInv, WriterEnds, SendFails
<1>1. TypeOK'
  BY DEF TypeOK
<1>2. ListsMatch'
  BY DEF TypeOK, ListsMatch
<1>3. OnlySessionsCancelled'
  BY DEF TypeOK, OnlySessionsCancelled
<1> QED BY <1>1, <1>2, <1>3

\* A task that was cancelled ends.
LEMMA CancelledStep ==
    ASSUME IInv, NEW e \in Endpoint, NEW t \in TaskNames, Cancelled(e, t)
    PROVE  IInv'
<1> USE DEF IInv, Cancelled
<1>1. TypeOK'
  <2>1. CASE t = "reader"
    BY <2>1 DEF TypeOK
  <2>2. CASE t = "server"
    <3>1. /\ server' = [server EXCEPT ![e] = "done"] /\ jobs' = [jobs EXCEPT ![e] = 0]
          /\ cancelled' = [cancelled EXCEPT ![e] = @ \ {t}]
          /\ endpoint[e] = "ended" /\ server[e] # "none"
          /\ UNCHANGED <<endpoint, client, sent, reader, writer, servers, websockets>>
      BY <2>2 DEF TypeOK, OnlySessionsCancelled
    <3> QED BY <3>1 DEF TypeOK
  <2>3. CASE t = "writer"
    BY <2>3 DEF TypeOK
  <2> QED BY <2>1, <2>2, <2>3
<1>2. ListsMatch'
  BY DEF TypeOK, ListsMatch
<1>3. OnlySessionsCancelled'
  BY DEF TypeOK, OnlySessionsCancelled
<1> QED BY <1>1, <1>2, <1>3

\* Every step preserves the invariant.
LEMMA NextIInv == IInv /\ [Next]_vars => IInv'
<1> SUFFICES ASSUME IInv, [Next]_vars PROVE IInv'
  OBVIOUS
<1>1. CASE UNCHANGED vars
  BY <1>1 DEF vars, IInv, TypeOK, ListsMatch, OnlySessionsCancelled
<1>2. ASSUME NEW e \in Endpoint, Run(e) PROVE IInv'
  BY <1>2, EndStep, ReaderEndsStep, PassStep, AnswerStep, ServerEndsStep, WriterEndsStep,
     SendDataStep, CancelledStep DEF Run
<1>3. ASSUME NEW e \in Endpoint,
             Accept(e) \/ Stop(e) \/ Disconnect(e) \/ Receive(e) \/ Taken(e)
               \/ JobAnswer(e) \/ JobFails(e)
      PROVE  IInv'
  BY <1>3, AcceptStep, StopStep, DisconnectStep, ReceiveStep, TakenStep, JobAnswerStep,
     JobFailsStep
<1> QED BY <1>1, <1>2, <1>3 DEF Next

-----------------------------------------------------------------------------
(* The theorems.                                                           *)

\* The invariant holds in every state of the server.
THEOREM Invariance == Spec => []IInv
<1>1. Init => IInv
  BY InitIInv
<1>2. IInv /\ [Next]_vars => IInv'
  BY NextIInv
<1>3. QED BY <1>1, <1>2, PTL DEF Spec

\* Tasks exist from the acceptance on; nothing but a finished wait cancels one; the
\* session's jobs never outlive it (_run and the end of its task group).
THEOREM TypeCorrect == Spec => []TypeOK
<1>1. IInv => TypeOK
  BY DEF IInv
<1>2. QED BY <1>1, Invariance, PTL

\* _servers names exactly the executors of the endpoints that run, and _websockets
\* these and at most those of cancelled mcp endpoints, in whatever way they ended.
THEOREM ListsAreRight == Spec => []ListsMatch
<1>1. IInv => ListsMatch
  BY DEF IInv
<1>2. QED BY <1>1, Invariance, PTL

-----------------------------------------------------------------------------
(* Liveness.  What the library of the prover cannot know is that the fair     *)
(* actions are enabled: that is the invariant NobodyHeldUp, a hypothesis here *)
(* and checked by TLC.                                                        *)

\* A client that is gone had an endpoint, a monitor passes nothing on, a session closes
\* after its reader has ended, and the end of an endpoint cancels whatever is not done.
LooseEnds ==
    \A e \in Endpoint :
        /\ Gone(e) => endpoint[e] # "idle"
        /\ Kind[e] = "monitor" => reader[e] \notin {"send", "send_error"}
        /\ server[e] = "closing" => reader[e] = "done"
        /\ endpoint[e] = "ended" =>
              /\ reader[e] # "done" => "reader" \in cancelled[e]
              /\ writer[e] # "done" => "writer" \in cancelled[e]
              /\ server[e] \notin {"none", "done"} => "server" \in cancelled[e]

\* The step of one endpoint touches nothing of another one.
LEMMA OneAtATime ==
    ASSUME IInv, NEW e \in Endpoint, NEW d \in Endpoint, d # e,
           Accept(d) \/ Run(d) \/ Stop(d) \/ Disconnect(d) \/ Receive(d) \/ Taken(d)
             \/ JobAnswer(d) \/ JobFails(d)
    PROVE  /\ endpoint'[e] = endpoint[e] /\ client'[e] = client[e]
           /\ reader'[e] = reader[e] /\ server'[e] = server[e] /\ writer'[e] = writer[e]
           /\ cancelled'[e] = cancelled[e]
<1> USE DEF IInv, TypeOK
<1>1. CASE Accept(d) \/ Stop(d) \/ Disconnect(d) \/ End(d)
  BY <1>1 DEF Accept, Stop, Disconnect, End
<1>2. CASE Receive(d) \/ ReaderEnds(d) \/ Pass(d)
  BY <1>2 DEF Receive, ReaderEnds, Pass
<1>3. CASE Answer(d) \/ JobAnswer(d) \/ ServerEnds(d) \/ JobFails(d)
  BY <1>3 DEF Answer, JobAnswer, ServerEnds, JobFails
<1>4. CASE Taken(d) \/ SendData(d) \/ WriterEnds(d)
  BY <1>4 DEF Taken, SendData, WriterEnds
<1>5. ASSUME NEW t \in TaskNames, Cancelled(d, t)
      PROVE  /\ endpoint'[e] = endpoint[e] /\ client'[e] = client[e]
             /\ reader'[e] = reader[e] /\ server'[e] = server[e] /\ writer'[e] = writer[e]
             /\ cancelled'[e] = cancelled[e]
  BY <1>5 DEF Cancelled
<1> QED BY <1>1, <1>2, <1>3, <1>4, <1>5 DEF Run

\* How an endpoint and its tasks can move in one step.
Moves(e) ==
    /\ endpoint[e] # "idle" => endpoint'[e] # "idle"
    /\ Gone(e) => Gone(e)'
    /\ reader[e] = "done" => reader'[e] = "done"
    /\ server[e] = "done" => server'[e] = "done"
    /\ writer[e] = "done" => writer'[e] = "done"
    /\ Gone(e) /\ reader[e] = "receive" => reader'[e] \in {"receive", "done"}
    /\ reader[e] \in {"send", "send_error"} =>
          \/ reader'[e] \in {"receive", "done"}
          \/ reader'[e] = reader[e] /\ server'[e] \in {server[e], "receive", "done"}
    /\ server[e] = "receive" /\ reader[e] = "done" => server'[e] \in {"receive", "closing", "done"}
    /\ server[e] = "closing" => server'[e] \in {"closing", "done"}
    /\ server[e] = "answer" =>
          \/ server'[e] \in {"answer", "done"}
          \/ server'[e] = "receive" /\ writer'[e] = "write"
    /\ server[e] = "none" /\ endpoint[e] # "idle" => server'[e] = "none"
    /\ Gone(e) /\ writer[e] = "write" => writer'[e] \in {"write", "done"}
    /\ writer[e] = "wait" => writer'[e] \in {"wait", "write", "done"}
    /\ Kind[e] = "mcp" /\ writer[e] = "wait" /\ server[e] \in {"closing", "done"} =>
          writer'[e] \in {"wait", "done"}
    /\ endpoint[e] = "ended" => endpoint'[e] = "ended"
    /\ endpoint[e] = "stopped" => endpoint'[e] = "stopped"
    /\ "reader" \in cancelled[e] => "reader" \in cancelled'[e] \/ reader'[e] = "done"
    /\ "server" \in cancelled[e] => "server" \in cancelled'[e] \/ server'[e] = "done"
    /\ "writer" \in cancelled[e] => "writer" \in cancelled'[e] \/ writer'[e] = "done"

\* Every step moves an endpoint like that.
LEMMA StepMoves == ASSUME IInv, [Next]_vars, NEW e \in Endpoint PROVE Moves(e)
<1> USE DEF IInv, Moves
<1>1. CASE UNCHANGED vars
  BY <1>1 DEF vars, TypeOK
<1>2. ASSUME NEW d \in Endpoint, d # e,
             Accept(d) \/ Run(d) \/ Stop(d) \/ Disconnect(d) \/ Receive(d) \/ Taken(d)
               \/ JobAnswer(d) \/ JobFails(d)
      PROVE  Moves(e)
  <2>1. /\ endpoint'[e] = endpoint[e] /\ client'[e] = client[e]
        /\ reader'[e] = reader[e] /\ server'[e] = server[e] /\ writer'[e] = writer[e]
        /\ cancelled'[e] = cancelled[e]
    BY <1>2, OneAtATime
  <2> QED BY <2>1 DEF TypeOK
<1>3. CASE Accept(e) \/ Stop(e) \/ Disconnect(e) \/ End(e)
  BY <1>3 DEF Accept, Stop, Disconnect, End, TypeOK
<1>4. CASE Receive(e) \/ ReaderEnds(e)
  BY <1>4 DEF Receive, ReaderEnds, TypeOK
<1>5. CASE Pass(e)
  BY <1>5 DEF Pass, TypeOK
<1>6. CASE Answer(e) \/ JobAnswer(e)
  BY <1>6 DEF Answer, JobAnswer, TypeOK
<1>7. CASE ServerEnds(e) \/ JobFails(e)
  BY <1>7 DEF ServerEnds, JobFails, TypeOK
<1>8. CASE Taken(e) \/ SendData(e) \/ WriterEnds(e)
  BY <1>8 DEF Taken, SendData, WriterEnds, TypeOK
<1>9. ASSUME NEW t \in TaskNames, Cancelled(e, t) PROVE Moves(e)
  <2>1. CASE t = "reader"
    BY <1>9, <2>1 DEF Cancelled, TypeOK
  <2>2. CASE t = "server"
    BY <1>9, <2>2 DEF Cancelled, TypeOK, OnlySessionsCancelled
  <2>3. CASE t = "writer"
    BY <1>9, <2>3 DEF Cancelled, TypeOK
  <2> QED BY <2>1, <2>2, <2>3
<1> QED BY <1>1, <1>2, <1>3, <1>4, <1>5, <1>6, <1>7, <1>8, <1>9 DEF Next, Run

\* Only End leaves tasks behind in an ended endpoint, and it cancels them.
LEMMA LooseEndsInvariant == Spec => []LooseEnds
<1>1. Init => LooseEnds
  BY DEF Init, LooseEnds
<1>2. IInv /\ LooseEnds /\ [Next]_vars => LooseEnds'
  <2> SUFFICES ASSUME IInv, LooseEnds, [Next]_vars, NEW e \in Endpoint
               PROVE  /\ Gone(e)' => endpoint'[e] # "idle"
                      /\ Kind[e] = "monitor" => reader'[e] \notin {"send", "send_error"}
                      /\ server'[e] = "closing" => reader'[e] = "done"
                      /\ endpoint'[e] = "ended" =>
                            /\ reader'[e] # "done" => "reader" \in cancelled'[e]
                            /\ writer'[e] # "done" => "writer" \in cancelled'[e]
                            /\ server'[e] \notin {"none", "done"} => "server" \in cancelled'[e]
    BY DEF LooseEnds
  <2>1. Moves(e)
    BY StepMoves
  <2>2. Gone(e)' => endpoint'[e] # "idle"
    <3>1. CASE Gone(e)
      BY <2>1, <3>1 DEF Moves, LooseEnds
    <3>2. CASE ~Gone(e)
      <4>1. Gone(e)' => endpoint[e] # "idle" /\ endpoint'[e] = endpoint[e]
        BY <3>2 DEF IInv, TypeOK, Next, Run, vars, Accept, Stop, Disconnect, End, Receive,
             ReaderEnds, Pass, Answer, JobAnswer, ServerEnds, JobFails, Taken, SendData,
             WriterEnds, Cancelled
      <4> QED BY <4>1
    <3> QED BY <3>1, <3>2
  <2>3. Kind[e] = "monitor" => reader'[e] \notin {"send", "send_error"}
    BY DEF IInv, TypeOK, LooseEnds, Next, Run, vars, Accept, Stop, Disconnect, End, Receive,
         ReaderEnds, Pass, Answer, JobAnswer, ServerEnds, JobFails, Taken, SendData,
         WriterEnds, Cancelled
  <2>4. ASSUME endpoint'[e] = "ended"
        PROVE  /\ reader'[e] # "done" => "reader" \in cancelled'[e]
               /\ writer'[e] # "done" => "writer" \in cancelled'[e]
               /\ server'[e] \notin {"none", "done"} => "server" \in cancelled'[e]
    <3>1. CASE endpoint[e] = "ended"
      BY <2>1, <3>1 DEF Moves, LooseEnds
    <3>2. CASE endpoint[e] # "ended"
      <4>1. End(e)
        BY <2>4, <3>2 DEF IInv, TypeOK, Next, Run, vars, Accept, Stop, Disconnect, End, Receive,
             ReaderEnds, Pass, Answer, JobAnswer, ServerEnds, JobFails, Taken, SendData,
             WriterEnds, Cancelled
      <4> QED BY <4>1 DEF End, Pending, IInv, TypeOK
    <3> QED BY <3>1, <3>2
  <2>5. server'[e] = "closing" => reader'[e] = "done"
    <3>1. CASE server[e] = "closing"
      BY <2>1, <3>1 DEF Moves, LooseEnds
    <3>2. CASE server[e] # "closing"
      <4>1. server'[e] = "closing" => reader[e] = "done"
        BY <3>2 DEF IInv, TypeOK, Next, Run, vars, Accept, Stop, Disconnect, End, Receive,
             ReaderEnds, Pass, Answer, JobAnswer, ServerEnds, JobFails, Taken, SendData,
             WriterEnds, Cancelled
      <4> QED BY <2>1, <4>1 DEF Moves
    <3> QED BY <3>1, <3>2
  <2> QED BY <2>2, <2>3, <2>4, <2>5
<1>3. QED BY <1>1, <1>2, Invariance, PTL DEF Spec

-----------------------------------------------------------------------------
(* One lemma per wait: it ends.                                            *)

\* Fairness, for one endpoint.
LEMMA FairnessOf ==
    ASSUME NEW e \in Endpoint
    PROVE  Fairness => /\ FairTurns(e)
                       /\ FairEnd(e, "reader") /\ FairEnd(e, "server") /\ FairEnd(e, "writer")
  BY DEF Fairness

\* asyncio.wait returns once a task is done.
LEMMA EndpointNotices ==
    ASSUME NEW e \in Endpoint
    PROVE  Spec /\ []NobodyHeldUp =>
              ((endpoint[e] = "running" /\ SomeDone(e))
                 ~> (endpoint[e] # "running"))
<1>1. IInv /\ (endpoint[e] = "running" /\ SomeDone(e)) /\ [Next]_vars
         => (endpoint[e] = "running" /\ SomeDone(e))' \/ (endpoint[e] # "running")'
  <2> SUFFICES ASSUME IInv, endpoint[e] = "running" /\ SomeDone(e), [Next]_vars
               PROVE  (endpoint[e] = "running" /\ SomeDone(e))' \/ (endpoint[e] # "running")'
    OBVIOUS
  <2>1. Moves(e)
    BY StepMoves
  <2> QED BY <2>1 DEF Moves, IInv, TypeOK, SomeDone
<1>2. IInv /\ (endpoint[e] = "running" /\ SomeDone(e)) /\ <<End(e)>>_vars
         => (endpoint[e] # "running")'
  BY DEF IInv, TypeOK, End, SomeDone
<1>3. NobodyHeldUp /\ (endpoint[e] = "running" /\ SomeDone(e)) => ENABLED <<End(e)>>_vars
  BY DEF NobodyHeldUp, WaitIsOver
<1>4. Fairness => WF_vars(End(e))
  BY FairnessOf, PTL DEF FairTurns
<1>5. QED BY <1>1, <1>2, <1>3, <1>4, Invariance, PTL DEF Spec

\* A reader that waits for a client that is gone ends.
LEMMA ReaderNotices ==
    ASSUME NEW e \in Endpoint
    PROVE  Spec /\ []NobodyHeldUp =>
              ((Gone(e) /\ reader[e] = "receive")
                 ~> (reader[e] = "done"))
<1>1. IInv /\ (Gone(e) /\ reader[e] = "receive") /\ [Next]_vars
         => (Gone(e) /\ reader[e] = "receive")' \/ (reader[e] = "done")'
  <2> SUFFICES ASSUME IInv, Gone(e) /\ reader[e] = "receive", [Next]_vars
               PROVE  (Gone(e) /\ reader[e] = "receive")' \/ (reader[e] = "done")'
    OBVIOUS
  <2>1. Moves(e)
    BY StepMoves
  <2> QED BY <2>1 DEF Moves, IInv, TypeOK
<1>2. IInv /\ (Gone(e) /\ reader[e] = "receive") /\ <<ReaderEnds(e) \/ Pass(e)>>_vars
         => (reader[e] = "done")'
  BY DEF IInv, TypeOK, ReaderEnds, Pass
<1>3. NobodyHeldUp /\ (Gone(e) /\ reader[e] = "receive") => ENABLED <<ReaderEnds(e) \/ Pass(e)>>_vars
  BY DEF NobodyHeldUp, WaitIsOver
<1>4. Fairness => WF_vars(ReaderEnds(e) \/ Pass(e))
  BY FairnessOf, PTL DEF FairTurns
<1>5. QED BY <1>1, <1>2, <1>3, <1>4, Invariance, PTL DEF Spec

\* The session takes what the reader passes on, or ends over it.
LEMMA ReaderMeetsServer ==
    ASSUME NEW e \in Endpoint
    PROVE  Spec /\ []NobodyHeldUp =>
              ((reader[e] \in {"send", "send_error"} /\ server[e] = "receive")
                 ~> (reader[e] \in {"receive", "done"} \/ server[e] = "done"))
<1>1. IInv /\ (reader[e] \in {"send", "send_error"} /\ server[e] = "receive") /\ [Next]_vars
         => (reader[e] \in {"send", "send_error"} /\ server[e] = "receive")' \/ (reader[e] \in {"receive", "done"} \/ server[e] = "done")'
  <2> SUFFICES ASSUME IInv, reader[e] \in {"send", "send_error"} /\ server[e] = "receive", [Next]_vars
               PROVE  (reader[e] \in {"send", "send_error"} /\ server[e] = "receive")' \/ (reader[e] \in {"receive", "done"} \/ server[e] = "done")'
    OBVIOUS
  <2>1. Moves(e)
    BY StepMoves
  <2> QED BY <2>1 DEF Moves, IInv, TypeOK
<1>2. IInv /\ (reader[e] \in {"send", "send_error"} /\ server[e] = "receive") /\ <<ReaderEnds(e) \/ Pass(e)>>_vars
         => (reader[e] \in {"receive", "done"} \/ server[e] = "done")'
  BY DEF IInv, TypeOK, ReaderEnds, Pass
<1>3. NobodyHeldUp /\ (reader[e] \in {"send", "send_error"} /\ server[e] = "receive") => ENABLED <<ReaderEnds(e) \/ Pass(e)>>_vars
  BY DEF NobodyHeldUp, WaitIsOver
<1>4. Fairness => WF_vars(ReaderEnds(e) \/ Pass(e))
  BY FairnessOf, PTL DEF FairTurns
<1>5. QED BY <1>1, <1>2, <1>3, <1>4, Invariance, PTL DEF Spec

\* A reader that waits for a session that has ended ends.
LEMMA ReaderMissesServer ==
    ASSUME NEW e \in Endpoint
    PROVE  Spec /\ []NobodyHeldUp =>
              ((reader[e] \in {"send", "send_error"} /\ server[e] = "done")
                 ~> (reader[e] \in {"receive", "done"}))
<1>1. IInv /\ (reader[e] \in {"send", "send_error"} /\ server[e] = "done") /\ [Next]_vars
         => (reader[e] \in {"send", "send_error"} /\ server[e] = "done")' \/ (reader[e] \in {"receive", "done"})'
  <2> SUFFICES ASSUME IInv, reader[e] \in {"send", "send_error"} /\ server[e] = "done", [Next]_vars
               PROVE  (reader[e] \in {"send", "send_error"} /\ server[e] = "done")' \/ (reader[e] \in {"receive", "done"})'
    OBVIOUS
  <2>1. Moves(e)
    BY StepMoves
  <2> QED BY <2>1 DEF Moves, IInv, TypeOK
<1>2. IInv /\ (reader[e] \in {"send", "send_error"} /\ server[e] = "done") /\ <<ReaderEnds(e) \/ Pass(e)>>_vars
         => (reader[e] \in {"receive", "done"})'
  BY DEF IInv, TypeOK, ReaderEnds, Pass
<1>3. NobodyHeldUp /\ (reader[e] \in {"send", "send_error"} /\ server[e] = "done") => ENABLED <<ReaderEnds(e) \/ Pass(e)>>_vars
  BY DEF NobodyHeldUp, WaitIsOver
<1>4. Fairness => WF_vars(ReaderEnds(e) \/ Pass(e))
  BY FairnessOf, PTL DEF FairTurns
<1>5. QED BY <1>1, <1>2, <1>3, <1>4, Invariance, PTL DEF Spec

\* The writer takes the answer, of the session or of a job.
LEMMA ServerMeetsWriter ==
    ASSUME NEW e \in Endpoint
    PROVE  Spec /\ []NobodyHeldUp =>
              ((server[e] = "answer" /\ writer[e] = "wait")
                 ~> (writer[e] \in {"write", "done"} \/ server[e] = "done"))
<1>1. IInv /\ (server[e] = "answer" /\ writer[e] = "wait") /\ [Next]_vars
         => (server[e] = "answer" /\ writer[e] = "wait")' \/ (writer[e] \in {"write", "done"} \/ server[e] = "done")'
  <2> SUFFICES ASSUME IInv, server[e] = "answer" /\ writer[e] = "wait", [Next]_vars
               PROVE  (server[e] = "answer" /\ writer[e] = "wait")' \/ (writer[e] \in {"write", "done"} \/ server[e] = "done")'
    OBVIOUS
  <2>1. Moves(e)
    BY StepMoves
  <2> QED BY <2>1 DEF Moves, IInv, TypeOK
<1>2. IInv /\ (server[e] = "answer" /\ writer[e] = "wait") /\ <<Answer(e) \/ ServerEnds(e)>>_vars
         => (writer[e] \in {"write", "done"} \/ server[e] = "done")'
  BY DEF IInv, TypeOK, Answer, ServerEnds
<1>3. NobodyHeldUp /\ (server[e] = "answer" /\ writer[e] = "wait") => ENABLED <<Answer(e) \/ ServerEnds(e)>>_vars
  BY DEF NobodyHeldUp, WaitIsOver
<1>4. Fairness => WF_vars(Answer(e) \/ ServerEnds(e))
  BY FairnessOf, PTL DEF FairTurns
<1>5. QED BY <1>1, <1>2, <1>3, <1>4, Invariance, PTL DEF Spec

\* A session that waits for a writer that has ended ends.
LEMMA ServerMissesWriter ==
    ASSUME NEW e \in Endpoint
    PROVE  Spec /\ []NobodyHeldUp =>
              ((server[e] = "answer" /\ writer[e] = "done")
                 ~> (server[e] = "done"))
<1>1. IInv /\ (server[e] = "answer" /\ writer[e] = "done") /\ [Next]_vars
         => (server[e] = "answer" /\ writer[e] = "done")' \/ (server[e] = "done")'
  <2> SUFFICES ASSUME IInv, server[e] = "answer" /\ writer[e] = "done", [Next]_vars
               PROVE  (server[e] = "answer" /\ writer[e] = "done")' \/ (server[e] = "done")'
    OBVIOUS
  <2>1. Moves(e)
    BY StepMoves
  <2> QED BY <2>1 DEF Moves, IInv, TypeOK
<1>2. IInv /\ (server[e] = "answer" /\ writer[e] = "done") /\ <<Answer(e) \/ ServerEnds(e)>>_vars
         => (server[e] = "done")'
  BY DEF IInv, TypeOK, Answer, ServerEnds
<1>3. NobodyHeldUp /\ (server[e] = "answer" /\ writer[e] = "done") => ENABLED <<Answer(e) \/ ServerEnds(e)>>_vars
  BY DEF NobodyHeldUp, WaitIsOver
<1>4. Fairness => WF_vars(Answer(e) \/ ServerEnds(e))
  BY FairnessOf, PTL DEF FairTurns
<1>5. QED BY <1>1, <1>2, <1>3, <1>4, Invariance, PTL DEF Spec

\* A session whose reader has ended closes its streams.
LEMMA ServerMissesReader ==
    ASSUME NEW e \in Endpoint
    PROVE  Spec /\ []NobodyHeldUp =>
              ((server[e] = "receive" /\ reader[e] = "done")
                 ~> (server[e] \in {"closing", "done"}))
<1>1. IInv /\ (server[e] = "receive" /\ reader[e] = "done") /\ [Next]_vars
         => (server[e] = "receive" /\ reader[e] = "done")' \/ (server[e] \in {"closing", "done"})'
  <2> SUFFICES ASSUME IInv, server[e] = "receive" /\ reader[e] = "done", [Next]_vars
               PROVE  (server[e] = "receive" /\ reader[e] = "done")' \/ (server[e] \in {"closing", "done"})'
    OBVIOUS
  <2>1. Moves(e)
    BY StepMoves
  <2> QED BY <2>1 DEF Moves, IInv, TypeOK
<1>2. IInv /\ (server[e] = "receive" /\ reader[e] = "done") /\ <<Answer(e) \/ ServerEnds(e)>>_vars
         => (server[e] \in {"closing", "done"})'
  BY DEF IInv, TypeOK, Answer, ServerEnds
<1>3. NobodyHeldUp /\ (server[e] = "receive" /\ reader[e] = "done") => ENABLED <<Answer(e) \/ ServerEnds(e)>>_vars
  BY DEF NobodyHeldUp, WaitIsOver
<1>4. Fairness => WF_vars(Answer(e) \/ ServerEnds(e))
  BY FairnessOf, PTL DEF FairTurns
<1>5. QED BY <1>1, <1>2, <1>3, <1>4, Invariance, PTL DEF Spec

\* Sending to a client that is gone fails.
LEMMA WriterNotices ==
    ASSUME NEW e \in Endpoint
    PROVE  Spec /\ []NobodyHeldUp =>
              ((Gone(e) /\ writer[e] = "write")
                 ~> (writer[e] = "done"))
<1>1. IInv /\ (Gone(e) /\ writer[e] = "write") /\ [Next]_vars
         => (Gone(e) /\ writer[e] = "write")' \/ (writer[e] = "done")'
  <2> SUFFICES ASSUME IInv, Gone(e) /\ writer[e] = "write", [Next]_vars
               PROVE  (Gone(e) /\ writer[e] = "write")' \/ (writer[e] = "done")'
    OBVIOUS
  <2>1. Moves(e)
    BY StepMoves
  <2> QED BY <2>1 DEF Moves, IInv, TypeOK
<1>2. IInv /\ (Gone(e) /\ writer[e] = "write") /\ <<WriterEnds(e) \/ SendData(e)>>_vars
         => (writer[e] = "done")'
  BY DEF IInv, TypeOK, WriterEnds, SendData, SendFails
<1>3. NobodyHeldUp /\ (Gone(e) /\ writer[e] = "write") => ENABLED <<WriterEnds(e) \/ SendData(e)>>_vars
  BY DEF NobodyHeldUp, WaitIsOver
<1>4. Fairness => WF_vars(WriterEnds(e) \/ SendData(e))
  BY FairnessOf, PTL DEF FairTurns
<1>5. QED BY <1>1, <1>2, <1>3, <1>4, Invariance, PTL DEF Spec

\* A writer whose session has closed its streams ends.
LEMMA WriterMissesServer ==
    ASSUME NEW e \in Endpoint
    PROVE  Spec /\ []NobodyHeldUp =>
              ((Kind[e] = "mcp" /\ writer[e] = "wait" /\ server[e] \in {"closing", "done"})
                 ~> (writer[e] = "done"))
<1>1. IInv /\ (Kind[e] = "mcp" /\ writer[e] = "wait" /\ server[e] \in {"closing", "done"}) /\ [Next]_vars
         => (Kind[e] = "mcp" /\ writer[e] = "wait" /\ server[e] \in {"closing", "done"})' \/ (writer[e] = "done")'
  <2> SUFFICES ASSUME IInv, Kind[e] = "mcp" /\ writer[e] = "wait" /\ server[e] \in {"closing", "done"}, [Next]_vars
               PROVE  (Kind[e] = "mcp" /\ writer[e] = "wait" /\ server[e] \in {"closing", "done"})' \/ (writer[e] = "done")'
    OBVIOUS
  <2>1. Moves(e)
    BY StepMoves
  <2> QED BY <2>1 DEF Moves, IInv, TypeOK
<1>2. IInv /\ (Kind[e] = "mcp" /\ writer[e] = "wait" /\ server[e] \in {"closing", "done"}) /\ <<WriterEnds(e) \/ SendData(e)>>_vars
         => (writer[e] = "done")'
  BY DEF IInv, TypeOK, WriterEnds, SendData, SendFails
<1>3. NobodyHeldUp /\ (Kind[e] = "mcp" /\ writer[e] = "wait" /\ server[e] \in {"closing", "done"}) => ENABLED <<WriterEnds(e) \/ SendData(e)>>_vars
  BY DEF NobodyHeldUp, WaitIsOver
<1>4. Fairness => WF_vars(WriterEnds(e) \/ SendData(e))
  BY FairnessOf, PTL DEF FairTurns
<1>5. QED BY <1>1, <1>2, <1>3, <1>4, Invariance, PTL DEF Spec

\* A monitor sends again.
LEMMA MonitorSends ==
    ASSUME NEW e \in Endpoint
    PROVE  Spec /\ []NobodyHeldUp =>
              ((Kind[e] = "monitor" /\ writer[e] = "wait")
                 ~> (writer[e] \in {"write", "done"}))
<1>1. IInv /\ (Kind[e] = "monitor" /\ writer[e] = "wait") /\ [Next]_vars
         => (Kind[e] = "monitor" /\ writer[e] = "wait")' \/ (writer[e] \in {"write", "done"})'
  <2> SUFFICES ASSUME IInv, Kind[e] = "monitor" /\ writer[e] = "wait", [Next]_vars
               PROVE  (Kind[e] = "monitor" /\ writer[e] = "wait")' \/ (writer[e] \in {"write", "done"})'
    OBVIOUS
  <2>1. Moves(e)
    BY StepMoves
  <2> QED BY <2>1 DEF Moves, IInv, TypeOK
<1>2. IInv /\ (Kind[e] = "monitor" /\ writer[e] = "wait") /\ <<WriterEnds(e) \/ SendData(e)>>_vars
         => (writer[e] \in {"write", "done"})'
  BY DEF IInv, TypeOK, WriterEnds, SendData, SendFails
<1>3. NobodyHeldUp /\ (Kind[e] = "monitor" /\ writer[e] = "wait") => ENABLED <<WriterEnds(e) \/ SendData(e)>>_vars
  BY DEF NobodyHeldUp, WaitIsOver
<1>4. Fairness => WF_vars(WriterEnds(e) \/ SendData(e))
  BY FairnessOf, PTL DEF FairTurns
<1>5. QED BY <1>1, <1>2, <1>3, <1>4, Invariance, PTL DEF Spec

\* A cancelled reader ends.
LEMMA CancelledReaderEnds ==
    ASSUME NEW e \in Endpoint
    PROVE  Spec /\ []NobodyHeldUp => ("reader" \in cancelled[e] ~> reader[e] = "done")
<1>1. IInv /\ "reader" \in cancelled[e] /\ [Next]_vars => ("reader" \in cancelled[e])' \/ (reader[e] = "done")'
  BY StepMoves DEF Moves
<1>2. IInv /\ "reader" \in cancelled[e] /\ <<Cancelled(e, "reader")>>_vars => (reader[e] = "done")'
  BY DEF IInv, TypeOK, Cancelled
<1>3. NobodyHeldUp /\ "reader" \in cancelled[e] => MayEnd(e, "reader")
  BY DEF NobodyHeldUp
<1>4. Fairness => WF_vars(Cancelled(e, "reader"))
  BY FairnessOf, PTL DEF FairEnd
<1>5. QED BY <1>1, <1>2, <1>3, <1>4, Invariance, PTL DEF Spec, MayEnd

\* A cancelled server ends.
LEMMA CancelledServerEnds ==
    ASSUME NEW e \in Endpoint
    PROVE  Spec /\ []NobodyHeldUp => ("server" \in cancelled[e] ~> server[e] = "done")
<1>1. IInv /\ "server" \in cancelled[e] /\ [Next]_vars => ("server" \in cancelled[e])' \/ (server[e] = "done")'
  BY StepMoves DEF Moves
<1>2. IInv /\ "server" \in cancelled[e] /\ <<Cancelled(e, "server")>>_vars => (server[e] = "done")'
  BY DEF IInv, TypeOK, Cancelled
<1>3. NobodyHeldUp /\ "server" \in cancelled[e] => MayEnd(e, "server")
  BY DEF NobodyHeldUp
<1>4. Fairness => WF_vars(Cancelled(e, "server"))
  BY FairnessOf, PTL DEF FairEnd
<1>5. QED BY <1>1, <1>2, <1>3, <1>4, Invariance, PTL DEF Spec, MayEnd

\* A cancelled writer ends.
LEMMA CancelledWriterEnds ==
    ASSUME NEW e \in Endpoint
    PROVE  Spec /\ []NobodyHeldUp => ("writer" \in cancelled[e] ~> writer[e] = "done")
<1>1. IInv /\ "writer" \in cancelled[e] /\ [Next]_vars => ("writer" \in cancelled[e])' \/ (writer[e] = "done")'
  BY StepMoves DEF Moves
<1>2. IInv /\ "writer" \in cancelled[e] /\ <<Cancelled(e, "writer")>>_vars => (writer[e] = "done")'
  BY DEF IInv, TypeOK, Cancelled
<1>3. NobodyHeldUp /\ "writer" \in cancelled[e] => MayEnd(e, "writer")
  BY DEF NobodyHeldUp
<1>4. Fairness => WF_vars(Cancelled(e, "writer"))
  BY FairnessOf, PTL DEF FairEnd
<1>5. QED BY <1>1, <1>2, <1>3, <1>4, Invariance, PTL DEF Spec, MayEnd

-----------------------------------------------------------------------------
(* The waits put together.                                                 *)

\* The states of one endpoint, and what never goes back, for the temporal proofs.
StatesOf(e) ==
    /\ reader[e] \in ReaderStates /\ server[e] \in ServerStates /\ writer[e] \in WriterStates
    /\ Gone(e) => endpoint[e] # "idle"
    /\ endpoint[e] # "idle" => reader[e] # "none" /\ writer[e] # "none"
    /\ endpoint[e] # "idle" => (server[e] = "none" <=> Kind[e] = "monitor")
    /\ Kind[e] = "monitor" => reader[e] \notin {"send", "send_error"}
    /\ server[e] = "closing" => reader[e] = "done" /\ jobs[e] > 0

LEMMA StatesAlways == ASSUME NEW e \in Endpoint PROVE Spec => []StatesOf(e)
<1>1. IInv /\ LooseEnds => StatesOf(e)
  BY DEF IInv, TypeOK, LooseEnds, StatesOf
<1>2. QED BY <1>1, Invariance, LooseEndsInvariant, PTL

LEMMA DoneStays ==
    ASSUME NEW e \in Endpoint
    PROVE  Spec => /\ [](Gone(e) => []Gone(e))
                   /\ [](reader[e] = "done" => [](reader[e] = "done"))
                   /\ [](server[e] = "done" => [](server[e] = "done"))
                   /\ [](writer[e] = "done" => [](writer[e] = "done"))
                   /\ [](endpoint[e] = "ended" => [](endpoint[e] = "ended"))
                   /\ [](endpoint[e] = "stopped" => [](endpoint[e] = "stopped"))
<1>1. IInv /\ [Next]_vars => /\ Gone(e) => Gone(e)'
                             /\ reader[e] = "done" => (reader[e] = "done")'
                             /\ server[e] = "done" => (server[e] = "done")'
                             /\ writer[e] = "done" => (writer[e] = "done")'
                             /\ endpoint[e] = "ended" => (endpoint[e] = "ended")'
                             /\ endpoint[e] = "stopped" => (endpoint[e] = "stopped")'
  BY StepMoves DEF Moves
<1>2. QED BY <1>1, Invariance, PTL DEF Spec

\* The reader ends once the client is gone: at once, over a session that has ended,
\* or when the session and the writer have let it go.
LEMMA ReaderStops ==
    ASSUME NEW e \in Endpoint
    PROVE  Spec /\ []NobodyHeldUp => (Gone(e) ~> reader[e] = "done")
<1> DEFINE Sending == reader[e] \in {"send", "send_error"}
           Held    == Gone(e) /\ Sending
<1>1. StatesOf(e) /\ Gone(e) => reader[e] = "receive" \/ reader[e] = "done" \/ Held
  BY DEF StatesOf
<1>2. StatesOf(e) /\ Held => \/ server[e] = "done"
                             \/ Sending /\ server[e] = "receive"
                             \/ server[e] = "answer"
  BY DEF StatesOf
<1>3. StatesOf(e) /\ Gone(e) => writer[e] = "wait" \/ writer[e] = "write" \/ writer[e] = "done"
  BY DEF StatesOf
<1>4. reader[e] \in {"receive", "done"} => reader[e] = "receive" \/ reader[e] = "done"
  OBVIOUS
<1>5. writer[e] \in {"write", "done"} => writer[e] = "write" \/ writer[e] = "done"
  OBVIOUS
<1> HIDE DEF Sending
<1>6. Sending <=> reader[e] \in {"send", "send_error"}
  BY DEF Sending
<1> USE DEF Held
<1>7. Spec /\ []NobodyHeldUp => (Gone(e) /\ server[e] = "done" ~> reader[e] = "done")
  BY <1>1, <1>4, <1>6, ReaderNotices, ReaderMissesServer, DoneStays, StatesAlways, PTL
<1>8. Spec /\ []NobodyHeldUp => (Gone(e) /\ server[e] = "receive" ~> reader[e] = "done")
  BY <1>1, <1>4, <1>6, <1>7, ReaderNotices, ReaderMeetsServer, DoneStays, StatesAlways, PTL
<1>9. Spec /\ []NobodyHeldUp =>
         (Gone(e) /\ server[e] = "answer" /\ writer[e] = "done" ~> reader[e] = "done")
  BY <1>7, ServerMissesWriter, DoneStays, PTL
<1>10. Spec /\ []NobodyHeldUp => (Gone(e) /\ writer[e] = "done" ~> reader[e] = "done")
  BY <1>1, <1>2, <1>7, <1>8, <1>9, ReaderNotices, DoneStays, StatesAlways, PTL
<1>11. Spec /\ []NobodyHeldUp => (Gone(e) /\ writer[e] = "write" ~> reader[e] = "done")
  BY <1>10, WriterNotices, DoneStays, PTL
<1>12. Spec /\ []NobodyHeldUp =>
         (Gone(e) /\ server[e] = "answer" /\ writer[e] = "wait" ~> reader[e] = "done")
  BY <1>5, <1>7, <1>10, <1>11, ServerMeetsWriter, DoneStays, PTL
<1>13. QED
  BY <1>1, <1>2, <1>3, <1>7, <1>8, <1>10, <1>11, <1>12, ReaderNotices, DoneStays,
     StatesAlways, PTL

\* Once the reader has ended, the session closes its streams, if it does not end.
LEMMA ServerStops ==
    ASSUME NEW e \in Endpoint
    PROVE  Spec /\ []NobodyHeldUp => (Gone(e) ~> server[e] \in {"none", "closing", "done"})
<1>1. StatesOf(e) /\ Gone(e) => \/ server[e] \in {"none", "closing", "done"}
                                \/ server[e] = "receive" \/ server[e] = "answer"
  BY DEF StatesOf
<1>2. StatesOf(e) /\ Gone(e) => writer[e] = "wait" \/ writer[e] = "write" \/ writer[e] = "done"
  BY DEF StatesOf
<1>3. /\ server[e] = "done" => server[e] \in {"none", "closing", "done"}
      /\ server[e] \in {"closing", "done"} => server[e] \in {"none", "closing", "done"}
      /\ writer[e] \in {"write", "done"} => writer[e] = "write" \/ writer[e] = "done"
  OBVIOUS
<1>4. Spec /\ []NobodyHeldUp =>
         (Gone(e) /\ writer[e] = "done" ~> server[e] \in {"none", "closing", "done"})
  BY <1>1, <1>3, ReaderStops, ServerMissesReader, ServerMissesWriter, DoneStays,
     StatesAlways, PTL
<1>5. Spec /\ []NobodyHeldUp =>
         (Gone(e) /\ writer[e] = "write" ~> server[e] \in {"none", "closing", "done"})
  BY <1>4, WriterNotices, DoneStays, PTL
<1>6. QED
  BY <1>1, <1>2, <1>3, <1>4, <1>5, ReaderStops, ServerMissesReader, ServerMeetsWriter,
     DoneStays, StatesAlways, PTL

\* Once the session has closed its streams, or without one, the writer ends.
LEMMA WriterStops ==
    ASSUME NEW e \in Endpoint
    PROVE  Spec /\ []NobodyHeldUp => (Gone(e) ~> writer[e] = "done")
<1>1. StatesOf(e) /\ Gone(e) => writer[e] = "wait" \/ writer[e] = "write" \/ writer[e] = "done"
  BY DEF StatesOf
<1>2. /\ StatesOf(e) /\ Gone(e) /\ server[e] \in {"none", "closing", "done"} =>
            Kind[e] = "monitor" \/ (Kind[e] = "mcp" /\ server[e] \in {"closing", "done"})
      /\ writer[e] \in {"write", "done"} => writer[e] = "write" \/ writer[e] = "done"
  BY DEF StatesOf
<1>3. QED
  BY <1>1, <1>2, ServerStops, WriterNotices, WriterMissesServer, MonitorSends, DoneStays,
     StatesAlways, PTL

\* The end of an endpoint is the end of its tasks.
LEMMA EndedStops ==
    ASSUME NEW e \in Endpoint
    PROVE  Spec /\ []NobodyHeldUp =>
              (endpoint[e] = "ended" ~> AllDone(e))
<1>1. LooseEnds /\ endpoint[e] = "ended" =>
          /\ reader[e] = "done" \/ "reader" \in cancelled[e]
          /\ writer[e] = "done" \/ "writer" \in cancelled[e]
          /\ server[e] \in {"none", "done"} \/ "server" \in cancelled[e]
  BY DEF LooseEnds
<1>2. IInv /\ endpoint[e] = "ended" /\ server[e] \in {"none", "done"} /\ [Next]_vars
         => (server[e] \in {"none", "done"})'
  BY StepMoves DEF Moves
<1>3. server[e] = "done" => server[e] \in {"none", "done"}
  OBVIOUS
<1>4. QED
  BY <1>1, <1>2, <1>3, CancelledReaderEnds, CancelledWriterEnds, CancelledServerEnds,
     LooseEndsInvariant, Invariance, DoneStays, PTL DEF Spec, AllDone

\* An endpoint whose client is gone waits no longer than for its reader.
LEMMA EndpointStops ==
    ASSUME NEW e \in Endpoint
    PROVE  Spec /\ []NobodyHeldUp => (Gone(e) ~> endpoint[e] # "running")
<1>1. /\ reader[e] = "done" => SomeDone(e)
      /\ endpoint[e] = "running" \/ endpoint[e] # "running"
  BY DEF SomeDone
<1>2. QED BY <1>1, ReaderStops, EndpointNotices, DoneStays, PTL

\* An endpoint whose client is gone comes to its end (mcp_endpoint, monitor_endpoint,
\* _create_new_mcp, _run), although its reader may be waiting for the session, the
\* session for the writer and the writer for that client.
THEOREM EndpointsEnd == Spec /\ []NobodyHeldUp => EndpointEnds
BY EndpointStops DEF EndpointEnds

\* The tasks of an endpoint that has ended (_run, monitor_endpoint) all end, though
\* asyncio.wait leaves the cancelled ones without awaiting them; those of one that was
\* cancelled end when the client is gone, but for a _run_server whose session waits for
\* tool calls.
THEOREM TasksEnd == Spec /\ []NobodyHeldUp => NoTaskLeft
<1>1. ASSUME NEW e \in Endpoint
      PROVE  Spec /\ []NobodyHeldUp => (Gone(e) ~> AllDone(e) \/ LeftToTools(e))
  <2> DEFINE Closed == server[e] \in {"none", "closing", "done"}
  <2>1. IInv /\ endpoint[e] # "idle" /\ Closed /\ [Next]_vars => Closed'
    BY StepMoves DEF Moves
  <2>2. IInv /\ endpoint[e] # "idle" /\ [Next]_vars => (endpoint[e] # "idle")'
    BY StepMoves DEF Moves
  <2>3. StatesOf(e) /\ Gone(e) => endpoint[e] # "idle"
    BY DEF StatesOf
  <2>4. IInv /\ endpoint[e] # "idle" /\ endpoint[e] # "running" =>
           endpoint[e] = "ended" \/ endpoint[e] = "stopped"
    BY DEF IInv, TypeOK
  <2>5. StatesOf(e) /\ reader[e] = "done" /\ writer[e] = "done" /\ Closed /\ endpoint[e] = "stopped"
           => AllDone(e) \/ LeftToTools(e)
    BY DEF StatesOf, AllDone, LeftToTools
  <2>6. server[e] \in {"none", "closing", "done"} <=> Closed
    OBVIOUS
  <2> HIDE DEF Closed
  <2>7. Spec /\ []NobodyHeldUp =>
           (Gone(e) ~> [](reader[e] = "done" /\ writer[e] = "done" /\ Closed))
    BY <2>1, <2>2, <2>3, <2>6, ReaderStops, ServerStops, WriterStops, DoneStays,
       StatesAlways, Invariance, PTL DEF Spec
  <2>8. QED
    BY <2>2, <2>3, <2>4, <2>5, <2>7, EndpointStops, EndedStops, DoneStays, StatesAlways, Invariance,
       PTL DEF Spec
<1>2. Spec /\ []NobodyHeldUp => \A e \in Endpoint : endpoint[e] = "ended" ~> AllDone(e)
  BY EndedStops
<1>3. Spec /\ []NobodyHeldUp => \A e \in Endpoint : Gone(e) ~> AllDone(e) \/ LeftToTools(e)
  BY <1>1
<1>4. QED BY <1>2, <1>3 DEF NoTaskLeft

=============================================================================
