-------------------------- MODULE SipsorceryEchoProofs --------------------------
(***************************************************************************)
(* Proofs about the sipsorcery server, for any finite set of requests and   *)
(* any timeout, and about the client against it.                            *)
(***************************************************************************)
EXTENDS SipsorceryEcho, FiniteSetTheorems, TLAPS

--------------------------------------------------------------------------------
(* The close timer of the server.                                           *)

\* A timer exists exactly from ArmTimer on, and one that is done with has left a
\* closed connection.
Guarded(r) ==
    /\ task[r] \in {"hook", "done"} /\ PcTimeout # 0 => timer[r] # "none"
    /\ task[r] \notin {"hook", "done"} => timer[r] = "none"
    /\ timer[r] \in {"fired", "disposed"} => pc[r] = "closed"

ServerInv == TypeOK /\ \A r \in Requests : Guarded(r)

\* One step of the server keeps ServerInv.
LEMMA ServerInvStep == ServerInv /\ [Next]_vars => ServerInv'
<1> SUFFICES ASSUME ServerInv, [Next]_vars PROVE ServerInv'
  OBVIOUS
<1> USE DEF ServerInv, TypeOK, Guarded, Move
<1>1. ASSUME NEW r \in Requests, Accept(r) \/ BadBody(r) \/ Refused(r) PROVE ServerInv'
  BY <1>1 DEF Accept, BadBody, Refused
<1>2. ASSUME NEW r \in Requests, Throws(r) PROVE ServerInv'
  BY <1>2 DEF Throws
<1>3. ASSUME NEW r \in Requests, RemoteSet(r) \/ LocalSet(r) \/ WriteAnswer(r) PROVE ServerInv'
  BY <1>3 DEF RemoteSet, LocalSet, WriteAnswer
<1>4. ASSUME NEW r \in Requests, NewPeerConnection(r) PROVE ServerInv'
  BY <1>4 DEF NewPeerConnection
<1>5. ASSUME NEW r \in Requests, ArmTimer(r) PROVE ServerInv'
  BY <1>5 DEF ArmTimer
<1>6. ASSUME NEW r \in Requests, HookDispose(r) PROVE ServerInv'
  BY <1>6 DEF HookDispose
<1>7. ASSUME NEW r \in Requests, Fire(r) \/ TimedOut(r) PROVE ServerInv'
  BY <1>7 DEF Fire, TimedOut
<1>8. ASSUME NEW r \in Requests, ConnectionFails(r) PROVE ServerInv'
  BY <1>8 DEF ConnectionFails
<1>9. ASSUME NEW r \in Requests, OnFailed(r) PROVE ServerInv'
  BY <1>9 DEF OnFailed, ClosePc
<1>10. CASE Stop \/ UNCHANGED vars
  BY <1>10 DEF Stop, vars
<1> QED
  BY <1>1, <1>2, <1>3, <1>4, <1>5, <1>6, <1>7, <1>8, <1>9, <1>10 DEF Next, Step

\* It holds at the start.
LEMMA ServerInvInit == Init => ServerInv
  BY DEF Init, ServerInv, TypeOK, Guarded

\* Neither a failing connection nor the order of Close and OnClosed += Dispose
\* takes the timer from an open connection.
THEOREM TimerGuards == Spec => []OpenIsGuarded
<1>1. ServerInv => OpenIsGuarded
  BY DEF ServerInv, TypeOK, Guarded, OpenIsGuarded
<1> QED
  BY <1>1, ServerInvInit, ServerInvStep, PTL DEF Spec

--------------------------------------------------------------------------------
(* The abstract offer/answer service.                                       *)

\* The abstract state.
Statuses == [r \in Requests |-> Status(r)]

\* Every step of the server is a step of the abstract service, or none of it.
LEMMA OfferAnswerSimulation == TypeOK /\ [Next]_vars => [OA!Next]_(OA!vars)
<1> SUFFICES ASSUME TypeOK, [Next]_vars PROVE [OA!Next]_(OA!vars)
  OBVIOUS
<1> USE DEF TypeOK
<1>a. ASSUME UNCHANGED up, \A r \in Requests : Status(r)' = Status(r) PROVE UNCHANGED OA!vars
  BY <1>a DEF OA!vars
<1>b. ASSUME NEW r \in Requests, NEW from, NEW to, Move(r, from, to), UNCHANGED up
      PROVE  /\ up
             /\ \A q \in Requests \ {r} : Status(q)' = Status(q)
             /\ Statuses' = [Statuses EXCEPT ![r] = Status(r)']
  <2>1. \A q \in Requests \ {r} : task'[q] = task[q]
    BY <1>b DEF Move
  <2>2. \A q \in Requests \ {r} : Status(q)' = Status(q)
    BY <2>1 DEF Status
  <2> QED
    BY <1>b, <2>2 DEF Statuses, Move
<1>1. ASSUME NEW r \in Requests, Accept(r) PROVE OA!Next
  <2>1. Status(r) = "idle" /\ Status(r)' = "open" /\ up /\ UNCHANGED up
    BY <1>1 DEF Accept, Move, Status
  <2>2. Statuses' = [Statuses EXCEPT ![r] = "open"]
    BY <1>1, <1>b, <2>1 DEF Accept
  <2>3. OA!Open \subseteq Requests /\ OA!Open # Requests
    BY <2>1 DEF OA!Open
  <2>4. Cardinality(OA!Open) < Cardinality(Requests)
    BY <2>3, RequestsAssumption, FS_Subset, FS_CardinalityType
  <2>5. OA!Cardinality(OA!Open) = Cardinality(OA!Open)
    BY DEF OA!Cardinality, Cardinality, OA!IsFiniteSet, IsFiniteSet
  <2>6. OA!Accept(r)
    BY <2>1, <2>2, <2>4, <2>5 DEF OA!Accept, Statuses
  <2> QED
    BY <2>6 DEF OA!Next
<1>2. ASSUME NEW r \in Requests, BadBody(r) \/ Throws(r) \/ Refused(r) PROVE OA!Next
  <2>1. Status(r) = "open" /\ Status(r)' = "refused" /\ up /\ UNCHANGED up
    BY <1>2 DEF BadBody, Throws, Refused, Move, Status
  <2>2. Statuses' = [Statuses EXCEPT ![r] = "refused"]
    BY <1>2, <1>b, <2>1 DEF BadBody, Throws, Refused
  <2>3. OA!Refuse(r)
    BY <2>1, <2>2 DEF OA!Refuse, Statuses
  <2> QED
    BY <2>3 DEF OA!Next
<1>3. ASSUME NEW r \in Requests, WriteAnswer(r) PROVE OA!Next
  <2>1. Status(r) = "open" /\ Status(r)' = "answered" /\ up /\ UNCHANGED up
    BY <1>3 DEF WriteAnswer, Move, Status
  <2>2. Statuses' = [Statuses EXCEPT ![r] = "answered"]
    BY <1>3, <1>b, <2>1 DEF WriteAnswer
  <2>3. OA!Answer(r)
    BY <2>1, <2>2 DEF OA!Answer, Statuses
  <2> QED
    BY <2>3 DEF OA!Next
<1>4. ASSUME NEW r \in Requests,
             NewPeerConnection(r) \/ RemoteSet(r) \/ LocalSet(r) \/ ArmTimer(r) \/ HookDispose(r)
      PROVE  UNCHANGED OA!vars
  <2>1. Status(r)' = Status(r) /\ UNCHANGED up
    BY <1>4 DEF NewPeerConnection, RemoteSet, LocalSet, ArmTimer, HookDispose, Move, Status
  <2>2. \A q \in Requests \ {r} : Status(q)' = Status(q)
    BY <1>4, <1>b DEF NewPeerConnection, RemoteSet, LocalSet, ArmTimer, HookDispose
  <2> QED
    BY <1>a, <2>1, <2>2
<1>5. ASSUME NEW r \in Requests, Fire(r) \/ TimedOut(r) \/ ConnectionFails(r) \/ OnFailed(r)
      PROVE  UNCHANGED OA!vars
  <2>1. UNCHANGED <<up, task>>
    BY <1>5 DEF Fire, TimedOut, ConnectionFails, OnFailed
  <2> QED
    BY <1>a, <2>1 DEF Status
<1>6. CASE Stop
  <2>1. up /\ ~up' /\ UNCHANGED task
    BY <1>6 DEF Stop
  <2>2. \A r \in Requests : Status(r)' = Status(r)
    BY <2>1 DEF Status
  <2>3. OA!Down
    BY <1>6, <2>1, <2>2 DEF OA!Down, Stop
  <2> QED
    BY <2>3 DEF OA!Next
<1>7. CASE UNCHANGED vars
  BY <1>7, <1>a DEF vars, Status
<1> QED
  BY <1>1, <1>2, <1>3, <1>4, <1>5, <1>6, <1>7 DEF Next, Step

\* Each request is replied to at most once and by a running server.
THEOREM OfferAnswerImplemented == Spec => ImplementsOfferAnswer
<1>1. Init => OA!Init
  BY DEF Init, OA!Init, Status
<1>2. ServerInv => TypeOK
  BY DEF ServerInv
<1> QED
  BY <1>1, <1>2, ServerInvInit, ServerInvStep, OfferAnswerSimulation, PTL
     DEF Spec, ImplementsOfferAnswer, OA!Spec

--------------------------------------------------------------------------------
(* The client against the server.                                           *)

\* Every step of the two together is one of the server, or none of it.
LEMMA ServerSide == [EchoNext]_echoVars => [Next]_vars
<1>1. ASSUME Deliver PROVE Next
  BY <1>1, MineAssumption DEF Deliver, Serve, Next
<1>2. ASSUME NEW r \in Requests, Serve(Accept(r)) \/ Serve(Step(r)) PROVE Next
  BY <1>2 DEF Serve, Next
<1>3. ASSUME Serve(Stop) PROVE Next
  BY <1>3 DEF Serve, Next
<1>4. ASSUME \/ Reply \/ ApplyAnswer \/ Connection \/ Message
             \/ Run(C!MainStep) \/ Run(C!Callback) \/ Run(C!OnOpen)
      PROVE  UNCHANGED vars
  BY <1>4 DEF Reply, ApplyAnswer, Connection, Message, Run
<1> QED
  BY <1>1, <1>2, <1>3, <1>4 DEF EchoNext, echoVars

\* And one of the client, or none of it.
LEMMA ClientSide == [EchoNext]_echoVars => UNCHANGED peer /\ [C!Next]_clientVars
<1> SUFFICES ASSUME [EchoNext]_echoVars PROVE UNCHANGED peer /\ [C!Next]_clientVars
  OBVIOUS
<1>1. ASSUME Deliver \/ Serve(Stop) \/ \E r \in Requests : Serve(Accept(r)) \/ Serve(Step(r))
      PROVE  UNCHANGED <<clientVars, peer>>
  BY <1>1 DEF Deliver, Serve
<1>2. ASSUME \/ Reply \/ ApplyAnswer \/ Connection \/ Message
             \/ Run(C!MainStep) \/ Run(C!Callback) \/ Run(C!OnOpen)
      PROVE  UNCHANGED peer /\ C!Next
  BY <1>2 DEF Reply, ApplyAnswer, Connection, Message, Run, C!Next
<1> QED
  BY <1>1, <1>2 DEF EchoNext, echoVars

\* Nothing happens to the connection before Main has the reply.
Untouched == conn = "new" /\ notice = "none" /\ ~testComplete /\ ~pendingSet

\* success says that the condition of the test was met, and the event, as long as
\* the connection is open, that success was assigned.
ClientInv ==
    /\ C!TypeOK
    /\ exit = "running" <=> main # "exited"
    /\ main \in {"setup", "post", "apply"} => Untouched
    /\ success => C!Met
    /\ notice = "connected" => handshake
    /\ pendingSet => success
    /\ testComplete /\ conn # "closed" => success
    /\ exit = "success" => success

\* One step of the client keeps ClientInv.
LEMMA ClientInvStep == ClientInv /\ [C!Next]_clientVars => ClientInv'
<1> SUFFICES ASSUME ClientInv, [C!Next]_clientVars PROVE ClientInv'
  OBVIOUS
<1> USE DEF ClientInv, Untouched, C!TypeOK, C!Met, C!link, clientVars
<1>1. CASE C!Setup \/ C!Post \/ C!Start
  BY <1>1 DEF C!Setup, C!Post, C!Start, C!Proceed
<1>2. CASE C!Apply
  BY <1>2 DEF C!Apply, C!Proceed
<1>3. CASE C!Hook \/ C!Woken \/ C!Timeout \/ C!Delay
  <2>1. UNCHANGED <<testType, success, testComplete, conn, handshake, notice, dc, pendingSet, exit>>
    BY <1>3 DEF C!Hook, C!Woken, C!Timeout, C!Delay
  <2>2. cOnClosed' \in BOOLEAN
    BY <1>3, Zenon DEF C!Hook, C!Woken, C!Timeout, C!Delay
  <2>3. main # "exited" /\ main' \in {"start", "close", "return"}
    BY <1>3 DEF C!Hook, C!Woken, C!Timeout, C!Delay
  <2> QED
    BY <2>1, <2>2, <2>3
<1>4. CASE C!CloseIfOpen
  BY <1>4 DEF C!CloseIfOpen, C!ClosePc
<1>5. CASE C!Return
  BY <1>5 DEF C!Return
<1>6. CASE C!StateChanges
  BY <1>6 DEF C!StateChanges, C!Alive
<1>7. CASE C!OnConnected
  <2>1. UNCHANGED <<testType, main, cOnClosed, testComplete, conn, handshake, dc, exit>>
    BY <1>7 DEF C!OnConnected
  <2>4. main # "exited" /\ notice = "connected"
    BY <1>7 DEF C!OnConnected, C!Alive
  <2>2. success' \in BOOLEAN /\ pendingSet' \in BOOLEAN /\ notice' = "none"
    BY <1>7, Zenon DEF C!OnConnected
  <2>3. IF testType = "PeerConnection" THEN success' ELSE success' = success /\ pendingSet' = pendingSet
    BY <1>7, Zenon DEF C!OnConnected
  <2> QED
    BY <2>1, <2>2, <2>3, <2>4
<1>8. CASE C!OnLost
  BY <1>8 DEF C!OnLost, C!ClosePc, C!Alive
<1>9. CASE C!SetComplete
  <2>1. UNCHANGED <<testType, main, cOnClosed, success, conn, handshake, notice, dc, exit>>
    BY <1>9 DEF C!SetComplete
  <2>2. testComplete' \in BOOLEAN /\ pendingSet' \in BOOLEAN
    BY <1>9, Zenon DEF C!SetComplete
  <2>3. success /\ ~pendingSet' /\ main \notin {"setup", "post", "apply"}
    BY <1>9, Zenon DEF C!SetComplete
  <2> QED
    BY <2>1, <2>2, <2>3
<1>10. CASE C!OnOpen
  BY <1>10 DEF C!OnOpen, C!Alive
<1>11. CASE C!OnMessage
  BY <1>11 DEF C!OnMessage, C!Alive
<1>12. CASE UNCHANGED clientVars
  BY <1>12
<1> QED
  BY <1>1, <1>2, <1>3, <1>4, <1>5, <1>6, <1>7, <1>8, <1>9, <1>10, <1>11, <1>12
     DEF C!Next, C!MainStep, C!Callback

\* It holds at the start.
LEMMA ClientInvInit == C!Init => ClientInv
  BY DEF C!Init, ClientInv, Untouched, C!TypeOK, C!Met

\* A step of the client is a step of the abstract test, or none of it.
LEMMA VerdictSimulation == ClientInv /\ ClientInv' /\ [C!Next]_clientVars => [C!TV!Next]_(C!TV!vars)
<1> SUFFICES ASSUME ClientInv, ClientInv', [C!Next]_clientVars PROVE [C!TV!Next]_(C!TV!vars)
  OBVIOUS
<1>1. C!Met \in BOOLEAN /\ C!Met' \in BOOLEAN
  BY DEF ClientInv, C!TypeOK, C!Met
<1>a. ASSUME UNCHANGED <<testType, handshake, dc>> PROVE C!Met' = C!Met
  BY <1>a DEF C!Met
<1> USE DEF C!link, clientVars
<1>2. CASE C!Setup \/ C!Post \/ C!Apply \/ C!Start
  <2>1. UNCHANGED <<testType, handshake, dc>>
    BY <1>2 DEF C!Setup, C!Post, C!Apply, C!Start
  <2>2. UNCHANGED exit \/ (exit = "running" /\ exit' = "crash")
    BY <1>2 DEF C!Setup, C!Post, C!Apply, C!Start, C!Proceed, ClientInv
  <2> QED
    BY <1>a, <2>1, <2>2 DEF C!TV!Next, C!TV!Fail, C!TV!vars
<1>3. CASE C!Hook \/ C!Woken \/ C!Timeout \/ C!CloseIfOpen \/ C!Delay
  <2>1. UNCHANGED <<testType, handshake, dc, exit>>
    BY <1>3 DEF C!Hook, C!Woken, C!Timeout, C!CloseIfOpen, C!ClosePc, C!Delay
  <2> QED
    BY <1>a, <2>1 DEF C!TV!vars
<1>4. CASE C!Return
  <2>1. UNCHANGED <<testType, handshake, dc>> /\ exit = "running"
    BY <1>4 DEF C!Return, ClientInv
  <2>2. CASE success
    <3>1. C!Met /\ exit' = "success"
      BY <1>4, <2>2 DEF C!Return, ClientInv
    <3> QED
      BY <1>a, <2>1, <3>1 DEF C!TV!Next, C!TV!Succeed
  <2>3. CASE ~success
    <3>1. exit' = "failure"
      BY <1>4, <2>3 DEF C!Return
    <3> QED
      BY <1>a, <2>1, <3>1 DEF C!TV!Next, C!TV!Fail
  <2> QED
    BY <2>2, <2>3
<1>5. CASE C!StateChanges \/ C!OnConnected \/ C!OnLost \/ C!SetComplete \/ C!OnOpen \/ C!OnMessage
  <2>1. exit = "running" /\ UNCHANGED <<exit, testType>>
    BY <1>5 DEF C!StateChanges, C!OnConnected, C!OnLost, C!SetComplete, C!OnOpen, C!OnMessage,
       C!Alive, ClientInv
  <2>2. (handshake => handshake') /\ (dc = "echoed" => dc' = "echoed")
    <3>1. CASE C!StateChanges
      <4>1. handshake' = (handshake \/ conn' = "connected") /\ UNCHANGED dc
        BY <3>1 DEF C!StateChanges
      <4> QED
        BY <4>1, Zenon
    <3>2. CASE C!OnConnected \/ C!OnLost \/ C!SetComplete \/ C!OnOpen \/ C!OnMessage
      BY <3>2 DEF C!OnConnected, C!OnLost, C!ClosePc, C!SetComplete, C!OnOpen, C!OnMessage
    <3> QED
      BY <1>5, <3>1, <3>2
  <2>3. C!Met => C!Met'
    BY <2>1, <2>2 DEF C!Met
  <2>4. C!Met' = TRUE \/ C!Met' = C!Met
    BY <1>1, <2>3
  <2> QED
    BY <2>1, <2>4 DEF C!TV!Next, C!TV!Meet, C!TV!vars
<1>6. CASE UNCHANGED clientVars
  BY <1>6, <1>a DEF C!TV!vars
<1> QED
  BY <1>2, <1>3, <1>4, <1>5, <1>6 DEF C!Next, C!MainStep, C!Callback

\* The server implements the offer/answer service, and the client's exit status
\* is 0 only after a completed handshake or an identical echo, whichever of Main,
\* the callbacks and the timeout comes first.
THEOREM BothImplement == EchoSpec => Implements
<1>1. EchoInit => Init /\ C!Init /\ C!TV!Init
  BY DEF EchoInit, C!Init, C!TV!Init, C!Met
<1> QED
  BY <1>1, ServerSide, ClientSide, OfferAnswerImplemented, ClientInvInit, ClientInvStep,
     VerdictSimulation, PTL
     DEF EchoSpec, Spec, Implements, C!ImplementsTestVerdict, C!TV!Spec

--------------------------------------------------------------------------------
(* From end to end.                                                         *)

\* Whatever a client of this server has got beyond its POST, it owes to an answer.
AnswerFirst ==
    peer = "ours" /\ (\/ conn \in {"connecting", "connected", "disconnected", "failed"}
                      \/ notice # "none" \/ success \/ dc # "closed")
        => Status(Mine) = "answered"

\* A test against this server succeeds only if the server answered this request,
\* and no callback ends the wait of Main before it has assigned success.
THEOREM SuccessEndToEnd == EchoSpec => []SuccessIsEndToEnd
<1>1. EchoInit => ServerInv /\ ClientInv /\ AnswerFirst
  BY ServerInvInit, ClientInvInit DEF EchoInit, C!Init, AnswerFirst
<1>2. ServerInv /\ ClientInv /\ AnswerFirst /\ [EchoNext]_echoVars => AnswerFirst'
  <2> SUFFICES ASSUME ServerInv, ClientInv, AnswerFirst, [EchoNext]_echoVars PROVE AnswerFirst'
    OBVIOUS
  <2> USE MineAssumption DEF AnswerFirst
  <2>1. Status(Mine) = "answered" => Status(Mine)' = "answered"
    <3>1. task[Mine] \in {"arm", "hook", "done"} => task'[Mine] \in {"arm", "hook", "done"}
      BY ServerSide DEF ServerInv, TypeOK, Next, Step, vars, Move, Accept, BadBody, NewPeerConnection,
         Throws, Refused, RemoteSet, LocalSet, WriteAnswer, ArmTimer, HookDispose, Fire, TimedOut,
         ConnectionFails, OnFailed, Stop
    <3> QED
      BY <3>1 DEF Status
  <2>2. CASE UNCHANGED <<clientVars, peer>>
    BY <2>1, <2>2 DEF clientVars
  <2>3. CASE ApplyAnswer
    <3>1. UNCHANGED <<notice, success, dc, peer>> /\ Status(Mine)' = Status(Mine)
      BY <2>3 DEF ApplyAnswer, Run, C!Apply, vars, Status
    <3> QED
      BY <2>3, <3>1 DEF ApplyAnswer, Run, C!Apply, Other
  <2>4. CASE Reply \/ Connection \/ Message \/ Run(C!MainStep) \/ Run(C!Callback) \/ Run(C!OnOpen)
    <3>1. UNCHANGED peer /\ Status(Mine)' = Status(Mine)
      BY <2>4 DEF Reply, Connection, Message, Run, vars, Status
    <3>2. CASE C!Post \/ C!MainStep
      <4>1. UNCHANGED <<notice, success, dc>> /\ conn' \in {conn, "closed"}
        BY <3>2 DEF C!Post, C!MainStep, C!Setup, C!Hook, C!Start, C!Woken, C!Timeout,
           C!CloseIfOpen, C!ClosePc, C!Delay, C!Return, C!link
      <4> QED
        BY <3>1, <4>1
    <3>3. CASE C!StateChanges
      BY <3>1, <3>3 DEF C!StateChanges
    <3>4. CASE C!OnMessage \/ C!OnOpen
      BY <3>1, <3>4 DEF C!OnMessage, C!OnOpen, C!link
    <3>5. CASE C!OnConnected
      <4>1. notice # "none"
        BY <3>5 DEF C!OnConnected
      <4> QED
        BY <3>1, <4>1
    <3>6. CASE C!OnLost \/ C!SetComplete
      <4>1. UNCHANGED <<success, dc>> /\ conn' \in {conn, "closed"} /\ notice' \in {notice, "none"}
        BY <3>6 DEF C!OnLost, C!SetComplete, C!ClosePc, C!link
      <4> QED
        BY <3>1, <4>1
    <3> QED
      BY <2>4, <3>2, <3>3, <3>4, <3>5, <3>6 DEF Reply, Connection, Message, Run, C!Callback
  <2> QED
    BY <2>2, <2>3, <2>4 DEF EchoNext, echoVars, Deliver, Serve
<1>3. ServerInv /\ ClientInv /\ AnswerFirst => SuccessIsEndToEnd
  BY DEF ServerInv, ClientInv, AnswerFirst, SuccessIsEndToEnd
<1> QED
  BY <1>1, <1>2, <1>3, ServerSide, ClientSide, ServerInvStep, ClientInvStep, PTL DEF EchoSpec

================================================================================
