------------------------ MODULE LibdatachannelEchoProofs ------------------------
(***************************************************************************)
(* Proofs about the libdatachannel server, for any finite set of requests,  *)
(* and about the client against it.                                         *)
(***************************************************************************)
EXTENDS LibdatachannelEcho, FiniteSetTheorems, SequenceTheorems, TLAPS

--------------------------------------------------------------------------------
(* The promise of a handler and the callback that writes to it.             *)

\* The promise dies with its handler; it has a value only from the gathering that
\* is complete, and so a handler that leaves through it leaves no callback behind.
PromiseInv(r) ==
    /\ promise[r] \in {"value", "exception"} => gathering[r] = "complete"
    /\ promise[r] = "dead" => handler[r] \in {"answered", "refused", "threw"}
    /\ handler[r] \in {"answered", "refused"} => promise[r] = "dead" /\ gathering[r] = "complete"

ServerInv ==
    /\ ServerTypeOK
    /\ \A r \in Requests : PromiseInv(r)
    /\ DeadPromiseOnlyAfterThrow

\* A step of the server, whoever its client is.
ServerNext ==
    \/ \E r \in Requests : Accept(r) \/ ServerStep(r) \/ ConnectionChanges(r)
    \/ ListenFails

\* It holds at the start.
LEMMA ServerInvInit == ServerInit => ServerInv
  BY DEF ServerInit, ServerInv, ServerTypeOK, PromiseInv, DeadPromiseOnlyAfterThrow

\* One step of the server keeps ServerInv.
LEMMA ServerInvStep == ServerInv /\ [ServerNext]_serverVars => ServerInv'
<1> SUFFICES ASSUME ServerInv, [ServerNext]_serverVars PROVE ServerInv'
  OBVIOUS
<1> USE DEF ServerInv, ServerTypeOK, PromiseInv, DeadPromiseOnlyAfterThrow, Move
<1>1. ASSUME NEW r \in Requests, Accept(r) \/ BadBody(r) PROVE ServerInv'
  BY <1>1 DEF Accept, BadBody
<1>2. ASSUME NEW r \in Requests, NewPeerConnection(r) PROVE ServerInv'
  BY <1>2 DEF NewPeerConnection
<1>3. ASSUME NEW r \in Requests, BeginGathering(r) PROVE ServerInv'
  BY <1>3 DEF BeginGathering
<1>4. ASSUME NEW r \in Requests, SetRemoteDescription(r) PROVE ServerInv'
  BY <1>4 DEF SetRemoteDescription
<1>5. ASSUME NEW r \in Requests, SetRemoteThrows(r) PROVE ServerInv'
  BY <1>5 DEF SetRemoteThrows
<1>6. ASSUME NEW r \in Requests, FutureGet(r) PROVE ServerInv'
  BY <1>6 DEF FutureGet
<1>7. ASSUME NEW r \in Requests, GatheringComplete(r) PROVE ServerInv'
  BY <1>7 DEF GatheringComplete
<1>8. ASSUME NEW r \in Requests, ConnectionChanges(r) PROVE ServerInv'
  BY <1>8 DEF ConnectionChanges
<1>9. ASSUME NEW r \in Requests, OnDisconnected(r) PROVE ServerInv'
  BY <1>9 DEF OnDisconnected
<1>10. CASE ListenFails \/ UNCHANGED serverVars
  BY <1>10 DEF ListenFails, serverVars
<1> QED
  BY <1>1, <1>2, <1>3, <1>4, <1>5, <1>6, <1>7, <1>8, <1>9, <1>10 DEF ServerNext, ServerStep

\* Every step of the two together is one of the server, or none of it.
LEMMA ServerSide == [Next]_vars => [ServerNext]_serverVars
<1>1. ASSUME Deliver PROVE ServerNext
  BY <1>1, MineAssumption DEF Deliver, Serve, ServerNext
<1>2. ASSUME NEW r \in Requests, Serve(Accept(r)) \/ Serve(ServerStep(r)) \/ ServerConnects(r)
      PROVE  ServerNext
  BY <1>2 DEF Serve, ServerConnects, ServerNext
<1>3. ASSUME Serve(ListenFails) PROVE ServerNext
  BY <1>3 DEF Serve, ServerNext
<1>4. ASSUME \/ Connect \/ Send \/ ServerEchoes \/ Run(C!MainStep) \/ Run(C!GatheringComplete)
             \/ Run(C!Disconnects) \/ Run(C!OnDisconnected) \/ Run(C!OnTrackOpen)
             \/ \E reply \in {"answer", "error", "none"} : Reply(reply)
             \/ \E m \in C!Messages : Receive(m)
      PROVE  UNCHANGED serverVars
  BY <1>4 DEF Connect, Send, ServerEchoes, Run, Reply, Receive
<1> QED
  BY <1>1, <1>2, <1>3, <1>4 DEF Next, vars

--------------------------------------------------------------------------------
(* The abstract offer/answer service.                                       *)

\* The abstract state.
Statuses == [r \in Requests |-> Status(r)]

\* Every step of the server is a step of the abstract service, or none of it.
LEMMA OfferAnswerSimulation == ServerInv /\ [ServerNext]_serverVars => [OA!Next]_(OA!vars)
<1> SUFFICES ASSUME ServerInv, [ServerNext]_serverVars PROVE [OA!Next]_(OA!vars)
  OBVIOUS
<1> USE DEF ServerInv, ServerTypeOK
<1>a. ASSUME UNCHANGED up, \A r \in Requests : Status(r)' = Status(r) PROVE UNCHANGED OA!vars
  BY <1>a DEF OA!vars
<1>b. ASSUME NEW r \in Requests, NEW from, NEW to, Move(r, from, to), UNCHANGED up
      PROVE  /\ up
             /\ \A q \in Requests \ {r} : Status(q)' = Status(q)
             /\ Statuses' = [Statuses EXCEPT ![r] = Status(r)']
  <2>1. \A q \in Requests \ {r} : handler'[q] = handler[q]
    BY <1>b DEF Move
  <2>2. \A q \in Requests \ {r} : Status(q)' = Status(q)
    BY <2>1 DEF Status
  <2> QED
    BY <1>b, <2>2 DEF Statuses, Move
<1>c. ASSUME UNCHANGED handler, up, up' = FALSE PROVE OA!Down
  <2>1. \A r \in Requests : Status(r)' = Status(r)
    BY <1>c DEF Status
  <2> QED
    BY <1>c, <2>1 DEF OA!Down
<1>1. ASSUME NEW r \in Requests, Accept(r) PROVE OA!Next
  <2>1. Status(r) = "idle" /\ Status(r)' = "open" /\ up /\ UNCHANGED up
    BY <1>1 DEF Accept, Move, Status
  <2>2. Statuses' = [Statuses EXCEPT ![r] = "open"]
    BY <1>1, <1>b, <2>1 DEF Accept
  <2>3. OA!Open \subseteq Requests /\ OA!Open # Requests
    BY <2>1 DEF OA!Open
  <2>4. Cardinality(OA!Open) < Cardinality(Requests)
    BY <2>3, RequestsAssumption, FS_Subset, FS_CardinalityType
  <2>5. OA!Cardinality(OA!Open) = Cardinality(OA!Open)
    BY DEF OA!Cardinality, Cardinality, OA!IsFiniteSet, IsFiniteSet
  <2>6. OA!Accept(r)
    BY <2>1, <2>2, <2>4, <2>5 DEF OA!Accept, Statuses
  <2> QED
    BY <2>6 DEF OA!Next
<1>2. ASSUME NEW r \in Requests, BadBody(r) \/ SetRemoteThrows(r) PROVE OA!Next
  <2>1. Status(r) = "open" /\ Status(r)' = "refused" /\ up /\ UNCHANGED up
    BY <1>2 DEF BadBody, SetRemoteThrows, Move, Status
  <2>2. Statuses' = [Statuses EXCEPT ![r] = "refused"]
    BY <1>2, <1>b, <2>1 DEF BadBody, SetRemoteThrows
  <2>3. OA!Refuse(r)
    BY <2>1, <2>2 DEF OA!Refuse, Statuses
  <2> QED
    BY <2>3 DEF OA!Next
<1>3. ASSUME NEW r \in Requests, FutureGet(r) PROVE OA!Next
  <2>1. Status(r) = "open" /\ Status(r)' \in {"answered", "refused"} /\ up /\ UNCHANGED up
    BY <1>3 DEF FutureGet, Move, Status
  <2>2. Statuses' = [Statuses EXCEPT ![r] = Status(r)']
    BY <1>3, <1>b, <2>1 DEF FutureGet
  <2>3. OA!Answer(r) \/ OA!Refuse(r)
    BY <2>1, <2>2 DEF OA!Answer, OA!Refuse, Statuses
  <2> QED
    BY <2>3 DEF OA!Next
<1>4. ASSUME NEW r \in Requests, NewPeerConnection(r) \/ SetRemoteDescription(r)
      PROVE  UNCHANGED OA!vars
  <2>1. Status(r)' = Status(r) /\ UNCHANGED up
    BY <1>4 DEF NewPeerConnection, SetRemoteDescription, Move, Status
  <2>2. \A q \in Requests \ {r} : Status(q)' = Status(q)
    BY <1>4, <1>b DEF NewPeerConnection, SetRemoteDescription
  <2> QED
    BY <1>a, <2>1, <2>2
<1>5. ASSUME NEW r \in Requests, BeginGathering(r) \/ ConnectionChanges(r) \/ OnDisconnected(r)
      PROVE  UNCHANGED OA!vars
  <2>1. UNCHANGED <<up, handler>>
    BY <1>5 DEF BeginGathering, ConnectionChanges, OnDisconnected
  <2> QED
    BY <1>a, <2>1 DEF Status
<1>6. ASSUME NEW r \in Requests, GatheringComplete(r) PROVE [OA!Next]_(OA!vars)
  <2>1. up /\ UNCHANGED handler
    BY <1>6 DEF GatheringComplete
  <2>2. UNCHANGED up \/ up' = FALSE
    BY <1>6, <2>1 DEF GatheringComplete
  <2>3. CASE UNCHANGED up
    BY <1>a, <2>1, <2>3 DEF Status
  <2>4. CASE up' = FALSE
    BY <1>c, <2>1, <2>4 DEF OA!Next
  <2> QED
    BY <2>2, <2>3, <2>4
<1>7. CASE ListenFails
  BY <1>7, <1>c DEF ListenFails, OA!Next
<1>8. CASE UNCHANGED serverVars
  BY <1>8, <1>a DEF serverVars, Status
<1> QED
  BY <1>1, <1>2, <1>3, <1>4, <1>5, <1>6, <1>7, <1>8 DEF ServerNext, ServerStep

--------------------------------------------------------------------------------
(* The client: its locals, and what settles its promise.                    *)

\* The locals that are alive are always the first ones declared.
AllLocals == <<"promise", "cl", "pc", "dc">>

Names == {"promise", "cl", "pc", "dc"}

Prefixes == {SubSeq(AllLocals, 1, k) : k \in 0 .. 4}

\* A prefix of them is given by its length, and loses one when it is cut short.
LEMMA Prefix ==
    ASSUME NEW n \in 0 .. 4
    PROVE  LET s == SubSeq(AllLocals, 1, n) IN
           /\ Len(s) = n /\ DOMAIN s = 1 .. n
           /\ \A i \in 1 .. n : s[i] = AllLocals[i]
           /\ n > 0 => SubSeq(s, 1, n - 1) = SubSeq(AllLocals, 1, n - 1)
<1> DEFINE s == SubSeq(AllLocals, 1, n)
<1>1. \A i \in 1 .. 4 : AllLocals[i] \in Names
  BY DEF AllLocals, Names
<1>2. s \in Seq(Names) /\ Len(s) = n /\ \A i \in 1 .. n : s[i] = AllLocals[i]
  <2>1. /\ s \in Seq(Names)
        /\ Len(s) = IF 1 <= n THEN n - 1 + 1 ELSE 0
        /\ \A i \in 1 .. n - 1 + 1 : s[i] = AllLocals[1 + i - 1]
    BY <1>1, SubSeqProperties
  <2> QED
    BY <2>1
<1>3. ASSUME n > 0 PROVE SubSeq(s, 1, n - 1) = SubSeq(AllLocals, 1, n - 1)
  <2> DEFINE a == SubSeq(s, 1, n - 1)
             b == SubSeq(AllLocals, 1, n - 1)
  <2>1. /\ a \in Seq(Names)
        /\ Len(a) = IF 1 <= n - 1 THEN n - 1 - 1 + 1 ELSE 0
        /\ \A i \in 1 .. n - 1 - 1 + 1 : a[i] = s[1 + i - 1]
    <3>1. \A i \in 1 .. n - 1 : s[i] \in Names
      BY <1>1, <1>2
    <3> HIDE DEF s
    <3> QED
      BY <3>1, SubSeqProperties
  <2>2. /\ b \in Seq(Names)
        /\ Len(b) = IF 1 <= n - 1 THEN n - 1 - 1 + 1 ELSE 0
        /\ \A i \in 1 .. n - 1 - 1 + 1 : b[i] = AllLocals[1 + i - 1]
    BY <1>1, SubSeqProperties
  <2>3. Len(a) = Len(b) /\ Len(a) = n - 1 /\ \A i \in 1 .. n - 1 : a[i] = b[i]
    <3> HIDE DEF s, a, b
    <3> QED
      BY <1>2, <1>3, <2>1, <2>2
  <2> HIDE DEF a, b
  <2> QED
    BY <2>1, <2>2, <2>3, SeqEqual
<1>4. DOMAIN s = 1 .. n
  <2> HIDE DEF s
  <2> QED
    BY <1>2
<1> QED
  BY <1>2, <1>3, <1>4

\* Which locals are alive, by their number.
LEMMA AliveIs ==
    C!TypeOK =>
        /\ Len(locals) \in 0 .. 4
        /\ locals = <<>> <=> Len(locals) = 0
        /\ C!Alive("promise") <=> Len(locals) >= 1
        /\ C!Alive("cl") <=> Len(locals) >= 2
        /\ C!Alive("pc") <=> Len(locals) >= 3
        /\ C!Alive("dc") <=> Len(locals) = 4
        /\ locals # <<>> =>
            LET s == SubSeq(locals, 1, Len(locals) - 1) IN
            s \in Prefixes /\ Len(s) = Len(locals) - 1
<1> SUFFICES ASSUME C!TypeOK
             PROVE  /\ Len(locals) \in 0 .. 4
                    /\ locals = <<>> <=> Len(locals) = 0
                    /\ C!Alive("promise") <=> Len(locals) >= 1
                    /\ C!Alive("cl") <=> Len(locals) >= 2
                    /\ C!Alive("pc") <=> Len(locals) >= 3
                    /\ C!Alive("dc") <=> Len(locals) = 4
                    /\ locals # <<>> =>
                        LET s == SubSeq(locals, 1, Len(locals) - 1) IN
                        s \in Prefixes /\ Len(s) = Len(locals) - 1
  OBVIOUS
<1>1. PICK n \in 0 .. 4 : locals = SubSeq(AllLocals, 1, n)
  BY DEF C!TypeOK, AllLocals
<1>2. /\ Len(locals) = n /\ DOMAIN locals = 1 .. n
      /\ \A i \in 1 .. n : locals[i] = AllLocals[i]
      /\ n > 0 => SubSeq(locals, 1, n - 1) = SubSeq(AllLocals, 1, n - 1)
  BY <1>1, Prefix
<1>3. AllLocals[1] = "promise" /\ AllLocals[2] = "cl" /\ AllLocals[3] = "pc" /\ AllLocals[4] = "dc"
  BY DEF AllLocals
<1>4. n = 0 => locals = <<>>
  BY <1>1, SubSeqEmpty
<1>5. locals = <<>> => n = 0
  BY <1>2
<1>6. /\ C!Alive("promise") <=> n >= 1
      /\ C!Alive("cl") <=> n >= 2
      /\ C!Alive("pc") <=> n >= 3
      /\ C!Alive("dc") <=> n = 4
  BY <1>2, <1>3 DEF C!Alive
<1>7. ASSUME n > 0
      PROVE  SubSeq(locals, 1, n - 1) \in Prefixes /\ Len(SubSeq(locals, 1, n - 1)) = n - 1
  <2>1. n - 1 \in 0 .. 4
    BY <1>7
  <2>2. Len(SubSeq(AllLocals, 1, n - 1)) = n - 1
    BY <2>1, Prefix
  <2> QED
    BY <1>2, <1>7, <2>1, <2>2 DEF Prefixes
<1> QED
  BY <1>2, <1>4, <1>5, <1>6, <1>7

\* The condition of the test.
MetNow == IF test = 0 THEN opened ELSE dc = "same"

\* All locals are alive until main unwinds, the peer connection goes before the
\* promise and the HTTP client, and the promise has a value only if the test's
\* condition is met.
ClientInv ==
    /\ C!TypeOK
    /\ exit = "running" <=> main # "exited"
    /\ main = "setup" => Len(locals) = 0
    /\ main \in {"offer", "wait"} => Len(locals) = 4
    /\ main \in {"setup", "offer", "wait"} <=> result = "none"
    /\ result = "success" => cPromise = "value"
    /\ cPromise = "value" => MetNow
    /\ dc # "closed" => test = 1
    /\ exit = "success" => result = "success"
    /\ C!LocalsOutliveCallbacks

\* A step of the client, whoever its server is.
ClientNext ==
    \/ C!MainStep \/ C!GatheringComplete \/ C!Connects \/ C!Disconnects \/ C!OnDisconnected
    \/ C!OnTrackOpen \/ C!OnOpen
    \/ \E reply \in {"answer", "error", "none"} : C!PostReturns(reply)
    \/ \E m \in C!Messages : C!OnMessage(m)

\* It holds at the start.
LEMMA ClientInvInit == C!Init => ClientInv
<1> SUFFICES ASSUME C!Init PROVE ClientInv
  OBVIOUS
<1>1. locals = SubSeq(AllLocals, 1, 0)
  BY SubSeqEmpty DEF C!Init
<1>2. C!TypeOK
  BY <1>1 DEF C!Init, C!TypeOK, AllLocals
<1> QED
  BY <1>2 DEF C!Init, ClientInv, MetNow, C!LocalsOutliveCallbacks

\* One step of the client keeps ClientInv.
LEMMA ClientInvStep == ClientInv /\ [ClientNext]_clientVars => ClientInv'
<1> SUFFICES ASSUME ClientInv, [ClientNext]_clientVars PROVE ClientInv'
  OBVIOUS
<1>a. /\ Len(locals) \in 0 .. 4
      /\ locals = <<>> <=> Len(locals) = 0
      /\ C!Alive("promise") <=> Len(locals) >= 1
      /\ C!Alive("cl") <=> Len(locals) >= 2
      /\ C!Alive("pc") <=> Len(locals) >= 3
      /\ C!Alive("dc") <=> Len(locals) = 4
  BY AliveIs DEF ClientInv
<1>b. ASSUME C!Running PROVE /\ C!Alive("promise") /\ C!Alive("cl") /\ C!Alive("pc")
                             /\ main \in {"offer", "wait", "unwind"} /\ exit = "running"
  BY <1>a, <1>b DEF C!Running, ClientInv, C!TypeOK
<1> USE DEF ClientInv, MetNow, C!LocalsOutliveCallbacks
<1>1. CASE C!ParseArguments
  <2>1. UNCHANGED <<test, cPromise, gather, conn, opened, dc, cUsedDead, exit>> /\ main = "setup"
    BY <1>1 DEF C!ParseArguments
  <2>2. \/ main' = "offer" /\ locals' = AllLocals /\ result' = result
        \/ main' = "unwind" /\ locals' = locals /\ result' = "failure"
    BY <1>1 DEF C!ParseArguments, C!Fail, AllLocals
  <2>3. AllLocals = SubSeq(AllLocals, 1, 4) /\ Len(AllLocals) = 4
    <3>1. AllLocals \in Seq(Names) /\ Len(AllLocals) = 4
      BY DEF AllLocals, Names
    <3> QED
      BY <3>1, SubSeqFull
  <2>4. locals' \in Prefixes
    BY <2>2, <2>3 DEF C!TypeOK, AllLocals, Prefixes
  <2>5. C!TypeOK'
    BY <2>1, <2>2, <2>4 DEF C!TypeOK, AllLocals, Prefixes
  <2> QED
    BY <1>a, <2>1, <2>2, <2>3, <2>5
<1>2. CASE C!SetLocalDescription
  <2>1. UNCHANGED <<test, locals, cPromise, conn, opened, dc, cUsedDead, exit>> /\ main = "offer"
    BY <1>2 DEF C!SetLocalDescription
  <2>2. /\ gather' \in {"new", "running"}
        /\ \/ main' = "wait" /\ result' = result
           \/ main' = "unwind" /\ result' = "failure"
    BY <1>2 DEF C!SetLocalDescription, C!Fail
  <2>8. C!TypeOK'
    BY <2>1, <2>2 DEF C!TypeOK
  <2> QED
    BY <2>1, <2>2, <2>8
<1>3. CASE C!FutureGet \/ C!Timeout
  <2>1. UNCHANGED <<test, locals, cPromise, gather, conn, opened, dc, cUsedDead, exit>>
    BY <1>3 DEF C!FutureGet, C!Timeout
  <2>2. /\ main = "wait" /\ main' = "unwind"
        /\ \/ result' = "success" /\ cPromise = "value"
           \/ result' = "failure"
    BY <1>3 DEF C!FutureGet, C!Timeout, C!Fail
  <2>8. C!TypeOK'
    BY <2>1, <2>2 DEF C!TypeOK
  <2> QED
    BY <2>1, <2>2, <2>8
<1>4. CASE C!Destroy
  <2>1. /\ UNCHANGED <<test, main, cPromise, gather, conn, opened, dc, cUsedDead, result, exit>>
        /\ main = "unwind"
    BY <1>4 DEF C!Destroy
  <2>2. locals' \in Prefixes
    BY <1>4, AliveIs DEF C!Destroy
  <2> QED
    BY <2>1, <2>2 DEF C!TypeOK, Prefixes, AllLocals
<1>5. CASE C!Return
  BY <1>5 DEF C!Return, C!TypeOK
<1>6. ASSUME NEW v \in {"value", "exception"}, C!Settle(v), C!Running
      PROVE  /\ cUsedDead' = cUsedDead
             /\ cPromise' \in {"pending", "value", "exception"}
             /\ cPromise = "value" => cPromise' = "value"
             /\ cPromise' = "value" => cPromise = "value" \/ v = "value"
  BY <1>6, <1>b DEF C!Settle, C!Use, C!TypeOK
<1>7. CASE C!GatheringComplete
  <2>1. UNCHANGED <<test, main, locals, conn, opened, dc, result, exit>>
    BY <1>7 DEF C!GatheringComplete
  <2>2. gather' \in {"posting", "done"} /\ cUsedDead' = cUsedDead /\ C!Running
    BY <1>7, <1>6, <1>b DEF C!GatheringComplete, C!Use
  <2>3. /\ cPromise' \in {"pending", "value", "exception"}
        /\ cPromise = "value" <=> cPromise' = "value"
    BY <1>7, <1>6 DEF C!GatheringComplete, C!TypeOK
  <2>8. C!TypeOK'
    BY <2>1, <2>2, <2>3 DEF C!TypeOK
  <2> QED
    BY <2>1, <2>2, <2>3, <2>8
<1>8. ASSUME NEW reply, C!PostReturns(reply) PROVE ClientInv'
  <2>1. UNCHANGED <<test, main, locals, opened, dc, result, exit>>
    BY <1>8 DEF C!PostReturns
  <2>2. gather' = "done" /\ cUsedDead' = cUsedDead /\ conn' \in {conn, "connecting"}
    BY <1>8, <1>6 DEF C!PostReturns
  <2>3. /\ cPromise' \in {"pending", "value", "exception"}
        /\ cPromise = "value" <=> cPromise' = "value"
    BY <1>8, <1>6 DEF C!PostReturns, C!TypeOK
  <2>8. C!TypeOK'
    BY <2>1, <2>2, <2>3 DEF C!TypeOK
  <2> QED
    BY <2>1, <2>2, <2>3, <2>8
<1>9. CASE C!Connects \/ C!Disconnects
  <2>1. UNCHANGED <<test, main, locals, cPromise, gather, opened, dc, cUsedDead, result, exit>>
    BY <1>9 DEF C!Connects, C!Disconnects
  <2>2. conn' \in {"connected", "failed", "disconnected"}
    BY <1>9 DEF C!Connects, C!Disconnects
  <2>8. C!TypeOK'
    BY <2>1, <2>2 DEF C!TypeOK
  <2> QED
    BY <2>1, <2>8
<1>10. CASE C!OnDisconnected
  <2>1. UNCHANGED <<test, main, locals, gather, opened, dc, result, exit>>
    BY <1>10 DEF C!OnDisconnected
  <2>2. conn' = "closed" /\ cUsedDead' = cUsedDead
    BY <1>10, <1>6 DEF C!OnDisconnected
  <2>3. /\ cPromise' \in {"pending", "value", "exception"}
        /\ cPromise = "value" <=> cPromise' = "value"
    BY <1>10, <1>6 DEF C!OnDisconnected, C!TypeOK
  <2>8. C!TypeOK'
    BY <2>1, <2>2, <2>3 DEF C!TypeOK
  <2> QED
    BY <2>1, <2>2, <2>3, <2>8
<1>11. CASE C!OnTrackOpen
  <2>1. UNCHANGED <<test, main, locals, gather, conn, dc, result, exit>> /\ test = 0
    BY <1>11 DEF C!OnTrackOpen
  <2>2. opened' = TRUE /\ cUsedDead' = cUsedDead
    BY <1>11, <1>6 DEF C!OnTrackOpen
  <2>3. /\ cPromise' \in {"pending", "value", "exception"}
        /\ cPromise = "value" => cPromise' = "value"
    BY <1>11, <1>6 DEF C!OnTrackOpen
  <2>8. C!TypeOK'
    BY <2>1, <2>2, <2>3 DEF C!TypeOK
  <2> QED
    BY <2>1, <2>2, <2>3, <2>8
<1>12. CASE C!OnOpen
  <2>1. /\ UNCHANGED <<test, locals, cPromise, gather, conn, opened, result>>
        /\ test = 1 /\ dc = "closed" /\ dc' \in {"sent", "failed"}
    BY <1>12 DEF C!OnOpen
  <2>2. cPromise # "value" /\ result # "success"
    BY <2>1
  <2>3. \/ /\ cUsedDead' = cUsedDead
           /\ UNCHANGED <<main, exit>>
        \/ /\ cUsedDead' = cUsedDead \cup {"dc"} /\ Len(locals) # 4
           /\ \/ UNCHANGED <<main, exit>>
              \/ main' = "exited" /\ exit' = "crash"
    BY <1>12, <1>a DEF C!OnOpen, C!Use
  <2>4. main \in {"offer", "wait", "unwind"}
    BY <1>12, <1>b DEF C!OnOpen
  <2>5. Len(locals) # 4 => result = "failure" /\ main = "unwind"
    BY <2>2, <2>4 DEF C!TypeOK
  <2>6. /\ cUsedDead' \subseteq {"promise", "cl", "dc"}
        /\ main' \in {main, "exited"} /\ exit' \in {exit, "crash"}
    BY <2>3 DEF C!TypeOK
  <2>8. C!TypeOK'
    BY <2>1, <2>6 DEF C!TypeOK
  <2> QED
    BY <2>1, <2>2, <2>3, <2>5, <2>8
<1>13. ASSUME NEW m \in C!Messages, C!OnMessage(m) PROVE ClientInv'
  <2>1. UNCHANGED <<test, main, locals, gather, conn, opened, result, exit>>
    BY <1>13 DEF C!OnMessage
  <2>2. /\ cUsedDead' = cUsedDead
        /\ cPromise' \in {"pending", "value", "exception"}
        /\ cPromise = "value" => cPromise' = "value"
        /\ cPromise' = "value" => cPromise = "value" \/ m = "same"
    BY <1>13, <1>6 DEF C!OnMessage
  <2>3. dc \in {"sent", "different"} /\ dc' = IF m = "same" THEN "same" ELSE "different"
    BY <1>13 DEF C!OnMessage
  <2>8. C!TypeOK'
    BY <2>1, <2>2, <2>3 DEF C!TypeOK
  <2> QED
    BY <2>1, <2>2, <2>3, <2>8
<1>14. CASE UNCHANGED clientVars
  BY <1>14 DEF clientVars, C!TypeOK
<1> QED
  BY <1>1, <1>2, <1>3, <1>4, <1>5, <1>7, <1>8, <1>9, <1>10, <1>11, <1>12, <1>13, <1>14
     DEF ClientNext, C!MainStep

\* Every step of the two together is one of the client, or none of it.
LEMMA ClientSide == [Next]_vars => UNCHANGED peer /\ [ClientNext]_clientVars
<1> SUFFICES ASSUME [Next]_vars PROVE UNCHANGED peer /\ [ClientNext]_clientVars
  OBVIOUS
<1>1. ASSUME \/ Deliver \/ ServerEchoes \/ Serve(ListenFails)
             \/ \E r \in Requests : Serve(Accept(r)) \/ Serve(ServerStep(r)) \/ ServerConnects(r)
      PROVE  UNCHANGED <<clientVars, peer>>
  BY <1>1 DEF Deliver, ServerEchoes, ServerConnects, Serve
<1>2. ASSUME \/ Connect \/ Send \/ Run(C!MainStep) \/ Run(C!GatheringComplete)
             \/ Run(C!Disconnects) \/ Run(C!OnDisconnected) \/ Run(C!OnTrackOpen)
             \/ \E reply \in {"answer", "error", "none"} : Reply(reply)
             \/ \E m \in C!Messages : Receive(m)
      PROVE  UNCHANGED peer /\ ClientNext
  BY <1>2 DEF Connect, Send, Run, Reply, Receive, ClientNext
<1> QED
  BY <1>1, <1>2 DEF Next, vars

\* A step of the client is a step of the abstract test, or none of it.
LEMMA VerdictSimulation == ClientInv /\ ClientInv' /\ [ClientNext]_clientVars => [C!TV!Next]_(C!TV!vars)
<1> SUFFICES ASSUME ClientInv, ClientInv', [ClientNext]_clientVars PROVE [C!TV!Next]_(C!TV!vars)
  OBVIOUS
<1>0. MetNow \in BOOLEAN /\ MetNow' \in BOOLEAN
  BY DEF ClientInv, C!TypeOK, MetNow
<1>a. ASSUME MetNow' <=> MetNow, UNCHANGED exit PROVE UNCHANGED C!TV!vars
  <2>1. MetNow' = MetNow
    BY <1>0, <1>a
  <2> QED
    BY <1>a, <2>1 DEF C!TV!vars, MetNow
<1>b. ASSUME MetNow', exit = "running", UNCHANGED exit PROVE C!TV!Meet
  <2>1. MetNow' = TRUE
    BY <1>0, <1>b
  <2> QED
    BY <1>b, <2>1 DEF C!TV!Meet, MetNow
<1>c. ASSUME MetNow' <=> MetNow, exit = "running", exit' = "success", MetNow PROVE C!TV!Succeed
  <2>1. MetNow' = MetNow
    BY <1>0, <1>c
  <2> QED
    BY <1>c, <2>1 DEF C!TV!Succeed, MetNow
<1>d. ASSUME MetNow' <=> MetNow, exit = "running", exit' \in {"failure", "crash"} PROVE C!TV!Fail
  <2>1. MetNow' = MetNow
    BY <1>0, <1>d
  <2> QED
    BY <1>d, <2>1 DEF C!TV!Fail, MetNow
<1>1. CASE C!ParseArguments \/ C!SetLocalDescription \/ C!FutureGet \/ C!Timeout \/ C!Destroy
  <2>1. UNCHANGED <<test, opened, dc, exit>>
    BY <1>1 DEF C!ParseArguments, C!SetLocalDescription, C!FutureGet, C!Timeout, C!Destroy
  <2> QED
    BY <1>a, <2>1 DEF MetNow
<1>2. CASE C!GatheringComplete \/ C!Connects \/ C!Disconnects \/ C!OnDisconnected
  <2>1. UNCHANGED <<test, opened, dc, exit>>
    BY <1>2 DEF C!GatheringComplete, C!Connects, C!Disconnects, C!OnDisconnected
  <2> QED
    BY <1>a, <2>1 DEF MetNow
<1>3. ASSUME NEW reply, C!PostReturns(reply) PROVE UNCHANGED C!TV!vars
  <2>1. UNCHANGED <<test, opened, dc, exit>>
    BY <1>3 DEF C!PostReturns
  <2> QED
    BY <1>a, <2>1 DEF MetNow
<1>4. CASE C!Return
  <2>1. UNCHANGED <<test, opened, dc>> /\ exit' = result
    BY <1>4 DEF C!Return
  <2>2. exit = "running" /\ result \in {"success", "failure"} /\ (result = "success" => MetNow)
    BY <1>4 DEF C!Return, ClientInv, C!TypeOK
  <2>3. MetNow' <=> MetNow
    BY <2>1 DEF MetNow
  <2> QED
    BY <1>c, <1>d, <2>1, <2>2, <2>3 DEF C!TV!Next
<1>5. CASE C!OnTrackOpen
  <2>1. MetNow' /\ exit = "running" /\ UNCHANGED exit
    BY <1>5 DEF C!OnTrackOpen, C!Running, MetNow
  <2> QED
    BY <1>b, <2>1 DEF C!TV!Next
<1>6. CASE C!OnOpen
  <2>1. UNCHANGED <<test, opened>> /\ test = 1 /\ dc = "closed" /\ dc' \in {"sent", "failed"}
    BY <1>6 DEF C!OnOpen
  <2>2. MetNow' <=> MetNow
    BY <2>1 DEF MetNow
  <2>3. exit = "running" /\ exit' \in {exit, "crash"}
    BY <1>6 DEF C!OnOpen, C!Running
  <2> QED
    BY <1>a, <1>d, <2>2, <2>3 DEF C!TV!Next
<1>7. ASSUME NEW m \in C!Messages, C!OnMessage(m) PROVE [C!TV!Next]_(C!TV!vars)
  <2>1. UNCHANGED <<test, exit, opened>> /\ exit = "running" /\ dc \in {"sent", "different"}
    BY <1>7 DEF C!OnMessage, C!Running
  <2>2. test = 1 /\ ~MetNow
    BY <2>1 DEF ClientInv, MetNow, C!TypeOK
  <2>3. CASE MetNow'
    BY <1>b, <2>1, <2>3 DEF C!TV!Next
  <2>4. CASE ~MetNow'
    BY <1>a, <2>1, <2>2, <2>4
  <2> QED
    BY <2>3, <2>4
<1>8. CASE UNCHANGED clientVars
  BY <1>a, <1>8 DEF clientVars, MetNow
<1> QED
  BY <1>1, <1>2, <1>3, <1>4, <1>5, <1>6, <1>7, <1>8 DEF ClientNext, C!MainStep

--------------------------------------------------------------------------------
(* The theorems about both.                                                 *)

\* The server implements the offer/answer service, and the exit status of the
\* client is 0 only for an open track or the same string, whichever of its
\* callbacks, main and the timeout comes first.
THEOREM BothImplement == Spec => Implements
<1>1. Init => ServerInit /\ C!Init /\ OA!Init
  BY DEF Init, ServerInit, OA!Init, Status
<1>2. Init => C!TV!Init
  <2> SUFFICES ASSUME Init PROVE C!TV!Init
    OBVIOUS
  <2>1. opened = FALSE /\ dc = "closed" /\ exit = "running"
    BY DEF Init, C!Init
  <2>2. (IF test = 0 THEN opened ELSE dc = "same") = FALSE
    BY <2>1
  <2> QED
    BY <2>1, <2>2 DEF C!TV!Init
<1> QED
  BY <1>1, <1>2, ServerSide, ClientSide, ServerInvInit, ServerInvStep, ClientInvInit, ClientInvStep,
     OfferAnswerSimulation, VerdictSimulation, PTL
     DEF Spec, Implements, ImplementsOfferAnswer, OA!Spec, C!ImplementsTestVerdict, C!TV!Spec

\* The wire holds one message at most, and none once it has come back.
WireInv ==
    /\ peer \in {"ours", "other"}
    /\ wire \in {<<0, 0>>, <<1, 0>>, <<0, 1>>}
    /\ peer = "ours" /\ dc = "same" => wire = <<0, 0>>

\* One step of the two keeps it.
LEMMA WireStep == ClientInv /\ WireInv /\ [Next]_vars => WireInv'
<1> SUFFICES ASSUME ClientInv, WireInv, [Next]_vars PROVE WireInv'
  OBVIOUS
<1> USE DEF WireInv
<1>1. CASE UNCHANGED <<peer, wire, dc>>
  BY <1>1
<1>2. CASE Send
  <2>1. wire' \in {wire, <<1, 0>>} /\ dc' \in {"sent", "failed"} /\ UNCHANGED peer
    BY <1>2 DEF Send, C!OnOpen
  <2> QED
    BY <2>1
<1>3. CASE ServerEchoes
  <2>1. wire[1] = 1 /\ wire' = <<0, wire[1]>> /\ UNCHANGED <<peer, dc>>
    BY <1>3 DEF ServerEchoes, Echo, clientVars
  <2>2. wire # <<0, 0>>
    BY <2>1
  <2> QED
    BY <2>1, <2>2
<1>4. ASSUME NEW m \in C!Messages, Receive(m) PROVE WireInv'
  <2>1. wire' = <<wire[1], 0>> /\ UNCHANGED peer /\ (peer = "ours" => wire[2] = 1)
    BY <1>4 DEF Receive
  <2>2. wire' \in {<<0, 0>>, <<1, 0>>} /\ (peer = "ours" => wire' = <<0, 0>>)
    BY <2>1
  <2> QED
    BY <2>1, <2>2
<1>5. ASSUME NEW r \in Requests, ServerConnects(r) \/ Serve(ServerStep(r)) \/ Serve(Accept(r))
      PROVE  UNCHANGED <<peer, wire, dc>>
  BY <1>5 DEF ServerConnects, Serve, clientVars
<1>6. ASSUME NEW reply, Reply(reply) PROVE UNCHANGED <<peer, wire, dc>>
  BY <1>6 DEF Reply, Run, C!PostReturns
<1>7. CASE Deliver \/ Serve(ListenFails)
  BY <1>7, <1>1 DEF Deliver, Serve, clientVars
<1>8. CASE Connect \/ Run(C!GatheringComplete) \/ Run(C!Disconnects) \/ Run(C!OnDisconnected)
           \/ Run(C!OnTrackOpen)
  <2>1. UNCHANGED <<peer, wire, dc>>
    BY <1>8 DEF Connect, Run, C!Connects, C!GatheringComplete, C!Disconnects, C!OnDisconnected,
       C!OnTrackOpen
  <2> QED
    BY <1>1, <2>1
<1>9. CASE Run(C!MainStep)
  <2>1. UNCHANGED <<peer, wire, dc>>
    BY <1>9 DEF Run, C!MainStep, C!ParseArguments, C!SetLocalDescription, C!FutureGet, C!Timeout,
       C!Destroy, C!Return
  <2> QED
    BY <1>1, <2>1
<1>10. CASE UNCHANGED vars
  BY <1>10, <1>1 DEF vars, clientVars
<1> QED
  BY <1>1, <1>2, <1>3, <1>4, <1>5, <1>6, <1>7, <1>8, <1>9, <1>10 DEF Next

\* No callback of the server writes to a promise that went with its handler,
\* unless setRemoteDescription threw; and none of the client uses the promise or
\* the HTTP client after main destroyed it, and the channel only in a failed test.
THEOREM LifetimesHold == Spec => []Lifetimes
<1>1. Init => ServerInv /\ ClientInv /\ WireInv
  BY ServerInvInit, ClientInvInit DEF Init, C!Init, WireInv
<1>2. ServerInv /\ ClientInv /\ WireInv => Lifetimes
  BY DEF ServerInv, ClientInv, WireInv, Lifetimes, TypeOK
<1> QED
  BY <1>1, <1>2, ServerSide, ClientSide, ServerInvStep, ClientInvStep, WireStep, PTL DEF Spec

\* Whatever a client of this server has got beyond its POST, it owes to an answer.
AnswerFirst ==
    peer = "ours" /\ (conn # "new" \/ opened \/ dc # "closed") => handler[Mine] = "answered"

\* One step of the two keeps it.
LEMMA AnswerFirstStep == ServerInv /\ AnswerFirst /\ [Next]_vars => AnswerFirst'
<1> SUFFICES ASSUME ServerInv, AnswerFirst, [Next]_vars PROVE AnswerFirst'
  OBVIOUS
<1> USE MineAssumption DEF AnswerFirst
<1>1. handler[Mine] = "answered" => handler'[Mine] = "answered"
  BY ServerSide DEF ServerInv, ServerTypeOK, ServerNext, ServerStep, serverVars, Move, Accept, BadBody,
     NewPeerConnection, BeginGathering, SetRemoteDescription, SetRemoteThrows, FutureGet,
     GatheringComplete, ConnectionChanges, OnDisconnected, ListenFails
<1>2. CASE UNCHANGED <<conn, opened, dc, peer>>
  BY <1>1, <1>2
<1>3. ASSUME NEW reply \in {"answer", "error", "none"}, Reply(reply) PROVE AnswerFirst'
  <2>1. UNCHANGED <<opened, dc, peer>>
    BY <1>3 DEF Reply, Run, C!PostReturns
  <2>2. UNCHANGED conn \/ (reply = "answer" /\ conn' = "connecting")
    BY <1>3 DEF Reply, Run, C!PostReturns
  <2>3. reply = "answer" /\ peer = "ours" => handler[Mine] = "answered"
    BY <1>3 DEF Reply
  <2> QED
    BY <1>1, <2>1, <2>2, <2>3
<1>4. CASE Connect \/ Run(C!Disconnects) \/ Run(C!OnDisconnected)
  <2>1. UNCHANGED peer /\ conn # "new"
    BY <1>4 DEF Connect, Run, C!Connects, C!Disconnects, C!OnDisconnected
  <2> QED
    BY <1>1, <2>1
<1>5. CASE Send \/ Run(C!OnTrackOpen)
  <2>1. UNCHANGED peer /\ conn # "new"
    BY <1>5 DEF Send, Run, C!OnOpen, C!OnTrackOpen
  <2> QED
    BY <1>1, <2>1
<1>6. ASSUME NEW m \in C!Messages, Receive(m) PROVE AnswerFirst'
  <2>1. UNCHANGED peer /\ conn # "new"
    BY <1>6 DEF Receive, C!OnMessage
  <2> QED
    BY <1>1, <2>1
<1>7. ASSUME NEW r \in Requests, ServerConnects(r) \/ Serve(ServerStep(r)) \/ Serve(Accept(r))
      PROVE  UNCHANGED <<conn, opened, dc, peer>>
  BY <1>7 DEF ServerConnects, Serve, clientVars
<1>8. CASE Deliver \/ Serve(ListenFails) \/ ServerEchoes
  BY <1>8, <1>2 DEF Deliver, Serve, ServerEchoes, clientVars
<1>9. CASE Run(C!MainStep) \/ Run(C!GatheringComplete)
  <2>1. UNCHANGED <<conn, opened, dc, peer>>
    BY <1>9 DEF Run, C!MainStep, C!ParseArguments, C!SetLocalDescription, C!FutureGet, C!Timeout,
       C!Destroy, C!Return, C!GatheringComplete
  <2> QED
    BY <1>2, <2>1
<1>10. CASE UNCHANGED vars
  BY <1>10, <1>2 DEF vars, clientVars
<1> QED
  BY <1>2, <1>3, <1>4, <1>5, <1>6, <1>7, <1>8, <1>9, <1>10 DEF Next

\* A client of this server that exits with 0 had its own POST answered, by a
\* handler that took its promise with it, and its message back from the server.
THEOREM SuccessEndToEnd == Spec => []SuccessIsEndToEnd
<1>1. Init => ServerInv /\ ClientInv /\ WireInv /\ AnswerFirst
  BY ServerInvInit, ClientInvInit DEF Init, C!Init, WireInv, AnswerFirst
<1>2. ServerInv /\ ClientInv /\ WireInv /\ AnswerFirst => SuccessIsEndToEnd
  <2> SUFFICES ASSUME ServerInv, ClientInv, WireInv, AnswerFirst, exit = "success", peer = "ours"
               PROVE  /\ handler[Mine] = "answered"
                      /\ promise[Mine] = "dead" /\ Mine \notin usedDead
                      /\ test = 1 => wire = <<0, 0>> /\ dc = "same"
    BY DEF SuccessIsEndToEnd
  <2>1. MetNow
    BY DEF ClientInv
  <2>2. handler[Mine] = "answered"
    BY <2>1 DEF AnswerFirst, MetNow
  <2>3. promise[Mine] = "dead" /\ Mine \notin usedDead
    BY <2>2, MineAssumption DEF ServerInv, PromiseInv, DeadPromiseOnlyAfterThrow
  <2>4. test = 1 => dc = "same"
    BY <2>1 DEF MetNow
  <2> QED
    BY <2>2, <2>3, <2>4 DEF WireInv
<1> QED
  BY <1>1, <1>2, ServerSide, ClientSide, ServerInvStep, ClientInvStep, WireStep, AnswerFirstStep, PTL
     DEF Spec

================================================================================
