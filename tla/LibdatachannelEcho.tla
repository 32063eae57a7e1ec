--------------------------- MODULE LibdatachannelEcho ---------------------------
(***************************************************************************)
(* The libdatachannel client against an echo server: the one of the same    *)
(* directory, which serves other requests as well, or any other one of the  *)
(* interoperability tests, which may reply and send what it likes.          *)
(***************************************************************************)
EXTENDS LibdatachannelServer, Sequences

CONSTANT Mine       \* the request of the client

ASSUME MineAssumption == Mine \in Requests

VARIABLES
    peer,           \* which server the client talks to: "ours" or "other"
    wire,           \* messages on the data channel, <<to the server, to the client>>
    test, main, locals, cPromise, gather, conn, opened, dc, cUsedDead, result, exit

C == INSTANCE LibdatachannelClient WITH promise <- cPromise, usedDead <- cUsedDead

clientVars == <<test, main, locals, cPromise, gather, conn, opened, dc, cUsedDead, result, exit>>
vars == <<serverVars, clientVars, peer, wire>>

TypeOK ==
    /\ ServerTypeOK
    /\ C!TypeOK
    /\ peer \in {"ours", "other"}
    /\ wire \in {<<0, 0>>, <<1, 0>>, <<0, 1>>}

Init ==
    /\ ServerInit
    /\ C!Init
    /\ peer \in {"ours", "other"}
    /\ wire = <<0, 0>>

Serve(A) == A /\ UNCHANGED <<clientVars, peer, wire>>
Run(A) == A /\ UNCHANGED <<serverVars, peer, wire>>

--------------------------------------------------------------------------------
(* Where they meet                                                          *)

\* The server sees the client's offer only while the client posts it.
Deliver == Serve(peer = "ours" /\ gather = "posting" /\ Accept(Mine))

\* The POST fails at any time, or ends in the reply the server gave.
Reply(reply) ==
    /\ \/ peer = "other"
       \/ reply = "none"
       \/ reply = "answer" /\ handler[Mine] = "answered"
       \/ reply = "error" /\ handler[Mine] \in {"refused", "threw"}
    /\ Run(C!PostReturns(reply))

Connect == Run((peer = "ours" => up /\ pc[Mine] \in {"open", "connected"}) /\ C!Connects)

\* The server's side of the client's connection needs the client's side.
ServerConnects(r) ==
    Serve(ConnectionChanges(r) /\ (pc'[Mine] = "connected" => conn # "new"))

Send ==
    /\ C!OnOpen
    /\ wire' = IF dc' = "sent" THEN <<1, 0>> ELSE wire
    /\ UNCHANGED <<serverVars, peer>>

ServerEchoes ==
    /\ peer = "ours"
    /\ up
    /\ pc[Mine] = "connected"
    /\ wire[1] = 1
    /\ wire' = <<0, Echo(wire[1])>>
    /\ UNCHANGED <<serverVars, clientVars, peer>>

Receive(m) ==
    /\ peer = "ours" => wire[2] = 1 /\ m = "same"
    /\ C!OnMessage(m)
    /\ wire' = <<wire[1], 0>>
    /\ UNCHANGED <<serverVars, peer>>

--------------------------------------------------------------------------------

Next ==
    \/ Deliver
    \/ \E reply \in {"answer", "error", "none"} : Reply(reply)
    \/ Connect \/ Send \/ ServerEchoes
    \/ \E m \in C!Messages : Receive(m)
    \/ \E r \in Requests : ServerConnects(r) \/ Serve(ServerStep(r))
    \/ \E r \in Requests \ {Mine} : Serve(Accept(r))
    \/ Serve(ListenFails)
    \/ Run(C!MainStep)
    \/ Run(C!GatheringComplete)
    \/ Run(C!Disconnects)
    \/ Run(C!OnDisconnected)
    \/ Run(C!OnTrackOpen)

(***************************************************************************)
(* Fairness: threads run on, wait_for ends after ten seconds, httplib gives *)
(* up on a POST by itself, and gathering, which has host candidates only,   *)
(* completes.  Nothing is assumed of the network.                           *)
(***************************************************************************)
Fairness ==
    /\ WF_vars(Run(C!MainStep))
    /\ WF_vars(\E reply \in {"answer", "error", "none"} : Reply(reply))
    /\ \A r \in Requests :
        /\ WF_vars(Serve(SetRemoteDescription(r))) /\ WF_vars(Serve(FutureGet(r)))
        /\ WF_vars(Serve(GatheringComplete(r)))

Spec == Init /\ [][Next]_vars
FairSpec == Spec /\ Fairness

--------------------------------------------------------------------------------
(* Properties.                                                              *)

\* What callbacks may find dead, on both sides.
Lifetimes == TypeOK /\ DeadPromiseOnlyAfterThrow /\ C!LocalsOutliveCallbacks

\* The server implements the offer/answer service and the client the verdict of
\* the test: a reply is given once, by its handler, and the exit status is 0 only
\* for an open track or the same string, whichever callback settles the promise.
Implements == ImplementsOfferAnswer /\ C!ImplementsTestVerdict

\* A client that exits with 0 has had its own POST answered, although the POST
\* may fail at the client while the server still works on it, and in the data
\* channel test its message has been to the server and back.
SuccessIsEndToEnd ==
    exit = "success" /\ peer = "ours" =>
        /\ handler[Mine] = "answered"
        /\ promise[Mine] = "dead" /\ Mine \notin usedDead
        /\ test = 1 => wire = <<0, 0>> /\ dc = "same"

\* The client exits, whatever the network and the server do, and although the
\* destructor of its peer connection waits for a POST that is in flight; and no
\* handler of the server waits for its promise for ever.
BothEnd == <>(exit # "running") /\ WaitEnds

================================================================================
