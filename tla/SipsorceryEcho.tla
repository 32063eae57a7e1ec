----------------------------- MODULE SipsorceryEcho -----------------------------
(***************************************************************************)
(* The sipsorcery client against an echo server: the sipsorcery one, whose  *)
(* close timer runs while the client tests, or any other one.               *)
(***************************************************************************)
EXTENDS SipsorceryServer

CONSTANT Mine       \* the request of the client

ASSUME MineAssumption == Mine \in Requests

VARIABLES
    peer,           \* which server the client talks to: "ours" or "other"
    testType, main, cOnClosed, success, testComplete, conn, handshake, notice,
    dc, pendingSet, exit

C == INSTANCE SipsorceryClient WITH onClosed <- cOnClosed

clientVars == <<testType, main, cOnClosed, success, testComplete, conn, handshake,
                notice, dc, pendingSet, exit>>
echoVars == <<vars, clientVars, peer>>

EchoInit == Init /\ C!Init /\ peer \in {"ours", "other"}

Serve(A) == A /\ UNCHANGED <<clientVars, peer>>
Run(A) == A /\ UNCHANGED <<vars, peer>>

Other == peer = "other"

--------------------------------------------------------------------------------
(* Where they meet                                                          *)

\* The client's offer arrives while the client waits for the reply.
Deliver == Serve(peer = "ours" /\ main = "post" /\ Accept(Mine))

\* The POST throws at any time, or returns what the server wrote.
Reply == Run(C!Post /\ (main' = "apply" => Other \/ Status(Mine) \in {"answered", "refused"}))

\* Mutant: the reply is set as the answer whatever it is.
ApplyAnything == Run(C!Apply)

\* TryParse and setRemoteDescription take an answer only.
ApplyAnswer == Run(C!Apply /\ (conn' = "connecting" => Other \/ Status(Mine) = "answered"))

\* The connection comes up while the server's end is open.
Connection == Run(C!StateChanges /\ (conn' = "connected" => Other \/ (up /\ pc[Mine] = "open")))

\* The echo of the sipsorcery server is what it was sent.
Message == Run(C!OnMessage /\ (dc' = "garbled" => Other))

--------------------------------------------------------------------------------

EchoNext ==
    \/ Deliver \/ Reply \/ ApplyAnswer \/ Connection \/ Message
    \/ Run(C!MainStep) \/ Run(C!Callback) \/ Run(C!OnOpen)
    \/ \E r \in Requests \ {Mine} : Serve(Accept(r))
    \/ \E r \in Requests : Serve(Step(r))
    \/ Serve(Stop)

(***************************************************************************)
(* Fairness: a task of the server that does not wait for the network runs   *)
(* on, an armed timer fires, a callback is called; Main runs on (HttpClient *)
(* gives up after 100 seconds by itself) and its wait times out.            *)
(***************************************************************************)
EchoFairness ==
    /\ \A r \in Requests :
        /\ WF_echoVars(Serve(ArmTimer(r))) /\ WF_echoVars(Serve(HookDispose(r)))
        /\ WF_echoVars(Serve(Fire(r))) /\ WF_echoVars(Serve(TimedOut(r)))
        /\ WF_echoVars(Serve(OnFailed(r)))
    /\ WF_echoVars(Run(C!MainStep)) /\ WF_echoVars(Reply) /\ WF_echoVars(ApplyAnswer)

EchoSpec == EchoInit /\ [][EchoNext]_echoVars /\ EchoFairness

--------------------------------------------------------------------------------
(* Properties.                                                              *)

\* The server implements the offer/answer service and the client the verdict of
\* the test, each as if it did not know the other.
Implements == ImplementsOfferAnswer /\ C!ImplementsTestVerdict

\* A test that succeeds was answered by the server: a reply without an answer, or
\* one that comes when the POST has failed, leads to no success, in either test.
\* And a callback that ends the wait of Main by a Set has assigned success before:
\* while the connection is open nothing else sets the event.
SuccessIsEndToEnd ==
    /\ TypeOK /\ C!TypeOK
    /\ exit = "success" /\ peer = "ours" => Status(Mine) = "answered"
    /\ testComplete /\ conn # "closed" => success

\* Main returns, even if the connection was closed before OnClosed was hooked, by
\* the client's callbacks or by the server's timer; and no connection the server
\* answered lives for ever.
BothEnd == <>(exit # "running") /\ AnsweredCloses

================================================================================
