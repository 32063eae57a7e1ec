------------------------------ MODULE WebrtcRsEcho ------------------------------
(***************************************************************************)
(* The webrtc-rs client against the webrtc-rs server, which has other peers *)
(* as well.  hyper closes the HTTP connection of a handler that panics, and *)
(* the client's request then ends in an error.                              *)
(***************************************************************************)
EXTENDS WebrtcRsServer

CONSTANT Mine       \* the server's peer that is the client

ASSUME MineAssumption == Mine \in Peers

VARIABLES main, conn, notice, done, exit

C == INSTANCE WebrtcRsClient

clientVars == <<main, conn, notice, done, exit>>
echoVars == <<vars, clientVars>>

EchoInit == Init /\ C!Init

Serve(A) == A /\ UNCHANGED clientVars
Run(A) == A /\ UNCHANGED vars

--------------------------------------------------------------------------------

\* The client's offer arrives while the client waits for the reply.
Deliver == Serve(main = "post" /\ Decode(Mine))

\* The reply, an error once the handler has panicked, or one of the network.
Reply ==
    \/ Run(offer[Mine] = "replied" /\ C!Post(TRUE))
    \/ Run(offer[Mine] \in {"panicked", "unreplied"} /\ C!Post(FALSE))

NetworkFails == Run(C!Post(FALSE))

\* The two ends of a connection come up after the answer is set.
ServerConnects(p) == Serve((p = Mine => conn # "new") /\ Connect(p))

ClientChanges == Run(C!Changes)

EchoNext ==
    \/ Deliver \/ Reply \/ NetworkFails \/ ClientChanges
    \/ Run(C!ClientStep)
    \/ \E p \in Peers \ {Mine} : Serve(Decode(p))
    \/ \E p \in Peers :
        \/ ServerConnects(p)
        \/ Serve(Step(p))

(***************************************************************************)
(* Fairness: tokio's Mutex serves its waiters in the order they came, so    *)
(* none of them is passed over for ever (strong fairness), and the task     *)
(* that holds it runs on; close() returns.  The client runs on, and its     *)
(* request ends when the handler has; that itself may take for ever.        *)
(***************************************************************************)
EchoFairness ==
    /\ \A p \in Peers :
        /\ SF_echoVars(Serve(Push(p))) /\ SF_echoVars(Serve(LockForRemoval(p)))
        /\ WF_echoVars(Serve(CloseMatching(p))) /\ WF_echoVars(Serve(Retain(p)))
    /\ WF_echoVars(Reply) /\ WF_echoVars(Run(C!ClientStep))

EchoSpec == EchoInit /\ [][EchoNext]_echoVars /\ EchoFairness

--------------------------------------------------------------------------------
(* Properties.                                                              *)

\* The client exits with 0 without a connection when it fails or times out, but
\* never without an answer of the server that is set.
SuccessMeansAnswered ==
    /\ TypeOK /\ C!TypeOK
    /\ exit = "success" => offer[Mine] = "replied" /\ conn # "new"

\* A handler that panics, in whatever state it leaves the server, is a failed
\* test at the client; and with the answer the client exits, although the channel
\* may be full and the handler and main both try to end the process.
ClientReports ==
    /\ (offer[Mine] \in {"panicked", "unreplied"}) ~> (exit = "failure")
    /\ (main = "select") ~> (exit # "running")

================================================================================
