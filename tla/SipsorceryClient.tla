---------------------------- MODULE SipsorceryClient ----------------------------
(***************************************************************************)
(* The sipsorcery test client: Main against the callbacks of its peer       *)
(* connection and data channel, which the library runs on threads of its    *)
(* own.  They share success and the event testComplete.                     *)
(***************************************************************************)
VARIABLES
    testType,       \* the test asked for on the command line
    main,           \* where Main is
    onClosed,       \* testComplete.Set is subscribed to pc.OnClosed
    success,
    testComplete,   \* the event is set
    conn,           \* the state of the peer connection
    notice,         \* the state change its callback is about to be called for
    handshake,      \* history: the connection was connected once
    dc,             \* the data channel and the echo
    pendingSet,     \* a callback has set success and is about to Set the event
    exit            \* what Main returned, "crash" for an unhandled exception

link == <<conn, handshake>>
vars == <<testType, main, onClosed, success, testComplete, link, notice, dc,
          pendingSet, exit>>

TypeOK ==
    /\ testType \in {"PeerConnection", "DataChannelEcho"}
    /\ main \in {"setup", "post", "apply", "hook", "start", "wait", "close", "delay",
                 "return", "exited"}
    /\ onClosed \in BOOLEAN /\ success \in BOOLEAN
    /\ testComplete \in BOOLEAN /\ pendingSet \in BOOLEAN /\ handshake \in BOOLEAN
    /\ conn \in {"new", "connecting", "connected", "disconnected", "failed", "closed"}
    /\ notice \in {"none", "connected", "lost"}
    /\ dc \in {"closed", "sent", "echoed", "garbled"}
    /\ exit \in {"running", "success", "failure", "crash"}

Init ==
    /\ testType \in {"PeerConnection", "DataChannelEcho"}
    /\ main = "setup"
    /\ onClosed = FALSE /\ success = FALSE
    /\ testComplete = FALSE /\ pendingSet = FALSE
    /\ conn = "new" /\ handshake = FALSE
    /\ notice = "none"
    /\ dc = "closed"
    /\ exit = "running"

Alive == main # "exited"

--------------------------------------------------------------------------------
(* Main                                                                     *)

\* One stretch of Main ends well or throws, which ends the process.
Proceed(from, to) ==
    /\ main = from
    /\ \/ main' = to /\ UNCHANGED exit
       \/ main' = "exited" /\ exit' = "crash"

\* The peer connection, its local offer and the callbacks.
Setup ==
    /\ Proceed("setup", "post")
    /\ UNCHANGED <<testType, onClosed, success, testComplete, link, notice, dc, pendingSet>>

Post ==
    /\ Proceed("post", "apply")
    /\ UNCHANGED <<testType, onClosed, success, testComplete, link, notice, dc, pendingSet>>

\* An answer that cannot be parsed or set is logged, and the test goes on; what
\* setRemoteDescription throws is not caught.
Apply ==
    /\ Proceed("apply", "hook")
    /\ conn' \in IF exit' = "crash" THEN {conn} ELSE {conn, "connecting"}
    /\ UNCHANGED <<testType, onClosed, success, testComplete, handshake, notice, dc, pendingSet>>

\* pc.OnClosed += testComplete.Set; a connection closed before is not noticed.
Hook ==
    /\ main = "hook"
    /\ main' = "start"
    /\ onClosed' = TRUE
    /\ UNCHANGED <<testType, success, testComplete, link, notice, dc, pendingSet, exit>>

Start ==
    /\ Proceed("start", "wait")
    /\ UNCHANGED <<testType, onClosed, success, testComplete, link, notice, dc, pendingSet>>

\* testComplete.Wait returns because the event is set ...
Woken ==
    /\ main = "wait"
    /\ testComplete
    /\ main' = "close"
    /\ UNCHANGED <<testType, onClosed, success, testComplete, link, notice, dc, pendingSet, exit>>

\* Mutant: no timeout at all.
TimeoutNever == FALSE /\ UNCHANGED vars

\* ... or after pcTimeout seconds, the option --timeout, which for 0 is at once.
Timeout ==
    /\ main = "wait"
    /\ ~testComplete
    /\ main' = "close"
    /\ UNCHANGED <<testType, onClosed, success, testComplete, link, notice, dc, pendingSet, exit>>

\* pc.close() and pc.Close(reason); OnClosed is raised for the first of them.
ClosePc ==
    /\ conn' = "closed"
    /\ testComplete' = (testComplete \/ (onClosed /\ conn # "closed"))
    /\ UNCHANGED handshake

\* Close what is still open and give it a second.
CloseIfOpen ==
    /\ main = "close"
    /\ main' = IF conn = "closed" THEN "return" ELSE "delay"
    /\ ClosePc
    /\ UNCHANGED <<testType, onClosed, success, notice, dc, pendingSet, exit>>

Delay ==
    /\ main = "delay"
    /\ main' = "return"
    /\ UNCHANGED <<testType, onClosed, success, testComplete, link, notice, dc, pendingSet, exit>>

Return ==
    /\ main = "return"
    /\ main' = "exited"
    /\ exit' = IF success THEN "success" ELSE "failure"
    /\ UNCHANGED <<testType, onClosed, success, testComplete, link, notice, dc, pendingSet>>

--------------------------------------------------------------------------------
(* Callbacks                                                                *)

\* The state of the peer connection changes; its callback is called next.
StateChanges ==
    /\ Alive
    /\ notice = "none"
    /\ \/ conn = "connecting" /\ conn' = "connected" /\ notice' = "connected"
       \/ conn = "connecting" /\ conn' = "failed" /\ notice' = "lost"
       \/ conn = "connected" /\ conn' = "disconnected" /\ notice' = "lost"
    /\ handshake' = (handshake \/ conn' = "connected")
    /\ UNCHANGED <<testType, main, onClosed, success, testComplete, dc, pendingSet, exit>>

\* Mutant: testComplete.Set() before success is assigned.
OnConnectedSetFirst ==
    /\ Alive
    /\ notice = "connected"
    /\ \/ /\ testType = "PeerConnection" /\ ~testComplete
          /\ testComplete' = TRUE
          /\ UNCHANGED <<notice, success>>
       \/ /\ testType = "PeerConnection" => testComplete
          /\ notice' = "none"
          /\ success' = (success \/ testType = "PeerConnection")
          /\ UNCHANGED testComplete
    /\ UNCHANGED <<testType, main, onClosed, link, dc, pendingSet, exit>>

\* The callback for connected, which is the success of one of the tests.
OnConnected ==
    /\ Alive
    /\ notice = "connected"
    /\ notice' = "none"
    /\ IF testType = "PeerConnection"
       THEN success' = TRUE /\ pendingSet' = TRUE
       ELSE UNCHANGED <<success, pendingSet>>
    /\ UNCHANGED <<testType, main, onClosed, testComplete, link, dc, exit>>

\* testComplete.Set() of the callback that has set success.
SetComplete ==
    /\ Alive
    /\ pendingSet
    /\ pendingSet' = FALSE
    /\ testComplete' = TRUE
    /\ UNCHANGED <<testType, main, onClosed, success, link, notice, dc, exit>>

\* Mutant: success is set whatever the connection came to.
OnLostSucceeds ==
    /\ Alive
    /\ notice = "lost"
    /\ notice' = "none"
    /\ success' = TRUE
    /\ ClosePc
    /\ UNCHANGED <<testType, main, onClosed, dc, pendingSet, exit>>

\* The callback for disconnected and failed closes the connection.
OnLost ==
    /\ Alive
    /\ notice = "lost"
    /\ notice' = "none"
    /\ ClosePc
    /\ UNCHANGED <<testType, main, onClosed, success, dc, pendingSet, exit>>

\* dc.onopen sends the pseudo-random string.
OnOpen ==
    /\ Alive
    /\ conn = "connected"
    /\ dc = "closed"
    /\ dc' = "sent"
    /\ UNCHANGED <<testType, main, onClosed, success, testComplete, link, notice, pendingSet, exit>>

\* dc.onmessage compares the echo with the string sent.
OnMessage ==
    /\ Alive
    /\ conn = "connected"
    /\ dc = "sent"
    /\ dc' \in {"echoed", "garbled"}
    /\ IF dc' = "echoed" /\ testType = "DataChannelEcho"
       THEN success' = TRUE /\ pendingSet' = TRUE
       ELSE UNCHANGED <<success, pendingSet>>
    /\ UNCHANGED <<testType, main, onClosed, testComplete, link, notice, exit>>

--------------------------------------------------------------------------------

MainStep ==
    \/ Setup \/ Hook \/ Start \/ Woken \/ Timeout \/ CloseIfOpen \/ Delay \/ Return

Callback == OnConnected \/ OnLost \/ SetComplete

Next ==
    \/ MainStep \/ Post \/ Apply
    \/ Callback \/ StateChanges \/ OnOpen \/ OnMessage

Spec == Init /\ [][Next]_vars

--------------------------------------------------------------------------------
(* Properties.                                                              *)

\* The condition of the test, of which success is the client's own opinion.
Met == IF testType = "PeerConnection" THEN handshake ELSE dc = "echoed"

TV == INSTANCE TestVerdict WITH
        met <- Met,
        verdict <- IF exit = "crash" THEN "failure" ELSE exit

\* Main returns 0 only for a completed handshake or, in the data channel test,
\* an identical echo, in every interleaving of Main, callbacks and timeout.
ImplementsTestVerdict == TV!Spec

================================================================================
