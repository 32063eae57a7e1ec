----------------------------- MODULE WebrtcRsClient -----------------------------
(***************************************************************************)
(* The webrtc-rs test client: main, and the state handler the library       *)
(* awaits for one change after the other.  The handler tells main through   *)
(* the channel done, or ends the process itself.                            *)
(***************************************************************************)
VARIABLES
    main,       \* where main is
    conn,       \* the state of the peer connection
    notice,     \* the state the handler is about to run for
    done,       \* the channel, of capacity one, holds a message
    exit        \* the exit status: a ? in main is a failure

vars == <<main, conn, notice, done, exit>>

TypeOK ==
    /\ main \in {"setup", "gather", "post", "apply", "select", "close", "return", "exited"}
    /\ conn \in {"new", "connecting", "connected", "lost", "closed"}
    /\ notice \in {"none", "connected", "lost", "closed"}
    /\ done \in BOOLEAN
    /\ exit \in {"running", "success", "failure"}

Init ==
    /\ main = "setup"
    /\ conn = "new"
    /\ notice = "none"
    /\ done = FALSE
    /\ exit = "running"

--------------------------------------------------------------------------------
(* main                                                                     *)

\* One stretch of main: it goes on, or its ? or unwrap ends the process.
Proceed(from, to) ==
    /\ main = from
    /\ \/ main' = to /\ UNCHANGED exit
       \/ main' = "exited" /\ exit' = "failure"

\* The peer connection, its track, the offer and the handlers.
Setup == Proceed("setup", "gather") /\ UNCHANGED <<conn, notice, done>>

Gather == Proceed("gather", "post") /\ UNCHANGED <<conn, notice, done>>

\* Mutant: a request that fails is only logged.
PostLogged(answered) ==
    /\ main = "post"
    /\ main' = "apply"
    /\ UNCHANGED <<conn, notice, done, exit>>

\* The POST, without a timeout, and the body of its reply as a description.
Post(answered) ==
    /\ \/ answered /\ Proceed("post", "apply")
       \/ ~answered /\ main = "post" /\ main' = "exited" /\ exit' = "failure"
    /\ UNCHANGED <<conn, notice, done>>

Apply ==
    /\ Proceed("apply", "select")
    /\ conn' = IF main' = "select" THEN "connecting" ELSE conn
    /\ UNCHANGED <<notice, done>>

\* Mutant: the timer is never polled.
SelectDoneOnly ==
    /\ main = "select"
    /\ done
    /\ main' = "close"
    /\ done' = FALSE
    /\ UNCHANGED <<conn, notice, exit>>

\* The channel has a message, or ten seconds are over.
Select ==
    /\ main = "select"
    /\ main' = "close"
    /\ done' \in {done, FALSE}
    /\ UNCHANGED <<conn, notice, exit>>

\* close() makes the state Closed, for which the handler is called again.
Close ==
    /\ main = "close"
    /\ main' = "return"
    /\ conn' = "closed"
    /\ notice' = "closed"
    /\ UNCHANGED <<done, exit>>

Return ==
    /\ main = "return"
    /\ main' = "exited"
    /\ exit' \in {"success", "failure"}
    /\ UNCHANGED <<conn, notice, done>>

--------------------------------------------------------------------------------
(* The state handler                                                        *)

Changes ==
    /\ main # "exited"
    /\ notice = "none"
    /\ \/ conn = "connecting" /\ conn' = "connected" /\ notice' = "connected"
       \/ conn \in {"connecting", "connected"} /\ conn' = "lost" /\ notice' = "lost"
    /\ UNCHANGED <<main, done, exit>>

\* send().await, which waits while the channel is full.
OnConnected ==
    /\ main # "exited"
    /\ notice = "connected"
    /\ ~done
    /\ done' = TRUE
    /\ notice' = "none"
    /\ UNCHANGED <<main, conn, exit>>

\* Disconnected, Failed and Closed end the process with SUCCESS_RETURN_VALUE.
OnLostOrClosed ==
    /\ main # "exited"
    /\ notice \in {"lost", "closed"}
    /\ main' = "exited"
    /\ exit' = "success"
    /\ UNCHANGED <<conn, notice, done>>

ClientStep ==
    \/ Setup \/ Gather \/ Apply \/ Select \/ Close \/ Return
    \/ OnConnected \/ OnLostOrClosed

================================================================================
