------------------------------- MODULE PionClient -------------------------------
(***************************************************************************)
(* The pion test client: main, which makes the offer, posts it and waits    *)
(* for its context, against the connection state handlers, each of which    *)
(* pion runs in a goroutine of its own.  They share connectResult and the   *)
(* context ctx, which also ends by itself after 10 seconds.                 *)
(***************************************************************************)
EXTENDS Integers, Sequences

\* MaxChanges bounds the state changes the library reports with a handler call.
CONSTANT MaxChanges

ASSUME MaxChangesAssumption == MaxChanges \in Nat \ {0}

VARIABLES
    main,           \* where main is
    ctx,            \* the handler call (its state) or timeout that ended ctx, or "live"
    connectResult,
    conn,           \* the connection state of peerConnection
    handlers,       \* the calls of the state handler: for which state, how far
    exit            \* the exit status, or Running

clientVars == <<main, ctx, connectResult, conn, handlers, exit>>

Running == -1
SUCCESS_RETURN_VALUE == 0
ERROR_RETURN_VALUE == 1

ConnStates == {"new", "connecting", "connected", "disconnected", "failed", "closed"}

ClientTypeOK ==
    /\ main \in {"setup", "gather", "post", "apply", "select", "decide", "exited"}
    /\ ctx \in {"live", "expired"} \cup ConnStates
    /\ connectResult \in BOOLEAN
    /\ conn \in ConnStates
    /\ handlers \in Seq([state : ConnStates, at : {"result", "close", "cancel", "done"}])
    /\ exit \in {Running, SUCCESS_RETURN_VALUE, ERROR_RETURN_VALUE}

ClientInit ==
    /\ main = "setup"
    /\ ctx = "live"
    /\ connectResult = FALSE
    /\ conn = "new"
    /\ handlers = <<>>
    /\ exit = Running

--------------------------------------------------------------------------------
(* main                                                                     *)

Alive == main # "exited"

Exit(status) == main' = "exited" /\ exit' = status

\* One stretch of main ends well, or panics: the deferred function recovers and
\* exits.
MainProceeds(from, to) ==
    /\ main = from
    /\ \/ main' = to /\ UNCHANGED exit
       \/ Exit(ERROR_RETURN_VALUE)
    /\ UNCHANGED <<ctx, connectResult, conn, handlers>>

\* The context, the peer connection with its track and handlers, the offer.
Setup == MainProceeds("setup", "gather")

\* <-gatherComplete
Gather ==
    /\ main = "gather"
    /\ main' = "post"
    /\ UNCHANGED <<ctx, connectResult, conn, handlers, exit>>

\* POST the offer; http.Client gives up after 10 seconds.
Post == MainProceeds("post", "apply")

\* Decode the answer and set it.
Apply == MainProceeds("apply", "select")

\* <-ctx.Done()
ContextDone ==
    /\ main = "select"
    /\ ctx # "live"
    /\ main' = "decide"
    /\ UNCHANGED <<ctx, connectResult, conn, handlers, exit>>

Decide ==
    /\ main = "decide"
    /\ Exit(IF connectResult THEN SUCCESS_RETURN_VALUE ELSE ERROR_RETURN_VALUE)
    /\ UNCHANGED <<ctx, connectResult, conn, handlers>>

--------------------------------------------------------------------------------
(* The 10 second timeout and the connection state handlers.                 *)

\* Mutant: a context without a timeout.
ExpireNever ==
    /\ FALSE
    /\ UNCHANGED clientVars

Expire ==
    /\ Alive /\ main # "setup"
    /\ ctx = "live"
    /\ ctx' = "expired"
    /\ UNCHANGED <<main, connectResult, conn, handlers, exit>>

Call(state) == [state |-> state, at |-> "result"]

\* The states the connection can go to by itself.
Successors(state) ==
    CASE state = "new" -> {"connecting"}
      [] state = "connecting" -> {"connected", "failed"}
      [] state = "connected" -> {"disconnected"}
      [] state = "disconnected" -> {"connected", "failed"}
      [] OTHER -> {}

\* The handler does nothing for "connecting".
ConnChange ==
    /\ main \in {"select", "decide"}
    /\ Len(handlers) < MaxChanges
    /\ \E state \in Successors(conn) :
        /\ conn' = state
        /\ handlers' = IF state = "connecting" THEN handlers ELSE Append(handlers, Call(state))
    /\ UNCHANGED <<main, ctx, connectResult, exit>>

At(k, from) == Alive /\ handlers[k].at = from
To(k, at) == [handlers EXCEPT ![k].at = at]

\* connectResult = true, for a connection and, the same, for a failure.
SetResult(k) ==
    /\ At(k, "result")
    /\ connectResult' = TRUE
    /\ handlers' = To(k, IF handlers[k].state = "connected" THEN "close" ELSE "cancel")
    /\ UNCHANGED <<main, ctx, conn, exit>>

\* peerConnection.Close(), which reports "closed" to another handler call.
Close(k) ==
    /\ At(k, "close")
    /\ conn' = "closed"
    /\ handlers' = IF conn = "closed" THEN To(k, "cancel")
                                      ELSE Append(To(k, "cancel"), Call("closed"))
    /\ UNCHANGED <<main, ctx, connectResult, exit>>

\* Mutant: cancel() before connectResult is set.
CancelEarly(k) ==
    /\ Alive /\ handlers[k].at \in {"result", "cancel"}
    /\ ctx' = IF ctx = "live" THEN handlers[k].state ELSE ctx
    /\ handlers' = IF handlers[k].at = "cancel" THEN To(k, "done") ELSE handlers
    /\ UNCHANGED <<main, connectResult, conn, exit>>

\* cancel(); it does nothing once ctx has ended.
Cancel(k) ==
    /\ At(k, "cancel")
    /\ ctx' = IF ctx = "live" THEN handlers[k].state ELSE ctx
    /\ handlers' = To(k, "done")
    /\ UNCHANGED <<main, connectResult, conn, exit>>

--------------------------------------------------------------------------------

ClientNext ==
    \/ Setup \/ Gather \/ Post \/ Apply \/ ContextDone \/ Decide
    \/ Expire \/ ConnChange
    \/ \E k \in DOMAIN handlers : SetResult(k) \/ Close(k) \/ Cancel(k)

(***************************************************************************)
(* Fairness: main runs on, the timeout of the context and the one of the    *)
(* HTTP client fire.  Nothing is assumed of the gathering, for which main   *)
(* waits without a timeout, nor of the connection.                          *)
(***************************************************************************)
ClientFairness ==
    /\ WF_clientVars(Setup) /\ WF_clientVars(Post) /\ WF_clientVars(Apply)
    /\ WF_clientVars(ContextDone) /\ WF_clientVars(Decide) /\ WF_clientVars(Expire)

ClientSpec == ClientInit /\ [][ClientNext]_clientVars
FairClientSpec == ClientSpec /\ ClientFairness

--------------------------------------------------------------------------------
(* Properties.                                                              *)

Decided == exit # Running

\* A connection that comes up and ends the wait before the timeout does has its
\* success seen by main: the write of connectResult and the cancel are never seen
\* in the other order, whether the handler of "connected" ends the wait or the one
\* of "closed", which the former's Close() starts, overtakes it.
InTimeResultSeen ==
    /\ ClientTypeOK
    /\ Decided /\ ctx \in {"connected", "closed"} => exit = SUCCESS_RETURN_VALUE

\* The client returns 0 only if the connection came up.  The handler of "failed"
\* and "disconnected" sets connectResult too, so that this does not hold.
SuccessMeansConnected ==
    exit = SUCCESS_RETURN_VALUE => \E k \in DOMAIN handlers : handlers[k].state = "connected"

\* Once the candidates are gathered the client exits, whatever the server, the
\* peer connection and its handlers do or fail to do.
ClientExits == (main = "post") ~> Decided

================================================================================
