-------------------------- MODULE LibdatachannelServer --------------------------
(***************************************************************************)
(* The libdatachannel echo server.  Each POST runs on a worker thread of    *)
(* httplib, which waits for a promise on its own stack; the callbacks of    *)
(* the peer connection run on threads of the library and hold a reference   *)
(* to that promise.  An exception ends the handler in a 500.                *)
(***************************************************************************)
EXTENDS FiniteSets

CONSTANT Requests

\* Only finitely many requests are ever open, so finitely many stand for all.
ASSUME RequestsAssumption == IsFiniteSet(Requests)

VARIABLES
    up,             \* until the process ends
    handler,        \* per request: where the POST handler is
    gathering,      \* per request: the ICE gathering of its peer connection
    promise,        \* per request: the promise, "dead" once its handler returned
    pc,             \* per request: the state of its peer connection
    usedDead        \* requests whose callback wrote to a promise that was dead

serverVars == <<up, handler, gathering, promise, pc, usedDead>>

ServerTypeOK ==
    /\ up \in BOOLEAN
    /\ handler \in [Requests -> {"idle", "parse", "negotiate", "wait", "answered", "refused",
                               "threw"}]
    /\ gathering \in [Requests -> {"new", "running", "complete"}]
    /\ promise \in [Requests -> {"none", "pending", "value", "exception", "dead"}]
    /\ pc \in [Requests -> {"none", "open", "connected", "disconnected", "failed", "closed"}]
    /\ usedDead \subseteq Requests

ServerInit ==
    /\ up = TRUE
    /\ handler = [r \in Requests |-> "idle"]
    /\ gathering = [r \in Requests |-> "new"]
    /\ promise = [r \in Requests |-> "none"]
    /\ pc = [r \in Requests |-> "none"]
    /\ usedDead = {}

--------------------------------------------------------------------------------
(* The POST handler                                                         *)

Move(r, from, to) ==
    /\ up
    /\ handler[r] = from
    /\ handler' = [handler EXCEPT ![r] = to]

Accept(r) == Move(r, "idle", "parse") /\ UNCHANGED <<up, gathering, promise, pc, usedDead>>

\* The body is not JSON, has no sdp or type, or is not a description: a throw.
BadBody(r) == Move(r, "parse", "threw") /\ UNCHANGED <<up, gathering, promise, pc, usedDead>>

\* The peer connection, the promise and the callbacks.
NewPeerConnection(r) ==
    /\ Move(r, "parse", "negotiate")
    /\ pc' = [pc EXCEPT ![r] = "open"]
    /\ promise' = [promise EXCEPT ![r] = "pending"]
    /\ UNCHANGED <<up, gathering, usedDead>>

\* setRemoteDescription makes the answer and begins to gather before it returns.
BeginGathering(r) ==
    /\ up
    /\ handler[r] = "negotiate"
    /\ gathering[r] = "new"
    /\ gathering' = [gathering EXCEPT ![r] = "running"]
    /\ UNCHANGED <<up, handler, promise, pc, usedDead>>

SetRemoteDescription(r) ==
    /\ Move(r, "negotiate", "wait")
    /\ gathering[r] # "new"
    /\ UNCHANGED <<up, gathering, promise, pc, usedDead>>

\* setRemoteDescription throws, before or after it began to gather: the promise
\* goes with the stack, the peer connection lives on in its own callbacks.
SetRemoteThrows(r) ==
    /\ Move(r, "negotiate", "threw")
    /\ promise' = [promise EXCEPT ![r] = "dead"]
    /\ UNCHANGED <<up, gathering, pc, usedDead>>

\* Mutant: the wait is given a timeout that throws.
FutureGetTimed(r) ==
    /\ \/ promise[r] = "value" /\ Move(r, "wait", "answered")
       \/ promise[r] # "value" /\ Move(r, "wait", "refused")
    /\ promise' = [promise EXCEPT ![r] = "dead"]
    /\ UNCHANGED <<up, gathering, pc, usedDead>>

\* future.get() without a timeout: the answer, or the exception of the callback.
FutureGet(r) ==
    /\ \/ promise[r] = "value" /\ Move(r, "wait", "answered")
       \/ promise[r] = "exception" /\ Move(r, "wait", "refused")
    /\ promise' = [promise EXCEPT ![r] = "dead"]
    /\ UNCHANGED <<up, gathering, pc, usedDead>>

--------------------------------------------------------------------------------
(* Callbacks of the peer connection                                         *)

\* Mutant: the catch clause of the callback swallows what it caught.
GatheringCompleteSwallow(r) ==
    /\ up
    /\ gathering[r] = "running"
    /\ gathering' = [gathering EXCEPT ![r] = "complete"]
    /\ \/ /\ promise[r] = "pending"
          /\ \E v \in {"value", "pending"} : promise' = [promise EXCEPT ![r] = v]
          /\ UNCHANGED <<up, usedDead>>
       \/ /\ promise[r] = "dead"
          /\ usedDead' = usedDead \cup {r}
          /\ up' \in BOOLEAN
          /\ UNCHANGED promise
    /\ UNCHANGED <<handler, pc>>

\* Gathering is complete: the local description, or the exception of making it,
\* goes to the promise.  Writing to a dead one is undefined: it may do nothing
\* and it may end the process.
GatheringComplete(r) ==
    /\ up
    /\ gathering[r] = "running"
    /\ gathering' = [gathering EXCEPT ![r] = "complete"]
    /\ \/ /\ promise[r] = "pending"
          /\ \E v \in {"value", "exception"} : promise' = [promise EXCEPT ![r] = v]
          /\ UNCHANGED <<up, usedDead>>
       \/ /\ promise[r] = "dead"
          /\ usedDead' = usedDead \cup {r}
          /\ up' \in BOOLEAN
          /\ UNCHANGED promise
    /\ UNCHANGED <<handler, pc>>

\* The library moves the connection once there is a local description.
ConnectionChanges(r) ==
    /\ up
    /\ gathering[r] # "new"
    /\ \/ pc[r] = "open" /\ pc' = [pc EXCEPT ![r] = "connected"]
       \/ pc[r] = "open" /\ pc' = [pc EXCEPT ![r] = "failed"]
       \/ pc[r] = "connected" /\ pc' = [pc EXCEPT ![r] = "disconnected"]
    /\ UNCHANGED <<up, handler, gathering, promise, usedDead>>

\* onStateChange closes a disconnected connection and ignores a failed one.
OnDisconnected(r) ==
    /\ up
    /\ pc[r] = "disconnected"
    /\ pc' = [pc EXCEPT ![r] = "closed"]
    /\ UNCHANGED <<up, handler, gathering, promise, usedDead>>

\* onMessage of a data channel and of a track: what came goes back.
Echo(msg) == msg

\* listen fails, before any request.
ListenFails ==
    /\ up
    /\ \A r \in Requests : handler[r] = "idle"
    /\ up' = FALSE
    /\ UNCHANGED <<handler, gathering, promise, pc, usedDead>>

--------------------------------------------------------------------------------

ServerStep(r) ==
    \/ BadBody(r) \/ NewPeerConnection(r) \/ BeginGathering(r)
    \/ SetRemoteDescription(r) \/ SetRemoteThrows(r) \/ FutureGet(r)
    \/ GatheringComplete(r) \/ OnDisconnected(r)

--------------------------------------------------------------------------------
(* Properties.                                                              *)

Status(r) ==
    IF handler[r] \in {"idle", "answered"} THEN handler[r]
    ELSE IF handler[r] \in {"refused", "threw"} THEN "refused"
    ELSE "open"

OA == INSTANCE OfferAnswer WITH
        MaxOpen <- Cardinality(Requests),
        status <- [r \in Requests |-> Status(r)]

\* A POST is replied to once, by its own handler, with the local description the
\* callback made or with a 500; an exception in the callback reaches the handler.
ImplementsOfferAnswer == OA!Spec

\* Only a setRemoteDescription that throws leaves a running gathering callback
\* with a dead promise; a handler that leaves through the promise never does.
DeadPromiseOnlyAfterThrow == \A r \in usedDead : handler[r] = "threw"

\* A handler that waits for the promise is woken, whether the callback could
\* make the description or threw.
WaitEnds == \A r \in Requests : (handler[r] = "wait") ~> (handler[r] # "wait" \/ ~up)

================================================================================
