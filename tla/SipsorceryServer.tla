---------------------------- MODULE SipsorceryServer ----------------------------
(***************************************************************************)
(* The sipsorcery echo server.  Offer runs as an async task per request;    *)
(* the close timer it arms and the connection state callback of its peer    *)
(* connection run on other threads.  Nothing but these two ever closes a    *)
(* peer connection.                                                         *)
(***************************************************************************)
EXTENDS Naturals, FiniteSets

CONSTANTS
    Requests,
    PcTimeout       \* TestTimeoutSeconds; 0 for no timeout

\* Larger values overflow pcTimeout * 1000 in an Int32, and new Timer throws.
ASSUME PcTimeoutAssumption == PcTimeout \in 0 .. 2147483

\* Only finitely many requests are ever open, so finitely many stand for all.
ASSUME RequestsAssumption == IsFiniteSet(Requests)

VARIABLES
    up,             \* until ctrl-c disposes the web server and Main returns
    task,           \* per request: where Offer is
    pc,             \* per request: its peer connection
    timer,          \* per request: its close timer
    onClosed        \* requests whose timer.Dispose is subscribed to pc.OnClosed

vars == <<up, task, pc, timer, onClosed>>

TypeOK ==
    /\ up \in BOOLEAN
    /\ task \in [Requests -> {"idle", "reading", "remote", "local", "write", "arm", "hook",
                              "done", "empty", "error"}]
    /\ pc \in [Requests -> {"none", "open", "failed", "closed"}]
    /\ timer \in [Requests -> {"none", "armed", "firing", "fired", "disposed"}]
    /\ onClosed \in SUBSET Requests

Init ==
    /\ up = TRUE
    /\ task = [r \in Requests |-> "idle"]
    /\ pc = [r \in Requests |-> "none"]
    /\ timer = [r \in Requests |-> "none"]
    /\ onClosed = {}

--------------------------------------------------------------------------------
(* Offer and GotOffer                                                       *)

Move(r, from, to) ==
    /\ up
    /\ task[r] = from
    /\ task' = [task EXCEPT ![r] = to]

Accept(r) == Move(r, "idle", "reading") /\ UNCHANGED <<up, pc, timer, onClosed>>

\* A body that is not an RTCSessionDescriptionInit throws: status 500.
BadBody(r) == Move(r, "reading", "error") /\ UNCHANGED <<up, pc, timer, onClosed>>

\* The new peer connection with its tracks and callbacks.
NewPeerConnection(r) ==
    /\ Move(r, "reading", "remote")
    /\ pc' = [pc EXCEPT ![r] = "open"]
    /\ UNCHANGED <<up, timer, onClosed>>

\* The SDP does not parse, or createAnswer, setLocalDescription or the write of
\* the answer throws: status 500, and the peer connection is left as it is.
Throws(r) ==
    /\ \E from \in {"remote", "local", "write"} : Move(r, from, "error")
    /\ UNCHANGED <<up, pc, timer, onClosed>>

\* setRemoteDescription is not OK: GotOffer returns null and the reply is empty.
Refused(r) == Move(r, "remote", "empty") /\ UNCHANGED <<up, pc, timer, onClosed>>

RemoteSet(r) == Move(r, "remote", "local") /\ UNCHANGED <<up, pc, timer, onClosed>>

\* createAnswer and setLocalDescription.
LocalSet(r) == Move(r, "local", "write") /\ UNCHANGED <<up, pc, timer, onClosed>>

\* The answer is written; with a timeout the close timer comes next.
WriteAnswer(r) ==
    /\ Move(r, "write", IF PcTimeout = 0 THEN "done" ELSE "arm")
    /\ UNCHANGED <<up, pc, timer, onClosed>>

\* Mutant: the timer is made with an infinite due time.
ArmTimerIdle(r) ==
    /\ Move(r, "arm", "hook")
    /\ UNCHANGED <<up, pc, timer, onClosed>>

ArmTimer(r) ==
    /\ Move(r, "arm", "hook")
    /\ timer' = [timer EXCEPT ![r] = "armed"]
    /\ UNCHANGED <<up, pc, onClosed>>

\* pc.OnClosed += timeout.Dispose; the connection may have closed before.
HookDispose(r) ==
    /\ Move(r, "hook", "done")
    /\ onClosed' = onClosed \cup {r}
    /\ UNCHANGED <<up, pc, timer>>

--------------------------------------------------------------------------------
(* The timer and the callbacks of the peer connection.                      *)

\* Close, and the handlers of OnClosed with it.  Dispose stops an armed timer
\* but not a callback that has begun.
ClosePc(r) ==
    /\ pc' = [pc EXCEPT ![r] = "closed"]
    /\ timer' = [timer EXCEPT ![r] = IF r \in onClosed /\ @ = "armed" THEN "disposed" ELSE @]

Fire(r) ==
    /\ up
    /\ timer[r] = "armed"
    /\ timer' = [timer EXCEPT ![r] = "firing"]
    /\ UNCHANGED <<up, task, pc, onClosed>>

\* The callback of the timer: if (!pc.IsClosed) pc.close().
TimedOut(r) ==
    /\ up
    /\ timer[r] = "firing"
    /\ pc' = [pc EXCEPT ![r] = "closed"]
    /\ timer' = [timer EXCEPT ![r] = "fired"]
    /\ UNCHANGED <<up, task, onClosed>>

\* The connection fails, which it can do as soon as the answer is set; after an
\* error that may have been the case or not.
ConnectionFails(r) ==
    /\ up
    /\ task[r] \in {"write", "arm", "hook", "done", "error"}
    /\ pc[r] = "open"
    /\ pc' = [pc EXCEPT ![r] = "failed"]
    /\ UNCHANGED <<up, task, timer, onClosed>>

\* onconnectionstatechange for failed: pc.Close.
OnFailed(r) ==
    /\ up
    /\ pc[r] = "failed"
    /\ ClosePc(r)
    /\ UNCHANGED <<up, task, onClosed>>

\* ctrl-c
Stop ==
    /\ up
    /\ up' = FALSE
    /\ UNCHANGED <<task, pc, timer, onClosed>>

--------------------------------------------------------------------------------

\* What a request does by itself, once it has come.
Step(r) ==
    \/ BadBody(r) \/ NewPeerConnection(r) \/ Throws(r) \/ Refused(r)
    \/ RemoteSet(r) \/ LocalSet(r) \/ WriteAnswer(r) \/ ArmTimer(r) \/ HookDispose(r)
    \/ Fire(r) \/ TimedOut(r) \/ ConnectionFails(r) \/ OnFailed(r)

Next == (\E r \in Requests : Accept(r) \/ Step(r)) \/ Stop

Spec == Init /\ [][Next]_vars

--------------------------------------------------------------------------------
(* Properties.                                                              *)

Status(r) ==
    CASE task[r] = "idle" -> "idle"
      [] task[r] \in {"arm", "hook", "done"} -> "answered"
      [] task[r] \in {"empty", "error"} -> "refused"
      [] OTHER -> "open"

OA == INSTANCE OfferAnswer WITH
        MaxOpen <- Cardinality(Requests),
        status <- [r \in Requests |-> Status(r)]

\* Each request is replied to once, with an answer or without, by a running server.
ImplementsOfferAnswer == OA!Spec

\* With a timeout set, an answered connection that is still open has its timer
\* running or about to be armed: neither the failure of the connection nor the
\* order of Close and OnClosed += Dispose can take the guard away.
OpenIsGuarded ==
    \A r \in Requests :
        task[r] \in {"hook", "done"} /\ PcTimeout # 0 /\ pc[r] # "closed"
            => timer[r] \in {"armed", "firing"}

\* No answered connection lives for ever when a timeout is set.
AnsweredCloses ==
    \A r \in Requests :
        (task[r] = "arm") ~> (pc[r] = "closed" \/ ~up)

================================================================================
